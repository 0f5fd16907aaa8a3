----------------------------- MODULE MCRtlRun ------------------------------
(* Two programs, one of them the boot program; two versions of the RTL: a   *)
(* right one, and one that ends early, garbles the console, prints nothing  *)
(* or hangs.                                                                *)
EXTENDS RtlRun

CONSTANTS hello, boot, r1, r2

C(i, pc, v) == [Blank EXCEPT !.cycle = i, !.pc = pc, !.rd = 1, !.value = v]
Stream(v) == <<C(1, 4, 1), C(2, 5, v), C(3, 6, 3)>>

Line(data) == [data |-> data, frames |-> Len(data), clean |-> TRUE, even |-> Len(data) > 1]
Does(end, s, rec) == [end |-> end, commits |-> s, uart |-> rec]
Hi == <<7, 8>>
Zed == <<9>>

Good == (hello :> Does("pass", Stream(2), Line(Hi))) @@ (boot :> Does("pass", Stream(2), Line(Zed)))
EndsEarly == (hello :> Good[hello])
             @@ (boot :> Does("pass", SubSeq(Stream(2), 1, 2), [Line(Zed) EXCEPT !.clean = FALSE]))
Hangs == (hello :> Does("hang", <<>>, Line(<<>>))) @@ (boot :> Good[boot])
MCCore == <<("beat" :> Good) @@ ("dram" :> Good), ("beat" :> EndsEarly) @@ ("dram" :> Hangs)>>

MCPrograms == {hello, boot}
MCGolden == (hello :> <<Stream(2), Stream(5)>>) @@ (boot :> <<Stream(2)>>)
MCExpected == (hello :> Hi) @@ (boot :> Zed)

\* the window is 32..79, the device tree at 64; a program of two segments, one
\* of them longer than a hex line, whose next version has no tohost, and one with
\* an incomplete word that runs into the device tree
Ph(load, addr, data) == [load |-> load, addr |-> addr, data |-> data]
Elf(entry, phdrs, syms) == [kind |-> "elf", entry |-> entry, phdrs |-> phdrs, symbols |-> syms]
Sym(n, v) == [name |-> n, value |-> v]
Text(n) == [i \in 1..n |-> i]
Tohost == <<Sym("tohost", 60), Sym("tohost", 61)>>
Zeros(n, i, j) == [k \in 1..n |-> IF k \in i..j THEN 0 ELSE k]
MCElfs ==
  (hello :> <<Elf(32, <<Ph(TRUE, 32, Zeros(20, 1, 16)), Ph(FALSE, 70, Text(2)), Ph(TRUE, 56, Zeros(8, 1, 4))>>, Tohost),
              Elf(32, <<Ph(TRUE, 32, Text(20))>>, <<>>)>>) @@
  (boot :> <<Elf(40, <<Ph(TRUE, 40, Zeros(26, 6, 22))>>, Tohost)>>)

Stub == [i \in 1..40 |-> IF i = 29 THEN 7 ELSE IF i \in 30..36 THEN 0 ELSE i]
MCRoms == ("hex" :> BuildRom(Stub, 48)) @@ ("elf" :> Elf(16, <<Ph(TRUE, 16, Stub)>>, <<>>))
          @@ ("unstepped" :> BuildRom(Text(8), 48))
MCDtb == <<208, 13, 254>>

Q(mode, programs, fault, uartFault, rebuild, rom, dtb) ==
  [mode |-> mode, programs |-> programs, fault |-> fault, uartFault |-> uartFault,
   rebuild |-> rebuild, rom |-> rom, dtb |-> dtb]
MCRequests ==
  {Q("beat", <<boot, hello>>, Absent, FALSE, FALSE, "hex", FALSE),
   Q("dram", <<hello>>, Absent, TRUE, FALSE, "elf", TRUE),
   Q("beat", <<boot>>, 2, FALSE, FALSE, "hex", FALSE),
   Q("beat", <<"nosuch">>, Absent, FALSE, TRUE, "hex", FALSE),
   Q("beat", <<boot>>, Absent, FALSE, FALSE, "hex", TRUE),
   Q("beat", <<boot>>, Absent, FALSE, FALSE, "unstepped", FALSE)}
=============================================================================
