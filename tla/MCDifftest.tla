----------------------------- MODULE MCDifftest -----------------------------
(* Four programs of up to four effects: integer writes and x0, FP state and *)
(* an AMO, a program that stores zero to tohost first, and one that never   *)
(* makes the exit store.  A core runs them with at most one wrong effect.   *)
EXTENDS Difftest

T == 8      \* tohost
A == 18     \* a data address, lane 2
NoReg == <<"-", Absent>>
Plain(pc, reg, v) == Effect(pc, reg, v, "none", Absent, Absent, Absent, Absent)
Exit(pc, v) == Effect(pc, NoReg, Absent, "store", T, v, Absent, Absent)

Ints == <<Plain(4, <<"x", 2>>, 7), Plain(5, <<"x", 0>>, 3),
          Effect(6, <<"x", 1>>, 7, "load", A, Absent, Absent, Absent), Exit(7, 1)>>
Floats == <<Effect(4, <<"f", 0>>, 7, "none", Absent, Absent, 1, Absent),
            Effect(5, NoReg, Absent, "none", Absent, Absent, 0, 2),
            Effect(6, <<"x", 1>>, 7, "amo", A, 5, Absent, Absent), Exit(7, 1)>>
Twice == <<Plain(4, NoReg, Absent), Exit(5, 0), Exit(6, 1)>>
Endless == <<Plain(4, <<"x", 2>>, 7), Effect(5, NoReg, Absent, "store", A, 1, Absent, Absent)>>

MCBootRom == <<Plain(1, <<"x", 5>>, 4), Plain(2, NoReg, Absent)>>
MCSpin == <<Plain(9, NoReg, Absent), Plain(9, NoReg, Absent)>>

\* one effect gone wrong
Wrong(e) ==
  {[e EXCEPT !.pc = 3],
   [e EXCEPT !.reg = <<"x", 3>>, !.value = 7], [e EXCEPT !.reg = NoReg],
   [e EXCEPT !.reg = IF @[1] = "x" THEN <<"f", @[2]>> ELSE <<"x", @[2]>>],
   [e EXCEPT !.value = 2],
   [e EXCEPT !.mem = "none"], [e EXCEPT !.mem = "load", !.addr = A, !.lanes = {2}],
   [e EXCEPT !.addr = A + 8], [e EXCEPT !.data = 3],
   [e EXCEPT !.lanes = {1, 2}], [e EXCEPT !.lanes = {2, 3}], [e EXCEPT !.lanes = {2, 4}],
   [e EXCEPT !.fflags = 3], [e EXCEPT !.fflags = Absent], [e EXCEPT !.frm = 1]}

Sound(e) == \* an effect a machine can have
  /\ e.reg[1] # "-" => e.reg[2] # Absent /\ e.value # Absent
  /\ e.mem # "none" => e.addr # Absent
  /\ e.mem \in {"store", "amo"} => e.data # Absent

Runs(p) == {p} \cup {SubSeq(p, 1, Len(p) - 1)} \cup {<<p[1]>> \o p} \cup
  {q \in UNION {{[p EXCEPT ![i] = e] : e \in Wrong(p[i])} : i \in DOMAIN p} :
     \A i \in DOMAIN q : Sound(q[i])}

Styles == {"bare", "core", "mem", "masks", "real", "loop", "callback", "model"}
Stops == {NoStop, Stop(T, Absent), Stop(T, 1)}

Case(p, q, style, src, elf, stop, max, cycle, inject) ==
  [prog |-> p, ran |-> q, style |-> style, src |-> src, elf |-> elf, stop |-> stop,
   max |-> max, cycle |-> cycle, inject |-> inject,
   dtb |-> "none", tools |-> {"spike", "dtc"}]

Programs == {Ints, Floats, Twice}
Injections(p) ==
  {Corrupt(i, f, v) : i \in 0..Len(p), v \in {0, 1, 7},
     f \in {"pc", "value", "rd", "cycle", "fflags", "frm", "mem_addr", "mem_wdata"}} \cup
  {Corrupt(i, f, v) : i \in 0..(Len(p) - 1), f \in {"mem_rmask", "mem_wmask"},
     v \in {0, 1, 4, 20}}

MCJobs ==
  UNION {{Case(p, q, y, "elf", TRUE, s, m, c, <<>>) :
            q \in Runs(p), y \in Styles, s \in Stops, m \in {Absent, 2}, c \in BOOLEAN}
           : p \in Programs} \cup
  UNION {{Case(p, p, y, src, elf, s, Absent, TRUE, <<>>) :
            y \in Styles, src \in {"trace", "log", "fixture"}, elf \in BOOLEAN, s \in Stops}
           : p \in Programs \cup {Endless}} \cup
  UNION {{Case(p, p, "callback", "elf", TRUE, s, m, c, <<j>>) :
            j \in Injections(p), s \in Stops, m \in {Absent, 2}, c \in BOOLEAN}
           : p \in Programs} \cup
  {[Case(Ints, q, "masks", src, TRUE, NoStop, Absent, TRUE, <<>>)
      EXCEPT !.dtb = d, !.tools = t] :
     q \in Runs(Ints), src \in {"elf", "trace", "log"}, d \in {"none", "blob", "source"},
     t \in SUBSET {"spike", "dtc"}}
=============================================================================
