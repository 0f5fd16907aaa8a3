---------------------------- MODULE MCLinuxBoot -----------------------------
(* Two commands in an empty or a booted directory; one edit, one crash.  The *)
(* second init makes an initramfs that covers the tree's slot, the second    *)
(* busybox one that does not fit at all; kernel 2 has a bad header, tree 2   *)
(* is too large for the BootROM.                                             *)
EXTENDS LinuxBoot

C(i, v) == [Blank EXCEPT !.cycle = i, !.pc = i, !.rd = 1, !.value = v]
MCFwGolden == <<<<C(1, 1), C(2, 2), C(3, 3)>>, <<C(1, 1), C(2, 9), C(3, 3)>>>>

Text == <<"a", "ready">>
Does1(end, console, off) ==
  [end |-> end, console |-> console, clean |-> TRUE, faults |-> TRUE, off |-> off]
Boot(console) == Does1("pass", console, 1)
Fw1(end, off) == Does1(end, <<>>, off)
MCCore ==
  <<[beat |-> Boot(Text), dram |-> Boot(Text \o <<"z">>), fw_beat |-> Fw1("pass", Absent)],
    [beat |-> Boot(<<"z", "ready">>), dram |-> Does1("hang", <<>>, 1), fw_beat |-> Fw1("pass", 2)],
    [beat |-> [Boot(Text) EXCEPT !.faults = FALSE], dram |-> Boot(<<"a">>), fw_beat |-> Fw1("fail", 1)]>>

MCVersions == ("opensbi" :> {1, 2}) @@ ("kernel.apk" :> {1, 2}) @@ ("busybox.apk" :> {1, 2})
              @@ ("init" :> {1, 2}) @@ ("dts" :> {1, 2}) @@ ("rtl" :> {1, 2, 3})
MCInitrdBytes == (<<1, 1>> :> 3) @@ (<<1, 2>> :> 9) @@ (<<2, 1>> :> 20) @@ (<<2, 2>> :> 20)

Run(modes, build, dram, rebuild) ==
  [prog |-> "run", modes |-> modes, build |-> build, refresh |-> TRUE, dram |-> dram,
   rebuild |-> rebuild]
Build == [prog |-> "build", refresh |-> FALSE]
Check1 == [prog |-> "check"]
Boot1 == Run(<<"rtl">>, FALSE, FALSE, FALSE)
MCRequests == {Build, Check1, Boot1, Run(<<"difftest">>, TRUE, FALSE, FALSE),
               Run(<<"spike", "rtl">>, FALSE, TRUE, TRUE)}
MCBeside == {{Build, Boot1}, {Build, Check1}, {Build}, {Boot1}}
=============================================================================
