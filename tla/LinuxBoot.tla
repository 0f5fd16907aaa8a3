----------------------------- MODULE LinuxBoot ------------------------------
(* The Linux boot flow: eth_rv/build_linux_boot.py builds firmware, kernel, *)
(* initramfs, device tree and BootROM into one directory and describes them *)
(* in a manifest; eth_rv_core/run_linux_boot.py boots them on Spike and on  *)
(* the Verilated core and compares the firmware's commits.  Builders,       *)
(* checks and runs share the directory, are killed half way, and meet pins  *)
(* and sources that have been edited since.                                 *)
(*                                                                          *)
(* A file holds a tuple that starts with its kind.  An image is truncated   *)
(* before it is written, so that is two steps; the runner's own reports are *)
(* written in one.  Time stamps are kept as what is asked of     *)
(* them: whether a product is newer than all of its inputs.                 *)
EXTENDS RvTrace

CONSTANTS Procs,         \* 1..n
          Requests,      \* command lines
          Versions,      \* pin or source -> its versions
          InitrdBytes,   \* <<busybox, init>> -> size of the packed initramfs
          GoodKernels,   \* kernels with a header fw_jump can use
          SmallTrees,    \* device tree sources that fit the BootROM
          KernelAddr,
          KernelEnd,     \* first address above the kernel and the tree's slot
          InitrdEnd,
          Core,          \* RTL version -> profile -> what the core does
          FwGolden,      \* firmware version -> Spike's commits
          FwSync,        \* commits of the firmware before the kernel entry
          Slack,         \* commits Spike is asked for beyond the core's
          SpikeConsole,  \* what a boot prints, the milestone last
          Beside,        \* bound: the commands that may overlap
          MaxEdits, MaxCrashes

VARIABLES src,       \* pins and sources -> version
          fs,        \* file -> content
          checkout,  \* the OpenSBI working tree
          memFresh,  \* s4.mem.hex is at least as new as all of its inputs
          exe,       \* profile -> [ver, fresh, mixed]
          proc,      \* process -> its progress
          edits, crashes

ASSUME RequestAssumption ==
  \A q \in Requests : /\ q.prog \in {"build", "check", "run"}
                      /\ q.prog = "run" => q.modes \in Seq({"spike", "rtl", "difftest"})
ASSUME VersionAssumption ==
  /\ DOMAIN Versions = {"opensbi", "kernel.apk", "busybox.apk", "init", "dts", "rtl"}
  /\ \A k \in DOMAIN Versions : 1 \in Versions[k]
  /\ MaxEdits \in Nat /\ MaxCrashes \in Nat
ASSUME LayoutAssumption ==  \* the directory found was built
  /\ KernelAddr \in Nat /\ InitrdEnd \in Nat
  /\ \A b \in Versions["busybox.apk"], i \in Versions["init"] : InitrdBytes[<<b, i>>] \in Nat
  /\ InitrdEnd - InitrdBytes[<<1, 1>>] >= KernelAddr
ASSUME GoldenAssumption ==  \* Spike reports no byte lanes
  /\ FwSync \in Nat /\ Slack \in Nat /\ Versions["opensbi"] \subseteq DOMAIN FwGolden
  /\ \A v \in DOMAIN FwGolden :
       /\ FwGolden[v] \in Seq({c \in Commits : c.rmask = NoMask /\ c.wmask = NoMask})
       /\ FwSync <= Len(FwGolden[v])
vars == <<src, fs, checkout, memFresh, exe, proc, edits, crashes>>

Missing == <<"missing">>
Torn == <<"torn">>
NoExe == [ver |-> Absent, fresh |-> FALSE, mixed |-> FALSE]
Killed == 9

Reports == {"spike", "uart", "trace", "golden"}
Files == {"kernel.apk", "busybox.apk", "fw", "elf", "kernel", "initrd", "dtb", "rom",
          "manifest", "mem"} \cup Reports
Inputs == {"fw", "kernel", "dtb", "initrd"}  \* of s4.mem.hex
Profiles == {"beat", "dram", "fw_beat"}
ASSUME ConsoleAssumption ==
  /\ SpikeConsole \in Seq(ToSet(SpikeConsole))
  /\ \A v \in Versions["rtl"], f \in Profiles :
       Core[v][f].console \in Seq(ToSet(Core[v][f].console))

NoManifest == [fw |-> Missing, kernel |-> Missing, initrd |-> Missing, dtb |-> Missing,
               start |-> Absent, mixed |-> FALSE]
NoLoad == [mem |-> Missing, rom |-> Missing, ver |-> Absent]

Idle == [pc |-> "idle", req |-> [prog |-> "none"], writes |-> <<>>,
         pins |-> <<>>, m |-> NoManifest, todo |-> <<>>,
         want |-> Absent, loaded |-> NoLoad, console |-> <<>>, n |-> 0, verdict |-> "none", match |-> "none",
         exit |-> Absent,
         clean |-> TRUE]   \* nothing it relies on was written under its hands

\* the initramfs and the tree it is announced in
Bytes(initrd) == InitrdBytes[<<initrd[2], initrd[3]>>]
TreeStart(dtb) == dtb[3]

-----------------------------------------------------------------------------
(* Processes and files                                                      *)

At(p, pc) == proc[p].pc = pc /\ proc[p].writes = <<>>
Req(p) == proc[p].req
Runs(p) == Req(p).prog = "run"
Content(f) == fs[f]
Has(f, kind) == fs[f][1] = kind
Steps(p, r) == proc' = [proc EXCEPT ![p] = r]
Goes(p, pc) == Steps(p, [proc[p] EXCEPT !.pc = pc])
Failed(p, code) == [Idle EXCEPT !.pc = "done", !.exit = code, !.req = Req(p)]
Exits(p, code) ==
  Steps(p, IF code = 0 THEN [proc[p] EXCEPT !.pc = "done", !.exit = 0] ELSE Failed(p, code))

Retired == [Idle EXCEPT !.pc = "done", !.exit = 0, !.clean = FALSE]

\* p writes a file: the others' work is no longer undisturbed
Disturbed(q) == IF proc[q].pc = "done" THEN Retired
                ELSE [proc[q] EXCEPT !.clean = proc[q].pc = "idle"]
Disturbs(p, r) == proc' = [q \in Procs |-> IF q = p THEN r ELSE Disturbed(q)]

\* a builder that ends, by hand or under --build
Refuses(p, code) == IF Runs(p) THEN Exits(p, 2) ELSE Exits(p, code)

Touched(S) == memFresh' = IF "mem" \in S THEN TRUE
                          ELSE IF S \cap Inputs # {} THEN FALSE ELSE memFresh

\* everything but the files and what hangs on them
Rest == <<src, exe, edits, crashes>>
NoFile == <<fs, memFresh, Rest>>

Writes(p, new, r) ==
  /\ fs' = [f \in Files |-> IF f \in DOMAIN new THEN new[f] ELSE fs[f]]
  /\ Disturbs(p, r)
  /\ UNCHANGED <<memFresh, Rest, checkout>>

\* r.writes are the files p is about to write, the first of them open
Opened(ws, old) == IF ws = <<>> THEN old ELSE [old EXCEPT ![Head(ws)[1]] = Torn]
Puts(p, r) ==
  /\ fs' = Opened(r.writes, fs) /\ Touched({Head(r.writes)[1]}) /\ Disturbs(p, r)
  /\ UNCHANGED <<Rest, checkout>>

CloseFile(p) ==
  LET w == Head(proc[p].writes)
      rest == Tail(proc[p].writes)
      c == IF w[1] \notin {"mem", "manifest"} THEN w[2]
           ELSE <<w[1], [w[2][2] EXCEPT !.mixed = ~proc[p].clean]>>
  IN  /\ proc[p].writes # <<>>
      /\ fs' = Opened(rest, [fs EXCEPT ![w[1]] = c])
      /\ Touched({w[1]} \cup {x[1] : x \in ToSet(rest)})
      /\ Disturbs(p, [proc[p] EXCEPT !.writes = rest])
      /\ UNCHANGED <<Rest, checkout>>

-----------------------------------------------------------------------------
(* build_linux_boot.py                                                      *)

Loading(p) == [Idle EXCEPT !.req = Req(p), !.pc = "load", !.clean = proc[p].clean]

\* the pins are constants of the modules the builder imports
StartBuild(p) == Steps(p, [proc[p] EXCEPT !.pc = "opensbi", !.pins = src])

\* Commands are numbered as they start, and the pairs in Beside may overlap.
\* A run writes its reports before it reads them: old ones are forgotten.
Begin(p, q) ==
  LET active == {r \in Procs : proc[r].pc \notin {"idle", "done"}}
      pcs == [build |-> "opensbi", check |-> "check", run |-> "images"]
      begun == [Idle EXCEPT !.req = q, !.pc = pcs[q.prog],
                            !.pins = IF q.prog = "build" THEN src ELSE <<>>]
  IN  /\ At(p, "idle") /\ \A r \in 1..(p - 1) : ~At(r, "idle")
      /\ \A r \in active : {Req(r), q} \in Beside
      /\ proc' = [r \in Procs |-> IF r = p THEN begun
                                  ELSE IF proc[r].pc = "done" THEN Retired ELSE proc[r]]
      /\ fs' = [f \in Files |-> IF f \in Reports /\ active = {} THEN Missing ELSE fs[f]]
      /\ UNCHANGED <<memFresh, Rest, checkout>>

Pin(p, k) == proc[p].pins[k]

\* a directory that is there is taken for a checkout
Opensbi(p) ==
  /\ At(p, "opensbi")
  /\ IF checkout = Missing \/ Req(p).refresh
     THEN checkout' = Torn /\ Goes(p, "clone")
     ELSE Goes(p, "head") /\ UNCHANGED checkout
  /\ UNCHANGED NoFile

\* git removes the directory of a clone that fails by itself; no timeout
Clone(p) ==
  /\ At(p, "clone")
  /\ \/ \E v \in {Pin(p, "opensbi"), 0} : checkout' = <<"repo", v>> /\ Goes(p, "head")
     \/ checkout' = Missing /\ Refuses(p, 2)
     \/ Goes(p, "hung") /\ UNCHANGED checkout
  /\ UNCHANGED NoFile

\* rev-parse in a half-made clone fails, or answers for the repository around
\* it; then make, and the copies
Head_(p) ==
  LET fw == <<"fw", Pin(p, "opensbi")>>
  IN  /\ At(p, "head")
      /\ \/ /\ checkout = <<"repo", Pin(p, "opensbi")>>
            /\ Puts(p, [proc[p] EXCEPT !.pc = "fwread", !.writes = <<<<"fw", fw>>, <<"elf", fw>>>>])
         \/ Refuses(p, 2) /\ UNCHANGED <<NoFile, checkout>>
         \/ /\ checkout # <<"repo", Pin(p, "opensbi")>> /\ Refuses(p, 1)
            /\ UNCHANGED <<NoFile, checkout>>

\* the hash in the manifest is of what is read back; a torn file may be long
\* enough to pass for a firmware
FwRead(p) ==
  /\ At(p, "fwread")
  /\ \/ Steps(p, [proc[p] EXCEPT !.pc = "kernel.apk", !.m.fw = Content("fw")])
     \/ Content("fw") = Torn /\ Refuses(p, 2)
  /\ UNCHANGED <<NoFile, checkout>>

\* Mutant: an archive that is there is the pinned one
Bug_Cached(p, k) == Has(k, "apk") /\ ~Req(p).refresh

Cached(p, k) == ~Req(p).refresh /\ Content(k) = <<"apk", k, Pin(p, k)>>

Archives == {"kernel.apk", "busybox.apk"}
Fetching == [k \in Archives |-> IF k = "kernel.apk" THEN "kernel.get" ELSE "busybox.get"]
Unpack == [k \in Archives |-> IF k = "kernel.apk" THEN "kernel" ELSE "busybox"]

\* fetched whole, checked against the pin, then written
Lookup(p, k) ==
  /\ At(p, k) /\ Goes(p, IF Cached(p, k) THEN Unpack[k] ELSE Fetching[k])
  /\ UNCHANGED <<NoFile, checkout>>
Download(p, k) ==
  /\ At(p, Fetching[k])
  /\ \/ Puts(p, [proc[p] EXCEPT !.pc = Unpack[k], !.writes = <<<<k, <<"apk", k, Pin(p, k)>>>>>>])
     \/ (\E code \in {1, 2} : Refuses(p, code)) /\ UNCHANGED <<NoFile, checkout>>

\* stage_kernel after the download, with _check_kernel_image
Kernel(p) ==
  LET apk == Content("kernel.apk")
      k == <<"kernel", apk[3]>>
  IN  /\ At(p, "kernel")
      /\ IF apk = Torn THEN Refuses(p, 1) /\ UNCHANGED <<NoFile, checkout>>
         ELSE IF apk[3] \notin GoodKernels THEN Refuses(p, 2) /\ UNCHANGED <<NoFile, checkout>>
         ELSE Puts(p, [proc[p] EXCEPT !.pc = "busybox.apk", !.m.kernel = k,
                                      !.writes = <<<<"kernel", k>>>>])

\* stage_busybox after the download, and build_initramfs
Initramfs(p) ==
  LET apk == Content("busybox.apk")
      c == <<"initrd", apk[3], src.init>>
  IN  /\ At(p, "busybox")
      /\ IF apk = Torn THEN Refuses(p, 1) /\ UNCHANGED <<NoFile, checkout>>
         ELSE Puts(p, [proc[p] EXCEPT !.pc = "dtb", !.m.initrd = c, !.writes = <<<<"initrd", c>>>>])

\* dtc may fail
BuildDtb(p) ==
  LET start == InitrdEnd - Bytes(proc[p].m.initrd)
  IN  /\ At(p, "dtb")
      /\ \/ /\ start >= KernelAddr
            /\ Puts(p, [proc[p] EXCEPT !.pc = "rom", !.m.start = start,
                          !.writes = <<<<"dtb", <<"dtb", src.dts, start>>>>>>])
         \/ Refuses(p, 2) /\ UNCHANGED <<NoFile, checkout>>

\* the tree is read back for its hash and for the ROM; a torn one may begin
\* like a tree
BuildRom(p) ==
  LET dtb == Content("dtb")
  IN  /\ At(p, "rom")
      /\ \/ /\ dtb[1] = "dtb" => dtb[2] \in SmallTrees
            /\ Puts(p, [proc[p] EXCEPT !.pc = "manifest", !.m.dtb = dtb,
                                      !.writes = <<<<"rom", <<"rom", dtb>>>>>>])
         \/ /\ dtb[1] = "dtb" => dtb[2] \notin SmallTrees
            /\ Refuses(p, 2) /\ UNCHANGED <<NoFile, checkout>>

WriteManifest(p) ==
  /\ At(p, "manifest")
  /\ Puts(p, [proc[p] EXCEPT !.pc = "built", !.writes = <<<<"manifest", <<"manifest", proc[p].m>>>>>>])

Built(p) ==
  /\ At(p, "built")
  /\ IF Runs(p) THEN Steps(p, Loading(p)) ELSE Exits(p, 0)
  /\ UNCHANGED <<NoFile, checkout>>

BuilderStep(p) ==
  \/ Opensbi(p) \/ Clone(p) \/ Head_(p) \/ FwRead(p)
  \/ \E k \in Archives : Lookup(p, k) \/ Download(p, k)
  \/ Kernel(p) \/ Initramfs(p) \/ BuildDtb(p) \/ BuildRom(p)
  \/ WriteManifest(p) \/ Built(p)

\* check: neither the ELF nor the ROM is looked at
Problems(m) == {f \in Inputs : Content(f) # m[f]}

Check(p) ==
  /\ At(p, "check")
  /\ IF ~Has("manifest", "manifest") \/ Problems(Content("manifest")[2]) # {} THEN Exits(p, 1)
     ELSE Exits(p, 0)
  /\ UNCHANGED <<NoFile, checkout>>

-----------------------------------------------------------------------------
(* run_linux_boot.py                                                        *)

BuilderPcs == {"opensbi", "clone", "hung", "head", "fwread", "kernel.apk", "kernel.get",
               "kernel", "busybox.apk", "busybox.get", "busybox", "dtb", "rom",
               "manifest", "built"}

\* build_images kills the builder after half an hour, wherever it is
BuildTimeout(p) ==
  /\ Runs(p) /\ proc[p].pc \in BuilderPcs /\ Exits(p, 2)
  /\ UNCHANGED <<NoFile, checkout>>

Images(p) ==
  /\ At(p, "images")
  /\ IF Req(p).build THEN StartBuild(p) ELSE Steps(p, Loading(p))
  /\ UNCHANGED <<NoFile, checkout>>

\* a torn manifest and a missing Spike end in a traceback
Load(p) ==
  /\ At(p, "load")
  /\ \/ Content("manifest") = Missing /\ Exits(p, 2)
     \/ Content("manifest") # Missing /\ Exits(p, 1)
     \/ /\ Has("manifest", "manifest")
        /\ Steps(p, [proc[p] EXCEPT !.pc = "next", !.m = Content("manifest")[2],
                                    !.todo = Req(p).modes])
  /\ UNCHANGED <<NoFile, checkout>>

Mode(p) == Head(proc[p].todo)
NextMode(p) ==
  /\ At(p, "next")
  /\ proc[p].todo # <<>> /\ Goes(p, IF Mode(p) = "spike" THEN "spike" ELSE "mem")
  /\ UNCHANGED <<NoFile, checkout>>

\* the summary is written now; a run that fails leaves an older one
Ends(p) ==
  /\ At(p, "next") /\ proc[p].todo = <<>>
  /\ Exits(p, 0)
  /\ UNCHANGED <<NoFile, checkout>>

Done(p, r) == [r EXCEPT !.pc = "next", !.todo = Tail(proc[p].todo)]

\* The reference boot ends at the marker, or early with what it printed, or
\* at the deadline, which is looked at after a byte: a Spike that prints
\* nothing more is waited for.
Whole(f) == Content(f) \notin {Missing, Torn}
RunSpikeMilestone(p) ==
  /\ At(p, "spike")
  /\ \/ \E n \in 0..Len(SpikeConsole) :
          /\ n = Len(SpikeConsole) => \A f \in {"elf", "kernel", "initrd", "dtb"} : Whole(f)
          /\ Writes(p, [spike |-> <<"console", SubSeq(SpikeConsole, 1, n)>>], Done(p, proc[p]))
     \/ Exits(p, 2) /\ UNCHANGED <<NoFile, checkout>>
     \/ Goes(p, "silent") /\ UNCHANGED <<NoFile, checkout>>

\* Mutant: a device tree for another initramfs is not noticed
Bug_AddsUp(p) == Has("initrd", "initrd")

\* the tree's start and the initramfs; a torn one is shorter
AddsUp(p) == Has("initrd", "initrd") /\ proc[p].m.start + Bytes(Content("initrd")) = InitrdEnd

\* Mutant: an image that is there is used
Bug_Cache(p) == Content("mem") # Missing /\ ~Req(p).rebuild

\* write_memory_image and build_memory_image.  The manifest is written last:
\* the inputs are there.
Cache(p) == Content("mem") # Missing /\ memFresh /\ ~Req(p).rebuild
WriteMemoryImage(p) ==
  /\ At(p, "mem")
  /\ \/ Cache(p) /\ Goes(p, "model") /\ UNCHANGED <<NoFile, checkout>>
     \/ ~Cache(p) /\ ~AddsUp(p) /\ Exits(p, 2) /\ UNCHANGED <<NoFile, checkout>>
     \/ /\ ~Cache(p) /\ AddsUp(p)
        /\ Puts(p, [proc[p] EXCEPT !.pc = "model", !.writes = <<<<"mem", <<"mem",
             [fw |-> Content("fw"), kernel |-> Content("kernel"), dtb |-> Content("dtb"),
              initrd |-> Content("initrd"), at |-> proc[p].m.start, mixed |-> FALSE]>>>>>>])

\* Mutant: the boot's model is used for the comparison too
Bug_Profile(p) == IF Req(p).dram THEN "dram" ELSE "beat"

\* the comparison needs Spike's cadence, and never the DRAM port
Profile(p) == IF Mode(p) = "difftest" THEN "fw_beat" ELSE IF Req(p).dram THEN "dram" ELSE "beat"

\* build_model up to the compiler call; no Verilator is an error even here
BuildModel(p) ==
  LET e == exe[Profile(p)]
      fresh == e # NoExe /\ e.fresh /\ ~Req(p).rebuild
  IN  /\ At(p, "model")
      /\ \/ Steps(p, [proc[p] EXCEPT !.want = src.rtl, !.clean = @ /\ ~(fresh /\ e.mixed),
                                     !.pc = IF fresh THEN "start" ELSE "compile"])
         \/ Exits(p, 2)
      /\ UNCHANGED <<NoFile, checkout>>

\* the compiler has read the sources at some point of its run
Compile(p) ==
  LET mixed == src.rtl # proc[p].want
  IN  /\ At(p, "compile")
      /\ \/ /\ \E v \in {proc[p].want, src.rtl} :
               exe' = [exe EXCEPT ![Profile(p)] = [ver |-> v, fresh |-> TRUE, mixed |-> mixed]]
            /\ Disturbs(p, [proc[p] EXCEPT !.pc = "start", !.clean = @ /\ ~mixed])
         \/ Exits(p, 2) /\ UNCHANGED exe
      /\ UNCHANGED <<fs, memFresh, src, edits, crashes, checkout>>

\* the testbench reads its images and opens its outputs
StartTb(p) ==
  /\ At(p, "start")
  /\ Writes(p, [f \in {"uart"} \cup (IF Mode(p) = "difftest" THEN {"trace"} ELSE {}) |-> Torn],
       [proc[p] EXCEPT !.pc = "tb", !.loaded =
          [mem |-> Content("mem"), rom |-> Content("rom"), ver |-> exe[Profile(p)].ver]])

\* what a boot takes: images as they were built, the initramfs where the tree
\* in the BootROM says it is, and clear of the kernel
Bootable(l) ==
  /\ l.mem[1] = "mem" /\ l.rom[1] = "rom" /\ l.rom[2][1] = "dtb"
  /\ \A f \in Inputs : l.mem[2][f] # Torn
  /\ l.mem[2].at = TreeStart(l.rom[2]) /\ l.mem[2].at >= KernelEnd
FwIntact(l) == l.mem[1] = "mem" /\ l.mem[2].fw # Torn /\ l.rom[1] = "rom" /\ l.rom[2][1] = "dtb"

Does(p) == Core[proc[p].loaded.ver][Profile(p)]

\* the firmware's commits on a core that computes one of them wrong, or none
DutStream(v, off) ==
  [i \in DOMAIN FwGolden[v] |-> IF i = off THEN [FwGolden[v][i] EXCEPT !.value = @ + 1]
                                ELSE FwGolden[v][i]]

\* the marker stops a boot; a core that hangs is killed, one out of cycles or
\* traps leaves its console and FAIL
BootEnds(p) ==
  LET record(c) == [uart |-> <<"uart", c>>]
      pass == Does(p).end = "pass" /\ Bootable(proc[p].loaded)
  IN  /\ At(p, "tb") /\ Mode(p) = "rtl"
      /\ \/ pass /\ Writes(p, record(Does(p).console), [proc[p] EXCEPT !.pc = "report"])
         \/ ~pass /\ Writes(p, record(<<>>), Failed(p, 2))
         \/ ~pass /\ Exits(p, 2) /\ UNCHANGED <<NoFile, checkout>>

\* the kernel's entry stops the firmware run; a FAIL line's commit count will
\* do as well, whatever stopped the core, and then nobody reads the console
FirmwareEnds(p) ==
  LET l == proc[p].loaded
      pass == Does(p).end = "pass" /\ FwIntact(l)
      dumps(v, n) == [uart |-> <<"uart", <<>>>>,
                      trace |-> <<"trace", SubSeq(DutStream(v, Does(p).off), 1, n)>>]
      versions == IF FwIntact(l) THEN {l.mem[2].fw[2]} ELSE DOMAIN FwGolden
  IN  /\ At(p, "tb") /\ Mode(p) = "difftest"
      /\ \/ /\ pass
            /\ \E v \in versions :
                 Writes(p, dumps(v, FwSync), [proc[p] EXCEPT !.pc = "report", !.n = FwSync])
         \/ /\ ~pass /\ Does(p).end # "hang"
            /\ \E v \in versions, n \in 0..(FwSync - 1) :
                 Writes(p, dumps(v, n), [proc[p] EXCEPT !.pc = "golden", !.n = n])
         \/ ~pass /\ Exits(p, 2) /\ UNCHANGED <<NoFile, checkout>>

\* the end of run_rtl, and report_rtl, on the record that is there now
Evidence(p, console) ==
  /\ \E i \in DOMAIN console : console[i] = SpikeConsole[Len(SpikeConsole)]
  /\ Does(p).clean /\ Does(p).faults
Report(p) ==
  /\ At(p, "report")
  /\ IF Content("uart") = Torn THEN Exits(p, 2)
     ELSE IF Mode(p) = "difftest" THEN Goes(p, "golden")
     ELSE IF ~Evidence(p, Content("uart")[2]) THEN Exits(p, 2)
     ELSE IF "spike" \in ToSet(Req(p).modes)
     THEN Steps(p, [proc[p] EXCEPT !.pc = "console", !.console = Content("uart")[2]])
     ELSE Steps(p, Done(p, proc[p]))
  /\ UNCHANGED <<NoFile, checkout>>

\* _compare_console, branch by branch
ConsoleMatch(spike, rtl) ==
  LET prefix == SubSeq(spike, 1, Min({Len(spike), Len(rtl)}))
  IN  \/ prefix = rtl
      \/ (\A i \in DOMAIN prefix : prefix[i] = rtl[i]) /\ Len(rtl) <= Len(spike)

\* the answer goes into the summary and nowhere else
CompareConsole(p) ==
  LET c == Content("spike")
      spike == IF c[1] = "console" THEN c[2] ELSE <<>>
  IN  /\ At(p, "console")
      /\ Steps(p, Done(p, [proc[p] EXCEPT !.console = <<>>,
           !.match = IF ConsoleMatch(spike, proc[p].console) THEN "yes" ELSE "no"]))
      /\ UNCHANGED <<NoFile, checkout>>

Budget(s, n) == SubSeq(s, 1, Min({Len(s), n}))

\* Spike may fail, or be killed at the timeout, which is a traceback
GoldenCommits(p) ==
  LET s == FwGolden[Content("elf")[2]]
  IN  /\ At(p, "golden")
      /\ \/ /\ Whole("elf") /\ Whole("dtb")
            /\ Writes(p, [golden |-> <<"golden", Budget(s, proc[p].n + Slack)>>],
                      [proc[p] EXCEPT !.pc = "difftest"])
         \/ (\E code \in {1, 2} : Exits(p, code)) /\ UNCHANGED <<NoFile, checkout>>

\* rv_difftest.py --max-commits
FirmwareMatches(g, d, n) ==
  FirstDivergence(Budget(g, n), Budget(d, n), Scope(g, d, TRUE))[2] = Match

\* Any status but 0 is reported as "does not match Spike", that of a comparator
\* that fails by itself or is killed included.  The run cannot tell the two
\* apart; its verdict here does.
RunDifftest(p) ==
  LET g == Content("golden")
      d == Content("trace")
      same == d # Torn /\ FirmwareMatches(g[2], d[2], proc[p].n)
      NotMatching(why) == Steps(p, [proc[p] EXCEPT !.pc = "done", !.exit = 2, !.verdict = why])
  IN  /\ At(p, "difftest")
      /\ \/ same /\ Steps(p, Done(p, proc[p]))
         \/ ~same /\ NotMatching("mismatch")
         \/ NotMatching("failed")
      /\ UNCHANGED <<NoFile, checkout>>

RunnerStep(p) ==
  \/ Images(p) \/ BuildTimeout(p) \/ Load(p) \/ NextMode(p) \/ RunSpikeMilestone(p)
  \/ WriteMemoryImage(p) \/ BuildModel(p) \/ Compile(p) \/ StartTb(p) \/ BootEnds(p)
  \/ FirmwareEnds(p) \/ Report(p) \/ CompareConsole(p) \/ GoldenCommits(p)
  \/ RunDifftest(p) \/ Ends(p)

-----------------------------------------------------------------------------
(* Faults and edits                                                         *)

Crash(p) ==
  /\ crashes > 0 /\ proc[p].pc \notin {"idle", "done"}
  /\ crashes' = crashes - 1 /\ Exits(p, Killed)
  /\ UNCHANGED <<src, fs, checkout, memFresh, exe, edits>>

\* the sources that are read half way; the pins are read when a command starts
Edit(k) ==
  /\ edits > 0 /\ edits' = edits - 1
  /\ \E v \in Versions[k] \ {src[k]} : src' = [src EXCEPT ![k] = v]
  /\ exe' = IF k = "rtl" THEN [f \in Profiles |-> [exe[f] EXCEPT !.fresh = FALSE]] ELSE exe
  /\ UNCHANGED <<fs, checkout, memFresh, proc, crashes>>

\* a directory as a build and a boot leave it
BootedFs ==
  LET fw == <<"fw", 1>>
      initrd == <<"initrd", 1, 1>>
      start == InitrdEnd - Bytes(initrd)
      dtb == <<"dtb", 1, start>>
      m == [fw |-> fw, kernel |-> <<"kernel", 1>>, initrd |-> initrd, dtb |-> dtb,
            start |-> start, mixed |-> FALSE]
  IN  [[f \in Files |-> Missing] EXCEPT
         !["kernel.apk"] = <<"apk", "kernel.apk", 1>>,
         !["busybox.apk"] = <<"apk", "busybox.apk", 1>>,
         !["fw"] = fw, !["elf"] = fw, !["kernel"] = m.kernel, !["initrd"] = initrd,
         !["dtb"] = dtb, !["rom"] = <<"rom", dtb>>, !["manifest"] = <<"manifest", m>>,
         !["mem"] = <<"mem", [fw |-> fw, kernel |-> m.kernel, dtb |-> dtb, initrd |-> initrd,
                              at |-> start, mixed |-> FALSE]>>]
Init ==
  /\ \E k \in DOMAIN Versions : \E v \in Versions[k] :  \* edited since
       /\ src = [[x \in DOMAIN Versions |-> 1] EXCEPT ![k] = v]
       /\ v = 1 \/ MaxEdits > 0
       /\ edits = IF v = 1 THEN MaxEdits ELSE MaxEdits - 1
  /\ \/ fs = [f \in Files |-> Missing] /\ checkout = Missing /\ memFresh = FALSE
     \/ fs = BootedFs /\ checkout = <<"repo", 1>> /\ memFresh = TRUE
  /\ exe = [f \in Profiles |-> IF memFresh THEN [NoExe EXCEPT !.ver = 1, !.fresh = src.rtl = 1]
                                ELSE NoExe]
  /\ proc = [p \in Procs |-> Idle]
  /\ crashes = MaxCrashes

ProcStep(p) == CloseFile(p) \/ BuilderStep(p) \/ Check(p) \/ RunnerStep(p)

Next == \/ \E p \in Procs : ProcStep(p) \/ Crash(p) \/ \E q \in Requests : Begin(p, q)
        \/ \E k \in {"init", "dts", "rtl"} : Edit(k)

Spec == Init /\ [][Next]_vars
-----------------------------------------------------------------------------
(* Properties                                                               *)

RunnerPcs == {"images", "load", "next", "spike", "silent", "mem", "model", "compile", "start",
              "tb", "report", "console", "golden", "difftest"}

\* Types, and: only an exited process has a status and it leaves nothing half
\* written by itself, and a manifest describes all four images.
TypeOK ==
  /\ \A p \in Procs :
       /\ proc[p].pc \in {"idle", "check", "done"} \cup BuilderPcs \cup RunnerPcs
       /\ proc[p].pc = "done" <=> proc[p].exit # Absent
       /\ proc[p].pc = "done" => proc[p].writes = <<>>
  /\ Has("manifest", "manifest") =>
       LET m == Content("manifest")[2]
       IN  m.start # Absent /\ \A f \in Inputs : m[f] # Missing
  /\ edits \in 0..MaxEdits /\ crashes \in 0..MaxCrashes

Finished(p, prog) == proc[p].exit = 0 /\ proc[p].clean /\ Req(p).prog = prog
Announced(dtb, initrd) == TreeStart(dtb) + Bytes(initrd) = InitrdEnd

\* build_linux_boot.py that exits 0 undisturbed leaves the images of its own
\* pins, whatever an interrupted or older build left in the directory: one
\* firmware in both formats, a tree that ends the initramfs where it is
\* loaded, a BootROM with that tree, and a manifest of exactly these.  --check
\* that exits 0 vouches for the four images it hashes: none is torn and the
\* tree fits the initramfs, after any interrupted rebuild.  It says nothing of
\* the ELF and of the BootROM, and a manifest of two builders at once may
\* describe anything.
BuildTruth ==
  /\ TypeOK
  /\ \A p \in Procs : Finished(p, "build") =>
       /\ Content("fw") = <<"fw", Pin(p, "opensbi")>> /\ Content("elf") = Content("fw")
       /\ Content("kernel") = <<"kernel", Pin(p, "kernel.apk")>>
       /\ Content("initrd")[2] = Pin(p, "busybox.apk")
       /\ Announced(Content("dtb"), Content("initrd")) /\ Content("rom") = <<"rom", Content("dtb")>>
       /\ Content("manifest")[1] = "manifest" /\ Problems(Content("manifest")[2]) = {}
  /\ \A p \in Procs : Finished(p, "check") /\ ~Content("manifest")[2].mixed =>
       /\ \A f \in Inputs : Whole(f)
       /\ Announced(Content("dtb"), Content("initrd"))

\* Whatever was killed or overwritten in between, an image the core runs holds
\* its initramfs up to LINUX_INITRD_END, and if the BootROM is that of the build
\* in the manifest, its tree says where the initramfs starts (unless a builder
\* was at work beside the run, or two builders beside each other).
TreeMatchesInitrd ==
  \A p \in Procs : At(p, "tb") /\ proc[p].loaded.mem # Torn =>
    LET mem == proc[p].loaded.mem[2]
        rom == proc[p].loaded.rom
        m == proc[p].m
    IN  /\ mem.at + Bytes(mem.initrd) = InitrdEnd
        /\ proc[p].clean /\ ~mem.mixed /\ ~m.mixed /\ rom = <<"rom", m.dtb>> =>
             TreeStart(rom[2]) = mem.at

\* p has got past a mode; its last test bench run was that mode's
Passed(p, mode) ==
  LET done == Len(Req(p).modes) - Len(proc[p].todo)
  IN  /\ Runs(p) /\ (proc[p].pc = "next" \/ proc[p].exit = 0) /\ proc[p].clean
      /\ done > 0 /\ Req(p).modes[done] = mode

Now(p, profile) == Core[proc[p].want][profile]

\* A boot that is reported really happened: the RTL as it was when the run
\* looked at it reaches the milestone, with page faults and a clean console,
\* on the images that are in the directory, and not on a stale model or a
\* stale memory image.  console_match is recorded as true only for an RTL whose
\* console Spike's begins with: a Spike that died early does not vouch for the
\* rest.  Not covered: an edit of the RTL while its model is compiled, images
\* rendered while a builder replaced them.
BootTruth ==
  \A p \in Procs : Passed(p, "rtl") =>
    LET c == Now(p, IF Req(p).dram THEN "dram" ELSE "beat")
        l == proc[p].loaded
    IN  /\ c.end = "pass" /\ c.clean /\ c.faults
        /\ \E i \in DOMAIN c.console : c.console[i] = SpikeConsole[Len(SpikeConsole)]
        /\ Bootable(l)
        /\ ~l.mem[2].mixed => \A f \in Inputs : l.mem[2][f] = Content(f)
        /\ proc[p].match = "yes" => IsPrefix(c.console, SpikeConsole)

Dut(p) == DutStream(proc[p].loaded.mem[2].fw[2], Now(p, "fw_beat").off)
Same(p) == Budget(Dut(p), proc[p].n) = Budget(FwGolden[Content("elf")[2]], proc[p].n)
Seen(c) == <<c.cycle, c.pc, c.rd, c.value>>
Comparable(p) == FwIntact(proc[p].loaded) /\ ~proc[p].loaded.mem[2].mixed

\* A firmware DiffTest that passes has compared every commit it counts: this
\* RTL's first n commits of this firmware are Spike's (cycle, address, register
\* and value, if fw_jump.bin and fw_jump.elf are of two builds), and n is the
\* whole firmware when the core reaches the kernel.  (A core that stops early, even
\* before its first commit, passes on what it has.)  A divergence the comparator
\* reports is never a matter of cadence: this RTL at Spike's cadence does compute
\* one of the commits wrong, unless fw_jump.bin and fw_jump.elf are of two
\* builds.  The run's own message is not as good: it says "does not match" of a
\* comparator that failed by itself (verdict "failed"), whatever the RTL does.
DiffTruth ==
  \A p \in Procs : proc[p].clean =>
    /\ Passed(p, "difftest") /\ Comparable(p) =>
         /\ \A i \in 1..proc[p].n : Seen(Dut(p)[i]) = Seen(FwGolden[Content("elf")[2]][i])
         /\ Content("elf") = proc[p].loaded.mem[2].fw => Same(p)
         /\ Now(p, "fw_beat").end = "pass" => proc[p].n = FwSync
    /\ proc[p].verdict = "mismatch" /\ Comparable(p) =>
         /\ ~Same(p)
         /\ \/ Now(p, "fw_beat").off \in 1..proc[p].n
            \/ Content("elf") # proc[p].loaded.mem[2].fw
=============================================================================
