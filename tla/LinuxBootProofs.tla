--------------------------- MODULE LinuxBootProofs --------------------------
(* What build_linux_boot.py, its --check and run_linux_boot.py report, for  *)
(* any number of commands in one image directory, any pins and any kills:   *)
(* BuildTruth, TreeMatchesInitrd, BootTruth and DiffTruth of LinuxBoot.     *)
EXTENDS LinuxBoot, WellFoundedInduction, TLAPS

-----------------------------------------------------------------------------
(* The inductive invariant.  What it says of a command is said of its       *)
(* record r, the files s, the models and the age of s4.mem.hex.             *)

Record(r) ==
  [pc |-> r.pc, req |-> r.req, writes |-> r.writes, pins |-> r.pins, m |-> r.m,
   todo |-> r.todo, want |-> r.want, loaded |-> r.loaded, console |-> r.console, n |-> r.n,
   verdict |-> r.verdict, match |-> r.match, exit |-> r.exit, clean |-> r.clean]
Man(m) == [fw |-> m.fw, kernel |-> m.kernel, initrd |-> m.initrd, dtb |-> m.dtb,
           start |-> m.start, mixed |-> m.mixed]
Model(x) == [ver |-> x.ver, fresh |-> x.fresh, mixed |-> x.mixed]
Image(x) == [fw |-> x.fw, kernel |-> x.kernel, dtb |-> x.dtb, initrd |-> x.initrd,
             at |-> x.at, mixed |-> x.mixed]

AfterRom == {"manifest", "built"}
AfterDtb == {"rom"} \cup AfterRom
AfterInitrd == {"dtb"} \cup AfterDtb
AfterKernel == {"busybox.apk", "busybox.get", "busybox"} \cup AfterInitrd
AfterFwRead == {"kernel.apk", "kernel.get", "kernel"} \cup AfterKernel
AfterFw == {"fwread"} \cup AfterFwRead
AfterTb == {"tb", "report", "console", "golden", "difftest"}
AfterMem == {"model", "compile", "start"} \cup AfterTb
AfterLoad == {"next", "spike", "silent", "mem"} \cup AfterMem

\* What a file may hold when it is whole.
ApkFile(k, c) == c[1] = "apk" /\ c = <<"apk", k, c[3]>> /\ c[3] \in Versions[k]
FwFile(c) == c[1] = "fw" /\ c = <<"fw", c[2]>> /\ c[2] \in Versions["opensbi"]
KernelFile(c) == c[1] = "kernel" /\ c = <<"kernel", c[2]>> /\ c[2] \in Versions["kernel.apk"]
InitrdFile(c) == /\ c[1] = "initrd" /\ c = <<"initrd", c[2], c[3]>>
                 /\ c[2] \in Versions["busybox.apk"] /\ c[3] \in Versions["init"]
DtbFile(c) == c[1] = "dtb" /\ c = <<"dtb", c[2], c[3]>> /\ c[2] \in Versions["dts"] /\ c[3] \in Int
RomFile(c) == c[1] = "rom" /\ c = <<"rom", c[2]>> /\ (c[2] = Torn \/ DtbFile(c[2]))

Fits(start, initrd) == start + Bytes(initrd) = InitrdEnd

\* A manifest of any builder, and one of a builder that was left alone.
Described(m) ==
  /\ m = Man(m) /\ m.mixed \in BOOLEAN /\ m.start \in Int /\ m.start >= KernelAddr
  /\ m.fw = Torn \/ FwFile(m.fw)
  /\ KernelFile(m.kernel) /\ InitrdFile(m.initrd)
  /\ m.dtb = Torn \/ DtbFile(m.dtb)
Sound(m) ==
  FwFile(m.fw) /\ DtbFile(m.dtb) /\ TreeStart(m.dtb) = m.start /\ Fits(m.start, m.initrd)
ManifestFile(c) == /\ c[1] = "manifest" /\ c = <<"manifest", c[2]>>
                   /\ Described(c[2]) /\ (~c[2].mixed => Sound(c[2]))

\* A memory image holds an initramfs that ends where it must.
Rendered(x) ==
  /\ x = Image(x) /\ x.mixed \in BOOLEAN /\ x.at \in Int
  /\ x.fw = Torn \/ FwFile(x.fw)
  /\ InitrdFile(x.initrd) /\ Fits(x.at, x.initrd)
MemFile(c) == c[1] = "mem" /\ c = <<"mem", c[2]>> /\ Rendered(c[2])

Lacks(c) == c = Missing \/ c = Torn
SpikeFile(c) == c = Missing \/ \E n \in 0..Len(SpikeConsole) :
                                  c = <<"console", SubSeq(SpikeConsole, 1, n)>>

FileInv(s) ==
  /\ s = [f \in Files |-> s[f]]
  /\ \A k \in {"kernel.apk", "busybox.apk"} : Lacks(s[k]) \/ ApkFile(k, s[k])
  /\ Lacks(s["fw"]) \/ FwFile(s["fw"])
  /\ Lacks(s["elf"]) \/ FwFile(s["elf"])
  /\ Lacks(s["kernel"]) \/ KernelFile(s["kernel"])
  /\ Lacks(s["initrd"]) \/ InitrdFile(s["initrd"])
  /\ Lacks(s["dtb"]) \/ DtbFile(s["dtb"])
  /\ Lacks(s["rom"]) \/ RomFile(s["rom"])
  /\ Lacks(s["manifest"]) \/ ManifestFile(s["manifest"])
  /\ Lacks(s["mem"]) \/ MemFile(s["mem"])
  /\ SpikeFile(s["spike"])
  /\ s["manifest"] # Missing => \A f \in Inputs : s[f] # Missing

\* An image that counts as fresh is one of the files as they are, and has its
\* initramfs where the manifest says.
MemInv(s, fresh) ==
  s["mem"][1] = "mem" /\ ~s["mem"][2].mixed /\ fresh =>
    /\ \A f \in Inputs : s["mem"][2][f] = s[f]
    /\ s["manifest"][1] = "manifest" /\ ~s["manifest"][2].mixed =>
         s["mem"][2].at = s["manifest"][2].start

\* A model that counts as fresh is one of the RTL as it is.
ExeInv(exes, rtl) ==
  /\ exes = [f \in Profiles |-> exes[f]]
  /\ \A f \in Profiles :
       /\ exes[f] = Model(exes[f]) /\ exes[f].mixed \in BOOLEAN
       /\ exes[f].fresh /\ ~exes[f].mixed => exes[f].ver = rtl

SourceInv ==
  /\ src = [k \in DOMAIN Versions |-> src[k]] /\ \A k \in DOMAIN Versions : src[k] \in Versions[k]
  /\ memFresh \in BOOLEAN
  /\ edits \in 0..MaxEdits /\ crashes \in 0..MaxCrashes

\* The files a command is about to write.
Pending(r) ==
  /\ r.pc \notin {"fwread", "kernel", "busybox.apk", "busybox", "dtb", "rom", "manifest", "built",
                  "model"} => r.writes = <<>>
  /\ r.pc = "fwread" =>
       LET fw == <<"fw", r.pins["opensbi"]>>
       IN  r.writes = <<>> \/ r.writes = <<<<"elf", fw>>>> \/ r.writes = <<<<"fw", fw>>, <<"elf", fw>>>>
  /\ r.pc = "kernel" => \/ r.writes = <<>>
       \/ r.writes = <<<<"kernel.apk", <<"apk", "kernel.apk", r.pins["kernel.apk"]>>>>>>
  /\ r.pc = "busybox.apk" => r.writes = <<>> \/ r.writes = <<<<"kernel", r.m.kernel>>>>
  /\ r.pc = "busybox" => \/ r.writes = <<>>
       \/ r.writes = <<<<"busybox.apk", <<"apk", "busybox.apk", r.pins["busybox.apk"]>>>>>>
  /\ r.pc = "dtb" => r.writes = <<>> \/ r.writes = <<<<"initrd", r.m.initrd>>>>
  /\ r.pc = "rom" => \/ r.writes = <<>>
       \/ \E d \in Versions["dts"] : r.writes = <<<<"dtb", <<"dtb", d, r.m.start>>>>>>
  /\ r.pc = "manifest" => r.writes = <<>> \/ r.writes = <<<<"rom", <<"rom", r.m.dtb>>>>>>
  /\ r.pc = "built" => r.writes = <<>> \/ r.writes = <<<<"manifest", <<"manifest", r.m>>>>>>
  /\ r.pc = "model" => \/ r.writes = <<>>
       \/ /\ r.writes = <<<<"mem", <<"mem", r.writes[1][2][2]>>>>>>
          /\ Rendered(r.writes[1][2][2])

\* The modes still to do are the last of those asked for, and a stage knows
\* its mode.
Modes(r) ==
  /\ Len(r.todo) <= Len(r.req.modes) /\ r.todo \in Seq({"spike", "rtl", "difftest"})
  /\ \A i \in 1..Len(r.todo) : r.todo[i] = r.req.modes[Len(r.req.modes) - Len(r.todo) + i]
  /\ r.pc # "next" => r.todo # <<>>
  /\ r.pc \in {"spike", "silent"} => Head(r.todo) = "spike"
  /\ r.pc \in {"mem", "report"} \cup AfterMem => Head(r.todo) # "spike"
  /\ r.pc = "console" => Head(r.todo) = "rtl"
  /\ r.pc \in {"golden", "difftest"} => Head(r.todo) = "difftest"
  /\ r.match # "none" \/ r.pc = "console" => "spike" \in ToSet(r.req.modes)

Shape(r) ==
  /\ r = Record(r) /\ r.clean \in BOOLEAN
  /\ r.pc \in {"idle", "check", "done"} \cup BuilderPcs \cup RunnerPcs
  /\ r.pc = "done" <=> r.exit # Absent
  /\ r.pc = "idle" => r = Idle
  /\ r.pc \notin {"idle", "done"} => r.req \in Requests
  /\ r.pc = "check" => r.req.prog = "check"
  /\ r.pc \in BuilderPcs => r.req.prog \in {"build", "run"}
  /\ r.pc \in RunnerPcs => r.req.prog = "run"
  /\ r.verdict = "mismatch" => r.pc = "done" /\ r.exit = 2
Plan(r) ==
  /\ r.pc = "images" => r.m = NoManifest
  /\ r.pc = "load" => r.match = "none"
  /\ r.pc \in BuilderPcs => /\ \A k \in DOMAIN Versions : r.pins[k] \in Versions[k]
                            /\ r.m = Man(r.m) /\ r.m.mixed = FALSE
  /\ r.pc \in AfterFwRead => r.m.fw = Torn \/ FwFile(r.m.fw)
  /\ r.pc \in AfterKernel => KernelFile(r.m.kernel)
  /\ r.pc \in AfterInitrd => InitrdFile(r.m.initrd)
  /\ r.pc \in AfterDtb => r.m.start \in Int /\ r.m.start >= KernelAddr
  /\ r.pc \in AfterRom => r.m.dtb = Torn \/ DtbFile(r.m.dtb)
  /\ r.pc \in AfterLoad => Described(r.m) /\ Modes(r)
  /\ r.pc \in AfterTb => r.loaded.mem = Torn \/ MemFile(r.loaded.mem)
  /\ r.pc = "done" /\ r.exit = 0 /\ r.req.prog = "run" =>
       r.todo = <<>> /\ r.req.modes \in Seq({"spike", "rtl", "difftest"})

\* Files that a stage has found or written are there.
Present(r, s) ==
  /\ r.pc \in AfterFw => s["fw"] # Missing
  /\ r.pc = "kernel" => s["kernel.apk"] # Missing
  /\ r.pc \in AfterKernel => s["kernel"] # Missing
  /\ r.pc = "busybox" => s["busybox.apk"] # Missing
  /\ r.pc \in AfterInitrd => s["initrd"] # Missing
  /\ r.pc \in AfterDtb => s["dtb"] # Missing
  /\ r.pc \in AfterLoad => \A f \in Inputs : s[f] # Missing
  /\ r.pc \in AfterMem => s["mem"] # Missing

Holds(r, s, f, c) == s[f] = c \/ <<f, c>> \in ToSet(r.writes)
Past(r, S) == r.pc \in S \/ (r.pc = "done" /\ r.exit = 0 /\ r.req.prog = "build")

\* A builder that was left alone has the images of its own pins.
BuildInv(r, s, fresh) ==
  /\ Past(r, AfterFw) => /\ Holds(r, s, "fw", <<"fw", r.pins["opensbi"]>>)
                         /\ Holds(r, s, "elf", <<"fw", r.pins["opensbi"]>>) /\ ~fresh
  /\ Past(r, AfterFwRead) => r.m.fw = <<"fw", r.pins["opensbi"]>>
  /\ r.pc = "kernel" => Holds(r, s, "kernel.apk", <<"apk", "kernel.apk", r.pins["kernel.apk"]>>)
  /\ Past(r, AfterKernel) => /\ r.m.kernel = <<"kernel", r.pins["kernel.apk"]>>
                             /\ Holds(r, s, "kernel", r.m.kernel)
  /\ r.pc = "busybox" => Holds(r, s, "busybox.apk", <<"apk", "busybox.apk", r.pins["busybox.apk"]>>)
  /\ Past(r, AfterInitrd) => /\ r.m.initrd[2] = r.pins["busybox.apk"]
                             /\ Holds(r, s, "initrd", r.m.initrd)
  /\ Past(r, AfterDtb) =>
       /\ Fits(r.m.start, r.m.initrd)
       /\ \E d \in Versions["dts"] : Holds(r, s, "dtb", <<"dtb", d, r.m.start>>)
  /\ Past(r, AfterRom) => /\ DtbFile(r.m.dtb) /\ TreeStart(r.m.dtb) = r.m.start
                          /\ Holds(r, s, "dtb", r.m.dtb) /\ Holds(r, s, "rom", <<"rom", r.m.dtb>>)
  /\ Past(r, {"built"}) => Holds(r, s, "manifest", <<"manifest", r.m>>)

\* A check that was left alone has seen what is there.
CheckInv(r, s) ==
  r.exit = 0 /\ r.req.prog = "check" =>
    ManifestFile(s["manifest"]) /\ \A f \in Inputs : s[f] = s["manifest"][2][f]

ProfileOf(r) == IF Head(r.todo) = "difftest" THEN "fw_beat" ELSE IF r.req.dram THEN "dram" ELSE "beat"
DoesOf(r) == Core[r.want][ProfileOf(r)]

\* p has just done the mode
PassedMode(r, mode) ==
  LET done == Len(r.req.modes) - Len(r.todo)
  IN  /\ r.req.prog = "run" /\ (r.pc = "next" \/ r.exit = 0)
      /\ done > 0 /\ r.req.modes[done] = mode

\* The image that runs is of the files that are there.
LoadedInv(r, s) ==
  r.loaded.mem[1] = "mem" /\ ~r.loaded.mem[2].mixed => \A f \in Inputs : r.loaded.mem[2][f] = s[f]

Booted(c, l) ==
  /\ c.end = "pass" /\ c.clean /\ c.faults
  /\ \E i \in DOMAIN c.console : c.console[i] = SpikeConsole[Len(SpikeConsole)]
  /\ Bootable(l)
BootOf(r) == Core[r.want][IF r.req.dram THEN "dram" ELSE "beat"]

\* What a firmware run has dumped.
Traced(r, s) ==
  /\ r.n \in 0..FwSync
  /\ FwIntact(r.loaded) =>
       /\ s["trace"] = <<"trace", SubSeq(DutStream(r.loaded.mem[2].fw[2],
                                                   Core[r.want]["fw_beat"].off), 1, r.n)>>
       /\ Core[r.want]["fw_beat"].end = "pass" => r.n = FwSync

DutOf(r) == DutStream(r.loaded.mem[2].fw[2], Core[r.want]["fw_beat"].off)
SameCommits(r, s) == Budget(DutOf(r), r.n) = Budget(FwGolden[s["elf"][2]], r.n)
Compared(r, s) ==
  /\ \A i \in 1..r.n : Seen(DutOf(r)[i]) = Seen(FwGolden[s["elf"][2]][i])
  /\ s["elf"] = r.loaded.mem[2].fw => SameCommits(r, s)
  /\ Core[r.want]["fw_beat"].end = "pass" => r.n = FwSync
Differs(r, s) ==
  /\ ~SameCommits(r, s)
  /\ \/ Core[r.want]["fw_beat"].off \in 1..r.n
     \/ s["elf"] # r.loaded.mem[2].fw

\* A run that was left alone.
ImageInv(r, s, fresh) ==
  /\ r.pc \in AfterLoad => s["manifest"] = <<"manifest", r.m>>
  /\ r.pc \in {"model", "compile", "start"} => fresh
  /\ r.pc = "model" /\ r.writes # <<>> =>
       /\ \A f \in Inputs : r.writes[1][2][2][f] = s[f]
       /\ r.writes[1][2][2].at = r.m.start
  /\ r.pc \in AfterTb => /\ LoadedInv(r, s)
                         /\ r.loaded.mem[1] = "mem" /\ ~r.loaded.mem[2].mixed /\ ~r.m.mixed =>
                              r.loaded.mem[2].at = r.m.start
ModelInv(r, s, exes) ==
  /\ r.pc = "start" => exes[ProfileOf(r)].ver = r.want
  /\ r.pc \in AfterTb => r.loaded.ver = r.want
  /\ r.pc \in {"compile", "start"} \cup AfterTb => r.want \in Versions["rtl"]
  /\ r.pc = "report" /\ Head(r.todo) = "rtl" =>
       /\ DoesOf(r).end = "pass" /\ Bootable(r.loaded)
       /\ s["uart"] = <<"uart", DoesOf(r).console>>
  /\ r.pc = "console" => Booted(BootOf(r), r.loaded) /\ r.console = BootOf(r).console
  /\ r.pc \in {"report", "golden", "difftest"} /\ Head(r.todo) = "difftest" => Traced(r, s)
  /\ r.pc = "difftest" =>
       FwFile(s["elf"]) /\ s["golden"] = <<"golden", Budget(FwGolden[s["elf"][2]], r.n + Slack)>>
ReportInv(r, s) ==
  /\ PassedMode(r, "rtl") => /\ Booted(BootOf(r), r.loaded) /\ LoadedInv(r, s)
                             /\ r.match = "yes" => IsPrefix(BootOf(r).console, SpikeConsole)
  /\ PassedMode(r, "difftest") /\ FwIntact(r.loaded) => Compared(r, s)
  /\ r.verdict = "mismatch" /\ FwIntact(r.loaded) => Differs(r, s)

CleanInv(r, s, exes, fresh) ==
  /\ BuildInv(r, s, fresh) /\ CheckInv(r, s)
  /\ ImageInv(r, s, fresh) /\ ModelInv(r, s, exes) /\ ReportInv(r, s)

ProcInv(r, s, exes, fresh) ==
  /\ Shape(r) /\ Pending(r) /\ Plan(r) /\ Present(r, s)
  /\ r.clean => CleanInv(r, s, exes, fresh)

GlobalInv == FileInv(fs) /\ MemInv(fs, memFresh) /\ ExeInv(exe, src.rtl) /\ SourceInv
IInv ==
  /\ GlobalInv /\ proc = [p \in Procs |-> proc[p]]
  /\ \A p \in Procs : ProcInv(proc[p], fs, exe, memFresh)
-----------------------------------------------------------------------------
(* Commands that are left behind                                            *)

\* A command that has failed says nothing.
LEMMA FailedOK ==
  ASSUME NEW req, NEW code, code \in {1, 2, Killed}, NEW s, NEW e, NEW fresh,
         NEW g, g = [Idle EXCEPT !.pc = "done", !.exit = code, !.req = req]
  PROVE  ProcInv(g, s, e, fresh)
  <1>1. /\ g = Record(g) /\ g.pc = "done" /\ g.exit = code /\ g.req = req /\ g.writes = <<>>
        /\ g.verdict = "none" /\ g.clean = TRUE
    BY DEF Idle, Record
  <1>2. code # Absent /\ code # 0
    BY DEF Killed, Absent
  <1>3. Shape(g)
    BY <1>1, <1>2 DEF Shape, BuilderPcs, RunnerPcs
  <1>4. Pending(g)
    BY <1>1 DEF Pending
  <1>5. Plan(g) /\ Present(g, s)
    BY <1>1, <1>2 DEF Plan, Present, BuilderPcs, AfterFw, AfterFwRead, AfterKernel, AfterInitrd,
      AfterDtb, AfterRom, AfterLoad, AfterMem, AfterTb
  <1>6. BuildInv(g, s, fresh) /\ CheckInv(g, s)
    BY <1>1, <1>2 DEF BuildInv, CheckInv, Past, AfterFw, AfterFwRead, AfterKernel, AfterInitrd,
      AfterDtb, AfterRom
  <1>7. ImageInv(g, s, fresh) /\ ModelInv(g, s, e)
    BY <1>1 DEF ImageInv, ModelInv, AfterLoad, AfterMem, AfterTb
  <1>8. ReportInv(g, s)
    BY <1>1, <1>2 DEF ReportInv, PassedMode
  <1> QED BY <1>3, <1>4, <1>5, <1>6, <1>7, <1>8 DEF ProcInv, CleanInv

\* Nor does one whose files have been written over.
LEMMA RetiredOK ==
  ASSUME NEW s, NEW e, NEW fresh, NEW g, g = Retired
  PROVE  ProcInv(g, s, e, fresh)
  <1>1. /\ g = Record(g) /\ g.pc = "done" /\ g.exit = 0
        /\ g.req.prog = "none" /\ g.writes = <<>> /\ g.verdict = "none"
        /\ g.clean = FALSE
    BY DEF Retired, Idle, Record
  <1>2. 0 # Absent
    BY DEF Absent
  <1>b. g.clean \in BOOLEAN
    BY <1>1, Zenon
  <1>3. Shape(g)
    BY <1>1, <1>2, <1>b DEF Shape, BuilderPcs, RunnerPcs
  <1>4. Pending(g)
    BY <1>1 DEF Pending
  <1>5. Plan(g) /\ Present(g, s)
    BY <1>1 DEF Plan, Present, BuilderPcs, AfterFw, AfterFwRead, AfterKernel, AfterInitrd,
      AfterDtb, AfterRom, AfterLoad, AfterMem, AfterTb
  <1> QED BY <1>1, <1>3, <1>4, <1>5 DEF ProcInv

\* Nor one that has not started.
LEMMA IdleOK ==
  ASSUME NEW s, NEW e, NEW fresh
  PROVE  ProcInv(Idle, s, e, fresh)
  <1>1. /\ Idle = Record(Idle) /\ Idle.pc = "idle" /\ Idle.exit = Absent /\ Idle.writes = <<>>
        /\ Idle.req.prog = "none" /\ Idle.verdict = "none" /\ Idle.clean = TRUE
    BY DEF Idle, Record
  <1>2. Absent # 0
    BY DEF Absent
  <1>3. Shape(Idle)
    BY <1>1 DEF Shape, BuilderPcs, RunnerPcs
  <1>4. Pending(Idle)
    BY <1>1 DEF Pending
  <1>5. Plan(Idle) /\ Present(Idle, s)
    BY <1>1 DEF Plan, Present, BuilderPcs, AfterFw, AfterFwRead, AfterKernel, AfterInitrd,
      AfterDtb, AfterRom, AfterLoad, AfterMem, AfterTb
  <1>6. BuildInv(Idle, s, fresh) /\ CheckInv(Idle, s)
    BY <1>1, <1>2 DEF BuildInv, CheckInv, Past, AfterFw, AfterFwRead, AfterKernel, AfterInitrd,
      AfterDtb, AfterRom
  <1>7. ImageInv(Idle, s, fresh) /\ ModelInv(Idle, s, e)
    BY <1>1 DEF ImageInv, ModelInv, AfterLoad, AfterMem, AfterTb
  <1>8. ReportInv(Idle, s)
    BY <1>1, <1>2 DEF ReportInv, PassedMode
  <1> QED BY <1>3, <1>4, <1>5, <1>6, <1>7, <1>8 DEF ProcInv, CleanInv

\* Files that are there stay there.
Kept(s, s2) == \A f \in Files \ Reports : s[f] # Missing => s2[f] # Missing

\* One that is written under its hands keeps what does not depend on the files.
LEMMA Unclean ==
  ASSUME NEW r, NEW s, NEW e, NEW fresh, NEW s2, NEW e2, NEW fresh2,
         ProcInv(r, s, e, fresh), r.pc # "idle", Kept(s, s2), NEW g, g = [r EXCEPT !.clean = FALSE]
  PROVE  ProcInv(g, s2, e2, fresh2)
  <1>1. Shape(r) /\ Pending(r) /\ Plan(r) /\ Present(r, s)
    BY DEF ProcInv
  <1>0. r = Record(r)
    BY <1>1 DEF Shape
  <1>2. /\ g = Record(g) /\ g.pc = r.pc /\ g.req = r.req /\ g.writes = r.writes /\ g.pins = r.pins
        /\ g.m = r.m /\ g.todo = r.todo /\ g.want = r.want /\ g.loaded = r.loaded
        /\ g.console = r.console /\ g.n = r.n /\ g.verdict = r.verdict /\ g.match = r.match
        /\ g.exit = r.exit /\ g.clean = FALSE
    BY <1>0 DEF Record
  <1>3. Shape(g)
    BY <1>1, <1>2 DEF Shape
  <1>4. Pending(g)
    BY <1>1, <1>2 DEF Pending
  <1>a. Modes(r) => Modes(g)
    BY <1>2 DEF Modes
  <1>5. Plan(g)
    BY <1>1, <1>2, <1>a DEF Plan
  <1>6. Present(g, s2)
    BY <1>1, <1>2 DEF Present, Kept, Files, Reports, Inputs
  <1> QED BY <1>2, <1>3, <1>4, <1>5, <1>6 DEF ProcInv

LEMMA DisturbedOK ==
  ASSUME NEW q \in Procs, NEW s2, NEW e2, NEW fresh2,
         ProcInv(proc[q], fs, exe, memFresh), Kept(fs, s2)
  PROVE  ProcInv(Disturbed(q), s2, e2, fresh2)
  <1>1. CASE proc[q].pc = "done"
    BY <1>1, RetiredOK DEF Disturbed
  <1>2. CASE proc[q].pc = "idle"
    <2>1. proc[q] = Idle
      BY <1>2 DEF ProcInv, Shape
    <2>2. Disturbed(q) = [Idle EXCEPT !.clean = TRUE]
      BY <1>2, <2>1, Zenon DEF Disturbed
    <2>3. Disturbed(q) = Idle
      BY <2>2 DEF Idle
    <2> QED BY <2>3, IdleOK
  <1>3. CASE proc[q].pc \notin {"done", "idle"}
    <2>1. Disturbed(q) = [proc[q] EXCEPT !.clean = FALSE]
      BY <1>3 DEF Disturbed
    <2> QED BY <1>3, <2>1, Unclean
  <1> QED BY <1>1, <1>2, <1>3
-----------------------------------------------------------------------------
(* What one command's step does to the whole                                *)

LEMMA IInvParts ==
  ASSUME IInv
  PROVE  /\ FileInv(fs) /\ MemInv(fs, memFresh) /\ ExeInv(exe, src.rtl) /\ SourceInv
         /\ proc = [p \in Procs |-> proc[p]]
         /\ \A p \in Procs : ProcInv(proc[p], fs, exe, memFresh)
  BY DEF IInv, GlobalInv

\* A step that touches no file.
LEMMA QuietStep ==
  ASSUME IInv, NEW p \in Procs, NEW g, Steps(p, g), UNCHANGED <<fs, exe, memFresh, src, edits>>,
         crashes' \in 0..MaxCrashes, ProcInv(g, fs, exe, memFresh)
  PROVE  IInv'
  <1>1. proc' = [q \in Procs |-> IF q = p THEN g ELSE proc[q]]
    BY IInvParts DEF Steps
  <1>2. \A q \in Procs : ProcInv(proc'[q], fs, exe, memFresh)
    BY <1>1, IInvParts
  <1>3. proc' = [q \in Procs |-> proc'[q]]
    BY <1>1
  <1>4. SourceInv'
    BY IInvParts DEF SourceInv
  <1> QED BY <1>2, <1>3, <1>4, IInvParts DEF IInv, GlobalInv

\* A step that writes, to which the others are not prepared.
LEMMA WriteStep ==
  ASSUME IInv, NEW p \in Procs, NEW g, Disturbs(p, g), UNCHANGED <<src, edits, crashes>>,
         memFresh' \in BOOLEAN, Kept(fs, fs'), FileInv(fs'), MemInv(fs', memFresh'),
         ExeInv(exe', src.rtl), ProcInv(g, fs', exe', memFresh')
  PROVE  IInv'
  <1>1. proc' = [q \in Procs |-> IF q = p THEN g ELSE Disturbed(q)]
    BY DEF Disturbs
  <1>2. ASSUME NEW q \in Procs PROVE ProcInv(proc'[q], fs', exe', memFresh')
    <2>1. CASE q = p
      BY <1>1, <2>1
    <2>2. CASE q # p
      <3>1. proc'[q] = Disturbed(q)
        BY <1>1, <2>2
      <3>2. ProcInv(proc[q], fs, exe, memFresh)
        BY IInvParts
      <3>3. PICK s2 : s2 = fs'
        OBVIOUS
      <3>4. PICK e2 : e2 = exe'
        OBVIOUS
      <3>5. PICK fresh2 : fresh2 = memFresh'
        OBVIOUS
      <3>6. Kept(fs, s2)
        BY <3>3
      <3>7. ProcInv(Disturbed(q), s2, e2, fresh2)
        BY <3>2, <3>6, DisturbedOK
      <3> QED BY <3>1, <3>3, <3>4, <3>5, <3>7
    <2> QED BY <2>1, <2>2
  <1>3. proc' = [q \in Procs |-> proc'[q]]
    BY <1>1
  <1>4. SourceInv'
    BY IInvParts DEF SourceInv
  <1> QED BY <1>2, <1>3, <1>4 DEF IInv, GlobalInv

\* The age of s4.mem.hex after the files of S have been touched.
Aged(S, fresh) == IF "mem" \in S THEN TRUE ELSE IF S \cap Inputs # {} THEN FALSE ELSE fresh

\* A file that is opened is torn; the manifest is opened last.
Tears(s, fresh, x, s2, fresh2) ==
  /\ x \in Files \ Reports /\ (x = "manifest" => \A f \in Inputs : s[f] # Missing)
  /\ s2 = [s EXCEPT ![x] = Torn] /\ fresh2 = Aged({x}, fresh)

LEMMA OpenedFiles ==
  ASSUME NEW s, NEW fresh \in BOOLEAN, FileInv(s), MemInv(s, fresh),
         NEW x, NEW s2, NEW fresh2, Tears(s, fresh, x, s2, fresh2)
  PROVE  /\ FileInv(s2) /\ MemInv(s2, fresh2) /\ Kept(s, s2) /\ fresh2 \in BOOLEAN
         /\ s2[x] = Torn /\ \A f \in Files : f # x => s2[f] = s[f]
  <1>0. /\ x \in Files \ Reports /\ (x = "manifest" => \A f \in Inputs : s[f] # Missing)
        /\ s2 = [s EXCEPT ![x] = Torn] /\ fresh2 = Aged({x}, fresh)
    BY DEF Tears
  <1>1. s2 = [f \in Files |-> s2[f]] /\ s2[x] = Torn /\ \A f \in Files : f # x => s2[f] = s[f]
    BY <1>0 DEF FileInv
  <1>2. Torn # Missing /\ Torn[1] = "torn"
    BY DEF Torn, Missing
  <1>3. Kept(s, s2)
    BY <1>1, <1>2 DEF Kept
  <1>4. fresh2 \in BOOLEAN
    BY <1>0 DEF Aged
  <1>5. \A f \in Files : s2[f] = s[f] \/ s2[f] = Torn
    BY <1>1
  <1>6. FileInv(s2)
    <2>1. s2["spike"] = s["spike"]
      BY <1>0, <1>1 DEF Files, Reports
    <2>2. s2["manifest"] # Missing => \A f \in Inputs : s2[f] # Missing
      BY <1>0, <1>1, <1>2 DEF FileInv, Files, Inputs
    <2> QED BY <1>1, <1>5, <2>1, <2>2 DEF FileInv, Lacks, Files
  <1>7. MemInv(s2, fresh2)
    <2>1. CASE x = "mem"
      BY <1>1, <1>2, <2>1 DEF MemInv
    <2>2. CASE x \in Inputs
      BY <1>0, <2>2 DEF MemInv, Aged, Inputs
    <2>3. CASE x \notin Inputs \cup {"mem"}
      <3>1. fresh2 = fresh
        BY <1>0, <2>3 DEF Aged
      <3>2. s2["mem"] = s["mem"] /\ \A f \in Inputs : s2[f] = s[f]
        BY <1>1, <2>3 DEF Files, Inputs
      <3>3. s2["manifest"] = s["manifest"] \/ s2["manifest"][1] # "manifest"
        BY <1>5, <1>2 DEF Files
      <3> QED BY <3>1, <3>2, <3>3 DEF MemInv
    <2> QED BY <2>1, <2>2, <2>3
  <1> QED BY <1>1, <1>3, <1>4, <1>6, <1>7

LEMMA PutStep ==
  ASSUME IInv, NEW p \in Procs, NEW g, Puts(p, g), NEW x \in Files \ Reports,
         g.writes # <<>>, Head(g.writes)[1] = x,
         x = "manifest" => \A f \in Inputs : fs[f] # Missing,
         \A s2, fresh2 : Tears(fs, memFresh, x, s2, fresh2) => ProcInv(g, s2, exe, fresh2)
  PROVE  IInv'
  <1>1. FileInv(fs) /\ MemInv(fs, memFresh) /\ memFresh \in BOOLEAN
    BY IInvParts DEF SourceInv
  <1>2. fs' = [fs EXCEPT ![x] = Torn] /\ memFresh' = Aged({x}, memFresh)
    BY DEF Puts, Opened, Touched, Aged
  <1>3. PICK s2 : s2 = fs'
    OBVIOUS
  <1>4. PICK fresh2 : fresh2 = memFresh'
    OBVIOUS
  <1>a. Tears(fs, memFresh, x, s2, fresh2)
    BY <1>2, <1>3, <1>4 DEF Tears
  <1>5. FileInv(s2) /\ MemInv(s2, fresh2) /\ Kept(fs, s2) /\ fresh2 \in BOOLEAN
    BY <1>1, <1>a, OpenedFiles
  <1>6. ProcInv(g, s2, exe, fresh2)
    BY <1>a
  <1>7. Disturbs(p, g) /\ UNCHANGED <<src, exe, edits, crashes>>
    BY DEF Puts, Rest
  <1> QED BY <1>3, <1>4, <1>5, <1>6, <1>7, WriteStep, IInvParts

\* A step that writes a runner's report.
SameImages(s, s2) == \A f \in Files \ Reports : s2[f] = s[f]

LEMMA ReportStep ==
  ASSUME IInv, NEW p \in Procs, NEW new, NEW g, Writes(p, new, g), DOMAIN new \subseteq Reports,
         SpikeFile(fs'["spike"]),
         \A s2 : s2 = fs' /\ SameImages(fs, s2) => ProcInv(g, s2, exe, memFresh)
  PROVE  IInv'
  <1>1. PICK s2 : s2 = fs'
    OBVIOUS
  <1>2. s2 = [f \in Files |-> s2[f]] /\ SameImages(fs, s2)
    BY <1>1 DEF Writes, SameImages
  <1>3. /\ s2["kernel.apk"] = fs["kernel.apk"] /\ s2["busybox.apk"] = fs["busybox.apk"]
        /\ s2["fw"] = fs["fw"] /\ s2["elf"] = fs["elf"] /\ s2["kernel"] = fs["kernel"]
        /\ s2["initrd"] = fs["initrd"] /\ s2["dtb"] = fs["dtb"] /\ s2["rom"] = fs["rom"]
        /\ s2["manifest"] = fs["manifest"] /\ s2["mem"] = fs["mem"]
    BY <1>2 DEF SameImages, Files, Reports
  <1>4. FileInv(s2)
    BY <1>1, <1>2, <1>3, IInvParts DEF FileInv, Inputs
  <1>5. MemInv(s2, memFresh)
    BY <1>3, IInvParts DEF MemInv, Inputs
  <1>6. Kept(fs, s2)
    BY <1>2 DEF SameImages, Kept
  <1>7. memFresh' = memFresh /\ exe' = exe /\ memFresh \in BOOLEAN /\ UNCHANGED <<src, edits, crashes>>
    BY IInvParts DEF Writes, Rest, SourceInv
  <1>8. Disturbs(p, g)
    BY DEF Writes
  <1>9. ProcInv(g, s2, exe, memFresh)
    BY <1>1, <1>2
  <1> QED BY <1>1, <1>4, <1>5, <1>6, <1>7, <1>8, <1>9, WriteStep, IInvParts
-----------------------------------------------------------------------------
(* The builder, stage by stage                                              *)

LEMMA ToSetOf ==
  ASSUME NEW a, NEW b
  PROVE  ToSet(<<>>) = {} /\ ToSet(<<a>>) = {a} /\ ToSet(<<a, b>>) = {a, b}
  BY DEF ToSet

\* Opening a file tears it and no other, and an input makes s4.mem.hex stale.
LEMMA TornOnly ==
  ASSUME NEW s, NEW fresh \in BOOLEAN, FileInv(s), MemInv(s, fresh),
         NEW x, NEW s2, NEW fresh2, Tears(s, fresh, x, s2, fresh2)
  PROVE  /\ s2[x] = Torn /\ \A y \in Files : y # x => s2[y] = s[y]
         /\ x \in Inputs => ~fresh2
         /\ x \notin Inputs \cup {"mem"} => fresh2 = fresh
         /\ x = "mem" => fresh2
  <1>1. fresh2 = Aged({x}, fresh)
    BY DEF Tears
  <1>2. s2[x] = Torn /\ \A y \in Files : y # x => s2[y] = s[y]
    BY OpenedFiles
  <1>3. x \in Inputs => ~fresh2
    BY <1>1 DEF Aged, Inputs
  <1>4. x \notin Inputs \cup {"mem"} => fresh2 = fresh
    BY <1>1 DEF Aged
  <1>5. x = "mem" => fresh2
    BY <1>1 DEF Aged
  <1> QED BY <1>2, <1>3, <1>4, <1>5

\* A command that goes on as it was.
Continues(f, g) ==
  /\ g = Record(g) /\ g.req = f.req /\ g.pins = f.pins /\ g.todo = f.todo /\ g.want = f.want
  /\ g.loaded = f.loaded /\ g.n = f.n /\ g.verdict = f.verdict /\ g.match = f.match
  /\ g.exit = f.exit /\ g.clean = f.clean

\* Next stage, with files to write or without.
LEMMA MovesOn ==
  ASSUME NEW f, Shape(f), NEW pc, NEW g, g = [f EXCEPT !.pc = pc]
  PROVE  Continues(f, g) /\ g.pc = pc /\ g.writes = f.writes /\ g.m = f.m /\ g.console = f.console
  BY DEF Shape, Record, Continues

Starts(f, g, pc, ws) == g = [f EXCEPT !.pc = pc, !.writes = ws]
LEMMA WritesOn ==
  ASSUME NEW f, Shape(f), NEW pc, NEW ws, NEW g, Starts(f, g, pc, ws)
  PROVE  Continues(f, g) /\ g.pc = pc /\ g.writes = ws /\ g.m = f.m /\ g.console = f.console
  BY DEF Shape, Record, Continues, Starts

\* A builder at work is described by its stage.
LEMMA BuilderMoves ==
  ASSUME NEW f, NEW s, NEW e, NEW fresh, ProcInv(f, s, e, fresh), f.pc \in BuilderPcs,
         NEW g, Continues(f, g), g.pc \in BuilderPcs, NEW s2, NEW fresh2,
         Pending(g), Plan(g), Present(g, s2), g.clean => BuildInv(g, s2, fresh2)
  PROVE  ProcInv(g, s2, e, fresh2)
  <1>1. Shape(f)
    BY DEF ProcInv
  <1>2. /\ f.pc \notin {"idle", "done", "check"} /\ g.pc \notin {"idle", "done", "check"}
        /\ f.pc \notin RunnerPcs /\ g.pc \notin RunnerPcs
    BY DEF BuilderPcs, RunnerPcs
  <1>3. g.exit = Absent /\ g.verdict # "mismatch"
    BY <1>1, <1>2 DEF Shape, Continues
  <1>4. Shape(g)
    BY <1>1, <1>2, <1>3 DEF Shape, Continues
  <1>5. Absent # 0
    BY DEF Absent
  <1>6. g.pc # "next" /\ g.pc \notin AfterLoad
    BY DEF BuilderPcs, AfterLoad, AfterMem, AfterTb
  <1>7. CheckInv(g, s2) /\ ReportInv(g, s2)
    BY <1>3, <1>5, <1>6 DEF CheckInv, ReportInv, PassedMode
  <1>8. ImageInv(g, s2, fresh2) /\ ModelInv(g, s2, e)
    BY <1>6 DEF ImageInv, ModelInv, AfterLoad, AfterMem, AfterTb
  <1> QED BY <1>4, <1>7, <1>8 DEF ProcInv, CleanInv

\* Before the firmware is written.
LEMMA EarlyOK ==
  ASSUME NEW f, NEW s, NEW e, NEW fresh, ProcInv(f, s, e, fresh),
         f.pc \in {"opensbi", "clone"}, f.writes = <<>>,
         NEW pc \in {"clone", "head", "hung"}, NEW g, g = [f EXCEPT !.pc = pc]
  PROVE  ProcInv(g, s, e, fresh)
  <1>1. Shape(f) /\ Plan(f)
    BY DEF ProcInv
  <1>2. Continues(f, g) /\ g.pc = pc /\ g.writes = <<>> /\ g.m = f.m
    BY <1>1 DEF Shape, Record, Continues
  <1>3. f.pc \in BuilderPcs /\ g.pc \in BuilderPcs
    BY <1>2 DEF BuilderPcs
  <1>4. Pending(g)
    BY <1>2 DEF Pending
  <1>5. Plan(g)
    BY <1>1, <1>2, <1>3 DEF Plan, Continues, AfterFwRead, AfterKernel, AfterInitrd,
      AfterDtb, AfterRom, AfterLoad, AfterMem, AfterTb
  <1>6. Present(g, s)
    BY <1>2 DEF Present, AfterFw, AfterFwRead, AfterKernel, AfterInitrd,
      AfterDtb, AfterRom, AfterLoad, AfterMem, AfterTb
  <1>7. BuildInv(g, s, fresh)
    BY <1>2 DEF BuildInv, Past, AfterFw, AfterFwRead, AfterKernel, AfterInitrd,
      AfterDtb, AfterRom
  <1> QED BY <1>2, <1>3, <1>4, <1>5, <1>6, <1>7, BuilderMoves

\* The firmware is made of the pinned sources.
LEMMA HeadOK ==
  ASSUME NEW f, NEW s, NEW e, NEW fresh \in BOOLEAN, ProcInv(f, s, e, fresh), FileInv(s),
         MemInv(s, fresh), f.pc = "head", NEW fw, fw = <<"fw", f.pins["opensbi"]>>,
         NEW s2, NEW fresh2, Tears(s, fresh, "fw", s2, fresh2),
         NEW ws, ws = <<<<"fw", fw>>, <<"elf", fw>>>>,
         NEW g, Starts(f, g, "fwread", ws)
  PROVE  ProcInv(g, s2, e, fresh2)
  <1>1. Shape(f) /\ Plan(f)
    BY DEF ProcInv
  <1>2. Continues(f, g) /\ g.pc = "fwread" /\ g.writes = ws /\ g.m = f.m
    BY <1>1, WritesOn
  <1>3. f.pc \in BuilderPcs /\ g.pc \in BuilderPcs
    BY <1>2 DEF BuilderPcs
  <1>b. "fw" \in Inputs
    BY DEF Inputs
  <1>4. s2["fw"] = Torn /\ ~fresh2
    BY <1>b, TornOnly
  <1>0. Torn # Missing
    BY DEF Torn, Missing
  <1>5. Pending(g)
    BY <1>2 DEF Pending, Continues
  <1>6. Plan(g)
    BY <1>1, <1>2, <1>3 DEF Plan, Continues, AfterFwRead, AfterKernel, AfterInitrd,
      AfterDtb, AfterRom, AfterLoad, AfterMem, AfterTb
  <1>7. Present(g, s2)
    BY <1>2, <1>4, <1>0 DEF Present, AfterFw, AfterFwRead, AfterKernel, AfterInitrd,
      AfterDtb, AfterRom, AfterLoad, AfterMem, AfterTb
  <1>a. ToSet(ws) = {<<"fw", fw>>, <<"elf", fw>>}
    BY ToSetOf
  <1>8. Holds(g, s2, "fw", fw) /\ Holds(g, s2, "elf", fw)
    BY <1>2, <1>a DEF Holds
  <1>9. BuildInv(g, s2, fresh2)
    BY <1>2, <1>4, <1>8 DEF BuildInv, Past, Continues, AfterFw, AfterFwRead, AfterKernel,
      AfterInitrd, AfterDtb, AfterRom
  <1> QED BY <1>2, <1>3, <1>5, <1>6, <1>7, <1>9, BuilderMoves

\* The same with one more line of the manifest.
Fills(f, g, pc, ws, m) == g = [f EXCEPT !.pc = pc, !.writes = ws, !.m = m]
LEMMA FillsOn ==
  ASSUME NEW f, Shape(f), NEW pc, NEW ws, NEW m, NEW g, Fills(f, g, pc, ws, m)
  PROVE  Continues(f, g) /\ g.pc = pc /\ g.writes = ws /\ g.m = m
  BY DEF Shape, Record, Continues, Fills

\* What is read back is the firmware, unless somebody is writing it.
LEMMA FwReadOK ==
  ASSUME NEW f, NEW s, NEW e, NEW fresh, ProcInv(f, s, e, fresh), FileInv(s),
         f.pc = "fwread", f.writes = <<>>, NEW m, m = [f.m EXCEPT !.fw = s["fw"]],
         NEW g, Fills(f, g, "kernel.apk", <<>>, m)
  PROVE  ProcInv(g, s, e, fresh)
  <1>1. Shape(f) /\ Plan(f) /\ Present(f, s) /\ (f.clean => BuildInv(f, s, fresh))
    BY DEF ProcInv, CleanInv
  <1>2. Continues(f, g) /\ g.pc = "kernel.apk" /\ g.writes = <<>> /\ g.m = m
    BY <1>1, FillsOn
  <1>3. f.pc \in BuilderPcs /\ g.pc \in BuilderPcs
    BY <1>2 DEF BuilderPcs
  <1>4. f.m = Man(f.m) /\ f.m.mixed = FALSE
    BY <1>1, <1>3 DEF Plan
  <1>5. m = Man(m) /\ m.fw = s["fw"] /\ m.mixed = FALSE
    BY <1>4 DEF Man
  <1>6. s["fw"] # Missing
    BY <1>1 DEF Present, AfterFw
  <1>7. s["fw"] = Torn \/ FwFile(s["fw"])
    BY <1>6 DEF FileInv, Lacks
  <1>8. Pending(g)
    BY <1>2 DEF Pending
  <1>9. Plan(g)
    BY <1>1, <1>2, <1>3, <1>5, <1>7 DEF Plan, Continues, AfterKernel, AfterInitrd,
      AfterDtb, AfterRom, AfterLoad, AfterMem, AfterTb
  <1>10. Present(g, s)
    BY <1>2, <1>6 DEF Present, AfterFw, AfterFwRead, AfterKernel, AfterInitrd,
      AfterDtb, AfterRom, AfterLoad, AfterMem, AfterTb
  <1>11. ASSUME g.clean PROVE BuildInv(g, s, fresh)
    <2>1. BuildInv(f, s, fresh)
      BY <1>1, <1>2, <1>11 DEF Continues
    <2>2. /\ Holds(f, s, "fw", <<"fw", f.pins["opensbi"]>>)
          /\ Holds(f, s, "elf", <<"fw", f.pins["opensbi"]>>) /\ ~fresh
      BY <2>1 DEF BuildInv, Past, AfterFw
    <2>3. s["fw"] = <<"fw", f.pins["opensbi"]>> /\ s["elf"] = <<"fw", f.pins["opensbi"]>>
      BY <2>2, ToSetOf DEF Holds
    <2> QED BY <1>2, <1>5, <2>2, <2>3 DEF BuildInv, Past, Holds, Continues, AfterKernel,
          AfterInitrd, AfterDtb, AfterRom
  <1> QED BY <1>2, <1>3, <1>8, <1>9, <1>10, <1>11, BuilderMoves

\* An archive that is taken is the pinned one, or is fetched.
LEMMA LookupOK ==
  ASSUME NEW f, NEW s, NEW e, NEW fresh, ProcInv(f, s, e, fresh), FileInv(s),
         NEW k \in Archives, f.pc = k, f.writes = <<>>,
         NEW pc, \/ pc = Fetching[k]
                 \/ pc = Unpack[k] /\ s[k] = <<"apk", k, f.pins[k]>>,
         NEW g, g = [f EXCEPT !.pc = pc]
  PROVE  ProcInv(g, s, e, fresh)
  <1>1. Shape(f) /\ Plan(f) /\ Present(f, s) /\ (f.clean => BuildInv(f, s, fresh))
    BY DEF ProcInv, CleanInv
  <1>2. Continues(f, g) /\ g.pc = pc /\ g.writes = <<>> /\ g.m = f.m
    BY <1>1 DEF Shape, Record, Continues
  <1>a. \/ k = "kernel.apk" /\ Fetching[k] = "kernel.get" /\ Unpack[k] = "kernel"
        \/ k = "busybox.apk" /\ Fetching[k] = "busybox.get" /\ Unpack[k] = "busybox"
    BY DEF Fetching, Unpack, Archives
  <1>3. f.pc \in BuilderPcs /\ g.pc \in BuilderPcs
    BY <1>2, <1>a DEF BuilderPcs
  <1>b. <<"apk", k, f.pins[k]>> # Missing
    BY DEF Missing
  <1>8. Pending(g)
    BY <1>2, <1>a DEF Pending
  <1>9. Plan(g)
    BY <1>1, <1>2, <1>3, <1>a DEF Plan, Continues, AfterFwRead, AfterKernel, AfterInitrd,
      AfterDtb, AfterRom, AfterLoad, AfterMem, AfterTb
  <1>10. Present(g, s)
    BY <1>1, <1>2, <1>a, <1>b DEF Present, AfterFw, AfterFwRead, AfterKernel, AfterInitrd,
      AfterDtb, AfterRom, AfterLoad, AfterMem, AfterTb
  <1>11. ASSUME g.clean PROVE BuildInv(g, s, fresh)
    <2>1. BuildInv(f, s, fresh)
      BY <1>1, <1>2, <1>11 DEF Continues
    <2>2. \A x, c : Holds(g, s, x, c) <=> Holds(f, s, x, c)
      BY <1>2 DEF Holds
    <2>3. f.pins = g.pins
      BY <1>2 DEF Continues
    <2>4. pc = "kernel" => Holds(g, s, "kernel.apk", <<"apk", "kernel.apk", g.pins["kernel.apk"]>>)
      BY <1>a, <2>3 DEF Holds
    <2>5. pc = "busybox" => Holds(g, s, "busybox.apk", <<"apk", "busybox.apk", g.pins["busybox.apk"]>>)
      BY <1>a, <2>3 DEF Holds
    <2> QED BY <1>2, <1>a, <2>1, <2>2, <2>3, <2>4, <2>5 DEF BuildInv, Past, AfterFw, AfterFwRead,
          AfterKernel, AfterInitrd, AfterDtb, AfterRom
  <1> QED BY <1>2, <1>3, <1>8, <1>9, <1>10, <1>11, BuilderMoves

\* What is fetched is the pinned archive.
LEMMA DownloadOK ==
  ASSUME NEW f, NEW s, NEW e, NEW fresh \in BOOLEAN, ProcInv(f, s, e, fresh), FileInv(s),
         MemInv(s, fresh), NEW k \in Archives, f.pc = Fetching[k],
         f.writes = <<>>, NEW s2, NEW fresh2, Tears(s, fresh, k, s2, fresh2),
         NEW ws, ws = <<<<k, <<"apk", k, f.pins[k]>>>>>>,
         NEW g, Starts(f, g, Unpack[k], ws)
  PROVE  ProcInv(g, s2, e, fresh2)
  <1>1. Shape(f) /\ Plan(f) /\ Present(f, s) /\ (f.clean => BuildInv(f, s, fresh))
    BY DEF ProcInv, CleanInv
  <1>2. Continues(f, g) /\ g.pc = Unpack[k] /\ g.writes = ws /\ g.m = f.m
    BY <1>1, WritesOn
  <1>a. \/ k = "kernel.apk" /\ Fetching[k] = "kernel.get" /\ Unpack[k] = "kernel"
        \/ k = "busybox.apk" /\ Fetching[k] = "busybox.get" /\ Unpack[k] = "busybox"
    BY DEF Fetching, Unpack, Archives
  <1>3. f.pc \in BuilderPcs /\ g.pc \in BuilderPcs
    BY <1>2, <1>a DEF BuilderPcs
  <1>b. k \notin Inputs \cup {"mem"}
    BY DEF Inputs, Archives
  <1>c. s2[k] = Torn /\ (\A y \in Files : y # k => s2[y] = s[y]) /\ fresh2 = fresh
    BY <1>b, TornOnly
  <1>d. Torn # Missing
    BY DEF Torn, Missing
  <1>8. Pending(g)
    BY <1>2, <1>a DEF Pending, Continues
  <1>9. Plan(g)
    BY <1>1, <1>2, <1>3, <1>a DEF Plan, Continues, AfterFwRead, AfterKernel, AfterInitrd,
      AfterDtb, AfterRom, AfterLoad, AfterMem, AfterTb
  <1>10. Present(g, s2)
    BY <1>1, <1>2, <1>a, <1>c, <1>d DEF Present, Files, AfterFw, AfterFwRead, AfterKernel,
      AfterInitrd, AfterDtb, AfterRom, AfterLoad, AfterMem, AfterTb
  <1>11. ASSUME g.clean PROVE BuildInv(g, s2, fresh2)
    <2>1. BuildInv(f, s, fresh)
      BY <1>1, <1>2, <1>11 DEF Continues
    <2>2. ASSUME NEW x \in Files, NEW c, x # k, Holds(f, s, x, c) PROVE Holds(g, s2, x, c)
      BY <1>c, <2>2, ToSetOf DEF Holds
    <2>3. f.pins = g.pins
      BY <1>2 DEF Continues
    <2>a. ToSet(ws) = {<<k, <<"apk", k, f.pins[k]>>>>}
      BY ToSetOf
    <2>4. Holds(g, s2, k, <<"apk", k, g.pins[k]>>)
      BY <1>2, <2>3, <2>a DEF Holds
    <2>5. {"fw", "elf", "kernel"} \subseteq Files \ {k}
      BY DEF Files, Archives
    <2> QED BY <1>2, <1>a, <1>c, <2>1, <2>2, <2>3, <2>4, <2>5 DEF BuildInv, Past, AfterFw,
          AfterFwRead, AfterKernel, AfterInitrd, AfterDtb, AfterRom
  <1> QED BY <1>2, <1>3, <1>8, <1>9, <1>10, <1>11, BuilderMoves

\* The kernel is that of the archive.
LEMMA KernelOK ==
  ASSUME NEW f, NEW s, NEW e, NEW fresh \in BOOLEAN, ProcInv(f, s, e, fresh), FileInv(s),
         MemInv(s, fresh), f.pc = "kernel", f.writes = <<>>, s["kernel.apk"] # Torn,
         NEW s2, NEW fresh2, Tears(s, fresh, "kernel", s2, fresh2),
         NEW k, k = <<"kernel", s["kernel.apk"][3]>>, NEW m, m = [f.m EXCEPT !.kernel = k],
         NEW ws, ws = <<<<"kernel", k>>>>, NEW g, Fills(f, g, "busybox.apk", ws, m)
  PROVE  ProcInv(g, s2, e, fresh2)
  <1>1. Shape(f) /\ Plan(f) /\ Present(f, s) /\ (f.clean => BuildInv(f, s, fresh))
    BY DEF ProcInv, CleanInv
  <1>2. Continues(f, g) /\ g.pc = "busybox.apk" /\ g.writes = ws /\ g.m = m
    BY <1>1, FillsOn
  <1>3. f.pc \in BuilderPcs /\ g.pc \in BuilderPcs
    BY <1>2 DEF BuilderPcs
  <1>4. f.m = Man(f.m) /\ f.m.mixed = FALSE /\ (f.m.fw = Torn \/ FwFile(f.m.fw))
    BY <1>1, <1>3 DEF Plan, AfterFwRead
  <1>5. m = Man(m) /\ m.fw = f.m.fw /\ m.kernel = k /\ m.mixed = FALSE
    BY <1>4 DEF Man
  <1>6. ApkFile("kernel.apk", s["kernel.apk"])
    BY <1>1 DEF FileInv, Lacks, Present
  <1>7. KernelFile(m.kernel)
    BY <1>5, <1>6 DEF ApkFile, KernelFile
  <1>b. "kernel" \in Inputs
    BY DEF Inputs
  <1>c. s2["kernel"] = Torn /\ (\A y \in Files : y # "kernel" => s2[y] = s[y]) /\ ~fresh2
    BY <1>b, TornOnly
  <1>d. Torn # Missing
    BY DEF Torn, Missing
  <1>8. Pending(g)
    BY <1>2, <1>5 DEF Pending, Continues
  <1>9. Plan(g)
    BY <1>1, <1>2, <1>3, <1>4, <1>5, <1>7 DEF Plan, Continues, AfterInitrd,
      AfterDtb, AfterRom, AfterLoad, AfterMem, AfterTb
  <1>10. Present(g, s2)
    BY <1>1, <1>2, <1>c, <1>d DEF Present, Files, AfterFw, AfterFwRead, AfterKernel,
      AfterInitrd, AfterDtb, AfterRom, AfterLoad, AfterMem, AfterTb
  <1>11. ASSUME g.clean PROVE BuildInv(g, s2, fresh2)
    <2>1. BuildInv(f, s, fresh) /\ f.pins = g.pins
      BY <1>1, <1>2, <1>11 DEF Continues
    <2>2. /\ Holds(f, s, "fw", <<"fw", f.pins["opensbi"]>>)
          /\ Holds(f, s, "elf", <<"fw", f.pins["opensbi"]>>)
          /\ f.m.fw = <<"fw", f.pins["opensbi"]>>
          /\ Holds(f, s, "kernel.apk", <<"apk", "kernel.apk", f.pins["kernel.apk"]>>)
      BY <2>1 DEF BuildInv, Past, AfterFw, AfterFwRead
    <2>3. s["kernel.apk"] = <<"apk", "kernel.apk", f.pins["kernel.apk"]>>
      BY <2>2, ToSetOf DEF Holds
    <2>4. k = <<"kernel", f.pins["kernel.apk"]>>
      BY <2>3
    <2>5. "fw" \in Files /\ "elf" \in Files
      BY DEF Files
    <2>b. ASSUME NEW y \in Files, y # "kernel", NEW x, Holds(f, s, y, x) PROVE Holds(g, s2, y, x)
      BY <1>c, <2>b, ToSetOf DEF Holds
    <2>6. /\ Holds(g, s2, "fw", <<"fw", g.pins["opensbi"]>>)
          /\ Holds(g, s2, "elf", <<"fw", g.pins["opensbi"]>>)
      BY <2>1, <2>2, <2>5, <2>b
    <2>a. ToSet(ws) = {<<"kernel", k>>}
      BY ToSetOf
    <2>7. Holds(g, s2, "kernel", g.m.kernel)
      BY <1>2, <1>5, <2>a DEF Holds
    <2> QED BY <1>2, <1>5, <1>c, <2>1, <2>2, <2>4, <2>6, <2>7 DEF BuildInv, Past, AfterInitrd,
          AfterDtb, AfterRom
  <1> QED BY <1>2, <1>3, <1>8, <1>9, <1>10, <1>11, BuilderMoves

\* The initramfs is made of the archive and the init as it is now.
LEMMA InitramfsOK ==
  ASSUME NEW f, NEW s, NEW e, NEW fresh \in BOOLEAN, ProcInv(f, s, e, fresh), FileInv(s),
         MemInv(s, fresh), f.pc = "busybox", f.writes = <<>>, s["busybox.apk"] # Torn,
         NEW s2, NEW fresh2, Tears(s, fresh, "initrd", s2, fresh2), NEW init \in Versions["init"],
         NEW c, c = <<"initrd", s["busybox.apk"][3], init>>, NEW m, m = [f.m EXCEPT !.initrd = c],
         NEW ws, ws = <<<<"initrd", c>>>>, NEW g, Fills(f, g, "dtb", ws, m)
  PROVE  ProcInv(g, s2, e, fresh2)
  <1>1. Shape(f) /\ Plan(f) /\ Present(f, s) /\ (f.clean => BuildInv(f, s, fresh))
    BY DEF ProcInv, CleanInv
  <1>2. Continues(f, g) /\ g.pc = "dtb" /\ g.writes = ws /\ g.m = m
    BY <1>1, FillsOn
  <1>3. f.pc \in BuilderPcs /\ g.pc \in BuilderPcs
    BY <1>2 DEF BuilderPcs
  <1>4. /\ f.m = Man(f.m) /\ f.m.mixed = FALSE /\ (f.m.fw = Torn \/ FwFile(f.m.fw))
        /\ KernelFile(f.m.kernel)
    BY <1>1, <1>3 DEF Plan, AfterFwRead, AfterKernel
  <1>5. m = Man(m) /\ m.fw = f.m.fw /\ m.kernel = f.m.kernel /\ m.initrd = c /\ m.mixed = FALSE
    BY <1>4 DEF Man
  <1>6. ApkFile("busybox.apk", s["busybox.apk"])
    BY <1>1 DEF FileInv, Lacks, Present
  <1>7. InitrdFile(m.initrd)
    BY <1>5, <1>6 DEF ApkFile, InitrdFile
  <1>b. "initrd" \in Inputs
    BY DEF Inputs
  <1>c. s2["initrd"] = Torn /\ (\A y \in Files : y # "initrd" => s2[y] = s[y]) /\ ~fresh2
    BY <1>b, TornOnly
  <1>d. Torn # Missing
    BY DEF Torn, Missing
  <1>8. Pending(g)
    BY <1>2, <1>5 DEF Pending, Continues
  <1>9. Plan(g)
    BY <1>1, <1>2, <1>3, <1>4, <1>5, <1>7 DEF Plan, Continues,
      AfterDtb, AfterRom, AfterLoad, AfterMem, AfterTb
  <1>10. Present(g, s2)
    BY <1>1, <1>2, <1>c, <1>d DEF Present, Files, AfterFw, AfterFwRead, AfterKernel,
      AfterInitrd, AfterDtb, AfterRom, AfterLoad, AfterMem, AfterTb
  <1>11. ASSUME g.clean PROVE BuildInv(g, s2, fresh2)
    <2>1. BuildInv(f, s, fresh) /\ f.pins = g.pins
      BY <1>1, <1>2, <1>11 DEF Continues
    <2>2. /\ Holds(f, s, "fw", <<"fw", f.pins["opensbi"]>>)
          /\ Holds(f, s, "elf", <<"fw", f.pins["opensbi"]>>)
          /\ f.m.fw = <<"fw", f.pins["opensbi"]>>
          /\ f.m.kernel = <<"kernel", f.pins["kernel.apk"]>> /\ Holds(f, s, "kernel", f.m.kernel)
          /\ Holds(f, s, "busybox.apk", <<"apk", "busybox.apk", f.pins["busybox.apk"]>>)
      BY <2>1 DEF BuildInv, Past, AfterFw, AfterFwRead, AfterKernel
    <2>3. s["busybox.apk"] = <<"apk", "busybox.apk", f.pins["busybox.apk"]>>
      BY <2>2, ToSetOf DEF Holds
    <2>4. c[2] = f.pins["busybox.apk"]
      BY <2>3
    <2>5. "fw" \in Files /\ "elf" \in Files /\ "kernel" \in Files
      BY DEF Files
    <2>b. ASSUME NEW y \in Files, y # "initrd", NEW x, Holds(f, s, y, x) PROVE Holds(g, s2, y, x)
      BY <1>c, <2>b, ToSetOf DEF Holds
    <2>6. /\ Holds(g, s2, "fw", <<"fw", g.pins["opensbi"]>>)
          /\ Holds(g, s2, "elf", <<"fw", g.pins["opensbi"]>>)
          /\ Holds(g, s2, "kernel", f.m.kernel)
      BY <2>1, <2>2, <2>5, <2>b
    <2>a. ToSet(ws) = {<<"initrd", c>>}
      BY ToSetOf
    <2>7. Holds(g, s2, "initrd", g.m.initrd)
      BY <1>2, <1>5, <2>a DEF Holds
    <2> QED BY <1>2, <1>5, <1>c, <2>1, <2>2, <2>4, <2>6, <2>7 DEF BuildInv, Past,
          AfterDtb, AfterRom
  <1> QED BY <1>2, <1>3, <1>8, <1>9, <1>10, <1>11, BuilderMoves

\* The tree is told where the initramfs starts.
LEMMA BuildDtbOK ==
  ASSUME NEW f, NEW s, NEW e, NEW fresh \in BOOLEAN, ProcInv(f, s, e, fresh), FileInv(s),
         MemInv(s, fresh), f.pc = "dtb", f.writes = <<>>,
         NEW s2, NEW fresh2, Tears(s, fresh, "dtb", s2, fresh2), NEW dts \in Versions["dts"],
         NEW start, start = InitrdEnd - Bytes(f.m.initrd), start >= KernelAddr,
         NEW m, m = [f.m EXCEPT !.start = start],
         NEW ws, ws = <<<<"dtb", <<"dtb", dts, start>>>>>>, NEW g, Fills(f, g, "rom", ws, m)
  PROVE  ProcInv(g, s2, e, fresh2)
  <1>1. Shape(f) /\ Plan(f) /\ Present(f, s) /\ (f.clean => BuildInv(f, s, fresh))
    BY DEF ProcInv, CleanInv
  <1>2. Continues(f, g) /\ g.pc = "rom" /\ g.writes = ws /\ g.m = m
    BY <1>1, FillsOn
  <1>3. f.pc \in BuilderPcs /\ g.pc \in BuilderPcs
    BY <1>2 DEF BuilderPcs
  <1>4. /\ f.m = Man(f.m) /\ f.m.mixed = FALSE /\ (f.m.fw = Torn \/ FwFile(f.m.fw))
        /\ KernelFile(f.m.kernel) /\ InitrdFile(f.m.initrd)
    BY <1>1, <1>3 DEF Plan, AfterFwRead, AfterKernel, AfterInitrd
  <1>5. /\ m = Man(m) /\ m.fw = f.m.fw /\ m.kernel = f.m.kernel /\ m.initrd = f.m.initrd
        /\ m.start = start /\ m.mixed = FALSE
    BY <1>4 DEF Man
  <1>6. Bytes(f.m.initrd) \in Nat
    BY <1>4, LayoutAssumption DEF InitrdFile, Bytes
  <1>7. start \in Int /\ Fits(start, f.m.initrd)
    BY <1>6, LayoutAssumption DEF Fits
  <1>b. "dtb" \in Inputs
    BY DEF Inputs
  <1>c. s2["dtb"] = Torn /\ (\A y \in Files : y # "dtb" => s2[y] = s[y]) /\ ~fresh2
    BY <1>b, TornOnly
  <1>d. Torn # Missing
    BY DEF Torn, Missing
  <1>8. Pending(g)
    BY <1>2, <1>5 DEF Pending, Continues
  <1>9. Plan(g)
    BY <1>1, <1>2, <1>3, <1>4, <1>5, <1>7 DEF Plan, Continues,
      AfterRom, AfterLoad, AfterMem, AfterTb
  <1>10. Present(g, s2)
    BY <1>1, <1>2, <1>c, <1>d DEF Present, Files, AfterFw, AfterFwRead, AfterKernel,
      AfterInitrd, AfterDtb, AfterRom, AfterLoad, AfterMem, AfterTb
  <1>11. ASSUME g.clean PROVE BuildInv(g, s2, fresh2)
    <2>1. BuildInv(f, s, fresh) /\ f.pins = g.pins
      BY <1>1, <1>2, <1>11 DEF Continues
    <2>2. /\ Holds(f, s, "fw", <<"fw", f.pins["opensbi"]>>)
          /\ Holds(f, s, "elf", <<"fw", f.pins["opensbi"]>>)
          /\ f.m.fw = <<"fw", f.pins["opensbi"]>>
          /\ f.m.kernel = <<"kernel", f.pins["kernel.apk"]>> /\ Holds(f, s, "kernel", f.m.kernel)
          /\ f.m.initrd[2] = f.pins["busybox.apk"] /\ Holds(f, s, "initrd", f.m.initrd)
      BY <2>1 DEF BuildInv, Past, AfterFw, AfterFwRead, AfterKernel, AfterInitrd
    <2>5. "fw" \in Files /\ "elf" \in Files /\ "kernel" \in Files /\ "initrd" \in Files
      BY DEF Files
    <2>b. ASSUME NEW y \in Files, y # "dtb", NEW x, Holds(f, s, y, x) PROVE Holds(g, s2, y, x)
      BY <1>c, <2>b, ToSetOf DEF Holds
    <2>6. /\ Holds(g, s2, "fw", <<"fw", g.pins["opensbi"]>>)
          /\ Holds(g, s2, "elf", <<"fw", g.pins["opensbi"]>>)
          /\ Holds(g, s2, "kernel", f.m.kernel) /\ Holds(g, s2, "initrd", f.m.initrd)
      BY <2>1, <2>2, <2>5, <2>b
    <2>a. ToSet(ws) = {<<"dtb", <<"dtb", dts, start>>>>}
      BY ToSetOf
    <2>7. \E d \in Versions["dts"] : Holds(g, s2, "dtb", <<"dtb", d, g.m.start>>)
      BY <1>2, <1>5, <2>a DEF Holds
    <2> QED BY <1>2, <1>5, <1>7, <1>c, <2>1, <2>2, <2>6, <2>7 DEF BuildInv, Past, AfterRom
  <1> QED BY <1>2, <1>3, <1>8, <1>9, <1>10, <1>11, BuilderMoves

\* The tree is read back for the BootROM.
LEMMA BuildRomOK ==
  ASSUME NEW f, NEW s, NEW e, NEW fresh \in BOOLEAN, ProcInv(f, s, e, fresh), FileInv(s),
         MemInv(s, fresh), f.pc = "rom", f.writes = <<>>,
         NEW s2, NEW fresh2, Tears(s, fresh, "rom", s2, fresh2),
         NEW dtb, dtb = s["dtb"], NEW m, m = [f.m EXCEPT !.dtb = dtb],
         NEW ws, ws = <<<<"rom", <<"rom", dtb>>>>>>, NEW g, Fills(f, g, "manifest", ws, m)
  PROVE  ProcInv(g, s2, e, fresh2)
  <1>1. Shape(f) /\ Plan(f) /\ Present(f, s) /\ (f.clean => BuildInv(f, s, fresh))
    BY DEF ProcInv, CleanInv
  <1>2. Continues(f, g) /\ g.pc = "manifest" /\ g.writes = ws /\ g.m = m
    BY <1>1, FillsOn
  <1>3. f.pc \in BuilderPcs /\ g.pc \in BuilderPcs
    BY <1>2 DEF BuilderPcs
  <1>4. /\ f.m = Man(f.m) /\ f.m.mixed = FALSE /\ (f.m.fw = Torn \/ FwFile(f.m.fw))
        /\ KernelFile(f.m.kernel) /\ InitrdFile(f.m.initrd)
        /\ f.m.start \in Int /\ f.m.start >= KernelAddr
    BY <1>1, <1>3 DEF Plan, AfterFwRead, AfterKernel, AfterInitrd, AfterDtb
  <1>5. /\ m = Man(m) /\ m.fw = f.m.fw /\ m.kernel = f.m.kernel /\ m.initrd = f.m.initrd
        /\ m.start = f.m.start /\ m.dtb = dtb /\ m.mixed = FALSE
    BY <1>4 DEF Man
  <1>7. dtb = Torn \/ DtbFile(dtb)
    BY <1>1 DEF FileInv, Lacks, Present, AfterDtb
  <1>b. "rom" \notin Inputs \cup {"mem"}
    BY DEF Inputs
  <1>c. s2["rom"] = Torn /\ (\A y \in Files : y # "rom" => s2[y] = s[y]) /\ fresh2 = fresh
    BY <1>b, TornOnly
  <1>d. Torn # Missing
    BY DEF Torn, Missing
  <1>8. Pending(g)
    BY <1>2, <1>5 DEF Pending, Continues
  <1>9. Plan(g)
    BY <1>1, <1>2, <1>3, <1>4, <1>5, <1>7 DEF Plan, Continues, AfterLoad, AfterMem, AfterTb
  <1>10. Present(g, s2)
    BY <1>1, <1>2, <1>c, <1>d DEF Present, Files, AfterFw, AfterFwRead, AfterKernel,
      AfterInitrd, AfterDtb, AfterRom, AfterLoad, AfterMem, AfterTb
  <1>11. ASSUME g.clean PROVE BuildInv(g, s2, fresh2)
    <2>1. BuildInv(f, s, fresh) /\ f.pins = g.pins
      BY <1>1, <1>2, <1>11 DEF Continues
    <2>2. /\ Holds(f, s, "fw", <<"fw", f.pins["opensbi"]>>)
          /\ Holds(f, s, "elf", <<"fw", f.pins["opensbi"]>>) /\ ~fresh
          /\ f.m.fw = <<"fw", f.pins["opensbi"]>>
          /\ f.m.kernel = <<"kernel", f.pins["kernel.apk"]>> /\ Holds(f, s, "kernel", f.m.kernel)
          /\ f.m.initrd[2] = f.pins["busybox.apk"] /\ Holds(f, s, "initrd", f.m.initrd)
          /\ Fits(f.m.start, f.m.initrd)
          /\ \E d \in Versions["dts"] : Holds(f, s, "dtb", <<"dtb", d, f.m.start>>)
      BY <2>1 DEF BuildInv, Past, AfterFw, AfterFwRead, AfterKernel, AfterInitrd, AfterDtb
    <2>3. PICK d \in Versions["dts"] : dtb = <<"dtb", d, f.m.start>>
      BY <2>2, ToSetOf DEF Holds
    <2>4. DtbFile(dtb) /\ TreeStart(dtb) = f.m.start
      BY <1>4, <2>3 DEF DtbFile, TreeStart
    <2>5. /\ "fw" \in Files /\ "elf" \in Files /\ "kernel" \in Files /\ "initrd" \in Files
          /\ "dtb" \in Files
      BY DEF Files
    <2>b. ASSUME NEW y \in Files, y # "rom", NEW x, Holds(f, s, y, x) PROVE Holds(g, s2, y, x)
      BY <1>c, <2>b, ToSetOf DEF Holds
    <2>6. /\ Holds(g, s2, "fw", <<"fw", g.pins["opensbi"]>>)
          /\ Holds(g, s2, "elf", <<"fw", g.pins["opensbi"]>>)
          /\ Holds(g, s2, "kernel", f.m.kernel) /\ Holds(g, s2, "initrd", f.m.initrd)
      BY <2>1, <2>2, <2>5, <2>b
    <2>7. Holds(g, s2, "dtb", dtb)
      BY <1>c, <2>5 DEF Holds
    <2>a. ToSet(ws) = {<<"rom", <<"rom", dtb>>>>}
      BY ToSetOf
    <2>8. Holds(g, s2, "rom", <<"rom", dtb>>)
      BY <1>2, <2>a DEF Holds
    <2>9. \E x \in Versions["dts"] : Holds(g, s2, "dtb", <<"dtb", x, g.m.start>>)
      BY <1>2, <1>5, <2>3, <2>7
    <2> QED BY <1>2, <1>5, <1>c, <2>1, <2>2, <2>4, <2>6, <2>7, <2>8, <2>9 DEF BuildInv, Past
  <1> QED BY <1>2, <1>3, <1>8, <1>9, <1>10, <1>11, BuilderMoves

\* The manifest describes what the builder has made.
LEMMA WriteManifestOK ==
  ASSUME NEW f, NEW s, NEW e, NEW fresh \in BOOLEAN, ProcInv(f, s, e, fresh), FileInv(s),
         MemInv(s, fresh), f.pc = "manifest", f.writes = <<>>,
         NEW s2, NEW fresh2, Tears(s, fresh, "manifest", s2, fresh2),
         NEW ws, ws = <<<<"manifest", <<"manifest", f.m>>>>>>, NEW g, Starts(f, g, "built", ws)
  PROVE  ProcInv(g, s2, e, fresh2)
  <1>1. Shape(f) /\ Plan(f) /\ Present(f, s) /\ (f.clean => BuildInv(f, s, fresh))
    BY DEF ProcInv, CleanInv
  <1>2. Continues(f, g) /\ g.pc = "built" /\ g.writes = ws /\ g.m = f.m
    BY <1>1, WritesOn
  <1>3. f.pc \in BuilderPcs /\ g.pc \in BuilderPcs
    BY <1>2 DEF BuilderPcs
  <1>b. "manifest" \notin Inputs \cup {"mem"}
    BY DEF Inputs
  <1>c. s2["manifest"] = Torn /\ (\A y \in Files : y # "manifest" => s2[y] = s[y]) /\ fresh2 = fresh
    BY <1>b, TornOnly
  <1>8. Pending(g)
    BY <1>2 DEF Pending
  <1>9. Plan(g)
    BY <1>1, <1>2, <1>3 DEF Plan, Continues, AfterFwRead, AfterKernel, AfterInitrd, AfterDtb,
      AfterRom, AfterLoad, AfterMem, AfterTb
  <1>10. Present(g, s2)
    BY <1>1, <1>2, <1>c DEF Present, Files, AfterFw, AfterFwRead, AfterKernel,
      AfterInitrd, AfterDtb, AfterRom, AfterLoad, AfterMem, AfterTb
  <1>11. ASSUME g.clean PROVE BuildInv(g, s2, fresh2)
    <2>1. BuildInv(f, s, fresh) /\ f.pins = g.pins
      BY <1>1, <1>2, <1>11 DEF Continues
    <2>2. /\ Holds(f, s, "fw", <<"fw", f.pins["opensbi"]>>)
          /\ Holds(f, s, "elf", <<"fw", f.pins["opensbi"]>>) /\ ~fresh
          /\ f.m.fw = <<"fw", f.pins["opensbi"]>>
          /\ f.m.kernel = <<"kernel", f.pins["kernel.apk"]>> /\ Holds(f, s, "kernel", f.m.kernel)
          /\ f.m.initrd[2] = f.pins["busybox.apk"] /\ Holds(f, s, "initrd", f.m.initrd)
          /\ Fits(f.m.start, f.m.initrd)
          /\ \E d \in Versions["dts"] : Holds(f, s, "dtb", <<"dtb", d, f.m.start>>)
          /\ DtbFile(f.m.dtb) /\ TreeStart(f.m.dtb) = f.m.start
          /\ Holds(f, s, "dtb", f.m.dtb) /\ Holds(f, s, "rom", <<"rom", f.m.dtb>>)
      BY <2>1 DEF BuildInv, Past, AfterFw, AfterFwRead, AfterKernel, AfterInitrd, AfterDtb, AfterRom
    <2>5. /\ "fw" \in Files /\ "elf" \in Files /\ "kernel" \in Files /\ "initrd" \in Files
          /\ "dtb" \in Files /\ "rom" \in Files
      BY DEF Files
    <2>b. ASSUME NEW y \in Files, y # "manifest", NEW x, Holds(f, s, y, x) PROVE Holds(g, s2, y, x)
      BY <1>c, <2>b, ToSetOf DEF Holds
    <2>6. /\ Holds(g, s2, "fw", <<"fw", g.pins["opensbi"]>>)
          /\ Holds(g, s2, "elf", <<"fw", g.pins["opensbi"]>>)
          /\ Holds(g, s2, "kernel", f.m.kernel) /\ Holds(g, s2, "initrd", f.m.initrd)
          /\ Holds(g, s2, "dtb", f.m.dtb) /\ Holds(g, s2, "rom", <<"rom", f.m.dtb>>)
      BY <2>1, <2>2, <2>5, <2>b
    <2>7. \E d \in Versions["dts"] : Holds(g, s2, "dtb", <<"dtb", d, f.m.start>>)
      BY <2>2, <2>5, <2>b
    <2>a. ToSet(ws) = {<<"manifest", <<"manifest", f.m>>>>}
      BY ToSetOf
    <2>8. Holds(g, s2, "manifest", <<"manifest", f.m>>)
      BY <1>2, <2>a DEF Holds
    <2> QED BY <1>2, <1>c, <2>1, <2>2, <2>6, <2>7, <2>8 DEF BuildInv, Past
  <1> QED BY <1>2, <1>3, <1>8, <1>9, <1>10, <1>11, BuilderMoves

\* A build by hand exits with what it has made.
LEMMA BuiltOK ==
  ASSUME NEW f, NEW s, NEW e, NEW fresh, ProcInv(f, s, e, fresh), f.pc = "built", f.writes = <<>>,
         f.req.prog # "run", NEW g, g = [f EXCEPT !.pc = "done", !.exit = 0]
  PROVE  ProcInv(g, s, e, fresh)
  <1>1. Shape(f) /\ Plan(f) /\ (f.clean => BuildInv(f, s, fresh))
    BY DEF ProcInv, CleanInv
  <1>2. /\ g = Record(g) /\ g.pc = "done" /\ g.exit = 0 /\ g.req = f.req /\ g.writes = <<>>
        /\ g.pins = f.pins /\ g.m = f.m /\ g.verdict = f.verdict /\ g.clean = f.clean
    BY <1>1 DEF Shape, Record
  <1>3. f.req.prog = "build" /\ f.verdict # "mismatch" /\ 0 # Absent
    BY <1>1 DEF Shape, BuilderPcs, Absent
  <1>4. Shape(g)
    BY <1>1, <1>2, <1>3 DEF Shape, BuilderPcs, RunnerPcs
  <1>5. Pending(g) /\ Plan(g) /\ Present(g, s)
    BY <1>2, <1>3 DEF Pending, Plan, Present, BuilderPcs, AfterFw, AfterFwRead, AfterKernel,
      AfterInitrd, AfterDtb, AfterRom, AfterLoad, AfterMem, AfterTb
  <1>6. ASSUME g.clean PROVE BuildInv(g, s, fresh)
    <2>1. BuildInv(f, s, fresh)
      BY <1>1, <1>2, <1>6
    <2>2. \A x, c : Holds(g, s, x, c) <=> Holds(f, s, x, c)
      BY <1>2 DEF Holds
    <2> QED BY <1>2, <2>1, <2>2 DEF BuildInv, Past, AfterFw, AfterFwRead, AfterKernel,
          AfterInitrd, AfterDtb, AfterRom
  <1>7. CheckInv(g, s) /\ ReportInv(g, s)
    BY <1>2, <1>3 DEF CheckInv, ReportInv, PassedMode
  <1>8. ImageInv(g, s, fresh) /\ ModelInv(g, s, e)
    BY <1>2 DEF ImageInv, ModelInv, AfterLoad, AfterMem, AfterTb
  <1> QED BY <1>4, <1>5, <1>6, <1>7, <1>8 DEF ProcInv, CleanInv
-----------------------------------------------------------------------------
(* The check and the runner, stage by stage                                 *)

\* A check that is content has hashed what the manifest says.
LEMMA CheckOK ==
  ASSUME NEW f, NEW s, NEW e, NEW fresh, ProcInv(f, s, e, fresh), FileInv(s), f.pc = "check",
         s["manifest"][1] = "manifest", \A x \in Inputs : s[x] = s["manifest"][2][x],
         NEW g, g = [f EXCEPT !.pc = "done", !.exit = 0]
  PROVE  ProcInv(g, s, e, fresh)
  <1>1. Shape(f) /\ Pending(f)
    BY DEF ProcInv
  <1>2. /\ g = Record(g) /\ g.pc = "done" /\ g.exit = 0 /\ g.req = f.req /\ g.writes = f.writes
        /\ g.verdict = f.verdict /\ g.clean = f.clean
    BY <1>1 DEF Shape, Record
  <1>3. f.req.prog = "check" /\ f.verdict # "mismatch" /\ 0 # Absent /\ f.writes = <<>>
    BY <1>1 DEF Shape, Pending, Absent
  <1>4. Shape(g)
    BY <1>1, <1>2, <1>3 DEF Shape, BuilderPcs, RunnerPcs
  <1>5. Pending(g) /\ Plan(g) /\ Present(g, s)
    BY <1>2, <1>3 DEF Pending, Plan, Present, BuilderPcs, AfterFw, AfterFwRead, AfterKernel,
      AfterInitrd, AfterDtb, AfterRom, AfterLoad, AfterMem, AfterTb
  <1>6. BuildInv(g, s, fresh)
    BY <1>2, <1>3 DEF BuildInv, Past, AfterFw, AfterFwRead, AfterKernel, AfterInitrd, AfterDtb,
      AfterRom
  <1>9. ManifestFile(s["manifest"])
    BY DEF FileInv, Lacks, Missing, Torn
  <1>7. CheckInv(g, s) /\ ReportInv(g, s)
    BY <1>2, <1>3, <1>9 DEF CheckInv, ReportInv, PassedMode
  <1>8. ImageInv(g, s, fresh) /\ ModelInv(g, s, e)
    BY <1>2 DEF ImageInv, ModelInv, AfterLoad, AfterMem, AfterTb
  <1> QED BY <1>4, <1>5, <1>6, <1>7, <1>8 DEF ProcInv, CleanInv

\* A command that starts, and a builder that is called.
LEMMA BegunOK ==
  ASSUME NEW q \in Requests, NEW pins, \A k \in DOMAIN Versions : pins[k] \in Versions[k],
         NEW s, NEW e, NEW fresh, NEW pc,
         \/ q.prog = "build" /\ pc = "opensbi"
         \/ q.prog = "check" /\ pc = "check"
         \/ q.prog = "run" /\ pc = "images",
         NEW ps, q.prog = "build" => ps = pins,
         NEW g, g = [Idle EXCEPT !.req = q, !.pc = pc, !.pins = ps]
  PROVE  ProcInv(g, s, e, fresh)
  <1>1. /\ g = Record(g) /\ g.pc = pc /\ g.req = q /\ g.pins = ps /\ g.writes = <<>>
        /\ g.exit = Absent /\ g.verdict = "none" /\ g.m = NoManifest /\ g.clean = TRUE
    BY DEF Idle, Record
  <1>2. Absent # 0 /\ NoManifest = Man(NoManifest) /\ NoManifest.mixed = FALSE
    BY DEF Absent, NoManifest, Man
  <1>3. Shape(g)
    BY <1>1, <1>2 DEF Shape, BuilderPcs, RunnerPcs
  <1>4. Pending(g)
    BY <1>1 DEF Pending
  <1>5. Plan(g)
    BY <1>1, <1>2 DEF Plan, BuilderPcs, AfterFwRead, AfterKernel,
      AfterInitrd, AfterDtb, AfterRom, AfterLoad, AfterMem, AfterTb
  <1>6. Present(g, s)
    BY <1>1 DEF Present, AfterFw, AfterFwRead, AfterKernel,
      AfterInitrd, AfterDtb, AfterRom, AfterLoad, AfterMem, AfterTb
  <1>7. BuildInv(g, s, fresh)
    BY <1>1 DEF BuildInv, Past, AfterFw, AfterFwRead, AfterKernel, AfterInitrd, AfterDtb, AfterRom
  <1>8. CheckInv(g, s) /\ ReportInv(g, s)
    BY <1>1, <1>2 DEF CheckInv, ReportInv, PassedMode
  <1>9. ImageInv(g, s, fresh) /\ ModelInv(g, s, e)
    BY <1>1 DEF ImageInv, ModelInv, AfterLoad, AfterMem, AfterTb
  <1> QED BY <1>3, <1>4, <1>5, <1>6, <1>7, <1>8, <1>9 DEF ProcInv, CleanInv

LEMMA StartBuildOK ==
  ASSUME NEW f, NEW s, NEW e, NEW fresh, ProcInv(f, s, e, fresh), f.pc = "images",
         NEW pins, \A k \in DOMAIN Versions : pins[k] \in Versions[k],
         NEW g, g = [f EXCEPT !.pc = "opensbi", !.pins = pins]
  PROVE  ProcInv(g, s, e, fresh)
  <1>1. Shape(f) /\ Plan(f) /\ Pending(f)
    BY DEF ProcInv
  <1>0. f.exit = Absent /\ f.verdict # "mismatch" /\ f.m = NoManifest /\ f.writes = <<>>
    BY <1>1 DEF Shape, Plan, Pending
  <1>2. /\ g = Record(g) /\ g.pc = "opensbi" /\ g.req = f.req /\ g.pins = pins /\ g.writes = <<>>
        /\ g.exit = Absent /\ g.verdict = f.verdict /\ g.m = NoManifest /\ g.clean = f.clean
    BY <1>0, <1>1 DEF Shape, Record
  <1>3. Absent # 0 /\ NoManifest = Man(NoManifest) /\ NoManifest.mixed = FALSE
    BY DEF Absent, NoManifest, Man
  <1>4. Shape(g)
    BY <1>0, <1>1, <1>2 DEF Shape, BuilderPcs, RunnerPcs
  <1>5. Pending(g) /\ Plan(g)
    BY <1>2, <1>3 DEF Pending, Plan, BuilderPcs, AfterFwRead, AfterKernel,
      AfterInitrd, AfterDtb, AfterRom, AfterLoad, AfterMem, AfterTb
  <1>6. Present(g, s)
    BY <1>2 DEF Present, AfterFw, AfterFwRead, AfterKernel,
      AfterInitrd, AfterDtb, AfterRom, AfterLoad, AfterMem, AfterTb
  <1>7. BuildInv(g, s, fresh)
    BY <1>2 DEF BuildInv, Past, AfterFw, AfterFwRead, AfterKernel, AfterInitrd, AfterDtb, AfterRom
  <1>8. CheckInv(g, s) /\ ReportInv(g, s)
    BY <1>0, <1>2, <1>3 DEF CheckInv, ReportInv, PassedMode
  <1>9. ImageInv(g, s, fresh) /\ ModelInv(g, s, e)
    BY <1>2 DEF ImageInv, ModelInv, AfterLoad, AfterMem, AfterTb
  <1> QED BY <1>4, <1>5, <1>6, <1>7, <1>8, <1>9 DEF ProcInv, CleanInv

\* A run that has its images, built or found.
LEMMA LoadingOK ==
  ASSUME NEW f, NEW s, NEW e, NEW fresh, ProcInv(f, s, e, fresh), f.pc \in {"images", "built"},
         f.req.prog = "run",
         NEW g, g = [Idle EXCEPT !.req = f.req, !.pc = "load", !.clean = f.clean]
  PROVE  ProcInv(g, s, e, fresh)
  <1>1. Shape(f)
    BY DEF ProcInv
  <1>2. /\ g = Record(g) /\ g.pc = "load" /\ g.req = f.req /\ g.writes = <<>>
        /\ g.exit = Absent /\ g.verdict = "none" /\ g.match = "none" /\ g.clean = f.clean
    BY DEF Idle, Record
  <1>3. Absent # 0
    BY DEF Absent
  <1>4. Shape(g)
    BY <1>1, <1>2 DEF Shape, BuilderPcs, RunnerPcs
  <1>5. Pending(g) /\ Plan(g)
    BY <1>2 DEF Pending, Plan, BuilderPcs, AfterFwRead, AfterKernel,
      AfterInitrd, AfterDtb, AfterRom, AfterLoad, AfterMem, AfterTb
  <1>6. Present(g, s)
    BY <1>2 DEF Present, AfterFw, AfterFwRead, AfterKernel,
      AfterInitrd, AfterDtb, AfterRom, AfterLoad, AfterMem, AfterTb
  <1>7. BuildInv(g, s, fresh)
    BY <1>2 DEF BuildInv, Past, AfterFw, AfterFwRead, AfterKernel, AfterInitrd, AfterDtb, AfterRom
  <1>8. CheckInv(g, s) /\ ReportInv(g, s)
    BY <1>2, <1>3 DEF CheckInv, ReportInv, PassedMode
  <1>9. ImageInv(g, s, fresh) /\ ModelInv(g, s, e)
    BY <1>2 DEF ImageInv, ModelInv, AfterLoad, AfterMem, AfterTb
  <1> QED BY <1>4, <1>5, <1>6, <1>7, <1>8, <1>9 DEF ProcInv, CleanInv

\* A runner at work is described by its stage.
Carries(f, g) ==
  /\ g = Record(g) /\ g.req = f.req /\ g.exit = f.exit /\ g.verdict = f.verdict
  /\ (g.writes = f.writes \/ Pending(g)) /\ g.clean \in BOOLEAN
LEMMA RunnerMoves ==
  ASSUME NEW f, NEW s, NEW e, NEW fresh, ProcInv(f, s, e, fresh), f.pc \in RunnerPcs,
         NEW g, Carries(f, g), f.writes = <<>> \/ Pending(g), g.pc \in RunnerPcs \ {"images", "load"},
         NEW s2, NEW e2, NEW fresh2,
         Described(g.m), Modes(g), g.pc \in AfterTb => g.loaded.mem = Torn \/ MemFile(g.loaded.mem),
         \A x \in Inputs : s2[x] # Missing, g.pc \in AfterMem => s2["mem"] # Missing,
         g.clean => /\ ImageInv(g, s2, fresh2) /\ ModelInv(g, s2, e2)
                    /\ g.pc = "next" => ReportInv(g, s2)
  PROVE  ProcInv(g, s2, e2, fresh2)
  <1>1. Shape(f)
    BY DEF ProcInv
  <1>2. /\ f.pc \notin {"idle", "done", "check"} /\ g.pc \notin {"idle", "done", "check"}
        /\ g.pc \notin BuilderPcs /\ g.pc \in AfterLoad
    BY DEF BuilderPcs, RunnerPcs, AfterLoad, AfterMem, AfterTb
  <1>3. g.exit = Absent /\ g.verdict # "mismatch" /\ f.req \in Requests /\ f.req.prog = "run"
    BY <1>1, <1>2 DEF Shape, Carries
  <1>4. Shape(g)
    BY <1>1, <1>2, <1>3 DEF Shape, Carries
  <1>5. Absent # 0
    BY DEF Absent
  <1>6. Pending(g)
    BY <1>2 DEF Pending, Carries, RunnerPcs
  <1>7. Plan(g)
    BY <1>2 DEF Plan, RunnerPcs, BuilderPcs, AfterFwRead, AfterKernel, AfterInitrd, AfterDtb,
      AfterRom
  <1>8. Present(g, s2)
    BY <1>2 DEF Present, RunnerPcs, BuilderPcs, AfterFw, AfterFwRead, AfterKernel, AfterInitrd,
      AfterDtb, AfterRom
  <1>9. BuildInv(g, s2, fresh2) /\ CheckInv(g, s2)
    BY <1>2, <1>3, <1>5 DEF BuildInv, CheckInv, Past, BuilderPcs, AfterFw, AfterFwRead, AfterKernel,
      AfterInitrd, AfterDtb, AfterRom
  <1>10. g.pc # "next" => ReportInv(g, s2)
    BY <1>3, <1>5 DEF ReportInv, PassedMode
  <1> QED BY <1>4, <1>6, <1>7, <1>8, <1>9, <1>10 DEF ProcInv, CleanInv

\* What every runner knows that has its manifest.
LEMMA RunnerKnows ==
  ASSUME NEW f, NEW s, NEW e, NEW fresh, ProcInv(f, s, e, fresh), f.pc \in AfterLoad
  PROVE  /\ Shape(f) /\ Described(f.m) /\ Modes(f) /\ \A x \in Inputs : s[x] # Missing
         /\ f.pc \in RunnerPcs /\ f.req \in Requests /\ f.req.prog = "run"
         /\ f.req.modes \in Seq({"spike", "rtl", "difftest"})
         /\ f.pc \in AfterMem => s["mem"] # Missing
         /\ f.pc \in AfterTb => f.loaded.mem = Torn \/ MemFile(f.loaded.mem)
         /\ f.exit = Absent /\ f.verdict # "mismatch" /\ f.clean \in BOOLEAN
         /\ f.clean => ImageInv(f, s, fresh) /\ ModelInv(f, s, e) /\ ReportInv(f, s)
         /\ f.clean => s["manifest"] = <<"manifest", f.m>>
  <1>1. Shape(f) /\ Plan(f) /\ Present(f, s)
    BY DEF ProcInv
  <1>2. f.clean => ImageInv(f, s, fresh) /\ ModelInv(f, s, e) /\ ReportInv(f, s)
    BY DEF ProcInv, CleanInv
  <1>3. f.pc \in RunnerPcs /\ f.pc \notin {"idle", "done"}
    BY DEF RunnerPcs, AfterLoad, AfterMem, AfterTb
  <1>4. f.req \in Requests /\ f.req.prog = "run" /\ f.exit = Absent /\ f.verdict # "mismatch"
    BY <1>1, <1>3 DEF Shape
  <1>5. f.req.modes \in Seq({"spike", "rtl", "difftest"})
    BY <1>4, RequestAssumption
  <1>6. Described(f.m) /\ Modes(f)
    BY <1>1 DEF Plan
  <1>7. \A x \in Inputs : s[x] # Missing
    BY <1>1 DEF Present
  <1>8. f.pc \in AfterMem => s["mem"] # Missing
    BY <1>1 DEF Present
  <1>9. f.pc \in AfterTb => f.loaded.mem = Torn \/ MemFile(f.loaded.mem)
    BY <1>1 DEF Plan
  <1>10. f.clean \in BOOLEAN
    BY <1>1 DEF Shape
  <1>11. f.clean => s["manifest"] = <<"manifest", f.m>>
    BY <1>2 DEF ImageInv
  <1> QED BY <1>1, <1>2, <1>3, <1>4, <1>5, <1>6, <1>7, <1>8, <1>9, <1>10, <1>11

\* The manifest is read.
LEMMA LoadOK ==
  ASSUME NEW f, NEW s, NEW e, NEW fresh, ProcInv(f, s, e, fresh), FileInv(s), f.pc = "load",
         f.writes = <<>>, s["manifest"][1] = "manifest", NEW m, m = s["manifest"][2], NEW g,
         g = [f EXCEPT !.pc = "next", !.m = m, !.todo = f.req.modes]
  PROVE  ProcInv(g, s, e, fresh)
  <1>1. Shape(f) /\ Plan(f)
    BY DEF ProcInv
  <1>2. Carries(f, g) /\ g.pc = "next" /\ g.todo = f.req.modes /\ g.m = m /\ g.match = f.match
    BY <1>1 DEF Shape, Record, Carries
  <1>a. s["manifest"] # Missing /\ s["manifest"] # Torn
    BY DEF Missing, Torn
  <1>3. ManifestFile(s["manifest"])
    BY <1>a DEF FileInv, Lacks
  <1>4. Described(m) /\ s["manifest"] = <<"manifest", m>>
    BY <1>3 DEF ManifestFile
  <1>5. \A x \in Inputs : s[x] # Missing
    BY <1>a DEF FileInv
  <1>6. f.pc \in RunnerPcs /\ g.pc \in RunnerPcs \ {"images", "load"}
    BY <1>2 DEF RunnerPcs
  <1>7. f.req \in Requests /\ f.req.prog = "run" /\ f.verdict # "mismatch"
    BY <1>1, <1>6 DEF Shape
  <1>8. f.req.modes \in Seq({"spike", "rtl", "difftest"})
    BY <1>7, RequestAssumption
  <1>b. f.match = "none"
    BY <1>1 DEF Plan
  <1>9. Modes(g)
    BY <1>2, <1>8, <1>b DEF Modes, AfterMem, AfterTb, Carries
  <1>10. ImageInv(g, s, fresh) /\ ModelInv(g, s, e)
    BY <1>2, <1>4 DEF ImageInv, ModelInv, AfterTb
  <1>11. ReportInv(g, s)
    BY <1>2, <1>7, <1>8 DEF ReportInv, PassedMode, Carries
  <1>12. g.pc \notin AfterTb /\ g.pc \notin AfterMem
    BY <1>2 DEF AfterMem, AfterTb
  <1> QED BY <1>2, <1>4, <1>5, <1>6, <1>9, <1>10, <1>11, <1>12, RunnerMoves

\* The next mode is begun; a Spike that is silent is waited for.
LEMMA NextModeOK ==
  ASSUME NEW f, NEW s, NEW e, NEW fresh, ProcInv(f, s, e, fresh), f.writes = <<>>,
         NEW pc, \/ f.pc = "next" /\ f.todo # <<>> /\ Head(f.todo) = "spike" /\ pc = "spike"
                 \/ f.pc = "next" /\ f.todo # <<>> /\ Head(f.todo) # "spike" /\ pc = "mem"
                 \/ f.pc = "spike" /\ pc = "silent",
         NEW g, g = [f EXCEPT !.pc = pc]
  PROVE  ProcInv(g, s, e, fresh)
  <1>0. f.pc \in AfterLoad
    BY DEF AfterLoad
  <1>1. /\ Shape(f) /\ Described(f.m) /\ Modes(f) /\ (\A x \in Inputs : s[x] # Missing)
        /\ f.pc \in RunnerPcs /\ f.clean \in BOOLEAN
        /\ f.clean => s["manifest"] = <<"manifest", f.m>>
    BY <1>0, RunnerKnows
  <1>2. Continues(f, g) /\ g.pc = pc /\ g.writes = <<>> /\ g.m = f.m
    BY <1>1 DEF Shape, Record, Continues
  <1>3. Carries(f, g)
    BY <1>1, <1>2 DEF Carries, Continues
  <1>4. g.pc \in {"spike", "mem", "silent"}
    BY <1>2
  <1>5. /\ g.pc \in RunnerPcs \ {"images", "load"} /\ g.pc \notin AfterTb /\ g.pc \notin AfterMem
        /\ g.pc # "next"
    BY <1>4 DEF RunnerPcs, AfterMem, AfterTb
  <1>6. Modes(g)
    BY <1>1, <1>2, <1>4 DEF Modes, AfterMem, AfterTb, Continues
  <1>7. g.clean => ImageInv(g, s, fresh) /\ ModelInv(g, s, e)
    BY <1>1, <1>2, <1>4 DEF ImageInv, ModelInv, AfterTb, Continues
  <1> QED BY <1>1, <1>2, <1>3, <1>5, <1>6, <1>7, RunnerMoves

\* A mode that is over is off the list.
LEMMA TailModes ==
  ASSUME NEW f, Modes(f), f.todo # <<>>, f.req.modes \in Seq({"spike", "rtl", "difftest"}),
         NEW g, g.todo = Tail(f.todo), g.req = f.req, g.pc = "next",
         g.match = f.match \/ f.pc = "console"
  PROVE  /\ Modes(g) /\ Len(g.req.modes) - Len(g.todo) \in 1..Len(g.req.modes)
         /\ g.req.modes[Len(g.req.modes) - Len(g.todo)] = Head(f.todo)
  <1> DEFINE M == {"spike", "rtl", "difftest"}
  <1>1. PICK t : t = f.todo
    OBVIOUS
  <1>2. PICK ms : ms = f.req.modes
    OBVIOUS
  <1>3. /\ t \in Seq(M) /\ ms \in Seq(M) /\ t # <<>> /\ Len(t) <= Len(ms)
        /\ \A i \in 1..Len(t) : t[i] = ms[Len(ms) - Len(t) + i]
    BY <1>1, <1>2 DEF Modes
  <1> HIDE DEF M
  <1>4. Len(t) \in Nat /\ Len(ms) \in Nat /\ Len(t) > 0
    BY <1>3
  <1>5. Tail(t) \in Seq(M) /\ Len(Tail(t)) = Len(t) - 1 /\ Head(t) = t[1]
    BY <1>3
  <1>6. \A i \in 1..(Len(t) - 1) : Tail(t)[i] = t[i + 1]
    BY <1>3
  <1>7. t[1] = ms[Len(ms) - Len(t) + 1]
    BY <1>3, <1>4
  <1>8. Len(ms) - Len(Tail(t)) = Len(ms) - Len(t) + 1
    BY <1>4, <1>5
  <1>9. ASSUME NEW i \in 1..Len(Tail(t)) PROVE Tail(t)[i] = ms[Len(ms) - Len(Tail(t)) + i]
    <2>1. i + 1 \in 1..Len(t) /\ i \in 1..(Len(t) - 1)
      BY <1>4, <1>5
    <2>2. Tail(t)[i] = ms[Len(ms) - Len(t) + (i + 1)]
      BY <1>3, <1>6, <2>1
    <2>3. Len(ms) - Len(t) + (i + 1) = Len(ms) - Len(Tail(t)) + i
      BY <1>4, <1>5, <2>1
    <2> QED BY <2>2, <2>3
  <1>a. g.todo = Tail(t) /\ g.req.modes = ms
    BY <1>1, <1>2
  <1>b. Tail(t) \in Seq({"spike", "rtl", "difftest"}) /\ Len(Tail(t)) <= Len(ms)
    BY <1>3, <1>4, <1>5 DEF M
  <1>c. \A i \in 1..Len(g.todo) : g.todo[i] = g.req.modes[Len(g.req.modes) - Len(g.todo) + i]
    BY <1>9, <1>a
  <1>d. g.pc \notin {"spike", "silent", "mem", "report", "console", "golden", "difftest"} \cup AfterMem
    BY DEF AfterMem, AfterTb
  <1>e. g.match # "none" => "spike" \in ToSet(g.req.modes)
    BY DEF Modes
  <1>10. Modes(g)
    BY <1>a, <1>b, <1>c, <1>d, <1>e DEF Modes
  <1>11. Len(ms) - Len(Tail(t)) \in 1..Len(ms)
    BY <1>3, <1>4, <1>5
  <1> QED BY <1>1, <1>2, <1>5, <1>7, <1>8, <1>10, <1>11

\* A mode that has passed has said what it stands for.
LEMMA DoneOK ==
  ASSUME NEW f, NEW s, NEW e, NEW fresh, ProcInv(f, s, e, fresh), f.pc \in AfterLoad, f.todo # <<>>,
         f.writes = <<>>, NEW s2, SameImages(s, s2), NEW g, Carries(f, g), g.clean = f.clean,
         g.pc = "next", g.todo = Tail(f.todo), g.m = f.m, g.match = f.match \/ f.pc = "console",
         f.clean /\ Head(f.todo) = "rtl" =>
           /\ Booted(BootOf(g), g.loaded) /\ LoadedInv(g, s2)
           /\ g.match = "yes" => IsPrefix(BootOf(g).console, SpikeConsole),
         f.clean /\ Head(f.todo) = "difftest" => (FwIntact(g.loaded) => Compared(g, s2))
  PROVE  ProcInv(g, s2, e, fresh)
  <1>1. /\ Described(f.m) /\ Modes(f) /\ (\A x \in Inputs : s[x] # Missing)
        /\ f.pc \in RunnerPcs /\ f.req.modes \in Seq({"spike", "rtl", "difftest"})
        /\ f.verdict # "mismatch" /\ (f.clean => s["manifest"] = <<"manifest", f.m>>)
    BY RunnerKnows
  <1>0. g.req = f.req
    BY DEF Carries
  <1>2. /\ Modes(g) /\ Len(g.req.modes) - Len(g.todo) \in 1..Len(g.req.modes)
        /\ g.req.modes[Len(g.req.modes) - Len(g.todo)] = Head(f.todo)
    BY <1>0, <1>1, TailModes
  <1>3. s2["manifest"] = s["manifest"] /\ \A x \in Inputs : s2[x] # Missing
    BY <1>1 DEF SameImages, Files, Reports, Inputs
  <1>4. g.pc \in RunnerPcs \ {"images", "load"} /\ g.pc \notin AfterTb /\ g.pc \notin AfterMem
    BY DEF RunnerPcs, AfterMem, AfterTb
  <1>5. g.clean => ImageInv(g, s2, fresh) /\ ModelInv(g, s2, e)
    BY <1>1, <1>3 DEF ImageInv, ModelInv, AfterTb
  <1>6. ASSUME g.clean PROVE ReportInv(g, s2)
    <2>1. g.verdict # "mismatch"
      BY <1>1 DEF Carries
    <2>2. PassedMode(g, "rtl") => Head(f.todo) = "rtl"
      BY <1>2 DEF PassedMode
    <2>3. PassedMode(g, "difftest") => Head(f.todo) = "difftest"
      BY <1>2 DEF PassedMode
    <2> QED BY <1>6, <2>1, <2>2, <2>3 DEF ReportInv
  <1> QED BY <1>1, <1>2, <1>3, <1>4, <1>5, <1>6, RunnerMoves

\* s4.mem.hex is there and newer than its inputs.
LEMMA MemCachedOK ==
  ASSUME NEW f, NEW s, NEW e, NEW fresh, ProcInv(f, s, e, fresh), f.pc = "mem", f.writes = <<>>,
         s["mem"] # Missing, fresh, NEW g, g = [f EXCEPT !.pc = "model"]
  PROVE  ProcInv(g, s, e, fresh)
  <1>0. f.pc \in AfterLoad
    BY DEF AfterLoad
  <1>1. /\ Shape(f) /\ Described(f.m) /\ Modes(f) /\ (\A x \in Inputs : s[x] # Missing)
        /\ f.pc \in RunnerPcs /\ f.clean \in BOOLEAN
        /\ f.clean => s["manifest"] = <<"manifest", f.m>>
    BY <1>0, RunnerKnows
  <1>2. Continues(f, g) /\ g.pc = "model" /\ g.writes = <<>> /\ g.m = f.m
    BY <1>1 DEF Shape, Record, Continues
  <1>3. Carries(f, g)
    BY <1>1, <1>2 DEF Carries, Continues
  <1>5. g.pc \in RunnerPcs \ {"images", "load"} /\ g.pc \notin AfterTb /\ g.pc # "next"
    BY <1>2 DEF RunnerPcs, AfterTb
  <1>6. Modes(g)
    BY <1>1, <1>2 DEF Modes, AfterMem, AfterTb, Continues
  <1>7. g.clean => ImageInv(g, s, fresh) /\ ModelInv(g, s, e)
    BY <1>1, <1>2 DEF ImageInv, ModelInv, AfterTb, Continues
  <1> QED BY <1>1, <1>2, <1>3, <1>5, <1>6, <1>7, RunnerMoves

Snapshot(x, s, at) ==
  x = [fw |-> s["fw"], kernel |-> s["kernel"], dtb |-> s["dtb"], initrd |-> s["initrd"],
       at |-> at, mixed |-> FALSE]

\* It is rendered, of the inputs as they are, if start and initramfs add up.
LEMMA MemPutOK ==
  ASSUME NEW f, NEW s, NEW e, NEW fresh \in BOOLEAN, ProcInv(f, s, e, fresh), FileInv(s),
         MemInv(s, fresh), f.pc = "mem", f.writes = <<>>, s["initrd"][1] = "initrd",
         f.m.start + Bytes(s["initrd"]) = InitrdEnd,
         NEW s2, NEW fresh2, Tears(s, fresh, "mem", s2, fresh2), NEW x,
         Snapshot(x, s, f.m.start), NEW ws, ws = <<<<"mem", <<"mem", x>>>>>>, NEW g, Starts(f, g, "model", ws)
  PROVE  ProcInv(g, s2, e, fresh2)
  <1>0. f.pc \in AfterLoad
    BY DEF AfterLoad
  <1>1. /\ Shape(f) /\ Described(f.m) /\ Modes(f) /\ (\A y \in Inputs : s[y] # Missing)
        /\ f.pc \in RunnerPcs /\ f.clean \in BOOLEAN
        /\ f.clean => s["manifest"] = <<"manifest", f.m>>
    BY <1>0, RunnerKnows
  <1>2. Continues(f, g) /\ g.pc = "model" /\ g.writes = ws /\ g.m = f.m
    BY <1>1, WritesOn
  <1>3. /\ x = Image(x) /\ x.fw = s["fw"] /\ x.kernel = s["kernel"] /\ x.dtb = s["dtb"]
        /\ x.initrd = s["initrd"] /\ x.at = f.m.start /\ x.mixed \in BOOLEAN
    BY DEF Image, Snapshot
  <1>4. s["initrd"] # Missing /\ s["initrd"] # Torn /\ Torn # Missing
    BY DEF Missing, Torn
  <1>5. InitrdFile(s["initrd"])
    BY <1>4 DEF FileInv, Lacks
  <1>6. s["fw"] = Torn \/ FwFile(s["fw"])
    BY <1>1 DEF FileInv, Lacks, Inputs
  <1>7. Rendered(x)
    BY <1>1, <1>3, <1>5, <1>6 DEF Rendered, Described, Fits
  <1>8. ws[1][2][2] = x
    OBVIOUS
  <1>9. Pending(g)
    BY <1>2, <1>7, <1>8 DEF Pending
  <1>10. Carries(f, g)
    BY <1>1, <1>2, <1>9 DEF Carries, Continues
  <1>11. s2["mem"] = Torn /\ (\A y \in Files : y # "mem" => s2[y] = s[y]) /\ fresh2
    BY TornOnly
  <1>12. s2["manifest"] = s["manifest"] /\ \A y \in Inputs : s2[y] = s[y]
    BY <1>11 DEF Files, Inputs
  <1>13. g.pc \in RunnerPcs \ {"images", "load"} /\ g.pc \notin AfterTb /\ g.pc # "next"
    BY <1>2 DEF RunnerPcs, AfterTb
  <1>14. Modes(g)
    BY <1>1, <1>2 DEF Modes, AfterMem, AfterTb, Continues
  <1>15. \A y \in Inputs : g.writes[1][2][2][y] = s2[y]
    BY <1>2, <1>3, <1>8, <1>12 DEF Inputs
  <1>16. g.clean => ImageInv(g, s2, fresh2) /\ ModelInv(g, s2, e)
    BY <1>1, <1>2, <1>3, <1>8, <1>11, <1>12, <1>15 DEF ImageInv, ModelInv, AfterTb, Continues
  <1>17. (\A y \in Inputs : s2[y] # Missing) /\ s2["mem"] # Missing
    BY <1>1, <1>4, <1>11, <1>12
  <1> QED BY <1>1, <1>2, <1>10, <1>13, <1>14, <1>16, <1>17, RunnerMoves

LEMMA ProfileTyped == ASSUME NEW f PROVE ProfileOf(f) \in Profiles
  BY DEF ProfileOf, Profiles

\* A model that is taken is one of the RTL as it is.
LEMMA BuildModelOK ==
  ASSUME NEW f, NEW s, NEW e, NEW fresh, ProcInv(f, s, e, fresh), f.pc = "model", f.writes = <<>>,
         NEW rtl \in Versions["rtl"], ExeInv(e, rtl), NEW pc, NEW clean \in BOOLEAN, clean => f.clean,
         \/ pc = "compile"
         \/ pc = "start" /\ e[ProfileOf(f)].fresh /\ (clean => ~e[ProfileOf(f)].mixed),
         NEW g, g = [f EXCEPT !.want = rtl, !.clean = clean, !.pc = pc]
  PROVE  ProcInv(g, s, e, fresh)
  <1>0. f.pc \in AfterLoad /\ f.pc \in AfterMem
    BY DEF AfterLoad, AfterMem
  <1>1. /\ Shape(f) /\ Described(f.m) /\ Modes(f) /\ (\A x \in Inputs : s[x] # Missing)
        /\ f.pc \in RunnerPcs /\ s["mem"] # Missing
        /\ f.clean => /\ ImageInv(f, s, fresh) /\ ModelInv(f, s, e)
                      /\ s["manifest"] = <<"manifest", f.m>>
    BY <1>0, RunnerKnows
  <1>2. /\ g = Record(g) /\ g.pc = pc /\ g.want = rtl /\ g.clean = clean /\ g.req = f.req
        /\ g.todo = f.todo /\ g.m = f.m /\ g.writes = <<>> /\ g.exit = f.exit
        /\ g.verdict = f.verdict /\ g.match = f.match
    BY <1>1 DEF Shape, Record
  <1>3. Carries(f, g)
    BY <1>2 DEF Carries
  <1>5. g.pc \in RunnerPcs \ {"images", "load"} /\ g.pc \notin AfterTb /\ g.pc # "next"
    BY <1>2 DEF RunnerPcs, AfterTb
  <1>6. Modes(g)
    BY <1>1, <1>2 DEF Modes, AfterMem, AfterTb
  <1>7. ProfileOf(g) = ProfileOf(f)
    BY <1>2 DEF ProfileOf
  <1>8. pc = "start" /\ clean => e[ProfileOf(g)].ver = rtl
    BY <1>7, ProfileTyped DEF ExeInv
  <1>9. f.clean => fresh
    BY <1>1 DEF ImageInv
  <1>10. g.clean => ImageInv(g, s, fresh) /\ ModelInv(g, s, e)
    BY <1>1, <1>2, <1>8, <1>9 DEF ImageInv, ModelInv, AfterTb
  <1> QED BY <1>1, <1>2, <1>3, <1>5, <1>6, <1>10, RunnerMoves

\* A model that is compiled is one of the RTL the run looked at, unless that
\* was edited under the compiler.
Replaces(e, e2, y, x) == e2 = [e EXCEPT ![y] = x]
Compiled(x, v, rtl, want) == x = Model(x) /\ x.ver = v /\ x.mixed \in BOOLEAN /\ (x.mixed <=> rtl # want)
Resumes(f, g, pc) == g = [f EXCEPT !.pc = pc, !.clean = g.clean]
LEMMA CompileOK ==
  ASSUME NEW f, NEW s, NEW e, NEW fresh, ProcInv(f, s, e, fresh), f.pc = "compile", f.writes = <<>>,
         NEW rtl, ExeInv(e, rtl), NEW v, v = f.want \/ v = rtl, NEW e2, NEW x,
         Compiled(x, v, rtl, f.want), Replaces(e, e2, ProfileOf(f), x),
         NEW g, Resumes(f, g, "start"), g.clean \in BOOLEAN, g.clean => f.clean /\ rtl = f.want
  PROVE  ProcInv(g, s, e2, fresh) /\ ExeInv(e2, rtl)
  <1>0. f.pc \in AfterLoad /\ f.pc \in AfterMem
    BY DEF AfterLoad, AfterMem
  <1>1. /\ Shape(f) /\ Described(f.m) /\ Modes(f) /\ (\A y \in Inputs : s[y] # Missing)
        /\ f.pc \in RunnerPcs /\ s["mem"] # Missing
        /\ f.clean => /\ ImageInv(f, s, fresh) /\ ModelInv(f, s, e)
                      /\ s["manifest"] = <<"manifest", f.m>>
    BY <1>0, RunnerKnows
  <1>2. /\ g = Record(g) /\ g.pc = "start" /\ g.want = f.want  /\ g.req = f.req
        /\ g.todo = f.todo /\ g.m = f.m /\ g.writes = <<>> /\ g.exit = f.exit
        /\ g.verdict = f.verdict /\ g.match = f.match
    BY <1>1 DEF Shape, Record, Resumes
  <1>3. Carries(f, g)
    BY <1>2 DEF Carries
  <1>5. g.pc \in RunnerPcs \ {"images", "load"} /\ g.pc \notin AfterTb /\ g.pc # "next"
    BY <1>2 DEF RunnerPcs, AfterTb
  <1>6. Modes(g)
    BY <1>1, <1>2 DEF Modes, AfterMem, AfterTb
  <1>7. ProfileOf(g) = ProfileOf(f) /\ ProfileOf(f) \in Profiles
    BY <1>2, ProfileTyped DEF ProfileOf
  <1>a. PICK y : y = ProfileOf(f)
    OBVIOUS
  <1>8. /\ e2 = [z \in Profiles |-> e2[z]] /\ e2[y] = x
        /\ \A z \in Profiles : z # y => e2[z] = e[z]
    BY <1>7, <1>a DEF ExeInv, Replaces
  <1>9. x = Model(x) /\ x.ver = v /\ (x.mixed <=> rtl # f.want) /\ x.mixed \in BOOLEAN
    BY DEF Compiled
  <1>10. ExeInv(e2, rtl)
    BY <1>8, <1>9 DEF ExeInv
  <1>11. g.clean => e2[ProfileOf(g)].ver = f.want
    BY <1>7, <1>8, <1>9, <1>a
  <1>12. f.clean => fresh /\ f.want \in Versions["rtl"]
    BY <1>1 DEF ImageInv, ModelInv
  <1>13. g.clean => ImageInv(g, s, fresh) /\ ModelInv(g, s, e2)
    BY <1>1, <1>2, <1>11, <1>12 DEF ImageInv, ModelInv, AfterTb
  <1>14. ProcInv(g, s, e2, fresh)
    BY <1>1, <1>2, <1>3, <1>5, <1>6, <1>13, RunnerMoves
  <1> QED BY <1>10, <1>14

\* What the test bench loads is of the files that are there.
LEMMA StartTbOK ==
  ASSUME NEW f, NEW s, NEW e, NEW fresh, ProcInv(f, s, e, fresh), f.pc = "start", f.writes = <<>>,
         FileInv(s), MemInv(s, fresh), NEW s2, SameImages(s, s2),
         NEW l, l = [mem |-> s["mem"], rom |-> s["rom"], ver |-> e[ProfileOf(f)].ver],
         NEW g, g = [f EXCEPT !.pc = "tb", !.loaded = l]
  PROVE  ProcInv(g, s2, e, fresh)
  <1>0. f.pc \in AfterLoad /\ f.pc \in AfterMem
    BY DEF AfterLoad, AfterMem
  <1>1. /\ Shape(f) /\ Described(f.m) /\ Modes(f) /\ (\A y \in Inputs : s[y] # Missing)
        /\ f.pc \in RunnerPcs /\ s["mem"] # Missing /\ f.clean \in BOOLEAN
        /\ f.clean => /\ ImageInv(f, s, fresh) /\ ModelInv(f, s, e)
                      /\ s["manifest"] = <<"manifest", f.m>>
    BY <1>0, RunnerKnows
  <1>2. /\ g = Record(g) /\ g.pc = "tb" /\ g.want = f.want /\ g.clean = f.clean /\ g.req = f.req
        /\ g.todo = f.todo /\ g.m = f.m /\ g.writes = <<>> /\ g.exit = f.exit
        /\ g.verdict = f.verdict /\ g.match = f.match /\ g.loaded = l
    BY <1>1 DEF Shape, Record
  <1>3. Carries(f, g)
    BY <1>1, <1>2 DEF Carries
  <1>4. l.mem = s["mem"] /\ l.ver = e[ProfileOf(f)].ver
    OBVIOUS
  <1>5. g.pc \in RunnerPcs \ {"images", "load"} /\ g.pc # "next"
    BY <1>2 DEF RunnerPcs
  <1>6. Modes(g)
    BY <1>1, <1>2 DEF Modes, AfterMem, AfterTb
  <1>7. l.mem = Torn \/ MemFile(l.mem)
    BY <1>1, <1>4 DEF FileInv, Lacks
  <1>8. /\ s2["manifest"] = s["manifest"] /\ s2["mem"] = s["mem"]
        /\ \A y \in Inputs : s2[y] = s[y]
    BY DEF SameImages, Files, Reports, Inputs
  <1>9. ASSUME g.clean PROVE ImageInv(g, s2, fresh) /\ ModelInv(g, s2, e)
    <2>1. /\ fresh /\ e[ProfileOf(f)].ver = f.want /\ s["manifest"] = <<"manifest", f.m>>
          /\ f.want \in Versions["rtl"]
      BY <1>1, <1>2, <1>9 DEF ImageInv, ModelInv
    <2>2. LoadedInv(g, s2)
      BY <1>2, <1>4, <1>8, <2>1 DEF LoadedInv, MemInv
    <2>3. l.mem[1] = "mem" /\ ~l.mem[2].mixed /\ ~f.m.mixed => l.mem[2].at = f.m.start
      BY <1>4, <2>1 DEF MemInv
    <2>4. ImageInv(g, s2, fresh)
      BY <1>2, <1>8, <2>1, <2>2, <2>3 DEF ImageInv
    <2>5. ModelInv(g, s2, e)
      BY <1>2, <1>4, <2>1 DEF ModelInv
    <2> QED BY <2>4, <2>5
  <1>10. (\A y \in Inputs : s2[y] # Missing) /\ s2["mem"] # Missing
    BY <1>1, <1>8
  <1>11. Described(g.m) /\ (g.loaded.mem = Torn \/ MemFile(g.loaded.mem))
    BY <1>1, <1>2, <1>7
  <1> QED BY <1>1, <1>3, <1>5, <1>6, <1>9, <1>10, <1>11, RunnerMoves

\* The stage of a runner past its test bench.
LEMMA PastTb ==
  ASSUME NEW f, NEW s, NEW e, NEW fresh, ProcInv(f, s, e, fresh), f.pc \in AfterTb
  PROVE  /\ Shape(f) /\ Described(f.m) /\ Modes(f) /\ f.pc \in RunnerPcs /\ f.pc \in AfterLoad
         /\ f.todo # <<>> /\ Head(f.todo) \in {"rtl", "difftest"}
         /\ f.loaded.mem = Torn \/ MemFile(f.loaded.mem)
         /\ f.clean \in BOOLEAN /\ s["mem"] # Missing /\ \A x \in Inputs : s[x] # Missing
         /\ f.clean => /\ s["manifest"] = <<"manifest", f.m>> /\ LoadedInv(f, s)
                       /\ f.loaded.ver = f.want /\ f.want \in Versions["rtl"] /\ ModelInv(f, s, e)
                       /\ f.loaded.mem[1] = "mem" /\ ~f.loaded.mem[2].mixed /\ ~f.m.mixed =>
                            f.loaded.mem[2].at = f.m.start
  <1>1. f.pc \in AfterLoad /\ f.pc \in AfterMem
    BY DEF AfterLoad, AfterMem
  <1>2. /\ Shape(f) /\ Described(f.m) /\ Modes(f) /\ (\A x \in Inputs : s[x] # Missing)
        /\ f.pc \in RunnerPcs /\ s["mem"] # Missing /\ f.clean \in BOOLEAN
        /\ f.loaded.mem = Torn \/ MemFile(f.loaded.mem)
        /\ f.clean => /\ ImageInv(f, s, fresh) /\ ModelInv(f, s, e)
                      /\ s["manifest"] = <<"manifest", f.m>>
    BY <1>1, RunnerKnows
  <1>3. f.pc # "next"
    BY DEF AfterTb
  <1>4. f.todo # <<>> /\ Head(f.todo) # "spike" /\ f.todo \in Seq({"spike", "rtl", "difftest"})
    BY <1>1, <1>2, <1>3 DEF Modes
  <1>5. Head(f.todo) \in {"rtl", "difftest"}
    BY <1>4
  <1>6. f.clean => /\ LoadedInv(f, s)
                   /\ f.loaded.mem[1] = "mem" /\ ~f.loaded.mem[2].mixed /\ ~f.m.mixed =>
                        f.loaded.mem[2].at = f.m.start
    BY <1>2 DEF ImageInv
  <1>7. f.clean => f.loaded.ver = f.want /\ f.want \in Versions["rtl"]
    BY <1>2 DEF ModelInv
  <1> QED BY <1>1, <1>2, <1>4, <1>5, <1>6, <1>7

\* From one stage behind the test bench to the next.
LEMMA TbMoves ==
  ASSUME NEW f, NEW s, NEW e, NEW fresh, ProcInv(f, s, e, fresh), f.pc \in AfterTb, f.writes = <<>>,
         NEW s2, SameImages(s, s2), NEW g, Carries(f, g), g.pc \in AfterTb, g.clean = f.clean,
         g.m = f.m, g.loaded = f.loaded, Modes(g), f.clean => ModelInv(g, s2, e)
  PROVE  ProcInv(g, s2, e, fresh)
  <1>1. /\ Described(f.m) /\ f.pc \in RunnerPcs /\ (\A x \in Inputs : s[x] # Missing)
        /\ f.loaded.mem = Torn \/ MemFile(f.loaded.mem)
        /\ s["mem"] # Missing /\ f.pc \in AfterLoad
        /\ f.clean => /\ s["manifest"] = <<"manifest", f.m>> /\ LoadedInv(f, s)
                      /\ f.loaded.mem[1] = "mem" /\ ~f.loaded.mem[2].mixed /\ ~f.m.mixed =>
                           f.loaded.mem[2].at = f.m.start
    BY PastTb
  <1>2. /\ s2["manifest"] = s["manifest"] /\ s2["mem"] = s["mem"]
        /\ \A y \in Inputs : s2[y] = s[y]
    BY DEF SameImages, Files, Reports, Inputs
  <1>3. g.pc \in RunnerPcs \ {"images", "load"} /\ g.pc # "next"
    BY DEF RunnerPcs, AfterTb
  <1>4. (\A y \in Inputs : s2[y] # Missing) /\ s2["mem"] # Missing
    BY <1>1, <1>2
  <1>5. g.pc \notin {"model", "compile", "start"}
    BY DEF AfterTb
  <1>6. f.clean => LoadedInv(g, s2)
    BY <1>1, <1>2 DEF LoadedInv
  <1>7. f.clean => ImageInv(g, s2, fresh)
    BY <1>1, <1>2, <1>5, <1>6 DEF ImageInv
  <1>8. Described(g.m) /\ (g.loaded.mem = Torn \/ MemFile(g.loaded.mem))
    BY <1>1
  <1> QED BY <1>1, <1>3, <1>4, <1>7, <1>8, RunnerMoves

Ready(f, s) ==
  LET c == Core[f.loaded.ver][ProfileOf(f)]
  IN  c.end = "pass" /\ Bootable(f.loaded) /\ s["uart"] = <<"uart", c.console>>

\* The marker is met: the boot is as the core does it.
LEMMA BootEndsOK ==
  ASSUME NEW f, NEW s, NEW e, NEW fresh, ProcInv(f, s, e, fresh), f.pc = "tb", f.writes = <<>>,
         Head(f.todo) = "rtl", NEW s2, SameImages(s, s2), Ready(f, s2), NEW g, g = [f EXCEPT !.pc = "report"]
  PROVE  ProcInv(g, s2, e, fresh)
  <1>0. f.pc \in AfterTb
    BY DEF AfterTb
  <1>1. Shape(f) /\ Modes(f) /\ f.clean \in BOOLEAN /\ (f.clean => f.loaded.ver = f.want /\ f.want \in Versions["rtl"])
    BY <1>0, PastTb
  <1>a. Shape(f)
    BY DEF ProcInv
  <1>2. Continues(f, g) /\ g.pc = "report" /\ g.writes = f.writes /\ g.m = f.m
    BY <1>a DEF Shape, Record, Continues
  <1>3. /\ Carries(f, g) /\ g.pc \in AfterTb /\ g.clean = f.clean /\ g.loaded = f.loaded
        /\ g.want = f.want /\ g.todo = f.todo
    BY <1>1, <1>2 DEF Carries, Continues, AfterTb
  <1>4. Modes(g)
    BY <1>1, <1>2 DEF Modes, AfterMem, AfterTb, Continues
  <1>5. ProfileOf(g) = ProfileOf(f)
    BY <1>2 DEF ProfileOf, Continues
  <1>6. f.clean => ModelInv(g, s2, e)
    BY <1>1, <1>2, <1>3, <1>5 DEF ModelInv, DoesOf, Ready
  <1> QED BY <1>0, <1>2, <1>3, <1>4, <1>6, TbMoves

\* The kernel is reached, or the core stops before it.
LEMMA FirmwareEndsOK ==
  ASSUME NEW f, NEW s, NEW e, NEW fresh, ProcInv(f, s, e, fresh), f.pc = "tb", f.writes = <<>>,
         Head(f.todo) = "difftest", NEW pc \in {"report", "golden"}, NEW n \in 0..FwSync,
         NEW c, c = Core[f.loaded.ver]["fw_beat"],
         FwIntact(f.loaded) => (c.end = "pass" => n = FwSync),
         NEW s2, SameImages(s, s2),
         FwIntact(f.loaded) =>
           s2["trace"] = <<"trace", SubSeq(DutStream(f.loaded.mem[2].fw[2], c.off), 1, n)>>,
         NEW g, g = [f EXCEPT !.pc = pc, !.n = n]
  PROVE  ProcInv(g, s2, e, fresh)
  <1>0. f.pc \in AfterTb
    BY DEF AfterTb
  <1>1. Shape(f) /\ Modes(f) /\ f.clean \in BOOLEAN /\ (f.clean => f.loaded.ver = f.want /\ f.want \in Versions["rtl"])
    BY <1>0, PastTb
  <1>2. /\ g = Record(g) /\ g.pc = pc /\ g.n = n /\ g.req = f.req /\ g.todo = f.todo /\ g.m = f.m
        /\ g.want = f.want /\ g.loaded = f.loaded /\ g.writes = f.writes /\ g.exit = f.exit
        /\ g.verdict = f.verdict /\ g.match = f.match /\ g.clean = f.clean
    BY <1>1 DEF Shape, Record
  <1>3. Carries(f, g) /\ g.pc \in AfterTb
    BY <1>1, <1>2 DEF Carries, AfterTb
  <1>4. Modes(g)
    BY <1>1, <1>2 DEF Modes, AfterMem, AfterTb
  <1>5. f.clean => Traced(g, s2)
    BY <1>1, <1>2 DEF Traced
  <1>6. f.clean => ModelInv(g, s2, e)
    BY <1>1, <1>2, <1>5 DEF ModelInv
  <1> QED BY <1>0, <1>2, <1>3, <1>4, <1>6, TbMoves

\* A firmware run goes on to Spike.
LEMMA ToGoldenOK ==
  ASSUME NEW f, NEW s, NEW e, NEW fresh, ProcInv(f, s, e, fresh), f.pc = "report", f.writes = <<>>,
         Head(f.todo) = "difftest", NEW g, g = [f EXCEPT !.pc = "golden"]
  PROVE  ProcInv(g, s, e, fresh)
  <1>0. f.pc \in AfterTb
    BY DEF AfterTb
  <1>1. /\ Shape(f) /\ Modes(f) /\ f.clean \in BOOLEAN
        /\ f.clean => ModelInv(f, s, e) /\ f.loaded.ver = f.want /\ f.want \in Versions["rtl"]
    BY <1>0, PastTb
  <1>2. Continues(f, g) /\ g.pc = "golden" /\ g.writes = f.writes /\ g.m = f.m
    BY <1>1 DEF Shape, Record, Continues
  <1>3. /\ Carries(f, g) /\ g.pc \in AfterTb /\ g.clean = f.clean /\ g.loaded = f.loaded
        /\ g.want = f.want /\ g.todo = f.todo /\ g.n = f.n
    BY <1>1, <1>2 DEF Carries, Continues, AfterTb
  <1>4. Modes(g)
    BY <1>1, <1>2 DEF Modes, AfterMem, AfterTb, Continues
  <1>5. f.clean => Traced(f, s)
    BY <1>1 DEF ModelInv
  <1>6. f.clean => Traced(g, s)
    BY <1>3, <1>5 DEF Traced
  <1>7. f.clean => ModelInv(g, s, e)
    BY <1>1, <1>2, <1>3, <1>6 DEF ModelInv
  <1>8. SameImages(s, s)
    BY DEF SameImages
  <1> QED BY <1>0, <1>2, <1>3, <1>4, <1>7, <1>8, TbMoves

\* What a report of a boot has seen.
LEMMA ReportSees ==
  ASSUME NEW f, NEW s, NEW e, NEW fresh, ProcInv(f, s, e, fresh), f.pc = "report", f.clean,
         Head(f.todo) # "difftest", NEW c, c = s["uart"][2], NEW d,
         d = Core[f.loaded.ver][ProfileOf(f)], d.clean, d.faults,
         \E i \in DOMAIN c : c[i] = SpikeConsole[Len(SpikeConsole)]
  PROVE  Booted(BootOf(f), f.loaded) /\ c = BootOf(f).console
  <1>0. f.pc \in AfterTb
    BY DEF AfterTb
  <1>1. ModelInv(f, s, e) /\ f.loaded.ver = f.want /\ Head(f.todo) = "rtl"
    BY <1>0, PastTb
  <1>2. ProfileOf(f) = IF f.req.dram THEN "dram" ELSE "beat"
    BY DEF ProfileOf
  <1>3. DoesOf(f) = d /\ BootOf(f) = d
    BY <1>1, <1>2 DEF DoesOf, BootOf
  <1>4. d.end = "pass" /\ Bootable(f.loaded) /\ s["uart"] = <<"uart", d.console>>
    BY <1>1, <1>3 DEF ModelInv
  <1> QED BY <1>3, <1>4 DEF Booted

\* The console is kept for the comparison, if Spike has booted.
LEMMA ToConsoleOK ==
  ASSUME NEW f, NEW s, NEW e, NEW fresh, ProcInv(f, s, e, fresh), f.pc = "report", f.writes = <<>>,
         Head(f.todo) # "difftest", "spike" \in ToSet(f.req.modes), NEW c,
         f.clean => Booted(BootOf(f), f.loaded) /\ c = BootOf(f).console,
         NEW g, g = [f EXCEPT !.pc = "console", !.console = c]
  PROVE  ProcInv(g, s, e, fresh)
  <1>0. f.pc \in AfterTb
    BY DEF AfterTb
  <1>1. /\ Shape(f) /\ Modes(f) /\ f.clean \in BOOLEAN /\ Head(f.todo) = "rtl"
        /\ f.clean => f.loaded.ver = f.want /\ f.want \in Versions["rtl"]
    BY <1>0, PastTb
  <1>2. /\ g = Record(g) /\ g.pc = "console" /\ g.console = c /\ g.req = f.req /\ g.todo = f.todo
        /\ g.m = f.m /\ g.want = f.want /\ g.loaded = f.loaded /\ g.writes = f.writes
        /\ g.exit = f.exit /\ g.verdict = f.verdict /\ g.match = f.match /\ g.clean = f.clean
    BY <1>1 DEF Shape, Record
  <1>3. Carries(f, g) /\ g.pc \in AfterTb
    BY <1>1, <1>2 DEF Carries, AfterTb
  <1>4. Modes(g)
    BY <1>1, <1>2 DEF Modes, AfterMem, AfterTb
  <1>5. BootOf(g) = BootOf(f)
    BY <1>2 DEF BootOf
  <1>6. f.clean => ModelInv(g, s, e)
    BY <1>1, <1>2, <1>5 DEF ModelInv
  <1>7. SameImages(s, s)
    BY DEF SameImages
  <1> QED BY <1>0, <1>2, <1>3, <1>4, <1>6, <1>7, TbMoves
-----------------------------------------------------------------------------
(* The console and the commits                                              *)

\* Min and Max of two lengths.
LEMMA TwoLengths ==
  ASSUME NEW a \in Nat, NEW b \in Nat
  PROVE  /\ Min({a, b}) \in {a, b} /\ Min({a, b}) <= a /\ Min({a, b}) <= b
         /\ Max({a, b}) \in {a, b} /\ Max({a, b}) >= a /\ Max({a, b}) >= b
  <1>1. \E x \in {a, b} : \A y \in {a, b} : x <= y
    OBVIOUS
  <1>2. \E x \in {a, b} : \A y \in {a, b} : x >= y
    OBVIOUS
  <1>3. Min({a, b}) \in {a, b} /\ \A y \in {a, b} : Min({a, b}) <= y
    BY <1>1 DEF Min
  <1>4. Max({a, b}) \in {a, b} /\ \A y \in {a, b} : Max({a, b}) >= y
    BY <1>2 DEF Max
  <1> QED BY <1>3, <1>4

\* _compare_console's yes is for a console that Spike's begins with.
LEMMA ConsolePrefix ==
  ASSUME NEW T, NEW spike \in Seq(T), NEW U, NEW rtl \in Seq(U), ConsoleMatch(spike, rtl)
  PROVE  Len(rtl) <= Len(spike) /\ \A i \in 1..Len(rtl) : spike[i] = rtl[i]
  <1> DEFINE k == Min({Len(spike), Len(rtl)})
             prefix == SubSeq(spike, 1, k)
  <1>1. Len(spike) \in Nat /\ Len(rtl) \in Nat
    OBVIOUS
  <1>2. k \in Nat /\ k <= Len(spike) /\ k <= Len(rtl) /\ k \in {Len(spike), Len(rtl)}
    BY <1>1, TwoLengths
  <1>3. \/ prefix = rtl
        \/ (\A i \in DOMAIN prefix : prefix[i] = rtl[i]) /\ Len(rtl) <= Len(spike)
    BY DEF ConsoleMatch
  <1> HIDE DEF k
  <1>4. Len(prefix) = k /\ DOMAIN prefix = 1..k /\ \A i \in 1..k : prefix[i] = spike[i]
    BY <1>1, <1>2
  <1> HIDE DEF prefix
  <1>5. CASE prefix = rtl
    BY <1>1, <1>2, <1>4, <1>5
  <1>6. CASE (\A i \in DOMAIN prefix : prefix[i] = rtl[i]) /\ Len(rtl) <= Len(spike)
    <2>1. k = Len(rtl)
      BY <1>1, <1>2, <1>6
    <2> QED BY <1>4, <1>6, <2>1
  <1> QED BY <1>3, <1>5, <1>6

Printed(c, spike) == spike = IF c[1] = "console" THEN c[2] ELSE <<>>

\* So whatever Spike printed before it ended.
LEMMA MatchIsPrefix ==
  ASSUME NEW c, SpikeFile(c), NEW spike, Printed(c, spike),
         NEW U, NEW rtl \in Seq(U), ConsoleMatch(spike, rtl)
  PROVE  IsPrefix(rtl, SpikeConsole)
  <1>1. SpikeConsole \in Seq(ToSet(SpikeConsole))
    BY ConsoleAssumption
  <1>2. PICK T : SpikeConsole \in Seq(T)
    BY <1>1
  <1>3. PICK n \in 0..Len(SpikeConsole) : spike = SubSeq(SpikeConsole, 1, n)
    <2>1. CASE c = Missing
      <3>1. spike = <<>>
        BY <2>1 DEF Missing, Printed
      <3>2. SubSeq(SpikeConsole, 1, 0) = <<>>
        BY <1>2
      <3>3. 0 \in 0..Len(SpikeConsole)
        BY <1>2
      <3> QED BY <3>1, <3>2, <3>3
    <2>2. CASE \E k \in 0..Len(SpikeConsole) : c = <<"console", SubSeq(SpikeConsole, 1, k)>>
      BY <2>2 DEF Printed
    <2> QED BY <2>1, <2>2 DEF SpikeFile
  <1>4. /\ spike \in Seq(T) /\ Len(spike) = n /\ \A i \in 1..n : spike[i] = SpikeConsole[i]
        /\ Len(SpikeConsole) \in Nat /\ n \in Nat /\ n <= Len(SpikeConsole)
    BY <1>2, <1>3
  <1>5. Len(rtl) <= Len(spike) /\ \A i \in 1..Len(rtl) : spike[i] = rtl[i]
    BY <1>4, ConsolePrefix
  <1>6. Len(rtl) \in Nat /\ Len(rtl) <= Len(SpikeConsole)
    BY <1>4, <1>5
  <1>7. \A i \in 1..Len(rtl) : rtl[i] = SpikeConsole[i]
    BY <1>4, <1>5, <1>6
  <1>8. SubSeq(rtl, 1, Len(rtl)) = SubSeq(SpikeConsole, 1, Len(rtl))
    BY <1>2, <1>6, <1>7
  <1> QED BY <1>6, <1>8 DEF IsPrefix

\* The checks of a commit are of these kinds.
Check_ ==
  {"cycle_mismatch", "pc_mismatch", "fp_class_mismatch", "rd_mismatch", "value_mismatch",
   "mem_addr_mismatch", "mem_wdata_mismatch", "mem_mask_mismatch", "fflags_mismatch",
   "frm_mismatch"} \X BOOLEAN

LEMMA ThreeParts ==
  ASSUME NEW S, NEW a \in Seq(S), NEW b \in Seq(S), NEW c \in Seq(S)
  PROVE  /\ a \o b \o c \in Seq(S) /\ Len(a \o b \o c) = Len(a) + Len(b) + Len(c)
         /\ \A i \in 1..Len(a) : (a \o b \o c)[i] = a[i]
         /\ \A i \in 1..Len(b) : (a \o b \o c)[Len(a) + i] = b[i]
         /\ \A i \in 1..Len(c) : (a \o b \o c)[Len(a) + Len(b) + i] = c[i]
  <1>1. /\ a \o b \in Seq(S) /\ Len(a \o b) = Len(a) + Len(b)
        /\ \A i \in 1..Len(a) : (a \o b)[i] = a[i]
        /\ \A i \in 1..Len(b) : (a \o b)[Len(a) + i] = b[i]
        /\ Len(a) \in Nat /\ Len(b) \in Nat /\ Len(c) \in Nat
    OBVIOUS
  <1>2. PICK ab : ab = a \o b
    OBVIOUS
  <1>3. /\ ab \o c \in Seq(S) /\ Len(ab \o c) = Len(ab) + Len(c)
        /\ \A i \in 1..Len(ab) : (ab \o c)[i] = ab[i]
        /\ \A i \in 1..Len(c) : (ab \o c)[Len(ab) + i] = c[i]
    BY <1>1, <1>2
  <1> QED BY <1>1, <1>2, <1>3

MainChecks(g, d, o) ==
  << <<"cycle_mismatch", o.cycle /\ g.cycle # d.cycle>>,
     <<"pc_mismatch", g.pc # d.pc>>,
     <<"fp_class_mismatch", o.fp /\ g.fp # d.fp>>,
     <<"rd_mismatch", g.rd # d.rd>>,
     <<"value_mismatch", g.value # d.value>> >>
OptMem(g, d, o) == IF o.mem THEN MemChecks(g, d) ELSE <<>>
OptFp(g, d, o) == IF o.fp THEN FpChecks(g, d) ELSE <<>>

Parts(g, d, o, a, b, c) == a = MainChecks(g, d, o) /\ b = OptMem(g, d, o) /\ c = OptFp(g, d, o)
LEMMA ChecksAre ==
  ASSUME NEW g, NEW d, NEW o, NEW a, NEW b, NEW c, Parts(g, d, o, a, b, c)
  PROVE  /\ Checks(g, d, o) = a \o b \o c
         /\ a \in Seq(Check_) /\ b \in Seq(Check_) /\ c \in Seq(Check_)
  <1>1. Checks(g, d, o) = a \o b \o c
    BY DEF Parts, Checks, MainChecks, OptMem, OptFp
  <1>2. \A x, y : <<x, y>> \in Check_ <=>
          /\ x \in {"cycle_mismatch", "pc_mismatch", "fp_class_mismatch", "rd_mismatch",
                    "value_mismatch", "mem_addr_mismatch", "mem_wdata_mismatch",
                    "mem_mask_mismatch", "fflags_mismatch", "frm_mismatch"}
          /\ y \in BOOLEAN
    BY Zenon DEF Check_
  <1>3. /\ (o.cycle /\ g.cycle # d.cycle) \in BOOLEAN /\ (g.pc # d.pc) \in BOOLEAN
        /\ (o.fp /\ g.fp # d.fp) \in BOOLEAN /\ (g.rd # d.rd) \in BOOLEAN
        /\ (g.value # d.value) \in BOOLEAN /\ (g.addr # d.addr) \in BOOLEAN
        /\ (d.addr # Absent /\ g.wdata # d.wdata) \in BOOLEAN
        /\ (d.addr # Absent /\ MasksDiffer(g, d)) \in BOOLEAN
        /\ (g.fflags # d.fflags) \in BOOLEAN /\ (g.frm # d.frm) \in BOOLEAN
    BY Zenon
  <1>4. /\ <<"cycle_mismatch", o.cycle /\ g.cycle # d.cycle>> \in Check_
        /\ <<"pc_mismatch", g.pc # d.pc>> \in Check_
        /\ <<"fp_class_mismatch", o.fp /\ g.fp # d.fp>> \in Check_
        /\ <<"rd_mismatch", g.rd # d.rd>> \in Check_
        /\ <<"value_mismatch", g.value # d.value>> \in Check_
        /\ <<"mem_addr_mismatch", g.addr # d.addr>> \in Check_
        /\ <<"mem_wdata_mismatch", d.addr # Absent /\ g.wdata # d.wdata>> \in Check_
        /\ <<"mem_mask_mismatch", d.addr # Absent /\ MasksDiffer(g, d)>> \in Check_
        /\ <<"fflags_mismatch", g.fflags # d.fflags>> \in Check_
        /\ <<"frm_mismatch", g.frm # d.frm>> \in Check_
    BY <1>2, <1>3, Zenon
  <1>5. a \in Seq(Check_)
    BY <1>4 DEF Parts, MainChecks
  <1>6. b \in Seq(Check_)
    BY <1>4 DEF Parts, OptMem, MemChecks
  <1>7. c \in Seq(Check_)
    BY <1>4 DEF Parts, OptFp, FpChecks
  <1> QED BY <1>1, <1>5, <1>6, <1>7

\* A set of indices has a least one.
LEMMA LeastIndex ==
  ASSUME NEW S, S \subseteq Nat, S # {}
  PROVE  Min(S) \in S /\ \A y \in S : Min(S) <= y
  <1>1. \E x \in S : \A y \in S : ~(<<y, x>> \in OpToRel(<, Nat))
    BY NatLessThanWellFounded, WFMin
  <1>2. \A x \in Nat, y \in Nat : y < x => <<y, x>> \in OpToRel(<, Nat)
    BY Zenon DEF OpToRel
  <1>3. \E x \in S : \A y \in S : ~(y < x)
    BY <1>1, <1>2, Zenon
  <1>4. \E x \in S : \A y \in S : x <= y
    BY <1>3
  <1> QED BY <1>4 DEF Min

\* A commit matches when none of its checks fails.
LEMMA NoneFails ==
  ASSUME NEW g, NEW d, NEW o, NEW cs, cs = Checks(g, d, o)
  PROVE  CommitVerdict(g, d, o) = Match <=> \A i \in 1..Len(cs) : ~cs[i][2]
  <1> DEFINE failed == {i \in DOMAIN cs : cs[i][2]}
  <1>1. CommitVerdict(g, d, o) = IF failed = {} THEN Match ELSE cs[Min(failed)][1]
    BY DEF CommitVerdict
  <1>a. PICK a, b, c : Parts(g, d, o, a, b, c)
    BY DEF Parts
  <1>b. cs = a \o b \o c /\ a \in Seq(Check_) /\ b \in Seq(Check_) /\ c \in Seq(Check_)
    BY <1>a, ChecksAre
  <1>2. cs \in Seq(Check_)
    BY <1>b, ThreeParts
  <1>3. DOMAIN cs = 1..Len(cs) /\ Len(cs) \in Nat /\ \A i \in 1..Len(cs) : cs[i] \in Check_
    BY <1>2
  <1>4. failed \subseteq Nat
    BY <1>3
  <1>5. \A x \in Check_ : x[1] # Match
    BY DEF Check_, Match
  <1>6. failed # {} => Min(failed) \in failed
    BY <1>4, LeastIndex
  <1>7. failed # {} => CommitVerdict(g, d, o) # Match
    BY <1>1, <1>3, <1>5, <1>6
  <1>8. failed = {} <=> \A i \in 1..Len(cs) : ~cs[i][2]
    BY <1>3
  <1> QED BY <1>1, <1>7, <1>8

\* A match is one of cycle, address, register and value.
LEMMA MatchSees ==
  ASSUME NEW g, NEW d, NEW o, o.cycle = TRUE, CommitVerdict(g, d, o) = Match
  PROVE  Seen(g) = Seen(d)
  <1>1. PICK a, b, c : Parts(g, d, o, a, b, c)
    BY DEF Parts
  <1>2. /\ Checks(g, d, o) = a \o b \o c
        /\ a \in Seq(Check_) /\ b \in Seq(Check_) /\ c \in Seq(Check_)
    BY <1>1, ChecksAre
  <1>3. PICK cs : cs = a \o b \o c
    OBVIOUS
  <1>4. \A i \in 1..Len(cs) : ~cs[i][2]
    BY <1>2, <1>3, NoneFails
  <1>5. /\ Len(cs) = Len(a) + Len(b) + Len(c) /\ \A i \in 1..Len(a) : cs[i] = a[i]
    BY <1>2, <1>3, ThreeParts
  <1>6. Len(a) \in Nat /\ Len(b) \in Nat /\ Len(c) \in Nat
    BY <1>2
  <1>7. \A i \in 1..Len(a) : ~a[i][2]
    BY <1>4, <1>5, <1>6
  <1>8. Len(a) = 5
    BY <1>1 DEF Parts, MainChecks
  <1>9. ~a[1][2] /\ ~a[2][2] /\ ~a[4][2] /\ ~a[5][2]
    BY <1>7, <1>8
  <1>10. /\ a[1][2] <=> o.cycle /\ g.cycle # d.cycle
         /\ a[2][2] <=> g.pc # d.pc
         /\ a[4][2] <=> g.rd # d.rd
         /\ a[5][2] <=> g.value # d.value
    BY <1>1 DEF Parts, MainChecks
  <1> QED BY <1>9, <1>10 DEF Seen

\* A commit of Spike's matches itself, whatever is compared.
LEMMA SameMatches ==
  ASSUME NEW x, x.rmask = NoMask, x.wmask = NoMask, NEW o
  PROVE  CommitVerdict(x, x, o) = Match
  <1> DEFINE F == {"cycle_mismatch", "pc_mismatch", "fp_class_mismatch", "rd_mismatch",
                   "value_mismatch", "mem_addr_mismatch", "mem_wdata_mismatch",
                   "mem_mask_mismatch", "fflags_mismatch", "frm_mismatch"} \X {FALSE}
  <1>1. PICK a, b, c : Parts(x, x, o, a, b, c)
    BY DEF Parts
  <1>2. Checks(x, x, o) = a \o b \o c
    BY <1>1, ChecksAre
  <1>3. \A k, y : <<k, y>> \in F <=>
          /\ k \in {"cycle_mismatch", "pc_mismatch", "fp_class_mismatch", "rd_mismatch",
                    "value_mismatch", "mem_addr_mismatch", "mem_wdata_mismatch",
                    "mem_mask_mismatch", "fflags_mismatch", "frm_mismatch"}
          /\ y = FALSE
    BY Zenon
  <1>a. ~MasksDiffer(x, x)
    BY DEF MasksDiffer, HasMemMasks
  <1> HIDE DEF F
  <1>b. /\ (o.cycle /\ x.cycle # x.cycle) = FALSE /\ (x.pc # x.pc) = FALSE
        /\ (o.fp /\ x.fp # x.fp) = FALSE /\ (x.rd # x.rd) = FALSE
        /\ (x.value # x.value) = FALSE /\ (x.addr # x.addr) = FALSE
        /\ (x.addr # Absent /\ x.wdata # x.wdata) = FALSE
        /\ (x.addr # Absent /\ MasksDiffer(x, x)) = FALSE
        /\ (x.fflags # x.fflags) = FALSE /\ (x.frm # x.frm) = FALSE
    BY <1>a, Zenon
  <1>4. /\ <<"cycle_mismatch", o.cycle /\ x.cycle # x.cycle>> \in F
        /\ <<"pc_mismatch", x.pc # x.pc>> \in F
        /\ <<"fp_class_mismatch", o.fp /\ x.fp # x.fp>> \in F
        /\ <<"rd_mismatch", x.rd # x.rd>> \in F
        /\ <<"value_mismatch", x.value # x.value>> \in F
        /\ <<"mem_addr_mismatch", x.addr # x.addr>> \in F
        /\ <<"mem_wdata_mismatch", x.addr # Absent /\ x.wdata # x.wdata>> \in F
        /\ <<"mem_mask_mismatch", x.addr # Absent /\ MasksDiffer(x, x)>> \in F
        /\ <<"fflags_mismatch", x.fflags # x.fflags>> \in F
        /\ <<"frm_mismatch", x.frm # x.frm>> \in F
    BY <1>3, <1>b, Zenon
  <1>5. a \in Seq(F)
    BY <1>1, <1>4 DEF Parts, MainChecks
  <1>6. b \in Seq(F)
    BY <1>1, <1>4 DEF Parts, OptMem, MemChecks
  <1>7. c \in Seq(F)
    BY <1>1, <1>4 DEF Parts, OptFp, FpChecks
  <1>8. PICK cs : cs = a \o b \o c
    OBVIOUS
  <1>9. cs \in Seq(F)
    BY <1>5, <1>6, <1>7, <1>8, ThreeParts
  <1>10. \A i \in 1..Len(cs) : cs[i] \in F
    BY <1>9
  <1>11. \A y \in F : ~y[2]
    BY DEF F
  <1> QED BY <1>2, <1>8, <1>10, <1>11, NoneFails

\* The comparison of two streams of one length is content when all commits match.
LEMMA AllMatch ==
  ASSUME NEW T, NEW g \in Seq(T), NEW d \in Seq(T), NEW n, Len(g) = n, Len(d) = n, NEW o
  PROVE  FirstDivergence(g, d, o)[2] = Match <=>
           \A i \in 1..n : CommitVerdict(g[i], d[i], o) = Match
  <1> DEFINE N == Max({Len(g), Len(d)})
             bad == {i \in 0..(N - 1) : VerdictAt(g, d, i, o) # Match}
             f == FirstDivergence(g, d, o)
  <1>1. n \in Nat
    OBVIOUS
  <1>2. N = n
    BY <1>1, TwoLengths
  <1>3. f = IF bad = {} THEN <<Absent, Match>> ELSE <<Min(bad), VerdictAt(g, d, Min(bad), o)>>
    BY DEF FirstDivergence
  <1> HIDE DEF N
  <1>4. bad \subseteq Nat
    BY <1>1, <1>2
  <1>5. \A i : i \in bad <=> i \in 0..(n - 1) /\ VerdictAt(g, d, i, o) # Match
    BY <1>2
  <1> HIDE DEF bad, f
  <1>6. bad # {} => Min(bad) \in bad
    BY <1>4, LeastIndex
  <1>7. bad # {} => f[2] # Match
    BY <1>3, <1>5, <1>6
  <1>8. bad = {} => f[2] = Match
    BY <1>3
  <1>9. \A i \in 0..(n - 1) : VerdictAt(g, d, i, o) = CommitVerdict(g[i + 1], d[i + 1], o)
    BY <1>1 DEF VerdictAt
  <1>10. \A i \in 1..n : i - 1 \in 0..(n - 1) /\ (i - 1) + 1 = i
    BY <1>1
  <1>11. \A i \in 0..(n - 1) : i + 1 \in 1..n
    BY <1>1
  <1>12. bad = {} <=> \A i \in 1..n : CommitVerdict(g[i], d[i], o) = Match
    <2>1. ASSUME bad = {}, NEW i \in 1..n PROVE CommitVerdict(g[i], d[i], o) = Match
      BY <1>5, <1>9, <1>10, <2>1
    <2>2. ASSUME \A i \in 1..n : CommitVerdict(g[i], d[i], o) = Match PROVE bad = {}
      <3>1. \A i \in 0..(n - 1) : VerdictAt(g, d, i, o) = Match
        BY <1>9, <1>11, <2>2
      <3> QED BY <1>5, <3>1
    <2> QED BY <2>1, <2>2
  <1> QED BY <1>7, <1>8, <1>12 DEF f

\* A budget within the stream.
LEMMA BudgetIs ==
  ASSUME NEW T, NEW G \in Seq(T), NEW n \in Nat, n <= Len(G), NEW b, b = Budget(G, n)
  PROVE  /\ b \in Seq(T) /\ Len(b) = n /\ b = SubSeq(G, 1, n) /\ \A i \in 1..n : b[i] = G[i]
  <1>1. Min({Len(G), n}) = n
    BY TwoLengths
  <1>2. b = SubSeq(G, 1, n)
    BY <1>1 DEF Budget
  <1> QED BY <1>2

\* A larger one first makes no difference.
Twice(G, n, k, b) == b = Budget(Budget(G, n + k), n)
LEMMA BudgetTwice ==
  ASSUME NEW T, NEW G \in Seq(T), NEW n \in Nat, n <= Len(G), NEW k \in Nat,
         NEW b, Twice(G, n, k, b)
  PROVE  b \in Seq(T) /\ Len(b) = n /\ \A i \in 1..n : b[i] = G[i]
  <1>1. PICK l : l = Min({Len(G), n + k})
    OBVIOUS
  <1>2. l \in Nat /\ l <= Len(G) /\ n <= l
    BY <1>1, TwoLengths
  <1>3. PICK h : h = Budget(G, n + k)
    OBVIOUS
  <1>4. h = SubSeq(G, 1, l)
    BY <1>1, <1>3 DEF Budget
  <1>5. h \in Seq(T) /\ Len(h) = l /\ \A i \in 1..l : h[i] = G[i]
    BY <1>2, <1>4
  <1>6. b \in Seq(T) /\ Len(b) = n /\ \A i \in 1..n : b[i] = h[i]
    <2>1. b = Budget(h, n)
      BY <1>3 DEF Twice
    <2>2. h \in Seq(T) /\ n <= Len(h)
      BY <1>2, <1>5
    <2> QED BY <2>1, <2>2, BudgetIs
  <1> QED BY <1>2, <1>5, <1>6

Silent == {c \in Commits : c.rmask = NoMask /\ c.wmask = NoMask}

\* A core that computes one commit wrong.
LEMMA DutIs ==
  ASSUME NEW v \in DOMAIN FwGolden, NEW off, NEW D, D = DutStream(v, off)
  PROVE  /\ FwGolden[v] \in Seq(Silent) /\ FwSync <= Len(FwGolden[v]) /\ FwSync \in Nat
         /\ D \in Seq(Silent) /\ Len(D) = Len(FwGolden[v])
         /\ \A i \in 1..Len(D) : i # off => D[i] = FwGolden[v][i]
         /\ \A i \in 1..Len(D) : i = off => Seen(D[i]) # Seen(FwGolden[v][i])
  <1>1. PICK G : G = FwGolden[v]
    OBVIOUS
  <1>2. G \in Seq(Silent) /\ FwSync <= Len(G) /\ FwSync \in Nat
    BY <1>1, GoldenAssumption DEF Silent
  <1>3. DOMAIN G = 1..Len(G) /\ Len(G) \in Nat /\ \A i \in 1..Len(G) : G[i] \in Silent
    BY <1>2
  <1>4. D = [i \in 1..Len(G) |-> IF i = off THEN [G[i] EXCEPT !.value = @ + 1] ELSE G[i]]
    BY <1>1, <1>3 DEF DutStream
  <1>5. ASSUME NEW c \in Silent, NEW x, x = [c EXCEPT !.value = @ + 1]
        PROVE  x \in Silent /\ Seen(x) # Seen(c)
    <2>1. c.value \in Int /\ c \in Commits /\ c.rmask = NoMask /\ c.wmask = NoMask
      BY DEF Silent, Commits
    <2>2. c.value + 1 \in Int /\ c.value + 1 # c.value
      BY <2>1
    <2>3. x \in Commits /\ x.rmask = NoMask /\ x.wmask = NoMask /\ x.value = c.value + 1
      BY <1>5, <2>1, <2>2 DEF Commits
    <2>4. x \in Silent
      BY <2>3 DEF Silent
    <2>5. Seen(x) # Seen(c)
      BY <2>2, <2>3 DEF Seen
    <2> QED BY <2>4, <2>5
  <1>6. \A i \in 1..Len(G) : /\ D[i] \in Silent /\ (i # off => D[i] = G[i])
                             /\ i = off => Seen(D[i]) # Seen(G[i])
    BY <1>3, <1>4, <1>5
  <1>7. D \in [1..Len(G) -> Silent]
    BY <1>4, <1>6
  <1>8. D \in Seq(Silent) /\ Len(D) = Len(G)
    BY <1>3, <1>7
  <1> QED BY <1>1, <1>2, <1>6, <1>8

\* What the comparison of a firmware run says.
LEMMA ComparedOK ==
  ASSUME NEW r, NEW s, Traced(r, s), FwIntact(r.loaded),
         r.loaded.mem = Torn \/ MemFile(r.loaded.mem), FwFile(s["elf"]),
         s["golden"] = <<"golden", Budget(FwGolden[s["elf"][2]], r.n + Slack)>>,
         NEW ok, ok = FirmwareMatches(s["golden"][2], s["trace"][2], r.n)
  PROVE  s["trace"] # Torn /\ (ok => Compared(r, s)) /\ (~ok => Differs(r, s))
  <1>0. PICK off : off = Core[r.want]["fw_beat"].off
    OBVIOUS
  <1>1. PICK n : n = r.n
    OBVIOUS
  <1>2. PICK v : v = r.loaded.mem[2].fw[2]
    OBVIOUS
  <1>3. PICK w : w = s["elf"][2]
    OBVIOUS
  <1>4. PICK D : D = DutStream(v, off)
    OBVIOUS
  <1>5. PICK G : G = FwGolden[w]
    OBVIOUS
  <1>6. r.loaded.mem # Torn /\ r.loaded.mem[2].fw # Torn
    BY DEF FwIntact, Torn
  <1>7. FwFile(r.loaded.mem[2].fw)
    BY <1>6 DEF MemFile, Rendered
  <1>8. v \in DOMAIN FwGolden /\ w \in DOMAIN FwGolden /\ Slack \in Nat
    BY <1>2, <1>3, <1>7, GoldenAssumption DEF FwFile
  <1>9. /\ FwGolden[v] \in Seq(Silent) /\ FwSync <= Len(FwGolden[v]) /\ FwSync \in Nat
        /\ D \in Seq(Silent) /\ Len(D) = Len(FwGolden[v])
        /\ \A i \in 1..Len(D) : i # off => D[i] = FwGolden[v][i]
        /\ \A i \in 1..Len(D) : i = off => Seen(D[i]) # Seen(FwGolden[v][i])
    BY <1>4, <1>8, DutIs
  <1>10. G \in Seq(Silent) /\ FwSync <= Len(G)
    BY <1>5, <1>8, DutIs
  <1>11. /\ n \in 0..FwSync /\ s["trace"] = <<"trace", SubSeq(D, 1, n)>>
         /\ Core[r.want]["fw_beat"].end = "pass" => n = FwSync
    BY <1>0, <1>1, <1>2, <1>4 DEF Traced
  <1>12. n \in Nat /\ n <= Len(D) /\ n <= Len(G)
    BY <1>9, <1>10, <1>11
  <1>d. D \in Seq(Silent) /\ n \in Nat /\ n <= Len(D)
    BY <1>9, <1>12
  <1>e. G \in Seq(Silent) /\ n \in Nat /\ n <= Len(G) /\ Slack \in Nat
    BY <1>8, <1>10, <1>12
  <1>13. PICK bd : bd = Budget(D, n)
    OBVIOUS
  <1>14. bd \in Seq(Silent) /\ Len(bd) = n /\ (\A i \in 1..n : bd[i] = D[i]) /\ bd = SubSeq(D, 1, n)
    BY <1>d, <1>13, BudgetIs
  <1>15. PICK g : g = Budget(G, n)
    OBVIOUS
  <1>16. g \in Seq(Silent) /\ Len(g) = n /\ \A i \in 1..n : g[i] = G[i]
    BY <1>10, <1>12, <1>15, BudgetIs
  <1>b. PICK longer : longer = Budget(G, n + Slack)
    OBVIOUS
  <1>17. PICK h : h = Budget(longer, n)
    OBVIOUS
  <1>18. h \in Seq(Silent) /\ Len(h) = n /\ \A i \in 1..n : h[i] = G[i]
    <2>1. Twice(G, n, Slack, h)
      BY <1>b, <1>17 DEF Twice
    <2> QED BY <1>e, <2>1, BudgetTwice
  <1>19. PICK d : d = Budget(bd, n)
    OBVIOUS
  <1>20. d \in Seq(Silent) /\ Len(d) = n /\ \A i \in 1..n : d[i] = D[i]
    <2>1. n <= Len(bd) /\ n \in Nat /\ bd \in Seq(Silent)
      BY <1>12, <1>14
    <2>2. d \in Seq(Silent) /\ Len(d) = n /\ \A i \in 1..n : d[i] = bd[i]
      BY <1>19, <2>1, BudgetIs
    <2> QED BY <1>14, <2>2
  <1>c. s["golden"][2] = longer /\ s["trace"][2] = bd
    BY <1>1, <1>3, <1>5, <1>11, <1>14, <1>b
  <1>21. PICK o : o = Scope(longer, bd, TRUE)
    OBVIOUS
  <1>22. o.cycle = TRUE
    BY <1>21 DEF Scope
  <1>23. ok <=> FirstDivergence(h, d, o)[2] = Match
    BY <1>1, <1>17, <1>19, <1>21, <1>c DEF FirmwareMatches
  <1>24. ok <=> \A i \in 1..n : CommitVerdict(G[i], D[i], o) = Match
    <2>1. FirstDivergence(h, d, o)[2] = Match <=>
            \A i \in 1..n : CommitVerdict(h[i], d[i], o) = Match
      BY <1>18, <1>20, AllMatch
    <2> QED BY <1>18, <1>20, <1>23, <2>1
  <1>25. SameCommits(r, s) <=> bd = g
    BY <1>0, <1>1, <1>2, <1>3, <1>4, <1>5, <1>13, <1>15 DEF SameCommits, DutOf
  <1>26. ASSUME \A i \in 1..n : D[i] = G[i] PROVE bd = g
    BY <1>12, <1>14, <1>16, <1>26
  <1>27. ASSUME bd = g, NEW i \in 1..n PROVE CommitVerdict(G[i], D[i], o) = Match
    <2>1. D[i] = G[i]
      BY <1>14, <1>16, <1>27
    <2>2. i \in 1..Len(G)
      BY <1>10, <1>12
    <2>3. G[i] \in Silent
      BY <1>10, <2>2
    <2>4. G[i].rmask = NoMask /\ G[i].wmask = NoMask
      BY <2>3 DEF Silent
    <2> QED BY <2>1, <2>4, SameMatches
  <1>28. ok => \A i \in 1..n : Seen(G[i]) = Seen(D[i])
    BY <1>22, <1>24, MatchSees
  <1>29. v = w /\ off \notin 1..n => bd = g
    <2>1. v = w /\ off \notin 1..n => \A i \in 1..n : D[i] = G[i]
      BY <1>5, <1>9, <1>12
    <2> QED BY <1>26, <2>1
  <1>30. ok /\ v = w => off \notin 1..n
    BY <1>5, <1>9, <1>12, <1>28
  <1>31. s["elf"] = r.loaded.mem[2].fw => v = w
    BY <1>2, <1>3, Zenon
  <1>32. ok => Compared(r, s)
    BY <1>0, <1>1, <1>2, <1>3, <1>4, <1>5, <1>11, <1>25, <1>28, <1>29, <1>30, <1>31 DEF Compared, DutOf
  <1>33. ~ok => bd # g
    BY <1>24, <1>27
  <1>a. off \notin 1..n /\ s["elf"] = r.loaded.mem[2].fw => bd = g
    BY <1>29, <1>31
  <1>34. ~ok => Differs(r, s)
    BY <1>0, <1>1, <1>25, <1>33, <1>a DEF Differs
  <1>35. s["trace"] # Torn
    BY <1>11 DEF Torn
  <1> QED BY <1>32, <1>34, <1>35
-----------------------------------------------------------------------------
(* The modes end                                                            *)

\* On to the next mode.
NextOf(f, g) == g = [f EXCEPT !.pc = "next", !.todo = Tail(f.todo)]
LEMMA GoesNext ==
  ASSUME NEW f, Shape(f), NEW g, NextOf(f, g), f.clean \in BOOLEAN
  PROVE  /\ Carries(f, g) /\ g.pc = "next" /\ g.todo = Tail(f.todo) /\ g.m = f.m /\ g.match = f.match
         /\ g.clean = f.clean /\ g.loaded = f.loaded /\ g.want = f.want /\ g.n = f.n /\ g.req = f.req
  BY DEF Shape, Record, Carries, NextOf

\* Spike has booted, or has ended before.
LEMMA SpikeDoneOK ==
  ASSUME NEW f, NEW s, NEW e, NEW fresh, ProcInv(f, s, e, fresh), f.pc = "spike", f.writes = <<>>,
         NEW s2, SameImages(s, s2), NEW g, NextOf(f, g)
  PROVE  ProcInv(g, s2, e, fresh)
  <1>0. f.pc \in AfterLoad
    BY DEF AfterLoad
  <1>1. Shape(f) /\ Modes(f) /\ f.clean \in BOOLEAN
    BY <1>0, RunnerKnows
  <1>2. f.todo # <<>> /\ Head(f.todo) = "spike"
    BY <1>1 DEF Modes
  <1>3. /\ Carries(f, g) /\ g.pc = "next" /\ g.todo = Tail(f.todo) /\ g.m = f.m /\ g.match = f.match
        /\ g.clean = f.clean
    BY <1>1, GoesNext
  <1>4. Head(f.todo) # "rtl" /\ Head(f.todo) # "difftest"
    BY <1>2
  <1> QED BY <1>0, <1>2, <1>3, <1>4, DoneOK

\* A boot that is reported and compared with nothing.
LEMMA ReportDoneOK ==
  ASSUME NEW f, NEW s, NEW e, NEW fresh, ProcInv(f, s, e, fresh), f.pc = "report", f.writes = <<>>,
         Head(f.todo) # "difftest", "spike" \notin ToSet(f.req.modes),
         f.clean => Booted(BootOf(f), f.loaded), NEW g, NextOf(f, g)
  PROVE  ProcInv(g, s, e, fresh)
  <1>0. f.pc \in AfterTb
    BY DEF AfterTb
  <1>1. /\ Shape(f) /\ Modes(f) /\ f.clean \in BOOLEAN /\ f.pc \in AfterLoad /\ f.todo # <<>>
        /\ f.clean => LoadedInv(f, s)
    BY <1>0, PastTb
  <1>2. /\ Carries(f, g) /\ g.pc = "next" /\ g.todo = Tail(f.todo) /\ g.m = f.m /\ g.match = f.match
        /\ g.clean = f.clean /\ g.loaded = f.loaded /\ g.want = f.want /\ g.req = f.req
    BY <1>1, GoesNext
  <1>3. g.match # "yes"
    BY <1>1, <1>2 DEF Modes
  <1>4. BootOf(g) = BootOf(f)
    BY <1>2 DEF BootOf
  <1>5. f.clean => LoadedInv(g, s)
    BY <1>1, <1>2 DEF LoadedInv
  <1>6. f.clean => Booted(BootOf(g), g.loaded)
    BY <1>2, <1>4
  <1>7. SameImages(s, s)
    BY DEF SameImages
  <1> QED BY <1>1, <1>2, <1>3, <1>5, <1>6, <1>7, DoneOK

\* A boot whose console is compared with Spike's.
Answered(f, g, match) ==
  g = [[f EXCEPT !.console = <<>>, !.match = match] EXCEPT !.pc = "next", !.todo = Tail(f.todo)]
LEMMA AnsweredNext ==
  ASSUME NEW f, Shape(f), NEW match, NEW g, Answered(f, g, match), f.clean \in BOOLEAN
  PROVE  /\ Carries(f, g) /\ g.pc = "next" /\ g.todo = Tail(f.todo) /\ g.m = f.m /\ g.match = match
         /\ g.clean = f.clean /\ g.loaded = f.loaded /\ g.want = f.want /\ g.n = f.n /\ g.req = f.req
  BY DEF Shape, Record, Carries, Answered

LEMMA CompareConsoleOK ==
  ASSUME NEW f, NEW s, NEW e, NEW fresh, ProcInv(f, s, e, fresh), f.pc = "console", f.writes = <<>>,
         FileInv(s), NEW spike, Printed(s["spike"], spike),
         NEW match, match = "yes" => ConsoleMatch(spike, f.console),
         NEW g, Answered(f, g, match)
  PROVE  ProcInv(g, s, e, fresh)
  <1>0. f.pc \in AfterTb
    BY DEF AfterTb
  <1>1. /\ Shape(f) /\ Modes(f) /\ f.clean \in BOOLEAN /\ f.pc \in AfterLoad /\ f.todo # <<>>
        /\ f.clean => LoadedInv(f, s) /\ ModelInv(f, s, e) /\ f.want \in Versions["rtl"]
    BY <1>0, PastTb
  <1>a. Shape(f) /\ f.clean \in BOOLEAN
    BY <1>1
  <1>2. /\ Carries(f, g) /\ g.pc = "next" /\ g.todo = Tail(f.todo) /\ g.m = f.m /\ g.match = match
        /\ g.clean = f.clean /\ g.loaded = f.loaded /\ g.want = f.want /\ g.req = f.req
    BY <1>a, AnsweredNext
  <1>3. f.clean => Booted(BootOf(f), f.loaded) /\ f.console = BootOf(f).console
    BY <1>1 DEF ModelInv
  <1>4. BootOf(g) = BootOf(f)
    BY <1>2 DEF BootOf
  <1>5. f.clean => LoadedInv(g, s)
    BY <1>1, <1>2 DEF LoadedInv
  <1>6. f.clean => Booted(BootOf(g), g.loaded)
    BY <1>2, <1>3, <1>4
  <1>7. SameImages(s, s)
    BY DEF SameImages
  <1>8. ASSUME f.clean, g.match = "yes" PROVE IsPrefix(BootOf(g).console, SpikeConsole)
    <2>1. PICK c : c = BootOf(f).console
      OBVIOUS
    <2>2. c \in Seq(ToSet(c))
      <3>1. (IF f.req.dram THEN "dram" ELSE "beat") \in Profiles
        BY DEF Profiles
      <3> QED BY <1>1, <1>8, <2>1, <3>1, ConsoleAssumption DEF BootOf
    <2>3. ConsoleMatch(spike, c)
      BY <1>2, <1>3, <1>8, <2>1
    <2>4. SpikeFile(s["spike"])
      BY DEF FileInv
    <2>5. IsPrefix(c, SpikeConsole)
      BY <2>2, <2>3, <2>4, MatchIsPrefix
    <2> QED BY <1>4, <2>1, <2>5
  <1>9. f.clean /\ Head(f.todo) = "difftest" => (FwIntact(g.loaded) => Compared(g, s))
    <2>1. Head(f.todo) = "rtl"
      BY <1>1 DEF Modes
    <2> QED BY <2>1
  <1> QED BY <1>1, <1>2, <1>5, <1>6, <1>7, <1>8, <1>9, DoneOK

\* Spike has run the firmware.
LEMMA GoldenOK ==
  ASSUME NEW f, NEW s, NEW e, NEW fresh, ProcInv(f, s, e, fresh), f.pc = "golden", f.writes = <<>>,
         FileInv(s), ~Lacks(s["elf"]), NEW s2, SameImages(s, s2), s2["trace"] = s["trace"],
         s2["golden"] = <<"golden", Budget(FwGolden[s["elf"][2]], f.n + Slack)>>,
         NEW g, g = [f EXCEPT !.pc = "difftest"]
  PROVE  ProcInv(g, s2, e, fresh)
  <1>0. f.pc \in AfterTb
    BY DEF AfterTb
  <1>1. /\ Shape(f) /\ Modes(f) /\ f.clean \in BOOLEAN
        /\ f.clean => ModelInv(f, s, e) /\ f.loaded.ver = f.want /\ f.want \in Versions["rtl"]
    BY <1>0, PastTb
  <1>a. Shape(f)
    BY <1>1
  <1>2. Continues(f, g) /\ g.pc = "difftest" /\ g.writes = f.writes /\ g.m = f.m
    BY <1>a DEF Shape, Record, Continues
  <1>3. /\ Carries(f, g) /\ g.pc \in AfterTb /\ g.clean = f.clean /\ g.loaded = f.loaded
        /\ g.want = f.want /\ g.todo = f.todo /\ g.n = f.n
    BY <1>1, <1>2 DEF Carries, Continues, AfterTb
  <1>4. Modes(g)
    BY <1>1, <1>2 DEF Modes, AfterMem, AfterTb, Continues
  <1>b. Head(f.todo) = "difftest"
    BY <1>1 DEF Modes
  <1>5. f.clean => Traced(f, s)
    BY <1>1, <1>b DEF ModelInv
  <1>6. f.clean => Traced(g, s2)
    BY <1>3, <1>5 DEF Traced
  <1>7. s2["elf"] = s["elf"]
    BY DEF SameImages, Files, Reports
  <1>8. FwFile(s2["elf"])
    BY <1>7 DEF FileInv
  <1>9. f.clean => ModelInv(g, s2, e)
    BY <1>1, <1>2, <1>3, <1>6, <1>7, <1>8 DEF ModelInv
  <1> QED BY <1>0, <1>2, <1>3, <1>4, <1>9, TbMoves

\* The comparison is content.
LEMMA DifftestDoneOK ==
  ASSUME NEW f, NEW s, NEW e, NEW fresh, ProcInv(f, s, e, fresh), f.pc = "difftest", f.writes = <<>>,
         FirmwareMatches(s["golden"][2], s["trace"][2], f.n), NEW g, NextOf(f, g)
  PROVE  ProcInv(g, s, e, fresh)
  <1>0. f.pc \in AfterTb
    BY DEF AfterTb
  <1>1. /\ Shape(f) /\ Modes(f) /\ f.clean \in BOOLEAN /\ f.pc \in AfterLoad /\ f.todo # <<>>
        /\ f.loaded.mem = Torn \/ MemFile(f.loaded.mem)
        /\ f.clean => ModelInv(f, s, e)
    BY <1>0, PastTb
  <1>a. Shape(f) /\ f.clean \in BOOLEAN
    BY <1>1
  <1>2. /\ Carries(f, g) /\ g.pc = "next" /\ g.todo = Tail(f.todo) /\ g.m = f.m /\ g.match = f.match
        /\ g.clean = f.clean /\ g.loaded = f.loaded /\ g.want = f.want /\ g.n = f.n
    BY <1>a, GoesNext
  <1>3. Head(f.todo) = "difftest"
    BY <1>1 DEF Modes
  <1>4. ASSUME f.clean, FwIntact(f.loaded) PROVE Compared(g, s)
    <2>1. /\ Traced(f, s) /\ FwFile(s["elf"])
          /\ s["golden"] = <<"golden", Budget(FwGolden[s["elf"][2]], f.n + Slack)>>
      BY <1>1, <1>3, <1>4 DEF ModelInv
    <2>2. Compared(f, s)
      BY <1>1, <1>4, <2>1, ComparedOK
    <2> QED BY <1>2, <2>2 DEF Compared, SameCommits, DutOf
  <1>5. SameImages(s, s)
    BY DEF SameImages
  <1>6. f.clean /\ Head(f.todo) = "difftest" => (FwIntact(g.loaded) => Compared(g, s))
    BY <1>2, <1>4
  <1>7. Head(f.todo) # "rtl"
    BY <1>3
  <1> QED BY <1>1, <1>2, <1>5, <1>6, <1>7, DoneOK

\* It is not, or has failed by itself: then nothing is known.
LEMMA MismatchOK ==
  ASSUME NEW f, NEW s, NEW e, NEW fresh, ProcInv(f, s, e, fresh), f.pc = "difftest", f.writes = <<>>,
         NEW why, why = "mismatch" =>
           s["trace"] = Torn \/ ~FirmwareMatches(s["golden"][2], s["trace"][2], f.n),
         NEW g, g = [f EXCEPT !.pc = "done", !.exit = 2, !.verdict = why]
  PROVE  ProcInv(g, s, e, fresh)
  <1>0. f.pc \in AfterTb
    BY DEF AfterTb
  <1>1. /\ Shape(f) /\ Modes(f) /\ f.clean \in BOOLEAN
        /\ f.loaded.mem = Torn \/ MemFile(f.loaded.mem)
        /\ f.clean => ModelInv(f, s, e)
    BY <1>0, PastTb
  <1>2. /\ g = Record(g) /\ g.pc = "done" /\ g.exit = 2 /\ g.verdict = why /\ g.req = f.req
        /\ g.writes = <<>> /\ g.loaded = f.loaded /\ g.want = f.want /\ g.n = f.n
        /\ g.clean = f.clean
    BY <1>1 DEF Shape, Record
  <1>3. Head(f.todo) = "difftest" /\ 2 # Absent
    BY <1>1 DEF Modes, Absent
  <1>4. Shape(g)
    BY <1>1, <1>2, <1>3 DEF Shape, BuilderPcs, RunnerPcs
  <1>5. Pending(g) /\ Plan(g) /\ Present(g, s)
    BY <1>2 DEF Pending, Plan, Present, BuilderPcs, AfterFw, AfterFwRead, AfterKernel,
      AfterInitrd, AfterDtb, AfterRom, AfterLoad, AfterMem, AfterTb
  <1>6. BuildInv(g, s, fresh) /\ CheckInv(g, s)
    BY <1>2 DEF BuildInv, CheckInv, Past, AfterFw, AfterFwRead, AfterKernel, AfterInitrd,
      AfterDtb, AfterRom
  <1>7. ImageInv(g, s, fresh) /\ ModelInv(g, s, e)
    BY <1>2 DEF ImageInv, ModelInv, AfterLoad, AfterMem, AfterTb
  <1>8. ASSUME f.clean, FwIntact(f.loaded), why = "mismatch" PROVE Differs(g, s)
    <2>1. /\ Traced(f, s) /\ FwFile(s["elf"])
          /\ s["golden"] = <<"golden", Budget(FwGolden[s["elf"][2]], f.n + Slack)>>
      BY <1>1, <1>3, <1>8 DEF ModelInv
    <2>2. Differs(f, s)
      BY <1>1, <1>8, <2>1, ComparedOK
    <2> QED BY <1>2, <2>2 DEF Differs, SameCommits, DutOf
  <1>9. g.clean => ReportInv(g, s)
    BY <1>2, <1>8 DEF ReportInv, PassedMode
  <1> QED BY <1>4, <1>5, <1>6, <1>7, <1>9 DEF ProcInv, CleanInv

\* All modes are done.
LEMMA EndsOK ==
  ASSUME NEW f, NEW s, NEW e, NEW fresh, ProcInv(f, s, e, fresh), f.pc = "next", f.writes = <<>>,
         f.todo = <<>>, NEW g, g = [f EXCEPT !.pc = "done", !.exit = 0]
  PROVE  ProcInv(g, s, e, fresh)
  <1>0. f.pc \in AfterLoad
    BY DEF AfterLoad
  <1>1. /\ Shape(f) /\ f.clean \in BOOLEAN /\ f.req.prog = "run" /\ f.verdict # "mismatch"
        /\ f.req.modes \in Seq({"spike", "rtl", "difftest"})
        /\ f.clean => ReportInv(f, s)
    BY <1>0, RunnerKnows
  <1>2. /\ g = Record(g) /\ g.pc = "done" /\ g.exit = 0 /\ g.verdict = f.verdict /\ g.req = f.req
        /\ g.writes = <<>> /\ g.loaded = f.loaded /\ g.want = f.want /\ g.n = f.n
        /\ g.todo = f.todo /\ g.match = f.match /\ g.clean = f.clean
    BY <1>1 DEF Shape, Record
  <1>3. 0 # Absent
    BY DEF Absent
  <1>4. Shape(g)
    BY <1>1, <1>2, <1>3 DEF Shape, BuilderPcs, RunnerPcs
  <1>5. Pending(g) /\ Plan(g) /\ Present(g, s)
    BY <1>1, <1>2 DEF Pending, Plan, Present, BuilderPcs, AfterFw, AfterFwRead, AfterKernel,
      AfterInitrd, AfterDtb, AfterRom, AfterLoad, AfterMem, AfterTb
  <1>6. BuildInv(g, s, fresh) /\ CheckInv(g, s)
    BY <1>1, <1>2 DEF BuildInv, CheckInv, Past, AfterFw, AfterFwRead, AfterKernel, AfterInitrd,
      AfterDtb, AfterRom
  <1>7. ImageInv(g, s, fresh) /\ ModelInv(g, s, e)
    BY <1>2 DEF ImageInv, ModelInv, AfterLoad, AfterMem, AfterTb
  <1>8. \A mode : PassedMode(g, mode) => PassedMode(f, mode)
    BY <1>2 DEF PassedMode
  <1>9. BootOf(g) = BootOf(f) /\ (LoadedInv(f, s) => LoadedInv(g, s))
    BY <1>2 DEF BootOf, LoadedInv
  <1>10. Compared(f, s) => Compared(g, s)
    BY <1>2 DEF Compared, SameCommits, DutOf
  <1>11. g.clean => ReportInv(g, s)
    BY <1>1, <1>2, <1>8, <1>9, <1>10 DEF ReportInv
  <1> QED BY <1>4, <1>5, <1>6, <1>7, <1>11 DEF ProcInv, CleanInv
-----------------------------------------------------------------------------
(* A file is closed                                                         *)

Legal(x, c) ==
  /\ x \in Archives => ApkFile(x, c)
  /\ x \in {"fw", "elf"} => FwFile(c)
  /\ x = "kernel" => KernelFile(c)
  /\ x = "initrd" => InitrdFile(c)
  /\ x = "dtb" => DtbFile(c)
  /\ x = "rom" => RomFile(c)
  /\ x = "manifest" => ManifestFile(c)
  /\ x = "mem" => MemFile(c)

Closes(s, fresh, x, c, s2, fresh2) ==
  /\ x \in Files \ Reports /\ Legal(x, c) /\ (x = "manifest" => \A f \in Inputs : s[f] # Missing)
  /\ s2 = [s EXCEPT ![x] = c] /\ fresh2 = Aged({x}, fresh)

LEMMA LegalIsThere ==
  ASSUME NEW x \in Files \ Reports, NEW c, Legal(x, c)
  PROVE  c # Missing
  <1>1. c[1] # "missing"
    BY DEF Legal, Files, Reports, Archives, ApkFile, FwFile, KernelFile, InitrdFile, DtbFile, RomFile,
      ManifestFile, MemFile
  <1> QED BY <1>1 DEF Missing

LEMMA ClosedOnly ==
  ASSUME NEW s, NEW fresh \in BOOLEAN, FileInv(s), NEW x, NEW c, NEW s2, NEW fresh2,
         Closes(s, fresh, x, c, s2, fresh2)
  PROVE  /\ s2 = [f \in Files |-> s2[f]] /\ s2[x] = c /\ \A y \in Files : y # x => s2[y] = s[y]
         /\ c # Missing /\ x \in Files \ Reports
         /\ x \in Inputs => ~fresh2
         /\ x \notin Inputs \cup {"mem"} => fresh2 = fresh
         /\ x = "mem" => fresh2
         /\ fresh2 \in BOOLEAN
  <1>1. /\ x \in Files \ Reports /\ Legal(x, c) /\ s2 = [s EXCEPT ![x] = c]
        /\ fresh2 = Aged({x}, fresh)
    BY DEF Closes
  <1>2. s2 = [f \in Files |-> s2[f]] /\ s2[x] = c /\ \A y \in Files : y # x => s2[y] = s[y]
    BY <1>1 DEF FileInv
  <1>3. c # Missing
    BY <1>1, LegalIsThere
  <1>4. x \in Inputs => ~fresh2
    BY <1>1 DEF Aged, Inputs
  <1>5. x \notin Inputs \cup {"mem"} => fresh2 = fresh
    BY <1>1 DEF Aged
  <1>6. x = "mem" => fresh2
    BY <1>1 DEF Aged
  <1>7. fresh2 \in BOOLEAN
    BY <1>1 DEF Aged
  <1> QED BY <1>1, <1>2, <1>3, <1>4, <1>5, <1>6, <1>7

\* A file that is whole again; a manifest of an undisturbed builder is written
\* while s4.mem.hex is stale, and s4.mem.hex of an undisturbed run fits.
LEMMA ClosedFiles ==
  ASSUME NEW s, NEW fresh \in BOOLEAN, FileInv(s), MemInv(s, fresh), NEW x, NEW c, NEW s2, NEW fresh2,
         Closes(s, fresh, x, c, s2, fresh2),
         x = "manifest" /\ ~c[2].mixed => ~fresh,
         x = "mem" /\ ~c[2].mixed =>
           /\ \A f \in Inputs : c[2][f] = s[f]
           /\ s["manifest"][1] = "manifest" /\ ~s["manifest"][2].mixed =>
                c[2].at = s["manifest"][2].start
  PROVE  FileInv(s2) /\ MemInv(s2, fresh2) /\ Kept(s, s2) /\ fresh2 \in BOOLEAN
  <1>1. /\ s2 = [f \in Files |-> s2[f]] /\ s2[x] = c /\ (\A y \in Files : y # x => s2[y] = s[y])
        /\ c # Missing /\ x \in Files \ Reports
        /\ x \in Inputs => ~fresh2
        /\ x \notin Inputs \cup {"mem"} => fresh2 = fresh
        /\ fresh2 \in BOOLEAN
    BY ClosedOnly
  <1>2. Legal(x, c) /\ (x = "manifest" => \A f \in Inputs : s[f] # Missing)
    BY DEF Closes
  <1>3. Kept(s, s2)
    BY <1>1 DEF Kept
  <1>4. FileInv(s2)
    <2>1. s2["spike"] = s["spike"]
      BY <1>1 DEF Files, Reports
    <2>2. s2["manifest"] # Missing => \A f \in Inputs : s2[f] # Missing
      BY <1>1, <1>2 DEF FileInv, Files, Inputs
    <2>3. /\ \A k \in {"kernel.apk", "busybox.apk"} : Lacks(s2[k]) \/ ApkFile(k, s2[k])
          /\ Lacks(s2["fw"]) \/ FwFile(s2["fw"])
          /\ Lacks(s2["elf"]) \/ FwFile(s2["elf"])
      BY <1>1, <1>2 DEF FileInv, Legal, Files, Archives
    <2>4. /\ Lacks(s2["kernel"]) \/ KernelFile(s2["kernel"])
          /\ Lacks(s2["initrd"]) \/ InitrdFile(s2["initrd"])
          /\ Lacks(s2["dtb"]) \/ DtbFile(s2["dtb"])
      BY <1>1, <1>2 DEF FileInv, Legal, Files
    <2>5. /\ Lacks(s2["rom"]) \/ RomFile(s2["rom"])
          /\ Lacks(s2["manifest"]) \/ ManifestFile(s2["manifest"])
          /\ Lacks(s2["mem"]) \/ MemFile(s2["mem"])
      BY <1>1, <1>2 DEF FileInv, Legal, Files
    <2>6. SpikeFile(s2["spike"])
      BY <2>1 DEF FileInv
    <2> QED BY <1>1, <2>2, <2>3, <2>4, <2>5, <2>6 DEF FileInv
  <1>5. MemInv(s2, fresh2)
    <2>1. CASE x = "mem"
      <3>1. s2["manifest"] = s["manifest"] /\ \A f \in Inputs : s2[f] = s[f]
        BY <1>1, <2>1 DEF Files, Inputs
      <3> QED BY <1>1, <2>1, <3>1 DEF MemInv
    <2>2. CASE x \in Inputs
      BY <1>1, <2>2 DEF MemInv
    <2>3. CASE x \notin Inputs \cup {"mem"}
      <3>1. fresh2 = fresh
        BY <1>1, <2>3
      <3>2. s2["mem"] = s["mem"] /\ \A f \in Inputs : s2[f] = s[f]
        BY <1>1, <2>3 DEF Files, Inputs
      <3>3. CASE x = "manifest"
        BY <1>1, <3>1, <3>2, <3>3 DEF MemInv
      <3>4. CASE x # "manifest"
        <4>1. s2["manifest"] = s["manifest"]
          BY <1>1, <3>4 DEF Files
        <4> QED BY <3>1, <3>2, <4>1 DEF MemInv
      <3> QED BY <3>3, <3>4
    <2> QED BY <2>1, <2>2, <2>3
  <1> QED BY <1>1, <1>3, <1>4, <1>5

\* A builder has one file less to write.
Emptied(f, g, ws) == g = [f EXCEPT !.writes = ws]
LEMMA EmptiedOn ==
  ASSUME NEW f, Shape(f), NEW ws, NEW g, Emptied(f, g, ws)
  PROVE  Continues(f, g) /\ g.pc = f.pc /\ g.writes = ws /\ g.m = f.m /\ g.console = f.console
  BY DEF Shape, Record, Continues, Emptied

\* What was about to be written is written.
LEMMA WrittenOK ==
  ASSUME NEW f, NEW s, NEW e, NEW fresh \in BOOLEAN, ProcInv(f, s, e, fresh), FileInv(s),
         f.pc \in BuilderPcs, NEW x, NEW c0, f.writes = <<<<x, c0>>>>, NEW c, x # "mem",
         NEW s2, NEW fresh2, Closes(s, fresh, x, c, s2, fresh2), f.clean => c = c0,
         NEW g, Emptied(f, g, <<>>)
  PROVE  ProcInv(g, s2, e, fresh2)
  <1>1. Shape(f) /\ Pending(f) /\ Plan(f) /\ Present(f, s) /\ (f.clean => BuildInv(f, s, fresh))
    BY DEF ProcInv, CleanInv
  <1>a. Shape(f)
    BY <1>1
  <1>2. Continues(f, g) /\ g.pc = f.pc /\ g.writes = <<>> /\ g.m = f.m
    BY <1>a, EmptiedOn
  <1>3. /\ s2[x] = c /\ (\A y \in Files : y # x => s2[y] = s[y]) /\ c # Missing
        /\ x \in Files \ Reports
        /\ x \in Inputs => ~fresh2
        /\ x \notin Inputs \cup {"mem"} => fresh2 = fresh
    BY ClosedOnly
  <1>4. Pending(g)
    BY <1>2 DEF Pending
  <1>b. f.pc \notin AfterLoad /\ f.pc \notin AfterTb /\ f.pc \notin {"done", "images", "load"}
    BY DEF BuilderPcs, AfterLoad, AfterMem, AfterTb
  <1>5. Plan(g)
    BY <1>1, <1>2, <1>b DEF Plan, Continues
  <1>6. \A y \in Files : s[y] # Missing => s2[y] # Missing
    BY <1>3
  <1>7. Present(g, s2)
    BY <1>1, <1>2, <1>6 DEF Present, Files, Inputs
  <1>8. ASSUME g.clean PROVE BuildInv(g, s2, fresh2)
    <2>1. BuildInv(f, s, fresh) /\ f.pins = g.pins /\ c = c0 /\ g.req = f.req /\ g.exit = f.exit
      BY <1>1, <1>2, <1>8 DEF Continues
    <2>a. ToSet(f.writes) = {<<x, c0>>}
      BY ToSetOf
    <2>2. ASSUME NEW y \in Files, NEW d, Holds(f, s, y, d), y # x \/ d = c0 PROVE Holds(g, s2, y, d)
      <3>1. CASE y = x
        BY <1>3, <2>1, <2>2, <3>1 DEF Holds
      <3>2. CASE y # x
        <4>1. s[y] = d
          BY <2>2, <2>a, <3>2 DEF Holds
        <4> QED BY <1>3, <3>2, <4>1 DEF Holds
      <3> QED BY <3>1, <3>2
    <2>3. ~fresh => ~fresh2
      BY <1>3
    <2>4. Holds(g, s2, x, c0)
      BY <1>3, <2>1 DEF Holds
    <2>5. {"kernel.apk", "busybox.apk", "fw", "elf", "kernel", "initrd", "dtb", "rom",
           "manifest"} \subseteq Files
      BY DEF Files
    <2>b. <<<<x, c0>>>> # <<>> /\ \A y, d : <<<<x, c0>>>> = <<<<y, d>>>> => x = y /\ c0 = d
      OBVIOUS
    <2>c. \A y1, d1, y2, d2 : <<<<x, c0>>>> # <<<<y1, d1>>, <<y2, d2>>>>
      OBVIOUS
    <2>6. CASE f.pc = "fwread"
      <3>1. x = "elf" /\ c0 = <<"fw", f.pins["opensbi"]>>
        BY <1>1, <2>6, <2>b, <2>c DEF Pending
      <3> QED BY <1>2, <2>1, <2>2, <2>3, <2>5, <2>6, <3>1 DEF BuildInv, Past, AfterFw, AfterFwRead,
            AfterKernel, AfterInitrd, AfterDtb, AfterRom
    <2>7. CASE f.pc = "kernel"
      <3>1. x = "kernel.apk" /\ c0 = <<"apk", "kernel.apk", f.pins["kernel.apk"]>>
        BY <1>1, <2>7, <2>b DEF Pending
      <3> QED BY <1>2, <2>1, <2>2, <2>3, <2>4, <2>5, <2>7, <3>1 DEF BuildInv, Past, AfterFw,
            AfterFwRead, AfterKernel, AfterInitrd, AfterDtb, AfterRom
    <2>8. CASE f.pc = "busybox.apk"
      <3>1. x = "kernel" /\ c0 = f.m.kernel
        BY <1>1, <2>8, <2>b DEF Pending
      <3> QED BY <1>2, <2>1, <2>2, <2>3, <2>4, <2>5, <2>8, <3>1 DEF BuildInv, Past, AfterFw,
            AfterFwRead, AfterKernel, AfterInitrd, AfterDtb, AfterRom
    <2>9. CASE f.pc = "busybox"
      <3>1. x = "busybox.apk" /\ c0 = <<"apk", "busybox.apk", f.pins["busybox.apk"]>>
        BY <1>1, <2>9, <2>b DEF Pending
      <3> QED BY <1>2, <2>1, <2>2, <2>3, <2>4, <2>5, <2>9, <3>1 DEF BuildInv, Past, AfterFw,
            AfterFwRead, AfterKernel, AfterInitrd, AfterDtb, AfterRom
    <2>10. CASE f.pc = "dtb"
      <3>1. x = "initrd" /\ c0 = f.m.initrd
        BY <1>1, <2>10, <2>b DEF Pending
      <3> QED BY <1>2, <2>1, <2>2, <2>3, <2>4, <2>5, <2>10, <3>1 DEF BuildInv, Past, AfterFw,
            AfterFwRead, AfterKernel, AfterInitrd, AfterDtb, AfterRom
    <2>11. CASE f.pc = "rom"
      <3>1. x = "dtb" /\ \E d \in Versions["dts"] : c0 = <<"dtb", d, f.m.start>>
        BY <1>1, <2>11, <2>b DEF Pending
      <3>2. \E d \in Versions["dts"] : Holds(g, s2, "dtb", <<"dtb", d, f.m.start>>)
        BY <2>4, <3>1
      <3> QED BY <1>2, <2>1, <2>2, <2>3, <2>4, <2>5, <2>11, <3>1, <3>2 DEF BuildInv, Past, AfterFw,
            AfterFwRead, AfterKernel, AfterInitrd, AfterDtb, AfterRom
    <2>12. CASE f.pc = "manifest"
      <3>1. x = "rom" /\ c0 = <<"rom", f.m.dtb>>
        BY <1>1, <2>12, <2>b DEF Pending
      <3> QED BY <1>2, <2>1, <2>2, <2>3, <2>4, <2>5, <2>12, <3>1 DEF BuildInv, Past, AfterFw,
            AfterFwRead, AfterKernel, AfterInitrd, AfterDtb, AfterRom
    <2>13. CASE f.pc = "built"
      <3>1. x = "manifest" /\ c0 = <<"manifest", f.m>>
        BY <1>1, <2>13, <2>b DEF Pending
      <3> QED BY <1>2, <2>1, <2>2, <2>3, <2>4, <2>5, <2>13, <3>1 DEF BuildInv, Past, AfterFw,
            AfterFwRead, AfterKernel, AfterInitrd, AfterDtb, AfterRom
    <2>14. f.pc \in {"fwread", "kernel", "busybox.apk", "busybox", "dtb", "rom", "manifest", "built"}
      BY <1>1, <2>b DEF Pending, BuilderPcs
    <2> QED BY <2>6, <2>7, <2>8, <2>9, <2>10, <2>11, <2>12, <2>13, <2>14
  <1> QED BY <1>2, <1>4, <1>5, <1>7, <1>8, BuilderMoves

\* What a builder writes is what its file may hold.
Closing(f, x, c0) ==
  IF x \notin {"mem", "manifest"} THEN c0 ELSE <<x, [c0[2] EXCEPT !.mixed = ~f.clean]>>

LEMMA ManifestLegal ==
  ASSUME NEW f, NEW s, NEW e, NEW fresh \in BOOLEAN, ProcInv(f, s, e, fresh), f.pc = "built",
         NEW c, c = <<"manifest", [f.m EXCEPT !.mixed = ~f.clean]>>
  PROVE  /\ ManifestFile(c) /\ (f.clean => c = <<"manifest", f.m>>) /\ (~c[2].mixed => ~fresh)
         /\ \A y \in Inputs : s[y] # Missing
  <1>1. Shape(f) /\ Plan(f) /\ Present(f, s) /\ (f.clean => BuildInv(f, s, fresh))
    BY DEF ProcInv, CleanInv
  <1>a. f.clean \in BOOLEAN
    BY <1>1 DEF Shape
  <1>2. /\ f.m = Man(f.m) /\ f.m.mixed = FALSE /\ (f.m.fw = Torn \/ FwFile(f.m.fw))
        /\ KernelFile(f.m.kernel) /\ InitrdFile(f.m.initrd) /\ f.m.start \in Int
        /\ f.m.start >= KernelAddr /\ (f.m.dtb = Torn \/ DtbFile(f.m.dtb))
    BY <1>1 DEF Plan, BuilderPcs, AfterFwRead, AfterKernel, AfterInitrd, AfterDtb, AfterRom
  <1>3. PICK m : m = [f.m EXCEPT !.mixed = ~f.clean]
    OBVIOUS
  <1>4. /\ m = Man(m) /\ m.fw = f.m.fw /\ m.kernel = f.m.kernel /\ m.initrd = f.m.initrd
        /\ m.dtb = f.m.dtb /\ m.start = f.m.start /\ m.mixed = (~f.clean)
    BY <1>2, <1>3 DEF Man
  <1>5. m.mixed \in BOOLEAN /\ (~m.mixed <=> f.clean)
    BY <1>4, <1>a, Zenon
  <1>6. Described(m)
    BY <1>2, <1>4, <1>5 DEF Described
  <1>7. ASSUME f.clean PROVE Sound(m) /\ ~fresh
    <2>1. BuildInv(f, s, fresh)
      BY <1>1, <1>7
    <2>2. /\ ~fresh /\ f.m.fw = <<"fw", f.pins["opensbi"]>> /\ Fits(f.m.start, f.m.initrd)
          /\ DtbFile(f.m.dtb) /\ TreeStart(f.m.dtb) = f.m.start
      BY <2>1 DEF BuildInv, Past, AfterFw, AfterFwRead, AfterKernel, AfterInitrd, AfterDtb, AfterRom
    <2>3. f.m.fw # Torn
      BY <2>2 DEF Torn
    <2> QED BY <1>2, <1>4, <2>2, <2>3 DEF Sound
  <1>b. ASSUME f.clean PROVE m = f.m
    <2>1. m.mixed = f.m.mixed
      BY <1>2, <1>5, <1>b
    <2> QED BY <1>2, <1>4, <2>1 DEF Man
  <1>8. c[1] = "manifest" /\ c[2] = m /\ c = <<"manifest", m>>
    BY <1>3
  <1>9. ManifestFile(c)
    BY <1>5, <1>6, <1>7, <1>8 DEF ManifestFile
  <1>10. f.pc \in AfterFw \cap AfterKernel \cap AfterInitrd \cap AfterDtb
    BY DEF AfterFw, AfterFwRead, AfterKernel, AfterInitrd, AfterDtb, AfterRom
  <1>11. \A y \in Inputs : s[y] # Missing
    BY <1>1, <1>10 DEF Present, Inputs
  <1> QED BY <1>5, <1>7, <1>8, <1>9, <1>11, <1>b

LEMMA PendingLegal ==
  ASSUME NEW f, NEW s, NEW e, NEW fresh \in BOOLEAN, ProcInv(f, s, e, fresh), f.pc \in BuilderPcs,
         NEW x, NEW c0, f.writes = <<<<x, c0>>>>, NEW c, c = Closing(f, x, c0)
  PROVE  /\ x \in Files \ Reports /\ x # "mem" /\ Legal(x, c) /\ (f.clean => c = c0)
         /\ x = "manifest" => (~c[2].mixed => ~fresh) /\ \A y \in Inputs : s[y] # Missing
  <1>1. Shape(f) /\ Pending(f) /\ Plan(f)
    BY DEF ProcInv
  <1>b. <<<<x, c0>>>> # <<>> /\ \A y, d : <<<<x, c0>>>> = <<<<y, d>>>> => x = y /\ c0 = d
    OBVIOUS
  <1>c. \A y1, d1, y2, d2 : <<<<x, c0>>>> # <<<<y1, d1>>, <<y2, d2>>>>
    OBVIOUS
  <1>d. {"opensbi", "kernel.apk", "busybox.apk", "dts"} \subseteq DOMAIN Versions
    BY VersionAssumption
  <1>e. \A k \in DOMAIN Versions : f.pins[k] \in Versions[k]
    BY <1>1 DEF Plan
  <1>f. x \notin {"mem", "manifest"} => c = c0
    BY DEF Closing
  <1>6. CASE f.pc = "fwread"
    <2>1. x = "elf" /\ c0 = <<"fw", f.pins["opensbi"]>>
      BY <1>1, <1>6, <1>b, <1>c DEF Pending
    <2> QED BY <1>d, <1>e, <1>f, <2>1 DEF Legal, Archives, FwFile, Files, Reports
  <1>7. CASE f.pc = "kernel"
    <2>1. x = "kernel.apk" /\ c0 = <<"apk", "kernel.apk", f.pins["kernel.apk"]>>
      BY <1>1, <1>7, <1>b DEF Pending
    <2> QED BY <1>d, <1>e, <1>f, <2>1 DEF Legal, Archives, ApkFile, Files, Reports
  <1>8. CASE f.pc = "busybox.apk"
    <2>1. x = "kernel" /\ c0 = f.m.kernel
      BY <1>1, <1>8, <1>b DEF Pending
    <2>2. KernelFile(f.m.kernel)
      BY <1>1, <1>8 DEF Plan, AfterKernel
    <2> QED BY <1>f, <2>1, <2>2 DEF Legal, Archives, Files, Reports
  <1>9. CASE f.pc = "busybox"
    <2>1. x = "busybox.apk" /\ c0 = <<"apk", "busybox.apk", f.pins["busybox.apk"]>>
      BY <1>1, <1>9, <1>b DEF Pending
    <2> QED BY <1>d, <1>e, <1>f, <2>1 DEF Legal, Archives, ApkFile, Files, Reports
  <1>10. CASE f.pc = "dtb"
    <2>1. x = "initrd" /\ c0 = f.m.initrd
      BY <1>1, <1>10, <1>b DEF Pending
    <2>2. InitrdFile(f.m.initrd)
      BY <1>1, <1>10 DEF Plan, AfterInitrd
    <2> QED BY <1>f, <2>1, <2>2 DEF Legal, Archives, Files, Reports
  <1>11. CASE f.pc = "rom"
    <2>1. PICK d \in Versions["dts"] : x = "dtb" /\ c0 = <<"dtb", d, f.m.start>>
      BY <1>1, <1>11, <1>b DEF Pending
    <2>2. f.m.start \in Int
      BY <1>1, <1>11 DEF Plan, AfterDtb
    <2>3. DtbFile(c0)
      BY <2>1, <2>2 DEF DtbFile
    <2> QED BY <1>f, <2>1, <2>3 DEF Legal, Archives, Files, Reports
  <1>12. CASE f.pc = "manifest"
    <2>1. x = "rom" /\ c0 = <<"rom", f.m.dtb>>
      BY <1>1, <1>12, <1>b DEF Pending
    <2>2. f.m.dtb = Torn \/ DtbFile(f.m.dtb)
      BY <1>1, <1>12 DEF Plan, AfterRom
    <2>3. RomFile(c0)
      BY <2>1, <2>2 DEF RomFile
    <2> QED BY <1>f, <2>1, <2>3 DEF Legal, Archives, Files, Reports
  <1>13. CASE f.pc = "built"
    <2>1. x = "manifest" /\ c0 = <<"manifest", f.m>>
      BY <1>1, <1>13, <1>b DEF Pending
    <2>2. c = <<"manifest", [f.m EXCEPT !.mixed = ~f.clean]>>
      BY <2>1 DEF Closing
    <2>3. /\ ManifestFile(c) /\ (f.clean => c = <<"manifest", f.m>>) /\ (~c[2].mixed => ~fresh)
          /\ \A y \in Inputs : s[y] # Missing
      BY <1>13, <2>2, ManifestLegal
    <2> QED BY <2>1, <2>3 DEF Legal, Archives, Files, Reports
  <1>14. f.pc \in {"fwread", "kernel", "busybox.apk", "busybox", "dtb", "rom", "manifest", "built"}
    BY <1>1, <1>b DEF Pending, BuilderPcs
  <1> QED BY <1>6, <1>7, <1>8, <1>9, <1>10, <1>11, <1>12, <1>13, <1>14

\* fw_jump.bin is there and fw_jump.elf is opened.
LEMMA FwClosedOK ==
  ASSUME NEW f, NEW s, NEW e, NEW fresh \in BOOLEAN, ProcInv(f, s, e, fresh), FileInv(s),
         f.pc = "fwread", NEW fw, f.writes = <<<<"fw", fw>>, <<"elf", fw>>>>,
         NEW s1, NEW fresh1 \in BOOLEAN, Closes(s, fresh, "fw", fw, s1, fresh1), FileInv(s1),
         MemInv(s1, fresh1), NEW s2, NEW fresh2, Tears(s1, fresh1, "elf", s2, fresh2),
         NEW ws, ws = <<<<"elf", fw>>>>, NEW g, Emptied(f, g, ws)
  PROVE  ProcInv(g, s2, e, fresh2)
  <1>1. Shape(f) /\ Pending(f) /\ Plan(f) /\ Present(f, s) /\ (f.clean => BuildInv(f, s, fresh))
    BY DEF ProcInv, CleanInv
  <1>a. Shape(f)
    BY <1>1
  <1>2. Continues(f, g) /\ g.pc = f.pc /\ g.writes = ws /\ g.m = f.m
    BY <1>a, EmptiedOn
  <1>b. "fw" \in Inputs /\ "elf" \notin Inputs \cup {"mem"} /\ "fw" \in Files /\ f.pc \in BuilderPcs
    BY DEF Inputs, Files, BuilderPcs
  <1>3. s1["fw"] = fw /\ ~fresh1 /\ fw # Missing
    BY <1>b, ClosedOnly
  <1>4. s2["fw"] = s1["fw"] /\ fresh2 = fresh1
    BY <1>b, TornOnly
  <1>5. fw = <<"fw", f.pins["opensbi"]>>
    BY <1>1 DEF Pending
  <1>6. Pending(g)
    BY <1>2, <1>5 DEF Pending, Continues
  <1>7. Plan(g)
    BY <1>1, <1>2, <1>b DEF Plan, Continues, AfterFwRead, AfterKernel, AfterInitrd,
      AfterDtb, AfterRom, AfterLoad, AfterMem, AfterTb
  <1>8. Present(g, s2)
    BY <1>2, <1>3, <1>4 DEF Present, AfterFw, AfterFwRead, AfterKernel, AfterInitrd,
      AfterDtb, AfterRom, AfterLoad, AfterMem, AfterTb
  <1>9. ToSet(ws) = {<<"elf", fw>>}
    BY ToSetOf
  <1>10. Holds(g, s2, "fw", fw) /\ Holds(g, s2, "elf", fw)
    BY <1>2, <1>3, <1>4, <1>9 DEF Holds
  <1>11. BuildInv(g, s2, fresh2)
    BY <1>2, <1>3, <1>4, <1>5, <1>10 DEF BuildInv, Past, Continues, AfterFw, AfterFwRead, AfterKernel,
      AfterInitrd, AfterDtb, AfterRom
  <1> QED BY <1>2, <1>6, <1>7, <1>8, <1>11, <1>b, BuilderMoves

\* s4.mem.hex is rendered.
LEMMA MemClosedOK ==
  ASSUME NEW f, NEW s, NEW e, NEW fresh \in BOOLEAN, ProcInv(f, s, e, fresh), FileInv(s),
         f.pc = "model", NEW x, NEW c0, f.writes = <<<<x, c0>>>>, NEW c, c = Closing(f, x, c0)
  PROVE  /\ x = "mem" /\ Legal(x, c)
         /\ ~c[2].mixed =>
              /\ \A y \in Inputs : c[2][y] = s[y]
              /\ s["manifest"][1] = "manifest" /\ ~s["manifest"][2].mixed =>
                   c[2].at = s["manifest"][2].start
  <1>0. f.pc \in AfterLoad
    BY DEF AfterLoad, AfterMem
  <1>1. Shape(f) /\ f.clean \in BOOLEAN /\ (f.clean => ImageInv(f, s, fresh))
    BY <1>0, RunnerKnows
  <1>2. Pending(f)
    BY DEF ProcInv
  <1>3. PICK i : i = f.writes[1][2][2]
    OBVIOUS
  <1>4. x = "mem" /\ c0 = <<"mem", i>> /\ Rendered(i) /\ i = f.writes[1][2][2]
    BY <1>2, <1>3 DEF Pending
  <1>5. PICK j : j = [i EXCEPT !.mixed = ~f.clean]
    OBVIOUS
  <1>6. c = <<"mem", j>>
    BY <1>4, <1>5 DEF Closing
  <1>7. /\ j = Image(j) /\ j.fw = i.fw /\ j.kernel = i.kernel /\ j.dtb = i.dtb
        /\ j.initrd = i.initrd /\ j.at = i.at /\ j.mixed = (~f.clean)
    BY <1>4, <1>5 DEF Rendered, Image
  <1>8. j.mixed \in BOOLEAN /\ (~j.mixed <=> f.clean)
    BY <1>1, <1>7, Zenon
  <1>9. Rendered(j)
    BY <1>4, <1>7, <1>8 DEF Rendered
  <1>10. Legal(x, c)
    BY <1>4, <1>6, <1>9 DEF Legal, MemFile, Archives
  <1>11. ASSUME f.clean PROVE /\ \A y \in Inputs : j[y] = s[y]
                              /\ j.at = f.m.start /\ s["manifest"] = <<"manifest", f.m>>
    <2>1. ImageInv(f, s, fresh) /\ f.writes # <<>>
      BY <1>1, <1>11
    <2>2. (\A y \in Inputs : i[y] = s[y]) /\ i.at = f.m.start /\ s["manifest"] = <<"manifest", f.m>>
      BY <1>0, <1>4, <2>1 DEF ImageInv
    <2>3. \A y \in Inputs : j[y] = i[y]
      BY <1>7 DEF Inputs
    <2> QED BY <1>7, <2>2, <2>3
  <1> QED BY <1>4, <1>6, <1>8, <1>10, <1>11

LEMMA MemWrittenOK ==
  ASSUME NEW f, NEW s, NEW e, NEW fresh \in BOOLEAN, ProcInv(f, s, e, fresh), FileInv(s),
         f.pc = "model", NEW c, NEW s2, NEW fresh2, Closes(s, fresh, "mem", c, s2, fresh2),
         NEW g, Emptied(f, g, <<>>)
  PROVE  ProcInv(g, s2, e, fresh2)
  <1>0. f.pc \in AfterLoad
    BY DEF AfterLoad, AfterMem
  <1>1. /\ Shape(f) /\ Described(f.m) /\ Modes(f) /\ (\A y \in Inputs : s[y] # Missing)
        /\ f.pc \in RunnerPcs /\ f.clean \in BOOLEAN
        /\ f.clean => s["manifest"] = <<"manifest", f.m>>
    BY <1>0, RunnerKnows
  <1>a. Shape(f)
    BY <1>1
  <1>2. Continues(f, g) /\ g.pc = f.pc /\ g.writes = <<>> /\ g.m = f.m
    BY <1>a, EmptiedOn
  <1>3. Pending(g)
    BY <1>2 DEF Pending
  <1>4. Carries(f, g)
    BY <1>1, <1>2, <1>3 DEF Carries, Continues
  <1>5. s2["mem"] = c /\ (\A y \in Files : y # "mem" => s2[y] = s[y]) /\ fresh2 /\ c # Missing
    BY ClosedOnly
  <1>6. s2["manifest"] = s["manifest"] /\ \A y \in Inputs : s2[y] = s[y]
    BY <1>5 DEF Files, Inputs
  <1>7. g.pc \in RunnerPcs \ {"images", "load"} /\ g.pc \notin AfterTb /\ g.pc # "next"
    BY <1>2 DEF RunnerPcs, AfterTb
  <1>8. Modes(g)
    BY <1>1, <1>2 DEF Modes, AfterMem, AfterTb, Continues
  <1>9. g.clean => ImageInv(g, s2, fresh2) /\ ModelInv(g, s2, e)
    BY <1>1, <1>2, <1>5, <1>6 DEF ImageInv, ModelInv, AfterTb, Continues
  <1>10. (\A y \in Inputs : s2[y] # Missing) /\ s2["mem"] # Missing
    BY <1>1, <1>5, <1>6
  <1> QED BY <1>1, <1>2, <1>3, <1>4, <1>7, <1>8, <1>9, <1>10, RunnerMoves
-----------------------------------------------------------------------------
(* Every step                                                               *)

LEMMA WritesAre ==
  ASSUME NEW f, Shape(f), Pending(f), f.writes # <<>>
  PROVE  \/ /\ f.pc \in BuilderPcs \cup {"model"} /\ \E x, c0 : f.writes = <<<<x, c0>>>>
         \/ f.pc = "fwread" /\ \E fw : f.writes = <<<<"fw", fw>>, <<"elf", fw>>>>
  <1>1. CASE f.pc = "fwread"
    BY <1>1 DEF Pending, BuilderPcs
  <1>2. CASE f.pc \in {"kernel", "busybox.apk", "busybox", "dtb", "manifest", "built"}
    BY <1>2 DEF Pending, BuilderPcs
  <1>3. CASE f.pc = "rom"
    BY <1>3 DEF Pending, BuilderPcs
  <1>4. CASE f.pc = "model"
    <2>1. f.writes = <<<<"mem", <<"mem", f.writes[1][2][2]>>>>>>
      BY <1>4 DEF Pending
    <2> QED BY <1>4, <2>1
  <1>5. f.pc \in {"fwread", "kernel", "busybox.apk", "busybox", "dtb", "rom", "manifest", "built",
                  "model"}
    BY DEF Pending
  <1> QED BY <1>1, <1>2, <1>3, <1>4, <1>5

LEMMA CloseFileStep ==
  ASSUME IInv, NEW p \in Procs, CloseFile(p)
  PROVE  IInv'
  <1>1. PICK f : f = proc[p]
    OBVIOUS
  <1>2. /\ FileInv(fs) /\ MemInv(fs, memFresh) /\ memFresh \in BOOLEAN /\ ExeInv(exe, src.rtl)
        /\ ProcInv(f, fs, exe, memFresh)
    BY <1>1, IInvParts DEF SourceInv
  <1>3. Shape(f) /\ Pending(f) /\ Plan(f) /\ f.writes # <<>>
    BY <1>1, <1>2 DEF ProcInv, CloseFile
  <1>4. PICK g : g = [f EXCEPT !.writes = Tail(f.writes)]
    OBVIOUS
  <1>5. Disturbs(p, g) /\ UNCHANGED <<src, exe, edits, crashes>>
    BY <1>1, <1>4 DEF CloseFile, Rest
  <1>6. PICK s2 : s2 = fs'
    OBVIOUS
  <1>7. PICK fresh2 : fresh2 = memFresh'
    OBVIOUS
  <1>8. SUFFICES /\ FileInv(s2) /\ MemInv(s2, fresh2) /\ Kept(fs, s2) /\ fresh2 \in BOOLEAN
                 /\ ProcInv(g, s2, exe, fresh2)
    BY <1>2, <1>5, <1>6, <1>7, WriteStep
  <1>a. ASSUME NEW w, w = Head(f.writes), NEW rest, rest = Tail(f.writes)
        PROVE  /\ s2 = Opened(rest, [fs EXCEPT ![w[1]] = Closing(f, w[1], w[2])])
               /\ Touched({w[1]} \cup {y[1] : y \in ToSet(rest)})
    BY <1>1, <1>6, <1>a DEF CloseFile, Closing
  <1>9. ASSUME NEW x, NEW c0, f.writes = <<<<x, c0>>>>
        PROVE  /\ s2 = [fs EXCEPT ![x] = Closing(f, x, c0)] /\ fresh2 = Aged({x}, memFresh)
               /\ Emptied(f, g, <<>>)
    <2>1. Head(f.writes) = <<x, c0>> /\ Tail(f.writes) = <<>>
      BY <1>9
    <2>2. ToSet(<<>>) = {}
      BY ToSetOf
    <2>3. {y[1] : y \in ToSet(<<>>)} = {}
      BY <2>2
    <2>4. {x} \cup {y[1] : y \in ToSet(<<>>)} = {x}
      BY <2>3
    <2>a. PICK w : w = <<x, c0>>
      OBVIOUS
    <2>b. w[1] = x /\ w[2] = c0
      BY <2>a
    <2>c. /\ s2 = Opened(<<>>, [fs EXCEPT ![w[1]] = Closing(f, w[1], w[2])])
          /\ Touched({w[1]} \cup {y[1] : y \in ToSet(<<>>)})
      BY <1>a, <2>1, <2>a
    <2>5. s2 = [fs EXCEPT ![x] = Closing(f, x, c0)]
      BY <2>b, <2>c DEF Opened
    <2>6. Touched({x})
      BY <2>b, <2>c, <2>4
    <2>7. memFresh' = Aged({x}, memFresh)
      BY <2>6 DEF Touched, Aged
    <2>8. Emptied(f, g, <<>>)
      BY <1>4, <2>1 DEF Emptied
    <2> QED BY <1>7, <2>5, <2>7, <2>8
  <1>10. CASE f.pc \in BuilderPcs /\ \E x, c0 : f.writes = <<<<x, c0>>>>
    <2>1. PICK x, c0 : f.writes = <<<<x, c0>>>>
      BY <1>10
    <2>2. PICK c : c = Closing(f, x, c0)
      OBVIOUS
    <2>3. s2 = [fs EXCEPT ![x] = c] /\ fresh2 = Aged({x}, memFresh) /\ Emptied(f, g, <<>>)
      BY <1>9, <2>1, <2>2
    <2>4. /\ x \in Files \ Reports /\ x # "mem" /\ Legal(x, c) /\ (f.clean => c = c0)
          /\ x = "manifest" => (~c[2].mixed => ~memFresh) /\ \A y \in Inputs : fs[y] # Missing
      BY <1>2, <1>10, <2>1, <2>2, PendingLegal
    <2>5. Closes(fs, memFresh, x, c, s2, fresh2)
      BY <2>3, <2>4 DEF Closes
    <2>6. FileInv(s2) /\ MemInv(s2, fresh2) /\ Kept(fs, s2) /\ fresh2 \in BOOLEAN
      BY <1>2, <2>4, <2>5, ClosedFiles
    <2>7. ProcInv(g, s2, exe, fresh2)
      BY <1>2, <1>10, <2>1, <2>3, <2>4, <2>5, WrittenOK
    <2> QED BY <2>6, <2>7
  <1>11. CASE f.pc = "model" /\ \E x, c0 : f.writes = <<<<x, c0>>>>
    <2>1. PICK x, c0 : f.writes = <<<<x, c0>>>>
      BY <1>11
    <2>2. PICK c : c = Closing(f, x, c0)
      OBVIOUS
    <2>3. s2 = [fs EXCEPT ![x] = c] /\ fresh2 = Aged({x}, memFresh) /\ Emptied(f, g, <<>>)
      BY <1>9, <2>1, <2>2
    <2>4. /\ x = "mem" /\ Legal(x, c)
          /\ ~c[2].mixed =>
               /\ \A y \in Inputs : c[2][y] = fs[y]
               /\ fs["manifest"][1] = "manifest" /\ ~fs["manifest"][2].mixed =>
                    c[2].at = fs["manifest"][2].start
      BY <1>2, <1>11, <2>1, <2>2, MemClosedOK
    <2>a. "mem" \in Files \ Reports
      BY DEF Files, Reports
    <2>5. Closes(fs, memFresh, "mem", c, s2, fresh2)
      BY <2>3, <2>4, <2>a DEF Closes
    <2>6. FileInv(s2) /\ MemInv(s2, fresh2) /\ Kept(fs, s2) /\ fresh2 \in BOOLEAN
      BY <1>2, <2>4, <2>5, ClosedFiles
    <2>7. ProcInv(g, s2, exe, fresh2)
      BY <1>2, <1>11, <2>3, <2>5, MemWrittenOK
    <2> QED BY <2>6, <2>7
  <1>12. CASE f.pc = "fwread" /\ \E fw : f.writes = <<<<"fw", fw>>, <<"elf", fw>>>>
    <2>1. PICK fw : f.writes = <<<<"fw", fw>>, <<"elf", fw>>>>
      BY <1>12
    <2>2. PICK ws : ws = <<<<"elf", fw>>>>
      OBVIOUS
    <2>3. Head(f.writes) = <<"fw", fw>> /\ Tail(f.writes) = ws
      BY <2>1, <2>2
    <2>4. ToSet(ws) = {<<"elf", fw>>}
      BY <2>2, ToSetOf
    <2>5. {"fw"} \cup {y[1] : y \in ToSet(ws)} = {"fw", "elf"}
      BY <2>4
    <2>6. PICK s1 : s1 = [fs EXCEPT !["fw"] = fw]
      OBVIOUS
    <2>7. PICK fresh1 : fresh1 = Aged({"fw"}, memFresh)
      OBVIOUS
    <2>a. PICK w : w = <<"fw", fw>>
      OBVIOUS
    <2>b. w[1] = "fw" /\ w[2] = fw /\ Closing(f, "fw", fw) = fw
      BY <2>a DEF Closing
    <2>c. /\ s2 = Opened(ws, [fs EXCEPT ![w[1]] = Closing(f, w[1], w[2])])
          /\ Touched({w[1]} \cup {y[1] : y \in ToSet(ws)})
      BY <1>a, <2>3, <2>a
    <2>d. ws # <<>> /\ Head(ws)[1] = "elf"
      BY <2>2
    <2>8. s2 = [s1 EXCEPT !["elf"] = Torn]
      BY <2>6, <2>b, <2>c, <2>d DEF Opened
    <2>9. Touched({"fw", "elf"})
      BY <2>5, <2>b, <2>c
    <2>10. ~fresh1 /\ fresh1 \in BOOLEAN
      BY <2>7 DEF Aged, Inputs
    <2>11. fresh2 = Aged({"elf"}, fresh1)
      BY <1>7, <2>7, <2>9 DEF Touched, Aged, Inputs
    <2>12. fw = <<"fw", f.pins["opensbi"]>>
      BY <1>3, <1>12, <2>1 DEF Pending
    <2>13. FwFile(fw)
      <3>1. "opensbi" \in DOMAIN Versions /\ f.pc \in BuilderPcs
        BY <1>12, VersionAssumption DEF BuilderPcs
      <3>2. f.pins["opensbi"] \in Versions["opensbi"]
        BY <1>3, <3>1 DEF Plan
      <3> QED BY <2>12, <3>2 DEF FwFile
    <2>14. Closes(fs, memFresh, "fw", fw, s1, fresh1)
      BY <2>6, <2>7, <2>13 DEF Closes, Legal, Archives, Files, Reports
    <2>15. FileInv(s1) /\ MemInv(s1, fresh1) /\ Kept(fs, s1)
      BY <1>2, <2>14, ClosedFiles
    <2>16. Tears(s1, fresh1, "elf", s2, fresh2)
      BY <2>8, <2>11 DEF Tears, Files, Reports
    <2>17. FileInv(s2) /\ MemInv(s2, fresh2) /\ Kept(s1, s2) /\ fresh2 \in BOOLEAN
      BY <2>10, <2>15, <2>16, OpenedFiles
    <2>18. Kept(fs, s2)
      BY <2>15, <2>17 DEF Kept
    <2>19. Emptied(f, g, ws)
      BY <1>4, <2>3 DEF Emptied
    <2>20. ProcInv(g, s2, exe, fresh2)
      BY <1>2, <1>12, <2>1, <2>2, <2>10, <2>14, <2>15, <2>16, <2>19, FwClosedOK
    <2> QED BY <2>17, <2>18, <2>20
  <1> QED BY <1>3, <1>10, <1>11, <1>12, WritesAre

\* What a command knows of itself and of the files.
LEMMA Known ==
  ASSUME IInv, NEW p \in Procs
  PROVE  /\ FileInv(fs) /\ MemInv(fs, memFresh) /\ memFresh \in BOOLEAN /\ ExeInv(exe, src.rtl)
         /\ ProcInv(proc[p], fs, exe, memFresh) /\ crashes \in 0..MaxCrashes
         /\ \A k \in DOMAIN Versions : src[k] \in Versions[k]
  BY IInvParts DEF SourceInv

LEMMA NoFileStep ==
  ASSUME UNCHANGED NoFile
  PROVE  UNCHANGED <<fs, exe, memFresh, src, edits, crashes>>
  BY DEF NoFile, Rest

\* A command that gives up.
LEMMA ExitStep ==
  ASSUME IInv, NEW p \in Procs, NEW code \in {1, 2, Killed}, Exits(p, code),
         UNCHANGED <<fs, exe, memFresh, src, edits>>, crashes' \in 0..MaxCrashes
  PROVE  IInv'
  <1>1. code # 0
    BY DEF Killed
  <1>2. Steps(p, Failed(p, code))
    BY <1>1 DEF Exits
  <1>3. ProcInv(Failed(p, code), fs, exe, memFresh)
    BY FailedOK DEF Failed
  <1> QED BY <1>2, <1>3, QuietStep

LEMMA QuietExit ==
  ASSUME IInv, NEW p \in Procs, NEW code \in {1, 2}, Exits(p, code), UNCHANGED NoFile
  PROVE  IInv'
  <1>1. UNCHANGED <<fs, exe, memFresh, src, edits>> /\ crashes' \in 0..MaxCrashes
    BY Known, NoFileStep
  <1> QED BY <1>1, ExitStep

LEMMA RefuseStep ==
  ASSUME IInv, NEW p \in Procs, NEW code \in {1, 2}, Refuses(p, code), UNCHANGED NoFile
  PROVE  IInv'
  <1>1. CASE Runs(p)
    BY <1>1, QuietExit DEF Refuses
  <1>2. CASE ~Runs(p)
    BY <1>2, QuietExit DEF Refuses
  <1> QED BY <1>1, <1>2

\* One that goes on.
LEMMA QuietMove ==
  ASSUME IInv, NEW p \in Procs, NEW g, Steps(p, g), UNCHANGED NoFile, ProcInv(g, fs, exe, memFresh)
  PROVE  IInv'
  <1>1. UNCHANGED <<fs, exe, memFresh, src, edits>> /\ crashes' \in 0..MaxCrashes
    BY Known, NoFileStep
  <1> QED BY <1>1, QuietStep

LEMMA OpensbiStep ==
  ASSUME IInv, NEW p \in Procs, Opensbi(p)
  PROVE  IInv'
  <1>1. proc[p].pc = "opensbi" /\ proc[p].writes = <<>> /\ UNCHANGED NoFile
    BY DEF Opensbi, At
  <1>2. PICK pc \in {"clone", "head", "hung"} : Goes(p, pc)
    BY DEF Opensbi
  <1>3. PICK g : g = [proc[p] EXCEPT !.pc = pc]
    OBVIOUS
  <1>4. Steps(p, g)
    BY <1>2, <1>3 DEF Goes
  <1>5. ProcInv(g, fs, exe, memFresh)
    BY <1>1, <1>3, Known, EarlyOK
  <1> QED BY <1>1, <1>4, <1>5, QuietMove

LEMMA CloneStep ==
  ASSUME IInv, NEW p \in Procs, Clone(p)
  PROVE  IInv'
  <1>1. proc[p].pc = "clone" /\ proc[p].writes = <<>> /\ UNCHANGED NoFile
    BY DEF Clone, At
  <1>2. CASE Refuses(p, 2)
    BY <1>1, <1>2, RefuseStep
  <1>3. CASE \E pc \in {"clone", "head", "hung"} : Goes(p, pc)
    <2>1. PICK pc \in {"clone", "head", "hung"} : Goes(p, pc)
      BY <1>3
    <2>3. PICK g : g = [proc[p] EXCEPT !.pc = pc]
      OBVIOUS
    <2>4. Steps(p, g)
      BY <2>1, <2>3 DEF Goes
    <2>5. ProcInv(g, fs, exe, memFresh)
      BY <1>1, <2>3, Known, EarlyOK
    <2> QED BY <1>1, <2>4, <2>5, QuietMove
  <1> QED BY <1>2, <1>3 DEF Clone

LEMMA HeadStep ==
  ASSUME IInv, NEW p \in Procs, Head_(p)
  PROVE  IInv'
  <1>1. proc[p].pc = "head"
    BY DEF Head_, At
  <1>2. CASE (Refuses(p, 1) \/ Refuses(p, 2)) /\ UNCHANGED NoFile
    BY <1>2, RefuseStep
  <1>3. PICK fw : fw = <<"fw", proc[p].pins["opensbi"]>>
    OBVIOUS
  <1>4. PICK ws : ws = <<<<"fw", fw>>, <<"elf", fw>>>>
    OBVIOUS
  <1>5. PICK g : g = [proc[p] EXCEPT !.pc = "fwread", !.writes = ws]
    OBVIOUS
  <1>6. CASE Puts(p, g)
    <2>0. Starts(proc[p], g, "fwread", ws)
      BY <1>5 DEF Starts
    <2>1. \A s2, fresh2 : Tears(fs, memFresh, "fw", s2, fresh2) => ProcInv(g, s2, exe, fresh2)
      <3> SUFFICES ASSUME NEW s2, NEW fresh2, Tears(fs, memFresh, "fw", s2, fresh2)
                   PROVE  ProcInv(g, s2, exe, fresh2)
        OBVIOUS
      <3>1. /\ FileInv(fs) /\ MemInv(fs, memFresh) /\ memFresh \in BOOLEAN
            /\ ProcInv(proc[p], fs, exe, memFresh)
        BY Known
      <3> QED BY <1>1, <1>3, <1>4, <2>0, <3>1, HeadOK
    <2>a. Shape(proc[p])
      BY Known DEF ProcInv
    <2>2. g.writes = ws
      BY <2>0, <2>a, WritesOn
    <2>3. g.writes # <<>> /\ Head(g.writes)[1] = "fw" /\ "fw" \in Files \ Reports
      BY <1>4, <2>2 DEF Files, Reports
    <2> QED BY <1>6, <2>1, <2>3, PutStep
  <1> QED BY <1>2, <1>3, <1>4, <1>5, <1>6 DEF Head_, Pin

LEMMA FwReadStep ==
  ASSUME IInv, NEW p \in Procs, FwRead(p)
  PROVE  IInv'
  <1>1. proc[p].pc = "fwread" /\ proc[p].writes = <<>> /\ UNCHANGED NoFile
    BY DEF FwRead, At
  <1>2. CASE Refuses(p, 2)
    BY <1>1, <1>2, RefuseStep
  <1>3. PICK m : m = [proc[p].m EXCEPT !.fw = fs["fw"]]
    OBVIOUS
  <1>4. PICK g : g = [proc[p] EXCEPT !.pc = "kernel.apk", !.m.fw = fs["fw"]]
    OBVIOUS
  <1>5. CASE Steps(p, g)
    <2>1. Shape(proc[p]) /\ FileInv(fs) /\ ProcInv(proc[p], fs, exe, memFresh)
      BY Known DEF ProcInv
    <2>2. Fills(proc[p], g, "kernel.apk", <<>>, m)
      BY <1>1, <1>3, <1>4, <2>1 DEF Fills, Shape, Record
    <2>3. ProcInv(g, fs, exe, memFresh)
      BY <1>1, <1>3, <2>1, <2>2, FwReadOK
    <2> QED BY <1>1, <1>5, <2>3, QuietMove
  <1> QED BY <1>2, <1>4, <1>5 DEF FwRead, Content

LEMMA LookupStep ==
  ASSUME IInv, NEW p \in Procs, NEW k \in Archives, Lookup(p, k)
  PROVE  IInv'
  <1>1. proc[p].pc = k /\ proc[p].writes = <<>> /\ UNCHANGED NoFile
    BY DEF Lookup, At
  <1>2. PICK pc : pc = IF Cached(p, k) THEN Unpack[k] ELSE Fetching[k]
    OBVIOUS
  <1>3. PICK g : g = [proc[p] EXCEPT !.pc = pc]
    OBVIOUS
  <1>4. Steps(p, g)
    BY <1>2, <1>3 DEF Lookup, Goes
  <1>5. \/ pc = Fetching[k]
        \/ pc = Unpack[k] /\ fs[k] = <<"apk", k, proc[p].pins[k]>>
    BY <1>2 DEF Cached, Content, Pin
  <1>6. ProcInv(g, fs, exe, memFresh)
    BY <1>1, <1>3, <1>5, Known, LookupOK
  <1> QED BY <1>1, <1>4, <1>6, QuietMove

LEMMA DownloadStep ==
  ASSUME IInv, NEW p \in Procs, NEW k \in Archives, Download(p, k)
  PROVE  IInv'
  <1>1. proc[p].pc = Fetching[k] /\ proc[p].writes = <<>>
    BY DEF Download, At
  <1>2. CASE (\E code \in {1, 2} : Refuses(p, code)) /\ UNCHANGED NoFile
    BY <1>2, RefuseStep
  <1>4. PICK ws : ws = <<<<k, <<"apk", k, proc[p].pins[k]>>>>>>
    OBVIOUS
  <1>5. PICK g : g = [proc[p] EXCEPT !.pc = Unpack[k], !.writes = ws]
    OBVIOUS
  <1>6. CASE Puts(p, g)
    <2>0. Starts(proc[p], g, Unpack[k], ws)
      BY <1>5 DEF Starts
    <2>1. \A s2, fresh2 : Tears(fs, memFresh, k, s2, fresh2) => ProcInv(g, s2, exe, fresh2)
      <3> SUFFICES ASSUME NEW s2, NEW fresh2, Tears(fs, memFresh, k, s2, fresh2)
                   PROVE  ProcInv(g, s2, exe, fresh2)
        OBVIOUS
      <3>1. /\ FileInv(fs) /\ MemInv(fs, memFresh) /\ memFresh \in BOOLEAN
            /\ ProcInv(proc[p], fs, exe, memFresh)
        BY Known
      <3> QED BY <1>1, <1>4, <2>0, <3>1, DownloadOK
    <2>a. Shape(proc[p])
      BY Known DEF ProcInv
    <2>2. g.writes = ws
      BY <2>0, <2>a, WritesOn
    <2>3. g.writes # <<>> /\ Head(g.writes)[1] = k /\ k \in Files \ Reports /\ k # "manifest"
      BY <1>4, <2>2 DEF Files, Reports, Archives
    <2> QED BY <1>6, <2>1, <2>3, PutStep
  <1> QED BY <1>2, <1>4, <1>5, <1>6 DEF Download, Pin

LEMMA KernelStep ==
  ASSUME IInv, NEW p \in Procs, Kernel(p)
  PROVE  IInv'
  <1>1. proc[p].pc = "kernel" /\ proc[p].writes = <<>>
    BY DEF Kernel, At
  <1>2. CASE (Refuses(p, 1) \/ Refuses(p, 2)) /\ UNCHANGED NoFile
    BY <1>2, RefuseStep
  <1>3. PICK k : k = <<"kernel", fs["kernel.apk"][3]>>
    OBVIOUS
  <1>4. PICK ws : ws = <<<<"kernel", k>>>>
    OBVIOUS
  <1>5. PICK m : m = [proc[p].m EXCEPT !.kernel = k]
    OBVIOUS
  <1>6. PICK g : g = [proc[p] EXCEPT !.pc = "busybox.apk", !.m.kernel = k, !.writes = ws]
    OBVIOUS
  <1>7. CASE Puts(p, g) /\ fs["kernel.apk"] # Torn
    <2>a. Shape(proc[p])
      BY Known DEF ProcInv
    <2>0. Fills(proc[p], g, "busybox.apk", ws, m)
      BY <1>5, <1>6, <2>a DEF Fills, Shape, Record
    <2>1. \A s2, fresh2 : Tears(fs, memFresh, "kernel", s2, fresh2) => ProcInv(g, s2, exe, fresh2)
      <3> SUFFICES ASSUME NEW s2, NEW fresh2, Tears(fs, memFresh, "kernel", s2, fresh2)
                   PROVE  ProcInv(g, s2, exe, fresh2)
        OBVIOUS
      <3>1. /\ FileInv(fs) /\ MemInv(fs, memFresh) /\ memFresh \in BOOLEAN
            /\ ProcInv(proc[p], fs, exe, memFresh)
        BY Known
      <3> QED BY <1>1, <1>3, <1>4, <1>5, <1>7, <2>0, <3>1, KernelOK
    <2>2. g.writes = ws
      BY <2>0, <2>a, FillsOn
    <2>3. g.writes # <<>> /\ Head(g.writes)[1] = "kernel" /\ "kernel" \in Files \ Reports
      BY <1>4, <2>2 DEF Files, Reports
    <2> QED BY <1>7, <2>1, <2>3, PutStep
  <1> QED BY <1>2, <1>3, <1>4, <1>6, <1>7 DEF Kernel, Content

LEMMA InitramfsStep ==
  ASSUME IInv, NEW p \in Procs, Initramfs(p)
  PROVE  IInv'
  <1>1. proc[p].pc = "busybox" /\ proc[p].writes = <<>>
    BY DEF Initramfs, At
  <1>2. CASE Refuses(p, 1) /\ UNCHANGED NoFile
    BY <1>2, RefuseStep
  <1>a. PICK init : init = src.init
    OBVIOUS
  <1>3. PICK c : c = <<"initrd", fs["busybox.apk"][3], init>>
    OBVIOUS
  <1>4. PICK ws : ws = <<<<"initrd", c>>>>
    OBVIOUS
  <1>5. PICK m : m = [proc[p].m EXCEPT !.initrd = c]
    OBVIOUS
  <1>6. PICK g : g = [proc[p] EXCEPT !.pc = "dtb", !.m.initrd = c, !.writes = ws]
    OBVIOUS
  <1>7. CASE Puts(p, g) /\ fs["busybox.apk"] # Torn
    <2>a. Shape(proc[p])
      BY Known DEF ProcInv
    <2>b. init \in Versions["init"]
      BY <1>a, Known, VersionAssumption
    <2>0. Fills(proc[p], g, "dtb", ws, m)
      BY <1>5, <1>6, <2>a DEF Fills, Shape, Record
    <2>1. \A s2, fresh2 : Tears(fs, memFresh, "initrd", s2, fresh2) => ProcInv(g, s2, exe, fresh2)
      <3> SUFFICES ASSUME NEW s2, NEW fresh2, Tears(fs, memFresh, "initrd", s2, fresh2)
                   PROVE  ProcInv(g, s2, exe, fresh2)
        OBVIOUS
      <3>1. /\ FileInv(fs) /\ MemInv(fs, memFresh) /\ memFresh \in BOOLEAN
            /\ ProcInv(proc[p], fs, exe, memFresh)
        BY Known
      <3> QED BY <1>1, <1>3, <1>4, <1>5, <1>7, <2>0, <2>b, <3>1, InitramfsOK
    <2>2. g.writes = ws
      BY <2>0, <2>a, FillsOn
    <2>3. g.writes # <<>> /\ Head(g.writes)[1] = "initrd" /\ "initrd" \in Files \ Reports
      BY <1>4, <2>2 DEF Files, Reports
    <2> QED BY <1>7, <2>1, <2>3, PutStep
  <1> QED BY <1>2, <1>a, <1>3, <1>4, <1>6, <1>7 DEF Initramfs, Content

LEMMA BuildDtbStep ==
  ASSUME IInv, NEW p \in Procs, BuildDtb(p)
  PROVE  IInv'
  <1>1. proc[p].pc = "dtb" /\ proc[p].writes = <<>>
    BY DEF BuildDtb, At
  <1>2. CASE Refuses(p, 2) /\ UNCHANGED NoFile
    BY <1>2, RefuseStep
  <1>a. PICK dts : dts = src.dts
    OBVIOUS
  <1>3. PICK start : start = InitrdEnd - Bytes(proc[p].m.initrd)
    OBVIOUS
  <1>4. PICK ws : ws = <<<<"dtb", <<"dtb", dts, start>>>>>>
    OBVIOUS
  <1>5. PICK m : m = [proc[p].m EXCEPT !.start = start]
    OBVIOUS
  <1>6. PICK g : g = [proc[p] EXCEPT !.pc = "rom", !.m.start = start, !.writes = ws]
    OBVIOUS
  <1>7. CASE Puts(p, g) /\ start >= KernelAddr
    <2>a. Shape(proc[p])
      BY Known DEF ProcInv
    <2>b. dts \in Versions["dts"]
      BY <1>a, Known, VersionAssumption
    <2>0. Fills(proc[p], g, "rom", ws, m)
      BY <1>5, <1>6, <2>a DEF Fills, Shape, Record
    <2>1. \A s2, fresh2 : Tears(fs, memFresh, "dtb", s2, fresh2) => ProcInv(g, s2, exe, fresh2)
      <3> SUFFICES ASSUME NEW s2, NEW fresh2, Tears(fs, memFresh, "dtb", s2, fresh2)
                   PROVE  ProcInv(g, s2, exe, fresh2)
        OBVIOUS
      <3>1. /\ FileInv(fs) /\ MemInv(fs, memFresh) /\ memFresh \in BOOLEAN
            /\ ProcInv(proc[p], fs, exe, memFresh)
        BY Known
      <3> QED BY <1>1, <1>3, <1>4, <1>5, <1>7, <2>0, <2>b, <3>1, BuildDtbOK
    <2>2. g.writes = ws
      BY <2>0, <2>a, FillsOn
    <2>3. g.writes # <<>> /\ Head(g.writes)[1] = "dtb" /\ "dtb" \in Files \ Reports
      BY <1>4, <2>2 DEF Files, Reports
    <2> QED BY <1>7, <2>1, <2>3, PutStep
  <1> QED BY <1>2, <1>a, <1>3, <1>4, <1>6, <1>7 DEF BuildDtb

LEMMA BuildRomStep ==
  ASSUME IInv, NEW p \in Procs, BuildRom(p)
  PROVE  IInv'
  <1>1. proc[p].pc = "rom" /\ proc[p].writes = <<>>
    BY DEF BuildRom, At
  <1>2. CASE Refuses(p, 2) /\ UNCHANGED NoFile
    BY <1>2, RefuseStep
  <1>3. PICK dtb : dtb = fs["dtb"]
    OBVIOUS
  <1>4. PICK ws : ws = <<<<"rom", <<"rom", dtb>>>>>>
    OBVIOUS
  <1>5. PICK m : m = [proc[p].m EXCEPT !.dtb = dtb]
    OBVIOUS
  <1>6. PICK g : g = [proc[p] EXCEPT !.pc = "manifest", !.m.dtb = dtb, !.writes = ws]
    OBVIOUS
  <1>7. CASE Puts(p, g)
    <2>a. Shape(proc[p])
      BY Known DEF ProcInv
    <2>0. Fills(proc[p], g, "manifest", ws, m)
      BY <1>5, <1>6, <2>a DEF Fills, Shape, Record
    <2>1. \A s2, fresh2 : Tears(fs, memFresh, "rom", s2, fresh2) => ProcInv(g, s2, exe, fresh2)
      <3> SUFFICES ASSUME NEW s2, NEW fresh2, Tears(fs, memFresh, "rom", s2, fresh2)
                   PROVE  ProcInv(g, s2, exe, fresh2)
        OBVIOUS
      <3>1. /\ FileInv(fs) /\ MemInv(fs, memFresh) /\ memFresh \in BOOLEAN
            /\ ProcInv(proc[p], fs, exe, memFresh)
        BY Known
      <3> QED BY <1>1, <1>3, <1>4, <1>5, <1>7, <2>0, <3>1, BuildRomOK
    <2>2. g.writes = ws
      BY <2>0, <2>a, FillsOn
    <2>3. g.writes # <<>> /\ Head(g.writes)[1] = "rom" /\ "rom" \in Files \ Reports
      BY <1>4, <2>2 DEF Files, Reports
    <2> QED BY <1>7, <2>1, <2>3, PutStep
  <1> QED BY <1>2, <1>3, <1>4, <1>6, <1>7 DEF BuildRom, Content

LEMMA WriteManifestStep ==
  ASSUME IInv, NEW p \in Procs, WriteManifest(p)
  PROVE  IInv'
  <1>1. proc[p].pc = "manifest" /\ proc[p].writes = <<>>
    BY DEF WriteManifest, At
  <1>4. PICK ws : ws = <<<<"manifest", <<"manifest", proc[p].m>>>>>>
    OBVIOUS
  <1>5. PICK g : g = [proc[p] EXCEPT !.pc = "built", !.writes = ws]
    OBVIOUS
  <1>6. Puts(p, g)
    BY <1>4, <1>5 DEF WriteManifest
  <1>0. Starts(proc[p], g, "built", ws)
    BY <1>5 DEF Starts
  <1>7. \A s2, fresh2 : Tears(fs, memFresh, "manifest", s2, fresh2) => ProcInv(g, s2, exe, fresh2)
    <3> SUFFICES ASSUME NEW s2, NEW fresh2, Tears(fs, memFresh, "manifest", s2, fresh2)
                 PROVE  ProcInv(g, s2, exe, fresh2)
      OBVIOUS
    <3>1. /\ FileInv(fs) /\ MemInv(fs, memFresh) /\ memFresh \in BOOLEAN
          /\ ProcInv(proc[p], fs, exe, memFresh)
      BY Known
    <3> QED BY <1>1, <1>4, <1>0, <3>1, WriteManifestOK
  <1>a. Shape(proc[p]) /\ Present(proc[p], fs)
    BY Known DEF ProcInv
  <1>2. g.writes = ws
    BY <1>0, <1>a, WritesOn
  <1>3. g.writes # <<>> /\ Head(g.writes)[1] = "manifest" /\ "manifest" \in Files \ Reports
    BY <1>4, <1>2 DEF Files, Reports
  <1>8. proc[p].pc \in AfterFw \cap AfterKernel \cap AfterInitrd \cap AfterDtb
    BY <1>1 DEF AfterFw, AfterFwRead, AfterKernel, AfterInitrd, AfterDtb, AfterRom
  <1>9. \A y \in Inputs : fs[y] # Missing
    BY <1>a, <1>8 DEF Present, Inputs
  <1> QED BY <1>6, <1>7, <1>3, <1>9, PutStep

LEMMA BuiltStep ==
  ASSUME IInv, NEW p \in Procs, Built(p)
  PROVE  IInv'
  <1>1. proc[p].pc = "built" /\ proc[p].writes = <<>> /\ UNCHANGED NoFile
    BY DEF Built, At
  <1>a. ProcInv(proc[p], fs, exe, memFresh)
    BY Known
  <1>2. CASE proc[p].req.prog = "run"
    <2>1. PICK g : g = [Idle EXCEPT !.req = proc[p].req, !.pc = "load", !.clean = proc[p].clean]
      OBVIOUS
    <2>2. Steps(p, g)
      BY <1>2, <2>1 DEF Built, Loading, Runs, Req
    <2>3. ProcInv(g, fs, exe, memFresh)
      BY <1>1, <1>2, <1>a, <2>1, LoadingOK
    <2> QED BY <1>1, <2>2, <2>3, QuietMove
  <1>3. CASE proc[p].req.prog # "run"
    <2>1. PICK g : g = [proc[p] EXCEPT !.pc = "done", !.exit = 0]
      OBVIOUS
    <2>2. Steps(p, g)
      BY <1>3, <2>1 DEF Built, Exits, Runs, Req
    <2>3. ProcInv(g, fs, exe, memFresh)
      BY <1>1, <1>3, <1>a, <2>1, BuiltOK
    <2> QED BY <1>1, <2>2, <2>3, QuietMove
  <1> QED BY <1>2, <1>3

LEMMA BuilderStepOK ==
  ASSUME IInv, NEW p \in Procs, BuilderStep(p)
  PROVE  IInv'
  BY OpensbiStep, CloneStep, HeadStep, FwReadStep, LookupStep, DownloadStep, KernelStep,
     InitramfsStep, BuildDtbStep, BuildRomStep, WriteManifestStep, BuiltStep DEF BuilderStep

LEMMA CheckStep ==
  ASSUME IInv, NEW p \in Procs, Check(p)
  PROVE  IInv'
  <1>1. proc[p].pc = "check" /\ UNCHANGED NoFile
    BY DEF Check, At
  <1>2. CASE Exits(p, 1)
    BY <1>1, <1>2, QuietExit
  <1>3. CASE /\ fs["manifest"][1] = "manifest" /\ Problems(fs["manifest"][2]) = {} /\ Exits(p, 0)
    <2>1. PICK g : g = [proc[p] EXCEPT !.pc = "done", !.exit = 0]
      OBVIOUS
    <2>2. Steps(p, g)
      BY <1>3, <2>1 DEF Exits
    <2>3. \A x \in Inputs : fs[x] = fs["manifest"][2][x]
      BY <1>3 DEF Problems, Content
    <2>4. ProcInv(g, fs, exe, memFresh)
      BY <1>1, <1>3, <2>1, <2>3, Known, CheckOK
    <2> QED BY <1>1, <2>2, <2>4, QuietMove
  <1> QED BY <1>2, <1>3 DEF Check, Has, Content

LEMMA ImagesStep ==
  ASSUME IInv, NEW p \in Procs, Images(p)
  PROVE  IInv'
  <1>1. proc[p].pc = "images" /\ UNCHANGED NoFile
    BY DEF Images, At
  <1>2. /\ ProcInv(proc[p], fs, exe, memFresh) /\ \A k \in DOMAIN Versions : src[k] \in Versions[k]
    BY Known
  <1>3. CASE StartBuild(p)
    <2>1. PICK g : g = [proc[p] EXCEPT !.pc = "opensbi", !.pins = src]
      OBVIOUS
    <2>2. Steps(p, g)
      BY <1>3, <2>1 DEF StartBuild
    <2>3. ProcInv(g, fs, exe, memFresh)
      BY <1>1, <1>2, <2>1, StartBuildOK
    <2> QED BY <1>1, <2>2, <2>3, QuietMove
  <1>4. CASE Steps(p, Loading(p))
    <2>1. PICK g : g = [Idle EXCEPT !.req = proc[p].req, !.pc = "load", !.clean = proc[p].clean]
      OBVIOUS
    <2>2. Steps(p, g)
      BY <1>4, <2>1 DEF Loading, Req
    <2>a. proc[p].req.prog = "run"
      BY <1>1, <1>2 DEF ProcInv, Shape, RunnerPcs
    <2>3. ProcInv(g, fs, exe, memFresh)
      BY <1>1, <1>2, <2>1, <2>a, LoadingOK
    <2> QED BY <1>1, <2>2, <2>3, QuietMove
  <1> QED BY <1>3, <1>4 DEF Images

LEMMA BuildTimeoutStep ==
  ASSUME IInv, NEW p \in Procs, BuildTimeout(p)
  PROVE  IInv'
  BY QuietExit DEF BuildTimeout

LEMMA LoadStep ==
  ASSUME IInv, NEW p \in Procs, Load(p)
  PROVE  IInv'
  <1>1. proc[p].pc = "load" /\ proc[p].writes = <<>> /\ UNCHANGED NoFile
    BY DEF Load, At
  <1>2. CASE Exits(p, 1) \/ Exits(p, 2)
    BY <1>1, <1>2, QuietExit
  <1>3. PICK m : m = fs["manifest"][2]
    OBVIOUS
  <1>4. PICK g : g = [proc[p] EXCEPT !.pc = "next", !.m = m, !.todo = proc[p].req.modes]
    OBVIOUS
  <1>5. CASE fs["manifest"][1] = "manifest" /\ Steps(p, g)
    <2>1. ProcInv(g, fs, exe, memFresh)
      BY <1>1, <1>3, <1>4, <1>5, Known, LoadOK
    <2> QED BY <1>1, <1>5, <2>1, QuietMove
  <1> QED BY <1>2, <1>3, <1>4, <1>5 DEF Load, Has, Content, Req

LEMMA NextModeStep ==
  ASSUME IInv, NEW p \in Procs, NextMode(p)
  PROVE  IInv'
  <1>1. proc[p].pc = "next" /\ proc[p].writes = <<>> /\ UNCHANGED NoFile /\ proc[p].todo # <<>>
    BY DEF NextMode, At
  <1>2. PICK pc : pc = IF Head(proc[p].todo) = "spike" THEN "spike" ELSE "mem"
    OBVIOUS
  <1>3. PICK g : g = [proc[p] EXCEPT !.pc = pc]
    OBVIOUS
  <1>4. Steps(p, g)
    BY <1>2, <1>3 DEF NextMode, Goes, Mode
  <1>5. \/ Head(proc[p].todo) = "spike" /\ pc = "spike"
        \/ Head(proc[p].todo) # "spike" /\ pc = "mem"
    BY <1>2
  <1>6. ProcInv(g, fs, exe, memFresh)
    BY <1>1, <1>3, <1>5, Known, NextModeOK
  <1> QED BY <1>1, <1>4, <1>6, QuietMove

LEMMA EndsStep ==
  ASSUME IInv, NEW p \in Procs, Ends(p)
  PROVE  IInv'
  <1>1. proc[p].pc = "next" /\ proc[p].writes = <<>> /\ UNCHANGED NoFile /\ proc[p].todo = <<>>
    BY DEF Ends, At
  <1>2. PICK g : g = [proc[p] EXCEPT !.pc = "done", !.exit = 0]
    OBVIOUS
  <1>3. Steps(p, g)
    BY <1>2 DEF Ends, Exits
  <1>4. ProcInv(g, fs, exe, memFresh)
    BY <1>1, <1>2, Known, EndsOK
  <1> QED BY <1>1, <1>3, <1>4, QuietMove

LEMMA SpikeStep ==
  ASSUME IInv, NEW p \in Procs, RunSpikeMilestone(p)
  PROVE  IInv'
  <1>1. proc[p].pc = "spike" /\ proc[p].writes = <<>>
    BY DEF RunSpikeMilestone, At
  <1>a. ProcInv(proc[p], fs, exe, memFresh)
    BY Known
  <1>2. CASE Exits(p, 2) /\ UNCHANGED NoFile
    BY <1>2, QuietExit
  <1>3. CASE Goes(p, "silent") /\ UNCHANGED NoFile
    <2>1. PICK g : g = [proc[p] EXCEPT !.pc = "silent"]
      OBVIOUS
    <2>2. Steps(p, g)
      BY <1>3, <2>1 DEF Goes
    <2>3. ProcInv(g, fs, exe, memFresh)
      BY <1>1, <1>a, <2>1, NextModeOK
    <2> QED BY <1>3, <2>2, <2>3, QuietMove
  <1>4. CASE \E n \in 0..Len(SpikeConsole) :
               Writes(p, [spike |-> <<"console", SubSeq(SpikeConsole, 1, n)>>], Done(p, proc[p]))
    <2>1. PICK n \in 0..Len(SpikeConsole) :
            Writes(p, [spike |-> <<"console", SubSeq(SpikeConsole, 1, n)>>], Done(p, proc[p]))
      BY <1>4
    <2>2. PICK c : c = <<"console", SubSeq(SpikeConsole, 1, n)>>
      OBVIOUS
    <2>3. PICK new : new = [spike |-> c]
      OBVIOUS
    <2>4. PICK g : g = Done(p, proc[p])
      OBVIOUS
    <2>5. Writes(p, new, g)
      BY <2>1, <2>2, <2>3, <2>4
    <2>6. DOMAIN new = {"spike"} /\ new["spike"] = c
      BY <2>3
    <2>7. DOMAIN new \subseteq Reports /\ "spike" \in Files
      BY <2>6 DEF Reports, Files
    <2>8. fs'["spike"] = c
      BY <2>5, <2>6, <2>7 DEF Writes
    <2>9. SpikeFile(c)
      BY <2>2 DEF SpikeFile
    <2>10. NextOf(proc[p], g)
      BY <2>4 DEF Done, NextOf
    <2>11. \A s2 : s2 = fs' /\ SameImages(fs, s2) => ProcInv(g, s2, exe, memFresh)
      BY <1>1, <1>a, <2>10, SpikeDoneOK
    <2> QED BY <2>5, <2>7, <2>8, <2>9, <2>11, ReportStep
  <1> QED BY <1>2, <1>3, <1>4 DEF RunSpikeMilestone

LEMMA MemoryStep ==
  ASSUME IInv, NEW p \in Procs, WriteMemoryImage(p)
  PROVE  IInv'
  <1>1. proc[p].pc = "mem" /\ proc[p].writes = <<>>
    BY DEF WriteMemoryImage, At
  <1>a. /\ FileInv(fs) /\ MemInv(fs, memFresh) /\ memFresh \in BOOLEAN
        /\ ProcInv(proc[p], fs, exe, memFresh)
    BY Known
  <1>2. CASE Exits(p, 2) /\ UNCHANGED NoFile
    BY <1>2, QuietExit
  <1>3. CASE Cache(p) /\ Goes(p, "model") /\ UNCHANGED NoFile
    <2>1. PICK g : g = [proc[p] EXCEPT !.pc = "model"]
      OBVIOUS
    <2>2. Steps(p, g)
      BY <1>3, <2>1 DEF Goes
    <2>3. fs["mem"] # Missing /\ memFresh
      BY <1>3 DEF Cache, Content
    <2>4. ProcInv(g, fs, exe, memFresh)
      BY <1>1, <1>a, <2>1, <2>3, MemCachedOK
    <2> QED BY <1>3, <2>2, <2>4, QuietMove
  <1>4. PICK x : x = [fw |-> fs["fw"], kernel |-> fs["kernel"], dtb |-> fs["dtb"],
                      initrd |-> fs["initrd"], at |-> proc[p].m.start, mixed |-> FALSE]
    OBVIOUS
  <1>5. PICK ws : ws = <<<<"mem", <<"mem", x>>>>>>
    OBVIOUS
  <1>6. PICK g : g = [proc[p] EXCEPT !.pc = "model", !.writes = ws]
    OBVIOUS
  <1>7. CASE AddsUp(p) /\ Puts(p, g)
    <2>0. Starts(proc[p], g, "model", ws)
      BY <1>6 DEF Starts
    <2>b. Snapshot(x, fs, proc[p].m.start)
      BY <1>4 DEF Snapshot
    <2>c. fs["initrd"][1] = "initrd" /\ proc[p].m.start + Bytes(fs["initrd"]) = InitrdEnd
      BY <1>7 DEF AddsUp, Has, Content
    <2>1. \A s2, fresh2 : Tears(fs, memFresh, "mem", s2, fresh2) => ProcInv(g, s2, exe, fresh2)
      <3> SUFFICES ASSUME NEW s2, NEW fresh2, Tears(fs, memFresh, "mem", s2, fresh2)
                   PROVE  ProcInv(g, s2, exe, fresh2)
        OBVIOUS
      <3> QED BY <1>1, <1>a, <1>5, <2>0, <2>b, <2>c, MemPutOK
    <2>a. Shape(proc[p])
      BY <1>a DEF ProcInv
    <2>2. g.writes = ws
      BY <2>0, <2>a, WritesOn
    <2>3. g.writes # <<>> /\ Head(g.writes)[1] = "mem" /\ "mem" \in Files \ Reports
      BY <1>5, <2>2 DEF Files, Reports
    <2> QED BY <1>7, <2>1, <2>3, PutStep
  <1> QED BY <1>2, <1>3, <1>4, <1>5, <1>6, <1>7 DEF WriteMemoryImage, Content

LEMMA ProfileIs ==
  ASSUME NEW p \in Procs
  PROVE  Profile(p) = ProfileOf(proc[p])
  BY DEF Profile, ProfileOf, Mode, Req

LEMMA BuildModelStep ==
  ASSUME IInv, NEW p \in Procs, BuildModel(p)
  PROVE  IInv'
  <1>1. proc[p].pc = "model" /\ proc[p].writes = <<>> /\ UNCHANGED NoFile
    BY DEF BuildModel, At
  <1>2. /\ ProcInv(proc[p], fs, exe, memFresh) /\ ExeInv(exe, src.rtl)
        /\ \A k \in DOMAIN Versions : src[k] \in Versions[k]
    BY Known
  <1>3. CASE Exits(p, 2)
    BY <1>1, <1>3, QuietExit
  <1>4. PICK rtl : rtl = src.rtl
    OBVIOUS
  <1>5. PICK x : x = exe[ProfileOf(proc[p])]
    OBVIOUS
  <1>6. PICK fr : fr = (x # NoExe /\ x.fresh /\ ~proc[p].req.rebuild)
    OBVIOUS
  <1>7. PICK clean : clean = (proc[p].clean /\ ~(fr /\ x.mixed))
    OBVIOUS
  <1>8. PICK pc : pc = IF fr THEN "start" ELSE "compile"
    OBVIOUS
  <1>9. PICK g : g = [proc[p] EXCEPT !.want = rtl, !.clean = clean, !.pc = pc]
    OBVIOUS
  <1>10. CASE Steps(p, g)
    <2>1. rtl \in Versions["rtl"]
      BY <1>2, <1>4, VersionAssumption
    <2>2. clean \in BOOLEAN /\ (clean => proc[p].clean)
      BY <1>7, Zenon
    <2>3. \/ pc = "compile"
          \/ pc = "start" /\ x.fresh /\ (clean => ~x.mixed)
      BY <1>6, <1>7, <1>8
    <2>4. ProcInv(g, fs, exe, memFresh)
      BY <1>1, <1>2, <1>4, <1>5, <1>9, <2>1, <2>2, <2>3, BuildModelOK
    <2> QED BY <1>1, <1>10, <2>4, QuietMove
  <1>11. Steps(p, g) \/ Exits(p, 2)
    <2>1. Profile(p) = ProfileOf(proc[p])
      BY ProfileIs
    <2> QED BY <1>4, <1>5, <1>6, <1>7, <1>8, <1>9, <2>1 DEF BuildModel, Req
  <1> QED BY <1>3, <1>10, <1>11

LEMMA CompileStep ==
  ASSUME IInv, NEW p \in Procs, Compile(p)
  PROVE  IInv'
  <1>1. proc[p].pc = "compile" /\ proc[p].writes = <<>>
        /\ UNCHANGED <<fs, memFresh, src, edits, crashes>>
    BY DEF Compile, At
  <1>2. /\ ProcInv(proc[p], fs, exe, memFresh) /\ ExeInv(exe, src.rtl) /\ FileInv(fs)
        /\ MemInv(fs, memFresh) /\ memFresh \in BOOLEAN /\ crashes \in 0..MaxCrashes
    BY Known
  <1>3. CASE Exits(p, 2) /\ UNCHANGED exe
    BY <1>1, <1>2, <1>3, ExitStep
  <1>4. PICK mixed : mixed = (src.rtl # proc[p].want)
    OBVIOUS
  <1>5. PICK clean : clean = (proc[p].clean /\ ~mixed)
    OBVIOUS
  <1>6. PICK g : g = [proc[p] EXCEPT !.pc = "start", !.clean = clean]
    OBVIOUS
  <1>7. PICK rtl : rtl = src.rtl
    OBVIOUS
  <1>8. CASE /\ \E v \in {proc[p].want, src.rtl} :
                  exe' = [exe EXCEPT ![Profile(p)] = [ver |-> v, fresh |-> TRUE, mixed |-> mixed]]
             /\ Disturbs(p, g)
    <2>1. PICK v \in {proc[p].want, src.rtl} :
            exe' = [exe EXCEPT ![Profile(p)] = [ver |-> v, fresh |-> TRUE, mixed |-> mixed]]
      BY <1>8
    <2>2. PICK x : x = [ver |-> v, fresh |-> TRUE, mixed |-> mixed]
      OBVIOUS
    <2>3. PICK e2 : e2 = exe'
      OBVIOUS
    <2>4. Replaces(exe, e2, ProfileOf(proc[p]), x)
      BY <2>1, <2>2, <2>3, ProfileIs DEF Replaces
    <2>5. /\ mixed \in BOOLEAN /\ (mixed <=> rtl # proc[p].want)
          /\ clean \in BOOLEAN /\ (clean => proc[p].clean /\ rtl = proc[p].want)
      BY <1>4, <1>5, <1>7, Zenon
    <2>6. (v = proc[p].want \/ v = rtl) /\ ExeInv(exe, rtl)
      BY <1>2, <1>7
    <2>a. x = Model(x) /\ x.ver = v /\ x.mixed = mixed
      BY <2>2 DEF Model
    <2>b. Compiled(x, v, rtl, proc[p].want)
      BY <2>5, <2>a DEF Compiled
    <2>c. Shape(proc[p])
      BY <1>2 DEF ProcInv
    <2>d. g.clean = clean
      BY <1>6, <2>c DEF Shape, Record
    <2>e. Resumes(proc[p], g, "start") /\ g.clean \in BOOLEAN /\ (g.clean => proc[p].clean /\ rtl = proc[p].want)
      BY <1>6, <2>5, <2>d DEF Resumes
    <2>7. ProcInv(g, fs, e2, memFresh) /\ ExeInv(e2, rtl)
      BY <1>1, <1>2, <2>4, <2>6, <2>b, <2>e, CompileOK
    <2>8. Kept(fs, fs)
      BY DEF Kept
    <2> QED BY <1>1, <1>2, <1>7, <1>8, <2>3, <2>7, <2>8, WriteStep
  <1> QED BY <1>3, <1>4, <1>5, <1>6, <1>8 DEF Compile

\* The files but the reports, and the reports but those of new, are as they were.
LEMMA WritesOnly ==
  ASSUME NEW p, NEW new, NEW g, Writes(p, new, g)
  PROVE  /\ \A f \in Files \ DOMAIN new : fs'[f] = fs[f]
         /\ \A f \in Files \cap DOMAIN new : fs'[f] = new[f]
  BY DEF Writes

LEMMA StartTbStep ==
  ASSUME IInv, NEW p \in Procs, StartTb(p)
  PROVE  IInv'
  <1>1. proc[p].pc = "start" /\ proc[p].writes = <<>>
    BY DEF StartTb, At
  <1>2. ProcInv(proc[p], fs, exe, memFresh) /\ FileInv(fs) /\ MemInv(fs, memFresh)
    BY Known
  <1>3. PICK S : S = {"uart"} \cup (IF Mode(p) = "difftest" THEN {"trace"} ELSE {})
    OBVIOUS
  <1>4. PICK new : new = [f \in S |-> Torn]
    OBVIOUS
  <1>5. PICK l : l = [mem |-> fs["mem"], rom |-> fs["rom"], ver |-> exe[ProfileOf(proc[p])].ver]
    OBVIOUS
  <1>6. PICK g : g = [proc[p] EXCEPT !.pc = "tb", !.loaded = l]
    OBVIOUS
  <1>7. Writes(p, new, g)
    BY <1>3, <1>4, <1>5, <1>6, ProfileIs DEF StartTb, Content
  <1>8. DOMAIN new \subseteq Reports /\ "spike" \in Files \ DOMAIN new
    BY <1>3, <1>4 DEF Reports, Files
  <1>9. SpikeFile(fs'["spike"])
    BY <1>2, <1>7, <1>8, WritesOnly DEF FileInv
  <1>10. \A s2 : s2 = fs' /\ SameImages(fs, s2) => ProcInv(g, s2, exe, memFresh)
    BY <1>1, <1>2, <1>5, <1>6, StartTbOK
  <1> QED BY <1>7, <1>8, <1>9, <1>10, ReportStep

LEMMA BootEndsStep ==
  ASSUME IInv, NEW p \in Procs, BootEnds(p)
  PROVE  IInv'
  <1>1. proc[p].pc = "tb" /\ proc[p].writes = <<>> /\ Head(proc[p].todo) = "rtl"
    BY DEF BootEnds, At, Mode
  <1>2. ProcInv(proc[p], fs, exe, memFresh) /\ FileInv(fs)
    BY Known
  <1>3. CASE Exits(p, 2) /\ UNCHANGED NoFile
    BY <1>3, QuietExit
  <1>a. ASSUME NEW c, NEW new, new = [uart |-> <<"uart", c>>], NEW g, Writes(p, new, g)
        PROVE  /\ DOMAIN new \subseteq Reports /\ SpikeFile(fs'["spike"])
               /\ fs'["uart"] = <<"uart", c>>
    <2>1. DOMAIN new = {"uart"} /\ new["uart"] = <<"uart", c>>
      BY <1>a
    <2>2. "spike" \in Files \ DOMAIN new /\ "uart" \in Files \cap DOMAIN new
      BY <2>1 DEF Files, Reports
    <2>3. fs'["spike"] = fs["spike"] /\ fs'["uart"] = <<"uart", c>>
      BY <1>a, <2>1, <2>2, WritesOnly
    <2> QED BY <1>2, <2>1, <2>3 DEF FileInv, Reports
  <1>4. PICK d : d = Core[proc[p].loaded.ver][ProfileOf(proc[p])]
    OBVIOUS
  <1>5. CASE /\ d.end = "pass" /\ Bootable(proc[p].loaded)
             /\ Writes(p, [uart |-> <<"uart", d.console>>], [proc[p] EXCEPT !.pc = "report"])
    <2>1. PICK new : new = [uart |-> <<"uart", d.console>>]
      OBVIOUS
    <2>2. PICK g : g = [proc[p] EXCEPT !.pc = "report"]
      OBVIOUS
    <2>3. Writes(p, new, g)
      BY <1>5, <2>1, <2>2
    <2>4. /\ DOMAIN new \subseteq Reports /\ SpikeFile(fs'["spike"])
          /\ fs'["uart"] = <<"uart", d.console>>
      BY <1>a, <2>1, <2>3
    <2>5. \A s2 : s2 = fs' /\ SameImages(fs, s2) => ProcInv(g, s2, exe, memFresh)
      <3> SUFFICES ASSUME NEW s2, s2 = fs', SameImages(fs, s2) PROVE ProcInv(g, s2, exe, memFresh)
        OBVIOUS
      <3>1. Ready(proc[p], s2)
        BY <1>4, <1>5, <2>4 DEF Ready
      <3> QED BY <1>1, <1>2, <2>2, <3>1, BootEndsOK
    <2> QED BY <2>3, <2>4, <2>5, ReportStep
  <1>6. CASE Writes(p, [uart |-> <<"uart", <<>>>>], Failed(p, 2))
    <2>1. PICK new : new = [uart |-> <<"uart", <<>>>>]
      OBVIOUS
    <2>2. PICK g : g = Failed(p, 2)
      OBVIOUS
    <2>3. Writes(p, new, g)
      BY <1>6, <2>1, <2>2
    <2>4. DOMAIN new \subseteq Reports /\ SpikeFile(fs'["spike"])
      BY <1>a, <2>1, <2>3
    <2>5. \A s2 : s2 = fs' /\ SameImages(fs, s2) => ProcInv(g, s2, exe, memFresh)
      <3>1. g = [Idle EXCEPT !.pc = "done", !.exit = 2, !.req = Req(p)]
        BY <2>2 DEF Failed
      <3>2. \A s2 : ProcInv(g, s2, exe, memFresh)
        BY <3>1, FailedOK
      <3> QED BY <3>2
    <2> QED BY <2>3, <2>4, <2>5, ReportStep
  <1> QED BY <1>3, <1>4, <1>5, <1>6, ProfileIs DEF BootEnds, Does

\* The console and the commits a firmware run leaves.
Dumps(new, v, off, n) ==
  new = [uart |-> <<"uart", <<>>>>, trace |-> <<"trace", SubSeq(DutStream(v, off), 1, n)>>]

LEMMA FirmwareEndsStep ==
  ASSUME IInv, NEW p \in Procs, FirmwareEnds(p)
  PROVE  IInv'
  <1>1. proc[p].pc = "tb" /\ proc[p].writes = <<>> /\ Head(proc[p].todo) = "difftest"
    BY DEF FirmwareEnds, At, Mode
  <1>2. ProcInv(proc[p], fs, exe, memFresh) /\ FileInv(fs)
    BY Known
  <1>3. CASE Exits(p, 2) /\ UNCHANGED NoFile
    BY <1>3, QuietExit
  <1>4. PICK l : l = proc[p].loaded
    OBVIOUS
  <1>5. PICK c : c = Core[l.ver]["fw_beat"]
    OBVIOUS
  <1>6. PICK vs : vs = IF FwIntact(l) THEN {l.mem[2].fw[2]} ELSE DOMAIN FwGolden
    OBVIOUS
  <1>7. ASSUME NEW v \in vs, NEW n \in 0..FwSync, FwIntact(l) => (c.end = "pass" => n = FwSync),
               NEW pc \in {"report", "golden"}, NEW new, Dumps(new, v, c.off, n),
               NEW g, g = [proc[p] EXCEPT !.pc = pc, !.n = n], Writes(p, new, g)
        PROVE  IInv'
    <2>1. PICK t : t = <<"trace", SubSeq(DutStream(v, c.off), 1, n)>>
      OBVIOUS
    <2>2. DOMAIN new = {"uart", "trace"} /\ new["trace"] = t
      BY <1>7, <2>1 DEF Dumps
    <2>3. "spike" \in Files \ DOMAIN new /\ "trace" \in Files \cap DOMAIN new
      BY <2>2 DEF Files, Reports
    <2>4. fs'["spike"] = fs["spike"] /\ fs'["trace"] = t
      BY <1>7, <2>2, <2>3, WritesOnly
    <2>5. SpikeFile(fs'["spike"]) /\ DOMAIN new \subseteq Reports
      BY <1>2, <2>2, <2>4 DEF FileInv, Reports
    <2>a. FwIntact(l) => vs = {l.mem[2].fw[2]}
      BY <1>6
    <2>6. FwIntact(l) => v = l.mem[2].fw[2]
      BY <2>a
    <2>7. \A s2 : s2 = fs' /\ SameImages(fs, s2) => ProcInv(g, s2, exe, memFresh)
      <3> SUFFICES ASSUME NEW s2, s2 = fs', SameImages(fs, s2) PROVE ProcInv(g, s2, exe, memFresh)
        OBVIOUS
      <3>1. FwIntact(l) =>
              s2["trace"] = <<"trace", SubSeq(DutStream(l.mem[2].fw[2], c.off), 1, n)>>
        BY <2>1, <2>4, <2>6
      <3> QED BY <1>1, <1>2, <1>4, <1>5, <1>7, <3>1, FirmwareEndsOK, ZenonT(30)
    <2> QED BY <1>7, <2>5, <2>7, ReportStep
  <1>8. Does(p) = c
    <2>1. ProfileOf(proc[p]) = "fw_beat"
      BY <1>1 DEF ProfileOf
    <2> QED BY <1>4, <1>5, <2>1, ProfileIs DEF Does
  <1>9. FwSync \in Nat
    BY GoldenAssumption
  <1>10. CASE /\ c.end = "pass" /\ FwIntact(l)
              /\ \E v \in vs : \E new : /\ Dumps(new, v, c.off, FwSync)
                   /\ Writes(p, new, [proc[p] EXCEPT !.pc = "report", !.n = FwSync])
    <2>0. PICK v \in vs : \E new : /\ Dumps(new, v, c.off, FwSync)
                               /\ Writes(p, new, [proc[p] EXCEPT !.pc = "report", !.n = FwSync])
      BY <1>10
    <2>1. PICK new : /\ Dumps(new, v, c.off, FwSync)
                     /\ Writes(p, new, [proc[p] EXCEPT !.pc = "report", !.n = FwSync])
      BY <2>0
    <2>2. FwSync \in 0..FwSync
      BY <1>9
    <2> QED BY <1>7, <2>1, <2>2
  <1>11. CASE /\ ~(c.end = "pass" /\ FwIntact(l))
              /\ \E v \in vs, n \in 0..(FwSync - 1) : \E new : /\ Dumps(new, v, c.off, n)
                   /\ Writes(p, new, [proc[p] EXCEPT !.pc = "golden", !.n = n])
    <2>0. PICK v \in vs, n \in 0..(FwSync - 1) : \E new : /\ Dumps(new, v, c.off, n)
                               /\ Writes(p, new, [proc[p] EXCEPT !.pc = "golden", !.n = n])
      BY <1>11
    <2>1. PICK new : /\ Dumps(new, v, c.off, n)
                     /\ Writes(p, new, [proc[p] EXCEPT !.pc = "golden", !.n = n])
      BY <2>0
    <2>2. n \in 0..FwSync
      BY <1>9
    <2>3. FwIntact(l) => (c.end = "pass" => n = FwSync)
      BY <1>11
    <2> QED BY <1>7, <2>1, <2>2, <2>3
  <1> QED BY <1>3, <1>4, <1>6, <1>8, <1>10, <1>11 DEF FirmwareEnds, Dumps

LEMMA ReportOfStep ==
  ASSUME IInv, NEW p \in Procs, Report(p)
  PROVE  IInv'
  <1>1. proc[p].pc = "report" /\ proc[p].writes = <<>> /\ UNCHANGED NoFile
    BY DEF Report, At
  <1>2. ProcInv(proc[p], fs, exe, memFresh)
    BY Known
  <1>3. CASE Exits(p, 2)
    BY <1>1, <1>3, QuietExit
  <1>4. CASE Head(proc[p].todo) = "difftest" /\ Goes(p, "golden")
    <2>1. PICK g : g = [proc[p] EXCEPT !.pc = "golden"]
      OBVIOUS
    <2>2. Steps(p, g)
      BY <1>4, <2>1 DEF Goes
    <2>3. ProcInv(g, fs, exe, memFresh)
      BY <1>1, <1>2, <1>4, <2>1, ToGoldenOK
    <2> QED BY <1>1, <2>2, <2>3, QuietMove
  <1>5. PICK c : c = fs["uart"][2]
    OBVIOUS
  <1>6. ASSUME Head(proc[p].todo) # "difftest", Evidence(p, c), proc[p].clean
        PROVE  Booted(BootOf(proc[p]), proc[p].loaded) /\ c = BootOf(proc[p]).console
    <2>1. PICK d : d = Core[proc[p].loaded.ver][ProfileOf(proc[p])]
      OBVIOUS
    <2>2. d.clean /\ d.faults /\ \E i \in DOMAIN c : c[i] = SpikeConsole[Len(SpikeConsole)]
      BY <1>6, <2>1, ProfileIs DEF Evidence, Does
    <2> QED BY <1>1, <1>2, <1>5, <1>6, <2>1, <2>2, ReportSees
  <1>7. PICK g : g = [proc[p] EXCEPT !.pc = "console", !.console = c]
    OBVIOUS
  <1>8. CASE /\ Head(proc[p].todo) # "difftest" /\ Evidence(p, c)
             /\ "spike" \in ToSet(proc[p].req.modes) /\ Steps(p, g)
    <2>1. proc[p].clean => Booted(BootOf(proc[p]), proc[p].loaded) /\ c = BootOf(proc[p]).console
      BY <1>6, <1>8
    <2>2. ProcInv(g, fs, exe, memFresh)
      BY <1>1, <1>2, <1>7, <1>8, <2>1, ToConsoleOK
    <2> QED BY <1>1, <1>8, <2>2, QuietMove
  <1>9. CASE /\ Head(proc[p].todo) # "difftest" /\ Evidence(p, c)
             /\ "spike" \notin ToSet(proc[p].req.modes) /\ Steps(p, Done(p, proc[p]))
    <2>1. proc[p].clean => Booted(BootOf(proc[p]), proc[p].loaded)
      BY <1>6, <1>9
    <2>2. PICK h : h = Done(p, proc[p])
      OBVIOUS
    <2>3. NextOf(proc[p], h)
      BY <2>2 DEF Done, NextOf
    <2>4. ProcInv(h, fs, exe, memFresh)
      BY <1>1, <1>2, <1>9, <2>1, <2>3, ReportDoneOK
    <2> QED BY <1>1, <1>9, <2>2, <2>4, QuietMove
  <1> QED BY <1>3, <1>4, <1>5, <1>7, <1>8, <1>9 DEF Report, Mode, Req, Content

LEMMA CompareConsoleStep ==
  ASSUME IInv, NEW p \in Procs, CompareConsole(p)
  PROVE  IInv'
  <1>1. proc[p].pc = "console" /\ proc[p].writes = <<>> /\ UNCHANGED NoFile
    BY DEF CompareConsole, At
  <1>2. ProcInv(proc[p], fs, exe, memFresh) /\ FileInv(fs)
    BY Known
  <1>3. PICK spike : Printed(fs["spike"], spike)
    BY DEF Printed
  <1>4. PICK match : match = IF ConsoleMatch(spike, proc[p].console) THEN "yes" ELSE "no"
    OBVIOUS
  <1>5. PICK g : Answered(proc[p], g, match)
    BY DEF Answered
  <1>b. PICK f : f = [proc[p] EXCEPT !.console = <<>>, !.match = match]
    OBVIOUS
  <1>6. Done(p, f) = g
    BY <1>5, <1>b DEF Answered, Done
  <1>7. Steps(p, g)
    BY <1>3, <1>4, <1>6, <1>b DEF CompareConsole, Content, Printed
  <1>8. match = "yes" => ConsoleMatch(spike, proc[p].console)
    BY <1>4
  <1>9. ProcInv(g, fs, exe, memFresh)
    BY <1>1, <1>2, <1>3, <1>5, <1>8, CompareConsoleOK
  <1> QED BY <1>1, <1>7, <1>9, QuietMove

LEMMA GoldenStep ==
  ASSUME IInv, NEW p \in Procs, GoldenCommits(p)
  PROVE  IInv'
  <1>1. proc[p].pc = "golden" /\ proc[p].writes = <<>>
    BY DEF GoldenCommits, At
  <1>2. ProcInv(proc[p], fs, exe, memFresh) /\ FileInv(fs)
    BY Known
  <1>3. CASE (\E code \in {1, 2} : Exits(p, code)) /\ UNCHANGED NoFile
    BY <1>3, QuietExit
  <1>4. PICK c : c = <<"golden", Budget(FwGolden[fs["elf"][2]], proc[p].n + Slack)>>
    OBVIOUS
  <1>5. PICK new : new = [golden |-> c]
    OBVIOUS
  <1>6. PICK g : g = [proc[p] EXCEPT !.pc = "difftest"]
    OBVIOUS
  <1>7. CASE Whole("elf") /\ Writes(p, new, g)
    <2>1. DOMAIN new = {"golden"} /\ new["golden"] = c
      BY <1>5
    <2>2. {"spike", "trace"} \subseteq Files \ DOMAIN new /\ "golden" \in Files \cap DOMAIN new
      BY <2>1 DEF Files, Reports
    <2>3. fs'["spike"] = fs["spike"] /\ fs'["trace"] = fs["trace"] /\ fs'["golden"] = c
      BY <1>7, <2>1, <2>2, WritesOnly
    <2>4. SpikeFile(fs'["spike"]) /\ DOMAIN new \subseteq Reports
      BY <1>2, <2>1, <2>3 DEF FileInv, Reports
    <2>5. ~Lacks(fs["elf"])
      BY <1>7 DEF Whole, Content, Lacks
    <2>6. \A s2 : s2 = fs' /\ SameImages(fs, s2) => ProcInv(g, s2, exe, memFresh)
      BY <1>1, <1>2, <1>4, <1>6, <2>3, <2>5, GoldenOK
    <2> QED BY <1>7, <2>4, <2>6, ReportStep
  <1> QED BY <1>3, <1>4, <1>5, <1>6, <1>7 DEF GoldenCommits, Content

LEMMA DifftestStep ==
  ASSUME IInv, NEW p \in Procs, RunDifftest(p)
  PROVE  IInv'
  <1>1. proc[p].pc = "difftest" /\ proc[p].writes = <<>> /\ UNCHANGED NoFile
    BY DEF RunDifftest, At
  <1>2. ProcInv(proc[p], fs, exe, memFresh)
    BY Known
  <1>4. CASE /\ FirmwareMatches(fs["golden"][2], fs["trace"][2], proc[p].n)
             /\ Steps(p, Done(p, proc[p]))
    <2>2. PICK h : h = Done(p, proc[p])
      OBVIOUS
    <2>3. NextOf(proc[p], h)
      BY <2>2 DEF Done, NextOf
    <2>4. ProcInv(h, fs, exe, memFresh)
      BY <1>1, <1>2, <1>4, <2>3, DifftestDoneOK
    <2> QED BY <1>1, <1>4, <2>2, <2>4, QuietMove
  <1>5. ASSUME NEW why,
               why = "mismatch" => \/ fs["trace"] = Torn
                                   \/ ~FirmwareMatches(fs["golden"][2], fs["trace"][2], proc[p].n),
               Steps(p, [proc[p] EXCEPT !.pc = "done", !.exit = 2, !.verdict = why])
        PROVE  IInv'
    <2>1. PICK g : g = [proc[p] EXCEPT !.pc = "done", !.exit = 2, !.verdict = why]
      OBVIOUS
    <2>2. ProcInv(g, fs, exe, memFresh)
      BY <1>1, <1>2, <1>5, <2>1, MismatchOK
    <2> QED BY <1>1, <1>5, <2>1, <2>2, QuietMove
  <1>6. CASE Steps(p, [proc[p] EXCEPT !.pc = "done", !.exit = 2, !.verdict = "failed"])
    BY <1>5, <1>6
  <1>7. CASE /\ fs["trace"] = Torn \/ ~FirmwareMatches(fs["golden"][2], fs["trace"][2], proc[p].n)
             /\ Steps(p, [proc[p] EXCEPT !.pc = "done", !.exit = 2, !.verdict = "mismatch"])
    BY <1>5, <1>7
  <1> QED BY <1>4, <1>6, <1>7 DEF RunDifftest, Content

LEMMA RunnerStepOK ==
  ASSUME IInv, NEW p \in Procs, RunnerStep(p)
  PROVE  IInv'
  BY ImagesStep, BuildTimeoutStep, LoadStep, NextModeStep, SpikeStep, MemoryStep, BuildModelStep,
     CompileStep, StartTbStep, BootEndsStep, FirmwareEndsStep, ReportOfStep, CompareConsoleStep,
     GoldenStep, DifftestStep, EndsStep DEF RunnerStep

-----------------------------------------------------------------------------
(* Commands start, are killed, and meet edits                               *)

\* A command that starts finds nobody at work, or leaves the files alone.
LEMMA BeginStep ==
  ASSUME IInv, NEW p \in Procs, NEW q \in Requests, Begin(p, q)
  PROVE  IInv'
  <1>1. /\ FileInv(fs) /\ MemInv(fs, memFresh) /\ ExeInv(exe, src.rtl) /\ SourceInv
        /\ \A r \in Procs : ProcInv(proc[r], fs, exe, memFresh)
    BY IInvParts
  <1>2. PICK active : active = {r \in Procs : proc[r].pc \notin {"idle", "done"}}
    OBVIOUS
  <1>3. PICK pc : pc = [build |-> "opensbi", check |-> "check", run |-> "images"][q.prog]
    OBVIOUS
  <1>4. PICK ps : ps = IF q.prog = "build" THEN src ELSE <<>>
    OBVIOUS
  <1>5. PICK g : g = [Idle EXCEPT !.req = q, !.pc = pc, !.pins = ps]
    OBVIOUS
  <1>6. PICK s2 : s2 = fs'
    OBVIOUS
  <1>7. /\ proc' = [r \in Procs |-> IF r = p THEN g ELSE IF proc[r].pc = "done" THEN Retired ELSE proc[r]]
        /\ s2 = [f \in Files |-> IF f \in Reports /\ active = {} THEN Missing ELSE fs[f]]
        /\ UNCHANGED <<memFresh, Rest>>
    BY <1>2, <1>3, <1>4, <1>5, <1>6 DEF Begin
  <1>8. memFresh' = memFresh /\ exe' = exe /\ src' = src /\ edits' = edits /\ crashes' = crashes
    BY <1>7 DEF Rest
  <1>9. s2 = [f \in Files |-> s2[f]] /\ SameImages(fs, s2)
    BY <1>7 DEF SameImages
  <1>10. /\ s2["kernel.apk"] = fs["kernel.apk"] /\ s2["busybox.apk"] = fs["busybox.apk"]
         /\ s2["fw"] = fs["fw"] /\ s2["elf"] = fs["elf"] /\ s2["kernel"] = fs["kernel"]
         /\ s2["initrd"] = fs["initrd"] /\ s2["dtb"] = fs["dtb"] /\ s2["rom"] = fs["rom"]
         /\ s2["manifest"] = fs["manifest"] /\ s2["mem"] = fs["mem"]
    BY <1>9 DEF SameImages, Files, Reports
  <1>11. SpikeFile(s2["spike"])
    <2>1. "spike" \in Files
      BY DEF Files, Reports
    <2> QED BY <1>1, <1>7, <2>1 DEF FileInv, SpikeFile
  <1>12. FileInv(s2)
    BY <1>1, <1>9, <1>10, <1>11 DEF FileInv, Inputs
  <1>13. MemInv(s2, memFresh)
    BY <1>1, <1>10 DEF MemInv, Inputs
  <1>14. ProcInv(g, s2, exe, memFresh)
    <2>1. \/ q.prog = "build" /\ pc = "opensbi"
          \/ q.prog = "check" /\ pc = "check"
          \/ q.prog = "run" /\ pc = "images"
      BY <1>3, RequestAssumption
    <2>2. \A k \in DOMAIN Versions : src[k] \in Versions[k]
      BY <1>1 DEF SourceInv
    <2>3. q.prog = "build" => ps = src
      BY <1>4
    <2> QED BY <1>5, <2>1, <2>2, <2>3, BegunOK
  <1>15. ASSUME NEW r \in Procs PROVE ProcInv(proc'[r], s2, exe, memFresh)
    <2>1. CASE r = p
      BY <1>7, <1>14, <2>1
    <2>2. CASE r # p /\ proc[r].pc = "done"
      BY <1>7, <2>2, RetiredOK
    <2>3. CASE r # p /\ proc[r].pc = "idle"
      <3>1. proc'[r] = Idle
        BY <1>1, <1>7, <2>3 DEF ProcInv, Shape
      <3> QED BY <3>1, IdleOK
    <2>4. CASE r # p /\ proc[r].pc \notin {"idle", "done"}
      <3>1. active # {}
        BY <1>2, <2>4
      <3>2. s2 = fs
        BY <1>1, <1>7, <3>1 DEF FileInv
      <3> QED BY <1>1, <1>7, <2>4, <3>2
    <2> QED BY <2>1, <2>2, <2>3, <2>4
  <1>16. proc' = [r \in Procs |-> proc'[r]]
    BY <1>7
  <1>17. SourceInv'
    BY <1>1, <1>8 DEF SourceInv
  <1> QED BY <1>1, <1>6, <1>8, <1>12, <1>13, <1>15, <1>16, <1>17 DEF IInv, GlobalInv

LEMMA CrashStep ==
  ASSUME IInv, NEW p \in Procs, Crash(p)
  PROVE  IInv'
  <1>1. Exits(p, Killed) /\ UNCHANGED <<fs, exe, memFresh, src, edits>> /\ crashes > 0
        /\ crashes' = crashes - 1
    BY DEF Crash
  <1>2. crashes \in 0..MaxCrashes /\ MaxCrashes \in Nat
    BY Known, VersionAssumption
  <1>3. crashes' \in 0..MaxCrashes
    BY <1>1, <1>2
  <1> QED BY <1>1, <1>3, ExitStep

\* An edit makes models stale and changes none.
LEMMA EditOK ==
  ASSUME NEW r, NEW s, NEW e, NEW fresh, ProcInv(r, s, e, fresh), NEW e2,
         \A f \in Profiles : e2[f].ver = e[f].ver
  PROVE  ProcInv(r, s, e2, fresh)
  <1>1. ProfileOf(r) \in Profiles
    BY ProfileTyped
  <1>2. ModelInv(r, s, e) => ModelInv(r, s, e2)
    BY <1>1 DEF ModelInv
  <1> QED BY <1>2 DEF ProcInv, CleanInv

LEMMA EditStep ==
  ASSUME IInv, NEW k \in {"init", "dts", "rtl"}, Edit(k)
  PROVE  IInv'
  <1>1. /\ FileInv(fs) /\ MemInv(fs, memFresh) /\ ExeInv(exe, src.rtl) /\ SourceInv
        /\ proc = [r \in Procs |-> proc[r]]
        /\ \A r \in Procs : ProcInv(proc[r], fs, exe, memFresh)
    BY IInvParts
  <1>2. /\ edits > 0 /\ edits' = edits - 1
        /\ exe' = IF k = "rtl" THEN [f \in Profiles |-> [exe[f] EXCEPT !.fresh = FALSE]] ELSE exe
        /\ UNCHANGED <<fs, memFresh, proc, crashes>>
    BY DEF Edit
  <1>3. PICK v \in Versions[k] : src' = [src EXCEPT ![k] = v]
    BY DEF Edit
  <1>4. k \in DOMAIN Versions /\ "rtl" \in DOMAIN Versions /\ MaxEdits \in Nat
    BY VersionAssumption
  <1>5. SourceInv'
    <2>1. src' = [x \in DOMAIN Versions |-> src'[x]]
      BY <1>1, <1>3 DEF SourceInv
    <2>2. \A x \in DOMAIN Versions : src'[x] \in Versions[x]
      BY <1>1, <1>3, <1>4 DEF SourceInv
    <2>3. edits' \in 0..MaxEdits
      BY <1>1, <1>2, <1>4 DEF SourceInv
    <2> QED BY <1>1, <1>2, <2>1, <2>2, <2>3 DEF SourceInv
  <1>6. PICK e2 : e2 = exe'
    OBVIOUS
  <1>7. ExeInv(e2, src'.rtl) /\ \A f \in Profiles : e2[f].ver = exe[f].ver
    <2>1. CASE k = "rtl"
      <3>1. \A f \in Profiles : e2[f] = [exe[f] EXCEPT !.fresh = FALSE] /\ exe[f] = Model(exe[f])
        BY <1>1, <1>2, <1>6, <2>1 DEF ExeInv
      <3>2. \A f \in Profiles : /\ e2[f] = Model(e2[f]) /\ e2[f].ver = exe[f].ver
                                /\ e2[f].mixed = exe[f].mixed /\ ~e2[f].fresh
        BY <3>1 DEF Model
      <3>3. e2 = [f \in Profiles |-> e2[f]]
        BY <1>2, <1>6, <2>1
      <3> QED BY <1>1, <3>2, <3>3 DEF ExeInv
    <2>2. CASE k # "rtl"
      <3>1. e2 = exe /\ src'.rtl = src.rtl
        BY <1>1, <1>2, <1>3, <1>4, <1>6, <2>2 DEF SourceInv
      <3> QED BY <1>1, <3>1
    <2> QED BY <2>1, <2>2
  <1>8. \A r \in Procs : ProcInv(proc[r], fs, e2, memFresh)
    BY <1>1, <1>7, EditOK
  <1> QED BY <1>1, <1>2, <1>5, <1>6, <1>7, <1>8 DEF IInv, GlobalInv

-----------------------------------------------------------------------------
(* The first states                                                         *)

\* A directory with nothing in it.
LEMMA EmptyFiles ==
  ASSUME NEW s, s = [f \in Files |-> Missing], NEW fresh
  PROVE  FileInv(s) /\ MemInv(s, fresh)
  <1>1. \A f \in Files : s[f] = Missing
    OBVIOUS
  <1>2. FileInv(s)
    BY <1>1 DEF FileInv, Lacks, SpikeFile, Files, Reports
  <1>3. MemInv(s, fresh)
    <2>1. s["mem"] = Missing
      BY <1>1 DEF Files
    <2> QED BY <2>1 DEF MemInv, Missing
  <1> QED BY <1>2, <1>3

\* A directory that was built and booted.
LEMMA BuiltFiles ==
  ASSUME NEW s, s = BootedFs, NEW fresh
  PROVE  FileInv(s) /\ MemInv(s, fresh)
  <1>1. PICK fw : fw = <<"fw", 1>>
    OBVIOUS
  <1>2. PICK kernel : kernel = <<"kernel", 1>>
    OBVIOUS
  <1>3. PICK initrd : initrd = <<"initrd", 1, 1>>
    OBVIOUS
  <1>4. PICK start : start = InitrdEnd - Bytes(initrd)
    OBVIOUS
  <1>5. PICK dtb : dtb = <<"dtb", 1, start>>
    OBVIOUS
  <1>6. PICK m : m = [fw |-> fw, kernel |-> kernel, initrd |-> initrd, dtb |-> dtb,
                      start |-> start, mixed |-> FALSE]
    OBVIOUS
  <1>7. PICK x : x = [fw |-> fw, kernel |-> kernel, dtb |-> dtb, initrd |-> initrd,
                      at |-> start, mixed |-> FALSE]
    OBVIOUS
  <1>8. m.kernel = kernel
    BY <1>6
  <1>9. s = [[f \in Files |-> Missing] EXCEPT
         !["kernel.apk"] = <<"apk", "kernel.apk", 1>>,
         !["busybox.apk"] = <<"apk", "busybox.apk", 1>>,
         !["fw"] = fw, !["elf"] = fw, !["kernel"] = kernel, !["initrd"] = initrd,
         !["dtb"] = dtb, !["rom"] = <<"rom", dtb>>, !["manifest"] = <<"manifest", m>>,
         !["mem"] = <<"mem", x>>]
    BY <1>1, <1>2, <1>3, <1>4, <1>5, <1>6, <1>7, <1>8 DEF BootedFs
  <1>10. /\ s = [f \in Files |-> s[f]]
         /\ s["kernel.apk"] = <<"apk", "kernel.apk", 1>>
         /\ s["busybox.apk"] = <<"apk", "busybox.apk", 1>>
         /\ s["fw"] = fw /\ s["elf"] = fw /\ s["kernel"] = kernel /\ s["initrd"] = initrd
         /\ s["dtb"] = dtb /\ s["rom"] = <<"rom", dtb>> /\ s["manifest"] = <<"manifest", m>>
         /\ s["mem"] = <<"mem", x>> /\ s["spike"] = Missing
    BY <1>9, ZenonT(40) DEF Files, Reports
  <1>11. /\ 1 \in Versions["opensbi"] /\ 1 \in Versions["kernel.apk"] /\ 1 \in Versions["busybox.apk"]
         /\ 1 \in Versions["init"] /\ 1 \in Versions["dts"]
    BY VersionAssumption
  <1>12. start \in Int /\ start >= KernelAddr /\ Fits(start, initrd)
    <2>1. Bytes(initrd) = InitrdBytes[<<1, 1>>]
      BY <1>3 DEF Bytes
    <2>2. InitrdBytes[<<1, 1>>] \in Nat
      BY <1>11, LayoutAssumption
    <2> QED BY <1>4, <2>1, <2>2, LayoutAssumption DEF Fits
  <1>13. FwFile(fw) /\ KernelFile(kernel) /\ InitrdFile(initrd)
    BY <1>1, <1>2, <1>3, <1>11 DEF FwFile, KernelFile, InitrdFile
  <1>14. DtbFile(dtb) /\ TreeStart(dtb) = start
    BY <1>5, <1>11, <1>12 DEF DtbFile, TreeStart
  <1>15. RomFile(<<"rom", dtb>>)
    BY <1>14 DEF RomFile
  <1>16. ManifestFile(<<"manifest", m>>)
    <2>1. /\ m = Man(m) /\ m.fw = fw /\ m.kernel = kernel /\ m.initrd = initrd /\ m.dtb = dtb
          /\ m.start = start /\ m.mixed \in BOOLEAN
      BY <1>6 DEF Man
    <2>2. Described(m) /\ Sound(m)
      BY <1>12, <1>13, <1>14, <2>1 DEF Described, Sound
    <2> QED BY <2>2 DEF ManifestFile
  <1>17. MemFile(<<"mem", x>>)
    <2>1. /\ x = Image(x) /\ x.fw = fw /\ x.initrd = initrd /\ x.at = start /\ x.mixed \in BOOLEAN
      BY <1>7 DEF Image
    <2>2. Rendered(x)
      BY <1>12, <1>13, <2>1 DEF Rendered
    <2> QED BY <2>2 DEF MemFile
  <1>18. \A k \in {"kernel.apk", "busybox.apk"} : ApkFile(k, s[k])
    <2>1. ApkFile("kernel.apk", <<"apk", "kernel.apk", 1>>)
      BY <1>11 DEF ApkFile
    <2>2. ApkFile("busybox.apk", <<"apk", "busybox.apk", 1>>)
      BY <1>11 DEF ApkFile
    <2> QED BY <1>10, <2>1, <2>2
  <1>19. SpikeFile(s["spike"])
    BY <1>10 DEF SpikeFile
  <1>20. \A f \in Inputs : s[f] # Missing
    BY <1>1, <1>2, <1>3, <1>5, <1>10 DEF Inputs, Missing
  <1>21. FileInv(s)
    BY <1>10, <1>13, <1>14, <1>15, <1>16, <1>17, <1>18, <1>19, <1>20 DEF FileInv
  <1>22. MemInv(s, fresh)
    <2>1. s["mem"][2] = x /\ s["manifest"][2] = m
      BY <1>10
    <2>2. /\ x.fw = s["fw"] /\ x.kernel = s["kernel"] /\ x.dtb = s["dtb"] /\ x.initrd = s["initrd"]
          /\ x.at = m.start
      BY <1>6, <1>7, <1>10
    <2> QED BY <2>1, <2>2 DEF MemInv, Inputs
  <1> QED BY <1>21, <1>22

LEMMA InitIInv == Init => IInv
  <1> SUFFICES ASSUME Init PROVE IInv
    OBVIOUS
  <1>1. FileInv(fs) /\ MemInv(fs, memFresh) /\ memFresh \in BOOLEAN
    BY EmptyFiles, BuiltFiles DEF Init
  <1>2. PICK k \in DOMAIN Versions : \E v \in Versions[k] :
          /\ src = [[x \in DOMAIN Versions |-> 1] EXCEPT ![k] = v]
          /\ v = 1 \/ MaxEdits > 0
          /\ edits = IF v = 1 THEN MaxEdits ELSE MaxEdits - 1
    BY DEF Init
  <1>3. PICK v \in Versions[k] : /\ src = [[x \in DOMAIN Versions |-> 1] EXCEPT ![k] = v]
                                 /\ v = 1 \/ MaxEdits > 0
                                 /\ edits = IF v = 1 THEN MaxEdits ELSE MaxEdits - 1
    BY <1>2
  <1>4. SourceInv
    <2>1. src = [x \in DOMAIN Versions |-> src[x]]
      BY <1>3
    <2>2. \A x \in DOMAIN Versions : src[x] \in Versions[x]
      BY <1>3, VersionAssumption
    <2>3. edits \in 0..MaxEdits /\ crashes \in 0..MaxCrashes
      BY <1>3, VersionAssumption DEF Init
    <2> QED BY <1>1, <2>1, <2>2, <2>3 DEF SourceInv
  <1>5. ExeInv(exe, src.rtl)
    <2>1. exe = [f \in Profiles |-> IF memFresh THEN [NoExe EXCEPT !.ver = 1, !.fresh = src.rtl = 1]
                                    ELSE NoExe]
      BY DEF Init
    <2>2. /\ NoExe = Model(NoExe) /\ ~NoExe.fresh /\ NoExe.mixed \in BOOLEAN
      BY DEF NoExe, Model
    <2>3. ASSUME NEW x, x = [NoExe EXCEPT !.ver = 1, !.fresh = src.rtl = 1]
          PROVE  /\ x = Model(x) /\ x.mixed \in BOOLEAN /\ (x.fresh => x.ver = src.rtl)
      BY <2>3 DEF NoExe, Model
    <2>4. \A f \in Profiles : exe[f] = NoExe \/ exe[f] = [NoExe EXCEPT !.ver = 1, !.fresh = src.rtl = 1]
      BY <2>1
    <2>5. exe = [f \in Profiles |-> exe[f]]
      BY <2>1
    <2> QED BY <2>2, <2>3, <2>4, <2>5 DEF ExeInv
  <1>6. proc = [p \in Procs |-> Idle]
    BY DEF Init
  <1>7. \A p \in Procs : ProcInv(proc[p], fs, exe, memFresh)
    BY <1>6, IdleOK
  <1> QED BY <1>1, <1>4, <1>5, <1>6, <1>7 DEF IInv, GlobalInv
-----------------------------------------------------------------------------
(* Every step                                                               *)

LEMMA StepIInv == IInv /\ [Next]_vars => IInv'
  <1> SUFFICES ASSUME IInv, [Next]_vars PROVE IInv'
    OBVIOUS
  <1>1. ASSUME NEW p \in Procs, ProcStep(p) PROVE IInv'
    <2>1. CloseFile(p) \/ BuilderStep(p) \/ Check(p) \/ RunnerStep(p)
      BY <1>1 DEF ProcStep
    <2> QED BY <2>1, CloseFileStep, BuilderStepOK, CheckStep, RunnerStepOK
  <1>2. CASE Next
    <2>1. \/ \E p \in Procs : ProcStep(p)
          \/ \E p \in Procs : Crash(p)
          \/ \E p \in Procs : \E q \in Requests : Begin(p, q)
          \/ \E k \in {"init", "dts", "rtl"} : Edit(k)
      BY <1>2 DEF Next
    <2> QED BY <1>1, <2>1, CrashStep, BeginStep, EditStep
  <1>3. CASE UNCHANGED vars
    BY <1>3 DEF vars, IInv, GlobalInv, SourceInv
  <1> QED BY <1>2, <1>3

LEMMA IInvAlways == Spec => []IInv
  BY InitIInv, StepIInv, PTL DEF Spec

-----------------------------------------------------------------------------
(* What the reports say                                                     *)

LEMMA TypesHold == IInv => TypeOK
  <1> SUFFICES ASSUME IInv PROVE TypeOK
    OBVIOUS
  <1>1. ASSUME NEW p \in Procs
        PROVE  /\ proc[p].pc \in {"idle", "check", "done"} \cup BuilderPcs \cup RunnerPcs
               /\ proc[p].pc = "done" <=> proc[p].exit # Absent
               /\ proc[p].pc = "done" => proc[p].writes = <<>>
    <2>1. Shape(proc[p]) /\ Pending(proc[p])
      BY Known DEF ProcInv
    <2> QED BY <2>1 DEF Shape, Pending
  <1>2. ASSUME Has("manifest", "manifest"), NEW m, m = Content("manifest")[2]
        PROVE  m.start # Absent /\ \A f \in Inputs : m[f] # Missing
    <2>1. ManifestFile(fs["manifest"])
      BY <1>2, IInvParts DEF FileInv, Lacks, Missing, Torn, Has
    <2>2. Described(m)
      BY <1>2, <2>1 DEF ManifestFile, Content
    <2>3. m.start # Absent
      BY <2>2, LayoutAssumption DEF Described, Absent
    <2>4. m.fw # Missing /\ m.kernel # Missing /\ m.initrd # Missing /\ m.dtb # Missing
      BY <2>2 DEF Described, FwFile, KernelFile, InitrdFile, DtbFile, Missing, Torn
    <2> QED BY <2>3, <2>4 DEF Inputs
  <1>3. edits \in 0..MaxEdits /\ crashes \in 0..MaxCrashes
    BY IInvParts DEF SourceInv
  <1> QED BY <1>1, <1>2, <1>3 DEF TypeOK

\* A builder that is through and was left alone.
LEMMA BuilderThrough ==
  ASSUME IInv, NEW p \in Procs, Finished(p, "build")
  PROVE  /\ Content("fw") = <<"fw", Pin(p, "opensbi")>> /\ Content("elf") = Content("fw")
         /\ Content("kernel") = <<"kernel", Pin(p, "kernel.apk")>>
         /\ Content("initrd")[2] = Pin(p, "busybox.apk")
         /\ Announced(Content("dtb"), Content("initrd"))
         /\ Content("rom") = <<"rom", Content("dtb")>>
         /\ Content("manifest")[1] = "manifest" /\ Problems(Content("manifest")[2]) = {}
  <1>1. PICK r : r = proc[p]
    OBVIOUS
  <1>2. ProcInv(r, fs, exe, memFresh) /\ r.exit = 0 /\ r.clean /\ r.req.prog = "build"
    BY <1>1, Known DEF Finished, Req
  <1>3. Shape(r) /\ Pending(r) /\ BuildInv(r, fs, memFresh)
    BY <1>2 DEF ProcInv, CleanInv
  <1>4. r.pc = "done"
    BY <1>2, <1>3 DEF Shape, Absent
  <1>5. r.writes = <<>>
    BY <1>3, <1>4 DEF Pending
  <1>6. \A f, c : Holds(r, fs, f, c) => fs[f] = c
    BY <1>5, ToSetOf DEF Holds
  <1>7. \A S : Past(r, S)
    BY <1>2, <1>4 DEF Past
  <1>8. /\ fs["fw"] = <<"fw", r.pins["opensbi"]>> /\ fs["elf"] = <<"fw", r.pins["opensbi"]>>
        /\ r.m.fw = <<"fw", r.pins["opensbi"]>>
        /\ r.m.kernel = <<"kernel", r.pins["kernel.apk"]>> /\ fs["kernel"] = r.m.kernel
    BY <1>3, <1>6, <1>7 DEF BuildInv
  <1>9. /\ r.m.initrd[2] = r.pins["busybox.apk"] /\ fs["initrd"] = r.m.initrd
        /\ Fits(r.m.start, r.m.initrd)
    BY <1>3, <1>6, <1>7 DEF BuildInv
  <1>10. /\ TreeStart(r.m.dtb) = r.m.start /\ fs["dtb"] = r.m.dtb /\ fs["rom"] = <<"rom", r.m.dtb>>
         /\ fs["manifest"] = <<"manifest", r.m>>
    BY <1>3, <1>6, <1>7 DEF BuildInv
  <1>11. Announced(fs["dtb"], fs["initrd"])
    BY <1>9, <1>10 DEF Announced, Fits
  <1>12. fs["manifest"][1] = "manifest" /\ fs["manifest"][2] = r.m
    BY <1>10
  <1>13. \A f \in Inputs : fs[f] = r.m[f]
    BY <1>8, <1>9, <1>10 DEF Inputs
  <1>14. Problems(fs["manifest"][2]) = {}
    BY <1>12, <1>13 DEF Problems, Content
  <1> QED BY <1>1, <1>8, <1>9, <1>10, <1>11, <1>12, <1>14 DEF Content, Pin

\* A check that is content and was left alone.
LEMMA CheckThrough ==
  ASSUME IInv, NEW p \in Procs, Finished(p, "check"), ~Content("manifest")[2].mixed
  PROVE  (\A f \in Inputs : Whole(f)) /\ Announced(Content("dtb"), Content("initrd"))
  <1>1. PICK r : r = proc[p]
    OBVIOUS
  <1>2. ProcInv(r, fs, exe, memFresh) /\ r.exit = 0 /\ r.clean /\ r.req.prog = "check"
    BY <1>1, Known DEF Finished, Req
  <1>3. ManifestFile(fs["manifest"]) /\ \A f \in Inputs : fs[f] = fs["manifest"][2][f]
    BY <1>2 DEF ProcInv, CleanInv, CheckInv
  <1>4. PICK m : m = fs["manifest"][2]
    OBVIOUS
  <1>5. Described(m) /\ Sound(m)
    BY <1>3, <1>4 DEF ManifestFile, Content
  <1>6. /\ fs["fw"] = m.fw /\ fs["kernel"] = m.kernel /\ fs["dtb"] = m.dtb /\ fs["initrd"] = m.initrd
    BY <1>3, <1>4 DEF Inputs
  <1>7. FwFile(m.fw) /\ KernelFile(m.kernel) /\ DtbFile(m.dtb) /\ InitrdFile(m.initrd)
    BY <1>5 DEF Described, Sound
  <1>8. \A f \in Inputs : fs[f] # Missing /\ fs[f] # Torn
    BY <1>6, <1>7 DEF Inputs, FwFile, KernelFile, DtbFile, InitrdFile, Missing, Torn
  <1>9. Announced(fs["dtb"], fs["initrd"])
    BY <1>5, <1>6 DEF Sound, Announced, Fits
  <1> QED BY <1>8, <1>9 DEF Whole, Content

\* build_linux_boot.py that exits 0, and its --check, tell the truth about the
\* directory (BuildTruth): for every number of commands in it, every set of
\* pins and sources, and every kill and edit on the way.
THEOREM BuildsAreTrue == Spec => []BuildTruth
  <1>1. IInv => BuildTruth
    BY TypesHold, BuilderThrough, CheckThrough DEF BuildTruth
  <1> QED BY <1>1, IInvAlways, PTL

\* What the core runs is laid out to its end, and as the tree in the BootROM
\* says when that is the manifest's build (TreeMatchesInitrd): write_memory_image
\* never renders an image that does not add up.
THEOREM TreesFit == Spec => []TreeMatchesInitrd
  <1>1. ASSUME IInv, NEW p \in Procs, At(p, "tb"), proc[p].loaded.mem # Torn,
               NEW mem, mem = proc[p].loaded.mem[2], NEW rom, rom = proc[p].loaded.rom,
               NEW m, m = proc[p].m
        PROVE  /\ mem.at + Bytes(mem.initrd) = InitrdEnd
               /\ proc[p].clean /\ ~mem.mixed /\ ~m.mixed /\ rom = <<"rom", m.dtb>> =>
                    TreeStart(rom[2]) = mem.at
    <2>1. PICK r : r = proc[p]
      OBVIOUS
    <2>2. ProcInv(r, fs, exe, memFresh) /\ r.pc \in AfterTb /\ FileInv(fs)
      BY <1>1, <2>1, Known DEF At, AfterTb
    <2>3. /\ r.loaded.mem = Torn \/ MemFile(r.loaded.mem)
          /\ r.clean => /\ fs["manifest"] = <<"manifest", r.m>>
                        /\ r.loaded.mem[1] = "mem" /\ ~r.loaded.mem[2].mixed /\ ~r.m.mixed =>
                             r.loaded.mem[2].at = r.m.start
      BY <2>2, PastTb
    <2>4. MemFile(r.loaded.mem)
      BY <1>1, <2>1, <2>3
    <2>5. r.loaded.mem[1] = "mem" /\ Rendered(mem)
      BY <1>1, <2>1, <2>4 DEF MemFile
    <2>6. mem.at + Bytes(mem.initrd) = InitrdEnd
      BY <2>5 DEF Rendered, Fits
    <2>7. ASSUME proc[p].clean, ~mem.mixed, ~m.mixed, rom = <<"rom", m.dtb>>
          PROVE  TreeStart(rom[2]) = mem.at
      <3>1. fs["manifest"] = <<"manifest", m>> /\ mem.at = m.start
        BY <1>1, <2>1, <2>3, <2>5, <2>7
      <3>2. fs["manifest"][1] = "manifest" /\ fs["manifest"][2] = m
        BY <3>1
      <3>3. ManifestFile(fs["manifest"])
        BY <2>2, <3>2 DEF FileInv, Lacks, Missing, Torn
      <3>4. TreeStart(m.dtb) = m.start
        BY <2>7, <3>2, <3>3 DEF ManifestFile, Sound
      <3> QED BY <2>7, <3>1, <3>4
    <2> QED BY <2>6, <2>7
  <1>2. IInv => TreeMatchesInitrd
    BY <1>1 DEF TreeMatchesInitrd
  <1> QED BY <1>2, IInvAlways, PTL

LEMMA PassedIs ==
  ASSUME IInv, NEW p \in Procs, NEW mode, Passed(p, mode)
  PROVE  proc[p].clean /\ PassedMode(proc[p], mode) /\ ReportInv(proc[p], fs)
  <1>1. proc[p].clean /\ PassedMode(proc[p], mode)
    BY DEF Passed, PassedMode, Runs, Req
  <1> QED BY <1>1, Known DEF ProcInv, CleanInv

\* A boot that is reported happened, on the images that are there and on the
\* RTL that the run looked at (BootTruth).
THEOREM BootsAreTrue == Spec => []BootTruth
  <1>1. ASSUME IInv, NEW p \in Procs, Passed(p, "rtl"),
               NEW c, c = Now(p, IF Req(p).dram THEN "dram" ELSE "beat"),
               NEW l, l = proc[p].loaded
        PROVE  /\ c.end = "pass" /\ c.clean /\ c.faults
               /\ \E i \in DOMAIN c.console : c.console[i] = SpikeConsole[Len(SpikeConsole)]
               /\ Bootable(l)
               /\ ~l.mem[2].mixed => \A f \in Inputs : l.mem[2][f] = Content(f)
               /\ proc[p].match = "yes" => IsPrefix(c.console, SpikeConsole)
    <2>1. PassedMode(proc[p], "rtl") /\ ReportInv(proc[p], fs)
      BY <1>1, PassedIs
    <2>2. c = BootOf(proc[p])
      BY <1>1 DEF Now, BootOf, Req
    <2>3. /\ Booted(c, l) /\ LoadedInv(proc[p], fs)
          /\ proc[p].match = "yes" => IsPrefix(c.console, SpikeConsole)
      BY <1>1, <2>1, <2>2 DEF ReportInv
    <2>4. l.mem[1] = "mem"
      BY <2>3 DEF Booted, Bootable
    <2> QED BY <1>1, <2>3, <2>4 DEF Booted, LoadedInv, Content
  <1>2. IInv => BootTruth
    BY <1>1 DEF BootTruth
  <1> QED BY <1>2, IInvAlways, PTL

\* A firmware DiffTest that passes has compared what it counts, and one in
\* which the comparator reports a divergence has found a commit the RTL
\* computes wrong (DiffTruth).
THEOREM DiffsAreTrue == Spec => []DiffTruth
  <1>1. ASSUME IInv, NEW p \in Procs, proc[p].clean, Comparable(p)
        PROVE  /\ Passed(p, "difftest") =>
                    /\ \A i \in 1..proc[p].n : Seen(Dut(p)[i]) = Seen(FwGolden[Content("elf")[2]][i])
                    /\ Content("elf") = proc[p].loaded.mem[2].fw => Same(p)
                    /\ Now(p, "fw_beat").end = "pass" => proc[p].n = FwSync
               /\ proc[p].verdict = "mismatch" =>
                    /\ ~Same(p)
                    /\ \/ Now(p, "fw_beat").off \in 1..proc[p].n
                       \/ Content("elf") # proc[p].loaded.mem[2].fw
    <2>1. Dut(p) = DutOf(proc[p]) /\ (Same(p) <=> SameCommits(proc[p], fs))
      BY DEF Dut, DutOf, Same, SameCommits, Now, Content
    <2>2. Now(p, "fw_beat") = Core[proc[p].want]["fw_beat"]
      BY DEF Now
    <2>3. FwIntact(proc[p].loaded) /\ ReportInv(proc[p], fs)
      BY <1>1, Known DEF Comparable, ProcInv, CleanInv
    <2>4. Passed(p, "difftest") => Compared(proc[p], fs)
      BY <1>1, <2>3, PassedIs DEF ReportInv
    <2>5. proc[p].verdict = "mismatch" => Differs(proc[p], fs)
      BY <2>3 DEF ReportInv
    <2> QED BY <2>1, <2>2, <2>4, <2>5 DEF Compared, Differs, Content
  <1>2. IInv => DiffTruth
    BY <1>1 DEF DiffTruth
  <1> QED BY <1>2, IInvAlways, PTL
=============================================================================
