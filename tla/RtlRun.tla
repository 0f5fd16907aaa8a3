------------------------------- MODULE RtlRun -------------------------------
(* eth_rv_core/run_difftest.py: build the corpus and the Verilated core if  *)
(* they are missing or stale, run each program on the core, and hand its    *)
(* trace to rv_difftest.py.  Several runners may share one corpus and one   *)
(* work directory while somebody edits the sources.                         *)
(*                                                                          *)
(* What a version of the RTL does with a program (Core), and what Spike     *)
(* says of a program's ELF (Golden), are constants: the commit streams.     *)
(* The comparison is RvTrace's.                                             *)
EXTENDS RvTrace, RvImage

CONSTANTS Runners, Programs, BootProgram,
          Core,      \* RTL version -> mode -> program -> [end, commits, uart]
          Golden,    \* program -> source version -> Spike's commits
          Elfs,      \* program -> source version -> the linked ELF
          Expected,  \* program -> console payload
          Roms,      \* BootROM source -> file
          Dtb,       \* the device tree blob
          RamBase, RamBytes, RomBase, RomBytes, DtbAddr,
          Requests,  \* command lines
          MaxEdits   \* bound on edits of the sources

VARIABLES rtl,    \* [ver, mtime]: the RTL and testbench sources
          win,    \* memory window in rv_platform
          asm,    \* program -> version of its source
          elf,    \* program -> version its ELF was built from, or Absent
          exe,    \* mode -> [ver, win, mtime, mixed], or NoExe
          trace,  \* <<program, faulty>> -> commit stream, or Torn
          uart,   \* program -> console record, or TornRecord
          romhex, \* the BootROM image of the work directory, or Torn
          memhex, \* program -> its memory image there, or Torn
          clock, edits,
          run     \* runner -> its progress

Modes == {q.mode : q \in Requests}

ASSUME RequestAssumption ==
  \A q \in Requests :
    /\ q.programs \in Seq(ToSet(q.programs)) /\ q.fault \in Nat \cup {Absent}
    /\ q.uartFault \in BOOLEAN
ASSUME CoreAssumption ==
  /\ 1 \in DOMAIN Core
  /\ \A v \in DOMAIN Core, m \in Modes, x \in Programs : Core[v][m][x].commits \in Seq(Commits)
ASSUME GoldenAssumption ==
  \A x \in Programs :
    1 \in DOMAIN Golden[x] /\ \A v \in DOMAIN Golden[x] : Golden[x][v] \in Seq(Commits)

files == <<rtl, win, asm, elf, exe, clock, edits>>
images == <<romhex, memhex>>
dumps == <<trace, uart>>
vars == <<files, images, dumps, run>>

NoExe == [ver |-> Absent, win |-> Absent, mtime |-> Absent, mixed |-> FALSE]
Torn == <<>>
TornRecord == [data |-> <<>>, frames |-> Absent, clean |-> FALSE, even |-> FALSE]

-----------------------------------------------------------------------------
(* The console record and its verdict.  clean: no framing error, no         *)
(* overflow, frames of ten bit cells; even: every gap is one frame.         *)

\* Mutant: the gaps of a record without gaps are judged
Bug_UartProblems(rec, expected) ==
  \/ rec.data # expected \/ rec.frames # Len(rec.data) \/ ~rec.clean
  \/ rec.frames > 0 /\ ~rec.even

UartProblems(rec, expected) ==
  \/ rec.data # expected \/ rec.frames # Len(rec.data) \/ ~rec.clean
  \/ rec.frames > 1 /\ ~rec.even

ReportUart(rec, expected, expectFault) ==
  IF ~expectFault THEN IF UartProblems(rec, expected) THEN 1 ELSE 0
  ELSE IF expected = <<>> \/ UartProblems(rec, expected) THEN 0 ELSE 1

-----------------------------------------------------------------------------
(* Runners                                                                  *)

Idle == [pc |-> "idle", req |-> Absent, todo |-> <<>>, failures |-> 0, exit |-> Absent,
         want |-> Absent, win |-> Absent, ver |-> Absent, rec |-> TornRecord,
         rom |-> <<>>, mem |-> <<>>,  \* what its testbench has loaded
         judged |-> {},
         moved |-> FALSE,      \* a golden stream of another ELF, or none
         disturbed |-> FALSE]  \* met another runner, or a model of mixed sources

At(r, pc) == run[r].pc = pc
Req(r) == run[r].req
Mode(r) == Req(r).mode
Prog(r) == Head(run[r].todo)
Faulty(r) == Req(r).fault # Absent
Stem(r) == <<Prog(r), Faulty(r)>>
Exits(r, code) ==
  run' = [run EXCEPT ![r] = [Idle EXCEPT !.pc = "done", !.exit = code, !.req = Req(r),
            !.want = run[r].want, !.judged = run[r].judged, !.moved = run[r].moved,
            !.disturbed = run[r].disturbed]]
Goes(r, pc) == run' = [run EXCEPT ![r].pc = pc]
Busy(r) == run[r].pc \in {"image", "ready", "tb", "collect", "compare"}
HasRom(r) == Busy(r) \/ run[r].pc \in {"rom", "next"}
HasModel(r) == HasRom(r) \/ run[r].pc = "prepare"

Start(r, q) ==
  /\ At(r, "idle")
  /\ run' = [run EXCEPT ![r] = [Idle EXCEPT !.pc = "corpus", !.req = q,
                                            !.todo = q.programs, !.win = win]]
  /\ UNCHANGED <<files, images, dumps>>

\* build_corpus: a missing program builds the whole corpus, the boot program
\* has a builder of its own; what is there is never rebuilt.  A build that
\* fails has replaced the ELFs before the one it failed on.
Missing(r) == {x \in ToSet(Req(r).programs) \cap Programs : elf[x] = Absent}
Builds(r) == (IF Missing(r) \ {BootProgram} # {} THEN Programs \ {BootProgram} ELSE {})
             \cup (Missing(r) \cap {BootProgram})
Built(S) == [x \in Programs |-> IF x \in S THEN asm[x] ELSE elf[x]]
BuildCorpus(r) ==
  /\ At(r, "corpus")
  /\ \/ elf' = Built(Builds(r)) /\ Goes(r, "model")
     \/ \E S \in SUBSET Builds(r) \ {Builds(r)} : elf' = Built(S) /\ Exits(r, 2)
  /\ UNCHANGED <<rtl, win, asm, exe, clock, edits, images, dumps>>

Stale(e) == rtl.mtime > e.mtime

\* build_model up to the compiler call
CheckModel(r) ==
  LET e == exe[Mode(r)]
      fresh == e # NoExe /\ ~Req(r).rebuild /\ ~Stale(e)
  IN  /\ At(r, "model")
      /\ run' = [run EXCEPT ![r].want = rtl.ver, ![r].disturbed = @ \/ (fresh /\ e.mixed),
                            ![r].pc = IF fresh THEN "prepare" ELSE "compile"]
      /\ UNCHANGED <<files, images, dumps>>

\* the compiler has read the sources at some point of its run
Compile(r) ==
  /\ At(r, "compile")
  /\ clock' = clock + 1
  /\ \/ \E v \in {run[r].want, rtl.ver} :
          LET mixed == rtl.ver # run[r].want
          IN  /\ exe' = [exe EXCEPT ![Mode(r)] =
                   [ver |-> v, win |-> run[r].win, mtime |-> clock + 1, mixed |-> mixed]]
              /\ run' = [x \in Runners |->
                   IF x = r THEN [run[x] EXCEPT !.pc = "prepare", !.disturbed = @ \/ mixed]
                   ELSE IF HasModel(x) /\ Mode(x) = Mode(r)
                        THEN [run[x] EXCEPT !.disturbed = TRUE] ELSE run[x]]
     \/ Exits(r, 2) /\ UNCHANGED exe
  /\ UNCHANGED <<rtl, win, asm, elf, edits, images, dumps>>

\* The BootROM image, and a device tree that is there.  rom.hex is one file of
\* the work directory: it is truncated, then written, and read when a testbench
\* starts.  Two runners with different ROMs disturb the one that opened first,
\* and both if they write at once.
RomOf == [s \in DOMAIN Roms |-> RomImage(Roms[s], RomBase, RomBytes)]
OwnRom(r) == RomOf[Req(r).rom].words
OtherRom(r, x) == x # r /\ Req(x).rom # Req(r).rom
Prepare(r) ==
  /\ At(r, "prepare")
  /\ IF ~RomOf[Req(r).rom].ok THEN Exits(r, 2) /\ UNCHANGED romhex
     ELSE LET met == {x \in Runners : HasRom(x) /\ OtherRom(r, x)}
              writing == \E x \in met : At(x, "rom")
          IN  /\ romhex' = Torn
              /\ run' = [x \in Runners |->
                   IF x = r THEN [run[r] EXCEPT !.pc = "rom", !.disturbed = @ \/ writing]
                   ELSE [run[x] EXCEPT !.disturbed = @ \/ x \in met]]
  /\ UNCHANGED <<files, memhex, dumps>>

WriteRom(r) ==
  /\ At(r, "rom") /\ Goes(r, "next")
  /\ romhex' = OwnRom(r)
  /\ UNCHANGED <<files, memhex, dumps>>

\* run_rtl up to its write of the memory image, one file for a program, which it
\* opens (and truncates) once it has everything to put there.  What the ELF
\* loader refuses is not a SetupError: it ends the run with a traceback, whose
\* status is 1.
ImageOf ==
  [x \in Programs |-> [v \in DOMAIN Elfs[x] |-> LoadElf(Elfs[x][v])]]
MemoryOf ==
  [x \in Programs |-> [v \in DOMAIN Elfs[x] |-> [dtb \in BOOLEAN |->
     WindowImage(ImageOf[x][v], RamBase, RamBytes,
                 IF dtb THEN <<Segment(DtbAddr, Dtb)>> ELSE <<>>)]]]
MemImage(r, v) == MemoryOf[Prog(r)][v][Req(r).dtb]
OpenImage(r) ==
  /\ At(r, "next") /\ run[r].todo # <<>>
  /\ IF Prog(r) \notin Programs \/ elf[Prog(r)] = Absent
     THEN Exits(r, 2) /\ UNCHANGED memhex
     ELSE IF ~ImageOf[Prog(r)][elf[Prog(r)]].ok
     THEN /\ run' = [run EXCEPT ![r].pc = "done", ![r].exit = 1, ![r].moved = TRUE]
          /\ UNCHANGED memhex
     ELSE IF ~MemImage(r, elf[Prog(r)]).ok THEN Exits(r, 2) /\ UNCHANGED memhex
     ELSE LET met == {x \in Runners \ {r} : Busy(x) /\ Prog(x) = Prog(r)}
          IN  /\ run' = [x \in Runners |->
                   IF x = r THEN [run[r] EXCEPT !.pc = "image", !.ver = elf[Prog(r)],
                                                !.disturbed = @ \/ met # {}]
                   ELSE [run[x] EXCEPT !.disturbed = @ \/ x \in met]]
              /\ memhex' = [memhex EXCEPT ![Prog(r)] = Torn]
  /\ UNCHANGED <<files, romhex, dumps>>

OwnMem(r) == MemImage(r, run[r].ver).words
WriteImage(r) ==
  /\ At(r, "image") /\ Goes(r, "ready")
  /\ memhex' = [memhex EXCEPT ![Prog(r)] = OwnMem(r)]
  /\ UNCHANGED <<files, romhex, dumps>>

\* the testbench loads both images as they are now, and opens its trace and its
\* record
StartTb(r) ==
  /\ At(r, "ready")
  /\ run' = [run EXCEPT ![r].pc = "tb", ![r].mem = memhex[Prog(r)], ![r].rom = romhex,
                         ![r].disturbed = @ \/ \E x \in Runners \ {r} : At(x, "rom")]
  /\ trace' = [trace EXCEPT ![Stem(r)] = Torn]
  /\ uart' = [uart EXCEPT ![Prog(r)] = TornRecord]
  /\ UNCHANGED <<files, images>>

\* What the core does: with another runner's image, or an incomplete one, it may
\* do anything that it does with some program.
LoadedOwn(r) == run[r].mem = OwnMem(r) /\ run[r].rom = OwnRom(r)
Behaviours(r) ==
  {Core[exe[Mode(r)].ver][Mode(r)][x] : x \in IF LoadedOwn(r) THEN {Prog(r)} ELSE Programs}

\* +fault_value: the testbench corrupts one record of the dump
Faulted(s, fault) ==
  [i \in DOMAIN s |-> IF i = fault + 1 THEN [s[i] EXCEPT !.pc = @ + 90] ELSE s[i]]
\* +uart_fault: the first bit cell of frame 0 is inverted
Garbled(rec, on) == IF on /\ rec.frames > 0 THEN [rec EXCEPT !.clean = FALSE] ELSE rec

TbPasses(r, does) == does.end = "pass" /\ exe[Mode(r)].win = run[r].win

Dumps(r, does) ==
  /\ trace' = [trace EXCEPT ![Stem(r)] = Faulted(does.commits, Req(r).fault)]
  /\ uart' = [uart EXCEPT ![Prog(r)] = Garbled(does.uart, Req(r).uartFault)]
  /\ run' = [run EXCEPT ![r].pc = "collect", ![r].mem = <<>>, ![r].rom = <<>>]

\* Mutant: the call has no timeout
Bug_EndTb(r) ==
  /\ At(r, "tb")
  /\ \E does \in Behaviours(r) :
       /\ does.end # "hang"
       /\ IF TbPasses(r, does) THEN Dumps(r, does) ELSE Exits(r, 2) /\ UNCHANGED dumps
  /\ UNCHANGED <<files, images>>

\* the testbench ends, or is killed after 1800 s; only PASS goes on
EndTb(r) ==
  /\ At(r, "tb")
  /\ \E does \in Behaviours(r) :
       IF TbPasses(r, does) THEN Dumps(r, does) ELSE Exits(r, 2) /\ UNCHANGED dumps
  /\ UNCHANGED <<files, images>>

\* parse_uart_record
Collect(r) ==
  /\ At(r, "collect")
  /\ IF uart[Prog(r)] = TornRecord THEN Exits(r, 2)
     ELSE run' = [run EXCEPT ![r].pc = "compare", ![r].rec = uart[Prog(r)]]
  /\ UNCHANGED <<files, images, dumps>>

\* rv_difftest.py on the dump that is there now, against the ELF that is
\* there now
Verdict(r) ==
  LET g == Golden[Prog(r)][elf[Prog(r)]]
      d == trace[Stem(r)]
  IN  FirstDivergence(g, d, Scope(g, d, TRUE))

Caught(r) == Verdict(r)[1] = Req(r).fault

\* one program's verdict: the comparator may also fail by itself (exit 2 of
\* rv_difftest.py), which counts as a mismatch
Failures(r, compared) ==
  IF Faulty(r) THEN IF compared /\ Caught(r) THEN 0 ELSE 1
  ELSE ReportUart(run[r].rec, Expected[Prog(r)], Req(r).uartFault)
       + IF compared /\ Verdict(r)[2] = Match THEN 0 ELSE 1

\* Mutant: the last program's count replaces the others'
Bug_Compare(r, compared) ==
  /\ At(r, "compare")
  /\ run' = [run EXCEPT ![r].pc = "next", ![r].failures = Failures(r, compared),
       ![r].todo = Tail(@), ![r].rec = TornRecord, ![r].judged = @ \cup {<<Prog(r), elf[Prog(r)]>>},
       ![r].moved = @ \/ elf[Prog(r)] # run[r].ver \/ ~compared]
  /\ UNCHANGED <<files, images, dumps>>

Compare(r, compared) ==
  /\ At(r, "compare")
  /\ run' = [run EXCEPT ![r].pc = "next", ![r].failures = @ + Failures(r, compared),
       ![r].todo = Tail(@), ![r].rec = TornRecord, ![r].judged = @ \cup {<<Prog(r), elf[Prog(r)]>>},
       ![r].moved = @ \/ elf[Prog(r)] # run[r].ver \/ ~compared]
  /\ UNCHANGED <<files, images, dumps>>

Finish(r) ==
  /\ At(r, "next") /\ run[r].todo = <<>>
  /\ Exits(r, IF run[r].failures > 0 THEN 1 ELSE 0)
  /\ UNCHANGED <<files, images, dumps>>

-----------------------------------------------------------------------------
(* Edits, and the builders run by hand                                      *)

RebuildElf(x) ==
  /\ elf[x] # asm[x]
  /\ elf' = [elf EXCEPT ![x] = asm[x]]
  /\ UNCHANGED <<rtl, win, asm, exe, clock, edits, images, dumps, run>>

EditRtl ==
  /\ edits > 0
  /\ clock' = clock + 1 /\ edits' = edits - 1
  /\ \E v \in DOMAIN Core \ {rtl.ver} : rtl' = [ver |-> v, mtime |-> clock + 1]
  /\ UNCHANGED <<win, asm, elf, exe, images, dumps, run>>

EditWindow ==
  /\ edits > 0 /\ win' = win + 1
  /\ edits' = edits - 1
  /\ UNCHANGED <<rtl, asm, elf, exe, clock, images, dumps, run>>

EditProgram(x) ==
  /\ edits > 0 /\ asm[x] + 1 \in DOMAIN Golden[x]
  /\ asm' = [asm EXCEPT ![x] = @ + 1] /\ edits' = edits - 1
  /\ UNCHANGED <<rtl, win, elf, exe, clock, images, dumps, run>>

Init ==
  /\ rtl = [ver |-> 1, mtime |-> 1] /\ win = 1
  /\ asm = [x \in Programs |-> 1]
  /\ \E old \in SUBSET Programs : elf = [x \in Programs |-> IF x \in old THEN 1 ELSE Absent]
  /\ exe = [m \in Modes |-> NoExe]
  /\ trace = [s \in Programs \X BOOLEAN |-> Torn]
  /\ uart = [x \in Programs |-> TornRecord]
  /\ romhex = Torn /\ memhex = [x \in Programs |-> Torn]
  /\ clock = 1 /\ edits = MaxEdits
  /\ run = [r \in Runners |-> Idle]

RunnerStep(r) ==
  \/ BuildCorpus(r) \/ CheckModel(r) \/ Compile(r) \/ Prepare(r) \/ WriteRom(r)
  \/ OpenImage(r) \/ WriteImage(r) \/ StartTb(r) \/ EndTb(r) \/ Collect(r) \/ Finish(r)
  \/ \E compared \in BOOLEAN : Compare(r, compared)

Next == \/ \E r \in Runners : RunnerStep(r) \/ \E q \in Requests : Start(r, q)
        \/ EditRtl \/ EditWindow \/ \E x \in Programs : EditProgram(x) \/ RebuildElf(x)

\* a runner that was started is a process: it is scheduled until it exits
Spec == Init /\ [][Next]_vars /\ \A r \in Runners : WF_vars(RunnerStep(r))
-----------------------------------------------------------------------------
(* Properties                                                               *)

Pcs == {"idle", "corpus", "model", "compile", "prepare", "rom", "next", "image", "ready",
        "tb", "collect", "compare", "done"}

\* Types, and: a model on disk is never newer than the clock, and only an
\* exited run has a status.
TypeOK ==
  /\ \A m \in Modes : exe[m].mtime <= clock /\ exe[m].ver \in {Absent} \cup DOMAIN Core
  /\ \A x \in Programs : elf[x] \in {Absent} \cup 1..asm[x]
  /\ edits \in 0..MaxEdits
  /\ \A r \in Runners : /\ run[r].pc \in Pcs
                        /\ run[r].pc = "done" <=> run[r].exit # Absent

Right(r, x, v) ==
  LET c == Core[run[r].want][Mode(r)][x]
  IN  /\ c.end = "pass"
      /\ FirstDivergence(Golden[x][v], c.commits, Scope(Golden[x][v], c.commits, TRUE))[2] = Match

\* the payload, one clean frame a byte, evenly spaced
ConsoleRight(r, x) ==
  LET u == Core[run[r].want][Mode(r)][x].uart
  IN  /\ u.data = Expected[x] /\ u.frames = Len(u.data) /\ u.clean
      /\ u.frames > 1 => u.even

\* Exit 0 is about the sources as they were when the run looked at them, not
\* about a stale model, an old trace or another runner's: that RTL runs every
\* program asked for as Spike does and prints what it should.  A negative
\* control that exits 0 has shown that the check is live: in every program the
\* fault hit a commit (or the console a frame), and nothing before it diverged.
\* (A dump that ends just where the fault was to be passes for it.)
\* Not covered: an edit while the model compiles (the model is then newer than
\* the edit and is taken for fresh for ever), and two runners whose work on one
\* program overlaps, or which use rom.hex with different ROMs or while one of them
\* writes it.
PassTruth ==
  \A r \in Runners : run[r].exit = 0 /\ ~run[r].disturbed =>
    /\ ~Faulty(r) => \A x \in ToSet(Req(r).programs) : \E v \in DOMAIN Golden[x] :
         /\ <<x, v>> \in run[r].judged /\ Right(r, x, v)
         /\ ~Req(r).uartFault => ConsoleRight(r, x)
    /\ Faulty(r) => \A j \in run[r].judged :
         LET g == Golden[j[1]][j[2]]
             c == Core[run[r].want][Mode(r)][j[1]].commits
             first == FirstDivergence(g, c, Scope(g, c, TRUE))[1]
         IN  /\ Req(r).fault < Len(c) \/ (Req(r).fault = Len(c) /\ Len(c) < Len(g))
             /\ first = Absent \/ first >= Req(r).fault
    /\ ~Faulty(r) /\ Req(r).uartFault => \A j \in run[r].judged :
         Expected[j[1]] # <<>> =>
           Core[run[r].want][Mode(r)][j[1]].uart.frames > 0 \/ ~ConsoleRight(r, j[1])

\* Exit 1 is never a false alarm: some program really diverges or prints the
\* wrong thing in this RTL, unless the comparator itself failed, the ELF was
\* rebuilt between the run and its golden stream, or was refused.
FailTruth ==
  \A r \in Runners :
    run[r].exit = 1 /\ ~Faulty(r) /\ ~Req(r).uartFault /\ ~run[r].disturbed =>
      \/ run[r].moved
      \/ \E j \in run[r].judged : ~Right(r, j[1], j[2]) \/ ~ConsoleRight(r, j[1])

Whole(segs) == \A s \in ToSet(segs) : Len(s.data) % 4 = 0
Apart(segs) == \A i, j \in DOMAIN segs : i # j => ~Overlaps(segs[i], segs[j])

HexOf == [x \in Programs |-> [v \in DOMAIN Elfs[x] |-> LoadImage(ElfToHex(ImageOf[x][v]))]]
SameMemory ==
  [x \in Programs |-> [v \in DOMAIN Elfs[x] |->
     LET mem == Memory(ImageOf[x][v].segments)
         hex == Memory(HexOf[x][v].segments)
     IN  \A a \in DOMAIN mem \cup DOMAIN hex : ByteOf(hex, a) = ByteOf(mem, a)]]

\* the testbench preloads the program: every byte of every segment, the device
\* tree where the kernel is told it is, zero elsewhere, and a BootROM with the
\* stub's step count in it
Preloads(r) ==
  LET prog == Memory(ImageOf[Prog(r)][run[r].ver].segments)
      ram == Preloaded(run[r].mem, RamBase, RamBytes, 8)
      rom == Preloaded(run[r].rom, RomBase, RomBytes, 4)
      tree == Segment(DtbAddr, Dtb)
  IN  /\ \A a \in DOMAIN ram :
           ram[a] = IF a \in DOMAIN prog THEN prog[a]
                    ELSE IF Req(r).dtb /\ Holds(tree, a) THEN ByteAt(tree, a) ELSE 0
      /\ Req(r).dtb => \A a \in Span(tree) : ram[a] = ByteAt(tree, a)
      /\ rom[RomBase + 4 * RomStep] # 0

\* a fixture of build_corpus.py --hex-out gives the Python model the memory and
\* the mailbox its ELF gives Spike
HexRight(x, v) ==
  LET img == ImageOf[x][v]
      hex == HexOf[x][v]
  IN  hex.entry = img.entry /\ hex.tohost = img.tohost /\ SameMemory[x][v]

\* What an undisturbed run simulates is the program, in the window Spike is
\* given ("a stale model built with a different window cannot pass silently"):
\* the images its testbench has loaded are complete and its own, although they
\* are files of the work directory.  Disturbed runs, which met another one at
\* the program, or at rom.hex with another ROM or while it was written, may load
\* the other's image or half of one.  A hex fixture is complete if the segments
\* are whole words and do not overlap (elf_to_hex drops the bytes of an
\* incomplete word).
LoadedRight ==
  /\ TypeOK
  /\ \A r \in Runners :
       ~run[r].disturbed =>
         /\ At(r, "tb") => Preloads(r)
         /\ run[r].pc \in {"collect", "compare"} => exe[Mode(r)].win = run[r].win
  /\ \A x \in Programs : elf[x] # Absent =>
       LET img == ImageOf[x][elf[x]]
       IN  img.ok /\ Whole(img.segments) /\ Apart(img.segments) => HexRight(x, elf[x])

\* Every run that is started exits, a hanging core included: again and again
\* nobody runs (and nobody runs twice).
RunsEnd == []<>(\A r \in Runners : run[r].pc \in {"idle", "done"})
=============================================================================
