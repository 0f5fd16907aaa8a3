---------------------------- MODULE RtlRunProofs ----------------------------
(* What an exit status of run_difftest.py says, for any number of runners   *)
(* that share a corpus and a work directory, any programs, cores and edits: *)
(* PassTruth and FailTruth of RtlRun.                                       *)
EXTENDS RtlRun, WellFoundedInduction, TLAPS

-----------------------------------------------------------------------------
(* The comparison of a dump with one corrupted record                       *)

\* Max of two lengths.
LEMMA MaxOfTwo ==
  ASSUME NEW a \in Nat, NEW b \in Nat
  PROVE  Max({a, b}) \in {a, b} /\ Max({a, b}) >= a /\ Max({a, b}) >= b
  <1>1. \E x \in {a, b} : \A y \in {a, b} : x >= y
    OBVIOUS
  <1> QED BY <1>1 DEF Max

\* A set of indices has a least one.
LEMMA MinIsLeast ==
  ASSUME NEW S, S \subseteq Nat, S # {}
  PROVE  Min(S) \in S /\ \A y \in S : Min(S) <= y
  <1>1. \E x \in S : \A y \in S : ~(<<y, x>> \in OpToRel(<, Nat))
    BY NatLessThanWellFounded, WFMin
  <1>2. \A x \in Nat, y \in Nat : y < x => <<y, x>> \in OpToRel(<, Nat)
    BY Zenon DEF OpToRel
  <1>3. \E x \in S : \A y \in S : ~(y < x)
    BY <1>1, <1>2, Zenon
  <1>4. \E x \in S : \A y \in S : x <= y
    BY <1>3
  <1> QED BY <1>4 DEF Min

\* first_divergence reports the first index at which the streams differ.
LEMMA FirstIsFirst ==
  ASSUME NEW g \in Seq(Commits), NEW d \in Seq(Commits), NEW o, NEW k,
         k = FirstDivergence(g, d, o)[1], k # Absent
  PROVE  /\ k \in Nat /\ VerdictAt(g, d, k, o) # Match
         /\ k < Len(g) \/ k < Len(d)
         /\ \A i \in Nat : i < k => VerdictAt(g, d, i, o) = Match
  <1> DEFINE n == Max({Len(g), Len(d)})
             bad == {i \in 0..(n - 1) : VerdictAt(g, d, i, o) # Match}
             f == FirstDivergence(g, d, o)
  <1>1. Len(g) \in Nat /\ Len(d) \in Nat
    OBVIOUS
  <1>2. n \in Nat /\ n \in {Len(g), Len(d)} /\ n >= Len(g) /\ n >= Len(d)
    BY <1>1, MaxOfTwo
  <1>3. f = IF bad = {} THEN <<Absent, Match>> ELSE <<Min(bad), VerdictAt(g, d, Min(bad), o)>>
    BY DEF FirstDivergence
  <1> HIDE DEF n
  <1>4. bad \subseteq Nat
    BY <1>2
  <1>5. \A i : i \in bad <=> i \in 0..(n - 1) /\ VerdictAt(g, d, i, o) # Match
    OBVIOUS
  <1> HIDE DEF bad, f
  <1>6. bad # {} /\ k = Min(bad)
    BY <1>3 DEF f
  <1>7. k \in bad /\ \A y \in bad : k <= y
    BY <1>4, <1>6, MinIsLeast
  <1>8. k \in Nat /\ k < n /\ VerdictAt(g, d, k, o) # Match
    BY <1>2, <1>5, <1>7
  <1>9. ASSUME NEW i \in Nat, i < k PROVE VerdictAt(g, d, i, o) = Match
    BY <1>2, <1>5, <1>7, <1>8, <1>9
  <1>10. k < Len(g) \/ k < Len(d)
    BY <1>1, <1>2, <1>8
  <1> QED BY <1>8, <1>9, <1>10

\* A fault changes the pc of one commit and nothing else.
LEMMA FaultedStream ==
  ASSUME NEW s \in Seq(Commits), NEW k \in Nat
  PROVE  /\ Faulted(s, k) \in Seq(Commits) /\ Len(Faulted(s, k)) = Len(s)
         /\ \A i \in 1..Len(s) : i # k + 1 => Faulted(s, k)[i] = s[i]
         /\ \A g : Scope(g, Faulted(s, k), TRUE) = Scope(g, s, TRUE)
  <1> DEFINE d == Faulted(s, k)
  <1>1. DOMAIN s = 1..Len(s) /\ \A i \in DOMAIN s : s[i] \in Commits
    OBVIOUS
  <1>2. d = [i \in 1..Len(s) |-> IF i = k + 1 THEN [s[i] EXCEPT !.pc = @ + 90] ELSE s[i]]
    BY <1>1 DEF Faulted
  <1>3. \A i \in 1..Len(s) : [s[i] EXCEPT !.pc = @ + 90] \in Commits
    <2> SUFFICES ASSUME NEW c \in Commits PROVE [c EXCEPT !.pc = @ + 90] \in Commits
      BY <1>1
    <2>1. c.pc + 90 \in Int
      BY DEF Commits
    <2> QED BY <2>1 DEF Commits
  <1>4. \A i \in 1..Len(s) : d[i] \in Commits
    BY <1>1, <1>2, <1>3
  <1>5. Len(s) \in Nat
    OBVIOUS
  <1>6. d \in Seq(Commits) /\ Len(d) = Len(s)
    <2> HIDE DEF d
    <2>1. d \in [1..Len(s) -> Commits]
      BY <1>2, <1>4
    <2> QED BY <2>1, <1>5
  <1>7. \A i \in 1..Len(s) : i # k + 1 => d[i] = s[i]
    BY <1>2
  <1>8. ASSUME NEW i \in 1..Len(s)
        PROVE  /\ d[i].addr = s[i].addr /\ d[i].fp = s[i].fp
               /\ d[i].fflags = s[i].fflags /\ d[i].frm = s[i].frm
    BY <1>1, <1>2 DEF Commits
  <1>9. DOMAIN d = 1..Len(s)
    BY <1>2
  <1> HIDE DEF d
  <1>10. StreamHasMemInfo(d) <=> StreamHasMemInfo(s)
    BY <1>1, <1>8, <1>9 DEF StreamHasMemInfo, HasMemAccess
  <1>11. StreamHasFpInfo(d) <=> StreamHasFpInfo(s)
    BY <1>1, <1>8, <1>9 DEF StreamHasFpInfo, HasFpInfo
  <1>12. \A g : Scope(g, d, TRUE) = Scope(g, s, TRUE)
    BY <1>10, <1>11 DEF Scope
  <1> QED BY <1>6, <1>7, <1>12 DEF d

\* Without a fault the dump is the core's stream.
LEMMA NotFaulted ==
  ASSUME NEW s \in Seq(Commits) PROVE Faulted(s, Absent) = s
  BY DEF Faulted, Absent

\* the negative control met its fault, or a dump that ends there
Met(g, c, k) ==
  LET first == FirstDivergence(g, c, Scope(g, c, TRUE))[1]
  IN  /\ k < Len(c) \/ (k = Len(c) /\ Len(c) < Len(g))
      /\ first = Absent \/ first >= k

\* A verdict depends on the lengths and on the commits at its index.
LEMMA SameVerdict ==
  ASSUME NEW g, NEW c, NEW d, NEW o, NEW i \in Nat, Len(g) \in Nat, Len(c) \in Nat,
         Len(d) = Len(c), i < Len(c) => d[i + 1] = c[i + 1]
  PROVE  VerdictAt(g, c, i, o) = VerdictAt(g, d, i, o)
  <1>1. CASE i < Len(c)
    BY <1>1 DEF VerdictAt
  <1>2. CASE i >= Len(c)
    BY <1>2 DEF VerdictAt
  <1> QED BY <1>1, <1>2

\* The comparator reports the index of the fault only if the streams agree up
\* to there.
LEMMA CaughtIsMet ==
  ASSUME NEW g \in Seq(Commits), NEW c \in Seq(Commits), NEW k \in Nat,
         FirstDivergence(g, Faulted(c, k), Scope(g, Faulted(c, k), TRUE))[1] = k
  PROVE  Met(g, c, k)
  <1>a. PICK d : d = Faulted(c, k)
    OBVIOUS
  <1>b. PICK o : o = Scope(g, c, TRUE)
    OBVIOUS
  <1>c. PICK first : first = FirstDivergence(g, c, o)[1]
    OBVIOUS
  <1>1. /\ d \in Seq(Commits) /\ Len(d) = Len(c) /\ o = Scope(g, d, TRUE)
        /\ \A i \in 1..Len(c) : i # k + 1 => d[i] = c[i]
    BY <1>a, <1>b, FaultedStream
  <1>2. k = FirstDivergence(g, d, o)[1]
    BY <1>1, <1>a
  <1>3. /\ VerdictAt(g, d, k, o) # Match /\ (k < Len(g) \/ k < Len(d))
        /\ \A i \in Nat : i < k => VerdictAt(g, d, i, o) = Match
    <2>1. k # Absent
      BY DEF Absent
    <2>2. d \in Seq(Commits)
      BY <1>1
    <2>3. k \in Nat /\ VerdictAt(g, d, k, o) # Match
      BY <2>1, <2>2, <1>2, FirstIsFirst
    <2>4. k < Len(g) \/ k < Len(d)
      BY <2>1, <2>2, <1>2, FirstIsFirst
    <2>5. \A i \in Nat : i < k => VerdictAt(g, d, i, o) = Match
      BY <2>1, <2>2, <1>2, FirstIsFirst
    <2> QED BY <2>3, <2>4, <2>5
  <1>4. Len(g) \in Nat /\ Len(c) \in Nat
    OBVIOUS
  <1>5. ASSUME NEW i \in Nat, i < k PROVE VerdictAt(g, c, i, o) = Match
    <2>1. VerdictAt(g, d, i, o) = Match
      BY <1>3, <1>5
    <2>2. i < Len(c) => d[i + 1] = c[i + 1]
      BY <1>1, <1>4, <1>5
    <2>3. Len(d) = Len(c)
      BY <1>1
    <2>4. VerdictAt(g, c, i, o) = VerdictAt(g, d, i, o)
      BY <2>2, <2>3, <1>4, SameVerdict
    <2> QED BY <2>1, <2>4
  <1>6. first = Absent \/ first >= k
    <2>1. first # Absent => first \in Nat /\ VerdictAt(g, c, first, o) # Match
      BY <1>c, FirstIsFirst
    <2> QED BY <2>1, <1>5
  <1>7. ASSUME ~(k < Len(c)) PROVE k = Len(c) /\ Len(c) < Len(g)
    <2>1. k < Len(g) /\ Len(c) <= k
      BY <1>1, <1>3, <1>4, <1>7
    <2>2. VerdictAt(g, d, Len(c), o) = "dut_trace_truncated"
      BY <2>1, <1>1, <1>4 DEF VerdictAt
    <2>3. ~(Len(c) < k)
      BY <2>2, <1>3, <1>4 DEF Match
    <2> QED BY <2>1, <2>3, <1>4
  <1> QED BY <1>6, <1>7, <1>b, <1>c DEF Met

-----------------------------------------------------------------------------
(* The inductive invariant.  What it says of a runner is said of its record *)
(* f and of the files.                                                      *)

Record(f) ==
  [pc |-> f.pc, req |-> f.req, todo |-> f.todo, failures |-> f.failures, exit |-> f.exit,
   want |-> f.want, win |-> f.win, ver |-> f.ver, rec |-> f.rec, rom |-> f.rom, mem |-> f.mem,
   judged |-> f.judged, moved |-> f.moved, disturbed |-> f.disturbed]

Early == {"corpus", "model", "compile", "prepare", "rom"}
Testing == {"image", "ready", "tb", "collect", "compare"}
Working == Early \cup {"next"} \cup Testing

\* A runner's progress is a record, its programs are those it was asked for,
\* and a program that runs has an ELF.
RunnerOK(f, elfs) ==
  /\ f = Record(f) /\ f.pc \in {"idle", "done"} \cup Working
  /\ f.disturbed \in BOOLEAN /\ f.moved \in BOOLEAN /\ f.failures \in Nat
  /\ f.exit \in {Absent, 0, 1, 2} /\ (f.pc = "done" <=> f.exit # Absent)
  /\ f.pc # "idle" => f.req \in Requests
  /\ f.pc \in Working => f.todo \in Seq(ToSet(f.req.programs))
  /\ f.pc \in Testing => /\ f.todo # <<>> /\ Head(f.todo) \in Programs
                         /\ elfs[Head(f.todo)] # Absent
RunInv ==
  run = [r \in Runners |-> run[r]] /\ \A r \in Runners : RunnerOK(run[r], elf)

\* Every source has a golden stream and so has every ELF; no model and no source
\* is newer than the clock.
FileInv ==
  /\ asm = [x \in Programs |-> asm[x]] /\ elf = [x \in Programs |-> elf[x]]
  /\ \A x \in Programs :
       /\ asm[x] \in Nat /\ asm[x] \in DOMAIN Golden[x]
       /\ elf[x] = Absent \/ (elf[x] \in Nat /\ elf[x] \in DOMAIN Golden[x])
  /\ rtl.ver \in DOMAIN Core /\ rtl.mtime \in Nat /\ clock \in Nat /\ rtl.mtime <= clock
  /\ exe = [m \in Modes |-> exe[m]]
  /\ \A m \in Modes : exe[m].mtime \in Int /\ exe[m].mtime <= clock /\ exe[m].mixed \in BOOLEAN
  /\ trace = [s \in Programs \X BOOLEAN |-> trace[s]] /\ uart = [x \in Programs |-> uart[x]]
  /\ memhex = [x \in Programs |-> memhex[x]]

ShapeInv == RunInv /\ FileInv

\* A model that counts as fresh is one of the sources as they are.
FreshInv == \A m \in Modes : ~exe[m].mixed /\ exe[m].mtime >= rtl.mtime => exe[m].ver = rtl.ver

\* Runs of one program at the same time know of each other.
MeetInv ==
  \A r, x \in Runners :
    r # x /\ Busy(r) /\ Busy(x) /\ Prog(r) = Prog(x) => run[r].disturbed

\* Whoever writes rom.hex disturbs every run with another ROM that has put its
\* own there.  An undisturbed run finds the images it wrote, or knows that rom.hex
\* is being written, and its testbench has loaded them.
RomFor(f) == RomOf[f.req.rom].words
MemFor(f) == MemoryOf[Head(f.todo)][f.ver][f.req.dtb].words
RomInv ==
  \A r, x \in Runners : HasRom(r) /\ At(x, "rom") /\ OtherRom(r, x) => run[r].disturbed
Loads(f, rom, mem, writing) ==
  /\ f.pc \in {"next"} \cup Testing => rom = RomFor(f) \/ writing
  /\ f.pc = "ready" => mem[Head(f.todo)] = MemFor(f)
  /\ f.pc = "tb" => f.rom = RomFor(f) /\ f.mem = MemFor(f)
Writes(r) == \E x \in Runners \ {r} : At(x, "rom")
LoadInv == \A r \in Runners : run[r].disturbed \/ Loads(run[r], romhex, memhex, Writes(r))

Does(f, x) == Core[f.want][f.req.mode][x]
Dump(f) == Faulted(Does(f, Head(f.todo)).commits, f.req.fault)
Console(f) == Garbled(Does(f, Head(f.todo)).uart, f.req.uartFault)

\* The model is one of the sources the run looked at, and the files it reads
\* are what that core wrote for this program.
Dumped(f, exes, traces, uarts) ==
  /\ f.pc \in {"compile", "prepare", "rom", "next"} \cup Testing => f.want \in DOMAIN Core
  /\ f.pc \in {"prepare", "rom", "next"} \cup Testing => exes[f.req.mode].ver = f.want
  /\ f.pc \in {"collect", "compare"} =>
       /\ Does(f, Head(f.todo)).end = "pass"
       /\ traces[<<Head(f.todo), f.req.fault # Absent>>] = Dump(f)
  /\ f.pc = "collect" => uarts[Head(f.todo)] = Console(f)
  /\ f.pc = "compare" => f.rec = Console(f)
DumpInv == \A r \in Runners : run[r].disturbed \/ Dumped(run[r], exe, trace, uart)

\* Right and ConsoleRight of a record; what a program judged without a failure
\* has shown, and what a failure shows
Agrees(f, x, v) ==
  LET c == Does(f, x)
  IN  /\ c.end = "pass"
      /\ FirstDivergence(Golden[x][v], c.commits, Scope(Golden[x][v], c.commits, TRUE))[2] = Match
Prints(f, x) ==
  LET u == Does(f, x).uart
  IN  /\ u.data = Expected[x] /\ u.frames = Len(u.data) /\ u.clean
      /\ u.frames > 1 => u.even
Shown(f, x, v) ==
  /\ f.req.fault # Absent => Met(Golden[x][v], Does(f, x).commits, f.req.fault)
  /\ f.req.fault = Absent =>
       /\ Agrees(f, x, v)
       /\ ~f.req.uartFault => Prints(f, x)
       /\ f.req.uartFault /\ Expected[x] # <<>> => Does(f, x).uart.frames > 0 \/ ~Prints(f, x)
Wrong(f) == f.moved \/ \E j \in f.judged : ~Agrees(f, j[1], j[2]) \/ ~Prints(f, j[1])
Plain(f) == f.req.fault = Absent /\ ~f.req.uartFault

\* Every program asked for is judged or still to do; no failure is forgotten
\* and none is made up.
Judged(f) ==
  /\ f.pc \in Early => f.judged = {} /\ f.failures = 0
  /\ f.pc \in Working =>
       \A x \in ToSet(f.req.programs) : x \in ToSet(f.todo) \/ \E j \in f.judged : j[1] = x
  /\ f.pc # "idle" => \A j \in f.judged : \E x \in Programs : \E v \in DOMAIN Golden[x] : j = <<x, v>>
  /\ ~f.disturbed /\ f.pc \in Working =>
       /\ f.failures = 0 => \A j \in f.judged : Shown(f, j[1], j[2])
       /\ f.failures > 0 /\ Plain(f) => Wrong(f)

\* What an exit status says.
Truthful(f) ==
  ~f.disturbed =>
    /\ f.exit = 0 => /\ \A x \in ToSet(f.req.programs) : \E j \in f.judged : j[1] = x
                     /\ \A j \in f.judged : Shown(f, j[1], j[2])
    /\ f.exit = 1 /\ Plain(f) => Wrong(f)
JudgeInv == \A r \in Runners : Judged(run[r]) /\ Truthful(run[r])

IInv == ShapeInv /\ FreshInv /\ MeetInv /\ RomInv /\ LoadInv /\ DumpInv /\ JudgeInv

-----------------------------------------------------------------------------
(* One record at a time                                                     *)

Disturb(f) == [f EXCEPT !.disturbed = TRUE]
Left(f, code) ==
  [Idle EXCEPT !.pc = "done", !.exit = code, !.req = f.req, !.want = f.want,
     !.judged = f.judged, !.moved = f.moved, !.disturbed = f.disturbed]

\* What a runner knows when it exits.
LEMMA LeftFields ==
  ASSUME NEW f, NEW code, NEW g, g = Left(f, code)
  PROVE  /\ g = Record(g) /\ g.pc = "done" /\ g.exit = code /\ g.req = f.req
         /\ g.want = f.want /\ g.judged = f.judged /\ g.moved = f.moved
         /\ g.disturbed = f.disturbed /\ g.failures = 0
  BY DEF Left, Idle, Record

\* Being disturbed takes nothing away.
LEMMA DisturbOK ==
  ASSUME NEW f, NEW elfs, RunnerOK(f, elfs), Judged(f), Truthful(f),
         NEW g, g = Disturb(f)
  PROVE  RunnerOK(g, elfs) /\ Judged(g) /\ Truthful(g) /\ g.disturbed
  <1>1. /\ g = Record(g) /\ g.pc = f.pc /\ g.req = f.req /\ g.todo = f.todo
        /\ g.failures = f.failures /\ g.exit = f.exit /\ g.judged = f.judged
        /\ g.moved = f.moved /\ g.disturbed = TRUE
    BY DEF RunnerOK, Record, Disturb
  <1>2. RunnerOK(g, elfs)
    BY <1>1 DEF RunnerOK
  <1>3. Judged(g) /\ Truthful(g)
    BY <1>1 DEF Judged, Truthful
  <1> QED BY <1>1, <1>2, <1>3

\* A setup error says nothing about a program.
LEMMA RefusedOK ==
  ASSUME NEW f, NEW elfs, NEW elfs2, RunnerOK(f, elfs), Judged(f), f.pc \in Working,
         NEW g, g = Left(f, 2)
  PROVE  RunnerOK(g, elfs2) /\ Judged(g) /\ Truthful(g) /\ g.pc = "done"
  <1>1. /\ g = Record(g) /\ g.pc = "done" /\ g.exit = 2 /\ g.req = f.req
        /\ g.judged = f.judged /\ g.moved = f.moved /\ g.disturbed = f.disturbed
        /\ g.failures = 0
    BY LeftFields
  <1>2. RunnerOK(g, elfs2)
    BY <1>1 DEF RunnerOK, Working, Early, Testing, Absent
  <1>3. Judged(g)
    BY <1>1 DEF Judged, Working, Early, Testing
  <1>4. Truthful(g)
    BY <1>1 DEF Truthful
  <1> QED BY <1>1, <1>2, <1>3, <1>4

\* What was shown is about the command line and the core that was looked at.
LEMMA SameShown ==
  ASSUME NEW f, NEW g, g.want = f.want, g.req = f.req, NEW x, NEW v
  PROVE  /\ Shown(g, x, v) <=> Shown(f, x, v)
         /\ Agrees(g, x, v) <=> Agrees(f, x, v)
         /\ Prints(g, x) <=> Prints(f, x)
  <1>1. Does(g, x) = Does(f, x)
    BY DEF Does
  <1> QED BY <1>1 DEF Shown, Agrees, Prints

\* The programs after the first.
LEMMA TailPrograms ==
  ASSUME NEW S, NEW s \in Seq(S), s # <<>>
  PROVE  /\ Tail(s) \in Seq(S)
         /\ \A y \in ToSet(s) : y = Head(s) \/ y \in ToSet(Tail(s))
  <1>1. Tail(s) \in Seq(S) /\ Len(Tail(s)) = Len(s) - 1 /\ Len(s) \in Nat
    OBVIOUS
  <1>2. \A i \in 1..Len(Tail(s)) : Tail(s)[i] = s[i + 1]
    OBVIOUS
  <1>3. ASSUME NEW y \in ToSet(s) PROVE y = Head(s) \/ y \in ToSet(Tail(s))
    <2>1. PICK i \in 1..Len(s) : y = s[i]
      BY DEF ToSet
    <2>2. CASE i = 1
      BY <2>1, <2>2
    <2>3. CASE i # 1
      <3>1. i - 1 \in 1..Len(Tail(s)) /\ (i - 1) + 1 = i
        BY <1>1, <2>1, <2>3
      <3>2. Tail(s)[i - 1] = y
        BY <1>2, <2>1, <3>1
      <3>3. DOMAIN Tail(s) = 1..Len(Tail(s))
        BY <1>1
      <3> QED BY <3>1, <3>2, <3>3 DEF ToSet
    <2> QED BY <2>2, <2>3
  <1> QED BY <1>1, <1>3

\* A stage that judges nothing: g goes on from f.
GoesOn(f, g) ==
  /\ f.pc \in Working /\ g.pc \in Working /\ (g.pc \in Early => f.pc \in Early)
  /\ f.pc \in Early \/ g.want = f.want
  /\ g.req = f.req /\ g.todo = f.todo /\ g.failures = f.failures /\ g.judged = f.judged
  /\ g.moved = f.moved /\ g.exit = f.exit
  /\ g.disturbed \in BOOLEAN /\ (f.disturbed => g.disturbed)

\* Such a stage keeps what was judged true.
LEMMA GoesOnOK ==
  ASSUME NEW f, NEW elfs, RunnerOK(f, elfs), Judged(f), NEW g, GoesOn(f, g)
  PROVE  Judged(g) /\ Truthful(g)
  <1>1. f.exit = Absent
    BY DEF GoesOn, RunnerOK, Working, Early, Testing
  <1>2. Truthful(g)
    BY <1>1 DEF Truthful, GoesOn, Absent
  <1>3. CASE f.pc \in Early
    <2>1. g.judged = {} /\ g.failures = 0
      BY <1>3 DEF Judged, GoesOn
    <2>2. \A x \in ToSet(g.req.programs) : x \in ToSet(g.todo) \/ \E j \in g.judged : j[1] = x
      BY DEF Judged, GoesOn
    <2> QED BY <1>2, <2>1, <2>2 DEF Judged
  <1>4. CASE f.pc \notin Early
    <2>1. g.pc \notin Early /\ g.want = f.want
      BY <1>4 DEF GoesOn
    <2>2. ASSUME NEW x, NEW v
          PROVE  /\ Shown(g, x, v) <=> Shown(f, x, v)
                 /\ Agrees(g, x, v) <=> Agrees(f, x, v)
                 /\ Prints(g, x) <=> Prints(f, x)
      BY <2>1, SameShown DEF GoesOn
    <2>3. Wrong(f) => Wrong(g)
      BY <2>2 DEF Wrong, GoesOn
    <2>4. Plain(g) <=> Plain(f)
      BY DEF Plain, GoesOn
    <2>5. f.pc \in Working /\ f.pc # "idle" /\ g.pc # "idle"
      BY DEF GoesOn, Working, Early, Testing
    <2> QED BY <1>2, <2>1, <2>2, <2>3, <2>4, <2>5 DEF Judged, GoesOn
  <1> QED BY <1>3, <1>4

\* Shape of a record that goes on.
LEMMA GoesOnShape ==
  ASSUME NEW f, NEW elfs, RunnerOK(f, elfs), NEW g, g = Record(g), GoesOn(f, g),
         g.pc \in Testing => f.pc \in Testing
  PROVE  RunnerOK(g, elfs)
  BY DEF RunnerOK, GoesOn, Working, Early, Testing

\* The verdict on the console.
LEMMA UartVerdict ==
  ASSUME NEW f, NEW x, NEW rec, rec = Garbled(Does(f, x).uart, f.req.uartFault),
         f.req.uartFault \in BOOLEAN,
         NEW n, n = ReportUart(rec, Expected[x], f.req.uartFault)
  PROVE  /\ n \in {0, 1}
         /\ ~f.req.uartFault => (n = 0 <=> Prints(f, x))
         /\ f.req.uartFault /\ n = 0 /\ Expected[x] # <<>> =>
              Does(f, x).uart.frames > 0 \/ ~Prints(f, x)
  <1>a. PICK u : u = Does(f, x).uart
    OBVIOUS
  <1>1. ~UartProblems(u, Expected[x]) <=> Prints(f, x)
    BY <1>a DEF UartProblems, Prints
  <1>2. n \in {0, 1}
    BY DEF ReportUart
  <1>3. CASE ~f.req.uartFault
    <2>1. rec = u
      BY <1>3, <1>a DEF Garbled
    <2> QED BY <1>1, <1>2, <1>3, <2>1 DEF ReportUart
  <1>4. CASE f.req.uartFault
    <2>1. ASSUME n = 0, Expected[x] # <<>>, ~(u.frames > 0) PROVE ~Prints(f, x)
      <3>1. rec = u
        BY <1>4, <1>a, <2>1 DEF Garbled
      <3>2. UartProblems(u, Expected[x])
        BY <1>4, <2>1, <3>1 DEF ReportUart, UartProblems
      <3> QED BY <1>1, <3>2
    <2> QED BY <1>2, <1>4, <1>a, <2>1
  <1> QED BY <1>3, <1>4

\* What the count of one program's failures says of the core.
LEMMA FailuresTell ==
  ASSUME ShapeInv, DumpInv, NEW r \in Runners, At(r, "compare"), NEW compared \in BOOLEAN,
         NEW f, f = run[r], NEW x, x = Prog(r), NEW v, v = elf[x],
         NEW n, n = Failures(r, compared)
  PROVE  /\ x \in Programs /\ v \in DOMAIN Golden[x] /\ n \in Nat
         /\ ~f.disturbed /\ n = 0 => Shown(f, x, v)
         /\ ~f.disturbed /\ n > 0 /\ Plain(f) => ~compared \/ ~Agrees(f, x, v) \/ ~Prints(f, x)
  <1>1. /\ f.pc = "compare" /\ RunnerOK(f, elf) /\ f.req \in Requests /\ x = Head(f.todo)
        /\ x \in Programs /\ elf[x] # Absent
    BY DEF ShapeInv, RunInv, RunnerOK, At, Prog, Testing
  <1>2. v \in DOMAIN Golden[x]
    BY <1>1 DEF ShapeInv, FileInv
  <1>3. f.req.fault \in Nat \cup {Absent} /\ f.req.uartFault \in BOOLEAN /\ f.req.mode \in Modes
    BY <1>1, RequestAssumption DEF Modes
  <1>g. PICK g : g = Golden[x][v] /\ g \in Seq(Commits)
    BY <1>1, <1>2, GoldenAssumption
  <1>d. PICK d : d = trace[Stem(r)]
    OBVIOUS
  <1>n. PICK m : m = ReportUart(f.rec, Expected[x], f.req.uartFault) /\ m \in {0, 1}
    BY DEF ReportUart
  <1>o. PICK o : o = FirstDivergence(g, d, Scope(g, d, TRUE)) /\ o = Verdict(r)
    BY <1>g, <1>d DEF Verdict
  <1>4. n = IF f.req.fault # Absent THEN IF compared /\ o[1] = f.req.fault THEN 0 ELSE 1
            ELSE m + IF compared /\ o[2] = Match THEN 0 ELSE 1
    BY <1>n, <1>o DEF Failures, Faulty, Req, Caught
  <1>5. n \in Nat
    BY <1>4, <1>n
  <1>6. ASSUME ~f.disturbed
        PROVE  /\ n = 0 => Shown(f, x, v)
               /\ n > 0 /\ Plain(f) => ~compared \/ ~Agrees(f, x, v) \/ ~Prints(f, x)
    <2>1. /\ f.want \in DOMAIN Core /\ Does(f, x).end = "pass"
          /\ d = Faulted(Does(f, x).commits, f.req.fault)
          /\ f.rec = Garbled(Does(f, x).uart, f.req.uartFault)
      <3>1. Dumped(f, exe, trace, uart)
        BY <1>6 DEF DumpInv
      <3>2. Stem(r) = <<Head(f.todo), f.req.fault # Absent>>
        BY <1>1 DEF Stem, Faulty, Req
      <3> QED BY <1>1, <1>d, <3>1, <3>2 DEF Dumped, Dump, Console, Testing
    <2>c. PICK c : c = Does(f, x).commits /\ c \in Seq(Commits)
      BY <1>1, <1>3, <2>1, CoreAssumption DEF Does
    <2>2. CASE f.req.fault # Absent
      <3>1. f.req.fault \in Nat
        BY <1>3, <2>2
      <3>2. n = 0 => Met(g, c, f.req.fault)
        <4>1. n = 0 => o[1] = f.req.fault
          BY <1>4, <2>2
        <4> QED BY <4>1, <3>1, <1>g, <1>o, <2>1, <2>c, CaughtIsMet
      <3> QED BY <2>2, <3>2, <1>g, <2>c DEF Shown, Plain
    <2>3. CASE f.req.fault = Absent
      <3>1. d = c
        BY <2>1, <2>3, <2>c, NotFaulted
      <3>2. Agrees(f, x, v) <=> o[2] = Match
        BY <3>1, <2>1, <2>c, <1>g, <1>o DEF Agrees
      <3>3. /\ ~f.req.uartFault => (m = 0 <=> Prints(f, x))
            /\ f.req.uartFault /\ m = 0 /\ Expected[x] # <<>> =>
                 Does(f, x).uart.frames > 0 \/ ~Prints(f, x)
        BY <1>3, <1>n, <2>1, UartVerdict
      <3>4. n = 0 => m = 0 /\ compared /\ o[2] = Match
        BY <1>4, <1>n, <2>3
      <3>5. n > 0 => m = 1 \/ ~compared \/ o[2] # Match
        BY <1>4, <1>n, <2>3
      <3>6. n = 0 => Shown(f, x, v)
        BY <2>3, <3>2, <3>3, <3>4 DEF Shown
      <3>7. n > 0 /\ Plain(f) => ~compared \/ ~Agrees(f, x, v) \/ ~Prints(f, x)
        BY <3>2, <3>3, <3>5 DEF Plain
      <3> QED BY <3>6, <3>7
    <2> QED BY <2>2, <2>3
  <1> QED BY <1>1, <1>2, <1>5, <1>6

\* A program is judged: g is f after the verdict on x, with n failures.
Compares(f, g, x, v, n) ==
  /\ f.pc = "compare" /\ x \in Programs /\ x = Head(f.todo) /\ v \in DOMAIN Golden[x]
  /\ n \in Nat /\ g = Record(g) /\ g.pc = "next" /\ g.failures = f.failures + n
  /\ g.todo = Tail(f.todo) /\ g.judged = f.judged \cup {<<x, v>>} /\ g.req = f.req
  /\ g.want = f.want /\ g.disturbed = f.disturbed /\ g.exit = f.exit
  /\ g.moved \in BOOLEAN /\ (f.moved => g.moved)
  /\ ~f.disturbed /\ n = 0 => Shown(f, x, v)
  /\ ~f.disturbed /\ n > 0 /\ Plain(f) => g.moved \/ ~Agrees(f, x, v) \/ ~Prints(f, x)

\* Judging one program keeps the count and the verdicts true.
LEMMA ComparedOK ==
  ASSUME NEW f, NEW elfs, RunnerOK(f, elfs), Judged(f), NEW g, NEW x, NEW v, NEW n,
         Compares(f, g, x, v, n)
  PROVE  RunnerOK(g, elfs) /\ Judged(g) /\ Truthful(g)
  <1> USE DEF Compares
  <1>1. /\ f.exit = Absent /\ f.failures \in Nat /\ f.todo \in Seq(ToSet(f.req.programs))
        /\ f.todo # <<>> /\ f.req \in Requests /\ f.disturbed \in BOOLEAN
    BY DEF RunnerOK, Working, Testing, Early
  <1>2. RunnerOK(g, elfs)
    <2>1. Tail(f.todo) \in Seq(ToSet(f.req.programs))
      BY <1>1, TailPrograms
    <2> QED BY <1>1, <2>1 DEF RunnerOK, Working, Testing, Early
  <1>3. Truthful(g)
    BY <1>1 DEF Truthful, Absent
  <1>4. \A y \in ToSet(f.todo) : y = x \/ y \in ToSet(Tail(f.todo))
    BY <1>1, TailPrograms
  <1>5. \A y, w : /\ Shown(g, y, w) <=> Shown(f, y, w)
                  /\ Agrees(g, y, w) <=> Agrees(f, y, w)
                  /\ Prints(g, y) <=> Prints(f, y)
    BY SameShown
  <1>6. Plain(g) <=> Plain(f)
    BY DEF Plain
  <1>7. g.pc \notin Early /\ f.pc \in Working /\ f.pc # "idle"
    BY DEF Early, Working, Testing
  <1>8. ASSUME NEW y \in ToSet(g.req.programs)
        PROVE  y \in ToSet(g.todo) \/ \E j \in g.judged : j[1] = y
    <2>1. y \in ToSet(f.todo) \/ \E j \in f.judged : j[1] = y
      BY <1>7 DEF Judged
    <2>2. <<x, v>> \in g.judged /\ <<x, v>>[1] = x
      OBVIOUS
    <2>3. CASE y = x
      BY <2>2, <2>3
    <2>4. CASE y # x
      BY <2>1, <2>4, <1>4
    <2> QED BY <2>3, <2>4
  <1>9. \A j \in g.judged : \E y \in Programs : \E w \in DOMAIN Golden[y] : j = <<y, w>>
    BY <1>7 DEF Judged
  <1>10. ASSUME ~g.disturbed, g.failures = 0, NEW j \in g.judged PROVE Shown(g, j[1], j[2])
    <2>1. f.failures = 0 /\ n = 0
      BY <1>1, <1>10
    <2>2. Shown(f, x, v) /\ \A k \in f.judged : Shown(f, k[1], k[2])
      BY <1>7, <1>10, <2>1 DEF Judged
    <2> QED BY <2>2, <1>5
  <1>11. ASSUME ~g.disturbed, g.failures > 0, Plain(g) PROVE Wrong(g)
    <2>1. CASE f.failures > 0
      <3>1. Wrong(f)
        BY <1>6, <1>7, <1>11, <2>1 DEF Judged
      <3> QED BY <3>1, <1>5 DEF Wrong
    <2>2. CASE n > 0
      <3>1. g.moved \/ ~Agrees(f, x, v) \/ ~Prints(f, x)
        BY <1>6, <1>11, <2>2
      <3>2. <<x, v>> \in g.judged /\ <<x, v>>[1] = x /\ <<x, v>>[2] = v
        OBVIOUS
      <3> QED BY <3>1, <3>2, <1>5 DEF Wrong
    <2> QED BY <1>1, <1>11, <2>1, <2>2
  <1>12. Judged(g)
    BY <1>7, <1>8, <1>9, <1>10, <1>11 DEF Judged
  <1> QED BY <1>2, <1>3, <1>12

\* A run that has judged every program ends.
LEMMA FinishedOK ==
  ASSUME NEW f, NEW elfs, RunnerOK(f, elfs), Judged(f), f.pc = "next", f.todo = <<>>,
         NEW g, g = Left(f, IF f.failures > 0 THEN 1 ELSE 0)
  PROVE  RunnerOK(g, elfs) /\ Judged(g) /\ Truthful(g)
  <1>c. PICK code \in {0, 1} : code = IF f.failures > 0 THEN 1 ELSE 0
    OBVIOUS
  <1>1. /\ g = Record(g) /\ g.pc = "done" /\ g.exit = code /\ g.req = f.req
        /\ g.want = f.want /\ g.judged = f.judged /\ g.moved = f.moved
        /\ g.disturbed = f.disturbed /\ g.failures = 0
    BY <1>c, LeftFields
  <1>2. f.pc \in Working /\ f.pc # "idle" /\ f.failures \in Nat
    BY DEF Working, Early, Testing, RunnerOK
  <1>3. RunnerOK(g, elfs)
    BY <1>1, <1>2 DEF RunnerOK, Working, Early, Testing, Absent
  <1>4. Judged(g)
    BY <1>1, <1>2 DEF Judged, Working, Early, Testing
  <1>5. \A y, w : /\ Shown(g, y, w) <=> Shown(f, y, w)
                  /\ Agrees(g, y, w) <=> Agrees(f, y, w)
                  /\ Prints(g, y) <=> Prints(f, y)
    BY <1>1, SameShown
  <1>6. Truthful(g)
    <2>1. ASSUME ~g.disturbed, g.exit = 0
          PROVE  /\ \A x \in ToSet(g.req.programs) : \E j \in g.judged : j[1] = x
                 /\ \A j \in g.judged : Shown(g, j[1], j[2])
      <3>1. f.failures = 0
        BY <1>1, <1>2, <1>c, <2>1
      <3>2. ToSet(f.todo) = {}
        BY DEF ToSet
      <3> QED BY <1>1, <1>2, <1>5, <2>1, <3>1, <3>2 DEF Judged
    <2>2. ASSUME ~g.disturbed, g.exit = 1, Plain(g) PROVE Wrong(g)
      <3>1. f.failures > 0 /\ Plain(f)
        BY <1>1, <1>c, <2>2 DEF Plain
      <3>2. Wrong(f)
        BY <1>1, <1>2, <2>2, <3>1 DEF Judged
      <3> QED BY <1>1, <1>5, <3>2 DEF Wrong
    <2> QED BY <2>1, <2>2 DEF Truthful
  <1> QED BY <1>3, <1>4, <1>6

\* A run that starts has judged nothing.
LEMMA StartedOK ==
  ASSUME NEW q \in Requests, NEW w, NEW elfs,
         NEW g, g = [Idle EXCEPT !.pc = "corpus", !.req = q, !.todo = q.programs, !.win = w]
  PROVE  RunnerOK(g, elfs) /\ Judged(g) /\ Truthful(g)
  <1>1. /\ g = Record(g) /\ g.pc = "corpus" /\ g.req = q /\ g.todo = q.programs /\ g.judged = {}
        /\ g.failures = 0 /\ g.exit = Absent /\ g.moved = FALSE /\ g.disturbed = FALSE
    BY DEF Idle, Record
  <1>2. g.todo \in Seq(ToSet(g.req.programs))
    BY <1>1, RequestAssumption
  <1>3. g.pc \in Working /\ g.pc \notin Testing
    BY <1>1 DEF Working, Early, Testing
  <1>4. RunnerOK(g, elfs)
    <2>1. g.pc # "done" /\ g.exit = Absent /\ g.req \in Requests
      BY <1>1
    <2>2. g.failures \in Nat
      BY <1>1
    <2>5. g.moved \in BOOLEAN /\ g.disturbed \in BOOLEAN
      BY <1>1, Zenon
    <2>3. g.exit \in {Absent, 0, 1, 2} /\ (g.pc = "done" <=> g.exit # Absent)
      BY <2>1
    <2>4. g = Record(g)
      BY <1>1
    <2> QED BY <1>2, <1>3, <2>1, <2>2, <2>3, <2>4, <2>5, Zenon DEF RunnerOK
  <1>5. Judged(g)
    BY <1>1 DEF Judged, Working, Early, Testing
  <1>6. Truthful(g)
    BY <1>1 DEF Truthful, Absent
  <1> QED BY <1>4, <1>5, <1>6

\* A run that ends in a traceback.
LEMMA TracebackOK ==
  ASSUME NEW f, NEW elfs, RunnerOK(f, elfs), Judged(f), f.pc = "next",
         NEW g, g = [f EXCEPT !.pc = "done", !.exit = 1, !.moved = TRUE]
  PROVE  RunnerOK(g, elfs) /\ Judged(g) /\ Truthful(g)
  <1>1. /\ g = Record(g) /\ g.pc = "done" /\ g.exit = 1 /\ g.moved = TRUE /\ g.req = f.req
        /\ g.judged = f.judged /\ g.failures = f.failures /\ g.disturbed = f.disturbed
    BY DEF RunnerOK, Record
  <1>2. g.pc \notin Working /\ g.pc \notin Testing /\ f.pc # "idle"
    BY <1>1 DEF Working, Early, Testing
  <1>3. g.req \in Requests /\ g.exit # Absent /\ g.failures \in Nat /\ g.disturbed \in BOOLEAN
    BY <1>1, <1>2 DEF RunnerOK, Absent
  <1>4. RunnerOK(g, elfs)
    BY <1>1, <1>2, <1>3 DEF RunnerOK
  <1>5. Judged(g)
    BY <1>1, <1>2 DEF Judged, Working
  <1>6. Truthful(g)
    BY <1>1 DEF Truthful, Wrong
  <1> QED BY <1>4, <1>5, <1>6

-----------------------------------------------------------------------------
(* What the actions do to the records                                       *)

\* One runner's record is replaced by g.
LEMMA OneMoves ==
  ASSUME ShapeInv, JudgeInv, NEW r \in Runners, NEW g, run' = [run EXCEPT ![r] = g],
         RunnerOK(g, elf'), Judged(g), Truthful(g),
         \A x \in Programs : elf[x] # Absent => elf'[x] # Absent
  PROVE  RunInv' /\ JudgeInv'
  <1>1. /\ run' = [x \in Runners |-> run'[x]] /\ run'[r] = g
        /\ \A x \in Runners : x # r => run'[x] = run[x]
    BY DEF ShapeInv, RunInv
  <1>2. ASSUME NEW x \in Runners PROVE RunnerOK(run'[x], elf')
    <2>1. CASE x # r
      <3>1. RunnerOK(run[x], elf) /\ run'[x] = run[x]
        BY <1>1, <2>1 DEF ShapeInv, RunInv
      <3> QED BY <3>1 DEF RunnerOK
    <2> QED BY <1>1, <2>1
  <1>3. ASSUME NEW x \in Runners PROVE Judged(run'[x]) /\ Truthful(run'[x])
    BY <1>1 DEF JudgeInv
  <1> QED BY <1>1, <1>2, <1>3 DEF RunInv, JudgeInv

\* One runner moves and may disturb others.
LEMMA OneDisturbs ==
  ASSUME ShapeInv, JudgeInv, NEW r \in Runners, NEW g, NEW met,
         run' = [x \in Runners |-> IF x = r THEN g
                                   ELSE IF x \in met THEN Disturb(run[x]) ELSE run[x]],
         RunnerOK(g, elf), Judged(g), Truthful(g), elf' = elf
  PROVE  RunInv' /\ JudgeInv'
  <1>1. run' = [x \in Runners |-> run'[x]] /\ run'[r] = g
    OBVIOUS
  <1>2. ASSUME NEW x \in Runners
        PROVE  RunnerOK(run'[x], elf') /\ Judged(run'[x]) /\ Truthful(run'[x])
    <2>1. RunnerOK(run[x], elf) /\ Judged(run[x]) /\ Truthful(run[x])
      BY DEF ShapeInv, RunInv, JudgeInv
    <2>2. run'[x] = g \/ run'[x] = Disturb(run[x]) \/ run'[x] = run[x]
      OBVIOUS
    <2>3. CASE run'[x] = g
      BY <2>3
    <2>4. CASE run'[x] = run[x]
      BY <2>1, <2>4
    <2>5. CASE run'[x] = Disturb(run[x])
      <3>1. PICK h : h = Disturb(run[x])
        OBVIOUS
      <3>2. RunnerOK(h, elf) /\ Judged(h) /\ Truthful(h)
        BY <2>1, <3>1, DisturbOK
      <3> QED BY <2>5, <3>1, <3>2
    <2> QED BY <2>2, <2>3, <2>4, <2>5
  <1> QED BY <1>1, <1>2 DEF RunInv, JudgeInv

\* A runner that gives up.
LEMMA Refusal ==
  ASSUME ShapeInv, JudgeInv, NEW r \in Runners, run[r].pc \in Working, Exits(r, 2),
         \A x \in Programs : elf[x] # Absent => elf'[x] # Absent
  PROVE  RunInv' /\ JudgeInv'
  <1>1. PICK f : f = run[r] /\ RunnerOK(f, elf) /\ Judged(f) /\ f.pc \in Working
    BY DEF ShapeInv, RunInv, JudgeInv
  <1>2. PICK g : g = Left(f, 2)
    OBVIOUS
  <1>3. run' = [run EXCEPT ![r] = g]
    BY <1>1, <1>2 DEF Exits, Left, Req
  <1>4. PICK e : e = elf'
    OBVIOUS
  <1>5. RunnerOK(g, e) /\ Judged(g) /\ Truthful(g)
    BY <1>1, <1>2, RefusedOK
  <1> QED BY <1>3, <1>4, <1>5, OneMoves

\* A runner that goes on to its next stage.
LEMMA NextStage ==
  ASSUME ShapeInv, JudgeInv, NEW r \in Runners, NEW g, g = Record(g), GoesOn(run[r], g),
         run' = [run EXCEPT ![r] = g], g.pc \in Testing => run[r].pc \in Testing,
         \A x \in Programs : elf[x] # Absent => elf'[x] # Absent
  PROVE  RunInv' /\ JudgeInv'
  <1>1. PICK f : f = run[r] /\ RunnerOK(f, elf) /\ Judged(f)
    BY DEF ShapeInv, RunInv, JudgeInv
  <1>2. Judged(g) /\ Truthful(g) /\ RunnerOK(g, elf)
    BY <1>1, GoesOnOK, GoesOnShape
  <1>3. RunnerOK(g, elf')
    BY <1>2 DEF RunnerOK
  <1> QED BY <1>2, <1>3, OneMoves

\* Those that are met are disturbed, the others are left as they are.
DisturbIf(h, x, met) == [h EXCEPT !.disturbed = @ \/ x \in met]
LEMMA MetDisturb ==
  ASSUME ShapeInv, NEW x \in Runners, NEW met
  PROVE  DisturbIf(run[x], x, met) = IF x \in met THEN Disturb(run[x]) ELSE run[x]
  <1>1. PICK h : h = run[x] /\ h = Record(h) /\ h.disturbed \in BOOLEAN
    BY DEF ShapeInv, RunInv, RunnerOK
  <1>2. CASE x \notin met
    <2>1. DisturbIf(h, x, met) = h
      BY <1>1, <1>2 DEF DisturbIf, Record
    <2> QED BY <1>1, <1>2, <2>1
  <1>3. CASE x \in met
    BY <1>1, <1>3 DEF DisturbIf, Disturb
  <1> QED BY <1>2, <1>3

\* Prepare opens rom.hex unless it refuses the ROM.
LEMMA PrepareOpens ==
  ASSUME NEW r \in Runners, Prepare(r), ~Exits(r, 2)
  PROVE  \E met : /\ met = {x \in Runners : HasRom(x) /\ OtherRom(r, x)}
                  /\ romhex' = Torn
                  /\ \E writing \in BOOLEAN :
                       /\ writing <=> \E x \in met : At(x, "rom")
                       /\ run' = [x \in Runners |->
                            IF x = r THEN [run[r] EXCEPT !.pc = "rom", !.disturbed = @ \/ writing]
                            ELSE [run[x] EXCEPT !.disturbed = @ \/ x \in met]]
  <1>1. PICK met : met = {x \in Runners : HasRom(x) /\ OtherRom(r, x)}
    OBVIOUS
  <1>2. /\ romhex' = Torn
        /\ run' = [x \in Runners |->
             IF x = r THEN [run[r] EXCEPT !.pc = "rom",
                                          !.disturbed = @ \/ \E y \in met : At(y, "rom")]
             ELSE [run[x] EXCEPT !.disturbed = @ \/ x \in met]]
    BY <1>1 DEF Prepare
  <1>3. PICK writing \in BOOLEAN : writing <=> \E y \in met : At(y, "rom")
    OBVIOUS
  <1>4. run' = [x \in Runners |->
             IF x = r THEN [run[r] EXCEPT !.pc = "rom", !.disturbed = @ \/ writing]
             ELSE [run[x] EXCEPT !.disturbed = @ \/ x \in met]]
    BY <1>2, <1>3
  <1>5. \E w \in BOOLEAN :
          /\ w <=> \E x \in met : At(x, "rom")
          /\ run' = [x \in Runners |->
               IF x = r THEN [run[r] EXCEPT !.pc = "rom", !.disturbed = @ \/ w]
               ELSE [run[x] EXCEPT !.disturbed = @ \/ x \in met]]
    BY <1>3, <1>4
  <1> QED BY <1>1, <1>2, <1>5

\* OpenImage's step for an image that is complete.
Opens(r) ==
  /\ Prog(r) \in Programs /\ elf[Prog(r)] # Absent
  /\ \E met :
       /\ met = {x \in Runners \ {r} : Busy(x) /\ Prog(x) = Prog(r)}
       /\ run' = [x \in Runners |->
            IF x = r THEN [run[r] EXCEPT !.pc = "image", !.ver = elf[Prog(r)],
                                         !.disturbed = @ \/ met # {}]
            ELSE [run[x] EXCEPT !.disturbed = @ \/ x \in met]]
       /\ memhex' = [memhex EXCEPT ![Prog(r)] = Torn]

\* OpenImage refuses, ends in a traceback, or opens the image.
LEMMA ImageOpens ==
  ASSUME NEW r \in Runners, OpenImage(r)
  PROVE  \/ Exits(r, 2) /\ UNCHANGED memhex
         \/ /\ run' = [run EXCEPT ![r].pc = "done", ![r].exit = 1, ![r].moved = TRUE]
            /\ UNCHANGED memhex
         \/ Opens(r)
  <1>1. CASE Prog(r) \notin Programs \/ elf[Prog(r)] = Absent
    BY <1>1 DEF OpenImage
  <1>2. CASE ~(Prog(r) \notin Programs \/ elf[Prog(r)] = Absent)
    BY <1>2 DEF OpenImage, Opens
  <1> QED BY <1>1, <1>2

\* A step of one runner keeps the records in shape and their verdicts true.
LEMMA RunnerMoves ==
  ASSUME ShapeInv, DumpInv, JudgeInv, NEW r \in Runners,
         RunnerStep(r) \/ \E q \in Requests : Start(r, q)
  PROVE  RunInv' /\ JudgeInv'
  <1>f. PICK f : /\ f = run[r] /\ RunnerOK(f, elf) /\ Judged(f) /\ Truthful(f) /\ f = Record(f)
                 /\ f.disturbed \in BOOLEAN
    BY DEF ShapeInv, RunInv, JudgeInv, RunnerOK
  <1>k. elf' = elf => \A x \in Programs : elf[x] # Absent => elf'[x] # Absent
    OBVIOUS
  <1>w. \A p : p \in Working <=> p \in {"corpus", "model", "compile", "prepare", "rom",
                                        "next", "image", "ready", "tb", "collect", "compare"}
    BY DEF Working, Early, Testing
  <1>1. ASSUME NEW q \in Requests, Start(r, q) PROVE RunInv' /\ JudgeInv'
    <2>1. PICK g : g = [Idle EXCEPT !.pc = "corpus", !.req = q, !.todo = q.programs, !.win = win]
      OBVIOUS
    <2>2. run' = [run EXCEPT ![r] = g] /\ elf' = elf
      BY <1>1, <2>1 DEF Start, files
    <2>3. RunnerOK(g, elf) /\ Judged(g) /\ Truthful(g)
      BY <2>1, StartedOK
    <2> QED BY <2>2, <2>3, <1>k, OneMoves
  <1>2. CASE BuildCorpus(r)
    <2>1. \A x \in Programs : elf[x] # Absent => elf'[x] # Absent
      <3>1. \E S : elf' = [x \in Programs |-> IF x \in S THEN asm[x] ELSE elf[x]]
        BY <1>2 DEF BuildCorpus, Built
      <3>2. \A x \in Programs : asm[x] # Absent
        BY DEF ShapeInv, FileInv, Absent
      <3> QED BY <3>1, <3>2
    <2>2. CASE Exits(r, 2)
      BY <2>1, <2>2, <1>2, <1>f, <1>w, Refusal DEF BuildCorpus, At
    <2>3. CASE Goes(r, "model")
      <3>1. PICK g : g = [f EXCEPT !.pc = "model"]
        OBVIOUS
      <3>2. run' = [run EXCEPT ![r] = g]
        BY <2>3, <3>1, <1>f DEF Goes
      <3>3. f.pc = "corpus"
        BY <1>2, <1>f DEF BuildCorpus, At
      <3>4. g = Record(g) /\ GoesOn(f, g) /\ g.pc \notin Testing
        BY <3>1, <3>3, <1>f DEF Record, GoesOn, Working, Early, Testing
      <3> QED BY <2>1, <3>2, <3>4, <1>f, NextStage
    <2> QED BY <1>2, <2>2, <2>3 DEF BuildCorpus
  <1>3. CASE CheckModel(r)
    <2>1. PICK d \in BOOLEAN, pc \in {"prepare", "compile"} :
            run' = [run EXCEPT ![r].want = rtl.ver, ![r].disturbed = @ \/ d, ![r].pc = pc]
      BY <1>3 DEF CheckModel
    <2>2. PICK g : g = [f EXCEPT !.want = rtl.ver, !.disturbed = @ \/ d, !.pc = pc]
      OBVIOUS
    <2>3. run' = [run EXCEPT ![r] = g] /\ f.pc = "model" /\ elf' = elf
      BY <1>3, <1>f, <2>1, <2>2 DEF CheckModel, At, files
    <2>4. g = Record(g) /\ GoesOn(f, g) /\ g.pc \notin Testing
      BY <2>2, <2>3, <1>f DEF Record, GoesOn, Working, Early, Testing
    <2> QED BY <2>3, <2>4, <1>f, <1>k, NextStage
  <1>4. CASE Compile(r)
    <2>0. f.pc = "compile" /\ elf' = elf
      BY <1>4, <1>f DEF Compile, At
    <2>1. CASE Exits(r, 2)
      BY <2>0, <2>1, <1>f, <1>k, <1>w, Refusal
    <2>2. CASE ~Exits(r, 2)
      <3>1. PICK mixed \in BOOLEAN : run' = [x \in Runners |->
                   IF x = r THEN [run[x] EXCEPT !.pc = "prepare", !.disturbed = @ \/ mixed]
                   ELSE IF HasModel(x) /\ Mode(x) = Mode(r)
                        THEN [run[x] EXCEPT !.disturbed = TRUE] ELSE run[x]]
        BY <1>4, <2>2 DEF Compile
      <3>2. PICK met : met = {x \in Runners : HasModel(x) /\ Mode(x) = Mode(r)}
        OBVIOUS
      <3>3. PICK g : g = [f EXCEPT !.pc = "prepare", !.disturbed = @ \/ mixed]
        OBVIOUS
      <3>4. run' = [x \in Runners |-> IF x = r THEN g
                                      ELSE IF x \in met THEN Disturb(run[x]) ELSE run[x]]
        BY <3>1, <3>2, <3>3, <1>f DEF Disturb
      <3>5. g = Record(g) /\ GoesOn(f, g) /\ g.pc \notin Testing
        BY <3>3, <2>0, <1>f DEF Record, GoesOn, Working, Early, Testing
      <3>6. RunnerOK(g, elf) /\ Judged(g) /\ Truthful(g)
        BY <3>5, <1>f, GoesOnOK, GoesOnShape
      <3> QED BY <2>0, <3>4, <3>6, OneDisturbs
    <2> QED BY <2>1, <2>2
  <1>5. CASE Prepare(r)
    <2>0. f.pc = "prepare" /\ elf' = elf
      BY <1>5, <1>f DEF Prepare, At, files
    <2>1. CASE Exits(r, 2)
      BY <2>0, <2>1, <1>f, <1>k, <1>w, Refusal
    <2>2. CASE ~Exits(r, 2)
      <3>0. PICK met :
              /\ met = {x \in Runners : HasRom(x) /\ OtherRom(r, x)}
              /\ romhex' = Torn
              /\ \E writing \in BOOLEAN :
                   /\ writing <=> \E x \in met : At(x, "rom")
                   /\ run' = [x \in Runners |->
                        IF x = r THEN [run[r] EXCEPT !.pc = "rom", !.disturbed = @ \/ writing]
                        ELSE [run[x] EXCEPT !.disturbed = @ \/ x \in met]]
        BY <1>5, <2>2, PrepareOpens
      <3>1. PICK writing \in BOOLEAN :
              /\ writing <=> \E x \in met : At(x, "rom")
              /\ run' = [x \in Runners |->
                   IF x = r THEN [run[r] EXCEPT !.pc = "rom", !.disturbed = @ \/ writing]
                   ELSE [run[x] EXCEPT !.disturbed = @ \/ x \in met]]
        BY <3>0
      <3>2. PICK g : g = [f EXCEPT !.pc = "rom", !.disturbed = @ \/ writing]
        OBVIOUS
      <3>3. run' = [x \in Runners |-> IF x = r THEN g
                                      ELSE IF x \in met THEN Disturb(run[x]) ELSE run[x]]
        <4>1. run' = [x \in Runners |-> IF x = r THEN g ELSE DisturbIf(run[x], x, met)]
          BY <3>1, <3>2, <1>f DEF DisturbIf
        <4>2. \A x \in Runners : DisturbIf(run[x], x, met) = IF x \in met THEN Disturb(run[x]) ELSE run[x]
          BY MetDisturb
        <4> QED BY <4>1, <4>2
      <3>4. g = Record(g) /\ GoesOn(f, g) /\ g.pc \notin Testing
        BY <3>2, <2>0, <1>f DEF Record, GoesOn, Working, Early, Testing
      <3>5. RunnerOK(g, elf) /\ Judged(g) /\ Truthful(g)
        BY <3>4, <1>f, GoesOnOK, GoesOnShape
      <3> QED BY <2>0, <3>3, <3>5, OneDisturbs
    <2> QED BY <2>1, <2>2
  <1>11. CASE WriteRom(r)
    <2>0. f.pc = "rom" /\ elf' = elf
      BY <1>11, <1>f DEF WriteRom, At, files
    <2>1. PICK g : g = [f EXCEPT !.pc = "next"]
      OBVIOUS
    <2>2. run' = [run EXCEPT ![r] = g]
      BY <1>11, <2>1, <1>f DEF WriteRom, Goes
    <2>3. g = Record(g) /\ GoesOn(f, g) /\ g.pc \notin Testing
      BY <2>1, <2>0, <1>f DEF Record, GoesOn, Working, Early, Testing
    <2> QED BY <2>0, <2>2, <2>3, <1>f, <1>k, NextStage
  <1>6. CASE OpenImage(r)
    <2>0. f.pc = "next" /\ f.todo # <<>> /\ elf' = elf
      BY <1>6, <1>f DEF OpenImage, At, files
    <2>1. CASE Exits(r, 2)
      BY <2>0, <2>1, <1>f, <1>k, <1>w, Refusal
    <2>2. CASE run' = [run EXCEPT ![r].pc = "done", ![r].exit = 1, ![r].moved = TRUE]
      <3>1. PICK g : g = [f EXCEPT !.pc = "done", !.exit = 1, !.moved = TRUE]
        OBVIOUS
      <3>2. run' = [run EXCEPT ![r] = g]
        BY <2>2, <3>1, <1>f
      <3>3. RunnerOK(g, elf) /\ Judged(g) /\ Truthful(g)
        BY <2>0, <3>1, <1>f, TracebackOK
      <3> QED BY <2>0, <3>2, <3>3, <1>k, OneMoves
    <2>3. CASE Opens(r)
      <3>1. PICK met : /\ Prog(r) \in Programs /\ elf[Prog(r)] # Absent
                       /\ run' = [x \in Runners |->
                            IF x = r THEN [run[r] EXCEPT !.pc = "image", !.ver = elf[Prog(r)],
                                                         !.disturbed = @ \/ met # {}]
                            ELSE [run[x] EXCEPT !.disturbed = @ \/ x \in met]]
        BY <2>3 DEF Opens
      <3>2. PICK g : g = [f EXCEPT !.pc = "image", !.ver = elf[Prog(r)],
                                   !.disturbed = @ \/ met # {}]
        OBVIOUS
      <3>5. run' = [x \in Runners |-> IF x = r THEN g
                                      ELSE IF x \in met THEN Disturb(run[x]) ELSE run[x]]
        <4>1. run' = [x \in Runners |-> IF x = r THEN g ELSE DisturbIf(run[x], x, met)]
          BY <3>1, <3>2, <1>f DEF DisturbIf, Prog
        <4>2. \A x \in Runners : DisturbIf(run[x], x, met) = IF x \in met THEN Disturb(run[x]) ELSE run[x]
          BY MetDisturb
        <4> QED BY <4>1, <4>2
      <3>6. g = Record(g) /\ GoesOn(f, g)
        BY <3>2, <2>0, <1>f DEF Record, GoesOn, Working, Early, Testing
      <3>7. RunnerOK(g, elf)
        <4>1. Head(g.todo) \in Programs /\ elf[Head(g.todo)] # Absent
          BY <3>1, <3>6, <1>f DEF Prog, GoesOn
        <4>2. f.pc \in Working
          BY <2>0 DEF Working
        <4> QED BY <2>0, <3>6, <4>1, <4>2, <1>f DEF RunnerOK, GoesOn, Working, Early, Testing
      <3>8. Judged(g) /\ Truthful(g)
        BY <3>6, <1>f, GoesOnOK
      <3> QED BY <2>0, <3>5, <3>7, <3>8, OneDisturbs
    <2> QED BY <1>6, <2>1, <2>2, <2>3, ImageOpens
  <1>12. CASE WriteImage(r)
    <2>0. f.pc = "image" /\ elf' = elf
      BY <1>12, <1>f DEF WriteImage, At, files
    <2>1. PICK g : g = [f EXCEPT !.pc = "ready"]
      OBVIOUS
    <2>2. run' = [run EXCEPT ![r] = g]
      BY <1>12, <2>1, <1>f DEF WriteImage, Goes
    <2>3. g = Record(g) /\ GoesOn(f, g) /\ f.pc \in Testing
      BY <2>1, <2>0, <1>f DEF Record, GoesOn, Working, Early, Testing
    <2> QED BY <2>0, <2>2, <2>3, <1>f, <1>k, NextStage
  <1>13. CASE StartTb(r)
    <2>0. f.pc = "ready" /\ elf' = elf
      BY <1>13, <1>f DEF StartTb, At, files
    <2>1. PICK g : g = [f EXCEPT !.pc = "tb", !.mem = memhex[Prog(r)], !.rom = romhex,
                                 !.disturbed = @ \/ Writes(r)]
      OBVIOUS
    <2>2. run' = [run EXCEPT ![r] = g]
      BY <1>13, <2>1, <1>f DEF StartTb, Writes
    <2>3. g = Record(g) /\ GoesOn(f, g) /\ f.pc \in Testing
      <3>1. Writes(r) \in BOOLEAN
        BY DEF Writes
      <3> QED BY <2>1, <2>0, <3>1, <1>f DEF Record, GoesOn, Working, Early, Testing
    <2> QED BY <2>0, <2>2, <2>3, <1>f, <1>k, NextStage
  <1>7. CASE EndTb(r)
    <2>0. f.pc = "tb" /\ elf' = elf
      BY <1>7, <1>f DEF EndTb, At, files
    <2>1. CASE Exits(r, 2)
      BY <2>0, <2>1, <1>f, <1>k, <1>w, Refusal
    <2>2. CASE \E does : Dumps(r, does)
      <3>1. PICK g : g = [f EXCEPT !.pc = "collect", !.mem = <<>>, !.rom = <<>>]
        OBVIOUS
      <3>2. run' = [run EXCEPT ![r] = g]
        BY <2>2, <3>1, <1>f DEF Dumps
      <3>3. g = Record(g) /\ GoesOn(f, g) /\ f.pc \in Testing
        BY <3>1, <2>0, <1>f DEF Record, GoesOn, Working, Early, Testing
      <3> QED BY <2>0, <3>2, <3>3, <1>f, <1>k, NextStage
    <2> QED BY <1>7, <2>1, <2>2 DEF EndTb
  <1>8. CASE Collect(r)
    <2>0. f.pc = "collect" /\ elf' = elf
      BY <1>8, <1>f DEF Collect, At, files
    <2>1. CASE Exits(r, 2)
      BY <2>0, <2>1, <1>f, <1>k, <1>w, Refusal
    <2>2. CASE ~Exits(r, 2)
      <3>1. PICK g : g = [f EXCEPT !.pc = "compare", !.rec = uart[Prog(r)]]
        OBVIOUS
      <3>2. run' = [run EXCEPT ![r] = g]
        BY <1>8, <2>2, <3>1, <1>f DEF Collect
      <3>3. g = Record(g) /\ GoesOn(f, g) /\ f.pc \in Testing
        BY <3>1, <2>0, <1>f DEF Record, GoesOn, Working, Early, Testing
      <3> QED BY <2>0, <3>2, <3>3, <1>f, <1>k, NextStage
    <2> QED BY <2>1, <2>2
  <1>9. ASSUME NEW compared \in BOOLEAN, Compare(r, compared) PROVE RunInv' /\ JudgeInv'
    <2>0. At(r, "compare") /\ f.pc = "compare" /\ elf' = elf
      BY <1>9, <1>f DEF Compare, At, files
    <2>1. PICK x, v, n : x = Prog(r) /\ v = elf[x] /\ n = Failures(r, compared)
      OBVIOUS
    <2>2. /\ x \in Programs /\ v \in DOMAIN Golden[x] /\ n \in Nat
          /\ ~f.disturbed /\ n = 0 => Shown(f, x, v)
          /\ ~f.disturbed /\ n > 0 /\ Plain(f) => ~compared \/ ~Agrees(f, x, v) \/ ~Prints(f, x)
      BY <2>0, <2>1, <1>f, FailuresTell
    <2>3. PICK g : g = [f EXCEPT !.pc = "next", !.failures = @ + n, !.todo = Tail(@),
                          !.rec = TornRecord, !.judged = @ \cup {<<x, v>>}, !.moved = @ \/ v # f.ver \/ ~compared]
      OBVIOUS
    <2>4. run' = [run EXCEPT ![r] = g]
      BY <1>9, <1>f, <2>1, <2>3 DEF Compare
    <2>5. /\ g = Record(g) /\ g.pc = "next" /\ g.failures = f.failures + n
          /\ g.todo = Tail(f.todo) /\ g.judged = f.judged \cup {<<x, v>>} /\ g.req = f.req
          /\ g.want = f.want /\ g.disturbed = f.disturbed /\ g.exit = f.exit
          /\ g.moved = (f.moved \/ v # f.ver \/ ~compared)
      BY <2>3, <1>f DEF Record
    <2>6. g.moved \in BOOLEAN /\ (f.moved => g.moved) /\ (~compared => g.moved) /\ x = Head(f.todo)
      BY <2>1, <2>5, <1>f DEF Prog
    <2>7. RunnerOK(g, elf) /\ Judged(g) /\ Truthful(g)
      <3>1. ~f.disturbed /\ n > 0 /\ Plain(f) => g.moved \/ ~Agrees(f, x, v) \/ ~Prints(f, x)
        BY <2>2, <2>6
      <3>2. ~f.disturbed /\ n = 0 => Shown(f, x, v)
        BY <2>2
      <3>3. Compares(f, g, x, v, n)
        BY <2>0, <2>2, <2>5, <2>6, <3>1, <3>2 DEF Compares
      <3> QED BY <3>3, <1>f, ComparedOK
    <2> QED BY <2>0, <2>4, <2>7, <1>k, OneMoves
  <1>10. CASE Finish(r)
    <2>1. f.pc = "next" /\ f.todo = <<>> /\ elf' = elf
      BY <1>10, <1>f DEF Finish, At, files
    <2>2. PICK g : g = Left(f, IF f.failures > 0 THEN 1 ELSE 0)
      OBVIOUS
    <2>3. run' = [run EXCEPT ![r] = g]
      BY <1>10, <1>f, <2>2 DEF Finish, Exits, Left, Req
    <2>4. RunnerOK(g, elf) /\ Judged(g) /\ Truthful(g)
      BY <2>1, <2>2, <1>f, FinishedOK
    <2> QED BY <2>1, <2>3, <2>4, <1>k, OneMoves
  <1> QED BY <1>1, <1>2, <1>3, <1>4, <1>5, <1>6, <1>7, <1>8, <1>9, <1>10, <1>11, <1>12, <1>13
          DEF RunnerStep

-----------------------------------------------------------------------------
(* What the actions do to the files                                         *)

\* Sources, ELFs, models, dumps and records stay what they are.
LEMMA FilesStep == ASSUME ShapeInv, Next PROVE FileInv'
  <1> USE DEF ShapeInv
  <1>1. ASSUME UNCHANGED <<files, memhex, dumps>> PROVE FileInv'
    BY <1>1 DEF FileInv, files, dumps
  <1>2. ASSUME NEW S, elf' = Built(S), UNCHANGED <<rtl, win, asm, exe, clock, edits, images, dumps>>
        PROVE  FileInv'
    BY <1>2 DEF FileInv, Built, images, dumps
  <1>3. ASSUME NEW r \in Runners, RunnerStep(r) PROVE FileInv'
    <2>1. CASE BuildCorpus(r)
      BY <2>1, <1>2 DEF BuildCorpus
    <2>2. CASE CheckModel(r) \/ Prepare(r) \/ WriteRom(r) \/ Collect(r) \/ Finish(r)
      BY <2>2, <1>1 DEF CheckModel, Prepare, WriteRom, Collect, Finish, images
    <2>3. CASE \E compared \in BOOLEAN : Compare(r, compared)
      BY <2>3, <1>1 DEF Compare, images
    <2>6. CASE OpenImage(r) \/ WriteImage(r)
      <3>1. UNCHANGED <<files, dumps>>
        BY <2>6 DEF OpenImage, WriteImage
      <3>2. memhex' = memhex \/ \E x, m : memhex' = [memhex EXCEPT ![x] = m]
        BY <2>6, ImageOpens DEF WriteImage, Opens
      <3> QED BY <3>1, <3>2 DEF FileInv, files, dumps
    <2>4. CASE Compile(r)
      <3>0. UNCHANGED <<rtl, asm, elf, trace, uart, memhex>> /\ clock' = clock + 1
        BY <2>4 DEF Compile, dumps, images
      <3>1. \/ UNCHANGED exe
            \/ \E e : /\ exe' = [exe EXCEPT ![Mode(r)] = e]
                      /\ e.mtime = clock + 1 /\ e.mixed \in BOOLEAN
        <4>1. CASE UNCHANGED exe
          BY <4>1
        <4>2. CASE exe' # exe
          <5>1. PICK v : exe' = [exe EXCEPT ![Mode(r)] =
                   [ver |-> v, win |-> run[r].win, mtime |-> clock + 1,
                    mixed |-> rtl.ver # run[r].want]]
            BY <2>4, <4>2 DEF Compile
          <5>2. PICK e : e = [ver |-> v, win |-> run[r].win, mtime |-> clock + 1,
                              mixed |-> rtl.ver # run[r].want]
            OBVIOUS
          <5>3. e.mtime = clock + 1 /\ e.mixed \in BOOLEAN
            BY <5>2
          <5> QED BY <5>1, <5>2, <5>3
        <4> QED BY <4>1, <4>2
      <3>2. \A m \in Modes : /\ exe'[m].mtime \in Int /\ exe'[m].mtime <= clock'
                             /\ exe'[m].mixed \in BOOLEAN
        BY <3>0, <3>1 DEF FileInv
      <3>3. exe' = [m \in Modes |-> exe'[m]]
        BY <3>1 DEF FileInv
      <3> QED BY <3>0, <3>2, <3>3 DEF FileInv
    <2>5. CASE StartTb(r) \/ EndTb(r)
      <3>1. UNCHANGED <<files, memhex>>
        BY <2>5 DEF StartTb, EndTb, images
      <3>2. trace' = trace \/ \E s, d : trace' = [trace EXCEPT ![s] = d]
        BY <2>5 DEF StartTb, EndTb, Dumps, dumps
      <3>3. uart' = uart \/ \E x, d : uart' = [uart EXCEPT ![x] = d]
        BY <2>5 DEF StartTb, EndTb, Dumps, dumps
      <3> QED BY <3>1, <3>2, <3>3 DEF FileInv, files
    <2> QED BY <1>3, <2>1, <2>2, <2>3, <2>4, <2>5, <2>6 DEF RunnerStep
  <1>4. ASSUME NEW r \in Runners, NEW q \in Requests, Start(r, q) PROVE FileInv'
    BY <1>4, <1>1 DEF Start, images
  <1>5. CASE EditRtl
    <2>1. /\ UNCHANGED <<asm, elf, exe, trace, uart, memhex>> /\ clock' = clock + 1
          /\ rtl'.ver \in DOMAIN Core /\ rtl'.mtime = clock + 1
      BY <1>5 DEF EditRtl, images, dumps
    <2> QED BY <2>1 DEF FileInv
  <1>6. CASE EditWindow
    BY <1>6 DEF EditWindow, FileInv, images, dumps
  <1>7. ASSUME NEW x \in Programs, EditProgram(x) PROVE FileInv'
    BY <1>7 DEF EditProgram, FileInv, images, dumps
  <1>8. ASSUME NEW x \in Programs, RebuildElf(x) PROVE FileInv'
    BY <1>8 DEF RebuildElf, FileInv, images, dumps
  <1> QED BY <1>3, <1>4, <1>5, <1>6, <1>7, <1>8 DEF Next

\* A model is only newer than the sources if it was compiled from them, or
\* while they were edited.
LEMMA FreshStep == ASSUME ShapeInv, FreshInv, Next PROVE FreshInv'
  <1>1. ASSUME UNCHANGED <<rtl, exe>> PROVE FreshInv'
    BY <1>1 DEF FreshInv
  <1>2. ASSUME NEW r \in Runners, Compile(r) PROVE FreshInv'
    <2>1. CASE UNCHANGED exe
      BY <1>1, <1>2, <2>1 DEF Compile
    <2>2. CASE exe' # exe
      <3>1. PICK v \in {run[r].want, rtl.ver} : exe' = [exe EXCEPT ![Mode(r)] =
               [ver |-> v, win |-> run[r].win, mtime |-> clock + 1,
                mixed |-> rtl.ver # run[r].want]]
        BY <1>2, <2>2 DEF Compile
      <3>2. UNCHANGED rtl
        BY <1>2 DEF Compile
      <3>3. ASSUME NEW m \in Modes, ~exe'[m].mixed, exe'[m].mtime >= rtl.mtime
            PROVE  exe'[m].ver = rtl.ver
        <4>1. CASE m = Mode(r)
          <5>1. exe'[m].ver = v /\ exe'[m].mixed = (rtl.ver # run[r].want)
            BY <3>1, <4>1 DEF ShapeInv, FileInv
          <5> QED BY <5>1, <3>3
        <4>2. CASE m # Mode(r)
          <5>1. exe'[m] = exe[m]
            BY <3>1, <4>2 DEF ShapeInv, FileInv
          <5> QED BY <5>1, <3>3 DEF FreshInv
        <4> QED BY <4>1, <4>2
      <3> QED BY <3>2, <3>3 DEF FreshInv
    <2> QED BY <2>1, <2>2
  <1>3. ASSUME NEW r \in Runners, RunnerStep(r) PROVE FreshInv'
    <2>1. CASE BuildCorpus(r) \/ CheckModel(r) \/ Prepare(r) \/ WriteRom(r) \/ OpenImage(r)
               \/ WriteImage(r) \/ StartTb(r) \/ EndTb(r) \/ Collect(r) \/ Finish(r)
      BY <2>1, <1>1 DEF BuildCorpus, CheckModel, Prepare, WriteRom, OpenImage, WriteImage, StartTb,
         EndTb, Collect, Finish, files
    <2>2. CASE \E compared \in BOOLEAN : Compare(r, compared)
      BY <2>2, <1>1 DEF Compare, files
    <2> QED BY <1>2, <1>3, <2>1, <2>2 DEF RunnerStep
  <1>4. ASSUME NEW r \in Runners, NEW q \in Requests, Start(r, q) PROVE FreshInv'
    BY <1>4, <1>1 DEF Start, files
  <1>5. CASE EditRtl
    <2>1. UNCHANGED exe /\ rtl'.mtime = clock + 1
      BY <1>5 DEF EditRtl
    <2>2. \A m \in Modes : exe[m].mtime \in Int /\ exe[m].mtime <= clock /\ clock \in Nat
      BY DEF ShapeInv, FileInv
    <2>3. \A m \in Modes : ~(exe'[m].mtime >= rtl'.mtime)
      BY <2>1, <2>2
    <2> QED BY <2>3 DEF FreshInv
  <1>6. CASE EditWindow \/ \E x \in Programs : EditProgram(x) \/ RebuildElf(x)
    BY <1>6, <1>1 DEF EditWindow, EditProgram, RebuildElf
  <1> QED BY <1>3, <1>4, <1>5, <1>6 DEF Next

-----------------------------------------------------------------------------
(* Who reads whose dump                                                     *)

\* Writing elsewhere leaves a runner's dump alone.
LEMMA DumpKept ==
  ASSUME NEW f, NEW e, NEW t, NEW u, Dumped(f, e, t, u), NEW e2, NEW t2, NEW u2,
         f.pc \in {"prepare", "rom", "next"} \cup Testing => e2[f.req.mode] = e[f.req.mode],
         f.pc \in Testing => /\ t2[<<Head(f.todo), f.req.fault # Absent>>]
                                  = t[<<Head(f.todo), f.req.fault # Absent>>]
                             /\ u2[Head(f.todo)] = u[Head(f.todo)]
  PROVE  Dumped(f, e2, t2, u2)
  <1>1. f.pc \in {"collect", "compare"} => f.pc \in Testing
    BY DEF Testing
  <1> QED BY <1>1 DEF Dumped

\* A runner that exits reads no dump.
LEMMA NoDump ==
  ASSUME NEW f, f.pc \in {"idle", "done", "corpus", "model"}, NEW e, NEW t, NEW u
  PROVE  Dumped(f, e, t, u)
  BY DEF Dumped, Testing

\* A step of one runner that leaves models, dumps and records alone.
LEMMA QuietStep ==
  ASSUME ShapeInv, MeetInv, DumpInv, NEW r \in Runners, NEW g, run' = [run EXCEPT ![r] = g],
         UNCHANGED <<exe, trace, uart>>, g.disturbed \/ Dumped(g, exe, trace, uart),
         g.pc \in Testing => /\ run[r].pc \in Testing /\ g.todo = run[r].todo
                             /\ run[r].disturbed => g.disturbed
  PROVE  MeetInv' /\ DumpInv'
  <1>1. run'[r] = g /\ \A x \in Runners : x # r => run'[x] = run[x]
    BY DEF ShapeInv, RunInv
  <1>2. DumpInv'
    BY <1>1 DEF DumpInv
  <1>3. MeetInv'
    <2> SUFFICES ASSUME NEW x \in Runners, NEW y \in Runners, x # y, Busy(x)', Busy(y)',
                        Prog(x)' = Prog(y)'
                 PROVE  run'[x].disturbed
      BY DEF MeetInv
    <2>1. ASSUME NEW z \in Runners, Busy(z)'
          PROVE  Busy(z) /\ Prog(z)' = Prog(z) /\ (run[z].disturbed => run'[z].disturbed)
      BY <1>1, <2>1 DEF Busy, Prog, Testing
    <2>2. Busy(x) /\ Busy(y) /\ Prog(x) = Prog(y)
      BY <2>1
    <2> QED BY <2>1, <2>2 DEF MeetInv
  <1> QED BY <1>2, <1>3

\* A runner that gives up disturbs nobody.
LEMMA QuietRefusal ==
  ASSUME ShapeInv, MeetInv, DumpInv, NEW r \in Runners, NEW code, Exits(r, code),
         UNCHANGED <<exe, trace, uart>>
  PROVE  MeetInv' /\ DumpInv'
  <1>1. PICK f : f = run[r]
    OBVIOUS
  <1>2. PICK g : g = Left(f, code)
    OBVIOUS
  <1>3. run' = [run EXCEPT ![r] = g]
    BY <1>1, <1>2 DEF Exits, Left, Req
  <1>4. g.pc = "done"
    BY <1>2, LeftFields
  <1>5. Dumped(g, exe, trace, uart) /\ g.pc \notin Testing
    BY <1>4, NoDump DEF Testing
  <1> QED BY <1>3, <1>5, QuietStep

\* One runner goes on and disturbs those it meets; models, dumps and records
\* stay what they are.
LEMMA MetStep ==
  ASSUME ShapeInv, MeetInv, DumpInv, NEW r \in Runners, NEW g, NEW met, r \notin met,
         run' = [x \in Runners |-> IF x = r THEN g
                                   ELSE IF x \in met THEN Disturb(run[x]) ELSE run[x]],
         UNCHANGED <<exe, trace, uart>>, g.disturbed \/ Dumped(g, exe, trace, uart),
         g.pc \in Testing => \A x \in Runners \ {r} :
           Busy(x) /\ Prog(x) = Head(g.todo) => x \in met /\ g.disturbed
  PROVE  MeetInv' /\ DumpInv'
  <1>1. run'[r] = g
    OBVIOUS
  <1>2. ASSUME NEW x \in Runners, x # r
        PROVE  /\ run'[x].pc = run[x].pc /\ run'[x].todo = run[x].todo
               /\ run[x].disturbed => run'[x].disturbed
               /\ x \in met => run'[x].disturbed
               /\ x \notin met => run'[x] = run[x]
    <2>1. PICK h : h = run[x] /\ h = Record(h)
      BY DEF ShapeInv, RunInv, RunnerOK
    <2>2. run'[x] = h \/ (run'[x] = [h EXCEPT !.disturbed = TRUE])
      BY <1>2, <2>1 DEF Disturb
    <2>3. x \in met => run'[x] = [h EXCEPT !.disturbed = TRUE]
      BY <1>2, <2>1 DEF Disturb
    <2> QED BY <1>2, <2>1, <2>2, <2>3 DEF Record
  <1>3. DumpInv'
    <2> SUFFICES ASSUME NEW x \in Runners PROVE run'[x].disturbed \/ Dumped(run'[x], exe, trace, uart)
      BY DEF DumpInv
    <2>1. CASE x # r
      BY <1>2, <2>1 DEF DumpInv
    <2> QED BY <1>1, <2>1
  <1>4. MeetInv'
    <2> SUFFICES ASSUME NEW x \in Runners, NEW y \in Runners, x # y, Busy(x)', Busy(y)',
                        Prog(x)' = Prog(y)'
                 PROVE  run'[x].disturbed
      BY DEF MeetInv
    <2>1. \A z \in Runners : z # r => (Busy(z)' <=> Busy(z)) /\ Prog(z)' = Prog(z)
      BY <1>2 DEF Busy, Prog
    <2>2. Busy(r)' => g.pc \in Testing /\ Prog(r)' = Head(g.todo)
      BY <1>1 DEF Busy, Prog, Testing
    <2>3. CASE x = r
      BY <1>1, <2>1, <2>2, <2>3
    <2>4. CASE y = r
      BY <1>2, <2>1, <2>2, <2>4
    <2>5. CASE x # r /\ y # r
      BY <1>2, <2>1, <2>5 DEF MeetInv
    <2> QED BY <2>3, <2>4, <2>5
  <1> QED BY <1>3, <1>4

\* A runner that writes its own dump and record: an undisturbed run of another
\* program has files of its own.
LEMMA DumpWrite ==
  ASSUME ShapeInv, MeetInv, DumpInv, NEW r \in Runners, NEW f, f = run[r], f.pc \in Testing,
         NEW g, run' = [run EXCEPT ![r] = g], g.todo = f.todo, f.disturbed => g.disturbed,
         NEW t, NEW u, UNCHANGED exe,
         trace' = [trace EXCEPT ![<<Head(f.todo), f.req.fault # Absent>>] = t],
         uart' = [uart EXCEPT ![Head(f.todo)] = u],
         g.disturbed \/ Dumped(g, exe', trace', uart')
  PROVE  MeetInv' /\ DumpInv'
  <1>1. run'[r] = g /\ \A x \in Runners : x # r => run'[x] = run[x]
    BY DEF ShapeInv, RunInv
  <1>2. MeetInv'
    <2> SUFFICES ASSUME NEW x \in Runners, NEW y \in Runners, x # y, Busy(x)', Busy(y)',
                        Prog(x)' = Prog(y)'
                 PROVE  run'[x].disturbed
      BY DEF MeetInv
    <2>1. ASSUME NEW z \in Runners, Busy(z)'
          PROVE  Busy(z) /\ Prog(z)' = Prog(z) /\ (run[z].disturbed => run'[z].disturbed)
      BY <1>1, <2>1 DEF Busy, Prog, Testing
    <2>2. run[x].disturbed
      BY <2>1 DEF MeetInv
    <2> QED BY <2>1, <2>2
  <1>3. ASSUME NEW x \in Runners PROVE run'[x].disturbed \/ Dumped(run'[x], exe', trace', uart')
    <2>1. CASE x = r
      BY <1>1, <2>1
    <2>2. CASE x # r
      <3>1. ASSUME ~run[x].disturbed PROVE Dumped(run[x], exe', trace', uart')
        <4>1. PICK h : h = run[x] /\ Dumped(h, exe, trace, uart)
          BY <3>1 DEF DumpInv
        <4>2. PICK t2, u2 : t2 = trace' /\ u2 = uart'
          OBVIOUS
        <4>3. ASSUME h.pc \in Testing
              PROVE  /\ t2[<<Head(h.todo), h.req.fault # Absent>>]
                          = trace[<<Head(h.todo), h.req.fault # Absent>>]
                     /\ u2[Head(h.todo)] = uart[Head(h.todo)]
          <5>1. Busy(x) /\ Prog(x) = Head(h.todo) /\ Busy(r) /\ Prog(r) = Head(f.todo)
            BY <4>1, <4>3 DEF Busy, Prog, Testing
          <5>2. Head(h.todo) # Head(f.todo)
            BY <2>2, <3>1, <5>1 DEF MeetInv
          <5>3. Head(h.todo) \in Programs
            BY <4>1, <4>3 DEF ShapeInv, RunInv, RunnerOK
          <5>4. <<Head(h.todo), h.req.fault # Absent>> # <<Head(f.todo), f.req.fault # Absent>>
            BY <5>2
          <5> QED BY <4>2, <5>2, <5>3, <5>4 DEF ShapeInv, FileInv
        <4>4. Dumped(h, exe, t2, u2)
          BY <4>1, <4>3, DumpKept
        <4> QED BY <4>1, <4>2, <4>4
      <3> QED BY <1>1, <2>2, <3>1
    <2> QED BY <2>1, <2>2
  <1> QED BY <1>2, <1>3 DEF DumpInv

\* A runner that opens its ROM disturbs runs of other ROMs.
LEMMA PrepareDump ==
  ASSUME ShapeInv, MeetInv, DumpInv, NEW r \in Runners, Prepare(r)
  PROVE  MeetInv' /\ DumpInv'
  <1>f. PICK f : f = run[r] /\ (f.disturbed \/ Dumped(f, exe, trace, uart))
                 /\ f.pc = "prepare" /\ f = Record(f) /\ f.disturbed \in BOOLEAN
    BY DEF ShapeInv, RunInv, DumpInv, RunnerOK, Prepare, At
  <1>x. UNCHANGED <<exe, trace, uart>>
    BY DEF Prepare, files, dumps
  <1>1. CASE Exits(r, 2)
    BY <1>1, <1>x, QuietRefusal
  <1>2. CASE ~Exits(r, 2)
    <2>0. PICK met :
            /\ met = {x \in Runners : HasRom(x) /\ OtherRom(r, x)}
            /\ romhex' = Torn
            /\ \E writing \in BOOLEAN :
                 /\ writing <=> \E x \in met : At(x, "rom")
                 /\ run' = [x \in Runners |->
                      IF x = r THEN [run[r] EXCEPT !.pc = "rom", !.disturbed = @ \/ writing]
                      ELSE [run[x] EXCEPT !.disturbed = @ \/ x \in met]]
      BY <1>2, PrepareOpens
    <2>1. PICK writing \in BOOLEAN :
            /\ met = {x \in Runners : HasRom(x) /\ OtherRom(r, x)}
            /\ writing <=> \E x \in met : At(x, "rom")
            /\ run' = [x \in Runners |->
                 IF x = r THEN [run[r] EXCEPT !.pc = "rom", !.disturbed = @ \/ writing]
                 ELSE [run[x] EXCEPT !.disturbed = @ \/ x \in met]]
      BY <2>0
    <2>2. PICK g : g = [f EXCEPT !.pc = "rom", !.disturbed = @ \/ writing]
      OBVIOUS
    <2>3. run' = [x \in Runners |-> IF x = r THEN g
                                    ELSE IF x \in met THEN Disturb(run[x]) ELSE run[x]]
      <3>1. run' = [x \in Runners |-> IF x = r THEN g ELSE DisturbIf(run[x], x, met)]
        BY <2>1, <2>2, <1>f DEF DisturbIf
      <3>2. \A x \in Runners : DisturbIf(run[x], x, met) = IF x \in met THEN Disturb(run[x]) ELSE run[x]
        BY MetDisturb
      <3> QED BY <3>1, <3>2
    <2>4. g.pc = "rom" /\ g.want = f.want /\ g.req = f.req /\ (f.disturbed => g.disturbed)
      BY <2>2, <1>f DEF Record
    <2>5. g.disturbed \/ Dumped(g, exe, trace, uart)
      BY <1>f, <2>4 DEF Dumped, Testing
    <2>6. g.pc \notin Testing /\ r \notin met
      BY <2>1, <2>4 DEF Testing, OtherRom
    <2> QED BY <1>x, <2>3, <2>5, <2>6, MetStep
  <1> QED BY <1>1, <1>2

\* A runner that opens its image meets the others at the same program.
LEMMA OpenImageDump ==
  ASSUME ShapeInv, MeetInv, DumpInv, NEW r \in Runners, OpenImage(r)
  PROVE  MeetInv' /\ DumpInv'
  <1>f. PICK f : f = run[r] /\ (f.disturbed \/ Dumped(f, exe, trace, uart))
                 /\ f.pc = "next" /\ f = Record(f) /\ f.disturbed \in BOOLEAN
    BY DEF ShapeInv, RunInv, DumpInv, RunnerOK, OpenImage, At
  <1>x. UNCHANGED <<exe, trace, uart>>
    BY DEF OpenImage, files, dumps
  <1>1. CASE Exits(r, 2)
    BY <1>1, <1>x, QuietRefusal
  <1>2. CASE run' = [run EXCEPT ![r].pc = "done", ![r].exit = 1, ![r].moved = TRUE]
    <2>1. PICK g : g = [f EXCEPT !.pc = "done", !.exit = 1, !.moved = TRUE]
      OBVIOUS
    <2>2. run' = [run EXCEPT ![r] = g] /\ g.pc = "done"
      BY <1>2, <1>f, <2>1 DEF Record
    <2>3. Dumped(g, exe, trace, uart) /\ g.pc \notin Testing
      BY <2>2, NoDump DEF Testing
    <2> QED BY <1>x, <2>2, <2>3, QuietStep
  <1>3. CASE Opens(r)
    <2>1. PICK met :
            /\ met = {x \in Runners \ {r} : Busy(x) /\ Prog(x) = Prog(r)}
            /\ run' = [x \in Runners |->
                 IF x = r THEN [run[r] EXCEPT !.pc = "image", !.ver = elf[Prog(r)],
                                              !.disturbed = @ \/ met # {}]
                 ELSE [run[x] EXCEPT !.disturbed = @ \/ x \in met]]
      BY <1>3 DEF Opens
    <2>2. PICK g : g = [f EXCEPT !.pc = "image", !.ver = elf[Prog(r)],
                                 !.disturbed = @ \/ met # {}]
      OBVIOUS
    <2>3. run' = [x \in Runners |-> IF x = r THEN g
                                    ELSE IF x \in met THEN Disturb(run[x]) ELSE run[x]]
      <3>1. run' = [x \in Runners |-> IF x = r THEN g ELSE DisturbIf(run[x], x, met)]
        BY <2>1, <2>2, <1>f DEF DisturbIf
      <3>2. \A x \in Runners : DisturbIf(run[x], x, met) = IF x \in met THEN Disturb(run[x]) ELSE run[x]
        BY MetDisturb
      <3> QED BY <3>1, <3>2
    <2>4. /\ g.pc = "image" /\ g.want = f.want /\ g.req = f.req /\ g.todo = f.todo
          /\ g.disturbed = (f.disturbed \/ met # {})
      BY <2>2, <1>f DEF Record
    <2>5. g.disturbed \/ Dumped(g, exe, trace, uart)
      BY <1>f, <2>4 DEF Dumped, Testing
    <2>6. \A x \in Runners \ {r} : Busy(x) /\ Prog(x) = Head(g.todo) => x \in met /\ g.disturbed
      BY <2>1, <2>4, <1>f DEF Prog
    <2>7. r \notin met
      BY <2>1
    <2> QED BY <1>x, <2>3, <2>5, <2>6, <2>7, MetStep
  <1> QED BY <1>1, <1>2, <1>3, ImageOpens

\* A testbench starts with an empty dump and an empty record.
LEMMA StartTbDump ==
  ASSUME ShapeInv, MeetInv, DumpInv, NEW r \in Runners, StartTb(r)
  PROVE  MeetInv' /\ DumpInv'
  <1>f. PICK f : f = run[r] /\ (f.disturbed \/ Dumped(f, exe, trace, uart))
                 /\ f.pc = "ready" /\ f = Record(f) /\ f.disturbed \in BOOLEAN
    BY DEF ShapeInv, RunInv, DumpInv, RunnerOK, StartTb, At
  <1>1. PICK g : g = [f EXCEPT !.pc = "tb", !.mem = memhex[Prog(r)], !.rom = romhex,
                               !.disturbed = @ \/ Writes(r)]
    OBVIOUS
  <1>2. /\ run' = [run EXCEPT ![r] = g] /\ UNCHANGED exe
        /\ trace' = [trace EXCEPT ![<<Head(f.todo), f.req.fault # Absent>>] = Torn]
        /\ uart' = [uart EXCEPT ![Head(f.todo)] = TornRecord]
    BY <1>f, <1>1 DEF StartTb, Writes, Stem, Prog, Faulty, Req, files
  <1>3. /\ g.pc = "tb" /\ g.want = f.want /\ g.req = f.req /\ g.todo = f.todo
        /\ f.disturbed => g.disturbed
    BY <1>1, <1>f DEF Record
  <1>4. g.disturbed \/ Dumped(g, exe', trace', uart')
    BY <1>f, <1>2, <1>3 DEF Dumped, Testing
  <1>5. f.pc \in Testing
    BY <1>f DEF Testing
  <1> QED BY <1>f, <1>2, <1>3, <1>4, <1>5, DumpWrite

\* A model that the run takes for fresh is one of the sources it looked at.
LEMMA CheckModelDump ==
  ASSUME ShapeInv, FreshInv, MeetInv, DumpInv, NEW r \in Runners, CheckModel(r)
  PROVE  MeetInv' /\ DumpInv'
  <1>f. PICK f : /\ f = run[r] /\ f.pc = "model" /\ f = Record(f) /\ f.disturbed \in BOOLEAN
                 /\ f.req \in Requests
    BY DEF ShapeInv, RunInv, RunnerOK, CheckModel, At
  <1>1. PICK e : e = exe[f.req.mode]
    OBVIOUS
  <1>2. PICK fresh \in BOOLEAN : fresh = (e # NoExe /\ ~f.req.rebuild /\ ~Stale(e))
    OBVIOUS
  <1>3. PICK g : g = [f EXCEPT !.want = rtl.ver, !.disturbed = @ \/ (fresh /\ e.mixed),
                               !.pc = IF fresh THEN "prepare" ELSE "compile"]
    OBVIOUS
  <1>4. run' = [run EXCEPT ![r] = g] /\ UNCHANGED <<exe, trace, uart>>
    BY <1>f, <1>1, <1>2, <1>3 DEF CheckModel, Mode, Req, files, dumps
  <1>5. /\ g.pc = (IF fresh THEN "prepare" ELSE "compile") /\ g.want = rtl.ver
        /\ g.req = f.req /\ g.disturbed = (f.disturbed \/ (fresh /\ e.mixed))
    BY <1>3, <1>f DEF Record
  <1>6. g.pc \notin Testing
    BY <1>5 DEF Testing
  <1>7. ASSUME ~g.disturbed PROVE Dumped(g, exe, trace, uart)
    <2>1. rtl.ver \in DOMAIN Core
      BY DEF ShapeInv, FileInv
    <2>2. ASSUME fresh PROVE e.ver = rtl.ver
      <3>1. f.req.mode \in Modes
        BY <1>f DEF Modes
      <3>2. ~e.mixed /\ ~(rtl.mtime > e.mtime)
        BY <1>2, <1>5, <1>7, <2>2 DEF Stale
      <3>3. e.mtime \in Int /\ rtl.mtime \in Nat
        BY <1>1, <3>1 DEF ShapeInv, FileInv
      <3>4. e.mtime >= rtl.mtime
        BY <3>2, <3>3
      <3> QED BY <1>1, <3>1, <3>2, <3>4 DEF FreshInv
    <2> QED BY <1>1, <1>5, <2>1, <2>2 DEF Dumped, Testing
  <1> QED BY <1>4, <1>6, <1>7, QuietStep

\* A compiled model replaces the one that others run.
LEMMA CompileDump ==
  ASSUME ShapeInv, MeetInv, DumpInv, NEW r \in Runners, Compile(r)
  PROVE  MeetInv' /\ DumpInv'
  <1>f. PICK f : /\ f = run[r] /\ f.pc = "compile" /\ f = Record(f) /\ f.disturbed \in BOOLEAN
                 /\ f.req \in Requests
    BY DEF ShapeInv, RunInv, RunnerOK, Compile, At
  <1>x. UNCHANGED <<trace, uart>>
    BY DEF Compile, dumps
  <1>1. CASE Exits(r, 2) /\ UNCHANGED exe
    BY <1>1, <1>x, QuietRefusal
  <1>2. CASE ~(Exits(r, 2) /\ UNCHANGED exe)
    <2>1. PICK mixed, v, e :
            /\ mixed \in BOOLEAN /\ v \in {f.want, rtl.ver}
            /\ mixed = (rtl.ver # f.want) /\ e.ver = v
            /\ exe' = [exe EXCEPT ![f.req.mode] = e]
            /\ run' = [x \in Runners |->
                   IF x = r THEN [run[x] EXCEPT !.pc = "prepare", !.disturbed = @ \/ mixed]
                   ELSE IF HasModel(x) /\ Mode(x) = f.req.mode
                        THEN [run[x] EXCEPT !.disturbed = TRUE] ELSE run[x]]
      <3>1. PICK v \in {f.want, rtl.ver} :
              /\ exe' = [exe EXCEPT ![f.req.mode] =
                   [ver |-> v, win |-> run[r].win, mtime |-> clock + 1,
                    mixed |-> rtl.ver # f.want]]
              /\ run' = [x \in Runners |->
                   IF x = r THEN [run[x] EXCEPT !.pc = "prepare", !.disturbed = @ \/ rtl.ver # f.want]
                   ELSE IF HasModel(x) /\ Mode(x) = f.req.mode
                        THEN [run[x] EXCEPT !.disturbed = TRUE] ELSE run[x]]
        BY <1>2, <1>f DEF Compile, Mode, Req
      <3>2. PICK e : e = [ver |-> v, win |-> run[r].win, mtime |-> clock + 1,
                          mixed |-> rtl.ver # f.want]
        OBVIOUS
      <3>3. PICK mixed \in BOOLEAN : mixed = (rtl.ver # f.want)
        OBVIOUS
      <3>4. e.ver = v
        BY <3>2
      <3> QED BY <3>1, <3>2, <3>3, <3>4
    <2>2. PICK g : g = [f EXCEPT !.pc = "prepare", !.disturbed = @ \/ mixed]
      OBVIOUS
    <2>3. /\ run'[r] = g /\ g.pc = "prepare" /\ g.want = f.want /\ g.req = f.req
          /\ g.disturbed = (f.disturbed \/ mixed)
      BY <2>1, <2>2, <1>f DEF Record
    <2>4. ASSUME NEW x \in Runners, x # r
          PROVE  /\ run'[x].pc = run[x].pc /\ run'[x].todo = run[x].todo
                 /\ run[x].disturbed => run'[x].disturbed
                 /\ HasModel(x) /\ Mode(x) = f.req.mode => run'[x].disturbed
                 /\ ~(HasModel(x) /\ Mode(x) = f.req.mode) => run'[x] = run[x]
      <3>1. PICK h : h = run[x] /\ h = Record(h)
        BY DEF ShapeInv, RunInv, RunnerOK
      <3>2. CASE HasModel(x) /\ Mode(x) = f.req.mode
        <4>1. run'[x] = [h EXCEPT !.disturbed = TRUE]
          BY <2>1, <2>4, <3>1, <3>2
        <4> QED BY <3>1, <3>2, <4>1 DEF Record
      <3>3. CASE ~(HasModel(x) /\ Mode(x) = f.req.mode)
        BY <2>1, <2>4, <3>3
      <3> QED BY <3>2, <3>3
    <2>5. MeetInv'
      <3> SUFFICES ASSUME NEW x \in Runners, NEW y \in Runners, x # y, Busy(x)', Busy(y)',
                          Prog(x)' = Prog(y)'
                   PROVE  run'[x].disturbed
        BY DEF MeetInv
      <3>1. ~Busy(r)'
        BY <2>3 DEF Busy
      <3>2. \A z \in Runners : z # r => (Busy(z)' <=> Busy(z)) /\ Prog(z)' = Prog(z)
        BY <2>4 DEF Busy, Prog
      <3>3. run[x].disturbed
        BY <3>1, <3>2 DEF MeetInv
      <3> QED BY <2>4, <3>1, <3>3
    <2>6. ASSUME NEW x \in Runners PROVE run'[x].disturbed \/ Dumped(run'[x], exe', trace', uart')
      <3>1. CASE x = r
        <4>1. ASSUME ~g.disturbed PROVE Dumped(g, exe', trace', uart')
          <5>1. ~f.disturbed /\ ~mixed
            BY <2>3, <4>1
          <5>2. f.want \in DOMAIN Core
            BY <5>1, <1>f DEF DumpInv, Dumped
          <5>3. exe'[f.req.mode].ver = f.want
            <6>1. f.req.mode \in Modes
              BY <1>f DEF Modes
            <6>2. exe'[f.req.mode] = e
              BY <6>1, <2>1 DEF ShapeInv, FileInv
            <6> QED BY <6>2, <2>1, <5>1
          <5> QED BY <2>3, <5>2, <5>3 DEF Dumped, Testing
        <4> QED BY <2>3, <3>1, <4>1
      <3>2. CASE x # r /\ HasModel(x) /\ Mode(x) = f.req.mode
        BY <2>4, <3>2
      <3>3. CASE x # r /\ ~(HasModel(x) /\ Mode(x) = f.req.mode)
        <4>1. run'[x] = run[x]
          BY <2>4, <3>3
        <4>2. ASSUME ~run[x].disturbed PROVE Dumped(run[x], exe', trace', uart')
          <5>1. PICK h : h = run[x] /\ Dumped(h, exe, trace, uart)
            BY <4>2 DEF DumpInv
          <5>2. PICK e2 : e2 = exe'
            OBVIOUS
          <5>3. ASSUME h.pc \in {"prepare", "rom", "next"} \cup Testing
                PROVE  e2[h.req.mode] = exe[h.req.mode]
            <6>1. HasModel(x) /\ Mode(x) = h.req.mode
              BY <5>1, <5>3 DEF HasModel, HasRom, Busy, Mode, Req, Testing
            <6>2. h.req \in Requests
              BY <5>1, <5>3 DEF ShapeInv, RunInv, RunnerOK, Testing
            <6>3. h.req.mode \in Modes
              BY <6>2 DEF Modes
            <6> QED BY <2>1, <3>3, <5>2, <6>1, <6>3 DEF ShapeInv, FileInv
          <5>4. Dumped(h, e2, trace, uart)
            BY <5>1, <5>3, DumpKept
          <5> QED BY <5>1, <5>2, <5>4, <1>x
        <4> QED BY <4>1, <4>2
      <3> QED BY <3>1, <3>2, <3>3
    <2> QED BY <2>5, <2>6 DEF DumpInv
  <1> QED BY <1>1, <1>2

\* A testbench that passes has written the dump of the core the run looked at.
LEMMA EndTbDump ==
  ASSUME ShapeInv, MeetInv, LoadInv, DumpInv, NEW r \in Runners, EndTb(r)
  PROVE  MeetInv' /\ DumpInv'
  <1>f. PICK f : /\ f = run[r] /\ f.pc = "tb" /\ f = Record(f) /\ f.disturbed \in BOOLEAN
                 /\ Head(f.todo) \in Programs
    BY DEF ShapeInv, RunInv, RunnerOK, EndTb, At, Testing
  <1>x. UNCHANGED exe
    BY DEF EndTb, files
  <1>1. CASE Exits(r, 2) /\ UNCHANGED <<trace, uart>>
    BY <1>1, <1>x, QuietRefusal
  <1>2. ASSUME NEW b \in Behaviours(r), TbPasses(r, b), Dumps(r, b) PROVE MeetInv' /\ DumpInv'
    <2>2. /\ b.end = "pass"
          /\ trace' = [trace EXCEPT ![<<Head(f.todo), f.req.fault # Absent>>] =
                         Faulted(b.commits, f.req.fault)]
          /\ uart' = [uart EXCEPT ![Head(f.todo)] = Garbled(b.uart, f.req.uartFault)]
      BY <1>2, <1>f DEF TbPasses, Dumps, Stem, Faulty, Prog, Req
    <2>3. PICK g : g = [f EXCEPT !.pc = "collect", !.mem = <<>>, !.rom = <<>>]
      OBVIOUS
    <2>4. run' = [run EXCEPT ![r] = g]
      BY <1>2, <1>f, <2>3 DEF Dumps
    <2>5. /\ g.pc = "collect" /\ g.todo = f.todo /\ g.want = f.want /\ g.req = f.req
          /\ g.disturbed = f.disturbed
      BY <2>3, <1>f DEF Record
    <2>6. ASSUME ~f.disturbed PROVE Dumped(g, exe', trace', uart')
      <3>1. f.want \in DOMAIN Core /\ exe[f.req.mode].ver = f.want
        BY <2>6, <1>f DEF DumpInv, Dumped, Testing
      <3>2. b = Core[exe[f.req.mode].ver][f.req.mode][Head(f.todo)]
        <4>1. f.rom = RomFor(f) /\ f.mem = MemFor(f)
          BY <2>6, <1>f DEF LoadInv, Loads
        <4>2. LoadedOwn(r)
          BY <4>1, <1>f DEF LoadedOwn, OwnMem, OwnRom, MemImage, RomFor, MemFor, Prog, Req
        <4> QED BY <1>2, <1>f, <4>2 DEF Behaviours, Prog, Mode, Req
      <3>3. Does(g, Head(g.todo)) = b
        BY <2>5, <3>1, <3>2 DEF Does
      <3>4. trace'[<<Head(g.todo), g.req.fault # Absent>>] = Dump(g)
        <4>1. <<Head(f.todo), f.req.fault # Absent>> \in Programs \X BOOLEAN
          BY <1>f
        <4> QED BY <2>2, <2>5, <3>3, <4>1 DEF Dump, ShapeInv, FileInv
      <3>5. uart'[Head(g.todo)] = Console(g)
        BY <1>f, <2>2, <2>5, <3>3 DEF Console, ShapeInv, FileInv
      <3> QED BY <1>x, <2>2, <2>5, <3>1, <3>3, <3>4, <3>5 DEF Dumped
    <2>7. f.pc \in Testing
      BY <1>f DEF Testing
    <2>8. g.disturbed \/ Dumped(g, exe', trace', uart')
      BY <2>5, <2>6
    <2>9. PICK t, u : /\ trace' = [trace EXCEPT ![<<Head(f.todo), f.req.fault # Absent>>] = t]
                      /\ uart' = [uart EXCEPT ![Head(f.todo)] = u]
      BY <2>2
    <2> QED BY <1>f, <1>x, <2>4, <2>5, <2>7, <2>8, <2>9, DumpWrite
  <1>3. EndTb(r) => \/ Exits(r, 2) /\ UNCHANGED <<trace, uart>>
                    \/ \E b \in Behaviours(r) : TbPasses(r, b) /\ Dumps(r, b)
    BY DEF EndTb, dumps
  <1> QED BY <1>1, <1>2, <1>3

\* Every runner reads its own dump, or knows that it may not.
LEMMA DumpStep ==
  ASSUME ShapeInv, FreshInv, MeetInv, LoadInv, DumpInv, NEW r \in Runners,
         RunnerStep(r) \/ \E q \in Requests : Start(r, q)
  PROVE  MeetInv' /\ DumpInv'
  <1>f. PICK f : /\ f = run[r] /\ f = Record(f) /\ f.disturbed \in BOOLEAN
                 /\ (f.disturbed \/ Dumped(f, exe, trace, uart))
    BY DEF ShapeInv, RunInv, RunnerOK, DumpInv
  <1>1. ASSUME NEW q \in Requests, Start(r, q) PROVE MeetInv' /\ DumpInv'
    <2>1. PICK g : g = [Idle EXCEPT !.pc = "corpus", !.req = q, !.todo = q.programs, !.win = win]
      OBVIOUS
    <2>2. run' = [run EXCEPT ![r] = g] /\ UNCHANGED <<exe, trace, uart>>
      BY <1>1, <2>1 DEF Start, files, dumps
    <2>3. g.pc = "corpus"
      BY <2>1 DEF Idle
    <2>4. Dumped(g, exe, trace, uart) /\ g.pc \notin Testing
      BY <2>3, NoDump DEF Testing
    <2> QED BY <2>2, <2>4, QuietStep
  <1>2. CASE BuildCorpus(r)
    <2>0. UNCHANGED <<exe, trace, uart>>
      BY <1>2 DEF BuildCorpus, dumps
    <2>1. CASE Exits(r, 2)
      BY <2>0, <2>1, QuietRefusal
    <2>2. CASE Goes(r, "model")
      <3>1. PICK g : g = [f EXCEPT !.pc = "model"]
        OBVIOUS
      <3>2. run' = [run EXCEPT ![r] = g] /\ g.pc = "model"
        BY <1>f, <2>2, <3>1 DEF Goes, Record
      <3>3. Dumped(g, exe, trace, uart) /\ g.pc \notin Testing
        BY <3>2, NoDump DEF Testing
      <3> QED BY <2>0, <3>2, <3>3, QuietStep
    <2> QED BY <1>2, <2>1, <2>2 DEF BuildCorpus
  <1>3. CASE WriteRom(r) \/ WriteImage(r)
    <2>0. UNCHANGED <<exe, trace, uart>> /\ f.pc \in {"rom", "image"}
      BY <1>3, <1>f DEF WriteRom, WriteImage, files, dumps, At
    <2>1. PICK pc \in {"next", "ready"} : pc = IF f.pc = "rom" THEN "next" ELSE "ready"
      OBVIOUS
    <2>2. PICK g : g = [f EXCEPT !.pc = pc]
      OBVIOUS
    <2>3. run' = [run EXCEPT ![r] = g]
      BY <1>3, <1>f, <2>1, <2>2 DEF WriteRom, WriteImage, Goes, At
    <2>4. /\ g.pc = pc /\ g.want = f.want /\ g.req = f.req /\ g.todo = f.todo
          /\ g.disturbed = f.disturbed
      BY <2>2, <1>f DEF Record
    <2>5. g.disturbed \/ Dumped(g, exe, trace, uart)
      BY <1>f, <2>0, <2>1, <2>4 DEF Dumped, Testing
    <2>6. g.pc \in Testing => f.pc \in Testing
      BY <2>0, <2>1, <2>4 DEF Testing
    <2> QED BY <1>f, <2>0, <2>3, <2>4, <2>5, <2>6, QuietStep
  <1>4. CASE Collect(r)
    <2>0. UNCHANGED <<exe, trace, uart>> /\ f.pc = "collect"
      BY <1>4, <1>f DEF Collect, files, dumps, At
    <2>1. CASE Exits(r, 2)
      BY <2>0, <2>1, QuietRefusal
    <2>2. CASE ~Exits(r, 2)
      <3>1. PICK g : g = [f EXCEPT !.pc = "compare", !.rec = uart[Head(f.todo)]]
        OBVIOUS
      <3>2. run' = [run EXCEPT ![r] = g]
        BY <1>4, <2>2, <3>1, <1>f DEF Collect, Prog
      <3>3. /\ g.pc = "compare" /\ g.want = f.want /\ g.req = f.req /\ g.todo = f.todo
            /\ g.disturbed = f.disturbed /\ g.rec = uart[Head(f.todo)]
        BY <3>1, <1>f DEF Record
      <3>4. ASSUME ~g.disturbed PROVE Dumped(g, exe, trace, uart)
        <4>1. Dumped(f, exe, trace, uart)
          BY <1>f, <3>3, <3>4
        <4>2. Dump(g) = Dump(f) /\ Console(g) = Console(f) /\ Does(g, Head(g.todo)) = Does(f, Head(f.todo))
          BY <3>3 DEF Dump, Console, Does
        <4> QED BY <2>0, <3>3, <4>1, <4>2 DEF Dumped, Testing
      <3>5. g.pc \in Testing => f.pc \in Testing
        BY <2>0 DEF Testing
      <3> QED BY <1>f, <2>0, <3>2, <3>3, <3>4, <3>5, QuietStep
    <2> QED BY <2>1, <2>2
  <1>5. ASSUME NEW compared \in BOOLEAN, Compare(r, compared) PROVE MeetInv' /\ DumpInv'
    <2>0. UNCHANGED <<exe, trace, uart>> /\ f.pc = "compare"
      BY <1>5, <1>f DEF Compare, files, dumps, At
    <2>1. PICK n, x, v : n = Failures(r, compared) /\ x = Prog(r) /\ v = elf[x]
      OBVIOUS
    <2>2. PICK g : g = [f EXCEPT !.pc = "next", !.failures = @ + n, !.todo = Tail(@),
                          !.rec = TornRecord, !.judged = @ \cup {<<x, v>>}, !.moved = @ \/ v # f.ver \/ ~compared]
      OBVIOUS
    <2>3. run' = [run EXCEPT ![r] = g]
      BY <1>5, <1>f, <2>1, <2>2 DEF Compare
    <2>4. g.pc = "next" /\ g.want = f.want /\ g.req = f.req /\ g.disturbed = f.disturbed
      BY <2>2, <1>f DEF Record
    <2>5. g.disturbed \/ Dumped(g, exe, trace, uart)
      BY <1>f, <2>0, <2>4 DEF Dumped, Testing
    <2>6. g.pc \notin Testing
      BY <2>4 DEF Testing
    <2> QED BY <2>0, <2>3, <2>5, <2>6, QuietStep
  <1>6. CASE Finish(r)
    <2>1. PICK code : Exits(r, code)
      BY <1>6 DEF Finish
    <2>2. UNCHANGED <<exe, trace, uart>>
      BY <1>6 DEF Finish, files, dumps
    <2> QED BY <2>1, <2>2, QuietRefusal
  <1> QED BY <1>1, <1>2, <1>3, <1>4, <1>5, <1>6, CheckModelDump, CompileDump, PrepareDump,
         OpenImageDump, StartTbDump, EndTbDump DEF RunnerStep

-----------------------------------------------------------------------------
(* Who loads whose images                                                   *)

\* A step of one runner: the others go on or are disturbed.
OneSteps(r, g, met) ==
  run' = [x \in Runners |-> IF x = r THEN g
                            ELSE IF x \in met THEN Disturb(run[x]) ELSE run[x]]

\* What the others need of it: an undisturbed one still finds its images, and
\* a ROM is opened under the eyes of those that have another.
Respects(r, g) ==
  /\ \A x \in Runners \ {r} : ~run'[x].disturbed =>
       /\ run[x].pc \in {"next"} \cup Testing =>
            g.pc = "rom" \/ romhex' = RomFor(run[x]) \/ (romhex' = romhex /\ run[r].pc # "rom")
       /\ run[x].pc = "ready" => memhex'[Head(run[x].todo)] = memhex[Head(run[x].todo)]
       /\ g.pc = "rom" /\ HasRom(x) => run[x].req.rom = g.req.rom
  /\ \A x \in Runners \ {r} :
       g.pc \in {"rom", "next"} \cup Testing /\ At(x, "rom") /\ run[x].req.rom # g.req.rom
         => g.disturbed

\* Such a step keeps both invariants.
LEMMA LoadMoves ==
  ASSUME ShapeInv, RomInv, LoadInv, NEW r \in Runners, NEW g, NEW met, OneSteps(r, g, met),
         Respects(r, g), g.disturbed \/ Loads(g, romhex', memhex', Writes(r))
  PROVE  RomInv' /\ LoadInv'
  <1>1. run'[r] = g
    BY DEF OneSteps
  <1>2. ASSUME NEW x \in Runners, x # r
        PROVE  /\ run'[x].pc = run[x].pc /\ run'[x].req = run[x].req
               /\ run[x].disturbed => run'[x].disturbed
               /\ ~run'[x].disturbed => run'[x] = run[x]
    <2>1. PICK h : h = run[x] /\ h = Record(h)
      BY DEF ShapeInv, RunInv, RunnerOK
    <2>2. run'[x] = h \/ (run'[x] = [h EXCEPT !.disturbed = TRUE])
      BY <1>2, <2>1 DEF OneSteps, Disturb
    <2>3. CASE run'[x] = h
      BY <2>1, <2>3
    <2>4. CASE run'[x] = [h EXCEPT !.disturbed = TRUE]
      BY <2>1, <2>4 DEF Record
    <2> QED BY <2>2, <2>3, <2>4
  <1>3. \A x \in Runners : x # r => /\ HasRom(x)' <=> HasRom(x)
                                   /\ At(x, "rom")' <=> At(x, "rom")
    BY <1>2 DEF HasRom, Busy, At
  <1>4. RomInv'
    <2> SUFFICES ASSUME NEW x \in Runners, NEW y \in Runners, x # y, HasRom(x)', At(y, "rom")',
                        run'[y].req.rom # run'[x].req.rom
                 PROVE  run'[x].disturbed
      BY DEF RomInv, OtherRom, Req
    <2>1. CASE x = r
      <3>1. g.pc \in {"rom", "next"} \cup Testing
        BY <1>1, <2>1 DEF HasRom, Busy, Testing
      <3>2. y \in Runners \ {r} /\ At(y, "rom") /\ run[y].req.rom # g.req.rom
        BY <1>1, <1>2, <2>1 DEF At
      <3> QED BY <1>1, <2>1, <3>1, <3>2 DEF Respects
    <2>2. CASE x # r /\ y = r
      <3>1. g.pc = "rom"
        BY <1>1, <2>2 DEF At
      <3>2. ASSUME ~run'[x].disturbed PROVE FALSE
        <4>0. x \in Runners \ {r} /\ HasRom(x)
          BY <1>2, <2>2 DEF HasRom, Busy
        <4>1. run[x].req.rom = g.req.rom
          BY <3>1, <3>2, <4>0 DEF Respects
        <4> QED BY <1>1, <1>2, <2>2, <4>1
      <3> QED BY <3>2
    <2>3. CASE x # r /\ y # r
      <3>1. HasRom(x) /\ At(y, "rom") /\ OtherRom(x, y)
        BY <1>2, <2>3 DEF HasRom, Busy, At, OtherRom, Req
      <3> QED BY <1>2, <2>3, <3>1 DEF RomInv
    <2> QED BY <2>1, <2>2, <2>3
  <1>5. ASSUME NEW x \in Runners, ~run'[x].disturbed
        PROVE  Loads(run'[x], romhex', memhex', Writes(x)')
    <2>1. CASE x = r
      <3>1. Writes(r)' <=> Writes(r)
        <4>1. \A y \in Runners \ {r} : run'[y].pc = run[y].pc
          BY <1>2
        <4> QED BY <4>1 DEF Writes, At
      <3>2. PICK a, b : a = Writes(r) /\ b = Writes(r)' /\ a \in BOOLEAN /\ b \in BOOLEAN
        BY DEF Writes
      <3>3. Loads(g, romhex', memhex', a) /\ (a => b)
        BY <1>1, <1>5, <2>1, <3>1, <3>2
      <3>4. Loads(g, romhex', memhex', b)
        BY <3>3 DEF Loads
      <3> QED BY <1>1, <2>1, <3>2, <3>4
    <2>2. CASE x # r
      <3>1. PICK h : h = run[x] /\ run'[x] = h /\ ~h.disturbed
        BY <1>2, <1>5, <2>2
      <3>2. PICK a : a = Writes(x)
        OBVIOUS
      <3>3. Loads(h, romhex, memhex, a)
        BY <3>1, <3>2 DEF LoadInv
      <3>4. PICK b : b = Writes(x)'
        OBVIOUS
      <3>5. ASSUME h.pc \in {"next"} \cup Testing PROVE romhex' = RomFor(h) \/ b
        <4>1. CASE g.pc = "rom"
          BY <1>1, <2>2, <3>4, <4>1 DEF Writes, At
        <4>2. CASE romhex' = romhex /\ run[r].pc # "rom"
          <5>1. romhex = RomFor(h) \/ a
            BY <3>3, <3>5 DEF Loads
          <5>2. a => \E z \in Runners \ {x} : z # r /\ At(z, "rom")
            BY <3>2, <4>2 DEF Writes, At
          <5>3. a => b
            BY <1>3, <3>4, <5>2 DEF Writes
          <5> QED BY <4>2, <5>1, <5>3
        <4> QED BY <1>5, <2>2, <3>1, <3>5, <4>1, <4>2 DEF Respects
      <3>6. h.pc = "ready" => memhex'[Head(h.todo)] = MemFor(h)
        BY <1>5, <2>2, <3>1, <3>3 DEF Respects, Loads
      <3>7. Loads(h, romhex', memhex', b)
        BY <3>3, <3>5, <3>6 DEF Loads
      <3> QED BY <3>1, <3>4, <3>7
    <2> QED BY <2>1, <2>2
  <1> QED BY <1>4, <1>5 DEF LoadInv

\* A runner that writes no image.
LEMMA LoadQuiet ==
  ASSUME ShapeInv, RomInv, LoadInv, NEW r \in Runners, NEW g, NEW met, OneSteps(r, g, met),
         UNCHANGED images, run[r].pc # "rom", g.pc # "rom",
         g.pc \in {"next"} \cup Testing => /\ run[r].pc \in {"next"} \cup Testing
                                           /\ g.req = run[r].req
                                           /\ run[r].disturbed => g.disturbed,
         g.disturbed \/ Loads(g, romhex, memhex, Writes(r))
  PROVE  RomInv' /\ LoadInv'
  <1>1. romhex' = romhex /\ memhex' = memhex
    BY DEF images
  <1>2. ASSUME NEW x \in Runners \ {r}, g.pc \in {"rom", "next"} \cup Testing, At(x, "rom"),
               run[x].req.rom # g.req.rom
        PROVE  g.disturbed
    <2>1. run[r].pc \in {"next"} \cup Testing /\ g.req = run[r].req
      BY <1>2
    <2>2. HasRom(r) /\ OtherRom(r, x)
      BY <1>2, <2>1 DEF HasRom, Busy, Testing, OtherRom, Req
    <2>3. run[r].disturbed
      BY <1>2, <2>2 DEF RomInv
    <2> QED BY <1>2, <2>3
  <1>3. Respects(r, g)
    BY <1>1, <1>2 DEF Respects
  <1> QED BY <1>1, <1>3, LoadMoves

\* A step of one runner alone disturbs nobody.
LEMMA OneAlone ==
  ASSUME ShapeInv, NEW r \in Runners, NEW g, run' = [run EXCEPT ![r] = g]
  PROVE  OneSteps(r, g, {})
  <1>1. run = [x \in Runners |-> run[x]]
    BY DEF ShapeInv, RunInv
  <1> QED BY <1>1 DEF OneSteps

\* A runner that exits loads nothing.
LEMMA LoadRefusal ==
  ASSUME ShapeInv, RomInv, LoadInv, NEW r \in Runners, NEW code, Exits(r, code),
         UNCHANGED images, run[r].pc # "rom"
  PROVE  RomInv' /\ LoadInv'
  <1>1. PICK g : g = Left(run[r], code)
    OBVIOUS
  <1>2. OneSteps(r, g, {})
    BY <1>1, OneAlone DEF Exits, Left, Req
  <1>3. g.pc = "done"
    BY <1>1, LeftFields
  <1>4. Loads(g, romhex, memhex, Writes(r)) /\ g.pc \notin Testing
    BY <1>3 DEF Loads, Testing
  <1> QED BY <1>2, <1>3, <1>4, LoadQuiet

\* A stage that leaves the images alone.
LEMMA LoadStage ==
  ASSUME ShapeInv, RomInv, LoadInv, NEW r \in Runners, NEW f, f = run[r], NEW g, NEW met,
         OneSteps(r, g, met), UNCHANGED images, f.pc # "rom",
         \/ g.pc \in {"idle", "corpus", "model", "compile", "prepare", "done"}
         \/ /\ g.pc \in {"next", "collect", "compare"} /\ f.pc \in {"next"} \cup Testing
            /\ g.req = f.req /\ (f.disturbed => g.disturbed)
  PROVE  RomInv' /\ LoadInv'
  <1>1. g.pc # "rom" /\ (g.pc \in {"next"} \cup Testing => g.pc \in {"next", "collect", "compare"})
    BY DEF Testing
  <1>2. PICK w : w = Writes(r)
    OBVIOUS
  <1>3. f.disturbed \/ Loads(f, romhex, memhex, w)
    BY <1>2 DEF LoadInv
  <1>4. g.disturbed \/ Loads(g, romhex, memhex, w)
    BY <1>1, <1>3 DEF Loads, RomFor
  <1> QED BY <1>1, <1>2, <1>4, LoadQuiet

\* rom.hex is opened.
LEMMA PrepareLoads ==
  ASSUME ShapeInv, RomInv, LoadInv, NEW r \in Runners, Prepare(r)
  PROVE  RomInv' /\ LoadInv'
  <1>f. PICK f : f = run[r] /\ f.pc = "prepare" /\ f = Record(f)
    BY DEF ShapeInv, RunInv, RunnerOK, Prepare, At
  <1>1. CASE Exits(r, 2)
    <2>1. CASE UNCHANGED romhex
      <3>1. UNCHANGED images
        BY <2>1 DEF Prepare, images
      <3> QED BY <1>1, <1>f, <3>1, LoadRefusal
    <2>2. CASE ~RomOf[Req(r).rom].ok
      BY <2>1, <2>2 DEF Prepare
    <2>3. CASE RomOf[Req(r).rom].ok
      <3>1. run'[r].pc = "rom"
        BY <1>f, <2>3 DEF Prepare, Record
      <3>2. run'[r].pc = "done"
        <4>1. run' = [run EXCEPT ![r] = Left(f, 2)]
          BY <1>1, <1>f DEF Exits, Left, Req
        <4>2. run'[r] = Left(f, 2)
          BY <4>1 DEF ShapeInv, RunInv
        <4> QED BY <4>2, LeftFields
      <3> QED BY <3>1, <3>2
    <2> QED BY <2>2, <2>3
  <1>2. CASE ~Exits(r, 2)
    <2>0. PICK met :
            /\ met = {x \in Runners : HasRom(x) /\ OtherRom(r, x)}
            /\ romhex' = Torn
            /\ \E writing \in BOOLEAN :
                 /\ writing <=> \E x \in met : At(x, "rom")
                 /\ run' = [x \in Runners |->
                      IF x = r THEN [run[r] EXCEPT !.pc = "rom", !.disturbed = @ \/ writing]
                      ELSE [run[x] EXCEPT !.disturbed = @ \/ x \in met]]
      BY <1>2, PrepareOpens
    <2>1. PICK writing \in BOOLEAN :
            /\ met = {x \in Runners : HasRom(x) /\ OtherRom(r, x)}
            /\ writing <=> \E x \in met : At(x, "rom")
            /\ romhex' = Torn
            /\ run' = [x \in Runners |->
                 IF x = r THEN [run[r] EXCEPT !.pc = "rom", !.disturbed = @ \/ writing]
                 ELSE [run[x] EXCEPT !.disturbed = @ \/ x \in met]]
      BY <2>0
    <2>2. PICK g : g = [f EXCEPT !.pc = "rom", !.disturbed = @ \/ writing]
      OBVIOUS
    <2>3. OneSteps(r, g, met)
      <3>1. run' = [x \in Runners |-> IF x = r THEN g ELSE DisturbIf(run[x], x, met)]
        BY <2>1, <2>2, <1>f DEF DisturbIf
      <3>2. \A x \in Runners : DisturbIf(run[x], x, met) = IF x \in met THEN Disturb(run[x]) ELSE run[x]
        BY MetDisturb
      <3> QED BY <3>1, <3>2 DEF OneSteps
    <2>4. g.pc = "rom" /\ g.req = f.req /\ (writing => g.disturbed)
      BY <2>2, <1>f DEF Record
    <2>5. Loads(g, romhex', memhex', Writes(r))
      BY <2>4 DEF Loads, Testing
    <2>6. ASSUME NEW x \in Runners \ {r}, ~run'[x].disturbed, HasRom(x)
          PROVE  run[x].req.rom = g.req.rom
      <3>1. x \notin met
        BY <2>3, <2>6 DEF OneSteps, Disturb, ShapeInv, RunInv, RunnerOK, Record
      <3> QED BY <1>f, <2>1, <2>4, <2>6, <3>1 DEF OtherRom, Req
    <2>7. ASSUME NEW x \in Runners \ {r}, At(x, "rom"), run[x].req.rom # g.req.rom
          PROVE  g.disturbed
      <3>1. x \in met
        BY <1>f, <2>1, <2>4, <2>7 DEF OtherRom, Req, HasRom, At
      <3> QED BY <2>1, <2>4, <2>7, <3>1
    <2>8. UNCHANGED memhex
      BY DEF Prepare
    <2>9. Respects(r, g)
      BY <2>4, <2>6, <2>7, <2>8 DEF Respects
    <2> QED BY <2>3, <2>5, <2>9, LoadMoves
  <1> QED BY <1>1, <1>2

\* rom.hex is written.
LEMMA WriteRomLoads ==
  ASSUME ShapeInv, RomInv, LoadInv, NEW r \in Runners, WriteRom(r)
  PROVE  RomInv' /\ LoadInv'
  <1>f. PICK f : f = run[r] /\ f.pc = "rom" /\ f = Record(f)
    BY DEF ShapeInv, RunInv, RunnerOK, WriteRom, At
  <1>1. PICK g : g = [f EXCEPT !.pc = "next"]
    OBVIOUS
  <1>2. OneSteps(r, g, {}) /\ romhex' = RomFor(f) /\ memhex' = memhex
    BY <1>f, <1>1, OneAlone DEF WriteRom, Goes, OwnRom, RomFor, Req
  <1>3. g.pc = "next" /\ g.req = f.req /\ g.disturbed = f.disturbed
    BY <1>1, <1>f DEF Record
  <1>4. Loads(g, romhex', memhex', Writes(r))
    BY <1>2, <1>3 DEF Loads, Testing, RomFor
  <1>5. ASSUME NEW x \in Runners \ {r}, ~run'[x].disturbed, run[x].pc \in {"next"} \cup Testing
        PROVE  romhex' = RomFor(run[x])
    <2>1. ~run[x].disturbed /\ HasRom(x)
      BY <1>2, <1>5 DEF OneSteps, HasRom, Busy, Testing
    <2>2. At(r, "rom") /\ ~OtherRom(x, r)
      BY <1>f, <2>1 DEF At, RomInv
    <2> QED BY <1>f, <1>2, <2>2 DEF OtherRom, RomFor, Req
  <1>6. ASSUME NEW x \in Runners \ {r}, At(x, "rom"), run[x].req.rom # g.req.rom
        PROVE  g.disturbed
    <2>1. HasRom(r) /\ OtherRom(r, x)
      BY <1>f, <1>3, <1>6 DEF HasRom, OtherRom, Req
    <2> QED BY <1>f, <1>3, <1>6, <2>1 DEF RomInv
  <1>7. Respects(r, g)
    BY <1>2, <1>3, <1>5, <1>6 DEF Respects
  <1> QED BY <1>2, <1>4, <1>7, LoadMoves

\* A program's image is opened.
LEMMA OpenImageLoads ==
  ASSUME ShapeInv, RomInv, LoadInv, NEW r \in Runners, OpenImage(r)
  PROVE  RomInv' /\ LoadInv'
  <1>f. PICK f : f = run[r] /\ f.pc = "next" /\ f = Record(f) /\ f.disturbed \in BOOLEAN
    BY DEF ShapeInv, RunInv, RunnerOK, OpenImage, At
  <1>x. UNCHANGED romhex
    BY DEF OpenImage
  <1>1. CASE Exits(r, 2) /\ UNCHANGED memhex
    BY <1>1, <1>f, <1>x, LoadRefusal DEF images
  <1>2. CASE /\ run' = [run EXCEPT ![r].pc = "done", ![r].exit = 1, ![r].moved = TRUE]
             /\ UNCHANGED memhex
    <2>1. PICK g : g = [f EXCEPT !.pc = "done", !.exit = 1, !.moved = TRUE]
      OBVIOUS
    <2>2. OneSteps(r, g, {}) /\ g.pc = "done" /\ UNCHANGED images
      BY <1>2, <1>f, <1>x, <2>1, OneAlone DEF Record, images
    <2> QED BY <2>2, <1>f, LoadStage
  <1>3. CASE Opens(r)
    <2>1. PICK met :
            /\ met = {x \in Runners \ {r} : Busy(x) /\ Prog(x) = Prog(r)}
            /\ run' = [x \in Runners |->
                 IF x = r THEN [run[r] EXCEPT !.pc = "image", !.ver = elf[Prog(r)],
                                              !.disturbed = @ \/ met # {}]
                 ELSE [run[x] EXCEPT !.disturbed = @ \/ x \in met]]
            /\ memhex' = [memhex EXCEPT ![Prog(r)] = Torn]
      BY <1>3 DEF Opens
    <2>2. PICK g : g = [f EXCEPT !.pc = "image", !.ver = elf[Prog(r)],
                                 !.disturbed = @ \/ met # {}]
      OBVIOUS
    <2>3. OneSteps(r, g, met)
      <3>1. run' = [x \in Runners |-> IF x = r THEN g ELSE DisturbIf(run[x], x, met)]
        BY <2>1, <2>2, <1>f DEF DisturbIf
      <3>2. \A x \in Runners : DisturbIf(run[x], x, met) = IF x \in met THEN Disturb(run[x]) ELSE run[x]
        BY MetDisturb
      <3> QED BY <3>1, <3>2 DEF OneSteps
    <2>4. g.pc = "image" /\ g.req = f.req /\ (f.disturbed => g.disturbed)
      BY <2>2, <1>f DEF Record
    <2>5. g.disturbed \/ Loads(g, romhex', memhex', Writes(r))
      <3>1. PICK w : w = Writes(r)
        OBVIOUS
      <3>2. f.disturbed \/ romhex = RomFor(f) \/ w
        BY <1>f, <3>1 DEF LoadInv, Loads
      <3> QED BY <1>x, <2>4, <3>1, <3>2 DEF Loads, RomFor
    <2>6. ASSUME NEW x \in Runners \ {r}, ~run'[x].disturbed, run[x].pc = "ready"
          PROVE  memhex'[Head(run[x].todo)] = memhex[Head(run[x].todo)]
      <3>1. x \notin met
        BY <2>3, <2>6 DEF OneSteps, Disturb, ShapeInv, RunInv, RunnerOK, Record
      <3>2. Busy(x) /\ Prog(x) # Prog(r)
        BY <2>1, <2>6, <3>1 DEF Busy
      <3>3. Head(run[x].todo) \in Programs
        BY <2>6 DEF ShapeInv, RunInv, RunnerOK, Testing
      <3> QED BY <2>1, <3>2, <3>3 DEF Prog, ShapeInv, FileInv
    <2>7. ASSUME NEW x \in Runners \ {r}, At(x, "rom"), run[x].req.rom # g.req.rom
          PROVE  g.disturbed
      <3>1. HasRom(r) /\ OtherRom(r, x)
        BY <1>f, <2>4, <2>7 DEF HasRom, OtherRom, Req
      <3> QED BY <1>f, <2>4, <2>7, <3>1 DEF RomInv
    <2>8. Respects(r, g)
      BY <1>f, <1>x, <2>4, <2>6, <2>7 DEF Respects
    <2> QED BY <2>3, <2>5, <2>8, LoadMoves
  <1> QED BY <1>1, <1>2, <1>3, ImageOpens

\* A program's image is written.
LEMMA WriteImageLoads ==
  ASSUME ShapeInv, MeetInv, RomInv, LoadInv, NEW r \in Runners, WriteImage(r)
  PROVE  RomInv' /\ LoadInv'
  <1>f. PICK f : f = run[r] /\ f.pc = "image" /\ f = Record(f) /\ Head(f.todo) \in Programs
    BY DEF ShapeInv, RunInv, RunnerOK, WriteImage, At, Testing
  <1>1. PICK g : g = [f EXCEPT !.pc = "ready"]
    OBVIOUS
  <1>2. /\ OneSteps(r, g, {}) /\ romhex' = romhex
        /\ memhex' = [memhex EXCEPT ![Head(f.todo)] = MemFor(f)]
    BY <1>f, <1>1, OneAlone DEF WriteImage, Goes, OwnMem, MemImage, MemFor, Prog, Req
  <1>3. /\ g.pc = "ready" /\ g.req = f.req /\ g.disturbed = f.disturbed /\ g.todo = f.todo
        /\ g.ver = f.ver
    BY <1>1, <1>f DEF Record
  <1>4. g.disturbed \/ Loads(g, romhex', memhex', Writes(r))
    <2>1. PICK w : w = Writes(r)
      OBVIOUS
    <2>2. f.disturbed \/ romhex = RomFor(f) \/ w
      BY <1>f, <2>1 DEF LoadInv, Loads, Testing
    <2>3. memhex'[Head(g.todo)] = MemFor(g)
      BY <1>f, <1>2, <1>3 DEF MemFor, ShapeInv, FileInv
    <2> QED BY <1>2, <1>3, <2>1, <2>2, <2>3 DEF Loads, RomFor
  <1>5. ASSUME NEW x \in Runners \ {r}, ~run'[x].disturbed, run[x].pc = "ready"
        PROVE  memhex'[Head(run[x].todo)] = memhex[Head(run[x].todo)]
    <2>1. ~run[x].disturbed /\ Busy(x) /\ Busy(r)
      BY <1>f, <1>2, <1>5 DEF OneSteps, Busy
    <2>2. Head(run[x].todo) # Head(f.todo)
      BY <1>f, <2>1 DEF MeetInv, Prog
    <2>3. Head(run[x].todo) \in Programs
      BY <1>5 DEF ShapeInv, RunInv, RunnerOK, Testing
    <2> QED BY <1>2, <2>2, <2>3 DEF ShapeInv, FileInv
  <1>6. ASSUME NEW x \in Runners \ {r}, At(x, "rom"), run[x].req.rom # g.req.rom
        PROVE  g.disturbed
    <2>1. HasRom(r) /\ OtherRom(r, x)
      BY <1>f, <1>3, <1>6 DEF HasRom, Busy, OtherRom, Req
    <2> QED BY <1>f, <1>3, <1>6, <2>1 DEF RomInv
  <1>7. Respects(r, g)
    BY <1>f, <1>2, <1>3, <1>5, <1>6 DEF Respects
  <1> QED BY <1>2, <1>4, <1>7, LoadMoves

\* A testbench loads the images.
LEMMA StartTbLoads ==
  ASSUME ShapeInv, RomInv, LoadInv, NEW r \in Runners, StartTb(r)
  PROVE  RomInv' /\ LoadInv'
  <1>f. PICK f : f = run[r] /\ f.pc = "ready" /\ f = Record(f) /\ f.disturbed \in BOOLEAN
    BY DEF ShapeInv, RunInv, RunnerOK, StartTb, At
  <1>w. PICK w \in BOOLEAN : w = Writes(r)
    BY DEF Writes
  <1>1. PICK g : g = [f EXCEPT !.pc = "tb", !.mem = memhex[Prog(r)], !.rom = romhex,
                               !.disturbed = @ \/ w]
    OBVIOUS
  <1>2. OneSteps(r, g, {}) /\ UNCHANGED images
    BY <1>f, <1>w, <1>1, OneAlone DEF StartTb, Writes
  <1>3. /\ g.pc = "tb" /\ g.req = f.req /\ g.todo = f.todo /\ g.ver = f.ver
        /\ g.mem = memhex[Prog(r)] /\ g.rom = romhex
        /\ g.disturbed = (f.disturbed \/ w)
    BY <1>1, <1>f DEF Record
  <1>4. ASSUME ~g.disturbed PROVE Loads(g, romhex, memhex, w)
    <2>1. Loads(f, romhex, memhex, w) /\ ~w
      BY <1>f, <1>w, <1>3, <1>4 DEF LoadInv
    <2>2. romhex = RomFor(f) /\ memhex[Head(f.todo)] = MemFor(f)
      BY <1>f, <2>1 DEF Loads, Testing
    <2>3. g.rom = RomFor(g) /\ g.mem = MemFor(g)
      BY <1>f, <1>3, <2>2 DEF RomFor, MemFor, Prog
    <2> QED BY <1>3, <2>2, <2>3 DEF Loads, RomFor
  <1>5. g.pc # "rom" /\ f.pc \in Testing /\ f.pc # "rom"
    BY <1>f, <1>3 DEF Testing
  <1> QED BY <1>f, <1>w, <1>2, <1>3, <1>4, <1>5, LoadQuiet

\* Every undisturbed runner loads what it wrote.
LEMMA LoadStep ==
  ASSUME ShapeInv, MeetInv, RomInv, LoadInv, NEW r \in Runners,
         RunnerStep(r) \/ \E q \in Requests : Start(r, q)
  PROVE  RomInv' /\ LoadInv'
  <1>f. PICK f : f = run[r] /\ f = Record(f) /\ f.disturbed \in BOOLEAN
    BY DEF ShapeInv, RunInv, RunnerOK
  <1>1. ASSUME NEW q \in Requests, Start(r, q) PROVE RomInv' /\ LoadInv'
    <2>1. PICK g : g = [Idle EXCEPT !.pc = "corpus", !.req = q, !.todo = q.programs, !.win = win]
      OBVIOUS
    <2>2. OneSteps(r, g, {}) /\ UNCHANGED images /\ f.pc = "idle"
      BY <1>1, <1>f, <2>1, OneAlone DEF Start, At
    <2>3. g.pc = "corpus"
      BY <2>1 DEF Idle
    <2> QED BY <1>f, <2>2, <2>3, LoadStage
  <1>2. CASE BuildCorpus(r)
    <2>0. UNCHANGED images /\ f.pc = "corpus"
      BY <1>2, <1>f DEF BuildCorpus, images, At
    <2>1. CASE Exits(r, 2)
      BY <1>f, <2>0, <2>1, LoadRefusal
    <2>2. CASE Goes(r, "model")
      <3>1. PICK g : g = [f EXCEPT !.pc = "model"]
        OBVIOUS
      <3>2. OneSteps(r, g, {}) /\ g.pc = "model"
        BY <1>f, <2>2, <3>1, OneAlone DEF Goes, Record
      <3> QED BY <1>f, <2>0, <3>2, LoadStage
    <2> QED BY <1>2, <2>1, <2>2 DEF BuildCorpus
  <1>3. CASE CheckModel(r)
    <2>0. UNCHANGED images /\ f.pc = "model"
      BY <1>3, <1>f DEF CheckModel, At
    <2>1. PICK d \in BOOLEAN, pc \in {"prepare", "compile"} :
            run' = [run EXCEPT ![r].want = rtl.ver, ![r].disturbed = @ \/ d, ![r].pc = pc]
      BY <1>3 DEF CheckModel
    <2>2. PICK g : g = [f EXCEPT !.want = rtl.ver, !.disturbed = @ \/ d, !.pc = pc]
      OBVIOUS
    <2>3. OneSteps(r, g, {}) /\ g.pc = pc
      BY <1>f, <2>1, <2>2, OneAlone DEF Record
    <2> QED BY <1>f, <2>0, <2>1, <2>3, LoadStage
  <1>4. CASE Compile(r)
    <2>0. UNCHANGED images /\ f.pc = "compile"
      BY <1>4, <1>f DEF Compile, images, At
    <2>1. CASE Exits(r, 2)
      BY <1>f, <2>0, <2>1, LoadRefusal
    <2>2. CASE ~Exits(r, 2)
      <3>1. PICK mixed \in BOOLEAN : run' = [x \in Runners |->
                   IF x = r THEN [run[x] EXCEPT !.pc = "prepare", !.disturbed = @ \/ mixed]
                   ELSE IF HasModel(x) /\ Mode(x) = Mode(r)
                        THEN [run[x] EXCEPT !.disturbed = TRUE] ELSE run[x]]
        BY <1>4, <2>2 DEF Compile
      <3>2. PICK met : met = {x \in Runners : HasModel(x) /\ Mode(x) = Mode(r)}
        OBVIOUS
      <3>3. PICK g : g = [f EXCEPT !.pc = "prepare", !.disturbed = @ \/ mixed]
        OBVIOUS
      <3>4. OneSteps(r, g, met) /\ g.pc = "prepare"
        BY <3>1, <3>2, <3>3, <1>f DEF OneSteps, Disturb, Record
      <3> QED BY <1>f, <2>0, <3>4, LoadStage
    <2> QED BY <2>1, <2>2
  <1>5. CASE EndTb(r)
    <2>0. UNCHANGED images /\ f.pc = "tb" /\ f.pc \in Testing
      BY <1>5, <1>f DEF EndTb, At, Testing
    <2>1. CASE Exits(r, 2)
      BY <1>f, <2>0, <2>1, LoadRefusal
    <2>2. CASE \E does : Dumps(r, does)
      <3>1. PICK g : g = [f EXCEPT !.pc = "collect", !.mem = <<>>, !.rom = <<>>]
        OBVIOUS
      <3>2. OneSteps(r, g, {}) /\ g.pc = "collect" /\ g.req = f.req /\ g.disturbed = f.disturbed
        BY <1>f, <2>2, <3>1, OneAlone DEF Dumps, Record
      <3> QED BY <1>f, <2>0, <3>2, LoadStage
    <2> QED BY <1>5, <2>1, <2>2 DEF EndTb
  <1>6. CASE Collect(r)
    <2>0. UNCHANGED images /\ f.pc = "collect" /\ f.pc \in Testing
      BY <1>6, <1>f DEF Collect, At, Testing
    <2>1. CASE Exits(r, 2)
      BY <1>f, <2>0, <2>1, LoadRefusal
    <2>2. CASE ~Exits(r, 2)
      <3>1. PICK g : g = [f EXCEPT !.pc = "compare", !.rec = uart[Prog(r)]]
        OBVIOUS
      <3>2. OneSteps(r, g, {}) /\ g.pc = "compare" /\ g.req = f.req /\ g.disturbed = f.disturbed
        BY <1>6, <1>f, <2>2, <3>1, OneAlone DEF Collect, Record
      <3> QED BY <1>f, <2>0, <3>2, LoadStage
    <2> QED BY <2>1, <2>2
  <1>7. ASSUME NEW compared \in BOOLEAN, Compare(r, compared) PROVE RomInv' /\ LoadInv'
    <2>0. UNCHANGED images /\ f.pc = "compare" /\ f.pc \in Testing
      BY <1>7, <1>f DEF Compare, At, Testing
    <2>1. PICK n, x, v : n = Failures(r, compared) /\ x = Prog(r) /\ v = elf[x]
      OBVIOUS
    <2>2. PICK g : g = [f EXCEPT !.pc = "next", !.failures = @ + n, !.todo = Tail(@),
                          !.rec = TornRecord, !.judged = @ \cup {<<x, v>>},
                          !.moved = @ \/ v # f.ver \/ ~compared]
      OBVIOUS
    <2>3. OneSteps(r, g, {})
      BY <1>7, <1>f, <2>1, <2>2, OneAlone DEF Compare
    <2>4. g.pc = "next" /\ g.req = f.req /\ g.disturbed = f.disturbed
      BY <2>2, <1>f DEF Record
    <2> QED BY <1>f, <2>0, <2>3, <2>4, LoadStage
  <1>8. CASE Finish(r)
    <2>1. PICK code : Exits(r, code)
      BY <1>8 DEF Finish
    <2>2. UNCHANGED images /\ f.pc = "next"
      BY <1>8, <1>f DEF Finish, At
    <2> QED BY <1>f, <2>1, <2>2, LoadRefusal
  <1> QED BY <1>1, <1>2, <1>3, <1>4, <1>5, <1>6, <1>7, <1>8, PrepareLoads, WriteRomLoads,
         OpenImageLoads, WriteImageLoads, StartTbLoads DEF RunnerStep

-----------------------------------------------------------------------------
(* The theorems                                                             *)

\* Nobody runs yet, there is no model, and no dump.
LEMMA InitIInv == ASSUME Init PROVE IInv
  <1>1. RunInv
    <2>1. \A r \in Runners : run[r] = Idle
      BY DEF Init
    <2>2. PICK f : f = Idle
      OBVIOUS
    <2>3. RunnerOK(f, elf)
      BY <2>2 DEF RunnerOK, Idle, Record, Working, Early, Testing, Absent
    <2>4. run = [r \in Runners |-> run[r]]
      BY DEF Init
    <2> QED BY <2>1, <2>2, <2>3, <2>4 DEF RunInv
  <1>2. FileInv
    <2>1. rtl.ver = 1 /\ rtl.mtime = 1 /\ clock = 1
      BY DEF Init
    <2>2. exe = [m \in Modes |-> NoExe]
      BY DEF Init
    <2>3. NoExe.mtime = -1 /\ NoExe.mixed = FALSE
      BY DEF NoExe, Absent
    <2>4. exe = [m \in Modes |-> exe[m]] /\ \A m \in Modes : exe[m] = NoExe
      BY <2>2
    <2>5. ASSUME NEW m \in Modes
          PROVE  exe[m].mtime \in Int /\ exe[m].mtime <= clock /\ exe[m].mixed \in BOOLEAN
      <3>1. exe[m].mtime = -1 /\ exe[m].mixed = FALSE
        BY <2>3, <2>4
      <3>2. exe[m].mtime \in Int /\ exe[m].mtime <= clock
        BY <2>1, <3>1
      <3>3. exe[m].mixed \in BOOLEAN
        BY <3>1, Zenon
      <3> QED BY <3>2, <3>3
    <2>6. /\ asm = [x \in Programs |-> asm[x]] /\ elf = [x \in Programs |-> elf[x]]
          /\ \A x \in Programs : asm[x] = 1 /\ elf[x] \in {1, Absent}
      BY DEF Init
    <2>7. \A x \in Programs : 1 \in DOMAIN Golden[x]
      BY GoldenAssumption
    <2>8. /\ trace = [s \in Programs \X BOOLEAN |-> trace[s]] /\ uart = [x \in Programs |-> uart[x]]
          /\ memhex = [x \in Programs |-> memhex[x]]
      BY DEF Init
    <2>9. 1 \in DOMAIN Core
      BY CoreAssumption
    <2> QED BY <2>1, <2>4, <2>5, <2>6, <2>7, <2>8, <2>9 DEF FileInv
  <1>3. FreshInv
    <2>1. \A m \in Modes : exe[m].mtime = -1
      BY DEF Init, NoExe, Absent
    <2>2. rtl.mtime = 1
      BY DEF Init
    <2> QED BY <2>1, <2>2 DEF FreshInv
  <1>4. \A r \in Runners : run[r].pc = "idle" /\ run[r].exit = Absent
    BY DEF Init, Idle
  <1>5. MeetInv
    BY <1>4 DEF MeetInv, Busy
  <1>8. RomInv
    BY <1>4 DEF RomInv, HasRom, Busy
  <1>9. LoadInv
    BY <1>4 DEF LoadInv, Loads, Testing
  <1>6. DumpInv
    BY <1>4 DEF DumpInv, Dumped, Testing
  <1>7. JudgeInv
    BY <1>4 DEF JudgeInv, Judged, Truthful, Working, Early, Testing, Absent
  <1> QED BY <1>1, <1>2, <1>3, <1>5, <1>6, <1>7, <1>8, <1>9 DEF IInv, ShapeInv

\* Edits of the sources leave the runners alone; an ELF is replaced, never
\* removed.
LEMMA EditsKeep ==
  ASSUME IInv, EditRtl \/ EditWindow \/ \E x \in Programs : EditProgram(x) \/ RebuildElf(x)
  PROVE  RunInv' /\ MeetInv' /\ RomInv' /\ LoadInv' /\ DumpInv' /\ JudgeInv'
  <1>1. UNCHANGED <<exe, trace, uart, romhex, memhex, run>>
    BY DEF EditRtl, EditWindow, EditProgram, RebuildElf, images, dumps
  <1>2. \A x \in Programs : elf[x] # Absent => elf'[x] # Absent
    <2>1. elf' = elf \/ \E x \in Programs : elf' = [elf EXCEPT ![x] = asm[x]]
      BY DEF EditRtl, EditWindow, EditProgram, RebuildElf
    <2>2. /\ \A x \in Programs : asm[x] # Absent
          /\ elf = [x \in Programs |-> elf[x]]
      BY DEF IInv, ShapeInv, FileInv, Absent
    <2> QED BY <2>1, <2>2
  <1>3. RunInv'
    <2>1. \A r \in Runners : RunnerOK(run[r], elf) => RunnerOK(run[r], elf')
      BY <1>2 DEF RunnerOK
    <2> QED BY <1>1, <2>1 DEF IInv, ShapeInv, RunInv
  <1>4. MeetInv'
    BY <1>1 DEF IInv, MeetInv, Busy, Prog
  <1>5. DumpInv' /\ JudgeInv'
    BY <1>1 DEF IInv, DumpInv, JudgeInv
  <1>6. RomInv' /\ LoadInv'
    BY <1>1 DEF IInv, RomInv, LoadInv, HasRom, Busy, At, OtherRom, Req, Writes
  <1> QED BY <1>3, <1>4, <1>5, <1>6

\* Every step keeps the inductive invariant.
LEMMA StepIInv == ASSUME IInv, [Next]_vars PROVE IInv'
  <1>1. CASE Next
    <2>1. FileInv' /\ FreshInv'
      BY <1>1, FilesStep, FreshStep DEF IInv
    <2>2. ASSUME NEW r \in Runners, RunnerStep(r) \/ \E q \in Requests : Start(r, q)
          PROVE  RunInv' /\ JudgeInv' /\ MeetInv' /\ RomInv' /\ LoadInv' /\ DumpInv'
      BY <2>2, RunnerMoves, LoadStep, DumpStep DEF IInv
    <2>3. RunInv' /\ JudgeInv' /\ MeetInv' /\ RomInv' /\ LoadInv' /\ DumpInv'
      BY <1>1, <2>2, EditsKeep DEF Next
    <2> QED BY <2>1, <2>3 DEF IInv, ShapeInv
  <1>2. CASE UNCHANGED vars
    <2>1. UNCHANGED <<rtl, asm, elf, exe, clock, trace, uart, romhex, memhex, run>>
      BY <1>2 DEF vars, files, images, dumps
    <2>2. RunInv' /\ FileInv' /\ FreshInv'
      BY <2>1 DEF IInv, ShapeInv, RunInv, FileInv, FreshInv
    <2>3. MeetInv'
      BY <2>1 DEF IInv, MeetInv, Busy, Prog
    <2>4. DumpInv' /\ JudgeInv'
      BY <2>1 DEF IInv, DumpInv, JudgeInv
    <2>5. RomInv' /\ LoadInv'
      BY <2>1 DEF IInv, RomInv, LoadInv, HasRom, Busy, At, OtherRom, Req, Writes
    <2> QED BY <2>2, <2>3, <2>4, <2>5 DEF IInv, ShapeInv
  <1> QED BY <1>1, <1>2

\* It holds in every reachable state.
LEMMA IInvAlways == Spec => []IInv
  <1>1. Init => IInv
    BY InitIInv
  <1>2. IInv /\ [Next]_vars => IInv'
    BY StepIInv
  <1> QED BY <1>1, <1>2, PTL DEF Spec

\* The record's words are the property's.
LEMMA SameWords ==
  ASSUME NEW r \in Runners, NEW x, NEW v
  PROVE  /\ Agrees(run[r], x, v) <=> Right(r, x, v)
         /\ Prints(run[r], x) <=> ConsoleRight(r, x)
  BY DEF Agrees, Right, Prints, ConsoleRight, Does, Mode, Req

\* What an exited run knows of itself.
LEMMA ExitSays ==
  ASSUME IInv, NEW r \in Runners, ~run[r].disturbed, run[r].exit \in {0, 1}
  PROVE  /\ run[r].req \in Requests
         /\ \A j \in run[r].judged : \E x \in Programs : \E v \in DOMAIN Golden[x] : j = <<x, v>>
         /\ run[r].exit = 0 =>
              /\ \A x \in ToSet(Req(r).programs) : \E j \in run[r].judged : j[1] = x
              /\ \A j \in run[r].judged : Shown(run[r], j[1], j[2])
         /\ run[r].exit = 1 /\ Plain(run[r]) => Wrong(run[r])
  <1>1. PICK f : f = run[r] /\ RunnerOK(f, elf) /\ Judged(f) /\ Truthful(f)
    BY DEF IInv, ShapeInv, RunInv, JudgeInv
  <1>2. f.pc = "done" /\ f.req \in Requests
    BY <1>1 DEF RunnerOK, Absent
  <1> QED BY <1>1, <1>2 DEF Judged, Truthful, Req

\* It says what an exit status of 0 promises.
LEMMA PassFollows == ASSUME IInv PROVE PassTruth
  <1> SUFFICES ASSUME NEW r \in Runners, run[r].exit = 0, ~run[r].disturbed
               PROVE  /\ ~Faulty(r) => \A x \in ToSet(Req(r).programs) : \E v \in DOMAIN Golden[x] :
                           /\ <<x, v>> \in run[r].judged /\ Right(r, x, v)
                           /\ ~Req(r).uartFault => ConsoleRight(r, x)
                      /\ Faulty(r) => \A j \in run[r].judged :
                           Met(Golden[j[1]][j[2]], Core[run[r].want][Mode(r)][j[1]].commits,
                               Req(r).fault)
                      /\ ~Faulty(r) /\ Req(r).uartFault => \A j \in run[r].judged :
                           Expected[j[1]] # <<>> =>
                             \/ Core[run[r].want][Mode(r)][j[1]].uart.frames > 0
                             \/ ~ConsoleRight(r, j[1])
    BY DEF PassTruth, Met
  <1>1. /\ \A j \in run[r].judged : \E x \in Programs : \E v \in DOMAIN Golden[x] : j = <<x, v>>
        /\ \A x \in ToSet(Req(r).programs) : \E j \in run[r].judged : j[1] = x
        /\ \A j \in run[r].judged : Shown(run[r], j[1], j[2])
    BY ExitSays
  <1>2. ASSUME ~Faulty(r), NEW x \in ToSet(Req(r).programs)
        PROVE  \E v \in DOMAIN Golden[x] :
                 /\ <<x, v>> \in run[r].judged /\ Right(r, x, v)
                 /\ ~Req(r).uartFault => ConsoleRight(r, x)
    <2>1. PICK j \in run[r].judged : j[1] = x
      BY <1>1
    <2>2. PICK y \in Programs : \E v \in DOMAIN Golden[y] : j = <<y, v>>
      BY <1>1
    <2>3. PICK v \in DOMAIN Golden[y] : j = <<y, v>>
      BY <2>2
    <2>4. y = x /\ j[2] = v
      BY <2>1, <2>3
    <2>5. Shown(run[r], x, v)
      BY <1>1, <2>1, <2>4
    <2>6. Agrees(run[r], x, v) /\ (~Req(r).uartFault => Prints(run[r], x))
      BY <1>2, <2>5 DEF Shown, Faulty, Req
    <2>7. Right(r, x, v) /\ (~Req(r).uartFault => ConsoleRight(r, x))
      BY <2>6, SameWords
    <2> QED BY <2>3, <2>4, <2>7
  <1>3. ASSUME Faulty(r), NEW j \in run[r].judged
        PROVE  Met(Golden[j[1]][j[2]], Core[run[r].want][Mode(r)][j[1]].commits, Req(r).fault)
    BY <1>1, <1>3 DEF Shown, Faulty, Does, Mode, Req
  <1>4. ASSUME ~Faulty(r), Req(r).uartFault, NEW j \in run[r].judged, Expected[j[1]] # <<>>
        PROVE  \/ Core[run[r].want][Mode(r)][j[1]].uart.frames > 0
               \/ ~ConsoleRight(r, j[1])
    <2>1. Does(run[r], j[1]).uart.frames > 0 \/ ~Prints(run[r], j[1])
      BY <1>1, <1>4 DEF Shown, Faulty, Req
    <2>2. Prints(run[r], j[1]) <=> ConsoleRight(r, j[1])
      BY SameWords
    <2> QED BY <2>1, <2>2 DEF Does, Mode, Req
  <1> QED BY <1>2, <1>3, <1>4

\* It says what an exit status of 1 promises.
LEMMA FailFollows == ASSUME IInv PROVE FailTruth
  <1> SUFFICES ASSUME NEW r \in Runners, run[r].exit = 1, ~Faulty(r), ~Req(r).uartFault,
                      ~run[r].disturbed
               PROVE  \/ run[r].moved
                      \/ \E j \in run[r].judged : ~Right(r, j[1], j[2]) \/ ~ConsoleRight(r, j[1])
    BY DEF FailTruth
  <1>1. Plain(run[r])
    BY DEF Plain, Faulty, Req
  <1>2. Wrong(run[r])
    BY <1>1, ExitSays
  <1> QED BY <1>2, SameWords DEF Wrong

\* Exit 0 of run_difftest.py is about the RTL that it looked at, for any number
\* of runners, programs, versions of the sources and command lines.
THEOREM PassesAreTrue == Spec => []PassTruth
  <1>1. IInv => PassTruth
    BY PassFollows
  <1> QED BY <1>1, IInvAlways, PTL

\* Exit 1 of run_difftest.py is not a false alarm, for any number of runners,
\* programs, versions of the sources and command lines.
THEOREM FailuresAreTrue == Spec => []FailTruth
  <1>1. IInv => FailTruth
    BY FailFollows
  <1> QED BY <1>1, IInvAlways, PTL
=============================================================================
