------------------------------ MODULE Difftest ------------------------------
(* rv_difftest.py: one DiffTest run.  A job names a program, the core that  *)
(* ran it, how its commits were reported and the options of the command     *)
(* line.  main loads the golden stream, loads the DUT stream and compares   *)
(* them commit by commit; every way it can end is an exit status.           *)
(*                                                                          *)
(* A program is the sequence of its architectural effects.  Spike, the      *)
(* testbench and the Python model are external: each reports the effects in *)
(* its own form, and a faulty core has other effects than the program.      *)
EXTENDS RvTrace

CONSTANTS Jobs,     \* jobs to run
          Tohost,   \* address of the HTIF mailbox
          Entry,    \* pc of a program's first effect
          BootRom,  \* what Spike logs before the entry
          LogTail,  \* lines a log fixture keeps after the exit store
          Spin      \* effects of the loop a program ends in

VARIABLES job,      \* the job at hand
          stage,    \* "golden", "dut", "compare" or "done"
          golden, dut,
          index,    \* commits compared so far
          result    \* [exit, index, kind]

vars == <<job, stage, golden, dut, index, result>>

EXIT_MATCH == 0
EXIT_DIVERGED == 1
EXIT_ERROR == 2

-----------------------------------------------------------------------------
(* Effects and how they are reported (external)                             *)

\* a retired instruction: reg is <<class, index>>, mem one of "none", "load",
\* "store" and "amo", lanes the bytes it touches
Effect(pc, reg, value, mem, addr, data, fflags, frm) ==
  [pc |-> pc, reg |-> reg, value |-> value, mem |-> mem, addr |-> addr,
   data |-> data, lanes |-> IF mem = "none" THEN {} ELSE {addr % 8},
   fflags |-> fflags, frm |-> frm]

Reads(e) == e.mem = "load"
Writes(e) == e.mem \in {"store", "amo"}
WritesReg(e) == e.reg[1] = "f" \/ (e.reg[1] = "x" /\ e.reg[2] # 0)
IsFp(e) == e.reg[1] = "f" \/ e.fflags # Absent \/ e.frm # Absent

SpikeLine(e) ==
  [commit |-> TRUE, pc |-> e.pc,
   regs |-> IF WritesReg(e) THEN <<<<e.reg[1], e.reg[2], e.value>>>> ELSE <<>>,
   mems |-> CASE e.mem = "none"  -> <<>>
              [] e.mem = "load"  -> <<<<e.addr, Absent>>>>
              [] e.mem = "store" -> <<<<e.addr, e.data>>>>
              [] e.mem = "amo"   -> <<<<e.addr, Absent>>, <<e.addr, e.data>>>>,
   csrs |-> <<<<"mstatus", 1>>>>
            \o (IF e.fflags # Absent THEN <<<<"fflags", e.fflags>>>> ELSE <<>>)
            \o (IF e.frm # Absent THEN <<<<"frm", e.frm>>>> ELSE <<>>)]

\* the -l disassembly line before a commit
Disassembly(e) == [SpikeLine(e) EXCEPT !.commit = FALSE]
SpikeLog(effects) ==
  FlattenSeq([i \in DOMAIN effects |->
                <<Disassembly(effects[i]), SpikeLine(effects[i])>>])

\* the commit a DUT reports: x0 writes and all, an AMO as its write
Reported(e, cycle) ==
  [Blank EXCEPT !.cycle = cycle, !.pc = e.pc,
     !.rd = e.reg[2], !.fp = e.reg[1] = "f",
     !.value = IF e.reg[2] = Absent THEN Absent ELSE e.value,
     !.addr = IF e.mem = "none" THEN Absent ELSE e.addr,
     !.wdata = IF Writes(e) THEN e.data ELSE Absent,
     !.rmask = IF Reads(e) THEN e.lanes ELSE NoMask,
     !.wmask = IF Writes(e) THEN e.lanes ELSE NoMask,
     !.fflags = e.fflags, !.frm = e.frm]

StopsAt(stop, e) == Writes(e) /\ Matches(stop, e.addr, e.data)
CutAt(effects, stop) ==
  LET at == SelectInSeq(effects, LAMBDA e : StopsAt(stop, e))
  IN  IF at = 0 THEN effects ELSE SubSeq(effects, 1, at)

\* tohost stands in for a missing --stop-store on the golden side
EffectiveStop(j) == IF j.stop = NoStop THEN Stop(Tohost, Absent) ELSE j.stop

\* the testbench ends its dump at the stopping store; another producer may
\* dump the spin loop too
Ran(j) == IF j.style = "loop" THEN j.ran \o Spin
          ELSE CutAt(j.ran \o Spin, EffectiveStop(j))

\* a dump, by the width of its lines; "real" has the core's clock for cycles
Width3(style) == CASE style = "bare" -> 3 [] style = "core" -> 4
                   [] style = "mem" -> 6 [] OTHER -> 8
Dump(j) ==
  LET n == Width3(j.style)
      C(i) == IF j.style = "real" THEN 5 * i ELSE i
  IN  [i \in DOMAIN Ran(j) |-> FormatLine(Reported(Ran(j)[i], C(i)), n)]

-----------------------------------------------------------------------------
(* The worked-example model DUT: no FP, no A extension, and it runs on      *)
(* until tohost holds something other than zero.                            *)

ModelRuns(j) == \A i \in DOMAIN j.ran : ~IsFp(j.ran[i]) /\ j.ran[i].mem # "amo"
Halts(e) == Writes(e) /\ e.addr = Tohost /\ e.data # 0
ModelTrace(j) ==
  LET at == SelectInSeq(j.ran, LAMBDA e : Halts(e))
      s == SubSeq(j.ran, 1, at)
  IN  IF ~ModelRuns(j) \/ at = 0 THEN {}
      ELSE All([i \in DOMAIN s |-> MakeCommit(Reported(s[i], i))])

\* the adapters: text is parsed, a callback's commits are taken as they are
LoadDut(j) ==
  CASE j.style = "model"    -> ModelTrace(j)
    [] j.style = "callback" ->
         All([i \in DOMAIN Ran(j) |-> MakeCommit(Reported(Ran(j)[i], i))])
    [] OTHER -> ParseTrace(Dump(j))

-----------------------------------------------------------------------------
(* main                                                                     *)

Ends(exit, i, kind) == /\ result' = [exit |-> exit, index |-> i, kind |-> kind]
                       /\ stage' = "done"

\* Spike runs until something ends it: a program that never makes the
\* stopping store times out
Log(j) == SpikeLog(BootRom \o j.prog \o Spin)
RunSpike(j) == NormalizeSpikeLog(Log(j), EffectiveStop(j), Entry)

\* a stream captured from an earlier run with the default stop
Captured(j) ==
  UNION {ParseTrace(FormatTrace(s)) :
           s \in NormalizeSpikeLog(Log(j), Stop(Tohost, Absent), Entry)}

\* a checked-in raw log, cut some lines after the store that ends the run
WriteGoldenFixtures(j) ==
  LET last == LastGoldenLine(Log(j), Stop(Tohost, Absent), Entry)
  IN  IF last = 0 THEN Log(j) ELSE SubSeq(Log(j), 1, Min({Len(Log(j)), last + LogTail}))

\* --dtb names a blob, or a source that dtc compiles on the spot
EnsureDtb(j) == j.dtb = "source" => "dtc" \in j.tools
\* Spike is there, finds dtc (without which it cannot boot the ELF at all,
\* --dtb or not), and exits with 0 before the timeout
SpikeRuns(j) == {"spike", "dtc"} \subseteq j.tools

\* a canonical trace is cut here, a raw log needs the ELF
LoadGolden(j) ==
  CASE ~EnsureDtb(j)   -> {}
    [] j.src = "elf"   -> IF SpikeRuns(j) THEN RunSpike(j) ELSE {}
    [] j.src = "log"   -> IF j.elf THEN RunSpike(j) ELSE {}
    [] j.src = "fixture" -> IF ~j.elf THEN {}
         ELSE NormalizeSpikeLog(WriteGoldenFixtures(j), EffectiveStop(j), Entry)
    [] j.src = "trace" -> UNION {TruncateAtStop(s, j.stop) : s \in Captured(j)}

GoldenLoaded ==
  /\ stage = "golden"
  /\ \/ \E s \in LoadGolden(job) : golden' = s /\ stage' = "dut" /\ UNCHANGED result
     \/ LoadGolden(job) = {} /\ Ends(EXIT_ERROR, Absent, "error") /\ UNCHANGED golden
  /\ UNCHANGED <<job, dut, index>>

\* a refused injection is a ValueError nobody catches: a traceback, exit 1
Uncaught == \E s \in LoadDut(job) : InjectedStream(s, job.inject) = {}

LoadedDut == UNION {UNION {TruncateAtStop(x, job.stop) :
                             x \in InjectedStream(s, job.inject)} : s \in LoadDut(job)}

DutLoaded ==
  /\ stage = "dut"
  /\ \/ \E s \in LoadedDut : dut' = s /\ stage' = "compare" /\ UNCHANGED result
     \/ Uncaught /\ Ends(EXIT_DIVERGED, Absent, "traceback") /\ UNCHANGED dut
     \/ /\ ~Uncaught /\ LoadedDut = {}
        /\ Ends(EXIT_ERROR, Absent, "error") /\ UNCHANGED dut
  /\ UNCHANGED <<job, golden, index>>

InScope == Scope(golden, dut, job.cycle)
Budget == job.max # Absent /\ index >= job.max
Over == index >= Len(golden) /\ index >= Len(dut)

\* one turn of first_divergence's loop
Compare ==
  /\ stage = "compare" /\ ~Budget /\ ~Over
  /\ LET kind == VerdictAt(golden, dut, index, InScope)
     IN  IF kind = Match THEN index' = index + 1 /\ UNCHANGED <<stage, result>>
         ELSE Ends(EXIT_DIVERGED, index, kind) /\ UNCHANGED index
  /\ UNCHANGED <<job, golden, dut>>

CompareEnds ==
  /\ stage = "compare" /\ (Budget \/ Over)
  /\ Ends(EXIT_MATCH, Absent, Match)
  /\ UNCHANGED <<job, golden, dut, index>>

Init == /\ job \in Jobs /\ stage = "golden"
        /\ golden = <<>> /\ dut = <<>> /\ index = 0
        /\ result = [exit |-> Absent, index |-> Absent, kind |-> Match]

Next == GoldenLoaded \/ DutLoaded \/ Compare \/ CompareEnds

Spec == Init /\ [][Next]_vars
-----------------------------------------------------------------------------
(* Properties.  They relate the verdict to the effects the program and the  *)
(* core really had, past every conversion in between.                       *)

\* Types, and what the constructors promise of a loaded stream: no commit
\* writes x0 or carries half a record, the golden stream is numbered from 1
\* (Commit.__post_init__, iter_spike_commits).
TypeOK ==
  /\ stage \in {"golden", "dut", "compare", "done"}
  /\ \A s \in {golden, dut} : \A i \in DOMAIN s : WellFormed(s[i]) /\ ~IsX0(s[i])
  /\ \A i \in DOMAIN golden : golden[i].cycle = i
  /\ index \in 0..Max({Len(golden), Len(dut)})
  /\ stage = "done" <=> result.exit # Absent

Ref == CutAt(job.prog \o Spin, EffectiveStop(job))
DutEffects ==
  LET ran == IF job.style = "model"
             THEN SubSeq(job.ran, 1, SelectInSeq(job.ran, LAMBDA e : Halts(e)))
             ELSE Ran(job)
  IN  CutAt(ran, job.stop)

\* what the two streams let the comparator see
MemSeen == job.style \notin {"bare", "core"}
           /\ \E i \in DOMAIN DutEffects : DutEffects[i].mem # "none"
FpSeen == /\ \E i \in DOMAIN Ref : IsFp(Ref[i])
          /\ \E i \in DOMAIN DutEffects : IsFp(DutEffects[i])

Target(e) == IF WritesReg(e) THEN <<e.reg[2], e.value>> ELSE <<Absent, Absent>>
Class(e) == IF WritesReg(e) THEN e.reg[1] ELSE "-"
Access(e) == IF e.mem = "none" THEN <<FALSE, Absent, Absent>>
             ELSE <<Writes(e), e.addr, IF Writes(e) THEN e.data ELSE Absent>>
SameEffect(r, d) ==
  /\ r.pc = d.pc /\ Target(r) = Target(d)
  /\ MemSeen => Access(r) = Access(d)
  /\ FpSeen => <<Class(r), r.fflags, r.frm>> = <<Class(d), d.fflags, d.frm>>
SameUpTo(n) == /\ n <= Len(Ref) /\ n <= Len(DutEffects)
               /\ \A i \in 1..n : SameEffect(Ref[i], DutEffects[i])

\* MATCH means the core did what the program does: every effect, x0 writes,
\* AMOs and f0 included, in every trace form, up to the end of the run or of
\* --max-commits; and under --stop-store, which "must mean the same thing on
\* both sides", both streams end in that very store.  What it does not mean is
\* in SameEffect: a dump without memory fields, or a run in which one side
\* shows no FP state at all, is compared on less (the register class included).
MatchSound ==
  result.exit = EXIT_MATCH =>
    /\ job.inject # <<>> \/
         (IF job.max = Absent THEN Len(Ref) = Len(DutEffects) /\ SameUpTo(Len(Ref))
          ELSE SameUpTo(Min({job.max, Max({Len(Ref), Len(DutEffects)})})))
    /\ job.stop # NoStop =>
         \A s \in {golden, dut} : Matches(job.stop, s[Len(s)].addr, s[Len(s)].wdata)

\* the runs that end in exit 2 whatever the core does
NoStream ==
  \/ job.src \in {"log", "fixture"} /\ ~job.elf
  \/ job.dtb = "source" /\ "dtc" \notin job.tools
  \/ job.src = "elf" /\ ~({"spike", "dtc"} \subseteq job.tools)
  \/ ~StopsAt(EffectiveStop(job), Ref[Len(Ref)])
  \/ job.src \in {"trace", "fixture"} /\ Len(CutAt(job.prog, Stop(Tohost, Absent))) < Len(Ref)
  \/ job.stop # NoStop /\ ~MemSeen
  \/ job.style = "model" /\ ~ModelRuns(job)

\* A correct core is never reported: the AMO, x0, boot ROM, spin loop and
\* captured-trace conversions all come out even.  The options must fit the
\* producer: real cycles want --no-cycle-check, a dump with the spin loop
\* wants --stop-store, and the Python model (which runs until tohost is not
\* zero, where Spike's stream ends at the first store to it) a program that
\* stores nothing else there.
NoFalseAlarm ==
  /\ stage = "done" /\ job.ran = job.prog
  /\ job.style = "loop" => job.stop # NoStop
  /\ job.style = "model" => Len(DutEffects) = Len(Ref)
  => result.exit = IF NoStream THEN EXIT_ERROR ELSE EXIT_MATCH

\* A reported divergence is the first one: all effects before it agree, and at
\* it the effects differ, the lanes do, or one stream has ended.
FirstIndex ==
  result.exit = EXIT_DIVERGED =>
    LET i == result.index + 1
    IN  /\ SameUpTo(i - 1)
        /\ \/ i > Len(Ref) \/ i > Len(DutEffects)
           \/ ~SameEffect(Ref[i], DutEffects[i])
           \/ Ref[i].lanes # DutEffects[i].lanes

\* An alarm is true: never about a correct core, and at the first commit that
\* is wrong (first_divergence, main).
AlarmTruth ==
  job.inject = <<>> /\ (job.style = "real" => ~job.cycle) => NoFalseAlarm /\ FirstIndex

\* What is compared is well formed, and a captured trace or a cut log is as
\* good as a live Spike run: once it loads, the stream is the one Spike would
\* give now (format_trace, parse_trace, write_golden_fixtures).
CapturedSame ==
  /\ TypeOK
  /\ stage \in {"dut", "compare"} /\ job.src \in {"trace", "fixture"} => RunSpike(job) = {golden}

\* an injected value that really differs from the golden record in a field
\* that is compared
Visible(j, g) ==
  CASE j.field = "pc"    -> g.pc # j.value
    [] j.field = "value" -> g.rd # Absent /\ g.value # j.value
    [] j.field = "rd"    -> g.rd # (IF j.value = 0 THEN Absent ELSE j.value)
    [] j.field = "cycle" -> job.cycle /\ g.cycle # j.value
    [] j.field = "fflags" -> StreamHasFpInfo(golden) /\ g.fflags # j.value
    [] j.field = "frm"    -> StreamHasFpInfo(golden) /\ g.frm # j.value
    [] j.field = "mem_addr"  -> g.addr # j.value
    [] j.field = "mem_wdata" -> g.addr = Absent \/ g.wdata # j.value
    [] j.field = "mem_rmask" -> g.addr = Absent \/ g.wdata # Absent
                                \/ ~LaneMaskIsConsistent(Lanes(j.value), g.addr)
    [] j.field = "mem_wmask" -> g.addr = Absent \/ g.wdata = Absent
                                \/ ~LaneMaskIsConsistent(Lanes(j.value), g.addr)

\* The negative control works: a fault injected into a correct stream is
\* reported at its own commit, unless it cannot be seen (a value where no
\* register is written, FP state the golden stream never shows) or destroys
\* the stop event.
InjectCaught ==
  stage = "done" /\ job.ran = job.prog /\ golden # <<>> /\ job.style = "callback" =>
    \A k \in DOMAIN job.inject :
      LET j == job.inject[k]
      IN  j.index < Len(Ref) /\ Visible(j, golden[j.index + 1]) =>
            \/ result.exit = EXIT_DIVERGED
               /\ (result.index = j.index \/ result.kind = "traceback")
            \/ result.exit = EXIT_ERROR /\ job.stop # NoStop
            \/ result.exit = EXIT_MATCH /\ job.max # Absent /\ job.max <= j.index
=============================================================================
