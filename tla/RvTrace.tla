------------------------------ MODULE RvTrace -------------------------------
(* The commit streams of the eth_rv DiffTest harness and the operations on  *)
(* them: rv_trace.py (records and trace text), rv_spike.py (normalising     *)
(* Spike's commit log), rv_dut.py (the DUT adapters and fault injection)    *)
(* and the per-commit checks of rv_difftest.py.                             *)
(*                                                                          *)
(* Every conversion returns a set: the converted value, or nothing when the *)
(* code raises.  Words are small naturals and Absent stands for None and    *)
(* for the "-" of a trace field.  A byte-lane mask is the set of its lanes. *)
EXTENDS Integers, Sequences, FiniteSetsExt, SequencesExt

Absent == -1
NoMask == {Absent}
Lanes(v) == {l \in 0..7 : (v \div 2^l) % 2 = 1}

-----------------------------------------------------------------------------
(* Commit and its constructor                                               *)

Blank == [cycle |-> 1, pc |-> 0, rd |-> Absent, fp |-> FALSE, value |-> Absent,
          addr |-> Absent, wdata |-> Absent, rmask |-> NoMask, wmask |-> NoMask,
          fflags |-> Absent, frm |-> Absent]

Commits == [cycle : Int, pc : Int, rd : Int, fp : BOOLEAN, value : Int, addr : Int,
            wdata : Int, rmask : SUBSET Int, wmask : SUBSET Int, fflags : Int, frm : Int]

HasMemAccess(c) == c.addr # Absent
HasMemMasks(c) == c.rmask # NoMask \/ c.wmask # NoMask
HasFpInfo(c) == c.fp \/ c.fflags # Absent \/ c.frm # Absent

StreamHasMemInfo(s) == \E i \in DOMAIN s : HasMemAccess(s[i])
StreamHasFpInfo(s) == \E i \in DOMAIN s : HasFpInfo(s[i])

IsX0(c) == c.rd = 0 /\ ~c.fp

WellFormed(c) ==
  /\ c.cycle >= 1
  /\ IsX0(c) \/ (c.rd = Absent <=> c.value = Absent)
  /\ c.addr = Absent =>
       c.wdata = Absent /\ c.rmask = NoMask /\ c.wmask = NoMask
  /\ c.rmask # NoMask /\ c.wmask # NoMask =>
       (c.rmask = {}) # (c.wmask = {})

\* Commit.__post_init__: a write of x0 is no write
MakeCommit(c) ==
  IF ~WellFormed(c) THEN {}
  ELSE {IF IsX0(c) THEN [c EXCEPT !.rd = Absent, !.value = Absent] ELSE c}

-----------------------------------------------------------------------------
(* Trace text.  A line has its positional fields and its keyed tokens.      *)

Keyed(c) == (IF c.fflags # Absent THEN <<<<"fflags", c.fflags>>>> ELSE <<>>)
            \o (IF c.frm # Absent THEN <<<<"frm", c.frm>>>> ELSE <<>>)

Width(c) == IF HasMemMasks(c) THEN 8 ELSE IF HasMemAccess(c) THEN 6 ELSE 4

FormatReg(rd, fp) == IF rd = Absent THEN <<"-", Absent>>
                     ELSE <<IF fp THEN "f" ELSE "x", rd>>

\* Commit.format_line: what the width does not carry is not in the text
FormatLine(c, n) ==
  [n |-> n, cycle |-> IF n = 3 THEN Absent ELSE c.cycle, pc |-> c.pc,
   reg |-> FormatReg(c.rd, c.fp), value |-> c.value,
   mem |-> IF n >= 6 THEN <<c.addr, c.wdata>> ELSE <<>>,
   masks |-> IF n = 8 THEN <<c.rmask, c.wmask>> ELSE <<>>,
   keyed |-> Keyed(c)]

FormatTrace(s) == [i \in DOMAIN s |-> FormatLine(s[i], Width(s[i]))]

\* the cycle of line i: a 3-field line takes its ordinal
CycleAt(lines, i) == IF lines[i].n = 3 THEN i ELSE lines[i].cycle

KeyedField(l, key) ==
  LET hits == {i \in DOMAIN l.keyed : l.keyed[i][1] = key}
  IN  IF hits = {} THEN Absent ELSE l.keyed[CHOOSE i \in hits : TRUE][2]

\* parse_reg_field, parse_word: a register or "-", and a value only with one
RegFieldOk(l) == /\ l.reg[1] \in {"x", "f", "-"}
                 /\ l.reg[1] = "-" => l.value = Absent

MemFields(l) ==
  [addr |-> IF l.n >= 6 THEN l.mem[1] ELSE Absent,
   wdata |-> IF l.n >= 6 THEN l.mem[2] ELSE Absent,
   rmask |-> IF l.n = 8 THEN l.masks[1] ELSE NoMask,
   wmask |-> IF l.n = 8 THEN l.masks[2] ELSE NoMask]

LineOk(lines, i) ==
  LET l == lines[i]
  IN  /\ l.n \in {3, 4, 6, 8}
      /\ l.n # 3 => /\ l.cycle >= 1
                    /\ i > 1 => l.cycle >= CycleAt(lines, i - 1)
      /\ RegFieldOk(l)
      /\ \A j, k \in DOMAIN l.keyed :
           /\ l.keyed[j][1] \in {"fflags", "frm"}
           /\ l.keyed[j][1] = l.keyed[k][1] => j = k

\* Mutant: the keyed tokens are read only where a register is written
Bug_ParseLine(lines, i) ==
  LET l == lines[i]
      m == MemFields(l)
  IN  [Blank EXCEPT !.cycle = CycleAt(lines, i), !.pc = l.pc,
         !.rd = l.reg[2], !.fp = l.reg[1] = "f", !.value = l.value,
         !.addr = m.addr, !.wdata = m.wdata, !.rmask = m.rmask, !.wmask = m.wmask,
         !.fflags = IF l.reg[2] = Absent THEN Absent ELSE KeyedField(l, "fflags"),
         !.frm = KeyedField(l, "frm")]

ParseLine(lines, i) ==
  LET l == lines[i]
      m == MemFields(l)
  IN  [Blank EXCEPT !.cycle = CycleAt(lines, i), !.pc = l.pc,
         !.rd = l.reg[2], !.fp = l.reg[1] = "f", !.value = l.value,
         !.addr = m.addr, !.wdata = m.wdata, !.rmask = m.rmask, !.wmask = m.wmask,
         !.fflags = KeyedField(l, "fflags"), !.frm = KeyedField(l, "frm")]

\* the constructor over a whole stream
All(s) == IF \E i \in DOMAIN s : s[i] = {} THEN {}
          ELSE {[i \in DOMAIN s |-> CHOOSE c \in s[i] : TRUE]}

ParseTrace(lines) ==
  IF \E i \in DOMAIN lines : ~LineOk(lines, i) THEN {}
  ELSE All([i \in DOMAIN lines |-> MakeCommit(ParseLine(lines, i))])

-----------------------------------------------------------------------------
(* The stopping store                                                       *)

Stop(addr, value) == [addr |-> addr, value |-> value]
NoStop == Stop(Absent, Absent)

Matches(stop, addr, wdata) ==
  /\ addr = stop.addr /\ wdata # Absent
  /\ stop.value \in {Absent, wdata}

TruncateAtStop(s, stop) ==
  LET at == SelectInSeq(s, LAMBDA c : Matches(stop, c.addr, c.wdata))
  IN  IF stop = NoStop THEN {s} ELSE IF at = 0 THEN {} ELSE {SubSeq(s, 1, at)}

-----------------------------------------------------------------------------
(* Spike's commit log: [commit, pc, regs, mems, csrs] per line, where regs  *)
(* holds <<class, index, value>>, mems <<addr, data>> and csrs <<name,      *)
(* value>>; a disassembly or exception line is no commit line.              *)

RegsOf(l, class) ==
  SelectSeq(l.regs, LAMBDA r : r[1] = class /\ ~(class = "x" /\ r[2] = 0))

\* an AMO's read and write are one access, recorded as the write
MemOf(l) == IF l.mems = <<>> THEN <<Absent, Absent>> ELSE l.mems[Len(l.mems)]

CsrOf(l, name) == LET c == SelectSeq(l.csrs, LAMBDA x : x[1] = name)
                  IN  IF c = <<>> THEN Absent ELSE c[1][2]

\* Mutant: one memory access per line
Bug_SpikeLineOk(l) ==
  Len(RegsOf(l, "x")) + Len(RegsOf(l, "f")) <= 1 /\ Len(l.mems) <= 1

SpikeLineOk(l) ==
  /\ Len(RegsOf(l, "x")) + Len(RegsOf(l, "f")) <= 1
  /\ Len(l.mems) <= 2
  /\ Len(l.mems) = 2 => /\ l.mems[1][2] = Absent /\ l.mems[2][2] # Absent
                        /\ l.mems[1][1] = l.mems[2][1]
  /\ \A name \in {"fflags", "frm"} :
       Len(SelectSeq(l.csrs, LAMBDA x : x[1] = name)) <= 1

SpikeCommit(l, i) ==
  LET regs == RegsOf(l, "x") \o RegsOf(l, "f")
  IN  IF ~SpikeLineOk(l) THEN {}
      ELSE MakeCommit(
        [Blank EXCEPT !.cycle = i, !.pc = l.pc,
           !.rd = IF regs = <<>> THEN Absent ELSE regs[1][2],
           !.value = IF regs = <<>> THEN Absent ELSE regs[1][3],
           !.fp = regs # <<>> /\ regs[1][1] = "f",
           !.addr = MemOf(l)[1], !.wdata = MemOf(l)[2],
           !.fflags = CsrOf(l, "fflags"), !.frm = CsrOf(l, "frm")])

WritesStop(l, stop) == \E i \in DOMAIN l.mems : Matches(stop, l.mems[i][1], l.mems[i][2])

\* the commit lines from the entry on, up to the stopping store
GoldenLines(log, stop, entry) ==
  LET commits == SelectSeq(log, LAMBDA l : l.commit)
      from == SelectInSeq(commits, LAMBDA l : l.pc = entry)
      s == IF from = 0 THEN <<>> ELSE SubSeq(commits, from, Len(commits))
      to == SelectInSeq(s, LAMBDA l : WritesStop(l, stop))
  IN  IF to = 0 THEN s ELSE SubSeq(s, 1, to)

NormalizeSpikeLog(log, stop, entry) ==
  LET lines == GoldenLines(log, stop, entry)
      streams == All([i \in DOMAIN lines |-> SpikeCommit(lines[i], i)])
  IN  {s \in streams :
         s # <<>> /\ Matches(stop, s[Len(s)].addr, s[Len(s)].wdata)}

\* the log line of the last golden commit
LastGoldenLine(log, stop, entry) ==
  LET lines == GoldenLines(log, stop, entry)
      from == SelectInSeq(log, LAMBDA l : l.commit /\ l.pc = entry)
      commits(n) == Cardinality({i \in from..n : log[i].commit})
  IN  IF lines = <<>> THEN 0
      ELSE CHOOSE n \in from..Len(log) : log[n].commit /\ commits(n) = Len(lines)

-----------------------------------------------------------------------------
(* Fault injection on a DUT stream                                          *)

Corrupt(index, field, value) == [index |-> index, field |-> field, value |-> value]

WithValue(c, v) == IF c.rd = Absent THEN c ELSE [c EXCEPT !.value = v]
WithRd(c, rd) ==
  IF rd = 0 THEN [c EXCEPT !.rd = Absent, !.value = Absent, !.fp = FALSE]
  ELSE [c EXCEPT !.rd = rd, !.value = IF @ = Absent THEN 0 ELSE @]

\* a memory field injected where there is no access invents one at pc
WithMem(c) == IF c.addr = Absent THEN [c EXCEPT !.addr = c.pc] ELSE c

ApplyInjection(c, j) ==
  CASE j.field = "pc"    -> [c EXCEPT !.pc = j.value]
    [] j.field = "value" -> WithValue(c, j.value)
    [] j.field = "rd"    -> WithRd(c, j.value)
    [] j.field = "cycle"  -> [c EXCEPT !.cycle = j.value]
    [] j.field = "fflags" -> [c EXCEPT !.fflags = j.value]
    [] j.field = "frm"    -> [c EXCEPT !.frm = j.value]
    [] j.field = "mem_addr"  -> [c EXCEPT !.addr = j.value]
    [] j.field = "mem_wdata" -> [WithMem(c) EXCEPT !.wdata = j.value]
    [] j.field = "mem_rmask" -> [WithMem(c) EXCEPT !.rmask = Lanes(j.value), !.wmask = NoMask]
    [] j.field = "mem_wmask" -> [WithMem(c) EXCEPT !.wmask = Lanes(j.value), !.rmask = NoMask]

\* Mutant: the index counts from one
Bug_Injected(c, i, injections) ==
  FoldLeft(LAMBDA cs, j : IF j.index # i THEN cs
                          ELSE UNION {MakeCommit(ApplyInjection(x, j)) : x \in cs},
           {c}, injections)

\* the injections of one commit, in order; the record is checked after each
Injected(c, i, injections) ==
  FoldLeft(LAMBDA cs, j : IF j.index # i - 1 THEN cs
                          ELSE UNION {MakeCommit(ApplyInjection(x, j)) : x \in cs},
           {c}, injections)

InjectedStream(s, injections) ==
  All([i \in DOMAIN s |-> Injected(s[i], i, injections)])

-----------------------------------------------------------------------------
(* One commit against another.  o says what is compared: [cycle, mem, fp].  *)

LaneMaskIsConsistent(mask, addr) ==
  mask # {} /\ mask = (addr % 8)..Max(mask)

Marks(mask) == mask \notin {{}, NoMask}

MasksDiffer(g, d) ==
  /\ HasMemMasks(d)
  /\ \/ \E m \in {d.rmask, d.wmask} : Marks(m) /\ ~LaneMaskIsConsistent(m, d.addr)
     \/ g.wdata = Absent /\ ~Marks(d.rmask)
     \/ g.wdata # Absent /\ ~Marks(d.wmask)
     \/ HasMemMasks(g) /\ <<g.rmask, g.wmask>> # <<d.rmask, d.wmask>>

MemChecks(g, d) ==
  << <<"mem_addr_mismatch", g.addr # d.addr>>,
     <<"mem_wdata_mismatch", d.addr # Absent /\ g.wdata # d.wdata>>,
     <<"mem_mask_mismatch", d.addr # Absent /\ MasksDiffer(g, d)>> >>

FpChecks(g, d) == << <<"fflags_mismatch", g.fflags # d.fflags>>,
                     <<"frm_mismatch", g.frm # d.frm>> >>

\* the checks of first_divergence in its order
Checks(g, d, o) ==
  << <<"cycle_mismatch", o.cycle /\ g.cycle # d.cycle>>,
     <<"pc_mismatch", g.pc # d.pc>>,
     <<"fp_class_mismatch", o.fp /\ g.fp # d.fp>>,
     <<"rd_mismatch", g.rd # d.rd>>,
     <<"value_mismatch", g.value # d.value>> >>
  \o (IF o.mem THEN MemChecks(g, d) ELSE <<>>)
  \o (IF o.fp THEN FpChecks(g, d) ELSE <<>>)

Match == "match"
CommitVerdict(g, d, o) ==
  LET checks == Checks(g, d, o)
      failed == {i \in DOMAIN checks : checks[i][2]}
  IN  IF failed = {} THEN Match ELSE checks[Min(failed)][1]

\* what main compares: only what both streams report
Scope(g, d, cycle) ==
  [cycle |-> cycle, mem |-> StreamHasMemInfo(g) /\ StreamHasMemInfo(d),
   fp |-> StreamHasFpInfo(g) /\ StreamHasFpInfo(d)]

\* Mutant: the shorter stream ends the comparison
Bug_VerdictAt(g, d, i, o) ==
  IF i >= Len(g) \/ i >= Len(d) THEN Match ELSE CommitVerdict(g[i + 1], d[i + 1], o)

\* the streams at index i (0-based), both within the budget
VerdictAt(g, d, i, o) ==
  IF i >= Len(g) /\ i >= Len(d) THEN Match
  ELSE IF i >= Len(g) THEN "dut_trace_extra_commits"
  ELSE IF i >= Len(d) THEN "dut_trace_truncated"
  ELSE CommitVerdict(g[i + 1], d[i + 1], o)

\* the whole comparison: <<index, kind>> of the first divergence, or <<Absent, Match>>
FirstDivergence(g, d, o) ==
  LET bad == {i \in 0..(Max({Len(g), Len(d)}) - 1) : VerdictAt(g, d, i, o) # Match}
  IN  IF bad = {} THEN <<Absent, Match>> ELSE <<Min(bad), VerdictAt(g, d, Min(bad), o)>>
=============================================================================
