------------------------------ MODULE EfpClient ------------------------------
(* ethereal-tools/tools/efp_client.py: the EFP sessions of the host (op      *)
(* lists of register writes, reads, polls and frame streams) and             *)
(* EfpDaemonModel, the daemon side they run against.                         *)
(*                                                                           *)
(* A session is a sequence of operations; the host executes the head of the  *)
(* list, one register access at a time (execute_ops).  A 32-bit staging      *)
(* window is one register here.  The masks of a poll name the fields of      *)
(* EFP_STATUS they keep; every poll and check of busy in the code wants 0.   *)
(*                                                                           *)
(* A word of the fabric is <<image, index>>, so that what was loaded can be  *)
(* compared with what was verified.                                          *)
EXTENDS EthImage

CONSTANTS NumRegions,   \* regions of the device (EfpDaemonModel.num_regions)
          Eths          \* the .eth files: a function from file names to images

ASSUME RegionsAssumption == NumRegions \in 1..8

Regions == 0..(NumRegions - 1)
EFP_REGION_AUTO == 255
None == "none"

Frames(f)  == Eths[f].members[Eths[f].target]
Words(f)   == Len(Frames(f))
\* the words i..j of image f as they go over the wire
Word(f, i) == <<f, i>>
Image(f)   == [i \in 1..Words(f) |-> Word(f, i)]

-----------------------------------------------------------------------------
(* Operations of a session                                                   *)

Write(r, v)      == [op |-> "write", reg |-> r, val |-> v]
Read(r)          == [op |-> "read", reg |-> r]
Check(st, done)  == [op |-> "check", st |-> st, done |-> done]
CheckErr         == [op |-> "check_err"]
PollBusy         == [op |-> "poll", on |-> {"busy"}, st |-> None]
PollState(st)    == [op |-> "poll", on |-> {"state"}, st |-> st]
PollTerminal(st) == [op |-> "poll", on |-> {"state", "busy"}, st |-> st]
PollDone(b)      == [op |-> "poll_occ", val |-> b]
Stream(f, i, j)  == [op |-> "stream", img |-> f, from |-> i, to |-> j]

\* mutant: EFP_REGION keeps the value of the last session
Bug_StageImage(f, words, region, sig) ==
  << Write("dig", f), Write("sig", sig), Write("words", words) >>

StageImage(f, words, region, sig) ==
  << Write("dig", f), Write("sig", sig), Write("words", words),
     Write("region", region) >>

StageCapabilities(f) ==
  << Write("decl", IF CapsYaml \in DOMAIN Eths[f].members
                   THEN ToEmriBitmaps(Eths[f].members[CapsYaml])
                   ELSE ToEmriBitmaps(EmptyCaps)) >>

\* the doorbell, always behind a poll of busy
Cmd(code) == << PollBusy, Write("cmd", code) >>

CmdAndWait(code, st) ==
  Cmd(code) \o << PollTerminal(st), Check(st, FALSE), CheckErr >>

WaitRunning == << PollTerminal("RUNNING"), Check("RUNNING", TRUE), CheckErr >>

\* mutant: the staged length counts a word that is never streamed
Bug_Run(f, region, sig) ==
  StageImage(f, Words(f) + 1, region, sig) \o StageCapabilities(f)
    \o Cmd("run") \o << PollState("LOAD"), Stream(f, 1, Words(f)) >>
    \o WaitRunning

Run(f, region, sig) ==
  StageImage(f, Words(f), region, sig) \o StageCapabilities(f)
    \o Cmd("run") \o << PollState("LOAD"), Stream(f, 1, Words(f)) >>
    \o WaitRunning

\* the part of run_packed that streams the columns, of w words each
Columns(f, w) ==
  LET Col(c) == (IF c > 1 THEN << PollDone(TRUE), PollDone(FALSE) >> ELSE <<>>)
                  \o << PollState("LOAD"), Stream(f, (c - 1) * w + 1, c * w) >>
      Upto[c \in 0..(Words(f) \div w)] == IF c = 0 THEN <<>> ELSE Upto[c - 1] \o Col(c)
  IN  Upto[Words(f) \div w]

RunPacked(f, w, region, sig) ==
  StageImage(f, w, region, sig) \o << Write("cols", Words(f) \div w) >>
    \o StageCapabilities(f) \o Cmd("run_packed") \o Columns(f, w) \o WaitRunning

Stop(region) == << Write("region", region) >> \o CmdAndWait("stop", "STOPPED")
Restart(f)   == Cmd("restart") \o << PollState("LOAD"), Stream(f, 1, Words(f)) >>
                  \o WaitRunning
Abort        == CmdAndWait("abort", "IDLE")
Ps           == << Read("status"), Read("err") >>

\* the checks of EfpClient.run_packed before any op is built
PackedFits(f, w, region) ==
  /\ Words(f) % w = 0
  /\ region = EFP_REGION_AUTO \/ region \in Regions
  /\ Words(f) \div w <= NumRegions
  /\ region # EFP_REGION_AUTO => region + Words(f) \div w <= NumRegions

-----------------------------------------------------------------------------
(* EfpDaemonModel: d is the whole daemon, d.g the staged registers.          *)
(* d.load is what the host streamed in this LOAD, d.content what each region *)
(* was left with, d.verified the digest that last passed VERIFY; none of     *)
(* them influences a step.                                                   *)

States == {"IDLE", "VERIFY", "ALLOC", "BLANK", "LOAD", "READBACK", "RUNNING",
           "ERROR", "STOPPED"}
Codes  == {"run", "run_packed", "stop", "restart", "abort"}
Errs   == {None, "bad_sig", "region_full", "bad_cmd", "img_len_mismatch"}
ZeroSig == [of |-> None, good |-> FALSE]

DaemonInit ==
  [state |-> "IDLE", busy |-> FALSE, done |-> FALSE, err |-> None, cmd |-> None,
   squelch |-> FALSE, occDone |-> FALSE, col |-> 0, ncols |-> 0, run |-> 0,
   regions |-> [r \in Regions |-> "FREE"],
   lastRegion |-> 0, lastWords |-> 0, staged |-> FALSE,
   load |-> <<>>, content |-> [r \in Regions |-> <<>>], verified |-> None,
   g |-> [dig |-> None, sig |-> ZeroSig, words |-> 0, region |-> 0, cols |-> 0,
          decl |-> ToEmriBitmaps(EmptyCaps)]]

Finish(d, st, done) ==
  [d EXCEPT !.state = st, !.done = done, !.busy = FALSE,
            !.err = IF d.squelch /\ @ = None THEN "bad_cmd" ELSE @]

Fail(d, e) == Finish([d EXCEPT !.err = e], "ERROR", d.done)

\* _accept: a run goes to VERIFY, the others are resolved on the first tick
Accept(d, code) ==
  [d EXCEPT !.busy = TRUE, !.done = FALSE, !.err = None, !.squelch = FALSE,
            !.cmd = code,
            !.state = IF code \in {"run", "run_packed"} THEN "VERIFY" ELSE "IDLE"]

\* a doorbell while busy is remembered and flagged when the command ends
Doorbell(d, code) == IF d.busy THEN [d EXCEPT !.squelch = TRUE] ELSE Accept(d, code)

\* _verify_staged: a zero signature is refused, and without a key in the
\* device every other one is believed
VerifyStaged(d, key) ==
  /\ d.g.sig # ZeroSig
  /\ key # None => d.g.sig.good /\ d.g.sig.of = d.g.dig

\* _alloc, as the set of regions it can return
Alloc(d) ==
  LET free == {r \in Regions : d.regions[r] = "FREE"}
  IN  IF d.g.region = EFP_REGION_AUTO
      THEN {r \in free : \A q \in free : r <= q}
      ELSE free \cap {d.g.region}

Running(d) ==
  Finish([d EXCEPT !.regions[d.run] = "RUNNING", !.content[d.run] = d.load,
                   !.lastRegion = d.run, !.lastWords = d.g.words,
                   !.staged = TRUE],
         "RUNNING", TRUE)

\* VERIFY and ALLOC, which run and run_packed share: cols is the column
\* count that must be staged and must fit above the region
TickVerify(d, key, cols) ==
  IF d.g.words = 0 \/ cols = 0 THEN Fail(d, "img_len_mismatch")
  ELSE IF ~VerifyStaged(d, key) THEN Fail(d, "bad_sig")
  ELSE [d EXCEPT !.state = "ALLOC", !.verified = d.g.dig]

TickAlloc(d, cols) ==
  IF Alloc(d) = {} THEN Fail(d, "region_full")
  ELSE LET r == CHOOSE x \in Alloc(d) : TRUE
       IN  IF r + cols > NumRegions THEN Fail(d, "img_len_mismatch")
           ELSE [d EXCEPT !.run = r, !.ncols = cols, !.col = 0, !.state = "BLANK"]

TickRun(d, key) ==
  CASE d.state = "VERIFY"   -> TickVerify(d, key, 1)
    [] d.state = "ALLOC"    -> TickAlloc(d, 1)
    [] d.state = "BLANK"    -> [d EXCEPT !.load = <<>>, !.state = "LOAD"]
    [] d.state = "LOAD"     -> IF Len(d.load) >= d.g.words
                               THEN [d EXCEPT !.state = "READBACK"] ELSE d
    [] d.state = "READBACK" -> Running(d)

\* the columns are blanked, loaded and read back one at a time; the sticky
\* done flag of the OCC is cleared when the next WRITE is armed
TickBlankColumn(d) ==
  IF d.col + 1 < d.ncols THEN [d EXCEPT !.col = @ + 1, !.occDone = TRUE]
  ELSE [d EXCEPT !.col = 0, !.load = <<>>, !.occDone = FALSE, !.state = "LOAD"]

TickLoadColumn(d) ==
  IF d.occDone
  THEN IF d.col + 1 < d.ncols THEN [d EXCEPT !.col = @ + 1, !.occDone = FALSE]
       ELSE [d EXCEPT !.col = 0, !.state = "READBACK"]
  ELSE IF Len(d.load) >= (d.col + 1) * d.g.words THEN [d EXCEPT !.occDone = TRUE]
  ELSE d

TickReadColumn(d) ==
  LET n == [d EXCEPT !.col = @ + 1, !.occDone = TRUE]
  IN  IF n.col < n.ncols THEN n ELSE Running(n)

TickRunPacked(d, key) ==
  CASE d.state = "VERIFY"   -> TickVerify(d, key, d.g.cols)
    [] d.state = "ALLOC"    -> TickAlloc(d, d.g.cols)
    [] d.state = "BLANK"    -> TickBlankColumn(d)
    [] d.state = "LOAD"     -> TickLoadColumn(d)
    [] d.state = "READBACK" -> TickReadColumn(d)

Freed(d, R) == [d EXCEPT !.regions = [r \in Regions |-> IF r \in R THEN "FREE" ELSE @[r]],
                         !.content = [r \in Regions |-> IF r \in R THEN <<>> ELSE @[r]]]

\* mutant: the region of the last run is freed
Bug_TickStop(d) ==
  IF d.g.region \notin Regions THEN Fail(d, "bad_cmd")
  ELSE IF d.state = "IDLE" THEN [d EXCEPT !.state = "BLANK"]
  ELSE Finish(Freed(d, {d.run}), "STOPPED", FALSE)

TickStop(d) ==
  IF d.g.region \notin Regions THEN Fail(d, "bad_cmd")
  ELSE IF d.state = "IDLE" THEN [d EXCEPT !.state = "BLANK"]
  ELSE Finish(Freed(d, {d.g.region}), "STOPPED", FALSE)

\* restart frees the last region and goes on as a run of it
TickRestart(d) ==
  IF ~d.staged THEN Fail(d, "bad_cmd")
  ELSE IF d.state = "IDLE" THEN [Freed(d, {d.lastRegion}) EXCEPT !.state = "BLANK"]
  ELSE IF d.g.words # d.lastWords THEN Fail(d, "img_len_mismatch")
  ELSE [d EXCEPT !.state = "VERIFY", !.cmd = "run", !.g.region = d.lastRegion]

Tick(d, key) ==
  CASE ~d.busy               -> d
    [] d.cmd = "run"         -> TickRun(d, key)
    [] d.cmd = "run_packed"  -> TickRunPacked(d, key)
    [] d.cmd = "stop"        -> TickStop(d)
    [] d.cmd = "restart"     -> TickRestart(d)
    [] d.cmd = "abort"       -> Finish(Freed(d, Regions), "IDLE", FALSE)

\* _push: only a LOAD takes a word
CanPush(d) == d.state = "LOAD" /\ d.busy
Push(d, w) == [d EXCEPT !.load = Append(@, w)]

\* what a poll and a check of EFP_STATUS accept
Matches(d, o) ==
  /\ "state" \in o.on => d.state = o.st
  /\ "busy" \in o.on => ~d.busy
StatusIs(d, st, done) == d.state = st /\ ~d.busy /\ d.done = done
=============================================================================
