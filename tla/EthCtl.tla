------------------------------- MODULE EthCtl -------------------------------
(* ethereal-tools/tools/ethctl.py: one host that runs a series of commands   *)
(* against one device.  The device is a BMC (the EFP command block of        *)
(* EfpClient) or an mFSM, whose OCC the host drives itself.                  *)
(*                                                                           *)
(* link = "model" is the in-process device of --mode sim-model: the daemon   *)
(* advances only when a poll retries (execute_ops), the OCC is _OccStub.     *)
(* link = "wire" is the same session over a bus, as tb_ethctl_replay runs    *)
(* it: the device takes its steps on its own, a doorbell lies in EFP_CMD     *)
(* until the daemon picks it up, and the OCC is the RTL one (window-wise     *)
(* blank-before-write, lock gate, one word of skid in front of it).          *)
EXTENDS EfpClient

CONSTANTS Requests,     \* the command lines of the operator
          MaxSessions,  \* bound: commands issued in a behaviour
          FrameWords,   \* words of a frame window
          IoMask, SvcMask   \* platform inventory of the capability check

VARIABLES dev,     \* "bmc" or "mfsm"
          link,    \* "model" or "wire"
          key,     \* the key of --pubkey, which the device also trusts
          d,       \* the daemon of a BMC
          bell,    \* EFP_CMD, not picked up yet (wire)
          occ,     \* the OCC of an mFSM
          h,       \* the host: request, operations left, verdict
          n        \* commands issued so far

vars == <<dev, link, key, d, bell, occ, h, n>>

Blank == <<None, 0>>

-----------------------------------------------------------------------------
(* The OCC as the host sees it through the EMRI registers                    *)

OccInit(locks) ==
  [state |-> "IDLE", cmd |-> None, win |-> 0, wc |-> 0, beats |-> 0,
   flag |-> FALSE, code |-> "DONE", skid |-> <<>>, locked |-> locks,
   dirty |-> {}, notified |-> {},
   cfg |-> [w \in Regions |-> [i \in 1..FrameWords |-> Blank]]]

Ended(o, code) == [o EXCEPT !.state = "IDLE", !.flag = TRUE, !.code = code]

\* OCC_CMD.start with FRAME_ADDR in window w and WORD_COUNT c
IssueBlank(o, w, c) ==
  IF w \in o.locked THEN Ended(o, "LOCKED")
  ELSE Ended([o EXCEPT !.dirty = @ \ {w}, !.cmd = "BLANK",
                       !.cfg[w] = [i \in 1..FrameWords |->
                                     IF i <= c THEN Blank ELSE @[i]]], "DONE")

IssueWrite(o, w, c) ==
  IF w \in o.locked THEN Ended(o, "LOCKED")
  ELSE IF link = "wire" /\ w \in o.dirty THEN Ended(o, "NEEDS_BLANK")
  ELSE [o EXCEPT !.state = "WRITE", !.cmd = "WRITE", !.win = w, !.wc = c,
                 !.beats = 0, !.flag = FALSE]

\* one word reaches the armed WRITE
Store(o, w) ==
  LET s == [o EXCEPT !.beats = @ + 1, !.dirty = @ \cup {o.win},
                     !.cfg[o.win][o.beats + 1] = w]
  IN  IF s.beats >= s.wc THEN Ended(s, "DONE") ELSE s

-----------------------------------------------------------------------------
(* The host-driven deploy of Daemon.deploy, as operations                    *)

BlankOps(w, c) == << [op |-> "occ", cmd |-> "BLANK", win |-> w, wc |-> c],
                     [op |-> "occ_wait", retry |-> FALSE] >>
WriteFrames(f, w, retry) ==
  << [op |-> "occ", cmd |-> "WRITE", win |-> w, wc |-> Words(f)],
     [op |-> "push", img |-> f, from |-> 1, to |-> Words(f)],
     [op |-> "occ_wait", retry |-> retry] >>
Deploy(q) ==
  (IF q.blankFirst THEN BlankOps(q.win, Words(q.file)) ELSE <<>>)
    \o WriteFrames(q.file, q.win, TRUE)
    \o << [op |-> "notify", region |-> q.region] >>

-----------------------------------------------------------------------------
(* The command line                                                          *)

probe_mode == dev
Override(t) == CASE t = "auto" -> probe_mode [] t = "mfsm" -> "mfsm"
                 [] t = "efp" -> "bmc"

StagedSig(f) == IF Eths[f].sig = NoSig THEN ZeroSig
                ELSE [of |-> f, good |-> VerifySig(key, Eths[f].digest, Eths[f].sig)]

\* _cli_efp: the operations of a command, or a refusal
EfpRefused(q) ==
  \/ q.cmd \in {"run", "run_packed", "restart"}
     /\ LoadImage(Eths[q.file], key, q.allow, IoMask, SvcMask) # "ok"
  \/ q.cmd = "run_packed" /\ ~PackedFits(q.file, q.colWords, q.region)
  \/ q.cmd = "stop" /\ q.region = EFP_REGION_AUTO
EfpOps(q) ==
  CASE q.cmd = "run"        -> Run(q.file, q.region, StagedSig(q.file))
    [] q.cmd = "run_packed" -> RunPacked(q.file, q.colWords, q.region, StagedSig(q.file))
    [] q.cmd = "restart"    -> Restart(q.file)
    [] q.cmd = "stop"       -> Stop(q.region)
    [] q.cmd = "abort"      -> Abort
    [] q.cmd = "ps"         -> Ps

\* _extract_frames and deploy: the target's frames are missing, or empty
NoFrames(e) == \/ FramesOf(e.target) \notin DOMAIN e.members
               \/ e.members[FramesOf(e.target)] = <<>>

\* the mFSM half of _run_session, deploy_image and the checks of deploy
MfsmRefused(q) ==
  \/ q.cmd \in {"stop", "restart", "abort", "run_packed"}
  \/ /\ q.cmd = "run"
     /\ \/ q.region = EFP_REGION_AUTO
        \/ Verify(Eths[q.file], IF key = None THEN {} ELSE {key}, q.allow) # "ok"
        \/ NoFrames(Eths[q.file])

Refused(q) ==
  \/ Override(q.transport) # probe_mode
  \/ dev = "bmc" /\ EfpRefused(q)
  \/ dev = "mfsm" /\ MfsmRefused(q)
OpsOf(q) == IF dev = "bmc" THEN EfpOps(q)
            ELSE IF q.cmd = "run" THEN Deploy(q) ELSE <<>>

\* a deploy that skips the blank on a window whose WRITE the OCC will refuse
SkipsBlank(q) == /\ dev = "mfsm" /\ q.cmd = "run" /\ ~q.blankFirst
                 /\ q.win \in occ.dirty \cup occ.locked

\* _run_session up to the first register access.  Two facts about the session
\* are remembered for the properties: surplus, a word of an earlier command
\* waits in front of the OCC; raw, some deploy so far skipped a needed blank.
Command(q) ==
  /\ h.res # "busy" /\ n < MaxSessions
  /\ n' = n + 1
  /\ h' = [q |-> q, ops |-> IF Refused(q) THEN <<>> ELSE OpsOf(q),
           res |-> IF Refused(q) THEN "refused" ELSE "busy", stale |-> FALSE,
           surplus |-> occ.skid # <<>>,
           raw |-> h.raw \/ (~Refused(q) /\ SkipsBlank(q))]
  /\ UNCHANGED <<dev, link, key, d, bell, occ>>

-----------------------------------------------------------------------------
(* execute_ops: the head of the list                                         *)

At(op) == h.res = "busy" /\ h.ops # <<>> /\ Head(h.ops).op = op
Op == Head(h.ops)
Done(hh) == [hh EXCEPT !.ops = Tail(@)]
Stopped(hh, res) == [hh EXCEPT !.ops = <<>>, !.res = res]
HostOnly == UNCHANGED <<dev, link, key, d, bell, occ, n>>

\* a doorbell is remembered as stale when the status already shows the
\* state that cmd_and_wait is about to wait for
OpWrite ==
  /\ At("write")
  /\ IF Op.reg = "cmd"
     THEN /\ IF link = "model" \/ d.busy
             THEN d' = Doorbell(d, Op.val) /\ bell' = bell
             ELSE bell' = Op.val /\ d' = d
          /\ h' = [Done(h) EXCEPT !.stale =
                     /\ link = "wire" /\ h.q.cmd \in {"stop", "abort"}
                     /\ Matches(d, h.ops[2])]
     ELSE /\ d' = [d EXCEPT !.g[Op.reg] = Op.val]
          /\ h' = Done(h) /\ bell' = bell
  /\ UNCHANGED <<dev, link, key, occ, n>>

OpRead == At("read") /\ h' = Done(h) /\ HostOnly

OpCheck ==
  /\ \/ At("check") /\ h' = IF StatusIs(d, Op.st, Op.done) THEN Done(h)
                            ELSE Stopped(h, "failed")
     \/ At("check_err") /\ h' = IF d.err = None THEN Done(h)
                                ELSE Stopped(h, "failed")
  /\ HostOnly

PollMatches == \/ At("poll") /\ Matches(d, Op)
               \/ At("poll_occ") /\ d.occDone = Op.val
PollWaits   == (At("poll") \/ At("poll_occ")) /\ ~PollMatches

OpPoll == PollMatches /\ h' = Done(h) /\ HostOnly

\* a retry of the in-process device ticks it
OpRetry ==
  /\ PollWaits /\ link = "model" /\ Tick(d, key) # d
  /\ d' = Tick(d, key)
  /\ UNCHANGED <<dev, link, key, bell, occ, h, n>>

\* poll_limit is far beyond any progress the device makes: a poll gives up
\* only on a device that has come to rest
Quiet == bell = None /\ Tick(d, key) = d
\* mutant: no limit while the device is busy
Bug_OpTimeout ==
  /\ PollWaits /\ Quiet /\ ~d.busy
  /\ h' = Stopped(h, "failed")
  /\ HostOnly
OpTimeout ==
  /\ PollWaits /\ Quiet
  /\ h' = Stopped(h, "failed")
  /\ HostOnly

\* one word of a stream; a daemon that is not in LOAD raises
NextWord(hh) == IF Op.from = Op.to THEN Done(hh)
                ELSE [hh EXCEPT !.ops = <<[Op EXCEPT !.from = @ + 1]>> \o Tail(@)]
OpStream ==
  /\ At("stream")
  /\ IF CanPush(d)
     THEN d' = Push(d, Word(Op.img, Op.from)) /\ h' = NextWord(h)
     ELSE d' = d /\ h' = Stopped(h, "failed")
  /\ UNCHANGED <<dev, link, key, bell, occ, n>>

\* the end of the list: _cli_efp looks at the status and the sticky error
OpEnd ==
  /\ h.res = "busy" /\ h.ops = <<>>
  /\ h' = [h EXCEPT !.res = IF dev = "bmc" /\ (d.err # None \/ d.state = "ERROR")
                            THEN "failed" ELSE "ok"]
  /\ HostOnly

-----------------------------------------------------------------------------
(* The host-driven flow                                                      *)

OccOnly == UNCHANGED <<dev, link, key, d, bell, n>>

OpOcc ==
  /\ At("occ")
  /\ occ' = IF Op.cmd = "BLANK" THEN IssueBlank(occ, Op.win, Op.wc)
            ELSE IssueWrite(occ, Op.win, Op.wc)
  /\ h' = Done(h) /\ OccOnly

\* OCC_WDATA: the stub stores at once and raises when no WRITE consumes, the
\* bus has one word of skid and stalls the host while it is full
OpPush ==
  /\ At("push")
  /\ IF link = "wire"
     THEN /\ occ.skid = <<>>
          /\ occ' = [occ EXCEPT !.skid = <<Word(Op.img, Op.from)>>]
          /\ h' = NextWord(h)
     ELSE IF occ.state = "WRITE"
     THEN occ' = Store(occ, Word(Op.img, Op.from)) /\ h' = NextWord(h)
     ELSE occ' = occ /\ h' = Stopped(h, "failed")
  /\ OccOnly

OccDrain ==
  /\ occ.state = "WRITE" /\ occ.skid # <<>>
  /\ occ' = Store([occ EXCEPT !.skid = <<>>], Head(occ.skid))
  /\ h' = h /\ OccOnly

\* _occ_wait: LOCKED raises, NEEDS_BLANK of the first WRITE blanks and retries
OpOccWait ==
  /\ At("occ_wait") /\ occ.flag
  /\ h' = IF occ.code = "LOCKED" THEN Stopped(h, "failed")
          ELSE IF occ.code = "NEEDS_BLANK" /\ Op.retry
          THEN [h EXCEPT !.ops = BlankOps(h.q.win, Words(h.q.file))
                                   \o WriteFrames(h.q.file, h.q.win, FALSE) \o Tail(@)]
          ELSE Done(h)
  /\ occ' = occ /\ OccOnly

\* MON_NOTIFY, of a deploy that ended with DONE
OpNotify ==
  /\ At("notify")
  /\ occ' = IF occ.code = "DONE" THEN [occ EXCEPT !.notified = @ \cup {Op.region}] ELSE occ
  /\ h' = Done(h) /\ OccOnly

-----------------------------------------------------------------------------
(* The daemon on its own clock                                               *)

DaemonAccept ==
  /\ bell # None /\ ~d.busy
  /\ d' = Accept(d, bell) /\ bell' = None
  /\ UNCHANGED <<dev, link, key, occ, h, n>>

DaemonTick ==
  /\ link = "wire" /\ Tick(d, key) # d
  /\ d' = Tick(d, key)
  /\ UNCHANGED <<dev, link, key, bell, occ, h, n>>

NoRequest == [cmd |-> "ps", file |-> None, region |-> 0, win |-> 0, allow |-> FALSE,
              transport |-> "auto", colWords |-> 1, blankFirst |-> TRUE]

Init ==
  /\ dev \in {"bmc", "mfsm"} /\ link \in {"model", "wire"} /\ key \in {None, "k1"}
  /\ d = DaemonInit /\ bell = None
  /\ \E locks \in SUBSET Regions :
       /\ locks # {} => link = "wire" /\ dev = "mfsm" /\ locks # Regions
       /\ occ = OccInit(locks)
  /\ h = [q |-> NoRequest, ops |-> <<>>, res |-> "none", stale |-> FALSE,
          surplus |-> FALSE, raw |-> FALSE]
  /\ n = 0

HostStep == OpWrite \/ OpRead \/ OpCheck \/ OpPoll \/ OpRetry \/ OpTimeout
              \/ OpStream \/ OpEnd \/ OpOcc \/ OpPush \/ OpOccWait \/ OpNotify
DeviceStep == DaemonAccept \/ DaemonTick \/ OccDrain

Next == (\E q \in Requests : Command(q)) \/ HostStep \/ DeviceStep

\* the host process runs, and so does the device it talks to
Spec == Init /\ [][Next]_vars /\ WF_vars(HostStep) /\ WF_vars(DeviceStep)
-----------------------------------------------------------------------------
(* Properties                                                                *)

\* Types, and: the skid in front of the OCC holds at most one word, and the
\* column counter of a packed deploy never runs past the fabric
\* (EfpDaemonModel, _OccStub).
TypeOK ==
  /\ d.state \in States /\ d.err \in Errs /\ d.cmd \in Codes \cup {None}
  /\ {d.busy, d.done, d.squelch, d.occDone, d.staged} \subseteq BOOLEAN
  /\ d.run \in Regions /\ d.col \in 0..NumRegions
  /\ d.regions \in [Regions -> {"FREE", "RUNNING"}]
  /\ bell \in Codes \cup {None} /\ n \in 0..MaxSessions
  /\ occ.state \in {"IDLE", "WRITE"} /\ Len(occ.skid) <= 1
  /\ occ.code \in {"DONE", "LOCKED", "NEEDS_BLANK"}
  /\ h.res \in {"none", "busy", "ok", "refused", "failed"}

\* A run or run_packed that the tool reports as done left exactly the words of
\* its own image, in order, in one region of the kind asked for, and that image
\* is the one whose signature the daemon verified (EfpSession.run, run_packed
\* and the checks _cli_efp makes after them).  A deploy the host drives itself
\* left them in the frame window, whatever was deployed before and whatever
\* failed, unless a word of an earlier command was still waiting in front of
\* the OCC when it began: Daemon.deploy does not look, and such a word becomes
\* the first of the frame.  NotWedged says which commands leave one.
RunTruth ==
  h.res = "ok" /\ h.q.cmd \in {"run", "run_packed"} =>
    /\ dev = "bmc" =>
         \E r \in Regions :
           /\ d.regions[r] = "RUNNING" /\ d.content[r] = Image(h.q.file)
           /\ h.q.region \in {r, EFP_REGION_AUTO}
           /\ d.verified = h.q.file
           /\ key # None => VerifySig(key, Eths[h.q.file].digest, Eths[h.q.file].sig)
    /\ dev = "mfsm" /\ ~h.surplus =>
         \A i \in 1..Words(h.q.file) : occ.cfg[h.q.win][i] = Word(h.q.file, i)

\* A stop or abort reported as done freed what it was asked to free, except in
\* the one case cmd_and_wait cannot tell: the status showed the awaited state
\* before the daemon had picked the doorbell up.
StopTruth ==
  h.res = "ok" /\ dev = "bmc" /\ ~h.stale =>
    /\ h.q.cmd = "stop" => d.regions[h.q.region] = "FREE"
    /\ h.q.cmd = "abort" => \A r \in Regions : d.regions[r] = "FREE"

\* The daemon waits for words that nobody streams.
Wedged == d.busy /\ bell = None /\ Tick(d, key) = d

\* Between commands the daemon is not left waiting for a stream, which would
\* make every later command fail, unless the last restart streamed fewer words
\* than the image it restarts or, over a bus, a packed deploy of several
\* columns missed the short window in which the done flag shows.  An OCC is not
\* left with a word in front of it, which the next deploy would load as its
\* own, unless some deploy skipped the blank on a dirty or locked window.
NotWedged ==
  /\ TypeOK
  /\ h.res # "busy" /\ Wedged =>
       \/ d.cmd = "run" /\ d.staged /\ Len(d.load) < d.lastWords
       \/ link = "wire" /\ d.cmd = "run_packed" /\ d.col > 0
  /\ h.res # "busy" /\ occ.skid # <<>> => h.raw

\* The host waits on OCC_WDATA with no WRITE in progress to drain the skid.
Stalled == At("push") /\ link = "wire" /\ occ.skid # <<>> /\ occ.state = "IDLE"

\* Every command comes to an end.  The one exception is the push of a deploy
\* whose caller skipped the blank: over a bus it stalls for good behind a WRITE
\* the OCC refused.
SessionEnds == h.res = "busy" ~> (h.res # "busy" \/ (Stalled /\ ~h.q.blankFirst))
=============================================================================
