------------------------------ MODULE EmriLog -------------------------------
(***************************************************************************)
(* The event-log ring and the anomaly monitor of the EMRI register file,   *)
(* behind the AXI adapter that serialises the bus masters.  One step is    *)
(* one clock edge: every register takes its next value from the state      *)
(* before the edge, as the always_ff blocks do.                            *)
(*                                                                         *)
(* Two producers share the ring's one push port: a bus write (the daemon)  *)
(* and the monitor, which owes one entry per region it has flagged and     *)
(* waits for a clock in which the bus neither pushes nor clears.           *)
(***************************************************************************)
EXTENDS Integers, Sequences, FiniteSets

CONSTANTS
  Depth,        \* EVT_LOG_DEPTH
  PtrMod,       \* 2^16, the modulus of the ring pointers
  NumRegions,   \* MON_REGIONS
  TickDiv,      \* EMRI_MON_TICK_DIV: clocks per monitor tick
  TickMod,      \* 2^16, the modulus of the tick counter
  MaxCount,     \* 0xFFFF, where a counter saturates
  Requests      \* the accesses the bus masters make

Regions == 0 .. NumRegions - 1
Kinds   == {"recfg", "wdt"}
Flag    == Kinds \X Regions

\* What MON_ANOM_WINDOW and MON_ANOM_THRESH are set to by some request.
Windows == {q.window : q \in {x \in Requests : x.op = "window"}}
Threshs == {q.thresh : q \in {x \in Requests : x.op = "thresh"}}

\* Entries of the ring: the daemon's words, and the monitor's code 5.
Anomaly(rg, t) == <<"anomaly_throttle", rg, t>>
BusEntries     == {q.entry : q \in {x \in Requests : x.op = "push"}}
Entries        == BusEntries \cup {Anomaly(rg, t) : rg \in Regions, t \in 0 .. TickMod - 1}
Unwritten      == <<"unwritten", 0, 0>>     \* the storage has no reset

ASSUME DepthAssumption  == Depth \in Nat \ {0}
ASSUME PtrAssumption    == PtrMod \in Nat /\ PtrMod > Depth /\ PtrMod % Depth = 0
ASSUME RegionAssumption == NumRegions \in Nat \ {0}
ASSUME TickAssumption   == TickDiv \in Nat \ {0} /\ TickMod \in Nat \ {0}
ASSUME CountAssumption  == MaxCount \in Nat \ {0}

VARIABLES
  state, req,                     \* the adapter: state_r, the request it latched
  evt_q, wr_ptr, rd_ptr,          \* the ring
  window, thresh,                 \* MON_ANOM_WINDOW, MON_ANOM_THRESH
  div, tick_cnt, win_cnt,         \* divider, tick counter, ticks of this window
  cnt, snap,                      \* counters and their window baselines
  flags, throttle,                \* MON_ANOM_STATUS
  owed, stamp                     \* the monitor's pending entries

bus  == <<state, req>>
ring == <<evt_q, wr_ptr, rd_ptr>>
time == <<div, tick_cnt, win_cnt>>
mon  == <<cnt, snap, flags, throttle, owed, stamp>>
vars == <<state, req, evt_q, wr_ptr, rd_ptr, window, thresh, div, tick_cnt,
          win_cnt, cnt, snap, flags, throttle, owed, stamp>>

-----------------------------------------------------------------------------
(* The AXI adapter: one transaction at a time.                             *)

Reads == {"pop"}
NoRequest == [op |-> "other"]

\* host_req_i with this access, in this clock; all of them are accepted at once.
Host(op) == state \in {"wr_host", "rd_host"} /\ req.op = op

\* A captured request.  One outside the window or with a partial strobe (SLVERR)
\* skips the host port, like an access to a register not modelled here.
Take == /\ state = "idle"
        /\ \/ UNCHANGED bus
           \/ \E q \in Requests :
                /\ req' = q
                /\ state' = IF q.op \in Reads THEN "rd_host" ELSE "wr_host"

\* The latched request means nothing after its host phase.  A write to the OCC
\* or the decoder may be held off; the accesses modelled here never are.
Access == /\ state \in {"wr_host", "rd_host"}
          /\ \/ /\ state' = IF state = "rd_host" THEN "rd_r" ELSE "wr_b"
                /\ req' = NoRequest
             \/ req.op = "other" /\ UNCHANGED bus

\* The master takes the response when it likes.
Respond == /\ state \in {"wr_b", "rd_r"}
           /\ UNCHANGED req
           /\ state' \in {state, "idle"}

Adapter == Take \/ Access \/ Respond

-----------------------------------------------------------------------------
(* The ring.                                                               *)

Count == (wr_ptr - rd_ptr) % PtrMod
Inc(p) == (p + 1) % PtrMod

\* The entries that can still be popped, the oldest first.
Log == [i \in 1 .. Count |-> evt_q[(rd_ptr + i - 1) % Depth]]

\* The lowest owed region is pushed first.
Selected == CHOOSE rg \in owed : \A other \in owed : rg <= other

\* mutant: the monitor does not wait for the bus
EvtPushHwBlind == owed # {}

EvtPushHw == owed # {} /\ ~Host("push") /\ ~Host("clear")
EvtPush   == Host("push") \/ EvtPushHw
EvtData   == IF Host("push") THEN req.entry ELSE Anomaly(Selected, stamp[Selected])
EvtPop    == Host("pop") /\ Count # 0

\* mutant: a full ring keeps its read pointer
RingNoDrop ==
  IF Host("clear") THEN wr_ptr' = 0 /\ rd_ptr' = 0 /\ UNCHANGED evt_q
  ELSE IF EvtPush THEN /\ evt_q' = [evt_q EXCEPT ![wr_ptr % Depth] = EvtData]
                       /\ wr_ptr' = Inc(wr_ptr) /\ UNCHANGED rd_ptr
  ELSE /\ rd_ptr' = (IF EvtPop THEN Inc(rd_ptr) ELSE rd_ptr)
       /\ UNCHANGED <<evt_q, wr_ptr>>

Ring ==
  \/ /\ Host("clear")
     /\ wr_ptr' = 0 /\ rd_ptr' = 0
     /\ UNCHANGED evt_q
  \/ /\ ~Host("clear") /\ EvtPush
     /\ evt_q' = [evt_q EXCEPT ![wr_ptr % Depth] = EvtData]
     /\ wr_ptr' = Inc(wr_ptr)
     /\ rd_ptr' = IF Count = Depth THEN Inc(rd_ptr) ELSE rd_ptr
  \/ /\ ~Host("clear") /\ ~EvtPush
     /\ rd_ptr' = IF EvtPop THEN Inc(rd_ptr) ELSE rd_ptr
     /\ UNCHANGED <<evt_q, wr_ptr>>

-----------------------------------------------------------------------------
(* The monitor.                                                            *)

Tick   == div = TickDiv - 1
Expire == Tick /\ window # 0 /\ win_cnt + 1 >= window

Config == /\ window' = IF Host("window") THEN req.window ELSE window
          /\ thresh' = IF Host("thresh") THEN req.thresh ELSE thresh

\* mutant: a window write restarts the window
TimeRestart ==
  /\ div' = (div + 1) % TickDiv
  /\ tick_cnt' = IF Tick THEN (tick_cnt + 1) % TickMod ELSE tick_cnt
  /\ win_cnt' = IF Host("window") THEN 0 ELSE IF ~Tick THEN win_cnt
                ELSE IF window = 0 \/ Expire THEN 0 ELSE win_cnt + 1

Time ==
  /\ div' = (div + 1) % TickDiv
  /\ tick_cnt' = IF Tick THEN (tick_cnt + 1) % TickMod ELSE tick_cnt
  /\ win_cnt' = IF ~Tick THEN win_cnt
                ELSE IF window = 0 \/ Expire THEN 0 ELSE win_cnt + 1

Notified == IF Host("notify") THEN req.bits ELSE {}

\* mutant: the counters wrap
CountersWrap ==
  /\ cnt' = [x \in Flag |-> IF x \in Notified THEN (cnt[x] + 1) % (MaxCount + 1)
                                              ELSE cnt[x]]
  /\ snap' = IF Expire \/ window = 0 THEN cnt ELSE snap

\* While the monitor is disabled the baseline follows the counter.
Counters ==
  /\ cnt' = [x \in Flag |-> IF x \in Notified /\ cnt[x] # MaxCount
                            THEN cnt[x] + 1 ELSE cnt[x]]
  /\ snap' = IF Expire \/ window = 0 THEN cnt ELSE snap

Spikes == {x \in Flag : Expire /\ cnt[x] - snap[x] > thresh[x[1]]}

\* MON_ANOM_STATUS: a write clears its 1-bits, a spike in that clock wins.
Status ==
  LET w1c == Host("w1c") IN
  /\ flags' = (flags \ (IF w1c THEN req.flags ELSE {})) \cup Spikes
  /\ throttle' = (throttle \ (IF w1c THEN req.throttle ELSE {}))
                 \cup {x[2] : x \in Spikes}

EvtSet == {x[2] : x \in Spikes \ flags}

\* A new entry is owed by the region whose flag rises; it supersedes the push.
Owed ==
  /\ owed' = (owed \ (IF EvtPushHw THEN {Selected} ELSE {})) \cup EvtSet
  /\ stamp' = [rg \in Regions |-> IF rg \in EvtSet THEN tick_cnt ELSE stamp[rg]]

Monitor == Config /\ Time /\ Counters /\ Status /\ Owed

-----------------------------------------------------------------------------
Init ==
  /\ state = "idle" /\ req = NoRequest
  /\ evt_q = [i \in 0 .. Depth - 1 |-> Unwritten] /\ wr_ptr = 0 /\ rd_ptr = 0
  /\ window \in Windows \ {0} /\ thresh \in Threshs
  /\ div = 0 /\ tick_cnt = 0 /\ win_cnt = 0
  /\ cnt = [x \in Flag |-> 0] /\ snap = [x \in Flag |-> 0]
  /\ flags = {} /\ throttle = {}
  /\ owed = {} /\ stamp = [rg \in Regions |-> 0]

Next == Adapter /\ Ring /\ Monitor

Spec == Init /\ [][Next]_vars

\* The clock runs; the masters owe nothing.
FairSpec == Spec /\ WF_vars(Next)

-----------------------------------------------------------------------------
(* Properties.                                                             *)

\* The registers keep their ranges; the ring never counts more than its depth,
\* across the wrap of its pointers too.
TypeOK ==
  /\ state \in {"idle", "wr_host", "rd_host", "wr_b", "rd_r"}
  /\ evt_q \in [0 .. Depth - 1 -> Entries \cup {Unwritten}]
  /\ wr_ptr \in 0 .. PtrMod - 1 /\ rd_ptr \in 0 .. PtrMod - 1
  /\ Count \in 0 .. Depth
  /\ window \in Windows /\ thresh \in Threshs
  /\ div \in 0 .. TickDiv - 1 /\ tick_cnt \in 0 .. TickMod - 1 /\ win_cnt \in Nat
  /\ cnt \in [Flag -> 0 .. MaxCount] /\ snap \in [Flag -> 0 .. MaxCount]
  /\ flags \subseteq Flag /\ throttle \subseteq Regions
  /\ owed \subseteq Regions /\ stamp \in [Regions -> 0 .. TickMod - 1]

\* The delta of a window is never negative, so its unsigned difference in the
\* register file never wraps into a false spike; nor does any other register
\* leave its width.
DeltaNeverWraps == TypeOK /\ \A x \in Flag : snap[x] <= cnt[x]

Fifo == INSTANCE EvtFifo WITH log <- Log

\* The ring is a bounded first-in first-out log: across pointer wrap, overflow,
\* clears and two producers, an entry leaves it only as the oldest, and what is
\* read is what was pushed.
RingIsFifo == Fifo!Spec

\* No throttle goes unreported.  A region that is throttled anew owes an entry
\* (if the host released it together with its flags), and what is owed
\* disappears, or changes its stamp, only in a clock in which it enters the
\* log, however busy the bus is.
ThrottleLogged ==
  [][/\ \A rg \in Regions : rg \in throttle' /\ rg \notin throttle => rg \in owed'
     /\ \A rg \in owed : (rg \notin owed' \/ stamp'[rg] # stamp[rg]) =>
          Log' # <<>> /\ Log'[Len(Log')] = Anomaly(rg, stamp[rg])]_vars

\* More notifications than the threshold since the last baseline end in a
\* throttle, unless the host switches the monitor off or moves the threshold,
\* and however often it rewrites the window; and what the monitor then owes
\* reaches the log, whatever the bus masters do.
SpikeThrottles ==
  \A rg \in Regions :
    /\ \A th \in Threshs :
         (/\ window # 0 /\ thresh = th
          /\ \E kd \in Kinds : cnt[<<kd, rg>>] - snap[<<kd, rg>>] > th[kd])
         ~> (rg \in throttle \/ window = 0 \/ thresh # th)
    /\ rg \in owed ~> rg \notin owed

=============================================================================
