------------------------------- MODULE Daemon -------------------------------
(***************************************************************************)
(* The BMC lifecycle daemon (bmc-fw/daemon/daemon.c): one command at a     *)
(* time from the EFP doorbell, driven through the OCC to a region state.   *)
(*                                                                         *)
(* The daemon is one sequential process.  A step of it runs from one point *)
(* where another bus master, the streaming host or the OCC can interfere   *)
(* to the next; pc names that point and ret the caller of a shared BLANK.  *)
(* BLANK and READBACK stream by themselves and are one step (OccTop shows  *)
(* that they complete, that their CRC describes the store and when they    *)
(* are refused); a WRITE is host-paced and moves one word at a time        *)
(* through the one-word wdata skid.  A packed flow writes OCC_DECODE before *)
(* each stream: the frame decoder then takes the words of the next streams, *)
(* whosever they are, until it has a column's worth, and the daemon's next  *)
(* OCC_DECODE write holds the bus until it has.                            *)
(*                                                                         *)
(* Faults selects what the surroundings do: "starve" (the streaming host   *)
(* falls silent), "late" (it resumes during the watchdog drain), "upset" (a*)
(* stored word flips), "lkm" and "global" (another master locks regions, or*)
(* everything, through LKM_CMD), "eager" (a host rings the doorbell while  *)
(* busy), "spi" (the transport CRC mismatch of an EFP-SPI session), "ctx"  *)
(* (the context engine fails), "anomaly" (the monitor throttles a region   *)
(* that notified).                                                         *)
(***************************************************************************)
EXTENDS Integers, Sequences, FiniteSets

CONSTANTS
  NumRegions,   \* DAEMON_NUM_REGIONS
  FabCols,      \* DAEMON_FAB_COLS
  MaxWords,     \* words of a frame window
  ColWords,     \* column_data_words of each column
  Doorbells,    \* the commands the host rings, with the metadata it stages
  MaxUpsets,    \* bound on upset words standing in the store at once
  Faults

Regions == 0 .. NumRegions - 1
Cols    == 0 .. FabCols - 1
Windows == Regions \X Cols
AutoRegion == 255                        \* EFP_REGION_AUTO
Slots   == 1 .. MaxWords

Blank   == 0
Upset   == MaxWords + 1               \* a flipped word: no image has it
Word    == 0 .. MaxWords + 1          \* i stands for word i of an image
Frame   == [Slots -> Word]

Images  == [words : 0 .. MaxWords, cols : 0 .. FabCols + 1,
            sig : BOOLEAN, cap : BOOLEAN]
Commands == {"run", "run_packed", "stop", "restart", "abort",
             "ctx_save", "ctx_restore", "other"}
Errors  == {"none", "bad_sig", "region_full", "region_locked", "occ_crc",
            "occ_reject", "bad_cmd", "img_len_mismatch", "crc_transport",
            "watchdog_timeout", "capability_denied", "rate_limited",
            "ctx_error"}

ASSUME RegionAssumption == NumRegions \in 1 .. 8    \* the throttle mask has 8 bits
ASSUME ColAssumption    == FabCols \in Nat /\ FabCols >= NumRegions
ASSUME WordAssumption   == MaxWords \in Nat \ {0}
ASSUME ColWordsAssumption == ColWords \in [Cols -> Nat \ {0}]
ASSUME UpsetAssumption  == MaxUpsets \in Nat
ASSUME DoorbellAssumption ==
  Doorbells \subseteq [cmd : Commands, sel : 0 .. AutoRegion, img : Images]

VARIABLES
  \* locals of the running handler
  pc, ret,
  sel,          \* region_sel
  r,            \* the region in hand
  c,            \* the column in hand
  cend,         \* the last column of the loop
  n,            \* words
  k,            \* cols; 0 = the legacy, column-less flow
  z,            \* pushes the watchdog drain may still make
  err,          \* result of the BLANK helper
  \* g_regions, g_last_*, g_staged
  rstate, rwords, rcols, col_crc,
  last,
  \* EFP registers: doorbell with its staged image, status, error
  doorbell, image, efp_state, efp_busy, efp_done, efp_err,
  \* the hardware the daemon drives
  locks, global_lock,
  store, dirty,
  crc, crc_error,
  wr,           \* the armed WRITE: window, next slot, words armed
  skid,         \* the regfile's wdata skid
  dec,          \* the frame decoder: the column it is armed for
  fabric,       \* region whose stream was last decoded into a column
  frozen,       \* ctx_engine_wrap.armed_r
  throttled,    \* MON_ANOM_STATUS throttle bits
  \* the host's stream, and what this command reported
  hpos, events

args  == <<sel, r, c, cend, n, k>>
local == <<pc, ret, args, z, err>>
table == <<rstate, rwords, rcols, col_crc, last>>
efp   == <<doorbell, image, efp_state, efp_busy, efp_done, efp_err>>
lkm   == <<locks, global_lock>>
occ   == <<store, dirty, crc, crc_error, wr, skid, dec, fabric>>
hw    == <<lkm, occ, frozen, throttled>>
obs   == <<hpos, events>>
vars  == <<pc, ret, sel, r, c, cend, n, k, z, err, rstate, rwords, rcols,
           col_crc, last, doorbell, image, efp_state, efp_busy, efp_done, efp_err,
           locks, global_lock, store, dirty, crc, crc_error, wr, skid, dec,
           fabric, frozen, throttled, hpos, events>>

NoDoorbell == [cmd |-> "nop"]
NoWrite    == [on |-> FALSE]
NoLast     == [staged |-> FALSE, region |-> 0, words |-> 0, packed |-> FALSE]
NoRegion   == NumRegions
Mixed      == NumRegions + 1         \* a column decoded from several streams
NoDecode   == [on |-> FALSE]

-----------------------------------------------------------------------------
(* Frames and windows.                                                     *)

\* region_frame_base, column_frame_base: the legacy flow uses column field 0.
FirstCol(rg, cols) == IF cols = 0 THEN 0 ELSE rg

LastCol(rg, cols)  == IF cols = 0 THEN 0 ELSE rg + cols - 1
ColsOf(rg, cols)   == FirstCol(rg, cols) .. LastCol(rg, cols)

Open(rg) == ~global_lock /\ rg \notin locks

\* The words a READBACK of the first m words of a window streams.
Stream(w, m) == [i \in 1 .. m |-> store[w][i]]

\* occ_check: the sticky crc_error outranks the completion code.
OccCheck(code) == IF crc_error THEN "occ_crc" ELSE code

\* fail(): sticky EFP_ERR, state ERROR; the dispatcher clears busy.
Fail(e) == /\ efp_err' = e
           /\ efp_state' = "ERROR"
           /\ pc' = "squelch"
           /\ UNCHANGED <<doorbell, image, efp_busy, efp_done>>

SetState(s) == efp_state' = s /\ UNCHANGED <<doorbell, image, efp_busy,
                                             efp_done, efp_err>>

\* region_release and the FREE assignments of stop, restart, abort, heartbeat.
Release(rg) == /\ rstate' = [rstate EXCEPT ![rg] = "FREE"]
               /\ rwords' = [rwords EXCEPT ![rg] = 0]
               /\ rcols'  = [rcols EXCEPT ![rg] = 0]
               /\ UNCHANGED <<col_crc, last>>

\* A MON_NOTIFY write; the monitor may find a spike in the window it closes.
Notify == throttled' \in IF "anomaly" \in Faults
                         THEN {throttled, throttled \cup {r}} ELSE {throttled}

\* The decoder armed for a column; it has got words of the streams in by.
Decode(cc) == [on |-> TRUE, col |-> cc, got |-> 0, by |-> {}]
Armed == IF k = 0 THEN dec ELSE Decode(c)

\* The daemon's OCC_DECODE write is accepted while the decoder is idle.
DecoderReady == k # 0 => ~dec.on

\* A stream of m words passes the decoder d: NoRegion's are zeros.
Capture(d, m, rg) ==
  LET by == d.by \cup {rg} IN
  IF ~d.on THEN dec' = d /\ UNCHANGED fabric
  ELSE IF d.got + m < ColWords[d.col]
  THEN dec' = [d EXCEPT !.got = @ + m, !.by = by] /\ UNCHANGED fabric
  ELSE /\ dec' = NoDecode
       /\ fabric' = [fabric EXCEPT ![d.col] = IF by = {rg} THEN rg ELSE Mixed]

\* Enter occ_blank_region / occ_blank_packed for region rg.
CallBlank(caller, rg, words, cols) ==
  /\ pc' = "blank" /\ ret' = caller
  /\ r' = rg /\ n' = words /\ k' = cols
  /\ c' = FirstCol(rg, cols) /\ cend' = LastCol(rg, cols)

-----------------------------------------------------------------------------
(* The doorbell loop (daemon_spin) and the command table.                  *)

Entry(cmd) == CASE cmd \in {"run", "run_packed"} -> "verify"
                [] cmd = "other"                 -> "reject"
                [] OTHER                         -> cmd

Accept ==
  /\ pc = "idle" /\ doorbell # NoDoorbell
  /\ doorbell' = NoDoorbell
  /\ efp_err' = "none" /\ efp_done' = FALSE /\ efp_busy' = TRUE
  /\ events' = {}
  /\ pc' = Entry(doorbell.cmd)
  /\ efp_state' = IF Entry(doorbell.cmd) = "verify" THEN "VERIFY" ELSE efp_state
  /\ sel' = doorbell.sel
  /\ k' = IF doorbell.cmd = "run_packed" THEN 1 ELSE 0
  /\ r' = 0
  /\ UNCHANGED <<ret, c, cend, n, z, err, table, image, hw, hpos>>

Reject == /\ pc = "reject" /\ Fail("bad_cmd")
          /\ UNCHANGED <<ret, args, z, err, table, hw, obs>>

\* A doorbell rung while busy is dropped and flagged.
Squelch ==
  /\ pc = "squelch"
  /\ pc' = "release"
  /\ doorbell' = NoDoorbell
  /\ efp_err' = IF doorbell # NoDoorbell /\ efp_err = "none"
                THEN "bad_cmd" ELSE efp_err
  /\ UNCHANGED <<ret, args, z, err, table, image, efp_state, efp_busy,
                 efp_done, hw, obs>>

\* The handler's locals are gone once it has returned.
Return == /\ pc' = "idle" /\ sel' = 0 /\ r' = 0 /\ c' = 0 /\ cend' = 0
          /\ n' = 0 /\ k' = 0

ClearBusy ==
  /\ pc = "release"
  /\ Return /\ efp_busy' = FALSE
  /\ UNCHANGED <<ret, z, err, table, doorbell, image, efp_state, efp_done,
                 efp_err, hw, obs>>

-----------------------------------------------------------------------------
(* run and run_packed: VERIFY, ALLOC and the policy gates.  While k only   *)
(* tells the two apart it is 0 or 1; Alloc fetches EFP_IMG_COLS.           *)

VerifyError ==
  IF image.words = 0 \/ (k # 0 /\ image.cols = 0) THEN "img_len_mismatch"
  ELSE IF ~image.sig                              THEN "bad_sig"
  ELSE IF sel # AutoRegion /\ sel \in throttled         THEN "rate_limited"
  ELSE "none"

Verify ==
  /\ pc = "verify"
  /\ IF VerifyError = "none" THEN pc' = "alloc" /\ SetState("ALLOC")
                             ELSE Fail(VerifyError)
  /\ UNCHANGED <<ret, args, z, err, table, hw, obs>>

FreeRegions == {i \in Regions : rstate[i] = "FREE"}

\* alloc_region
Allocated ==
  IF sel = AutoRegion
  THEN IF FreeRegions = {} THEN NoRegion
       ELSE CHOOSE i \in FreeRegions : \A j \in FreeRegions : i <= j
  ELSE IF sel \in FreeRegions THEN sel ELSE NoRegion

AllocError ==
  IF Allocated = NoRegion                              THEN "region_full"
  ELSE IF k # 0 /\ Allocated + image.cols > FabCols    THEN "img_len_mismatch"
  ELSE IF sel = AutoRegion /\ Allocated \in throttled        THEN "rate_limited"
  ELSE IF ~image.cap                                   THEN "capability_denied"
  ELSE "none"

Alloc ==
  /\ pc = "alloc"
  /\ IF AllocError = "none"
     THEN /\ CallBlank("run", Allocated, image.words,
                       IF k = 0 THEN 0 ELSE image.cols)
          /\ SetState("BLANK")
          /\ UNCHANGED <<table, events>>
     ELSE /\ Fail(AllocError)
          /\ IF AllocError \in {"rate_limited", "capability_denied"}
             THEN Release(Allocated) ELSE UNCHANGED table
          /\ events' = IF AllocError = "capability_denied"
                       THEN events \cup {"policy_denied"} ELSE events
          /\ UNCHANGED <<ret, r, c, cend, n, k>>
  /\ UNCHANGED <<sel, z, err, hw, hpos>>

-----------------------------------------------------------------------------
(* occ_blank_region, occ_blank_column, occ_blank_packed: one column a step.*)

\* The state is published before the OCC_DECODE write that may wait.
BlankWaits ==
  /\ pc = "blank" /\ ~DecoderReady
  /\ efp_state # "BLANK" /\ SetState("BLANK")
  /\ UNCHANGED <<ret, args, z, err, pc, table, hw, obs>>

\* A refused BLANK leaves the decoder armed.
BlankColumn ==
  /\ pc = "blank" /\ DecoderReady
  /\ SetState("BLANK")
  /\ IF Open(r)
     THEN LET w == <<r, c>> IN
          /\ store' = [store EXCEPT ![w] =
                         [i \in Slots |-> IF i <= n THEN Blank ELSE store[w][i]]]
          /\ dirty' = dirty \ {w}
          /\ crc' = [i \in 1 .. n |-> Blank] /\ crc_error' = FALSE
          /\ Capture(Armed, n, NoRegion)
          /\ IF c = cend THEN pc' = "blanked" /\ c' = c
                                  ELSE pc' = pc /\ c' = c + 1
          /\ err' = "none"
          /\ UNCHANGED <<wr, skid>>
     ELSE /\ err' = OccCheck("region_locked") /\ dec' = Armed
          /\ pc' = "blanked"
          /\ UNCHANGED <<c, store, dirty, crc, crc_error, wr, skid, fabric>>
  /\ UNCHANGED <<ret, sel, r, cend, n, k, z, table, lkm, frozen, throttled,
                 hpos, events>>

Blanked(caller) == pc = "blanked" /\ ret = caller

-----------------------------------------------------------------------------
(* run: LOAD, the watchdog, the transport gate, READBACK, RUNNING.         *)

RunBlanked ==
  /\ Blanked("run")
  /\ IF err = "none"
     THEN /\ pc' = "arm" /\ c' = FirstCol(r, k)
          /\ UNCHANGED efp
     ELSE Fail(err) /\ UNCHANGED c
  /\ UNCHANGED <<ret, sel, r, cend, n, k, z, err, table, hw, obs>>

\* The WRITE is armed before LOAD becomes visible to the host; the decoder
\* before the WRITE is accepted or refused.
Arm ==
  /\ pc = "arm" /\ DecoderReady
  /\ dec' = Armed
  /\ IF Open(r) /\ <<r, c>> \notin dirty
     THEN /\ wr' = [on |-> TRUE, win |-> <<r, c>>, idx |-> 0, cnt |-> n]
          /\ crc' = <<>> /\ crc_error' = FALSE
          /\ hpos' = 0
          /\ pc' = "load" /\ SetState("LOAD")
          /\ UNCHANGED <<store, dirty, skid, fabric>>
     ELSE /\ Fail(OccCheck(IF Open(r) THEN "occ_reject" ELSE "region_locked"))
          /\ UNCHANGED <<store, dirty, crc, crc_error, wr, skid, fabric, hpos>>
  /\ UNCHANGED <<ret, args, z, err, table, lkm, frozen, throttled, events>>

LoadDone ==
  /\ pc = "load" /\ ~wr.on
  /\ col_crc' = [col_crc EXCEPT ![<<r, c>>] = crc]
  /\ IF c = cend THEN pc' = "gate" /\ UNCHANGED c
                          ELSE pc' = "arm" /\ c' = c + 1
  /\ UNCHANGED <<ret, sel, r, cend, n, k, z, err, rstate, rwords, rcols, last,
                 efp, hw, obs>>

\* mutant: the poll has no budget
ExpireNever == FALSE /\ UNCHANGED vars

\* mutant: the watchdog does not drain the WRITE
ExpireNoDrain ==
  /\ "starve" \in Faults
  /\ pc = "load" /\ wr.on
  /\ events' = events \cup {"watchdog_timeout"} /\ Notify
  /\ Fail("watchdog_timeout")
  /\ UNCHANGED <<ret, args, z, err, table, lkm, occ, frozen, hpos>>

\* OCC_WDT_POLL_BUDGET expires: watchdog_abort.
Expire ==
  /\ "starve" \in Faults
  /\ pc = "load" /\ wr.on
  /\ events' = events \cup {"watchdog_timeout"} /\ Notify
  /\ pc' = "drain" /\ z' = n
  /\ UNCHANGED <<ret, args, err, table, efp, lkm, occ, frozen, hpos>>

\* mutant: the drain pushes the armed word count without looking at done_flag
DrainCheckBlind ==
  /\ pc = "drain" /\ (wr.on => skid = <<>>)
  /\ IF z = 0 THEN pc' = "blank" /\ ret' = "wdt" /\ cend' = c
              ELSE pc' = "push" /\ UNCHANGED <<ret, cend>>
  /\ UNCHANGED <<sel, r, c, n, k, z, err, table, efp, hw, obs>>

\* mutant: the drained frame is not blanked
DrainCheckNoBlank ==
  /\ pc = "drain" /\ (wr.on => skid = <<>>)
  /\ IF ~wr.on \/ z = 0 THEN Fail("watchdog_timeout")
                        ELSE pc' = "push" /\ UNCHANGED efp
  /\ UNCHANGED <<ret, args, z, err, table, hw, obs>>

\* wdt_drain: done_flag is sampled, and a zero is pushed in a later access.
\* The OCC takes a word out of the skid in one clock, before the next sample.
\* The BLANK that follows covers the starved frame: one column if packed.
DrainCheck ==
  /\ pc = "drain" /\ (wr.on => skid = <<>>)
  /\ IF ~wr.on
     THEN pc' = "blank" /\ ret' = "wdt" /\ cend' = c /\ UNCHANGED efp
     ELSE /\ IF z = 0 THEN Fail("watchdog_timeout")
                      ELSE pc' = "push" /\ UNCHANGED efp
          /\ UNCHANGED <<ret, cend>>
  /\ UNCHANGED <<sel, r, c, n, k, z, err, table, hw, obs>>

DrainPush ==
  /\ pc = "push" /\ skid = <<>>
  /\ skid' = <<Blank>>
  /\ z' = z - 1 /\ pc' = "drain"
  /\ UNCHANGED <<ret, args, err, table, efp, lkm, store, dirty, crc,
                 crc_error, wr, dec, fabric, frozen, throttled, obs>>

WdtBlanked ==
  /\ Blanked("wdt") /\ Fail("watchdog_timeout")
  /\ UNCHANGED <<ret, args, z, err, table, hw, obs>>

\* The transport-CRC gate: EFP_SPI_CRC_ERR re-blanks and refuses the image.
CrcGate ==
  /\ pc = "gate"
  /\ \/ /\ "spi" \in Faults
        /\ CallBlank("gate", r, n, k) /\ SetState("BLANK")
     \/ /\ pc' = "readback" /\ SetState("READBACK")
        /\ c' = FirstCol(r, k)
        /\ UNCHANGED <<ret, r, n, k, cend>>
  /\ UNCHANGED <<sel, z, err, table, hw, obs>>

GateBlanked ==
  /\ Blanked("gate") /\ Fail("crc_transport")
  /\ UNCHANGED <<ret, args, z, err, table, hw, obs>>

\* A READBACK of the frame in hand; it compares with the recorded CRC.
Matches == Stream(<<r, c>>, n) = col_crc[<<r, c>>]

ReadFrame == /\ crc' = Stream(<<r, c>>, n)
             /\ crc_error' = ~Matches
             /\ UNCHANGED <<store, dirty, wr, skid, dec, fabric>>

Readback ==
  /\ pc = "readback" /\ ReadFrame
  /\ IF ~Matches THEN Fail("occ_crc") /\ UNCHANGED c
     ELSE /\ SetState("READBACK")
          /\ IF c = cend THEN pc' = "commit" /\ UNCHANGED c
                      ELSE pc' = pc /\ c' = c + 1
  /\ UNCHANGED <<ret, sel, r, cend, n, k, z, err, table, lkm, frozen,
                 throttled, obs>>

\* RUNNING is published before the region is locked.
Commit ==
  /\ pc = "commit"
  /\ rstate' = [rstate EXCEPT ![r] = "RUNNING"]
  /\ rwords' = [rwords EXCEPT ![r] = n]
  /\ rcols'  = [rcols EXCEPT ![r] = k]
  /\ last'   = [staged |-> TRUE, region |-> r, words |-> n, packed |-> k # 0]
  /\ efp_done' = TRUE /\ efp_state' = "RUNNING"
  /\ pc' = "lock"
  /\ UNCHANGED <<ret, args, z, err, col_crc, doorbell, image, efp_busy,
                 efp_err, hw, obs>>

\* mutant: a completed deploy does not lock its region
LockSkipped ==
  /\ pc = "lock" /\ Notify /\ pc' = "squelch"
  /\ UNCHANGED <<ret, args, z, err, table, efp, lkm, occ, frozen, obs>>

Lock ==
  /\ pc = "lock"
  /\ locks' = locks \cup {r} /\ Notify
  /\ pc' = "squelch"
  /\ UNCHANGED <<ret, args, z, err, table, efp, global_lock, occ, frozen, obs>>

-----------------------------------------------------------------------------
(* ctx_issue: the engine runs to completion, or reports an error.  It is   *)
(* fabric-global: a save arms the freeze, a restore releases it.           *)

CtxFails == "ctx" \in Faults

CtxSave ==
  /\ pc = "ctx_save"
  /\ \/ /\ sel \notin Regions /\ Fail("bad_cmd")
        /\ UNCHANGED <<rstate, frozen>>
     \/ /\ sel \in Regions
        /\ rstate[sel] # "RUNNING" \/ CtxFails
        /\ Fail("ctx_error") /\ UNCHANGED <<rstate, frozen>>
     \/ /\ sel \in Regions /\ rstate[sel] = "RUNNING"
        /\ frozen' = TRUE
        /\ rstate' = [rstate EXCEPT ![sel] = "PAUSED"]
        /\ efp_done' = FALSE /\ efp_state' = "PAUSED" /\ pc' = "squelch"
        /\ UNCHANGED <<doorbell, image, efp_busy, efp_err>>
  /\ UNCHANGED <<ret, args, z, err, rwords, rcols, col_crc, last, lkm, occ,
                 throttled, obs>>

\* mutant: the resumed region is not marked RUNNING
CtxRestoreStale ==
  /\ pc = "ctx_restore"
  /\ IF sel \in Regions /\ rstate[sel] = "PAUSED"
     THEN /\ frozen' = FALSE
          /\ efp_done' = FALSE /\ efp_state' = "RUNNING" /\ pc' = "squelch"
          /\ UNCHANGED <<doorbell, image, efp_busy, efp_err>>
     ELSE Fail("ctx_error") /\ UNCHANGED frozen
  /\ UNCHANGED <<ret, args, z, err, table, lkm, occ, throttled, obs>>

CtxRestore ==
  /\ pc = "ctx_restore"
  /\ \/ /\ sel \notin Regions /\ Fail("bad_cmd")
        /\ UNCHANGED <<rstate, frozen>>
     \/ /\ sel \in Regions
        /\ rstate[sel] # "PAUSED" \/ CtxFails
        /\ Fail("ctx_error") /\ UNCHANGED <<rstate, frozen>>
     \/ /\ sel \in Regions /\ rstate[sel] = "PAUSED"
        /\ frozen' = FALSE
        /\ rstate' = [rstate EXCEPT ![sel] = "RUNNING"]
        /\ efp_done' = FALSE /\ efp_state' = "RUNNING" /\ pc' = "squelch"
        /\ UNCHANGED <<doorbell, image, efp_busy, efp_err>>
  /\ UNCHANGED <<ret, args, z, err, rwords, rcols, col_crc, last, lkm, occ,
                 throttled, obs>>

-----------------------------------------------------------------------------
(* stop, restart, abort: unlock, BLANK, free.                              *)

\* mutant: stop of a PAUSED region does not release the freeze
StopKeepsFreeze ==
  /\ pc = "stop"
  /\ IF sel \in Regions /\ rstate[sel] # "FREE"
     THEN /\ locks' = locks \ {sel}
          /\ CallBlank("stop", sel, rwords[sel], rcols[sel])
          /\ UNCHANGED efp
     ELSE Fail("bad_cmd") /\ UNCHANGED <<ret, r, c, cend, n, k, locks>>
  /\ UNCHANGED <<sel, z, err, table, global_lock, occ, frozen, throttled, obs>>

\* do_stop up to its BLANK; a FREE region goes straight to STOPPED.
Stop ==
  /\ pc = "stop"
  /\ \/ /\ sel \notin Regions /\ Fail("bad_cmd")
        /\ UNCHANGED <<ret, r, c, cend, n, k, locks, frozen>>
     \/ /\ sel \in Regions /\ rstate[sel] = "FREE"
        /\ r' = sel /\ pc' = "stopped"
        /\ UNCHANGED <<ret, c, cend, n, k, locks, frozen, efp>>
     \/ /\ sel \in Regions /\ rstate[sel] = "PAUSED" /\ CtxFails
        /\ Fail("ctx_error")
        /\ UNCHANGED <<ret, r, c, cend, n, k, locks, frozen>>
     \/ /\ sel \in Regions /\ rstate[sel] # "FREE"
        /\ frozen' = (frozen /\ rstate[sel] # "PAUSED")
        /\ locks' = locks \ {sel}
        /\ CallBlank("stop", sel, rwords[sel], rcols[sel])
        /\ UNCHANGED efp
  /\ UNCHANGED <<sel, z, err, table, global_lock, occ, throttled, obs>>

StopBlanked ==
  /\ Blanked("stop")
  /\ IF err = "none" THEN pc' = "stopped" /\ UNCHANGED efp ELSE Fail(err)
  /\ UNCHANGED <<ret, args, z, err, table, hw, obs>>

Stopped ==
  /\ pc = "stopped"
  /\ Release(r)
  /\ efp_done' = FALSE /\ efp_state' = "STOPPED" /\ pc' = "squelch"
  /\ UNCHANGED <<ret, args, z, err, doorbell, image, efp_busy, efp_err, hw,
                 obs>>

Restart ==
  /\ pc = "restart"
  /\ LET rg == last.region IN
     \/ /\ ~last.staged /\ Fail("bad_cmd")
        /\ UNCHANGED <<ret, r, c, cend, n, k, locks>>
     \/ /\ last.staged /\ rstate[rg] = "PAUSED" /\ Fail("ctx_error")
        /\ UNCHANGED <<ret, r, c, cend, n, k, locks>>
     \/ /\ last.staged /\ rstate[rg] = "RUNNING"
        /\ locks' = locks \ {rg}
        /\ CallBlank("restart", rg, rwords[rg], rcols[rg])
        /\ UNCHANGED efp
     \/ /\ last.staged /\ rstate[rg] = "FREE"
        /\ r' = rg /\ pc' = "rerun"
        /\ UNCHANGED <<ret, c, cend, n, k, locks, efp>>
  /\ UNCHANGED <<sel, z, err, table, global_lock, occ, frozen, throttled, obs>>

RestartBlanked ==
  /\ Blanked("restart")
  /\ IF err = "none"
     THEN Release(r) /\ pc' = "rerun" /\ UNCHANGED efp
     ELSE Fail(err) /\ UNCHANGED table
  /\ UNCHANGED <<ret, args, z, err, hw, obs>>

\* The re-run half: the staged metadata must still have the last word count.
Rerun ==
  /\ pc = "rerun"
  /\ IF image.words # last.words
     THEN Fail("img_len_mismatch") /\ UNCHANGED <<sel, k>>
     ELSE /\ pc' = "verify" /\ sel' = r
          /\ k' = IF last.packed THEN 1 ELSE 0
          /\ SetState("VERIFY")
  /\ UNCHANGED <<ret, r, c, cend, n, z, err, table, hw, obs>>

\* do_abort, one region a step; a failed release or BLANK is ignored.
Abort ==
  /\ pc = "abort"
  /\ \/ /\ r = NoRegion
        /\ efp_done' = FALSE /\ efp_state' = "IDLE" /\ pc' = "squelch"
        /\ UNCHANGED <<ret, r, c, cend, n, k, locks, frozen, doorbell, image,
                       efp_busy, efp_err>>
     \/ /\ r # NoRegion /\ rstate[r] = "FREE"
        /\ r' = r + 1
        /\ UNCHANGED <<pc, ret, c, cend, n, k, locks, frozen, efp>>
     \/ /\ r # NoRegion /\ rstate[r] # "FREE"
        /\ \/ /\ frozen' = (frozen /\ rstate[r] # "PAUSED")
              /\ UNCHANGED efp_err
           \/ /\ rstate[r] = "PAUSED" /\ CtxFails
              /\ efp_err' = "ctx_error" /\ UNCHANGED frozen
        /\ locks' = locks \ {r}
        /\ CallBlank("abort", r, rwords[r], rcols[r])
        /\ UNCHANGED <<doorbell, image, efp_state, efp_busy, efp_done>>
  /\ UNCHANGED <<sel, z, err, table, global_lock, occ, throttled, obs>>

AbortBlanked ==
  /\ Blanked("abort")
  /\ Release(r)
  /\ r' = r + 1 /\ pc' = "abort"
  /\ UNCHANGED <<ret, sel, c, cend, n, k, z, err, efp, hw, obs>>

-----------------------------------------------------------------------------
(* The heartbeat: READBACK of every RUNNING region in an idle stretch.     *)

Heartbeat ==
  /\ pc = "idle" /\ doorbell = NoDoorbell
  /\ \E i \in Regions : rstate[i] = "RUNNING"
  /\ pc' = "hb" /\ r' = 0
  /\ UNCHANGED <<ret, sel, c, cend, n, k, z, err, table, efp, hw, obs>>

\* mutant: the heartbeat ends after the first region
HbRegionFirst ==
  /\ pc = "hb"
  /\ IF r = 0 /\ rstate[r] = "RUNNING"
     THEN /\ pc' = "probe" /\ n' = rwords[r] /\ k' = rcols[r]
          /\ c' = FirstCol(r, rcols[r]) /\ cend' = LastCol(r, rcols[r])
          /\ UNCHANGED <<sel, r>>
     ELSE Return
  /\ UNCHANGED <<ret, z, err, table, efp, hw, obs>>

HbRegion ==
  /\ pc = "hb"
  /\ \/ r = NoRegion /\ Return
     \/ /\ r # NoRegion /\ rstate[r] # "RUNNING"
        /\ r' = r + 1 /\ UNCHANGED <<pc, sel, c, cend, n, k>>
     \/ /\ r # NoRegion /\ rstate[r] = "RUNNING"
        /\ pc' = "probe" /\ n' = rwords[r] /\ k' = rcols[r]
        /\ c' = FirstCol(r, rcols[r]) /\ cend' = LastCol(r, rcols[r])
        /\ UNCHANGED <<sel, r>>
  /\ UNCHANGED <<ret, z, err, table, efp, hw, obs>>

\* A mismatch goes to the quarantine BLANK without lkm_unlock.
Probe ==
  /\ pc = "probe" /\ ReadFrame
  /\ IF ~Matches
     THEN CallBlank("hb", r, n, k)
     ELSE /\ IF c # cend THEN c' = c + 1 /\ UNCHANGED <<pc, r>>
                      ELSE pc' = "hb" /\ r' = r + 1 /\ UNCHANGED c
          /\ UNCHANGED <<ret, cend, n, k>>
  /\ UNCHANGED <<sel, z, err, table, efp, lkm, frozen, throttled, obs>>

HbBlanked ==
  /\ Blanked("hb")
  /\ Release(r)
  /\ events' = events \cup {"hb_mismatch"} /\ Notify
  /\ efp_err' = "occ_crc" /\ efp_state' = "ERROR"
  /\ r' = r + 1 /\ pc' = "hb"
  /\ UNCHANGED <<ret, sel, c, cend, n, k, z, err, doorbell, image, efp_busy,
                 efp_done, lkm, occ, frozen, hpos>>

DaemonStep ==
  \/ Accept \/ Reject \/ Squelch \/ ClearBusy
  \/ Verify \/ Alloc \/ BlankWaits \/ BlankColumn \/ RunBlanked \/ Arm \/ LoadDone
  \/ Expire \/ DrainCheck \/ DrainPush \/ WdtBlanked \/ CrcGate \/ GateBlanked
  \/ Readback \/ Commit \/ Lock
  \/ CtxSave \/ CtxRestore
  \/ Stop \/ StopBlanked \/ Stopped \/ Restart \/ RestartBlanked \/ Rerun
  \/ Abort \/ AbortBlanked
  \/ Heartbeat \/ HbRegion \/ Probe \/ HbBlanked

-----------------------------------------------------------------------------
(* The surroundings of the daemon.                                         *)

\* The OCC consumes the word in the skid into the armed frame.
OccTake ==
  /\ wr.on /\ skid # <<>>
  /\ LET i == wr.idx + 1 IN
     /\ store'  = [store EXCEPT ![wr.win][i] = skid[1]]
     /\ dirty'  = dirty \cup {wr.win}
     /\ crc'    = Append(crc, skid[1])
     /\ Capture(dec, 1, wr.win[1])
     /\ wr' = IF i = wr.cnt THEN NoWrite ELSE [wr EXCEPT !.idx = i]
  /\ skid' = <<>>
  /\ UNCHANGED <<local, table, efp, lkm, crc_error, frozen, throttled, obs>>

Ring(d, early) == doorbell' = [cmd |-> d.cmd, sel |-> d.sel, early |-> early]

\* A host that polls busy before it rings (the documented rule).
HostRing ==
  /\ ~efp_busy /\ doorbell = NoDoorbell
  /\ \E d \in Doorbells : Ring(d, FALSE) /\ image' = d.img
  /\ UNCHANGED <<local, table, efp_state, efp_busy, efp_done, efp_err, hw, obs>>

\* A host that rings while a command is in flight.
HostRingBusy ==
  /\ "eager" \in Faults
  /\ efp_busy /\ doorbell = NoDoorbell
  /\ \E d \in Doorbells : Ring(d, TRUE)
  /\ UNCHANGED <<local, table, image, efp_state, efp_busy, efp_done, efp_err,
                 hw, obs>>

\* The host pushes the next word of the column it sees armed; a late one also
\* while the watchdog drains.
HostPush ==
  /\ \/ pc = "load" /\ wr.on
     \/ "late" \in Faults /\ pc \in {"drain", "push"}
  /\ skid = <<>> /\ hpos < n
  /\ skid' = <<hpos + 1>> /\ hpos' = hpos + 1
  /\ UNCHANGED <<local, table, efp, lkm, store, dirty, crc, crc_error, wr,
                 dec, fabric, frozen, throttled, events>>

\* The host releases the throttles it has read (W1C).
HostUnthrottle ==
  /\ throttled # {} /\ throttled' = {}
  /\ UNCHANGED <<local, table, efp, lkm, occ, frozen, obs>>

\* Another master writes LKM_CMD.
OtherLkm ==
  /\ \/ /\ "lkm" \in Faults
        /\ \E i \in Regions : locks' \in {locks \cup {i}, locks \ {i}}
        /\ UNCHANGED global_lock
     \/ /\ "global" \in Faults
        /\ global_lock' = ~global_lock /\ UNCHANGED locks
  /\ UNCHANGED <<local, table, efp, occ, frozen, throttled, obs>>

Flipped == {x \in Windows \X Slots : store[x[1]][x[2]] = Upset}

\* A stored configuration word is upset.
StoreUpset ==
  /\ "upset" \in Faults /\ Cardinality(Flipped) < MaxUpsets
  /\ \E w \in Windows, i \in Slots :
       /\ <<w, i>> \notin Flipped
       /\ store[w][i] # Blank
       /\ store' = [store EXCEPT ![w][i] = Upset]
  /\ UNCHANGED <<local, table, efp, lkm, dirty, crc, crc_error, wr, skid,
                 dec, fabric, frozen, throttled, obs>>

Surroundings == \/ OccTake \/ HostRing \/ HostRingBusy \/ HostPush
                \/ HostUnthrottle \/ OtherLkm \/ StoreUpset

-----------------------------------------------------------------------------
Init ==
  /\ pc = "idle" /\ ret = "run" /\ sel = 0 /\ r = 0 /\ c = 0 /\ cend = 0
  /\ n = 0 /\ k = 0 /\ z = 0 /\ err = "none"
  /\ rstate = [i \in Regions |-> "FREE"]
  /\ rwords = [i \in Regions |-> 0] /\ rcols = [i \in Regions |-> 0]
  /\ col_crc = [w \in Windows |-> <<>>]
  /\ last = NoLast
  /\ doorbell = NoDoorbell
  /\ image = [words |-> 0, cols |-> 0, sig |-> FALSE, cap |-> TRUE]
  /\ efp_state = "IDLE" /\ efp_err = "none"
  /\ efp_busy = FALSE /\ efp_done = FALSE
  /\ locks = {} /\ global_lock = FALSE
  /\ store = [w \in Windows |-> [i \in Slots |-> Blank]] /\ dirty = {}
  /\ crc = <<>> /\ crc_error = FALSE /\ wr = NoWrite /\ skid = <<>>
  /\ dec = NoDecode /\ fabric = [j \in Cols |-> NoRegion]
  /\ frozen = FALSE /\ throttled = {}
  /\ hpos = 0 /\ events = {}

Next == DaemonStep \/ Surroundings

Spec == Init /\ [][Next]_vars

\* The daemon loop never stops and the OCC consumes what is pushed; the host
\* owes nothing (the watchdog is there for a host that stops).
Fairness == WF_vars(DaemonStep) /\ WF_vars(OccTake)

FairSpec == Spec /\ Fairness

-----------------------------------------------------------------------------
(* Properties.                                                             *)

Pcs == {"idle", "reject", "squelch", "release", "verify", "alloc", "blank",
        "blanked", "arm", "load", "drain", "push", "gate", "readback",
        "commit", "lock", "ctx_save", "ctx_restore", "stop", "stopped",
        "restart", "rerun", "abort", "hb", "probe"}

LocalsOK ==
  /\ pc \in Pcs
  /\ ret \in {"run", "wdt", "gate", "stop", "restart", "abort", "hb"}
  /\ sel \in 0 .. AutoRegion /\ r \in 0 .. NumRegions
  /\ c \in Cols /\ cend \in Cols
  /\ n \in 0 .. MaxWords /\ k \in 0 .. FabCols /\ z \in 0 .. MaxWords
  /\ err \in Errors

TableOK ==
  /\ rstate \in [Regions -> {"FREE", "RUNNING", "PAUSED"}]
  /\ rwords \in [Regions -> 0 .. MaxWords] /\ rcols \in [Regions -> 0 .. FabCols]
  /\ col_crc \in [Windows -> Seq(Word)]
  /\ last \in [staged : BOOLEAN, region : Regions, words : 0 .. MaxWords,
               packed : BOOLEAN]

EfpOK ==
  /\ doorbell \in {NoDoorbell} \cup
                  [cmd : Commands, sel : 0 .. AutoRegion, early : BOOLEAN]
  /\ image \in Images
  /\ efp_state \in {"IDLE", "VERIFY", "ALLOC", "BLANK", "LOAD", "READBACK",
                    "RUNNING", "ERROR", "STOPPED", "PAUSED"}
  /\ efp_busy \in BOOLEAN /\ efp_done \in BOOLEAN /\ efp_err \in Errors

Decodes == {NoDecode} \cup
  {d \in [on : {TRUE}, col : Cols, got : Nat, by : SUBSET (Regions \cup {NoRegion})] :
     d.got < ColWords[d.col]}

HwOK ==
  /\ locks \subseteq Regions /\ global_lock \in BOOLEAN
  /\ store \in [Windows -> Frame] /\ dirty \subseteq Windows
  /\ crc \in Seq(Word) /\ crc_error \in BOOLEAN
  /\ wr \in {NoWrite} \cup [on : {TRUE}, win : Windows, idx : 0 .. MaxWords - 1,
                            cnt : Slots]
  /\ skid \in {<<>>} \cup {<<w>> : w \in Word}
  /\ dec \in Decodes /\ fabric \in [Cols -> Regions \cup {NoRegion, Mixed}]
  /\ frozen \in BOOLEAN /\ throttled \subseteq Regions

ObsOK ==
  /\ hpos \in 0 .. MaxWords
  /\ events \subseteq {"policy_denied", "watchdog_timeout", "hb_mismatch"}

\* The daemon's variables, the EFP registers and the hardware state keep their
\* ranges: the region and column in hand stay inside the fabric, the drain
\* never pushes more than the armed words, the skid holds one word.
TypeOK == LocalsOK /\ TableOK /\ EfpOK /\ HwOK /\ ObsOK

\* The region a BLANK, or a whole deploy, is working on.
Blanking(rg) == r = rg /\ pc \in {"blank", "blanked", "stopped"}
Deploying(rg) == r = rg /\ pc \in {"blank", "blanked", "arm", "load", "drain",
                                   "push", "gate", "readback", "commit"}

\* A container that is RUNNING or PAUSED has its own image, word for word, in
\* every frame it covers (unless a stored word was upset), and the CRC recorded
\* for the heartbeat is that image's: whatever happened to other commands,
\* streams, watchdogs and regions before and since.
RegionIntact ==
  \A rg \in Regions : rstate[rg] # "FREE" /\ ~Blanking(rg) =>
    \A cc \in ColsOf(rg, rcols[rg]) :
      /\ col_crc[<<rg, cc>>] = [i \in 1 .. rwords[rg] |-> i]
      /\ \A i \in 1 .. rwords[rg] : store[<<rg, cc>>][i] \in {i, Upset}

\* A FREE region is really free: it holds no live configuration, and its lock
\* is open so that the next deploy can blank it.
FreeIsBlank ==
  \A rg \in Regions : rstate[rg] = "FREE" /\ ~Deploying(rg) =>
    /\ rg \notin locks
    /\ \A cc \in Cols, i \in Slots : store[<<rg, cc>>][i] = Blank

\* A region is locked while it runs, from the end of its deploy to the BLANK
\* that removes it.
LockedWhileRunning ==
  \A rg \in Regions : rstate[rg] # "FREE" =>
    rg \in locks \/ Blanking(rg) \/ (r = rg /\ pc = "lock")

\* The fabric serves what the table says.  It is frozen exactly while a region
\* is PAUSED, so that a paused container never advances and no freeze is left
\* behind, and the columns of a packed container carry its own stream.
FabricTruth ==
  /\ \A rg \in Regions : rstate[rg] = "PAUSED" => frozen \/ Blanking(rg)
  /\ frozen => \E rg \in Regions : rstate[rg] = "PAUSED"
  /\ \A rg \in Regions : rstate[rg] # "FREE" /\ rcols[rg] # 0 /\ ~Blanking(rg) =>
       \A cc \in ColsOf(rg, rcols[rg]) : fabric[cc] = rg

\* EFP_STATUS at rest tells the truth: RUNNING and PAUSED are never shown
\* when no region is in that state.
StatusTruth ==
  pc = "idle" => /\ efp_state = "RUNNING" =>
                      \E rg \in Regions : rstate[rg] = "RUNNING"
                 /\ efp_state = "PAUSED" =>
                      \E rg \in Regions : rstate[rg] = "PAUSED"

\* No word is left in the wdata skid for the next WRITE to take as its first.
NoSurplusWord == pc = "arm" => skid = <<>>

\* Back-to-back deploys (BLANK then WRITE) self-sequence: as long as only the
\* daemon locks regions, nothing is quarantined and packed images fill their
\* columns, whatever the streaming host does, each stream the decoder was armed
\* for has passed when the daemon writes OCC_DECODE again: it never waits there.
SelfSequenced == pc \in {"blank", "arm"} => DecoderReady

\* The daemon waits at an OCC_DECODE write, for words that only it could send:
\* the BLANK of a region that was quarantined under its lock is refused after
\* the decoder was armed for it, and nobody opens the lock.
Stalled ==
  /\ pc \in {"blank", "arm"} /\ ~DecoderReady
  /\ \E rg \in Regions : rstate[rg] = "FREE" /\ rg \in locks

\* Every command that is rung is taken and finished, whatever the streaming
\* host does: the watchdog turns a starved LOAD into an error.  The one way to
\* hang is a quarantined region that is still locked (Stalled).
CommandCompletes ==
  /\ doorbell # NoDoorbell ~> efp_busy \/ Stalled
  /\ efp_busy ~> ~efp_busy \/ Stalled

\* A RUNNING region whose stored configuration was upset does not stay RUNNING
\* while the host is quiet: the heartbeat takes it out, unless it hangs on the
\* quarantine of an earlier one (Stalled).
HeartbeatFinds ==
  \A rg \in Regions :
    (rstate[rg] = "RUNNING"
       /\ \E cc \in ColsOf(rg, rcols[rg]), i \in 1 .. rwords[rg] :
            store[<<rg, cc>>][i] = Upset)
    ~> (rstate[rg] # "RUNNING" \/ doorbell # NoDoorbell \/ Stalled)
=============================================================================
