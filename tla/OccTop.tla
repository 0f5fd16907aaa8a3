------------------------------- MODULE OccTop -------------------------------
(***************************************************************************)
(* The on-chip configuration controller (OCC) and the part of the EMRI     *)
(* register file that fronts it, one step per clock cycle.                 *)
(*                                                                         *)
(*   occ_top.sv       five-state FSM that streams a frame into (WRITE,     *)
(*                    BLANK) or out of (READBACK) the configuration store, *)
(*                    behind the region-lock and the blank-before-write    *)
(*                    gates;                                               *)
(*   emri_regfile.sv  the command latch that holds cmd_valid until the OCC *)
(*                    takes or refuses the command, the one-word wdata     *)
(*                    skid, the lock matrix, the sticky completion and the *)
(*                    single host port they all stall.                     *)
(*                                                                         *)
(* A clock edge is the conjunction of the two blocks' register updates,    *)
(* exactly as the two always_ff groups see one another's wires.  Frame     *)
(* words are abstract; the streaming CRC is the sequence of words it has   *)
(* consumed, that is, a CRC without collisions.                            *)
(***************************************************************************)
EXTENDS Integers, Sequences

CONSTANTS
  AddrSpace,   \* 2^ADDR_W frame-bus addresses
  Regions,     \* frame_addr[15:12]
  Windows,     \* frame_addr[15:8]
  Locks,       \* lock bits of LKM_STATUS[7:0]
  RegionOf,    \* address -> region field
  WindowOf,    \* address -> {region, column} window
  LockOf,      \* region -> lock bit (ids 8..15 alias 0..7)
  NonZero,     \* frame words other than zero
  Frames,      \* the <<FRAME_ADDR, WORD_COUNT>> pairs masters program
  Expects,     \* the CRC values masters program into OCC_EXPECT_CRC
  Polite       \* masters poll done_flag, and stream what they armed

Addr  == 0 .. AddrSpace - 1
Zero  == 0
Word  == NonZero \cup {Zero}
Cmds  == {"NOP", "WRITE", "READBACK", "BLANK"}

ASSUME AddrAssumption   == AddrSpace \in Nat \ {0}
ASSUME MapAssumption    == /\ RegionOf \in [Addr -> Regions]
                           /\ WindowOf \in [Addr -> Windows]
                           /\ LockOf \in [Regions -> Locks]
ASSUME FrameAssumption  == Frames \subseteq Addr \X (0 .. AddrSpace - 1)
ASSUME ExpectAssumption == Expects \subseteq Seq(Word)
ASSUME WordAssumption   == Zero \notin NonZero
ASSUME PoliteAssumption == Polite \in BOOLEAN

VARIABLES
  req,           \* the access the bus master holds on the host port
  occ_cmd,       \* occ_cmd_r
  occ_start,     \* occ_start_r: command held towards the OCC
  frame_addr,    \* OCC_FRAME_ADDR
  word_count,    \* OCC_WORD_COUNT
  expect_crc,    \* OCC_EXPECT_CRC
  skid,          \* occ_wdata_r / occ_wdata_pending_r: <<>> or <<word>>
  region_locks,  \* set of locked lock bits
  global_lock,
  done_flag,     \* OCC_STATUS[3]
  done_code,     \* OCC_STATUS[5:4]
  state,         \* occ_top.state_r
  addr_r,        \* frame_addr_r latched at accept
  count_r,       \* word_count_r latched at accept
  idx,           \* idx_r
  crc,           \* crc_r
  expect_r,      \* expect_crc_latched_r
  crc_error,     \* crc_error_r
  dirty,         \* windows whose dirty_r bit is set
  cfg,           \* the column configuration store behind the frame bus
  granted        \* history: regions whose lock was open at the last accept

sticky  == <<done_flag, done_code>>
vars    == <<req, occ_cmd, occ_start, frame_addr, word_count, expect_crc, skid,
             region_locks, global_lock, done_flag, done_code, state, addr_r,
             count_r, idx, crc, expect_r, crc_error, dirty, cfg, granted>>

-----------------------------------------------------------------------------
(* Requests on the host port.  Writing FRAME_ADDR, WORD_COUNT and          *)
(* EXPECT_CRC only matters to the start that follows, so a start request   *)
(* carries them: masters that interleave those writes produce a start with *)
(* some other combination of the same values.                              *)

NoReq     == [kind |-> "none"]
Starts    == [kind : {"start"}, cmd : {"NOP", "WRITE", "BLANK"}, frame : Frames]
             \cup [kind : {"start"}, cmd : {"READBACK"}, frame : Frames,
                   expect : Expects]
Pushes    == [kind : {"push"}, word : Word]
LkmCmds   == [kind : {"lock", "unlock"}, bit : Locks]
             \cup [kind : {"global_set", "global_clear"}]
Requests  == {NoReq} \cup Starts \cup Pushes \cup LkmCmds

IsStart == req.kind = "start"
IsPush  == req.kind = "push"

-----------------------------------------------------------------------------
(* Wires out of occ_top: status_o, cmd_ready_o, wdata_ready_o.             *)

At(a, i) == IF a + i < AddrSpace THEN a + i ELSE a + i - AddrSpace

Open(r) == ~global_lock /\ LockOf[r] \notin region_locks

\* mutant: the gate forgets BLANK
LockRefusedWriteOnly == occ_cmd = "WRITE" /\ ~Open(RegionOf[frame_addr])

LockRefused  == /\ occ_cmd \in {"WRITE", "BLANK"}
                /\ ~Open(RegionOf[frame_addr])
BlankRefused == /\ occ_cmd = "WRITE"
                /\ ~LockRefused
                /\ WindowOf[frame_addr] \in dirty

CmdReady == /\ state = "IDLE" /\ occ_start
            /\ occ_cmd # "NOP"
            /\ ~LockRefused /\ ~BlankRefused

Status ==
  CASE state = "IDLE" /\ occ_start /\ LockRefused              -> "LOCKED"
    [] state = "IDLE" /\ occ_start /\ BlankRefused             -> "NEEDS_BLANK"
    [] state \in {"WRITE", "BLANK"} /\ idx = count_r           -> "DONE"
    [] state = "CMP" /\ crc = expect_r                         -> "DONE"
    [] state = "CMP" /\ crc # expect_r                         -> "ERROR"
    [] state \in {"WRITE", "BLANK"} /\ idx # count_r           -> "BUSY"
    [] state = "READBACK"                                      -> "BUSY"
    [] OTHER                                                   -> "IDLE"

Refused    == Status \in {"LOCKED", "NEEDS_BLANK"}
WdataReady == state = "WRITE" /\ idx # count_r

-----------------------------------------------------------------------------
(* occ_top registers, one action per arc of the FSM.                       *)

Hold == /\ state = "IDLE" /\ ~CmdReady      \* no command, NOP, or refused
        /\ UNCHANGED <<state, addr_r, count_r, idx, crc, expect_r, crc_error,
                       dirty, cfg, granted>>

\* mutant: the expected CRC is not latched at accept
AcceptNoExpect ==
  /\ CmdReady
  /\ state' = occ_cmd /\ addr_r' = frame_addr /\ count_r' = word_count
  /\ idx' = 0 /\ crc' = <<>> /\ crc_error' = FALSE
  /\ granted' = {r \in Regions : Open(r)}
  /\ UNCHANGED <<expect_r, dirty, cfg>>

Accept == /\ CmdReady
          /\ state'     = occ_cmd
          /\ addr_r'    = frame_addr
          /\ count_r'   = word_count
          /\ expect_r'  = expect_crc
          /\ idx'       = 0
          /\ crc'       = <<>>
          /\ crc_error' = FALSE
          /\ granted'   = {r \in Regions : Open(r)}
          /\ UNCHANGED <<dirty, cfg>>

\* One word over the frame bus into the store; it marks its own window.
StoreWord(w, dirtyAfter) ==
  LET a == At(addr_r, idx) IN
  /\ cfg'   = [cfg EXCEPT ![a] = w]
  /\ idx'   = idx + 1
  /\ crc'   = Append(crc, w)
  /\ dirty' = dirtyAfter

\* mutant: a WRITE does not mark its window dirty
WriteWordClean == /\ WdataReady /\ skid # <<>>
                  /\ StoreWord(skid[1], dirty)
                  /\ UNCHANGED <<state, crc_error, addr_r, count_r, expect_r, granted>>

WriteWord == /\ WdataReady /\ skid # <<>>
             /\ StoreWord(skid[1], dirty \cup {WindowOf[At(addr_r, idx)]})
             /\ UNCHANGED <<state, crc_error, addr_r, count_r, expect_r, granted>>

Starve == /\ WdataReady /\ skid = <<>>
          /\ UNCHANGED <<state, addr_r, count_r, idx, crc, expect_r, crc_error,
                         dirty, cfg, granted>>

BlankWord == /\ state = "BLANK" /\ idx # count_r
             /\ StoreWord(Zero, dirty \ {WindowOf[At(addr_r, idx)]})
             /\ UNCHANGED <<state, crc_error, addr_r, count_r, expect_r, granted>>

StoreDone == /\ state \in {"WRITE", "BLANK"} /\ idx = count_r
             /\ state' = "IDLE"
             /\ UNCHANGED <<addr_r, count_r, idx, crc, expect_r, crc_error,
                            dirty, cfg, granted>>

ReadWord == /\ state = "READBACK" /\ idx # count_r
            /\ idx' = idx + 1
            /\ crc' = Append(crc, cfg[At(addr_r, idx)])
            /\ UNCHANGED <<state, addr_r, count_r, expect_r, crc_error, dirty,
                           cfg, granted>>

ReadDone == /\ state = "READBACK" /\ idx = count_r
            /\ state' = "CMP"
            /\ UNCHANGED <<addr_r, count_r, idx, crc, expect_r, crc_error, dirty,
                           cfg, granted>>

Compare == /\ state = "CMP"
           /\ state' = "IDLE"
           /\ crc_error' = (crc_error \/ crc # expect_r)
           /\ UNCHANGED <<addr_r, count_r, idx, crc, expect_r, dirty, cfg, granted>>

OccClk == \/ Hold \/ Accept
          \/ WriteWord \/ Starve \/ BlankWord \/ StoreDone
          \/ ReadWord \/ ReadDone \/ Compare

-----------------------------------------------------------------------------
(* emri_regfile registers, one conjunct per always_ff block.               *)

\* mutant: a refused command is never released (the defect occ_refused_w cures)
CmdLatchHeld ==
  IF IsStart /\ ~occ_start
  THEN /\ occ_cmd' = req.cmd /\ occ_start' = TRUE
       /\ frame_addr' = req.frame[1] /\ word_count' = req.frame[2]
       /\ expect_crc' = IF req.cmd = "READBACK" THEN req.expect ELSE expect_crc
  ELSE /\ occ_start' = (occ_start /\ ~CmdReady)
       /\ UNCHANGED <<occ_cmd, frame_addr, word_count, expect_crc>>

CmdLatch ==
  IF IsStart /\ ~occ_start
  THEN /\ occ_cmd' = req.cmd /\ occ_start' = TRUE
       /\ frame_addr' = req.frame[1] /\ word_count' = req.frame[2]
       /\ expect_crc' = IF req.cmd = "READBACK" THEN req.expect ELSE expect_crc
  ELSE /\ occ_start' = (occ_start /\ ~CmdReady /\ ~Refused)
       /\ UNCHANGED <<occ_cmd, frame_addr, word_count, expect_crc>>

SkidClk ==
  skid' = IF IsPush /\ (skid = <<>> \/ WdataReady) THEN <<req.word>>
          ELSE IF WdataReady THEN <<>> ELSE skid

LockClk ==
  /\ region_locks' = CASE req.kind = "lock"   -> region_locks \cup {req.bit}
                       [] req.kind = "unlock" -> region_locks \ {req.bit}
                       [] OTHER               -> region_locks
  /\ global_lock'  = CASE req.kind = "global_set"   -> TRUE
                       [] req.kind = "global_clear" -> FALSE
                       [] OTHER                     -> global_lock

\* mutant: a new start leaves the previous completion standing
DoneClkStale ==
  IF Status \in {"DONE", "ERROR", "NEEDS_BLANK", "LOCKED"}
  THEN done_flag' = TRUE /\ done_code' = Status
  ELSE UNCHANGED sticky

DoneClk ==
  IF IsStart /\ ~occ_start
  THEN done_flag' = FALSE /\ done_code' = "DONE"
  ELSE IF Status \in {"DONE", "ERROR", "NEEDS_BLANK", "LOCKED"}
  THEN done_flag' = TRUE /\ done_code' = Status
  ELSE UNCHANGED sticky

\* host_ready_o
HostReady ==
  CASE IsStart -> occ_start /\ (CmdReady \/ Refused)
    [] IsPush  -> skid = <<>> \/ WdataReady
    [] OTHER   -> TRUE

RegClk == CmdLatch /\ SkidClk /\ LockClk /\ DoneClk

-----------------------------------------------------------------------------
(* The bus masters behind the port (external).  A polite master does what  *)
(* the daemon and the host tools do: it issues a command after it has seen *)
(* the previous one's done_flag, and after arming a WRITE it streams the   *)
(* armed number of words.  An impolite one may issue anything.             *)

MayIssue(q) ==
  \/ q.kind \notin {"start", "push"}
  \/ ~Polite
  \/ /\ q.kind = "start" /\ q.cmd # "NOP"
     /\ done_flag \/ occ_cmd = "NOP"
  \/ /\ q.kind = "push" /\ state = "WRITE"
     /\ idx + Len(skid) + (IF IsPush THEN 1 ELSE 0) < count_r

Master == IF HostReady
          THEN \E q \in Requests : MayIssue(q) /\ req' = q
          ELSE UNCHANGED req

-----------------------------------------------------------------------------
Init ==
  /\ req = NoReq
  /\ occ_cmd = "NOP" /\ occ_start = FALSE
  /\ frame_addr = 0 /\ word_count = 0 /\ expect_crc = <<>>
  /\ skid = <<>>
  /\ region_locks = {} /\ global_lock = FALSE
  /\ done_flag = FALSE /\ done_code = "DONE"
  /\ state = "IDLE" /\ addr_r = 0 /\ count_r = 0 /\ idx = 0
  /\ crc = <<>> /\ expect_r = <<>> /\ crc_error = FALSE
  /\ dirty = {} /\ cfg = [a \in Addr |-> Zero]
  /\ granted = {}

Next == OccClk /\ RegClk /\ Master

Spec == Init /\ [][Next]_vars

-----------------------------------------------------------------------------
(* Scheduling.  The clock runs, and a master that has armed a WRITE keeps  *)
(* pushing words: the host tools stream the whole frame, and the daemon    *)
(* drains with zeros in place of a host that stops.                        *)

Fairness == WF_vars(Next) /\ WF_vars(Next /\ req'.kind = "push")

FairSpec == Spec /\ Fairness

-----------------------------------------------------------------------------
(* Properties.                                                             *)

\* Every register holds a value of its width, the OCC index never runs past
\* the latched count, and the skid holds at most one word.
TypeOK ==
  /\ req \in Requests
  /\ occ_cmd \in Cmds /\ occ_start \in BOOLEAN
  /\ frame_addr \in Addr /\ word_count \in 0 .. AddrSpace - 1
  /\ expect_crc \in Seq(Word)
  /\ skid \in Seq(Word) /\ Len(skid) <= 1
  /\ region_locks \subseteq Locks /\ global_lock \in BOOLEAN
  /\ done_flag \in BOOLEAN
  /\ done_code \in {"DONE", "ERROR", "NEEDS_BLANK", "LOCKED"}
  /\ state \in {"IDLE", "WRITE", "BLANK", "READBACK", "CMP"}
  /\ addr_r \in Addr /\ count_r \in 0 .. AddrSpace - 1 /\ idx \in 0 .. count_r
  /\ crc \in Seq(Word) /\ expect_r \in Seq(Word) /\ crc_error \in BOOLEAN
  /\ dirty \subseteq Windows /\ cfg \in [Addr -> Word]
  /\ granted \subseteq Regions

\* OCC_CRC_RESULT always describes the store: the running CRC of a WRITE,
\* BLANK or READBACK, and the value that stays readable after it until the
\* next accept, is the CRC of the words now at the latched frame address.
\* The daemon's later READBACK and heartbeat compares rest on it.
CrcDescribesStore ==
  /\ Len(crc) = idx
  /\ \A i \in 1 .. idx : crc[i] = cfg[At(addr_r, i - 1)]

\* The programmed frame of the store is the stream whose CRC was programmed.
FrameMatches ==
  /\ Len(expect_crc) = word_count
  /\ \A i \in 1 .. word_count : expect_crc[i] = cfg[At(frame_addr, i - 1)]

\* The verdict of a READBACK that has completed is exact: DONE if and only if
\* the frame its caller programmed holds the stream whose CRC the caller
\* programmed, whatever other masters did to the port while it ran.
ReadbackVerdict ==
  (done_flag /\ occ_cmd = "READBACK" /\ ~occ_start /\ state = "IDLE")
    => done_code = (IF FrameMatches THEN "DONE" ELSE "ERROR")

\* The lock matrix: a word of a region changes only under a command that was
\* accepted while that region's lock and the global lock were open.
LockGate ==
  [][\A a \in Addr : cfg'[a] # cfg[a] => RegionOf[a] \in granted]_vars

\* dirty_r tells the truth: outside a BLANK of that window in flight, a window
\* whose dirty bit is clear holds no live configuration, so the
\* blank-before-write gate never lets a WRITE land on a live window.
CleanIsBlank ==
  \A a \in Addr :
    \/ cfg[a] = Zero
    \/ WindowOf[a] \in dirty
    \/ state = "BLANK" /\ WindowOf[a] = WindowOf[addr_r]

\* The sticky completion a master polls belongs to the command it issued: it
\* is never set while that command is still held or running.
NoStaleCompletion == done_flag => ~occ_start /\ state = "IDLE"

\* A command a master starts is eventually completed or refused, so the single
\* host port is given back.
CommandCompletes == occ_start ~> (done_flag /\ ~occ_start)

=============================================================================
