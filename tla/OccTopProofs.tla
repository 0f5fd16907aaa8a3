---------------------------- MODULE OccTopProofs ----------------------------
(***************************************************************************)
(* Theorems about OccTop, for every address map, lock map and set of       *)
(* frames the masters may program.                                         *)
(***************************************************************************)
EXTENDS OccTop, SequenceTheorems, TLAPS

USE AddrAssumption, MapAssumption, FrameAssumption, WordAssumption,
    ExpectAssumption, PoliteAssumption

\* The frame bus address of a word of a frame is an address.
LEMMA AtType == ASSUME NEW a \in Addr, NEW i \in 0 .. AddrSpace - 1
                PROVE  At(a, i) \in Addr
  BY DEF At, Addr

\* Two words of one frame never share an address: a frame is shorter than the
\* address space, so the 16-bit wrap of frame_addr_r + idx_r is injective.
LEMMA AtInjective == ASSUME NEW a \in Addr,
                            NEW i \in 0 .. AddrSpace - 1, NEW j \in 0 .. AddrSpace - 1,
                            i # j
                     PROVE  At(a, i) # At(a, j)
  BY DEF At, Addr

\* What a request on the port may be, by kind.
LEMMA RequestType ==
  ASSUME NEW q \in Requests
  PROVE  /\ q.kind = "start" => /\ q.cmd \in Cmds /\ q.frame \in Frames
                                /\ q.frame[1] \in Addr
                                /\ q.frame[2] \in 0 .. AddrSpace - 1
                                /\ q.cmd = "READBACK" => q.expect \in Seq(Word)
         /\ q.kind = "push" => q.word \in Word
         /\ q.kind \in {"lock", "unlock"} => q.bit \in Locks
  BY DEF Requests, NoReq, Starts, Pushes, LkmCmds, Cmds

\* Init establishes the type invariant.
LEMMA TypeInit == Init => TypeOK
  <1> SUFFICES ASSUME Init PROVE TypeOK
    OBVIOUS
  <1>1. req \in Requests
    BY DEF Init, Requests
  <1>2. Zero \in Word /\ 0 \in Addr
    BY DEF Word, Addr
  <1>3. cfg \in [Addr -> Word]
    BY <1>2 DEF Init
  <1>4. /\ expect_crc \in Seq(Word) /\ skid \in Seq(Word) /\ Len(skid) <= 1
        /\ crc \in Seq(Word) /\ expect_r \in Seq(Word)
    BY DEF Init
  <1>5. 0 \in 0 .. AddrSpace - 1
    OBVIOUS
  <1> QED
    BY <1>1, <1>2, <1>3, <1>4, <1>5 DEF Init, TypeOK, Cmds

\* occ_top's own registers keep their types over any of its FSM arcs.
LEMMA OccTypes ==
  ASSUME TypeOK, OccClk
  PROVE  /\ state' \in {"IDLE", "WRITE", "BLANK", "READBACK", "CMP"}
         /\ addr_r' \in Addr /\ count_r' \in 0 .. AddrSpace - 1
         /\ idx' \in 0 .. count_r'
         /\ crc' \in Seq(Word) /\ expect_r' \in Seq(Word) /\ crc_error' \in BOOLEAN
         /\ dirty' \subseteq Windows /\ cfg' \in [Addr -> Word]
         /\ granted' \subseteq Regions
  <1>a. idx \in Nat /\ count_r \in Nat /\ idx <= count_r /\ idx \in 0 .. AddrSpace - 1
    BY DEF TypeOK
  <1>b. At(addr_r, idx) \in Addr
    BY <1>a, AtType DEF TypeOK
  <1>1. CASE Hold
    BY <1>1 DEF Hold, TypeOK
  <1>2. CASE Accept
    <2>1. occ_cmd \in {"WRITE", "BLANK", "READBACK"}
      BY <1>2 DEF Accept, CmdReady, TypeOK, Cmds
    <2>2. crc' \in Seq(Word)
      BY <1>2 DEF Accept
    <2>3. granted' \subseteq Regions
      BY <1>2 DEF Accept
    <2>4. idx' \in 0 .. count_r'
      BY <1>2 DEF Accept, TypeOK
    <2> QED
      BY <1>2, <2>1, <2>2, <2>3, <2>4 DEF Accept, TypeOK
  <1>3. CASE WriteWord
    <2>1. skid[1] \in Word
      BY <1>3 DEF WriteWord, TypeOK
    <2>2. idx # count_r
      BY <1>3 DEF WriteWord, WdataReady
    <2> QED
      BY <1>3, <1>a, <1>b, <2>1, <2>2 DEF WriteWord, StoreWord, TypeOK
  <1>4. CASE Starve
    BY <1>4 DEF Starve, TypeOK
  <1>5. CASE BlankWord
    <2>1. Zero \in Word
      BY DEF Word
    <2> QED
      BY <1>5, <1>a, <1>b, <2>1 DEF BlankWord, StoreWord, TypeOK
  <1>6. CASE StoreDone
    BY <1>6 DEF StoreDone, TypeOK
  <1>7. CASE ReadWord
    BY <1>7, <1>a, <1>b DEF ReadWord, TypeOK
  <1>8. CASE ReadDone
    BY <1>8 DEF ReadDone, TypeOK
  <1>9. CASE Compare
    BY <1>9 DEF Compare, TypeOK
  <1> QED
    BY <1>1, <1>2, <1>3, <1>4, <1>5, <1>6, <1>7, <1>8, <1>9 DEF OccClk

\* The register file's registers keep their types over a clock edge.
LEMMA RegTypes ==
  ASSUME TypeOK, RegClk
  PROVE  /\ occ_cmd' \in Cmds /\ occ_start' \in BOOLEAN
         /\ frame_addr' \in Addr /\ word_count' \in 0 .. AddrSpace - 1
         /\ expect_crc' \in Seq(Word)
         /\ skid' \in Seq(Word) /\ Len(skid') <= 1
         /\ region_locks' \subseteq Locks /\ global_lock' \in BOOLEAN
         /\ done_flag' \in BOOLEAN
         /\ done_code' \in {"DONE", "ERROR", "NEEDS_BLANK", "LOCKED"}
  <1>q. /\ req.kind = "start" => /\ req.cmd \in Cmds
                                 /\ req.frame[1] \in Addr
                                 /\ req.frame[2] \in 0 .. AddrSpace - 1
                                 /\ req.cmd = "READBACK" => req.expect \in Seq(Word)
        /\ req.kind = "push" => req.word \in Word
        /\ req.kind \in {"lock", "unlock"} => req.bit \in Locks
    BY RequestType DEF TypeOK
  <1>1. /\ occ_cmd' \in Cmds /\ occ_start' \in BOOLEAN
        /\ frame_addr' \in Addr /\ word_count' \in 0 .. AddrSpace - 1
        /\ expect_crc' \in Seq(Word)
    <2>1. CASE IsStart /\ ~occ_start
      BY <1>q, <2>1 DEF RegClk, CmdLatch, IsStart, TypeOK
    <2>2. CASE ~(IsStart /\ ~occ_start)
      BY <2>2 DEF RegClk, CmdLatch, TypeOK
    <2> QED
      BY <2>1, <2>2
  <1>2. skid' \in Seq(Word) /\ Len(skid') <= 1
    BY <1>q DEF RegClk, SkidClk, IsPush, TypeOK
  <1>3. region_locks' \subseteq Locks /\ global_lock' \in BOOLEAN
    BY <1>q DEF RegClk, LockClk, TypeOK
  <1>4. /\ done_flag' \in BOOLEAN
        /\ done_code' \in {"DONE", "ERROR", "NEEDS_BLANK", "LOCKED"}
    <2>1. DoneClk
      BY DEF RegClk
    <2>2. CASE IsStart /\ ~occ_start
      BY <2>1, <2>2 DEF DoneClk, TypeOK
    <2>3. CASE ~(IsStart /\ ~occ_start) /\ Status \in {"DONE", "ERROR", "NEEDS_BLANK", "LOCKED"}
      BY <2>1, <2>3 DEF DoneClk, TypeOK
    <2>4. CASE ~(IsStart /\ ~occ_start) /\ Status \notin {"DONE", "ERROR", "NEEDS_BLANK", "LOCKED"}
      BY <2>1, <2>4 DEF DoneClk, TypeOK, sticky
    <2> QED
      BY <2>2, <2>3, <2>4
  <1> QED
    BY <1>1, <1>2, <1>3, <1>4

\* A clock edge, or a stuttering step, preserves the type invariant.
LEMMA TypeStep == TypeOK /\ [Next]_vars => TypeOK'
  <1> SUFFICES ASSUME TypeOK, [Next]_vars PROVE TypeOK'
    OBVIOUS
  <1>1. CASE Next
    <2>1. OccClk /\ RegClk /\ Master
      BY <1>1 DEF Next
    <2>2. req' \in Requests
      BY <2>1 DEF Master, TypeOK
    <2> QED
      BY <2>1, <2>2, OccTypes, RegTypes DEF TypeOK
  <1>2. CASE UNCHANGED vars
    BY <1>2 DEF vars, TypeOK
  <1> QED
    BY <1>1, <1>2

\* Every reachable state of the controller is well typed: in particular idx_r
\* never runs past word_count_r and the skid never holds two words.
THEOREM OccTypeCorrect == Spec => []TypeOK
  BY TypeInit, TypeStep, PTL DEF Spec

-----------------------------------------------------------------------------
(* The running CRC and the store.                                          *)

\* Storing one more word of the frame extends the CRC by that word and leaves
\* the words before it alone.
LEMMA StoreKeepsCrc ==
  ASSUME TypeOK, CrcDescribesStore, idx # count_r,
         NEW w \in Word, NEW d, StoreWord(w, d), UNCHANGED addr_r
  PROVE  CrcDescribesStore'
  <1>1. idx \in 0 .. AddrSpace - 1 /\ addr_r \in Addr /\ idx \in Nat
    BY DEF TypeOK
  <1>2. At(addr_r, idx) \in Addr
    BY <1>1, AtType
  <1>3. /\ cfg' = [cfg EXCEPT ![At(addr_r, idx)] = w]
        /\ idx' = idx + 1 /\ crc' = Append(crc, w)
    BY DEF StoreWord
  <1>4. Len(crc') = idx'
    BY <1>3 DEF CrcDescribesStore, TypeOK
  <1>5. ASSUME NEW i \in 1 .. idx'
        PROVE  crc'[i] = cfg'[At(addr_r', i - 1)]
    <2>1. CASE i = idx + 1
      BY <1>1, <1>2, <1>3, <2>1 DEF CrcDescribesStore, TypeOK
    <2>2. CASE i # idx + 1
      <3>1. i \in 1 .. idx /\ i - 1 \in 0 .. AddrSpace - 1 /\ i - 1 # idx
        BY <1>1, <1>3, <2>2
      <3>2. At(addr_r, i - 1) \in Addr /\ At(addr_r, i - 1) # At(addr_r, idx)
        BY <1>1, <3>1, AtType, AtInjective
      <3>3. cfg'[At(addr_r, i - 1)] = cfg[At(addr_r, i - 1)]
        BY <1>3, <3>2 DEF TypeOK
      <3>4. crc'[i] = crc[i]
        BY <1>3, <3>1 DEF CrcDescribesStore, TypeOK
      <3> QED
        BY <3>1, <3>3, <3>4 DEF CrcDescribesStore
    <2> QED
      BY <2>1, <2>2
  <1> QED
    BY <1>4, <1>5 DEF CrcDescribesStore

\* A clock edge keeps the running CRC and the stored frame in step.
LEMMA CrcStep == TypeOK /\ CrcDescribesStore /\ [Next]_vars => CrcDescribesStore'
  <1> SUFFICES ASSUME TypeOK, CrcDescribesStore, [Next]_vars
               PROVE  CrcDescribesStore'
    OBVIOUS
  <1>0. CASE UNCHANGED vars
    BY <1>0 DEF vars, CrcDescribesStore
  <1> SUFFICES ASSUME OccClk PROVE CrcDescribesStore'
    BY <1>0 DEF Next
  <1>1. CASE Hold \/ Starve \/ StoreDone \/ ReadDone \/ Compare
    BY <1>1 DEF Hold, Starve, StoreDone, ReadDone, Compare, CrcDescribesStore
  <1>2. CASE Accept
    BY <1>2 DEF Accept, CrcDescribesStore
  <1>3. CASE WriteWord
    <2>1. skid[1] \in Word
      BY <1>3 DEF WriteWord, TypeOK
    <2>2. /\ idx # count_r /\ UNCHANGED addr_r
          /\ StoreWord(skid[1], dirty \cup {WindowOf[At(addr_r, idx)]})
      BY <1>3 DEF WriteWord, WdataReady
    <2> QED
      BY <2>1, <2>2, StoreKeepsCrc
  <1>4. CASE BlankWord
    <2>1. Zero \in Word
      BY DEF Word
    <2>2. /\ idx # count_r /\ UNCHANGED addr_r
          /\ StoreWord(Zero, dirty \ {WindowOf[At(addr_r, idx)]})
      BY <1>4 DEF BlankWord
    <2> QED
      BY <2>1, <2>2, StoreKeepsCrc
  <1>5. CASE ReadWord
    <2>1. /\ idx' = idx + 1 /\ crc' = Append(crc, cfg[At(addr_r, idx)])
          /\ UNCHANGED <<addr_r, cfg>> /\ idx \in Nat
      BY <1>5 DEF ReadWord, TypeOK
    <2>2. cfg[At(addr_r, idx)] \in Word
      BY AtType DEF TypeOK
    <2>3. Len(crc') = idx'
      BY <2>1, <2>2 DEF CrcDescribesStore, TypeOK
    <2>4. ASSUME NEW i \in 1 .. idx' PROVE crc'[i] = cfg'[At(addr_r', i - 1)]
      BY <2>1, <2>2 DEF CrcDescribesStore, TypeOK
    <2> QED
      BY <2>3, <2>4 DEF CrcDescribesStore
  <1> QED
    BY <1>1, <1>2, <1>3, <1>4, <1>5 DEF OccClk

\* OCC_CRC_RESULT is at all times the CRC of the words that are in the store at
\* the latched frame: what the daemon captures after a WRITE is what a later
\* READBACK of the untouched frame computes.
THEOREM CrcAlwaysDescribesStore == Spec => []CrcDescribesStore
  <1>1. Init => CrcDescribesStore
    BY DEF Init, CrcDescribesStore
  <1> QED
    BY <1>1, CrcStep, OccTypeCorrect, PTL DEF Spec

-----------------------------------------------------------------------------
(* The lock gate.  It is sampled once, for the region of the first word, so *)
(* it covers the whole frame exactly when no frame leaves its region.       *)

SingleRegionFrames ==
  \A f \in Frames : \A i \in 0 .. f[2] - 1 : RegionOf[At(f[1], i)] = RegionOf[f[1]]

\* The frame a store command runs is one the masters programmed, and the lock
\* of its first word was open when it was accepted.
GateInv ==
  /\ occ_start => <<frame_addr, word_count>> \in Frames
  /\ state \in {"WRITE", "BLANK"} => /\ <<addr_r, count_r>> \in Frames
                                     /\ RegionOf[addr_r] \in granted

\* A clock edge preserves GateInv: only an open lock lets a store command in.
LEMMA GateStep == TypeOK /\ GateInv /\ [Next]_vars => GateInv'
  <1> SUFFICES ASSUME TypeOK, GateInv, [Next]_vars PROVE GateInv'
    OBVIOUS
  <1>0. CASE UNCHANGED vars
    BY <1>0 DEF vars, GateInv
  <1> SUFFICES ASSUME OccClk, RegClk PROVE GateInv'
    BY <1>0 DEF Next
  <1>1. occ_start' => <<frame_addr', word_count'>> \in Frames
    <2>1. CmdLatch
      BY DEF RegClk
    <2>2. CASE IsStart /\ ~occ_start
      <3>1. req.frame \in Frames /\ req.frame = <<req.frame[1], req.frame[2]>>
        BY <2>2, RequestType DEF IsStart, TypeOK
      <3> QED
        BY <2>1, <2>2, <3>1 DEF CmdLatch
    <2>3. CASE ~(IsStart /\ ~occ_start)
      BY <2>1, <2>3 DEF CmdLatch, GateInv
    <2> QED
      BY <2>2, <2>3
  <1>2. state' \in {"WRITE", "BLANK"} => /\ <<addr_r', count_r'>> \in Frames
                                         /\ RegionOf[addr_r'] \in granted'
    <2>1. CASE Accept
      <3>1. <<addr_r', count_r'>> \in Frames
        BY <2>1 DEF Accept, CmdReady, GateInv
      <3>2. occ_cmd \in {"WRITE", "BLANK"} => Open(RegionOf[frame_addr])
        BY <2>1 DEF Accept, CmdReady, LockRefused
      <3>3. RegionOf[frame_addr] \in Regions
        BY DEF TypeOK
      <3> QED
        BY <2>1, <3>1, <3>2, <3>3 DEF Accept
    <2>2. CASE Hold \/ WriteWord \/ Starve \/ BlankWord \/ StoreDone
               \/ ReadWord \/ ReadDone \/ Compare
      BY <2>2 DEF GateInv, Hold, WriteWord, Starve, BlankWord, StoreDone,
                  ReadWord, ReadDone, Compare
    <2> QED
      BY <2>1, <2>2 DEF OccClk
  <1> QED
    BY <1>1, <1>2 DEF GateInv

\* When no programmed frame leaves the region it starts in, no word of a region
\* ever changes except under a command accepted while that region was unlocked.
THEOREM LockGateHolds == ASSUME SingleRegionFrames PROVE Spec => LockGate
  <1>1. Init => GateInv
    BY DEF Init, GateInv
  <1>2. TypeOK /\ GateInv /\ [Next]_vars
          => [\A a \in Addr : cfg'[a] # cfg[a] => RegionOf[a] \in granted]_vars
    <2> SUFFICES ASSUME TypeOK, GateInv, OccClk, NEW a \in Addr, cfg'[a] # cfg[a]
                 PROVE  RegionOf[a] \in granted
      BY DEF Next
    <2>1. /\ state \in {"WRITE", "BLANK"} /\ idx # count_r
          /\ \E w \in Word, d \in SUBSET Windows : StoreWord(w, d)
      <3>1. CASE WriteWord
        <4>1. skid[1] \in Word /\ WindowOf[At(addr_r, idx)] \in Windows
          BY <3>1, AtType DEF WriteWord, TypeOK
        <4> QED
          BY <3>1, <4>1 DEF WriteWord, WdataReady, TypeOK
      <3>2. CASE BlankWord
        <4>1. Zero \in Word
          BY DEF Word
        <4> QED
          BY <3>2, <4>1 DEF BlankWord, TypeOK
      <3>3. CASE Hold \/ Accept \/ Starve \/ StoreDone \/ ReadWord \/ ReadDone \/ Compare
        BY <3>3 DEF Hold, Accept, Starve, StoreDone, ReadWord, ReadDone, Compare
      <3> QED
        BY <3>1, <3>2, <3>3 DEF OccClk
    <2>2. a = At(addr_r, idx)
      BY <2>1, AtType DEF StoreWord, TypeOK
    <2>3. idx \in 0 .. count_r - 1
      BY <2>1 DEF TypeOK
    <2>4. RegionOf[a] = RegionOf[addr_r]
      BY <2>1, <2>2, <2>3 DEF SingleRegionFrames, GateInv
    <2> QED
      BY <2>1, <2>4 DEF GateInv
  <1> QED
    BY <1>1, <1>2, GateStep, OccTypeCorrect, PTL DEF Spec, LockGate

-----------------------------------------------------------------------------
(* The blank-before-write gate.  The dirty bit is per window and the first  *)
(* zero word of a BLANK clears it, so it is truthful exactly when every     *)
(* frame covers the whole of one window.                                    *)

FullWindowFrames ==
  \A f \in Frames :
    \A a \in Addr : WindowOf[a] = WindowOf[f[1]]
                     <=> \E i \in 0 .. f[2] - 1 : a = At(f[1], i)

\* A live word is in a dirty window, or a BLANK in flight has yet to reach it;
\* the words that BLANK has passed are zero.
Ahead(a) == \E i \in idx .. count_r - 1 : a = At(addr_r, i)

BlankInv ==
  /\ \A a \in Addr : cfg[a] # Zero /\ WindowOf[a] \notin dirty
                         => state = "BLANK" /\ Ahead(a)
  /\ state = "BLANK" => \A i \in 0 .. idx - 1 : cfg[At(addr_r, i)] = Zero

\* A clock edge preserves BlankInv when frames are whole windows.
LEMMA BlankStep ==
  ASSUME FullWindowFrames, TypeOK, GateInv, BlankInv, [Next]_vars
  PROVE  BlankInv'
  <1>0. CASE UNCHANGED vars
    BY <1>0 DEF vars, BlankInv, Ahead
  <1> SUFFICES ASSUME OccClk PROVE BlankInv'
    BY <1>0 DEF Next
  <1>a. /\ idx \in 0 .. AddrSpace - 1 /\ idx \in Nat /\ count_r \in 0 .. AddrSpace - 1
        /\ addr_r \in Addr /\ At(addr_r, idx) \in Addr
    BY AtType DEF TypeOK
  <1>1. CASE Hold \/ Starve \/ ReadWord \/ ReadDone \/ Compare
    <2>1. state # "BLANK" /\ state' # "BLANK" /\ UNCHANGED <<cfg, dirty>>
      BY <1>1 DEF Hold, Starve, WdataReady, ReadWord, ReadDone, Compare
    <2> QED
      BY <2>1 DEF BlankInv
  <1>2. CASE Accept
    <2>1. state = "IDLE" /\ idx' = 0 /\ UNCHANGED <<cfg, dirty>>
      BY <1>2 DEF Accept, CmdReady
    <2>2. 0 .. idx' - 1 = {}
      BY <2>1
    <2> QED
      BY <2>1, <2>2 DEF BlankInv
  <1>3. CASE StoreDone
    <2>1. idx .. count_r - 1 = {} /\ state' = "IDLE" /\ UNCHANGED <<cfg, dirty>>
      BY <1>3, <1>a DEF StoreDone
    <2> QED
      BY <2>1 DEF BlankInv, Ahead
  <1>4. CASE WriteWord
    <2>1. /\ state = "WRITE" /\ state' = "WRITE"
          /\ cfg' = [cfg EXCEPT ![At(addr_r, idx)] = skid[1]]
          /\ dirty' = dirty \cup {WindowOf[At(addr_r, idx)]}
      BY <1>4 DEF WriteWord, WdataReady, StoreWord
    <2>2. ASSUME NEW a \in Addr, cfg'[a] # Zero PROVE WindowOf[a] \in dirty'
      BY <2>1, <2>2, <1>a DEF BlankInv, TypeOK
    <2> QED
      BY <2>1, <2>2 DEF BlankInv
  <1>5. CASE BlankWord
    <2>1. /\ state = "BLANK" /\ state' = "BLANK" /\ idx # count_r
          /\ cfg' = [cfg EXCEPT ![At(addr_r, idx)] = Zero]
          /\ dirty' = dirty \ {WindowOf[At(addr_r, idx)]}
          /\ idx' = idx + 1 /\ UNCHANGED <<addr_r, count_r>>
      BY <1>5 DEF BlankWord, StoreWord
    <2>2. <<addr_r, count_r>> \in Frames /\ idx \in 0 .. count_r - 1
      BY <2>1, <1>a DEF GateInv, TypeOK
    <2>3. \A a \in Addr : WindowOf[a] = WindowOf[addr_r]
                            <=> \E i \in 0 .. count_r - 1 : a = At(addr_r, i)
      BY <2>2 DEF FullWindowFrames
    <2>4. WindowOf[At(addr_r, idx)] = WindowOf[addr_r]
      BY <2>2, <2>3, <1>a
    <2>5. \A i \in 0 .. idx - 1 : /\ At(addr_r, i) \in Addr
                                  /\ cfg[At(addr_r, i)] = Zero
      BY <1>a, <2>1, AtType DEF BlankInv
    <2>6. \A i \in 0 .. idx' - 1 : cfg'[At(addr_r', i)] = Zero
      <3> SUFFICES ASSUME NEW i \in 0 .. idx' - 1 PROVE cfg'[At(addr_r', i)] = Zero
        OBVIOUS
      <3>1. i = idx \/ i \in 0 .. idx - 1
        BY <1>a, <2>1
      <3> QED
        BY <3>1, <2>1, <2>5, <1>a DEF TypeOK
    <2>7. ASSUME NEW a \in Addr, cfg'[a] # Zero, WindowOf[a] \notin dirty'
          PROVE  Ahead(a)'
      <3>1. a # At(addr_r, idx) /\ cfg[a] # Zero
        BY <2>1, <2>7, <1>a DEF TypeOK
      <3>2. \E i \in 0 .. count_r - 1 : a = At(addr_r, i)
        <4>1. CASE WindowOf[a] = WindowOf[addr_r]
          BY <4>1, <2>3
        <4>2. CASE WindowOf[a] # WindowOf[addr_r]
          <5>1. WindowOf[a] \notin dirty
            BY <4>2, <2>1, <2>4, <2>7
          <5>2. \E i \in idx .. count_r - 1 : a = At(addr_r, i)
            BY <5>1, <3>1 DEF BlankInv, Ahead
          <5> QED
            BY <5>2, <1>a
        <4> QED
          BY <4>1, <4>2
      <3>3. PICK i \in 0 .. count_r - 1 : a = At(addr_r, i)
        BY <3>2
      <3>4. i \notin 0 .. idx - 1 /\ i # idx
        BY <3>1, <3>3, <2>5
      <3>5. i \in idx' .. count_r' - 1
        BY <3>3, <3>4, <2>1, <1>a
      <3> QED
        BY <3>3, <3>5, <2>1 DEF Ahead
    <2> QED
      BY <2>1, <2>6, <2>7 DEF BlankInv
  <1> QED
    BY <1>1, <1>2, <1>3, <1>4, <1>5 DEF OccClk

\* When every programmed frame is one whole window, a window whose dirty bit is
\* clear holds no live configuration, so blank-before-write is enforced.
THEOREM CleanAlwaysBlank == ASSUME FullWindowFrames PROVE Spec => []CleanIsBlank
  <1>1. Init => GateInv /\ BlankInv
    <2> SUFFICES ASSUME Init PROVE GateInv /\ BlankInv
      OBVIOUS
    <2>1. \A a \in Addr : cfg[a] = Zero
      BY DEF Init
    <2> QED
      BY <2>1 DEF Init, GateInv, BlankInv
  <1>2. TypeOK /\ GateInv /\ BlankInv /\ [Next]_vars => BlankInv'
    BY BlankStep
  <1>3. TypeOK /\ GateInv /\ BlankInv => CleanIsBlank
    <2> SUFFICES ASSUME TypeOK, GateInv, BlankInv, NEW a \in Addr,
                        cfg[a] # Zero, WindowOf[a] \notin dirty
                 PROVE  state = "BLANK" /\ WindowOf[a] = WindowOf[addr_r]
      BY DEF CleanIsBlank
    <2>1. /\ state = "BLANK" /\ <<addr_r, count_r>> \in Frames
          /\ \E i \in idx .. count_r - 1 : a = At(addr_r, i)
      BY DEF BlankInv, GateInv, Ahead
    <2>2. \E i \in 0 .. count_r - 1 : a = At(addr_r, i)
      BY <2>1 DEF TypeOK
    <2> QED
      BY <2>1, <2>2 DEF FullWindowFrames
  <1> QED
    BY <1>1, <1>2, <1>3, GateStep, OccTypeCorrect, PTL DEF Spec

-----------------------------------------------------------------------------
(* The READBACK verdict.                                                   *)

\* Once a command has left the latch, the FSM state and the latched frame are
\* that command's, and the sticky completion of a finished READBACK is the
\* comparison it made.
Latched == addr_r = frame_addr /\ count_r = word_count /\ expect_r = expect_crc

VerdictInv ==
  /\ state = "CMP" => idx = count_r
  /\ ~occ_start => /\ state \in {"READBACK", "CMP"} => occ_cmd = "READBACK"
                   /\ state \in {"WRITE", "BLANK"} => occ_cmd = state
                   /\ state # "IDLE" => Latched
  /\ (done_flag /\ occ_cmd = "READBACK" /\ ~occ_start /\ state = "IDLE")
       => /\ idx = count_r /\ Latched
          /\ done_code = (IF crc = expect_r THEN "DONE" ELSE "ERROR")

\* A clock edge preserves VerdictInv, whether or not a new command is latched.
LEMMA VerdictStep ==
  ASSUME TypeOK, VerdictInv, [Next]_vars
  PROVE  VerdictInv'
  <1>0. CASE UNCHANGED vars
    BY <1>0 DEF vars, VerdictInv, Latched
  <1> SUFFICES ASSUME OccClk, RegClk PROVE VerdictInv'
    BY <1>0 DEF Next
  <1>a. CmdLatch /\ DoneClk
    BY DEF RegClk
  <1>l. CASE IsStart /\ ~occ_start        \* a new command enters the latch
    <2>1. occ_start' = TRUE
      BY <1>a, <1>l DEF CmdLatch
    <2>2. state' = "CMP" => idx' = count_r'
      BY DEF OccClk, Hold, Accept, CmdReady, WriteWord, WdataReady, Starve, BlankWord,
             StoreDone, ReadWord, ReadDone, Compare, VerdictInv, TypeOK, Cmds
    <2> QED
      BY <2>1, <2>2 DEF VerdictInv
  <1>n. CASE ~(IsStart /\ ~occ_start)
    <2>a. /\ occ_start' = (occ_start /\ ~CmdReady /\ ~Refused)
          /\ occ_cmd' = occ_cmd
          /\ UNCHANGED <<frame_addr, word_count, expect_crc>>
      BY <1>a, <1>n DEF CmdLatch
    <2>d. IF Status \in {"DONE", "ERROR", "NEEDS_BLANK", "LOCKED"}
          THEN done_flag' = TRUE /\ done_code' = Status
          ELSE done_flag' = done_flag /\ done_code' = done_code
      BY <1>a, <1>n DEF DoneClk, sticky
    <2>1. CASE Hold
      <3>1. state = "IDLE" /\ state' = "IDLE" /\ ~CmdReady
            /\ UNCHANGED <<idx, addr_r, count_r, crc, expect_r>>
        BY <2>1 DEF Hold
      <3>2. CASE occ_start /\ ~occ_start'
        <4>1. Refused
          BY <3>1, <3>2, <2>a
        <4>2. occ_cmd # "READBACK"
          BY <4>1, <3>1 DEF Refused, Status, LockRefused, BlankRefused
        <4> QED
          BY <4>2, <3>1, <2>a DEF VerdictInv, Latched
      <3>3. CASE occ_start'
        BY <3>1, <3>3 DEF VerdictInv, Latched
      <3>4. CASE ~occ_start
        <4>1. Status = "IDLE"
          BY <3>1, <3>4 DEF Status
        <4> QED
          BY <4>1, <3>1, <3>4, <2>a, <2>d DEF VerdictInv, Latched
      <3> QED
        BY <3>2, <3>3, <3>4
    <2>2. CASE Accept
      <3>1. state' = occ_cmd /\ occ_cmd \in {"WRITE", "BLANK", "READBACK"}
        BY <2>2 DEF Accept, CmdReady, TypeOK, Cmds
      <3>2. addr_r' = frame_addr /\ count_r' = word_count /\ expect_r' = expect_crc
        BY <2>2 DEF Accept
      <3> QED
        BY <3>1, <3>2, <2>a DEF VerdictInv, Latched
    <2>3. CASE WriteWord \/ Starve \/ BlankWord \/ ReadWord
      <3>1. /\ state' = state /\ state \in {"WRITE", "BLANK", "READBACK"}
            /\ ~CmdReady /\ ~Refused /\ UNCHANGED <<addr_r, count_r, expect_r>>
        BY <2>3 DEF WriteWord, Starve, BlankWord, ReadWord, WdataReady, CmdReady,
                    Refused, Status
      <3> QED
        BY <3>1, <2>a DEF VerdictInv, Latched
    <2>4. CASE StoreDone
      <3>1. /\ state' = "IDLE" /\ state \in {"WRITE", "BLANK"}
            /\ ~CmdReady /\ ~Refused /\ UNCHANGED <<addr_r, count_r, expect_r>>
        BY <2>4 DEF StoreDone, CmdReady, Refused, Status
      <3> QED
        BY <3>1, <2>a DEF VerdictInv, Latched
    <2>5. CASE ReadDone
      <3>1. /\ state' = "CMP" /\ state = "READBACK" /\ idx' = count_r'
            /\ ~CmdReady /\ ~Refused /\ UNCHANGED <<addr_r, count_r, expect_r>>
        BY <2>5 DEF ReadDone, CmdReady, Refused, Status
      <3> QED
        BY <3>1, <2>a DEF VerdictInv, Latched
    <2>6. CASE Compare
      <3>1. /\ state = "CMP" /\ state' = "IDLE" /\ ~CmdReady
            /\ UNCHANGED <<idx, addr_r, count_r, crc, expect_r>>
        BY <2>6 DEF Compare, CmdReady
      <3>2. Status = IF crc = expect_r THEN "DONE" ELSE "ERROR"
        BY <3>1 DEF Status
      <3>3. done_code' = IF crc' = expect_r' THEN "DONE" ELSE "ERROR"
        BY <2>d, <3>1, <3>2
      <3>4. ~Refused
        BY <3>2 DEF Refused
      <3> QED
        BY <3>1, <3>3, <3>4, <2>a DEF VerdictInv, Latched
    <2> QED
      BY <2>1, <2>2, <2>3, <2>4, <2>5, <2>6 DEF OccClk
  <1> QED
    BY <1>l, <1>n

\* The completion of a READBACK says DONE exactly when the stored frame is the
\* expected stream, under any interleaving of the masters on the port.
THEOREM ReadbackVerdictExact == Spec => []ReadbackVerdict
  <1>1. Init => VerdictInv
    BY DEF Init, VerdictInv
  <1>2. TypeOK /\ VerdictInv /\ [Next]_vars => VerdictInv'
    BY VerdictStep
  <1>3. TypeOK /\ CrcDescribesStore /\ VerdictInv => ReadbackVerdict
    <2> SUFFICES ASSUME TypeOK, CrcDescribesStore, VerdictInv,
                        done_flag, occ_cmd = "READBACK", ~occ_start, state = "IDLE"
                 PROVE  done_code = (IF FrameMatches THEN "DONE" ELSE "ERROR")
      BY DEF ReadbackVerdict
    <2>1. /\ idx = count_r /\ Latched
          /\ done_code = (IF crc = expect_r THEN "DONE" ELSE "ERROR")
      BY DEF VerdictInv
    <2>2. /\ crc \in Seq(Word) /\ expect_r \in Seq(Word) /\ Len(crc) = count_r
          /\ \A i \in 1 .. count_r : crc[i] = cfg[At(addr_r, i - 1)]
      BY <2>1 DEF CrcDescribesStore, TypeOK
    <2>3. (crc = expect_r) <=> ( /\ Len(expect_r) = count_r
                                 /\ \A i \in 1 .. count_r :
                                      expect_r[i] = cfg[At(addr_r, i - 1)] )
      <3>1. ASSUME Len(expect_r) = count_r,
                   \A i \in 1 .. count_r : expect_r[i] = cfg[At(addr_r, i - 1)]
            PROVE  crc = expect_r
        <4>1. \A i \in 1 .. Len(crc) : crc[i] = expect_r[i]
          BY <2>2, <3>1
        <4> QED
          BY <2>2, <3>1, <4>1, SeqEqual
      <3>2. ASSUME crc = expect_r
            PROVE  /\ Len(expect_r) = count_r
                   /\ \A i \in 1 .. count_r : expect_r[i] = cfg[At(addr_r, i - 1)]
        BY <2>2, <3>2
      <3> QED
        BY <3>1, <3>2
    <2>4. (crc = expect_r) <=> FrameMatches
      BY <2>1, <2>3 DEF FrameMatches, Latched
    <2> QED
      BY <2>1, <2>4
  <1> QED
    BY <1>1, <1>2, <1>3, OccTypeCorrect, CrcAlwaysDescribesStore, PTL DEF Spec

-----------------------------------------------------------------------------
(* The completion a polite master polls.                                   *)

\* A polite master holds the port from the start of its command until the OCC
\* takes or refuses it, and starts the next one only after the flag: a command
\* is held only by the master that issued it, while the OCC is idle.
PoliteInv ==
  /\ done_flag => ~occ_start /\ state = "IDLE"
  /\ occ_cmd = "NOP" => ~occ_start /\ state = "IDLE" /\ ~done_flag
  /\ occ_start => IsStart
  /\ IsStart => state = "IDLE" /\ req.cmd # "NOP"

LEMMA PoliteStep == ASSUME Polite, TypeOK, PoliteInv, Next PROVE PoliteInv'
  <1>a. OccClk /\ CmdLatch /\ DoneClk /\ Master
    BY DEF Next, RegClk
  <1>i. ASSUME ~CmdReady, state = "IDLE" PROVE state' = "IDLE"
    BY <1>a, <1>i DEF OccClk, Hold, Accept, WriteWord, Starve, BlankWord, StoreDone,
       ReadWord, ReadDone, Compare, WdataReady
  <1>m. ASSUME HostReady, IsStart'
        PROVE  (done_flag \/ occ_cmd = "NOP") /\ req'.cmd # "NOP"
    <2>1. PICK q \in Requests : MayIssue(q) /\ req' = q
      BY <1>a, <1>m DEF Master
    <2> QED BY <1>m, <2>1 DEF MayIssue, IsStart
  <1>1. CASE IsStart /\ ~occ_start
    <2>1. ~HostReady /\ ~CmdReady
      BY <1>1 DEF HostReady, CmdReady, IsStart, IsPush
    <2>2. req' = req /\ state' = "IDLE"
      BY <1>1, <1>a, <1>i, <2>1 DEF Master, PoliteInv
    <2>3. ~done_flag' /\ occ_cmd' = req.cmd
      BY <1>1, <1>a DEF DoneClk, CmdLatch
    <2> QED
      BY <1>1, <2>2, <2>3 DEF PoliteInv, IsStart
  <1>2. CASE IsStart /\ occ_start
    <2>1. state = "IDLE" /\ occ_cmd # "NOP" /\ ~done_flag
      BY <1>2 DEF PoliteInv
    <2>2. CmdReady \/ Refused
      <3>1. LockRefused => Status = "LOCKED"
        BY <1>2, <2>1 DEF Status, BlankRefused
      <3>2. ~LockRefused /\ BlankRefused => Status = "NEEDS_BLANK"
        BY <1>2, <2>1 DEF Status
      <3> QED BY <1>2, <2>1, <3>1, <3>2 DEF CmdReady, Refused
    <2>3. HostReady
      BY <1>2, <2>2 DEF HostReady, IsStart, IsPush
    <2>4. ~IsStart'
      BY <2>1, <2>3, <1>m
    <2>5. ~occ_start' /\ occ_cmd' = occ_cmd
      BY <1>2, <1>a, <2>2 DEF CmdLatch
    <2>6. CASE CmdReady
      <3>1. Status = "IDLE"
        BY <2>6, <2>1 DEF CmdReady, Status
      <3>2. ~done_flag'
        BY <1>2, <1>a, <2>1, <3>1 DEF DoneClk, sticky
      <3> QED BY <2>1, <2>4, <2>5, <3>2 DEF PoliteInv
    <2>7. CASE ~CmdReady
      BY <2>1, <2>4, <2>5, <2>7, <1>i DEF PoliteInv
    <2> QED BY <2>6, <2>7
  <1>3. CASE ~IsStart
    <2>1. ~occ_start /\ ~CmdReady
      BY <1>3 DEF PoliteInv, CmdReady
    <2>2. ~occ_start' /\ occ_cmd' = occ_cmd
      BY <1>3, <1>a, <2>1 DEF CmdLatch
    <2>3. done_flag' => state' = "IDLE"
      <3>1. CASE done_flag
        BY <3>1, <2>1, <1>i DEF PoliteInv
      <3>2. CASE ~done_flag /\ Status \in {"DONE", "ERROR"}
        <4>1. \/ state \in {"WRITE", "BLANK"} /\ idx = count_r
              \/ state = "CMP"
          BY <3>2, <2>1 DEF Status, TypeOK
        <4> QED
          BY <4>1, <1>a DEF OccClk, Hold, Accept, WriteWord, Starve, BlankWord, StoreDone,
             ReadWord, ReadDone, Compare, WdataReady, CmdReady
      <3>3. CASE ~done_flag /\ Status \notin {"DONE", "ERROR"}
        <4>1. Status \notin {"LOCKED", "NEEDS_BLANK"}
          BY <2>1 DEF Status
        <4> QED BY <1>3, <1>a, <3>3, <4>1 DEF DoneClk, sticky
      <3> QED BY <3>1, <3>2, <3>3
    <2>4. occ_cmd = "NOP" => state' = "IDLE" /\ ~done_flag'
      <3> SUFFICES ASSUME occ_cmd = "NOP" PROVE state' = "IDLE" /\ ~done_flag'
        OBVIOUS
      <3>1. state = "IDLE" /\ ~done_flag
        BY DEF PoliteInv
      <3>2. Status = "IDLE"
        BY <2>1, <3>1 DEF Status
      <3> QED BY <1>3, <1>a, <1>i, <2>1, <3>1, <3>2 DEF DoneClk, sticky
    <2>5. IsStart' => state' = "IDLE" /\ req'.cmd # "NOP"
      <3> SUFFICES ASSUME IsStart' PROVE state' = "IDLE" /\ req'.cmd # "NOP"
        OBVIOUS
      <3>1. HostReady
        BY <1>3, <1>a DEF Master, IsStart
      <3> QED BY <3>1, <2>1, <1>i, <1>m DEF PoliteInv
    <2> QED BY <2>2, <2>3, <2>4, <2>5 DEF PoliteInv
  <1> QED BY <1>1, <1>2, <1>3

\* The sticky done_flag a polite master polls belongs to the command it issued:
\* it is never up while a command is held or runs.
THEOREM CompletionNeverStale == ASSUME Polite PROVE Spec => []NoStaleCompletion
  <1>1. Init => PoliteInv
    BY DEF Init, PoliteInv, IsStart, NoReq
  <1>2. ASSUME TypeOK, PoliteInv, [Next]_vars PROVE PoliteInv'
    <2>1. CASE Next
      BY <1>2, <2>1, PoliteStep
    <2>2. CASE UNCHANGED vars
      BY <1>2, <2>2 DEF PoliteInv, IsStart, vars
    <2> QED BY <1>2, <2>1, <2>2
  <1>3. TypeOK /\ PoliteInv /\ [Next]_vars => PoliteInv'
    BY <1>2
  <1>4. PoliteInv => NoStaleCompletion
    BY DEF PoliteInv, NoStaleCompletion
  <1> QED BY <1>1, <1>3, <1>4, OccTypeCorrect, PTL DEF Spec

=============================================================================
