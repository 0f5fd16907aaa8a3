--------------------------- MODULE EmriLogProofs ----------------------------
(***************************************************************************)
(* Theorems about the EMRI event ring and anomaly monitor, for a ring of   *)
(* any depth, pointers of any width that is a multiple of it, any number   *)
(* of regions and any set of bus accesses.                                 *)
(***************************************************************************)
EXTENDS EmriLog, SequenceTheorems, FiniteSetTheorems, WellFoundedInduction, TLAPS

\* The request on the host port is one a master made.
BusInv == state \in {"wr_host", "rd_host"} => req \in Requests

RingInv == TypeOK /\ BusInv /\ \A x \in Flag : snap[x] <= cnt[x]

\* The host releases a region's throttle only with all of its flags.
ReleasesWhole ==
  \A q \in Requests : q.op = "w1c" =>
    \A rg \in q.throttle : \A kd \in Kinds : <<kd, rg>> \in q.flags

\* A region with a flag up is throttled.
FlagInv == \A x \in flags : x[2] \in throttle

\* The monitor ticks slowly enough to drain all regions between two ticks
\* (EMRI_MON_TICK_DIV is 4096, MON_REGIONS 2).
SlowTick == TickDiv >= 2 * NumRegions

Blocked == Host("push") \/ Host("clear")

\* What is owed is drained before the next tick: the bus blocks the monitor for
\* one clock at a time, so an entry takes at most two.
DrainInv ==
  owed # {} => 2 * Cardinality(owed) - (IF Blocked THEN 0 ELSE 1) <= TickDiv - div

-----------------------------------------------------------------------------
(* Remainders.                                                             *)

LEMMA ModParts ==
  ASSUME NEW m \in Nat \ {0}, NEW a \in Int
  PROVE  \E q \in Int : a = q * m + (a % m)
  <1>1. a \div m \in Int /\ a = (a \div m) * m + (a % m)
    OBVIOUS
  <1> QED BY <1>1

LEMMA ModUnique ==
  ASSUME NEW m \in Nat \ {0}, NEW q \in Int, NEW r \in 0 .. m - 1,
         NEW p \in Int, NEW s \in 0 .. m - 1, q * m + r = p * m + s
  PROVE  r = s
  <1>1. CASE q = p
    BY <1>1
  <1>2. CASE q > p
    <2>1. q - p \in Int /\ q - p >= 1 /\ q = p + (q - p)
      BY <1>2
    <2>2. PICK d \in Int : d >= 1 /\ q = p + d
      BY <2>1
    <2>3. q * m = p * m + d * m /\ d * m >= m
      BY <2>2
    <2> QED BY <2>3
  <1>3. CASE q < p
    <2>1. p - q \in Int /\ p - q >= 1 /\ p = q + (p - q)
      BY <1>3
    <2>2. PICK d \in Int : d >= 1 /\ p = q + d
      BY <2>1
    <2>3. p * m = q * m + d * m /\ d * m >= m
      BY <2>2
    <2> QED BY <2>3
  <1> QED BY <1>1, <1>2, <1>3

LEMMA ModMult ==
  ASSUME NEW m \in Nat \ {0}, NEW a \in Int, NEW k \in Int
  PROVE  (a + k * m) % m = a % m
  <1>1. PICK q \in Int : a = q * m + (a % m)
    BY ModParts
  <1>2. a + k * m \in Int
    OBVIOUS
  <1>3. PICK p \in Int : a + k * m = p * m + ((a + k * m) % m)
    BY <1>2, ModParts
  <1>4. a % m \in 0 .. m - 1 /\ (a + k * m) % m \in 0 .. m - 1
    BY <1>2
  <1>5. q + k \in Int /\ (q + k) * m = q * m + k * m
    OBVIOUS
  <1>6. (q + k) * m + (a % m) = p * m + ((a + k * m) % m)
    BY <1>1, <1>3, <1>4, <1>5
  <1> QED BY <1>4, <1>5, <1>6, ModUnique

\* Two numbers less than m apart have different remainders.
LEMMA ModDistinct ==
  ASSUME NEW m \in Nat \ {0}, NEW a \in Int, NEW k \in 1 .. m - 1
  PROVE  (a + k) % m # a % m
  <1> SUFFICES ASSUME (a + k) % m = a % m PROVE FALSE
    OBVIOUS
  <1>1. PICK q \in Int : a = q * m + (a % m)
    BY ModParts
  <1>2. a + k \in Int
    OBVIOUS
  <1>3. PICK p \in Int : a + k = p * m + ((a + k) % m)
    BY <1>2, ModParts
  <1>4. a % m \in 0 .. m - 1
    OBVIOUS
  <1>5. q * m + k = p * m + 0
    BY <1>1, <1>3, <1>4
  <1>6. k = 0
    BY <1>5, ModUnique
  <1> QED BY <1>6

\* One turn more or less selects the same number of 0 .. m - 1.
LEMMA ModTurn ==
  ASSUME NEW m \in Nat \ {0}, NEW a \in Int, -m <= a, a < 2 * m
  PROVE  a % m = IF a < 0 THEN a + m ELSE IF a < m THEN a ELSE a - m
  OBVIOUS

-----------------------------------------------------------------------------
(* The ring.                                                               *)

USE DepthAssumption, PtrAssumption, RegionAssumption, TickAssumption, CountAssumption

\* A whole turn of the pointers is a number of turns of the storage.
LEMMA SlotOfPtr == ASSUME NEW a \in Int PROVE (a + PtrMod) % Depth = a % Depth
  <1>1. PICK k \in Int : PtrMod = k * Depth + (PtrMod % Depth)
    <2>1. PtrMod \in Int
      OBVIOUS
    <2> QED BY <2>1, ModParts
  <1>2. PtrMod = k * Depth
    BY <1>1
  <1> QED BY <1>2, ModMult

LEMMA PtrArith ==
  ASSUME NEW w \in 0 .. PtrMod - 1, NEW r \in 0 .. PtrMod - 1
  PROVE  /\ (w - r) % PtrMod = IF w < r THEN w - r + PtrMod ELSE w - r
         /\ Inc(w) = IF w = PtrMod - 1 THEN 0 ELSE w + 1
         /\ Inc(w) \in 0 .. PtrMod - 1
  <1>1. (w - r) % PtrMod = IF w < r THEN w - r + PtrMod ELSE w - r
    <2>1. PtrMod \in Nat \ {0} /\ w - r \in Int /\ -PtrMod <= w - r /\ w - r < PtrMod
      OBVIOUS
    <2>2. w - r < 2 * PtrMod
      BY <2>1
    <2>3. (w - r) % PtrMod = IF w - r < 0 THEN w - r + PtrMod
                             ELSE IF w - r < PtrMod THEN w - r ELSE w - r - PtrMod
      BY <2>1, <2>2, ModTurn
    <2> QED BY <2>1, <2>3
  <1>2. Inc(w) = IF w = PtrMod - 1 THEN 0 ELSE w + 1
    <2>1. PICK b \in Int : b = w + 1
      OBVIOUS
    <2>2. b % PtrMod = IF b < 0 THEN b + PtrMod ELSE IF b < PtrMod THEN b ELSE b - PtrMod
      <3>1. PtrMod \in Nat \ {0} /\ -PtrMod <= b /\ b < 2 * PtrMod
        BY <2>1
      <3> QED BY <3>1, ModTurn
    <2> QED BY <2>1, <2>2 DEF Inc
  <1> QED BY <1>1, <1>2

\* The pushed word goes right after the youngest entry, and the entry after the
\* oldest is where the read pointer moves.
LEMMA WriteSlot ==
  ASSUME NEW w \in 0 .. PtrMod - 1, NEW r \in 0 .. PtrMod - 1
  PROVE  w % Depth = (r + ((w - r) % PtrMod)) % Depth
  <1>1. PICK c \in Int : c = (w - r) % PtrMod
    BY PtrArith
  <1>2. w \in Int /\ (r + c = w \/ r + c = w + PtrMod)
    BY <1>1, PtrArith
  <1> QED BY <1>1, <1>2, SlotOfPtr

LEMMA ReadSlot ==
  ASSUME NEW r \in 0 .. PtrMod - 1, NEW k \in Int
  PROVE  (Inc(r) + k) % Depth = (r + 1 + k) % Depth
  <1>1. Inc(r) + k \in Int /\ (r + 1 + k = Inc(r) + k \/ r + 1 + k = (Inc(r) + k) + PtrMod)
    <2>1. Inc(r) = IF r = PtrMod - 1 THEN 0 ELSE r + 1
      BY PtrArith
    <2> QED BY <2>1
  <1> QED BY <1>1, SlotOfPtr

LEMMA CountNext ==
  ASSUME TypeOK, Ring
  PROVE  /\ wr_ptr' \in 0 .. PtrMod - 1 /\ rd_ptr' \in 0 .. PtrMod - 1
         /\ Count' = IF Host("clear") THEN 0
                     ELSE IF EvtPush THEN (IF Count = Depth THEN Depth ELSE Count + 1)
                     ELSE IF EvtPop THEN Count - 1 ELSE Count
         /\ Count' \in 0 .. Depth
  <1>a. /\ wr_ptr \in 0 .. PtrMod - 1 /\ rd_ptr \in 0 .. PtrMod - 1
        /\ Count \in 0 .. Depth
    BY DEF TypeOK
  <1>b. Count = IF wr_ptr < rd_ptr THEN wr_ptr - rd_ptr + PtrMod ELSE wr_ptr - rd_ptr
    BY <1>a, PtrArith DEF Count
  <1>c. /\ Inc(wr_ptr) = IF wr_ptr = PtrMod - 1 THEN 0 ELSE wr_ptr + 1
        /\ Inc(rd_ptr) = IF rd_ptr = PtrMod - 1 THEN 0 ELSE rd_ptr + 1
    BY <1>a, PtrArith
  <1>1. CASE Host("clear")
    <2>1. wr_ptr' = 0 /\ rd_ptr' = 0
      BY <1>1 DEF Ring
    <2>2. Count' = 0
      BY <2>1, PtrArith DEF Count
    <2> QED BY <2>1, <2>2, <1>1
  <1>2. CASE ~Host("clear") /\ EvtPush /\ Count = Depth
    <2>1. wr_ptr' = Inc(wr_ptr) /\ rd_ptr' = Inc(rd_ptr)
      BY <1>2 DEF Ring
    <2>2. wr_ptr' \in 0 .. PtrMod - 1 /\ rd_ptr' \in 0 .. PtrMod - 1
      BY <2>1, <1>a, <1>c
    <2>3. Count' = IF wr_ptr' < rd_ptr' THEN wr_ptr' - rd_ptr' + PtrMod
                                        ELSE wr_ptr' - rd_ptr'
      BY <2>2, PtrArith DEF Count
    <2>4. Count' = Count
      BY <2>1, <2>3, <1>a, <1>b, <1>c
    <2>5. Count' = Depth
      BY <2>4, <1>2
    <2> QED BY <2>2, <2>5, <1>2
  <1>3. CASE ~Host("clear") /\ EvtPush /\ Count # Depth
    <2>1. wr_ptr' = Inc(wr_ptr) /\ rd_ptr' = rd_ptr
      BY <1>3 DEF Ring
    <2>2. wr_ptr' \in 0 .. PtrMod - 1 /\ rd_ptr' \in 0 .. PtrMod - 1
      BY <2>1, <1>a, <1>c
    <2>3. Count' = IF wr_ptr' < rd_ptr' THEN wr_ptr' - rd_ptr' + PtrMod
                                        ELSE wr_ptr' - rd_ptr'
      BY <2>2, PtrArith DEF Count
    <2>4. Count' = Count + 1
      BY <2>1, <2>3, <1>a, <1>b, <1>c, <1>3
    <2>5. Count + 1 \in 0 .. Depth
      BY <1>3, <1>a
    <2> QED BY <2>2, <2>4, <2>5, <1>3
  <1>4. CASE ~Host("clear") /\ ~EvtPush /\ EvtPop
    <2>1. wr_ptr' = wr_ptr /\ rd_ptr' = Inc(rd_ptr) /\ Count # 0
      BY <1>4 DEF Ring, EvtPop
    <2>2. wr_ptr' \in 0 .. PtrMod - 1 /\ rd_ptr' \in 0 .. PtrMod - 1
      BY <2>1, <1>a, <1>c
    <2>3. Count' = IF wr_ptr' < rd_ptr' THEN wr_ptr' - rd_ptr' + PtrMod
                                        ELSE wr_ptr' - rd_ptr'
      BY <2>2, PtrArith DEF Count
    <2>4. Count' = Count - 1
      BY <2>1, <2>3, <1>a, <1>b, <1>c
    <2> QED BY <2>1, <2>2, <2>4, <1>4, <1>a
  <1>5. CASE ~Host("clear") /\ ~EvtPush /\ ~EvtPop
    <2>1. wr_ptr' = wr_ptr /\ rd_ptr' = rd_ptr
      BY <1>5 DEF Ring
    <2>2. Count' = Count
      BY <2>1 DEF Count
    <2> QED BY <2>1, <2>2, <1>5, <1>a
  <1> QED BY <1>1, <1>2, <1>3, <1>4, <1>5

-----------------------------------------------------------------------------
(* The invariant.                                                          *)

\* The fields of an access in its host phase are those of a request.
LEMMA HostFields ==
  ASSUME BusInv
  PROVE  /\ Host("push") => req.entry \in BusEntries
         /\ Host("window") => req.window \in Windows
         /\ Host("thresh") => req.thresh \in Threshs
  BY DEF BusInv, Host, BusEntries, Windows, Threshs

\* Of the owed regions one is the lowest.
LEMMA SelectedOwed ==
  ASSUME owed \subseteq Regions, owed # {}
  PROVE  Selected \in owed
  <1>1. owed \subseteq Nat
    BY DEF Regions
  <1>2. PICK rg \in owed : \A other \in owed : <<other, rg>> \notin OpToRel(<, Nat)
    BY <1>1, WFMin, NatLessThanWellFounded
  <1>3. ASSUME NEW other \in owed PROVE ~(other < rg)
    BY <1>1, <1>2, Zenon DEF OpToRel
  <1>4. \A other \in owed : rg <= other
    BY <1>1, <1>3
  <1> QED BY <1>4 DEF Selected

LEMMA EvtDataType ==
  ASSUME RingInv, EvtPush
  PROVE  EvtData \in Entries
  <1>1. CASE Host("push")
    BY <1>1, HostFields DEF EvtData, RingInv, Entries
  <1>2. CASE ~Host("push")
    <2>1. Selected \in owed /\ owed \subseteq Regions
      BY <1>2, SelectedOwed DEF EvtPush, EvtPushHw, RingInv, TypeOK
    <2>2. stamp[Selected] \in 0 .. TickMod - 1
      BY <2>1 DEF RingInv, TypeOK
    <2> QED BY <1>2, <2>1, <2>2 DEF EvtData, Entries
  <1> QED BY <1>1, <1>2

LEMMA RingInvStep ==
  ASSUME RingInv, Next
  PROVE  RingInv'
  <1> USE DEF RingInv
  <1>1. state' \in {"idle", "wr_host", "rd_host", "wr_b", "rd_r"}
    BY DEF Next, Adapter, Take, Access, Respond, bus, TypeOK
  <1>2. BusInv'
    BY DEF Next, Adapter, Take, Access, Respond, bus, BusInv
  <1>3. /\ wr_ptr' \in 0 .. PtrMod - 1 /\ rd_ptr' \in 0 .. PtrMod - 1
        /\ Count' \in 0 .. Depth
    BY CountNext DEF Next
  <1>4. evt_q' \in [0 .. Depth - 1 -> Entries \cup {Unwritten}]
    <2>1. CASE EvtPush /\ ~Host("clear")
      BY <2>1, EvtDataType DEF Next, Ring, TypeOK
    <2>2. CASE ~EvtPush \/ Host("clear")
      BY <2>2 DEF Next, Ring, TypeOK
    <2> QED BY <2>1, <2>2
  <1>5. window' \in Windows /\ thresh' \in Threshs
    BY HostFields DEF Next, Monitor, Config, TypeOK
  <1>6. div' \in 0 .. TickDiv - 1 /\ tick_cnt' \in 0 .. TickMod - 1 /\ win_cnt' \in Nat
    BY DEF Next, Monitor, Time, TypeOK
  <1>7. /\ cnt' \in [Flag -> 0 .. MaxCount] /\ snap' \in [Flag -> 0 .. MaxCount]
        /\ \A x \in Flag : snap'[x] <= cnt'[x]
    <2>1. \A x \in Flag : cnt[x] \in 0 .. MaxCount /\ snap[x] <= cnt[x]
                          /\ snap[x] \in 0 .. MaxCount
      BY DEF TypeOK
    <2>2. cnt' = [x \in Flag |-> IF x \in Notified /\ cnt[x] # MaxCount
                                 THEN cnt[x] + 1 ELSE cnt[x]]
      BY DEF Next, Monitor, Counters
    <2>3. \A x \in Flag : cnt'[x] \in 0 .. MaxCount /\ cnt[x] <= cnt'[x]
      BY <2>1, <2>2
    <2>4. cnt' \in [Flag -> 0 .. MaxCount]
      BY <2>2, <2>3
    <2>5. snap' = cnt \/ snap' = snap
      BY DEF Next, Monitor, Counters
    <2> QED BY <2>1, <2>3, <2>4, <2>5 DEF TypeOK
  <1>8. Spikes \subseteq Flag /\ EvtSet \subseteq Regions
        /\ {x[2] : x \in Spikes} \subseteq Regions
    BY DEF Spikes, EvtSet, Flag
  <1>9. flags' \subseteq Flag /\ throttle' \subseteq Regions
    BY <1>8 DEF Next, Monitor, Status, TypeOK
  <1>10. owed' \subseteq Regions
    BY <1>8 DEF Next, Monitor, Owed, TypeOK
  <1>11. stamp' \in [Regions -> 0 .. TickMod - 1]
    BY DEF Next, Monitor, Owed, TypeOK
  <1> QED BY <1>1, <1>2, <1>3, <1>4, <1>5, <1>6, <1>7, <1>9, <1>10, <1>11 DEF TypeOK

LEMMA RingInvInit == ASSUME Init PROVE RingInv
  <1>1. Count = 0
    BY PtrArith DEF Init, Count
  <1>2. cnt = [x \in Flag |-> 0] /\ snap = [x \in Flag |-> 0] /\ 0 \in 0 .. MaxCount
    BY DEF Init
  <1>3. /\ cnt \in [Flag -> 0 .. MaxCount] /\ snap \in [Flag -> 0 .. MaxCount]
        /\ \A x \in Flag : snap[x] <= cnt[x]
    BY <1>2
  <1>4. stamp \in [Regions -> 0 .. TickMod - 1]
    BY DEF Init
  <1>5. evt_q \in [0 .. Depth - 1 -> Entries \cup {Unwritten}]
    BY DEF Init
  <1> QED BY <1>1, <1>3, <1>4, <1>5 DEF Init, RingInv, TypeOK, BusInv

LEMMA RingInvAlways == Spec => []RingInv
  <1>1. Init => RingInv
    BY RingInvInit
  <1>2. ASSUME RingInv, UNCHANGED vars PROVE RingInv'
    BY <1>2 DEF RingInv, TypeOK, BusInv, Count, vars
  <1>3. RingInv /\ [Next]_vars => RingInv'
    BY <1>2, RingInvStep
  <1> QED BY <1>1, <1>3, PTL DEF Spec

\* The delta of a window is never negative and every register keeps its width,
\* whatever the bus masters write.
THEOREM DeltaNeverWrapsAlways == Spec => []DeltaNeverWraps
  <1>1. RingInv => DeltaNeverWraps
    BY DEF RingInv, DeltaNeverWraps
  <1> QED BY <1>1, RingInvAlways, PTL

-----------------------------------------------------------------------------
(* The ring implements EvtFifo.                                            *)

Word == Entries \cup {Unwritten}

\* The log is a sequence of Count words; slot k after the oldest is its entry k.
LEMMA LogType ==
  ASSUME NEW q \in [0 .. Depth - 1 -> Word], NEW r \in Nat, NEW c \in 0 .. Depth,
         NEW l, l = [k \in 1 .. c |-> q[(r + k - 1) % Depth]]
  PROVE  /\ l \in Seq(Word) /\ Len(l) = c
         /\ \A k \in 1 .. c : l[k] = q[(r + k - 1) % Depth]
         /\ l = <<>> <=> c = 0
  <1>1. \A k \in 1 .. c : q[(r + k - 1) % Depth] \in Word
    OBVIOUS
  <1>2. l \in [1 .. c -> Word]
    BY <1>1
  <1>3. l \in Seq(Word) /\ Len(l) = c
    <2>1. c \in Nat
      OBVIOUS
    <2>2. l \in Seq(Word)
      BY <1>2, <2>1, SeqDef, Zenon
    <2>3. DOMAIN l = 1 .. c /\ DOMAIN l = 1 .. Len(l) /\ Len(l) \in Nat
      BY <1>2, <2>2, LenProperties
    <2> QED BY <2>1, <2>2, <2>3
  <1>4. l = <<>> <=> c = 0
    BY <1>3, EmptySeq
  <1> QED BY <1>3, <1>4

LEMMA LogNow ==
  ASSUME TypeOK
  PROVE  /\ Log \in Seq(Word) /\ Len(Log) = Count /\ Count \in 0 .. Depth
         /\ \A k \in 1 .. Count : Log[k] = evt_q[(rd_ptr + k - 1) % Depth]
         /\ Log = <<>> <=> Count = 0
  <1>1. evt_q \in [0 .. Depth - 1 -> Word] /\ rd_ptr \in Nat /\ Count \in 0 .. Depth
    BY DEF TypeOK, Word
  <1>2. Log = [k \in 1 .. Count |-> evt_q[(rd_ptr + k - 1) % Depth]]
    BY DEF Log
  <1> QED BY <1>1, <1>2, LogType

LEMMA LogNext ==
  ASSUME TypeOK'
  PROVE  /\ Log' \in Seq(Word) /\ Len(Log') = Count' /\ Count' \in 0 .. Depth
         /\ \A k \in 1 .. Count' : Log'[k] = evt_q'[(rd_ptr' + k - 1) % Depth]
         /\ Log' = <<>> <=> Count' = 0
  <1>1. evt_q' \in [0 .. Depth - 1 -> Word] /\ rd_ptr' \in Nat /\ Count' \in 0 .. Depth
    BY DEF TypeOK, Word
  <1>2. Log' = [k \in 1 .. Count' |-> evt_q'[(rd_ptr' + k - 1) % Depth]]
    BY DEF Log
  <1> QED BY <1>1, <1>2, LogType

\* A push appends its word, behind the oldest entry's loss when the ring is full.
LEMMA LogPush ==
  ASSUME RingInv, RingInv', Ring, ~Host("clear"), EvtPush
  PROVE  /\ Log' = Append(IF Len(Log) = Depth THEN Tail(Log) ELSE Log, EvtData)
         /\ Log' # <<>> /\ Log'[Len(Log')] = EvtData
  <1> DEFINE kept == IF Len(Log) = Depth THEN Tail(Log) ELSE Log
             from == IF Count = Depth THEN 1 ELSE 0
  <1>a. /\ Log \in Seq(Word) /\ Len(Log) = Count /\ Count \in 0 .. Depth
        /\ \A k \in 1 .. Count : Log[k] = evt_q[(rd_ptr + k - 1) % Depth]
        /\ Log = <<>> <=> Count = 0
    BY LogNow DEF RingInv
  <1>b. /\ Log' \in Seq(Word) /\ Len(Log') = Count'
        /\ \A k \in 1 .. Count' : Log'[k] = evt_q'[(rd_ptr' + k - 1) % Depth]
        /\ Log' = <<>> <=> Count' = 0
    BY LogNext DEF RingInv
  <1>c. /\ wr_ptr \in 0 .. PtrMod - 1 /\ rd_ptr \in 0 .. PtrMod - 1 /\ wr_ptr \in Int
        /\ rd_ptr \in Int /\ evt_q \in [0 .. Depth - 1 -> Word]
    BY DEF RingInv, TypeOK, Word
  <1>d. Count' = Count - from + 1
    BY CountNext, <1>a DEF RingInv
  <1>e. /\ evt_q' = [evt_q EXCEPT ![wr_ptr % Depth] = EvtData]
        /\ rd_ptr' = IF Count = Depth THEN Inc(rd_ptr) ELSE rd_ptr
    BY DEF Ring
  <1>f. EvtData \in Word
    BY EvtDataType DEF Word
  \* The slots of the new log, counted from the old read pointer.
  <1>1. /\ wr_ptr % Depth = (rd_ptr + Count) % Depth
        /\ \A k \in 1 .. Count' : (rd_ptr' + k - 1) % Depth = (rd_ptr + from + k - 1) % Depth
    <2>1. wr_ptr % Depth = (rd_ptr + Count) % Depth
      BY <1>c, WriteSlot DEF Count
    <2>2. ASSUME NEW k \in 1 .. Count'
          PROVE (rd_ptr' + k - 1) % Depth = (rd_ptr + from + k - 1) % Depth
      <3>1. CASE Count = Depth
        <4>1. PICK j \in Int : j = k - 1
          BY <1>d, <1>a
        <4>2. (Inc(rd_ptr) + j) % Depth = (rd_ptr + 1 + j) % Depth
          BY <1>c, ReadSlot
        <4>3. /\ rd_ptr' + k - 1 = Inc(rd_ptr) + j
              /\ rd_ptr + from + k - 1 = rd_ptr + 1 + j
          BY <1>c, <1>e, <3>1, <4>1, PtrArith
        <4> QED BY <4>2, <4>3
      <3>2. CASE Count # Depth
        BY <3>2, <1>e, <1>c
      <3> QED BY <3>1, <3>2
    <2> QED BY <2>1, <2>2
  <1>2. Log'[Count'] = EvtData
    <2>1. Count' \in 1 .. Count' /\ rd_ptr + from + Count' - 1 = rd_ptr + Count
      BY <1>a, <1>c, <1>d
    <2>2. (rd_ptr' + Count' - 1) % Depth = wr_ptr % Depth
      BY <1>1, <2>1
    <2>3. wr_ptr % Depth \in 0 .. Depth - 1
      BY <1>c
    <2> QED BY <1>b, <1>c, <1>e, <2>1, <2>2, <2>3
  <1>3. ASSUME NEW k \in 1 .. Count' - 1
        PROVE  k + from \in 1 .. Count /\ Log'[k] = Log[k + from]
    <2>1. k \in 1 .. Count' /\ k + from \in 1 .. Count /\ k \in Int
      BY <1>a, <1>d
    <2>2. PICK a \in Int : a = rd_ptr + from + k - 1
      BY <1>a, <1>c, <2>1
    <2>3. PICK d \in 1 .. Depth - 1 : a + d = rd_ptr + Count
      <3>1. rd_ptr + Count - a \in 1 .. Depth - 1
        BY <1>a, <1>c, <1>d, <2>1, <2>2
      <3>2. a + (rd_ptr + Count - a) = rd_ptr + Count
        BY <1>a, <1>c
      <3> QED BY <3>1, <3>2
    <2>4. a % Depth # wr_ptr % Depth
      BY <1>1, <2>3, ModDistinct
    <2>5. (rd_ptr' + k - 1) % Depth = a % Depth
      BY <1>1, <2>1, <2>2
    <2>6. a % Depth \in 0 .. Depth - 1
      BY <2>2
    <2>7. evt_q'[a % Depth] = evt_q[a % Depth]
      BY <2>4, <2>6, <1>c, <1>e
    <2>8. rd_ptr + (k + from) - 1 = a
      BY <2>2, <2>1, <1>c
    <2> QED BY <1>a, <1>b, <2>1, <2>5, <2>7, <2>8
  <1>4. /\ kept \in Seq(Word) /\ Len(kept) = Count' - 1
        /\ \A k \in 1 .. Count' - 1 : kept[k] = Log[k + from]
    <2>1. CASE Count = Depth
      BY <2>1, <1>a, <1>d, HeadTailProperties
    <2>2. CASE Count # Depth
      BY <2>2, <1>a, <1>d
    <2> QED BY <2>1, <2>2
  <1>5. /\ Append(kept, EvtData) \in Seq(Word)
        /\ Len(Append(kept, EvtData)) = Count'
        /\ Append(kept, EvtData)[Count'] = EvtData
        /\ \A k \in 1 .. Count' - 1 : Append(kept, EvtData)[k] = kept[k]
    <2> HIDE DEF kept
    <2>1. Len(kept) \in Nat /\ Count' = Len(kept) + 1
      BY <1>4, <1>a, <1>d
    <2>2. /\ Append(kept, EvtData) \in Seq(Word)
          /\ Len(Append(kept, EvtData)) = Len(kept) + 1
          /\ \A k \in 1 .. Len(kept) : Append(kept, EvtData)[k] = kept[k]
          /\ Append(kept, EvtData)[Len(kept) + 1] = EvtData
      BY <1>4, <1>f, AppendProperties
    <2> QED BY <1>4, <2>1, <2>2
  <1>6. \A k \in 1 .. Count' : Log'[k] = Append(kept, EvtData)[k]
    <2> HIDE DEF kept
    <2> QED BY <1>2, <1>3, <1>4, <1>5, <1>a, <1>d
  <1>7. Log' = Append(kept, EvtData)
    <2> HIDE DEF kept
    <2> QED BY <1>5, <1>6, <1>b, SeqEqual
  <1> QED BY <1>2, <1>7, <1>b, <1>d, <1>a

\* A pop drops the oldest entry and moves nothing else.
LEMMA LogPop ==
  ASSUME RingInv, RingInv', Ring, ~Host("clear"), ~EvtPush, EvtPop
  PROVE  Log # <<>> /\ Log' = Tail(Log)
  <1>a. /\ Log \in Seq(Word) /\ Len(Log) = Count /\ Count \in 0 .. Depth
        /\ \A k \in 1 .. Count : Log[k] = evt_q[(rd_ptr + k - 1) % Depth]
        /\ Log = <<>> <=> Count = 0
    BY LogNow DEF RingInv
  <1>b. /\ Log' \in Seq(Word) /\ Len(Log') = Count'
        /\ \A k \in 1 .. Count' : Log'[k] = evt_q'[(rd_ptr' + k - 1) % Depth]
    BY LogNext DEF RingInv
  <1>c. Count # 0 /\ Count' = Count - 1 /\ evt_q' = evt_q /\ rd_ptr' = Inc(rd_ptr)
    BY CountNext DEF RingInv, EvtPop, Ring
  <1>d. rd_ptr \in 0 .. PtrMod - 1 /\ Inc(rd_ptr) \in Int
    <2>1. rd_ptr \in 0 .. PtrMod - 1
      BY DEF RingInv, TypeOK
    <2> QED BY <2>1, PtrArith
  <1>1. /\ Tail(Log) \in Seq(Word) /\ Len(Tail(Log)) = Count - 1
        /\ \A k \in 1 .. Count - 1 : Tail(Log)[k] = Log[k + 1]
    BY <1>a, <1>c, HeadTailProperties
  <1>2. ASSUME NEW k \in 1 .. Count' PROVE Log'[k] = Tail(Log)[k]
    <2>1. PICK j \in Int : j = k - 1
      BY <1>a, <1>c
    <2>2. (Inc(rd_ptr) + j) % Depth = (rd_ptr + 1 + j) % Depth
      BY <1>d, ReadSlot
    <2>3. rd_ptr' + k - 1 = Inc(rd_ptr) + j /\ rd_ptr + (k + 1) - 1 = rd_ptr + 1 + j
      BY <1>c, <1>d, <2>1
    <2>4. k \in 1 .. Count - 1 /\ k + 1 \in 1 .. Count
      BY <1>a, <1>c
    <2>5. Log'[k] = evt_q[(rd_ptr + (k + 1) - 1) % Depth]
      BY <1>b, <1>c, <2>2, <2>3
    <2> QED BY <1>a, <1>1, <2>4, <2>5
  <1>3. Log' = Tail(Log)
    BY <1>1, <1>2, <1>b, <1>c, SeqEqual
  <1> QED BY <1>3, <1>a, <1>c

LEMMA LogStep ==
  ASSUME RingInv, RingInv', Ring
  PROVE  [Fifo!Next]_Log
  <1>1. CASE Host("clear")
    <2>1. Count' = 0
      BY <1>1, CountNext DEF RingInv
    <2>2. Log' = <<>>
      BY <2>1, LogNext DEF RingInv
    <2> QED BY <2>2 DEF Fifo!Next, Fifo!Clear
  <1>2. CASE ~Host("clear") /\ EvtPush
    <2>1. Log' = Append(IF Len(Log) = Depth THEN Tail(Log) ELSE Log, EvtData)
      BY <1>2, LogPush
    <2>2. EvtData \in Entries
      BY <1>2, EvtDataType
    <2> QED BY <2>1, <2>2 DEF Fifo!Next, Fifo!Push
  <1>3. CASE ~Host("clear") /\ ~EvtPush /\ EvtPop
    <2>1. Log # <<>> /\ Log' = Tail(Log)
      BY <1>3, LogPop
    <2> QED BY <2>1 DEF Fifo!Next, Fifo!Pop
  <1>4. CASE ~Host("clear") /\ ~EvtPush /\ ~EvtPop
    <2>1. UNCHANGED <<evt_q, wr_ptr, rd_ptr>>
      BY <1>4 DEF Ring
    <2> QED BY <2>1 DEF Log, Count
  <1> QED BY <1>1, <1>2, <1>3, <1>4

\* The ring with its two free-running pointers implements the bounded
\* first-in first-out log: over pointer wrap, overflow, clears and both producers
\* an entry leaves only as the oldest, and what is read is what was pushed.
THEOREM RingImplementsFifo == Spec => RingIsFifo
  <1>1. Init => Fifo!Init
    <2> SUFFICES ASSUME Init PROVE Log = <<>>
      BY DEF Fifo!Init
    <2>1. RingInv /\ Count = 0
      BY RingInvInit, PtrArith DEF Init, Count
    <2> QED BY <2>1, LogNow DEF RingInv
  <1>2. ASSUME RingInv, RingInv', [Next]_vars PROVE [Fifo!Next]_Log
    <2>1. CASE Next
      BY <1>2, <2>1, LogStep DEF Next
    <2>2. CASE UNCHANGED vars
      BY <2>2 DEF Log, Count, vars
    <2> QED BY <1>2, <2>1, <2>2
  <1>3. RingInv /\ RingInv' /\ [Next]_vars => [Fifo!Next]_Log
    BY <1>2
  <1> QED BY <1>1, <1>3, RingInvAlways, PTL DEF Spec, RingIsFifo, Fifo!Spec

-----------------------------------------------------------------------------
(* No throttle goes unreported.                                            *)

LEMMA FlagInvStep ==
  ASSUME ReleasesWhole, RingInv, FlagInv, Next
  PROVE  FlagInv'
  <1> SUFFICES ASSUME NEW x \in flags' PROVE x[2] \in throttle'
    BY DEF FlagInv
  <1>1. CASE x \in Spikes
    BY <1>1 DEF Next, Monitor, Status
  <1>2. CASE x \notin Spikes
    <2>1. x \in flags /\ (Host("w1c") => x \notin req.flags)
      BY <1>2 DEF Next, Monitor, Status
    <2>2. PICK kd \in Kinds, rg \in Regions : x = <<kd, rg>>
      BY <2>1 DEF RingInv, TypeOK, Flag
    <2>3. rg \in throttle
      BY <2>1, <2>2 DEF FlagInv
    <2>4. Host("w1c") => rg \notin req.throttle
      BY <2>1, <2>2 DEF ReleasesWhole, RingInv, BusInv, Host
    <2> QED BY <2>2, <2>3, <2>4 DEF Next, Monitor, Status
  <1> QED BY <1>1, <1>2

\* The bus blocks the monitor for one clock only: a push and a clear are accepted
\* at once, and their response takes a clock.
LEMMA BlockedOnce == ASSUME Blocked, Next PROVE ~Blocked'
  BY DEF Blocked, Host, Next, Adapter, Take, Access, Respond

LEMMA OwedFinite ==
  ASSUME NEW S \in SUBSET Regions
  PROVE  IsFiniteSet(S) /\ Cardinality(S) \in Nat /\ Cardinality(S) <= NumRegions
  <1>1. IsFiniteSet(Regions) /\ Cardinality(Regions) = NumRegions
    BY FS_Interval DEF Regions
  <1> QED BY <1>1, FS_Subset, FS_CardinalityType

\* At a tick nothing is owed but what is being pushed.
LEMMA DrainedAtTick ==
  ASSUME RingInv, DrainInv, Tick, owed # {}
  PROVE  EvtPushHw /\ owed = {Selected}
  <1>1. owed \in SUBSET Regions
    BY DEF RingInv, TypeOK
  <1>2. Cardinality(owed) \in Nat /\ IsFiniteSet(owed) /\ Cardinality(owed) # 0
    BY <1>1, OwedFinite, FS_EmptySet
  <1>3. 2 * Cardinality(owed) - (IF Blocked THEN 0 ELSE 1) <= 1
    BY DEF DrainInv, Tick
  <1>4. Cardinality(owed) = 1 /\ ~Blocked
    BY <1>2, <1>3
  <1>5. EvtPushHw
    BY <1>4 DEF EvtPushHw, Blocked
  <1>6. PICK rg : owed = {rg}
    BY <1>2, <1>4, FS_Singleton
  <1>7. Selected \in owed
    BY <1>1, SelectedOwed
  <1> QED BY <1>5, <1>6, <1>7

LEMMA DrainInvStep ==
  ASSUME SlowTick, RingInv, DrainInv, Next
  PROVE  DrainInv'
  <1> DEFINE n == Cardinality(owed)
  <1>a. owed \in SUBSET Regions /\ owed' \in SUBSET Regions
    BY RingInvStep DEF RingInv, TypeOK
  <1>b. /\ IsFiniteSet(owed) /\ n \in Nat /\ Cardinality(owed') \in Nat
        /\ Cardinality(owed') <= NumRegions
    BY <1>a, OwedFinite
  <1>c. div \in 0 .. TickDiv - 1 /\ div' = (div + 1) % TickDiv
    BY DEF RingInv, TypeOK, Next, Monitor, Time
  <1>1. CASE Tick
    <2>1. div' = 0
      BY <1>1, <1>c DEF Tick
    <2> QED BY <2>1, <1>b DEF DrainInv, SlowTick
  <1>2. CASE ~Tick
    <2>1. div' = div + 1
      BY <1>2, <1>c DEF Tick
    <2>2. EvtSet = {}
      BY <1>2 DEF EvtSet, Spikes, Expire
    <2>3. CASE owed = {}
      BY <2>2, <2>3 DEF DrainInv, Next, Monitor, Owed
    <2>4. CASE owed # {} /\ Blocked
      <3>1. owed' = owed
        BY <2>2, <2>4 DEF Next, Monitor, Owed, EvtPushHw, Blocked
      <3>2. ~Blocked'
        BY <2>4, BlockedOnce
      <3>3. 2 * n <= TickDiv - div
        BY <2>4, <1>b DEF DrainInv
      <3> QED BY <3>1, <3>2, <3>3, <2>1, <1>b, <1>c DEF DrainInv
    <2>5. CASE owed # {} /\ ~Blocked
      <3>1. owed' = owed \ {Selected}
        BY <2>2, <2>5 DEF Next, Monitor, Owed, EvtPushHw, Blocked
      <3>2. Selected \in owed
        BY <2>5, <1>a, SelectedOwed
      <3>3. Cardinality(owed') = n - 1
        BY <3>1, <3>2, <1>b, FS_RemoveElement
      <3>4. 2 * n - 1 <= TickDiv - div
        BY <2>5 DEF DrainInv
      <3> QED BY <3>3, <3>4, <2>1, <1>b, <1>c DEF DrainInv
    <2> QED BY <2>3, <2>4, <2>5
  <1> QED BY <1>1, <1>2

LEMMA LoggedStep ==
  ASSUME RingInv, RingInv', FlagInv, DrainInv, Next
  PROVE  /\ \A rg \in Regions : rg \in throttle' /\ rg \notin throttle => rg \in owed'
         /\ \A rg \in owed : (rg \notin owed' \/ stamp'[rg] # stamp[rg]) =>
              Log' # <<>> /\ Log'[Len(Log')] = Anomaly(rg, stamp[rg])
  <1>1. ASSUME NEW rg \in Regions, rg \in throttle', rg \notin throttle
        PROVE  rg \in owed'
    <2>1. PICK x \in Spikes : x[2] = rg
      BY <1>1 DEF Next, Monitor, Status
    <2>2. x \notin flags
      BY <1>1, <2>1 DEF FlagInv
    <2>3. rg \in EvtSet
      BY <2>1, <2>2 DEF EvtSet
    <2> QED BY <2>3 DEF Next, Monitor, Owed
  <1>2. ASSUME NEW rg \in owed, rg \notin owed' \/ stamp'[rg] # stamp[rg]
        PROVE  Log' # <<>> /\ Log'[Len(Log')] = Anomaly(rg, stamp[rg])
    <2>1. rg \in Regions
      BY DEF RingInv, TypeOK
    <2>2. EvtPushHw /\ rg = Selected
      <3>1. CASE rg \notin owed'
        BY <3>1 DEF Next, Monitor, Owed
      <3>2. CASE stamp'[rg] # stamp[rg]
        <4>1. rg \in EvtSet
          BY <3>2, <2>1 DEF Next, Monitor, Owed
        <4>2. Tick
          BY <4>1 DEF EvtSet, Spikes, Expire
        <4> QED BY <4>2, DrainedAtTick
      <3> QED BY <1>2, <3>1, <3>2
    <2>3. ~Host("clear") /\ EvtPush /\ EvtData = Anomaly(rg, stamp[rg])
      BY <2>2 DEF EvtPushHw, EvtPush, EvtData
    <2> QED BY <2>3, LogPush DEF Next
  <1> QED BY <1>1, <1>2

\* No throttle goes unreported, however busy the bus is: a region throttled anew
\* owes an entry, and an owed entry is given up, or stamped anew, only in the
\* clock in which it enters the log.  The host releases a region together with
\* its flags, and the tick is no faster than two clocks per region.
THEOREM ThrottleIsLogged ==
  ASSUME ReleasesWhole, SlowTick
  PROVE  Spec => ThrottleLogged
  <1>1. Init => FlagInv /\ DrainInv
    BY DEF Init, FlagInv, DrainInv
  <1>2. ASSUME RingInv, FlagInv, DrainInv, [Next]_vars PROVE FlagInv' /\ DrainInv'
    <2>1. CASE Next
      BY <1>2, <2>1, FlagInvStep, DrainInvStep
    <2>2. CASE UNCHANGED vars
      BY <1>2, <2>2 DEF FlagInv, DrainInv, Blocked, Host, vars
    <2> QED BY <1>2, <2>1, <2>2
  <1>3. RingInv /\ FlagInv /\ DrainInv /\ [Next]_vars => FlagInv' /\ DrainInv'
    BY <1>2
  <1>4. RingInv /\ RingInv' /\ FlagInv /\ DrainInv /\ [Next]_vars =>
          [/\ \A rg \in Regions : rg \in throttle' /\ rg \notin throttle => rg \in owed'
           /\ \A rg \in owed : (rg \notin owed' \/ stamp'[rg] # stamp[rg]) =>
                Log' # <<>> /\ Log'[Len(Log')] = Anomaly(rg, stamp[rg])]_vars
    BY LoggedStep
  <1> QED BY <1>1, <1>3, <1>4, RingInvAlways, PTL DEF Spec, ThrottleLogged
=============================================================================
