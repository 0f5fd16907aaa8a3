---------------------------- MODULE DaemonProofs ----------------------------
(***************************************************************************)
(* Theorems about Daemon, for every number of regions, columns and frame   *)
(* words, every set of doorbells and, where not said otherwise, every      *)
(* fault of the surroundings.                                              *)
(***************************************************************************)
EXTENDS Daemon, TLAPS

USE RegionAssumption, ColAssumption, WordAssumption, ColWordsAssumption, UpsetAssumption

-----------------------------------------------------------------------------
(* The inductive invariant behind TypeOK: the region, columns and words in *)
(* hand at each point of a command.                                        *)

Deploys == {"arm", "load", "drain", "push", "gate", "readback", "commit"}
InBlank == {"blank", "blanked"}

\* The region in hand is a region, and the columns in hand are its columns.
HandOK ==
  /\ pc \in Deploys \cup InBlank \cup {"lock", "stopped", "rerun", "probe"}
       => r \in Regions
  /\ pc \in Deploys \cup {"probe"} \/ (pc \in InBlank /\ ret # "wdt")
       => r + k <= FabCols /\ cend = LastCol(r, k)
  /\ pc \in {"blank", "arm", "load", "drain", "push", "readback", "probe"}
       => c <= cend

\* A deploy in flight has words, fits its region's columns, and nobody stages
\* another image before busy is cleared.
StageOK ==
  /\ pc \in Deploys \/ (pc \in InBlank /\ ret = "run") => n >= 1
  /\ pc = "alloc" => image.words >= 1 /\ (k # 0 => image.cols >= 1)
  /\ \/ efp_busy
     \/ pc \in {"idle", "hb", "probe"}
     \/ pc \in InBlank /\ ret = "hb"
  /\ \A rg \in Regions : rg + rcols[rg] <= FabCols

\* The drain pushes while it may, and the armed WRITE has words to come.
StreamOK == /\ pc = "push" => z > 0
            /\ wr.on => wr.idx < wr.cnt

IInv == TypeOK /\ HandOK /\ StageOK /\ StreamOK

\* The columns of a region that fits the fabric are columns of the fabric.
LEMMA ColRange ==
  ASSUME NEW rg \in Regions, NEW cl \in 0 .. FabCols, rg + cl <= FabCols
  PROVE  /\ FirstCol(rg, cl) \in Cols /\ LastCol(rg, cl) \in Cols
         /\ FirstCol(rg, cl) <= LastCol(rg, cl)
  BY DEF FirstCol, LastCol, Regions, Cols

\* What a call of the BLANK helpers leaves in the locals.
LEMMA BlankCall ==
  ASSUME NEW caller, NEW rg \in Regions, NEW words \in 0 .. MaxWords,
         NEW cl \in 0 .. FabCols, rg + cl <= FabCols,
         CallBlank(caller, rg, words, cl)
  PROVE  /\ pc' = "blank" /\ ret' = caller
         /\ r' \in Regions /\ n' = words /\ k' \in 0 .. FabCols
         /\ r' + k' <= FabCols /\ cend' = LastCol(r', k')
         /\ c' \in Cols /\ cend' \in Cols /\ c' <= cend'
  BY ColRange DEF CallBlank

\* Freeing a region keeps the table well formed.
LEMMA ReleaseTable ==
  ASSUME TableOK, \A x \in Regions : x + rcols[x] <= FabCols,
         NEW rg \in Regions, Release(rg)
  PROVE  TableOK' /\ \A x \in Regions : x + rcols'[x] <= FabCols
  <1>1. /\ rstate' \in [Regions -> {"FREE", "RUNNING", "PAUSED"}]
        /\ rwords' \in [Regions -> 0 .. MaxWords]
        /\ rcols' \in [Regions -> 0 .. FabCols]
    BY DEF TableOK, Release
  <1>2. \A x \in Regions : x + rcols'[x] <= FabCols
    <2>1. SUFFICES ASSUME NEW x \in Regions PROVE x + rcols'[x] <= FabCols
      OBVIOUS
    <2>2. rcols'[x] = IF x = rg THEN 0 ELSE rcols[x]
      BY DEF TableOK, Release
    <2>3. x \in Nat
      BY RegionAssumption DEF Regions
    <2>4. rcols[x] \in 0 .. FabCols
      BY DEF TableOK
    <2>5. x + rcols[x] <= FabCols
      OBVIOUS
    <2> QED BY <2>2, <2>3, <2>4, <2>5, ColAssumption
  <1> QED
    BY <1>1, <1>2 DEF TableOK, Release

\* fail() and set_state() write the EFP registers within their ranges.
LEMMA EfpWrites ==
  ASSUME EfpOK, NEW e \in Errors,
         NEW s \in {"VERIFY", "ALLOC", "BLANK", "LOAD", "READBACK"}
  PROVE  (Fail(e) => EfpOK') /\ (SetState(s) => EfpOK')
  BY DEF EfpOK, Fail, SetState

\* The EFP registers as a whole, when a step leaves them alone.
LEMMA EfpKept == ASSUME EfpOK, UNCHANGED efp PROVE EfpOK'
  BY DEF EfpOK, efp

\* The table as a whole, when a step leaves it alone.
LEMMA TableKept == ASSUME TableOK, UNCHANGED table PROVE TableOK'
  BY DEF TableOK, table

\* The hardware as a whole, when a step leaves it alone.
LEMMA HwKept == ASSUME HwOK, UNCHANGED hw PROVE HwOK'
  BY DEF HwOK, hw, lkm, occ

\* The observation variables, when a step leaves them alone.
LEMMA ObsKept == ASSUME ObsOK, UNCHANGED obs PROVE ObsOK'
  BY DEF ObsOK, obs

\* What a step of the surroundings leaves the daemon: its locals, its table and
\* the EFP registers.
LEMMA DaemonKept ==
  ASSUME LocalsOK, TableOK, EfpOK, HandOK, StageOK,
         UNCHANGED local, UNCHANGED table, UNCHANGED efp
  PROVE  LocalsOK' /\ TableOK' /\ EfpOK' /\ HandOK' /\ StageOK'
  <1>1. UNCHANGED <<pc, ret, sel, r, c, cend, n, k, z, err>>
    BY DEF local, args
  <1>2. UNCHANGED <<rcols, image, efp_busy>>
    BY DEF table, efp
  <1>3. LocalsOK' /\ HandOK'
    BY <1>1 DEF LocalsOK, HandOK
  <1>4. StageOK'
    BY <1>1, <1>2 DEF StageOK
  <1> QED
    BY <1>3, <1>4, TableKept, EfpKept

\* A notification only throttles regions.
LEMMA NotifyType ==
  ASSUME HwOK, r \in Regions, Notify
  PROVE  throttled' \subseteq Regions
  BY DEF HwOK, Notify

\* What BLANK and READBACK stream is a sequence of words.
LEMMA StreamType ==
  ASSUME HwOK, NEW m \in 0 .. MaxWords, NEW w \in Windows
  PROVE  [i \in 1 .. m |-> Blank] \in Seq(Word) /\ Stream(w, m) \in Seq(Word)
  <1>1. Blank \in Word
    BY DEF Blank, Word
  <1>2. \A i \in 1 .. m : store[w][i] \in Word
    BY DEF HwOK, Frame, Slots
  <1> QED
    BY <1>1, <1>2 DEF Stream

\* A doorbell's command selects a handler.
LEMMA EntryType ==
  ASSUME NEW cmd \in Commands
  PROVE  Entry(cmd) \in {"verify", "reject", "stop", "restart", "abort",
                         "ctx_save", "ctx_restore"}
  BY DEF Entry, Commands

\* The outcome of the VERIFY gates.
LEMMA VerifyErrorType ==
  /\ VerifyError \in Errors
  /\ EfpOK /\ VerifyError = "none" =>
       image.words >= 1 /\ (k # 0 => image.cols >= 1)
  BY DEF VerifyError, Errors, EfpOK, Images

\* A set of regions that is not empty has a least one.
LEMMA LeastRegion ==
  ASSUME NEW F \in SUBSET (0 .. 7), F # {}
  PROVE  \E i \in F : \A j \in F : i <= j
  <1> DEFINE Below(m) == \A j \in F : j >= m
  <1> SUFFICES ASSUME \A i \in F : \E j \in F : j < i
               PROVE  FALSE
    OBVIOUS
  <1>1. \A m \in 0 .. 7 : Below(m) => Below(m + 1)
    OBVIOUS
  <1>2. Below(0)
    OBVIOUS
  <1> HIDE DEF Below
  <1>3. Below(4)
    BY <1>1, <1>2
  <1>4. Below(8)
    BY <1>1, <1>3
  <1>5. PICK x \in F : TRUE
    OBVIOUS
  <1> QED
    BY <1>4, <1>5 DEF Below

\* The outcome of the ALLOC gates: the region is FREE and its columns fit.
LEMMA AllocErrorType ==
  ASSUME IInv
  PROVE  /\ AllocError \in Errors
         /\ AllocError # "region_full" =>
              Allocated \in Regions /\ rstate[Allocated] = "FREE"
         /\ AllocError = "none" /\ k # 0 => Allocated + image.cols <= FabCols
  <1>1. FreeRegions # {} =>
          (CHOOSE i \in FreeRegions : \A j \in FreeRegions : i <= j) \in FreeRegions
    <2>1. FreeRegions \in SUBSET (0 .. 7)
      BY DEF FreeRegions, Regions
    <2> QED
      BY <2>1, LeastRegion
  <1>2. Allocated \in FreeRegions \cup {NoRegion}
    BY <1>1 DEF Allocated
  <1>3. AllocError # "region_full" => Allocated # NoRegion
    BY DEF AllocError
  <1>4. AllocError \in Errors
    BY DEF AllocError, Errors
  <1>5. AllocError = "none" /\ k # 0 => ~(Allocated + image.cols > FabCols)
    BY DEF AllocError
  <1>6. k # 0 /\ Allocated \in Regions => Allocated + image.cols \in Int
    BY DEF IInv, TypeOK, EfpOK, Images, Regions
  <1> QED
    BY <1>2, <1>3, <1>4, <1>5, <1>6 DEF FreeRegions

\* The decoder a stream finds, armed for it or not, is a decoder.
LEMMA ArmedType ==
  ASSUME dec \in Decodes, c \in Cols
  PROVE  Armed \in Decodes
  <1>1. ColWords[c] \in Nat \ {0}
    BY ColWordsAssumption
  <1>2. Decode(c) \in [on : {TRUE}, col : Cols, got : Nat, by : SUBSET (Regions \cup {NoRegion})]
    BY DEF Decode
  <1>3. Decode(c).got < ColWords[Decode(c).col]
    BY <1>1 DEF Decode
  <1>4. Decode(c) \in Decodes
    BY <1>2, <1>3 DEF Decodes
  <1> QED BY <1>4 DEF Armed

\* An armed decoder has a column, a count below its words and its streams.
LEMMA ArmedDecoder ==
  ASSUME dec \in Decodes, dec.on
  PROVE  dec \in [on : {TRUE}, col : Cols, got : Nat, by : SUBSET (Regions \cup {NoRegion})]
  <1>1. dec # NoDecode
    BY DEF NoDecode
  <1> QED BY <1>1 DEF Decodes

\* What a stream leaves in the decoder and the fabric.
LEMMA CaptureType ==
  ASSUME NEW d \in Decodes, NEW m \in Nat, NEW rg \in Regions \cup {NoRegion},
         fabric \in [Cols -> Regions \cup {NoRegion, Mixed}], Capture(d, m, rg)
  PROVE  dec' \in Decodes /\ fabric' \in [Cols -> Regions \cup {NoRegion, Mixed}]
  <1>1. CASE ~d.on
    BY <1>1 DEF Capture
  <1>2. CASE d.on
    <2>1. /\ d \in [on : {TRUE}, col : Cols, got : Nat, by : SUBSET (Regions \cup {NoRegion})]
          /\ d.got + m \in Nat /\ d.by \cup {rg} \in SUBSET (Regions \cup {NoRegion})
      <3>1. d # NoDecode
        BY <1>2 DEF NoDecode
      <3>2. d \in [on : {TRUE}, col : Cols, got : Nat, by : SUBSET (Regions \cup {NoRegion})]
        BY <3>1 DEF Decodes
      <3>3. d.got \in Nat /\ d.by \in SUBSET (Regions \cup {NoRegion})
        BY <3>2
      <3>4. d.got + m \in Nat
        BY <3>3
      <3>5. d.by \cup {rg} \in SUBSET (Regions \cup {NoRegion})
        BY <3>3
      <3> QED BY <3>2, <3>4, <3>5
    <2>2. CASE d.got + m < ColWords[d.col]
      <3>1. dec' = [d EXCEPT !.got = d.got + m, !.by = d.by \cup {rg}] /\ UNCHANGED fabric
        BY <1>2, <2>2 DEF Capture
      <3>2. dec' \in [on : {TRUE}, col : Cols, got : Nat, by : SUBSET (Regions \cup {NoRegion})]
        BY <2>1, <3>1
      <3>3. dec'.got = d.got + m /\ dec'.col = d.col
        BY <2>1, <3>1
      <3> QED BY <2>2, <3>1, <3>2, <3>3 DEF Decodes
    <2>3. CASE ~(d.got + m < ColWords[d.col])
      BY <1>2, <2>1, <2>3 DEF Capture, Decodes
    <2> QED BY <2>2, <2>3
  <1> QED BY <1>1, <1>2

\* Every step of the daemon and of its surroundings preserves the invariant.
LEMMA IInvStep == ASSUME IInv, Next PROVE IInv'
  <1> USE DEF IInv, TypeOK
  <1>1. CASE Accept
    <2>a. doorbell \in [cmd : Commands, sel : 0 .. AutoRegion, early : BOOLEAN]
      BY <1>1 DEF Accept, IInv, TypeOK, EfpOK
    <2>b. pc' \in {"verify", "reject", "stop", "restart", "abort", "ctx_save",
                   "ctx_restore"}
      BY <1>1, <2>a, EntryType DEF Accept
    <2>1. TableOK' /\ HwOK'
      BY <1>1 DEF Accept, table, hw, lkm, occ, TableOK, HwOK
    <2>2. LocalsOK'
      BY <1>1, <2>a, <2>b DEF Accept, LocalsOK, Pcs
    <2>3. EfpOK'
      BY <1>1 DEF Accept, table, hw, lkm, occ, EfpOK, Errors
    <2>4. ObsOK'
      BY <1>1 DEF Accept, table, hw, lkm, occ, ObsOK
    <2>5. HandOK'
      BY <2>b DEF HandOK, Deploys, InBlank
    <2>6. StageOK'
      BY <1>1, <2>b DEF Accept, StageOK, Deploys, InBlank, table
    <2>7. StreamOK'
      BY <1>1, <2>b DEF Accept, StreamOK, hw, occ
    <2> QED BY <2>1, <2>2, <2>3, <2>4, <2>5, <2>6, <2>7
  <1>2. CASE Reject
    <2>1. TableOK' /\ HwOK' /\ ObsOK'
      BY <1>2 DEF Reject, Fail, args, table, hw, obs, lkm, occ, TableOK, HwOK,
         ObsOK
    <2>2. LocalsOK'
      BY <1>2 DEF Reject, Fail, args, table, hw, obs, lkm, occ, LocalsOK,
         HandOK, Pcs, Errors, Regions, Cols, NoRegion, AutoRegion
    <2>3. EfpOK'
      BY <1>2 DEF Reject, Fail, args, table, hw, obs, lkm, occ, EfpOK, Errors
    <2>4. HandOK'
      BY <1>2 DEF Reject, Fail, args, table, hw, obs, lkm, occ, HandOK,
         LocalsOK, Deploys, InBlank, Regions, NoRegion
    <2>5. StageOK'
      BY <1>2 DEF Reject, Fail, args, table, hw, obs, lkm, occ, StageOK,
         Deploys, InBlank
    <2>6. StreamOK'
      BY <1>2 DEF Reject, Fail, args, table, hw, obs, lkm, occ, StreamOK, HwOK
    <2> QED BY <2>1, <2>2, <2>3, <2>4, <2>5, <2>6
  <1>3. CASE Squelch
    <2>1. TableOK' /\ HwOK' /\ ObsOK'
      BY <1>3 DEF Squelch, args, table, hw, obs, lkm, occ, TableOK, HwOK,
         ObsOK
    <2>2. LocalsOK'
      BY <1>3 DEF Squelch, args, table, hw, obs, lkm, occ, LocalsOK, HandOK,
         Pcs, Errors, Regions, Cols, NoRegion, AutoRegion
    <2>3. EfpOK'
      BY <1>3 DEF Squelch, args, table, hw, obs, lkm, occ, EfpOK, Errors
    <2>4. HandOK'
      BY <1>3 DEF Squelch, args, table, hw, obs, lkm, occ, HandOK, LocalsOK,
         Deploys, InBlank, Regions, NoRegion
    <2>5. StageOK'
      BY <1>3 DEF Squelch, args, table, hw, obs, lkm, occ, StageOK, Deploys,
         InBlank
    <2>6. StreamOK'
      BY <1>3 DEF Squelch, args, table, hw, obs, lkm, occ, StreamOK, HwOK
    <2> QED BY <2>1, <2>2, <2>3, <2>4, <2>5, <2>6
  <1>4. CASE ClearBusy
    <2>1. TableOK' /\ HwOK' /\ ObsOK'
      BY <1>4, TableKept, HwKept, ObsKept DEF ClearBusy
    <2>2. LocalsOK'
      BY <1>4 DEF ClearBusy, Return, table, hw, obs, lkm, occ, LocalsOK,
         HandOK, Pcs, Errors, Regions, Cols, NoRegion, AutoRegion
    <2>3. EfpOK'
      BY <1>4 DEF ClearBusy, Return, table, hw, obs, lkm, occ, EfpOK, Errors
    <2>4. HandOK'
      BY <1>4 DEF ClearBusy, Return, table, hw, obs, lkm, occ, HandOK,
         LocalsOK, Deploys, InBlank, Regions, NoRegion
    <2>5. StageOK'
      BY <1>4 DEF ClearBusy, Return, table, hw, obs, lkm, occ, StageOK,
         Deploys, InBlank
    <2>6. StreamOK'
      BY <1>4 DEF ClearBusy, Return, table, hw, obs, lkm, occ, StreamOK, HwOK
    <2> QED BY <2>1, <2>2, <2>3, <2>4, <2>5, <2>6
  <1>5. CASE Verify
    <2>1. TableOK' /\ HwOK' /\ ObsOK'
      BY <1>5 DEF Verify, Fail, SetState, args, table, hw, obs, lkm, occ,
         TableOK, HwOK, ObsOK
    <2>2. LocalsOK'
      BY <1>5 DEF Verify, Fail, SetState, args, table, hw, obs, lkm, occ,
         LocalsOK, HandOK, Pcs, Errors, Regions, Cols, NoRegion, AutoRegion
    <2>3. EfpOK'
      BY <1>5, VerifyErrorType, EfpWrites DEF Verify
    <2>4. HandOK'
      BY <1>5 DEF Verify, Fail, SetState, args, table, hw, obs, lkm, occ,
         HandOK, LocalsOK, Deploys, InBlank, Regions, NoRegion
    <2>5. StageOK'
      BY <1>5, VerifyErrorType DEF Verify, Fail, SetState, args, table, StageOK,
         Deploys, InBlank
    <2>6. StreamOK'
      BY <1>5 DEF Verify, Fail, SetState, args, table, hw, obs, lkm, occ,
         StreamOK, HwOK
    <2> QED BY <2>1, <2>2, <2>3, <2>4, <2>5, <2>6
  <1>6. CASE Alloc
    <2>a. CASE AllocError = "none"
      <3> DEFINE cl == IF k = 0 THEN 0 ELSE image.cols
      <3>1. Allocated \in Regions
        BY <2>a, AllocErrorType
      <3>2. image.words \in 1 .. MaxWords /\ cl \in 0 .. FabCols
            /\ Allocated + cl <= FabCols
        BY <1>6, <2>a, <3>1, AllocErrorType
           DEF Alloc, StageOK, EfpOK, Images, Regions, LocalsOK
      <3>3. CallBlank("run", Allocated, image.words, cl) /\ SetState("BLANK")
        BY <1>6, <2>a DEF Alloc
      <3>4. /\ pc' = "blank" /\ ret' = "run"
            /\ r' \in Regions /\ n' = image.words /\ k' \in 0 .. FabCols
            /\ r' + k' <= FabCols /\ cend' = LastCol(r', k')
            /\ c' \in Cols /\ cend' \in Cols /\ c' <= cend'
        BY <3>1, <3>2, <3>3, BlankCall
      <3>5. EfpOK'
        BY <3>3, EfpWrites DEF Errors
      <3>6. UNCHANGED <<table, events, sel, z, err, hw, hpos, efp_busy>>
        BY <1>6, <2>a DEF Alloc, SetState
      <3>7. LocalsOK'
        BY <3>2, <3>4, <3>6 DEF LocalsOK, Pcs, Regions
      <3>8. TableOK' /\ HwOK' /\ ObsOK'
        BY <3>6, TableKept, HwKept DEF ObsOK
      <3>9. HandOK'
        BY <3>4 DEF HandOK
      <3>10. StageOK'
        <4>1. efp_busy
          BY <1>6 DEF Alloc, StageOK, InBlank
        <4> QED
          BY <4>1, <3>2, <3>4, <3>6 DEF StageOK, table
      <3>11. StreamOK'
        BY <3>4, <3>6 DEF StreamOK, hw, occ
      <3> QED
        BY <3>5, <3>7, <3>8, <3>9, <3>10, <3>11
    <2>b. CASE AllocError # "none"
      <3>1. /\ Fail(AllocError)
            /\ IF AllocError \in {"rate_limited", "capability_denied"}
               THEN Release(Allocated) ELSE UNCHANGED table
            /\ events' \subseteq events \cup {"policy_denied"}
            /\ UNCHANGED <<ret, r, c, cend, n, k, sel, z, err, hw, hpos>>
        BY <1>6, <2>b DEF Alloc
      <3>2. TableOK' /\ \A x \in Regions : x + rcols'[x] <= FabCols
        BY <3>1, AllocErrorType, TableKept, ReleaseTable DEF StageOK, table
      <3>3. EfpOK'
        BY <3>1, AllocErrorType, EfpWrites
      <3>4. LocalsOK' /\ HandOK'
        BY <3>1 DEF Fail, LocalsOK, HandOK, Pcs, Deploys, InBlank
      <3>5. HwOK' /\ ObsOK'
        BY <3>1, HwKept DEF ObsOK
      <3>6. StageOK'
        BY <1>6, <3>1, <3>2 DEF Alloc, Fail, StageOK, Deploys, InBlank
      <3>7. StreamOK'
        BY <3>1 DEF Fail, StreamOK, hw, occ
      <3> QED
        BY <3>2, <3>3, <3>4, <3>5, <3>6, <3>7
    <2> QED BY <2>a, <2>b
  <1>7. CASE BlankColumn
    <2>a. r \in Regions /\ c <= cend /\ <<r, c>> \in Windows
      BY <1>7 DEF BlankColumn, HandOK, InBlank, LocalsOK, Windows
    <2>b. c # cend => c + 1 \in Cols /\ c + 1 <= cend
      BY <2>a DEF LocalsOK, Cols
    <2>c. OccCheck("region_locked") \in Errors
      BY DEF OccCheck, Errors
    <2>1. TableOK' /\ ObsOK'
      BY <1>7 DEF BlankColumn, SetState, table, lkm, occ, TableOK, ObsOK
    <2>2. LocalsOK'
      BY <1>7, <2>b, <2>c DEF BlankColumn, LocalsOK, Pcs, Errors
    <2>3. EfpOK'
      BY <1>7 DEF BlankColumn, SetState, table, lkm, occ, EfpOK, Errors
    <2>4. HwOK'
      <3>1. CASE Open(r)
        <4>1. store' \in [Windows -> Frame]
          <5>1. [i \in Slots |-> IF i <= n THEN Blank ELSE store[<<r, c>>][i]] \in Frame
            BY <2>a DEF HwOK, Frame, Blank, Word
          <5> QED
            BY <1>7, <3>1, <5>1 DEF BlankColumn, HwOK
        <4>2. crc' \in Seq(Word)
          BY <1>7, <3>1, <2>a, StreamType DEF BlankColumn, LocalsOK
        <4>3. Armed \in Decodes /\ n \in Nat /\ Capture(Armed, n, NoRegion)
          BY <1>7, <3>1, ArmedType DEF BlankColumn, HwOK, LocalsOK
        <4>4. dec' \in Decodes /\ fabric' \in [Cols -> Regions \cup {NoRegion, Mixed}]
          BY <4>3, CaptureType DEF HwOK
        <4> QED
          BY <1>7, <3>1, <4>1, <4>2, <4>4 DEF BlankColumn, HwOK, lkm
      <3>2. CASE ~Open(r)
        BY <1>7, <3>2, ArmedType DEF BlankColumn, HwOK, LocalsOK, lkm
      <3> QED
        BY <3>1, <3>2
    <2>5. HandOK'
      BY <1>7, <2>a, <2>b DEF BlankColumn, HandOK, Deploys, InBlank
    <2>6. StageOK'
      BY <1>7 DEF BlankColumn, SetState, table, lkm, occ, StageOK, Deploys,
         InBlank
    <2>7. StreamOK'
      BY <1>7 DEF BlankColumn, SetState, table, lkm, occ, StreamOK, HwOK
    <2> QED BY <2>1, <2>2, <2>3, <2>4, <2>5, <2>6, <2>7
  <1>8. CASE RunBlanked
    <2>a. r \in Regions /\ r + k <= FabCols /\ cend = LastCol(r, k)
      BY <1>8 DEF RunBlanked, Blanked, HandOK, InBlank
    <2>b. FirstCol(r, k) \in Cols /\ FirstCol(r, k) <= cend
      BY <2>a, ColRange DEF LocalsOK
    <2>1. TableOK' /\ HwOK' /\ ObsOK'
      BY <1>8 DEF RunBlanked, Fail, Blanked, table, efp, hw, obs, lkm, occ,
         TableOK, HwOK, ObsOK
    <2>2. LocalsOK'
      BY <1>8, <2>b DEF RunBlanked, Fail, LocalsOK, Pcs
    <2>3. EfpOK'
      BY <1>8, EfpWrites, EfpKept DEF RunBlanked, LocalsOK
    <2>4. HandOK'
      BY <1>8, <2>a, <2>b DEF RunBlanked, Fail, HandOK, Deploys, InBlank
    <2>5. StageOK'
      BY <1>8 DEF RunBlanked, Fail, Blanked, table, efp, hw, obs, lkm, occ,
         StageOK, Deploys, InBlank
    <2>6. StreamOK'
      BY <1>8 DEF RunBlanked, Fail, Blanked, table, efp, hw, obs, lkm, occ,
         StreamOK, HwOK
    <2> QED BY <2>1, <2>2, <2>3, <2>4, <2>5, <2>6
  <1>9. CASE Arm
    <2>a. r \in Regions /\ <<r, c>> \in Windows /\ n \in Slots
      BY <1>9 DEF Arm, HandOK, StageOK, Deploys, LocalsOK, Windows, Slots
    <2>b. OccCheck(IF Open(r) THEN "occ_reject" ELSE "region_locked") \in Errors
      BY DEF OccCheck, Errors
    <2>1. TableOK'
      BY <1>9 DEF Arm, Fail, SetState, args, table, lkm, occ, TableOK
    <2>2. LocalsOK'
      BY <1>9 DEF Arm, Fail, SetState, args, table, lkm, occ, LocalsOK,
         HandOK, Pcs, Errors, Regions, Cols, NoRegion, AutoRegion
    <2>3. EfpOK'
      BY <1>9, <2>b, EfpWrites DEF Arm, Errors
    <2>4. HwOK'
      <3>a. dec' \in Decodes
        BY <1>9, ArmedType DEF Arm, HwOK, LocalsOK
      <3>1. CASE UNCHANGED <<store, dirty, crc, crc_error, wr, skid, fabric>>
        BY <1>9, <3>a, <3>1 DEF Arm, HwOK, lkm
      <3>2. CASE wr' = [on |-> TRUE, win |-> <<r, c>>, idx |-> 0, cnt |-> n]
                 /\ crc' = <<>> /\ crc_error' = FALSE
                 /\ UNCHANGED <<store, dirty, skid, fabric>>
        <4>1. wr' \in [on : {TRUE}, win : Windows, idx : 0 .. MaxWords - 1,
                       cnt : Slots]
          BY <2>a, <3>2
        <4>2. UNCHANGED <<locks, global_lock, frozen, throttled>>
          BY <1>9 DEF Arm, lkm
        <4>3. crc' \in Seq(Word)
          BY <3>2
        <4> QED
          BY <3>a, <3>2, <4>1, <4>2, <4>3 DEF HwOK
      <3> QED
        BY <1>9, <3>1, <3>2 DEF Arm
    <2>5. ObsOK'
      BY <1>9 DEF Arm, Fail, SetState, args, table, lkm, occ, ObsOK
    <2>6. HandOK'
      BY <1>9 DEF Arm, Fail, SetState, args, table, lkm, occ, HandOK,
         LocalsOK, Deploys, InBlank, Regions, NoRegion
    <2>7. StageOK'
      BY <1>9 DEF Arm, Fail, SetState, args, table, lkm, occ, StageOK,
         Deploys, InBlank
    <2>8. StreamOK'
      BY <1>9, <2>a DEF Arm, Fail, SetState, occ, StreamOK, Slots
    <2> QED BY <2>1, <2>2, <2>3, <2>4, <2>5, <2>6, <2>7, <2>8
  <1>10. CASE LoadDone
    <2>a. <<r, c>> \in Windows /\ c <= cend
      BY <1>10 DEF LoadDone, HandOK, Deploys, LocalsOK, Windows
    <2>b. c # cend => c + 1 \in Cols /\ c + 1 <= cend
      BY <2>a DEF LocalsOK, Cols
    <2>1. EfpOK' /\ HwOK' /\ ObsOK'
      BY <1>10, EfpKept, HwKept, ObsKept DEF LoadDone
    <2>2. LocalsOK'
      BY <1>10, <2>b DEF LoadDone, LocalsOK, Pcs
    <2>3. TableOK'
      BY <1>10, <2>a DEF LoadDone, TableOK, HwOK
    <2>4. HandOK'
      BY <1>10, <2>b DEF LoadDone, HandOK, Deploys, InBlank
    <2>5. StageOK'
      BY <1>10 DEF LoadDone, efp, hw, obs, lkm, occ, StageOK, Deploys, InBlank
    <2>6. StreamOK'
      BY <1>10 DEF LoadDone, efp, hw, obs, lkm, occ, StreamOK, HwOK
    <2> QED BY <2>1, <2>2, <2>3, <2>4, <2>5, <2>6
  <1>11. CASE Expire
    <2>1. TableOK' /\ EfpOK'
      BY <1>11 DEF Expire, Notify, args, table, efp, lkm, occ, TableOK, EfpOK
    <2>2. LocalsOK'
      BY <1>11 DEF Expire, Notify, args, table, efp, lkm, occ, LocalsOK,
         HandOK, Pcs, Errors, Regions, Cols, NoRegion, AutoRegion
    <2>3. HwOK'
      <3>1. throttled' \subseteq Regions
        BY <1>11, NotifyType DEF Expire, HandOK, Deploys
      <3> QED
        BY <1>11, <3>1 DEF Expire, HwOK, lkm, occ
    <2>4. ObsOK'
      BY <1>11 DEF Expire, Notify, args, table, efp, lkm, occ, ObsOK
    <2>5. HandOK'
      BY <1>11 DEF Expire, Notify, args, table, efp, lkm, occ, HandOK,
         LocalsOK, Deploys, InBlank, Regions, NoRegion
    <2>6. StageOK'
      BY <1>11 DEF Expire, Notify, args, table, efp, lkm, occ, StageOK,
         Deploys, InBlank
    <2>7. StreamOK'
      BY <1>11 DEF Expire, StreamOK, occ
    <2> QED BY <2>1, <2>2, <2>3, <2>4, <2>5, <2>6, <2>7
  <1>12. CASE DrainCheck
    <2>1. TableOK' /\ HwOK' /\ ObsOK'
      BY <1>12 DEF DrainCheck, Fail, table, efp, hw, obs, lkm, occ, TableOK,
         HwOK, ObsOK
    <2>2. LocalsOK'
      BY <1>12 DEF DrainCheck, Fail, table, efp, hw, obs, lkm, occ, LocalsOK,
         HandOK, Pcs, Errors, Regions, Cols, NoRegion, AutoRegion
    <2>3. EfpOK'
      BY <1>12 DEF DrainCheck, Fail, table, efp, hw, obs, lkm, occ, EfpOK,
         Errors
    <2>4. HandOK'
      BY <1>12 DEF DrainCheck, Fail, HandOK, LocalsOK, Deploys, InBlank, Cols
    <2>5. StageOK'
      BY <1>12 DEF DrainCheck, Fail, table, efp, hw, obs, lkm, occ, StageOK,
         Deploys, InBlank
    <2>6. StreamOK'
      BY <1>12 DEF DrainCheck, Fail, StreamOK, LocalsOK, hw, occ
    <2> QED BY <2>1, <2>2, <2>3, <2>4, <2>5, <2>6
  <1>13. CASE DrainPush
    <2>1. TableOK' /\ EfpOK' /\ ObsOK'
      BY <1>13 DEF DrainPush, args, table, efp, lkm, obs, TableOK, EfpOK,
         ObsOK
    <2>2. LocalsOK'
      BY <1>13 DEF DrainPush, LocalsOK, StreamOK, Pcs, args
    <2>3. HwOK'
      <3>1. skid' \in {<<>>} \cup {<<w>> : w \in Word}
        BY <1>13 DEF DrainPush, Blank, Word
      <3> QED
        BY <1>13, <3>1 DEF DrainPush, HwOK, lkm
    <2>4. HandOK'
      BY <1>13 DEF DrainPush, args, table, efp, lkm, obs, HandOK, LocalsOK,
         Deploys, InBlank, Regions, NoRegion
    <2>5. StageOK'
      BY <1>13 DEF DrainPush, args, table, efp, lkm, obs, StageOK, Deploys,
         InBlank
    <2>6. StreamOK'
      BY <1>13 DEF DrainPush, args, table, efp, lkm, obs, StreamOK, HwOK
    <2> QED BY <2>1, <2>2, <2>3, <2>4, <2>5, <2>6
  <1>14. CASE WdtBlanked
    <2>1. TableOK' /\ HwOK' /\ ObsOK'
      BY <1>14 DEF WdtBlanked, Fail, Blanked, args, table, hw, obs, lkm, occ,
         TableOK, HwOK, ObsOK
    <2>2. LocalsOK'
      BY <1>14 DEF WdtBlanked, Fail, Blanked, args, table, hw, obs, lkm, occ,
         LocalsOK, HandOK, Pcs, Errors, Regions, Cols, NoRegion, AutoRegion
    <2>3. EfpOK'
      BY <1>14 DEF WdtBlanked, Fail, Blanked, args, table, hw, obs, lkm, occ,
         EfpOK, Errors
    <2>4. HandOK'
      BY <1>14 DEF WdtBlanked, Fail, Blanked, args, table, hw, obs, lkm, occ,
         HandOK, LocalsOK, Deploys, InBlank, Regions, NoRegion
    <2>5. StageOK'
      BY <1>14 DEF WdtBlanked, Fail, Blanked, args, table, hw, obs, lkm, occ,
         StageOK, Deploys, InBlank
    <2>6. StreamOK'
      BY <1>14 DEF WdtBlanked, Fail, Blanked, args, table, hw, obs, lkm, occ,
         StreamOK, HwOK
    <2> QED BY <2>1, <2>2, <2>3, <2>4, <2>5, <2>6
  <1>15. CASE CrcGate
    <2>a. r \in Regions /\ r + k <= FabCols /\ cend = LastCol(r, k)
      BY <1>15 DEF CrcGate, HandOK, Deploys
    <2>b. FirstCol(r, k) \in Cols /\ LastCol(r, k) \in Cols
          /\ FirstCol(r, k) <= cend
      BY <2>a, ColRange DEF LocalsOK
    <2>1. TableOK' /\ HwOK' /\ ObsOK'
      BY <1>15 DEF CrcGate, SetState, CallBlank, table, hw, obs, lkm, occ,
         TableOK, HwOK, ObsOK
    <2>2. LocalsOK'
      BY <1>15, <2>a, <2>b DEF CrcGate, CallBlank, SetState, LocalsOK, Pcs
    <2>3. EfpOK'
      BY <1>15 DEF CrcGate, SetState, CallBlank, table, hw, obs, lkm, occ,
         EfpOK, Errors
    <2>4. HandOK'
      BY <1>15, <2>a, <2>b DEF CrcGate, CallBlank, SetState, HandOK, Deploys, InBlank
    <2>5. StageOK'
      BY <1>15 DEF CrcGate, SetState, CallBlank, table, hw, obs, lkm, occ,
         StageOK, Deploys, InBlank
    <2>6. StreamOK'
      BY <1>15 DEF CrcGate, SetState, CallBlank, table, hw, obs, lkm, occ,
         StreamOK, HwOK
    <2> QED BY <2>1, <2>2, <2>3, <2>4, <2>5, <2>6
  <1>16. CASE GateBlanked
    <2>1. TableOK' /\ HwOK' /\ ObsOK'
      BY <1>16 DEF GateBlanked, Fail, Blanked, args, table, hw, obs, lkm, occ,
         TableOK, HwOK, ObsOK
    <2>2. LocalsOK'
      BY <1>16 DEF GateBlanked, Fail, Blanked, args, table, hw, obs, lkm, occ,
         LocalsOK, HandOK, Pcs, Errors, Regions, Cols, NoRegion, AutoRegion
    <2>3. EfpOK'
      BY <1>16 DEF GateBlanked, Fail, Blanked, args, table, hw, obs, lkm, occ,
         EfpOK, Errors
    <2>4. HandOK'
      BY <1>16 DEF GateBlanked, Fail, Blanked, args, table, hw, obs, lkm, occ,
         HandOK, LocalsOK, Deploys, InBlank, Regions, NoRegion
    <2>5. StageOK'
      BY <1>16 DEF GateBlanked, Fail, Blanked, args, table, hw, obs, lkm, occ,
         StageOK, Deploys, InBlank
    <2>6. StreamOK'
      BY <1>16 DEF GateBlanked, Fail, Blanked, args, table, hw, obs, lkm, occ,
         StreamOK, HwOK
    <2> QED BY <2>1, <2>2, <2>3, <2>4, <2>5, <2>6
  <1>17. CASE Readback
    <2>a. <<r, c>> \in Windows /\ c <= cend /\ r \in Regions
      BY <1>17 DEF Readback, HandOK, Deploys, LocalsOK, Windows
    <2>b. c # cend => c + 1 \in Cols /\ c + 1 <= cend
      BY <2>a DEF LocalsOK, Cols
    <2>1. TableOK' /\ ObsOK'
      BY <1>17 DEF Readback, Fail, SetState, ReadFrame, table, lkm, obs,
         TableOK, ObsOK
    <2>2. LocalsOK'
      BY <1>17, <2>b DEF Readback, Fail, SetState, LocalsOK, Pcs
    <2>3. EfpOK'
      BY <1>17 DEF Readback, Fail, SetState, ReadFrame, table, lkm, obs,
         EfpOK, Errors
    <2>4. HwOK'
      <3>1. Stream(<<r, c>>, n) \in Seq(Word)
        BY <2>a, StreamType DEF LocalsOK
      <3> QED
        BY <1>17, <3>1 DEF Readback, ReadFrame, HwOK, lkm
    <2>5. HandOK'
      BY <1>17, <2>b DEF Readback, Fail, SetState, HandOK, Deploys, InBlank
    <2>6. StageOK'
      BY <1>17 DEF Readback, Fail, SetState, ReadFrame, table, lkm, obs,
         StageOK, Deploys, InBlank
    <2>7. StreamOK'
      BY <1>17 DEF Readback, Fail, SetState, ReadFrame, table, lkm, obs,
         StreamOK, HwOK
    <2> QED BY <2>1, <2>2, <2>3, <2>4, <2>5, <2>6, <2>7
  <1>18. CASE Commit
    <2>a. r \in Regions /\ r + k <= FabCols
      BY <1>18 DEF Commit, HandOK, Deploys
    <2>1. HwOK' /\ ObsOK'
      BY <1>18 DEF Commit, args, hw, obs, lkm, occ, HwOK, ObsOK
    <2>2. LocalsOK'
      BY <1>18 DEF Commit, args, hw, obs, lkm, occ, LocalsOK, HandOK, Pcs,
         Errors, Regions, Cols, NoRegion, AutoRegion
    <2>3. TableOK'
      BY <1>18, <2>a DEF Commit, TableOK, LocalsOK
    <2>4. EfpOK'
      BY <1>18 DEF Commit, args, hw, obs, lkm, occ, EfpOK, Errors
    <2>5. HandOK'
      BY <1>18 DEF Commit, args, hw, obs, lkm, occ, HandOK, LocalsOK, Deploys,
         InBlank, Regions, NoRegion
    <2>6. StageOK'
      <3>1. \A x \in Regions : x + rcols'[x] <= FabCols
        BY <1>18, <2>a DEF Commit, StageOK, TableOK
      <3> QED
        BY <1>18, <3>1 DEF Commit, StageOK, Deploys, InBlank
    <2>7. StreamOK'
      BY <1>18 DEF Commit, args, hw, obs, lkm, occ, StreamOK, HwOK
    <2> QED BY <2>1, <2>2, <2>3, <2>4, <2>5, <2>6, <2>7
  <1>19. CASE Lock
    <2>1. TableOK' /\ EfpOK' /\ ObsOK'
      BY <1>19 DEF Lock, Notify, args, table, efp, occ, obs, TableOK, EfpOK,
         ObsOK
    <2>2. LocalsOK'
      BY <1>19 DEF Lock, Notify, args, table, efp, occ, obs, LocalsOK, HandOK,
         Pcs, Errors, Regions, Cols, NoRegion, AutoRegion
    <2>3. HwOK'
      <3>1. r \in Regions
        BY <1>19 DEF Lock, HandOK
      <3>2. throttled' \subseteq Regions
        BY <1>19, <3>1, NotifyType DEF Lock
      <3> QED
        BY <1>19, <3>1, <3>2 DEF Lock, HwOK, occ
    <2>4. HandOK'
      BY <1>19 DEF Lock, Notify, args, table, efp, occ, obs, HandOK, LocalsOK,
         Deploys, InBlank, Regions, NoRegion
    <2>5. StageOK'
      BY <1>19 DEF Lock, Notify, args, table, efp, occ, obs, StageOK, Deploys,
         InBlank
    <2>6. StreamOK'
      BY <1>19 DEF Lock, Notify, args, table, efp, occ, obs, StreamOK, HwOK
    <2> QED BY <2>1, <2>2, <2>3, <2>4, <2>5, <2>6
  <1>20. CASE CtxSave
    <2>1. ObsOK'
      BY <1>20 DEF CtxSave, Fail, args, lkm, occ, obs, ObsOK
    <2>2. LocalsOK'
      BY <1>20 DEF CtxSave, Fail, args, lkm, occ, obs, LocalsOK, HandOK, Pcs,
         Errors, Regions, Cols, NoRegion, AutoRegion
    <2>3. TableOK'
      BY <1>20 DEF CtxSave, Fail, args, lkm, occ, obs, TableOK, LocalsOK
    <2>4. EfpOK'
      BY <1>20 DEF CtxSave, Fail, args, lkm, occ, obs, EfpOK, Errors
    <2>5. HwOK'
      BY <1>20 DEF CtxSave, Fail, args, lkm, occ, obs, HwOK, LocalsOK, Word,
         Blank
    <2>6. HandOK'
      BY <1>20 DEF CtxSave, Fail, args, lkm, occ, obs, HandOK, LocalsOK,
         Deploys, InBlank, Regions, NoRegion
    <2>7. StageOK'
      BY <1>20 DEF CtxSave, Fail, args, lkm, occ, obs, StageOK, Deploys,
         InBlank
    <2>8. StreamOK'
      BY <1>20 DEF CtxSave, Fail, args, lkm, occ, obs, StreamOK, HwOK
    <2> QED BY <2>1, <2>2, <2>3, <2>4, <2>5, <2>6, <2>7, <2>8
  <1>21. CASE CtxRestore
    <2>1. ObsOK'
      BY <1>21 DEF CtxRestore, Fail, args, lkm, occ, obs, ObsOK
    <2>2. LocalsOK'
      BY <1>21 DEF CtxRestore, Fail, args, lkm, occ, obs, LocalsOK, HandOK,
         Pcs, Errors, Regions, Cols, NoRegion, AutoRegion
    <2>3. TableOK'
      BY <1>21 DEF CtxRestore, Fail, args, lkm, occ, obs, TableOK, LocalsOK
    <2>4. EfpOK'
      BY <1>21 DEF CtxRestore, Fail, args, lkm, occ, obs, EfpOK, Errors
    <2>5. HwOK'
      BY <1>21 DEF CtxRestore, Fail, args, lkm, occ, obs, HwOK, LocalsOK,
         Word, Blank
    <2>6. HandOK'
      BY <1>21 DEF CtxRestore, Fail, args, lkm, occ, obs, HandOK, LocalsOK,
         Deploys, InBlank, Regions, NoRegion
    <2>7. StageOK'
      BY <1>21 DEF CtxRestore, Fail, args, lkm, occ, obs, StageOK, Deploys,
         InBlank
    <2>8. StreamOK'
      BY <1>21 DEF CtxRestore, Fail, args, lkm, occ, obs, StreamOK, HwOK
    <2> QED BY <2>1, <2>2, <2>3, <2>4, <2>5, <2>6, <2>7, <2>8
  <1>22. CASE Stop
    <2>a. ASSUME NEW rg \in Regions, CallBlank("stop", rg, rwords[rg], rcols[rg])
          PROVE  /\ pc' = "blank" /\ ret' = "stop"
                 /\ r' \in Regions /\ n' \in 0 .. MaxWords /\ k' \in 0 .. FabCols
                 /\ r' + k' <= FabCols /\ cend' = LastCol(r', k')
                 /\ c' \in Cols /\ cend' \in Cols /\ c' <= cend'
      <3>1. rwords[rg] \in 0 .. MaxWords /\ rcols[rg] \in 0 .. FabCols
            /\ rg + rcols[rg] <= FabCols
        BY DEF TableOK, StageOK
      <3> QED
        BY <2>a, <3>1, BlankCall
    <2>1. TableOK' /\ ObsOK'
      BY <1>22 DEF Stop, Fail, CallBlank, table, efp, occ, obs, TableOK, ObsOK
    <2>2. LocalsOK'
      BY <1>22, <2>a DEF Stop, Fail, LocalsOK, Pcs, Regions
    <2>3. EfpOK'
      BY <1>22 DEF Stop, Fail, CallBlank, table, efp, occ, obs, EfpOK, Errors
    <2>4. HwOK'
      BY <1>22 DEF Stop, Fail, CallBlank, table, efp, occ, obs, HwOK,
         LocalsOK, Word, Blank
    <2>5. HandOK'
      BY <1>22, <2>a DEF Stop, Fail, HandOK, Deploys, InBlank
    <2>6. StageOK'
      BY <1>22 DEF Stop, Fail, CallBlank, table, efp, occ, obs, StageOK,
         Deploys, InBlank
    <2>7. StreamOK'
      BY <1>22 DEF Stop, Fail, CallBlank, table, efp, occ, obs, StreamOK, HwOK
    <2> QED BY <2>1, <2>2, <2>3, <2>4, <2>5, <2>6, <2>7
  <1>23. CASE StopBlanked
    <2>1. TableOK' /\ HwOK' /\ ObsOK'
      BY <1>23 DEF StopBlanked, Fail, Blanked, args, table, efp, hw, obs, lkm,
         occ, TableOK, HwOK, ObsOK
    <2>2. LocalsOK'
      BY <1>23 DEF StopBlanked, Fail, Blanked, args, table, efp, hw, obs, lkm,
         occ, LocalsOK, HandOK, Pcs, Errors, Regions, Cols, NoRegion,
         AutoRegion
    <2>3. EfpOK'
      BY <1>23, EfpWrites, EfpKept DEF StopBlanked, LocalsOK
    <2>4. HandOK'
      BY <1>23 DEF StopBlanked, Fail, Blanked, args, table, efp, hw, obs, lkm,
         occ, HandOK, LocalsOK, Deploys, InBlank, Regions, NoRegion
    <2>5. StageOK'
      BY <1>23 DEF StopBlanked, Fail, Blanked, args, table, efp, hw, obs, lkm,
         occ, StageOK, Deploys, InBlank
    <2>6. StreamOK'
      BY <1>23 DEF StopBlanked, Fail, Blanked, args, table, efp, hw, obs, lkm,
         occ, StreamOK, HwOK
    <2> QED BY <2>1, <2>2, <2>3, <2>4, <2>5, <2>6
  <1>24. CASE Stopped
    <2>a. r \in Regions
      BY <1>24 DEF Stopped, Blanked, HandOK, InBlank
    <2>b. TableOK' /\ \A x \in Regions : x + rcols'[x] <= FabCols
      BY <1>24, <2>a, ReleaseTable DEF Stopped, StageOK
    <2>1. HwOK' /\ ObsOK'
      BY <1>24 DEF Stopped, Release, args, hw, obs, lkm, occ, HwOK, ObsOK
    <2>2. LocalsOK'
      BY <1>24 DEF Stopped, Release, args, hw, obs, lkm, occ, LocalsOK,
         HandOK, Pcs, Errors, Regions, Cols, NoRegion, AutoRegion
    <2>3. TableOK'
      BY <2>b
    <2>4. EfpOK'
      BY <1>24 DEF Stopped, Release, args, hw, obs, lkm, occ, EfpOK, Errors
    <2>5. HandOK'
      BY <1>24 DEF Stopped, Release, args, hw, obs, lkm, occ, HandOK,
         LocalsOK, Deploys, InBlank, Regions, NoRegion
    <2>6. StageOK'
      BY <1>24, <2>b DEF Stopped, args, StageOK, Deploys, InBlank
    <2>7. StreamOK'
      BY <1>24 DEF Stopped, Release, args, hw, obs, lkm, occ, StreamOK, HwOK
    <2> QED BY <2>1, <2>2, <2>3, <2>4, <2>5, <2>6, <2>7
  <1>25. CASE Restart
    <2>a. ASSUME NEW rg \in Regions, CallBlank("restart", rg, rwords[rg], rcols[rg])
          PROVE  /\ pc' = "blank" /\ ret' = "restart"
                 /\ r' \in Regions /\ n' \in 0 .. MaxWords /\ k' \in 0 .. FabCols
                 /\ r' + k' <= FabCols /\ cend' = LastCol(r', k')
                 /\ c' \in Cols /\ cend' \in Cols /\ c' <= cend'
      <3>1. rwords[rg] \in 0 .. MaxWords /\ rcols[rg] \in 0 .. FabCols
            /\ rg + rcols[rg] <= FabCols
        BY DEF TableOK, StageOK
      <3> QED
        BY <2>a, <3>1, BlankCall

    <2>b. last.region \in Regions
      BY DEF TableOK
    <2>1. TableOK' /\ ObsOK'
      BY <1>25 DEF Restart, Fail, CallBlank, table, efp, occ, obs, TableOK,
         ObsOK
    <2>2. LocalsOK'
      BY <1>25, <2>a, <2>b DEF Restart, Fail, LocalsOK, Pcs, Regions
    <2>3. EfpOK'
      BY <1>25 DEF Restart, Fail, CallBlank, table, efp, occ, obs, EfpOK,
         Errors
    <2>4. HwOK'
      BY <1>25 DEF Restart, Fail, CallBlank, table, efp, occ, obs, HwOK,
         LocalsOK, Word, Blank
    <2>5. HandOK'
      BY <1>25, <2>a, <2>b DEF Restart, Fail, HandOK, Deploys, InBlank
    <2>6. StageOK'
      BY <1>25 DEF Restart, Fail, CallBlank, table, efp, occ, obs, StageOK,
         Deploys, InBlank
    <2>7. StreamOK'
      BY <1>25 DEF Restart, Fail, CallBlank, table, efp, occ, obs, StreamOK,
         HwOK
    <2> QED BY <2>1, <2>2, <2>3, <2>4, <2>5, <2>6, <2>7
  <1>26. CASE RestartBlanked
    <2>a. r \in Regions
      BY <1>26 DEF RestartBlanked, Blanked, HandOK, InBlank
    <2>b. TableOK' /\ \A x \in Regions : x + rcols'[x] <= FabCols
      BY <1>26, <2>a, ReleaseTable, TableKept DEF RestartBlanked, StageOK, table
    <2>1. HwOK' /\ ObsOK'
      BY <1>26 DEF RestartBlanked, Fail, Release, Blanked, args, table, efp,
         hw, obs, lkm, occ, HwOK, ObsOK
    <2>2. LocalsOK'
      BY <1>26 DEF RestartBlanked, Fail, Release, Blanked, args, table, efp,
         hw, obs, lkm, occ, LocalsOK, HandOK, Pcs, Errors, Regions, Cols,
         NoRegion, AutoRegion
    <2>3. TableOK'
      BY <2>b
    <2>4. EfpOK'
      BY <1>26, EfpWrites, EfpKept DEF RestartBlanked, LocalsOK
    <2>5. HandOK'
      BY <1>26 DEF RestartBlanked, Fail, Release, Blanked, args, table, efp,
         hw, obs, lkm, occ, HandOK, LocalsOK, Deploys, InBlank, Regions,
         NoRegion
    <2>6. StageOK'
      BY <1>26, <2>b DEF RestartBlanked, Blanked, Fail, args, efp, StageOK, Deploys,
         InBlank
    <2>7. StreamOK'
      BY <1>26 DEF RestartBlanked, Fail, Release, Blanked, args, table, efp,
         hw, obs, lkm, occ, StreamOK, HwOK
    <2> QED BY <2>1, <2>2, <2>3, <2>4, <2>5, <2>6, <2>7
  <1>27. CASE Rerun
    <2>1. TableOK' /\ HwOK' /\ ObsOK'
      BY <1>27 DEF Rerun, Fail, SetState, table, hw, obs, lkm, occ, TableOK,
         HwOK, ObsOK
    <2>2. LocalsOK'
      BY <1>27 DEF Rerun, Fail, SetState, LocalsOK, Pcs, AutoRegion
    <2>3. EfpOK'
      BY <1>27 DEF Rerun, Fail, SetState, table, hw, obs, lkm, occ, EfpOK,
         Errors
    <2>4. HandOK'
      BY <1>27 DEF Rerun, Fail, SetState, table, hw, obs, lkm, occ, HandOK,
         LocalsOK, Deploys, InBlank, Regions, NoRegion
    <2>5. StageOK'
      BY <1>27 DEF Rerun, Fail, SetState, table, hw, obs, lkm, occ, StageOK,
         Deploys, InBlank
    <2>6. StreamOK'
      BY <1>27 DEF Rerun, Fail, SetState, table, hw, obs, lkm, occ, StreamOK,
         HwOK
    <2> QED BY <2>1, <2>2, <2>3, <2>4, <2>5, <2>6
  <1>28. CASE Abort
    <2>a. ASSUME NEW rg \in Regions, CallBlank("abort", rg, rwords[rg], rcols[rg])
          PROVE  /\ pc' = "blank" /\ ret' = "abort"
                 /\ r' \in Regions /\ n' \in 0 .. MaxWords /\ k' \in 0 .. FabCols
                 /\ r' + k' <= FabCols /\ cend' = LastCol(r', k')
                 /\ c' \in Cols /\ cend' \in Cols /\ c' <= cend'
      <3>1. rwords[rg] \in 0 .. MaxWords /\ rcols[rg] \in 0 .. FabCols
            /\ rg + rcols[rg] <= FabCols
        BY DEF TableOK, StageOK
      <3> QED
        BY <2>a, <3>1, BlankCall

    <2>b. r # NoRegion => r \in Regions /\ r + 1 \in 0 .. NumRegions
      BY DEF LocalsOK, Regions, NoRegion
    <2>1. TableOK' /\ ObsOK'
      BY <1>28, TableKept, ObsKept DEF Abort
    <2>2. LocalsOK'
      <3>1. CASE r = NoRegion
        BY <1>28, <3>1 DEF Abort, LocalsOK, Pcs
      <3>2. CASE r # NoRegion /\ rstate[r] = "FREE"
        BY <1>28, <2>b, <3>2 DEF Abort, LocalsOK, Pcs
      <3>3. CASE r # NoRegion /\ rstate[r] # "FREE"
        BY <1>28, <2>a, <2>b, <3>3 DEF Abort, LocalsOK, Pcs, Regions
      <3> QED BY <3>1, <3>2, <3>3
    <2>3. EfpOK'
      <3>1. UNCHANGED <<doorbell, image, efp_busy>>
        BY <1>28 DEF Abort, efp
      <3>2. efp_state' = efp_state \/ efp_state' = "IDLE"
        BY <1>28 DEF Abort, efp
      <3>3. efp_done' \in BOOLEAN
        BY <1>28 DEF Abort, efp, EfpOK
      <3>4. efp_err' \in Errors
        BY <1>28 DEF Abort, efp, EfpOK, Errors
      <3>5. efp_state' \in {"IDLE", "VERIFY", "ALLOC", "BLANK", "LOAD", "READBACK",
                            "RUNNING", "ERROR", "STOPPED", "PAUSED"}
        BY <3>2 DEF EfpOK
      <3> QED
        BY <3>1, <3>3, <3>4, <3>5 DEF EfpOK
    <2>4. HwOK'
      <3>1. locks' \subseteq Regions /\ frozen' \in BOOLEAN
        BY <1>28 DEF Abort, HwOK
      <3>2. UNCHANGED <<global_lock, store, dirty, crc, crc_error, wr, skid, dec, fabric,
                        throttled>>
        BY <1>28 DEF Abort, occ
      <3> QED
        BY <3>1, <3>2 DEF HwOK
    <2>5. HandOK'
      BY <1>28, <2>a, <2>b DEF Abort, HandOK, Deploys, InBlank
    <2>6. StageOK'
      BY <1>28 DEF Abort, CallBlank, table, efp, occ, obs, StageOK, Deploys,
         InBlank
    <2>7. StreamOK'
      BY <1>28 DEF Abort, CallBlank, table, efp, occ, obs, StreamOK, HwOK
    <2> QED BY <2>1, <2>2, <2>3, <2>4, <2>5, <2>6, <2>7
  <1>29. CASE AbortBlanked
    <2>a. r \in Regions
      BY <1>29 DEF AbortBlanked, Blanked, HandOK, InBlank
    <2>b. TableOK' /\ \A x \in Regions : x + rcols'[x] <= FabCols
      BY <1>29, <2>a, ReleaseTable DEF AbortBlanked, StageOK
    <2>1. EfpOK' /\ HwOK' /\ ObsOK'
      BY <1>29, EfpKept, HwKept, ObsKept DEF AbortBlanked
    <2>2. LocalsOK'
      BY <1>29, <2>a DEF AbortBlanked, LocalsOK, Pcs, Regions
    <2>3. TableOK'
      BY <2>b
    <2>4. HandOK'
      BY <1>29 DEF AbortBlanked, Release, Blanked, efp, hw, obs, lkm, occ,
         HandOK, LocalsOK, Deploys, InBlank, Regions, NoRegion
    <2>5. StageOK'
      BY <1>29, <2>b DEF AbortBlanked, Blanked, efp, StageOK, Deploys, InBlank
    <2>6. StreamOK'
      BY <1>29 DEF AbortBlanked, Release, Blanked, efp, hw, obs, lkm, occ,
         StreamOK, HwOK
    <2> QED BY <2>1, <2>2, <2>3, <2>4, <2>5, <2>6
  <1>30. CASE Heartbeat
    <2>1. TableOK' /\ EfpOK' /\ HwOK' /\ ObsOK'
      BY <1>30, TableKept, EfpKept, HwKept, ObsKept DEF Heartbeat
    <2>2. LocalsOK'
      BY <1>30 DEF Heartbeat, table, efp, hw, obs, lkm, occ, LocalsOK, HandOK,
         Pcs, Errors, Regions, Cols, NoRegion, AutoRegion
    <2>3. HandOK'
      BY <1>30 DEF Heartbeat, table, efp, hw, obs, lkm, occ, HandOK, LocalsOK,
         Deploys, InBlank, Regions, NoRegion
    <2>4. StageOK'
      BY <1>30 DEF Heartbeat, table, efp, hw, obs, lkm, occ, StageOK, Deploys,
         InBlank
    <2>5. StreamOK'
      BY <1>30 DEF Heartbeat, table, efp, hw, obs, lkm, occ, StreamOK, HwOK
    <2> QED BY <2>1, <2>2, <2>3, <2>4, <2>5
  <1>31. CASE HbRegion
    <2>a. r # NoRegion => r \in Regions /\ r + 1 \in 0 .. NumRegions
      BY DEF LocalsOK, Regions, NoRegion
    <2>b. r # NoRegion => /\ rwords[r] \in 0 .. MaxWords
                          /\ rcols[r] \in 0 .. FabCols
                          /\ r + rcols[r] <= FabCols
      BY <2>a DEF TableOK, StageOK
    <2>c. r # NoRegion => /\ FirstCol(r, rcols[r]) \in Cols
                          /\ LastCol(r, rcols[r]) \in Cols
                          /\ FirstCol(r, rcols[r]) <= LastCol(r, rcols[r])
      BY <2>a, <2>b, ColRange
    <2>1. TableOK' /\ EfpOK' /\ HwOK' /\ ObsOK'
      BY <1>31, TableKept, EfpKept, HwKept, ObsKept DEF HbRegion
    <2>2. LocalsOK'
      <3>1. CASE r = NoRegion
        BY <1>31, <3>1 DEF HbRegion, Return, LocalsOK, Pcs, Cols, AutoRegion
      <3>2. CASE r # NoRegion /\ rstate[r] # "RUNNING"
        BY <1>31, <2>a, <3>2 DEF HbRegion, LocalsOK, NoRegion, Regions
      <3>3. CASE r # NoRegion /\ rstate[r] = "RUNNING"
        BY <1>31, <2>a, <2>b, <2>c, <3>3 DEF HbRegion, LocalsOK, Pcs
      <3> QED BY <3>1, <3>2, <3>3
    <2>3. HandOK'
      BY <1>31, <2>a, <2>b, <2>c DEF HbRegion, Return, HandOK, Deploys, InBlank
    <2>4. StageOK'
      BY <1>31 DEF HbRegion, Return, table, efp, hw, obs, lkm, occ, StageOK,
         Deploys, InBlank
    <2>5. StreamOK'
      BY <1>31 DEF HbRegion, Return, table, efp, hw, obs, lkm, occ, StreamOK,
         HwOK
    <2> QED BY <2>1, <2>2, <2>3, <2>4, <2>5
  <1>32. CASE Probe
    <2>a. <<r, c>> \in Windows /\ c <= cend /\ r \in Regions /\ r + k <= FabCols
      BY <1>32 DEF Probe, HandOK, LocalsOK, Windows
    <2>b. c # cend => c + 1 \in Cols /\ c + 1 <= cend
      BY <2>a DEF LocalsOK, Cols
    <2>c. FirstCol(r, k) \in Cols /\ LastCol(r, k) \in Cols
          /\ FirstCol(r, k) <= LastCol(r, k)
      BY <2>a, ColRange DEF LocalsOK
    <2>1. TableOK' /\ EfpOK' /\ ObsOK'
      BY <1>32 DEF Probe, CallBlank, ReadFrame, table, efp, lkm, obs, TableOK,
         EfpOK, ObsOK
    <2>2. LocalsOK'
      BY <1>32, <2>a, <2>b, <2>c DEF Probe, CallBlank, LocalsOK, Pcs, Regions
    <2>3. HwOK'
      <3>1. Stream(<<r, c>>, n) \in Seq(Word)
        BY <2>a, StreamType DEF LocalsOK
      <3> QED
        BY <1>32, <3>1 DEF Probe, ReadFrame, HwOK, lkm
    <2>4. HandOK'
      BY <1>32, <2>a, <2>b, <2>c DEF Probe, CallBlank, HandOK, Deploys, InBlank
    <2>5. StageOK'
      BY <1>32 DEF Probe, CallBlank, ReadFrame, table, efp, lkm, obs, StageOK,
         Deploys, InBlank
    <2>6. StreamOK'
      BY <1>32 DEF Probe, CallBlank, ReadFrame, table, efp, lkm, obs,
         StreamOK, HwOK
    <2> QED BY <2>1, <2>2, <2>3, <2>4, <2>5, <2>6
  <1>33. CASE HbBlanked
    <2>a. r \in Regions
      BY <1>33 DEF HbBlanked, Blanked, HandOK, InBlank
    <2>b. TableOK' /\ \A x \in Regions : x + rcols'[x] <= FabCols
      BY <1>33, <2>a, ReleaseTable DEF HbBlanked, StageOK
    <2>1. LocalsOK'
      BY <1>33, <2>a DEF HbBlanked, LocalsOK, Pcs, Regions
    <2>2. TableOK'
      BY <2>b
    <2>3. EfpOK'
      BY <1>33 DEF HbBlanked, Release, Notify, Blanked, lkm, occ, EfpOK,
         Errors
    <2>4. HwOK'
      <3>1. throttled' \subseteq Regions
        BY <1>33, <2>a, NotifyType DEF HbBlanked
      <3> QED
        BY <1>33, <3>1 DEF HbBlanked, HwOK, lkm, occ
    <2>5. ObsOK'
      BY <1>33 DEF HbBlanked, Release, Notify, Blanked, lkm, occ, ObsOK
    <2>6. HandOK'
      BY <1>33 DEF HbBlanked, Release, Notify, Blanked, lkm, occ, HandOK,
         LocalsOK, Deploys, InBlank, Regions, NoRegion
    <2>7. StageOK'
      BY <1>33, <2>b DEF HbBlanked, StageOK, Deploys, InBlank
    <2>8. StreamOK'
      BY <1>33 DEF HbBlanked, Release, Notify, Blanked, lkm, occ, StreamOK,
         HwOK
    <2> QED BY <2>1, <2>2, <2>3, <2>4, <2>5, <2>6, <2>7, <2>8
  <1>34. CASE OccTake
    <2>a. /\ wr \in [on : {TRUE}, win : Windows, idx : 0 .. MaxWords - 1,
                     cnt : Slots]
          /\ wr.idx < wr.cnt
          /\ skid[1] \in Word
      <3>1. wr \in [on : {TRUE}, win : Windows, idx : 0 .. MaxWords - 1,
                    cnt : Slots]
        <4>1. wr.on /\ ~NoWrite.on
          BY <1>34 DEF OccTake, NoWrite
        <4>2. wr \in {NoWrite} \cup [on : {TRUE}, win : Windows,
                                     idx : 0 .. MaxWords - 1, cnt : Slots]
          BY DEF HwOK
        <4> QED
          BY <4>1, <4>2
      <3>2. PICK w \in Word : skid = <<w>>
        BY <1>34 DEF OccTake, HwOK
      <3> QED
        BY <1>34, <3>1, <3>2 DEF OccTake, StreamOK
    <2>b. /\ wr.idx + 1 \in Slots
          /\ wr.idx + 1 # wr.cnt => wr.idx + 1 \in 0 .. MaxWords - 1
                                    /\ wr.idx + 1 < wr.cnt
      BY <2>a DEF Slots
    <2>c. wr' = IF wr.idx + 1 = wr.cnt THEN NoWrite
                ELSE [wr EXCEPT !.idx = wr.idx + 1]
      BY <1>34 DEF OccTake
    <2>1. LocalsOK' /\ TableOK' /\ EfpOK' /\ ObsOK' /\ HandOK' /\ StageOK'
      BY <1>34, DaemonKept, ObsKept DEF OccTake
    <2>2. HwOK'
      <3>1. store' \in [Windows -> Frame]
        <4>1. wr.win \in Windows /\ store[wr.win] \in [Slots -> Word]
          BY <2>a DEF HwOK, Frame
        <4>2. [store[wr.win] EXCEPT ![wr.idx + 1] = skid[1]] \in Frame
          BY <2>a, <2>b, <4>1 DEF Frame
        <4>3. store' = [store EXCEPT ![wr.win] =
                          [store[wr.win] EXCEPT ![wr.idx + 1] = skid[1]]]
          BY <1>34 DEF OccTake
        <4> QED
          BY <4>1, <4>2, <4>3 DEF HwOK
      <3>2. dirty' \subseteq Windows /\ crc' \in Seq(Word)
        BY <1>34, <2>a DEF OccTake, HwOK
      <3>3. dec' \in Decodes /\ fabric' \in [Cols -> Regions \cup {NoRegion, Mixed}]
        <4>1. wr.win[1] \in Regions /\ Capture(dec, 1, wr.win[1])
          BY <1>34, <2>a DEF OccTake, Windows
        <4> QED
          BY <4>1, CaptureType DEF HwOK
      <3>4. wr' \in {NoWrite} \cup [on : {TRUE}, win : Windows,
                                    idx : 0 .. MaxWords - 1, cnt : Slots]
        BY <2>a, <2>b, <2>c
      <3>5. skid' = <<>> /\ UNCHANGED <<lkm, crc_error, frozen, throttled>>
        BY <1>34 DEF OccTake
      <3> QED
        BY <3>1, <3>2, <3>3, <3>4, <3>5 DEF HwOK, lkm
    <2>3. StreamOK'
      <3>1. wr'.on => wr'.idx < wr'.cnt
        BY <2>a, <2>b, <2>c DEF NoWrite
      <3> QED
        BY <1>34, <3>1 DEF OccTake, local, StreamOK
    <2> QED BY <2>1, <2>2, <2>3
  <1>35. CASE HostRing
    <2>a. PICK d \in Doorbells : Ring(d, FALSE) /\ image' = d.img
      BY <1>35 DEF HostRing
    <2>b. d.cmd \in Commands /\ d.sel \in 0 .. AutoRegion /\ d.img \in Images
      BY DoorbellAssumption
    <2>c. UNCHANGED <<local, table, hw, obs, efp_state, efp_busy, efp_done,
                      efp_err>>
      BY <1>35 DEF HostRing
    <2>1. LocalsOK' /\ TableOK' /\ HwOK' /\ ObsOK' /\ HandOK' /\ StreamOK'
      BY <2>c, TableKept, HwKept, ObsKept DEF LocalsOK, HandOK, StreamOK, local,
         args, hw, occ
    <2>2. EfpOK'
      BY <2>a, <2>b, <2>c DEF Ring, EfpOK
    <2>3. StageOK'
      BY <1>35, <2>c DEF HostRing, StageOK, local, args, table, InBlank, Deploys
    <2> QED BY <2>1, <2>2, <2>3
  <1>36. CASE HostRingBusy
    <2>a. PICK d \in Doorbells : Ring(d, TRUE)
      BY <1>36 DEF HostRingBusy
    <2>b. d.cmd \in Commands /\ d.sel \in 0 .. AutoRegion /\ d.img \in Images
      BY DoorbellAssumption
    <2>c. UNCHANGED <<image, local, table, hw, obs, efp_state, efp_busy, efp_done,
                      efp_err>>
      BY <1>36 DEF HostRingBusy
    <2>1. LocalsOK' /\ TableOK' /\ HwOK' /\ ObsOK' /\ HandOK' /\ StageOK' /\ StreamOK'
      BY <2>c, TableKept, HwKept, ObsKept DEF LocalsOK, HandOK, StageOK, table, StreamOK, local,
         args, hw, occ
    <2>2. EfpOK'
      BY <2>a, <2>b, <2>c DEF Ring, EfpOK
    <2> QED BY <2>1, <2>2
  <1>37. CASE HostPush
    <2>a. hpos + 1 \in 0 .. MaxWords /\ hpos + 1 \in Word
      BY <1>37 DEF HostPush, ObsOK, LocalsOK, Word
    <2>0. LocalsOK' /\ TableOK' /\ EfpOK' /\ HandOK' /\ StageOK'
      BY <1>37, DaemonKept DEF HostPush
    <2>1. StreamOK'
      BY <1>37 DEF HostPush, local, StreamOK
    <2>2. HwOK'
      <3>1. skid' \in {<<>>} \cup {<<w>> : w \in Word}
        BY <1>37, <2>a DEF HostPush
      <3>2. UNCHANGED <<lkm, store, dirty, crc, crc_error, wr, dec, fabric, frozen,
                        throttled>>
        BY <1>37 DEF HostPush
      <3> QED
        BY <3>1, <3>2 DEF HwOK, lkm
    <2>3. ObsOK'
      BY <1>37, <2>a DEF HostPush, ObsOK
    <2> QED BY <2>0, <2>1, <2>2, <2>3
  <1>38. CASE HostUnthrottle
    <2>0. LocalsOK' /\ TableOK' /\ EfpOK' /\ ObsOK' /\ HandOK' /\ StageOK'
      BY <1>38, DaemonKept, ObsKept DEF HostUnthrottle
    <2>1. StreamOK'
      BY <1>38 DEF HostUnthrottle, local, occ, StreamOK
    <2>2. HwOK'
      BY <1>38 DEF HostUnthrottle, local, table, efp, lkm, occ, obs, args,
         HwOK, LocalsOK, Word, Blank
    <2> QED BY <2>0, <2>1, <2>2
  <1>39. CASE OtherLkm
    <2>0. LocalsOK' /\ TableOK' /\ EfpOK' /\ ObsOK' /\ HandOK' /\ StageOK'
      BY <1>39, DaemonKept, ObsKept DEF OtherLkm
    <2>1. StreamOK'
      BY <1>39 DEF OtherLkm, local, occ, StreamOK
    <2>2. HwOK'
      BY <1>39 DEF OtherLkm, local, table, efp, lkm, occ, obs, args, HwOK,
         LocalsOK, Word, Blank
    <2> QED BY <2>0, <2>1, <2>2
  <1>40. CASE StoreUpset
    <2>0. LocalsOK' /\ TableOK' /\ EfpOK' /\ ObsOK' /\ HandOK' /\ StageOK'
      BY <1>40, DaemonKept, ObsKept DEF StoreUpset
    <2>1. StreamOK'
      BY <1>40 DEF StoreUpset, local, StreamOK
    <2>2. HwOK'
      <3>1. PICK w \in Windows, i \in Slots : store' = [store EXCEPT ![w][i] = Upset]
        BY <1>40 DEF StoreUpset
      <3>2. store' \in [Windows -> Frame]
        <4>1. [store[w] EXCEPT ![i] = Upset] \in Frame
          BY DEF HwOK, Frame, Upset, Word
        <4> QED
          BY <3>1, <4>1 DEF HwOK
      <3>3. UNCHANGED <<lkm, dirty, crc, crc_error, wr, skid, dec, fabric, frozen,
                        throttled>>
        BY <1>40 DEF StoreUpset
      <3> QED
        BY <3>2, <3>3 DEF HwOK, lkm
    <2> QED BY <2>0, <2>1, <2>2
  <1>41. CASE BlankWaits
    <2>1. LocalsOK' /\ TableOK' /\ HwOK' /\ ObsOK' /\ HandOK' /\ StreamOK'
      BY <1>41, TableKept, HwKept, ObsKept DEF BlankWaits, LocalsOK, HandOK, StreamOK,
         args, hw, occ
    <2>2. EfpOK'
      BY <1>41, EfpWrites DEF BlankWaits, Errors
    <2>3. StageOK'
      BY <1>41 DEF BlankWaits, SetState, StageOK, args, table, InBlank, Deploys
    <2> QED BY <2>1, <2>2, <2>3
  <1> QED BY <1>1, <1>2, <1>3, <1>4, <1>5, <1>6, <1>7, <1>8, <1>9, <1>10,
     <1>11, <1>12, <1>13, <1>14, <1>15, <1>16, <1>17, <1>18, <1>19, <1>20,
     <1>21, <1>22, <1>23, <1>24, <1>25, <1>26, <1>27, <1>28, <1>29, <1>30,
     <1>31, <1>32, <1>33, <1>34, <1>35, <1>36, <1>37, <1>38, <1>39, <1>40,
     <1>41 DEF Next, DaemonStep, Surroundings

\* daemon_init and the reset values establish the invariant.
LEMMA IInvInit == ASSUME Init PROVE IInv
  <1>1. LocalsOK
    BY DEF Init, LocalsOK, Pcs, Errors, AutoRegion, Cols
  <1>2. TableOK
    BY DEF Init, TableOK, NoLast, Regions
  <1>3. EfpOK
    <2>1. [words |-> 0, cols |-> 0, sig |-> FALSE, cap |-> TRUE] \in Images
      BY DEF Images
    <2>2. "none" \in Errors
      BY DEF Errors
    <2> QED
      BY <2>1, <2>2 DEF Init, EfpOK
  <1>4. HwOK
    <2>1. Blank \in Word
      BY DEF Blank, Word
    <2>2. store \in [Windows -> Frame]
      BY <2>1 DEF Init, Frame
    <2>3. /\ crc \in Seq(Word) /\ dec \in Decodes
          /\ fabric \in [Cols -> Regions \cup {NoRegion, Mixed}]
      BY DEF Init, Decodes
    <2> QED
      BY <2>2, <2>3 DEF Init, HwOK
  <1>5. ObsOK
    BY DEF Init, ObsOK
  <1>6. HandOK /\ StageOK /\ StreamOK
    BY DEF Init, HandOK, StageOK, StreamOK, Deploys, InBlank, NoWrite, Regions
  <1> QED
    BY <1>1, <1>2, <1>3, <1>4, <1>5, <1>6 DEF IInv, TypeOK

\* A step that changes nothing preserves the invariant.
LEMMA IInvStutter == ASSUME IInv, UNCHANGED vars PROVE IInv'
  <1>1. TableOK' /\ EfpOK' /\ HwOK' /\ ObsOK'
    BY TableKept, EfpKept, HwKept, ObsKept
       DEF IInv, TypeOK, vars, table, efp, hw, lkm, occ, obs
  <1>2. LocalsOK' /\ HandOK'
    BY DEF IInv, TypeOK, LocalsOK, HandOK, vars
  <1>3. StageOK' /\ StreamOK'
    BY DEF IInv, StageOK, StreamOK, vars
  <1> QED
    BY <1>1, <1>2, <1>3 DEF IInv, TypeOK

\* The invariant holds, whatever the host, the other masters and faults do.
LEMMA InvariantHolds == Spec => []IInv
  BY IInvInit, IInvStep, IInvStutter, PTL DEF Spec

\* The daemon, the EFP registers and the hardware it drives stay inside their
\* ranges whatever the host, the other masters and the faults do: no command
\* indexes a region, column or word outside the fabric, the drain of a starved
\* WRITE never pushes more words than were armed, and the skid never overflows.
THEOREM TypeCorrect == Spec => []TypeOK
  <1>1. IInv => TypeOK
    BY DEF IInv
  <1> QED
    BY InvariantHolds, <1>1, PTL


\* A doorbell that is taken goes to a handler.
LEMMA AcceptPc ==
  ASSUME IInv, Accept
  PROVE  pc' \in {"verify", "reject", "stop", "restart", "abort", "ctx_save",
                  "ctx_restore"}
  <1>1. doorbell \in [cmd : Commands, sel : 0 .. AutoRegion, early : BOOLEAN]
    BY DEF Accept, IInv, TypeOK, EfpOK
  <1> QED
    BY <1>1, EntryType DEF Accept

-----------------------------------------------------------------------------
(* EFP_STATUS tells the truth.                                             *)

\* The status names a live container only when there is one, at every step: a
\* BLANK has replaced it before a region is taken away.
StatusInv ==
  /\ efp_state = "RUNNING" => \E rg \in Regions : rstate[rg] = "RUNNING"
  /\ efp_state = "PAUSED" => \E rg \in Regions : rstate[rg] = "PAUSED"
  /\ pc = "blanked" => efp_state = "BLANK"

\* Every step preserves it.
LEMMA StatusStep == ASSUME IInv, StatusInv, Next PROVE StatusInv'
  <1> USE DEF IInv, TypeOK, StatusInv
  <1>1. CASE Accept
    BY <1>1, AcceptPc DEF Accept, table
  <1>2. CASE Reject
    BY <1>2 DEF Reject, Fail, args, table, hw, obs, lkm, occ
  <1>3. CASE Squelch
    BY <1>3 DEF Squelch, args, table, hw, obs, lkm, occ
  <1>4. CASE ClearBusy
    BY <1>4 DEF ClearBusy, Return, table, hw, obs, lkm, occ
  <1>5. CASE Verify
    BY <1>5 DEF Verify, Fail, SetState, args, table, hw, obs, lkm, occ
  <1>6. CASE Alloc
    BY <1>6 DEF Alloc, Fail, SetState, Release, CallBlank, table, hw, lkm, occ
  <1>7. CASE BlankColumn
    BY <1>7 DEF BlankColumn, SetState, table, lkm, occ
  <1>8. CASE RunBlanked
    BY <1>8 DEF RunBlanked, Fail, Blanked, table, efp, hw, obs, lkm, occ
  <1>9. CASE Arm
    BY <1>9 DEF Arm, Fail, SetState, args, table, lkm, occ
  <1>10. CASE LoadDone
    BY <1>10 DEF LoadDone, efp, hw, obs, lkm, occ
  <1>11. CASE Expire
    BY <1>11 DEF Expire, Notify, args, table, efp, lkm, occ
  <1>12. CASE DrainCheck
    BY <1>12 DEF DrainCheck, Fail, table, efp, hw, obs, lkm, occ
  <1>13. CASE DrainPush
    BY <1>13 DEF DrainPush, args, table, efp, lkm, obs
  <1>14. CASE WdtBlanked
    BY <1>14 DEF WdtBlanked, Fail, Blanked, args, table, hw, obs, lkm, occ
  <1>15. CASE CrcGate
    BY <1>15 DEF CrcGate, SetState, CallBlank, table, hw, obs, lkm, occ
  <1>16. CASE GateBlanked
    BY <1>16 DEF GateBlanked, Fail, Blanked, args, table, hw, obs, lkm, occ
  <1>17. CASE Readback
    BY <1>17 DEF Readback, Fail, SetState, ReadFrame, table, lkm, obs
  <1>18. CASE Commit
    <2>1. r \in Regions
      BY <1>18 DEF Commit, HandOK, Deploys
    <2>2. rstate'[r] = "RUNNING"
      BY <1>18, <2>1 DEF Commit, TableOK
    <2> QED
      BY <1>18, <2>1, <2>2 DEF Commit
  <1>19. CASE Lock
    BY <1>19 DEF Lock, Notify, args, table, efp, occ, obs
  <1>20. CASE CtxSave
    <2>1. CASE UNCHANGED rstate /\ efp_state' = "ERROR" /\ pc' = "squelch"
      BY <2>1
    <2>2. CASE sel \in Regions /\ rstate' = [rstate EXCEPT ![sel] = "PAUSED"]
               /\ efp_state' = "PAUSED" /\ pc' = "squelch"
      <3>1. rstate'[sel] = "PAUSED"
        BY <2>2 DEF TableOK
      <3> QED
        BY <2>2, <3>1
    <2> QED
      BY <1>20, <2>1, <2>2 DEF CtxSave, Fail
  <1>21. CASE CtxRestore
    <2>1. CASE UNCHANGED rstate /\ efp_state' = "ERROR" /\ pc' = "squelch"
      BY <2>1
    <2>2. CASE sel \in Regions /\ rstate' = [rstate EXCEPT ![sel] = "RUNNING"]
               /\ efp_state' = "RUNNING" /\ pc' = "squelch"
      <3>1. rstate'[sel] = "RUNNING"
        BY <2>2 DEF TableOK
      <3> QED
        BY <2>2, <3>1
    <2> QED
      BY <1>21, <2>1, <2>2 DEF CtxRestore, Fail
  <1>22. CASE Stop
    BY <1>22 DEF Stop, Fail, CallBlank, table, efp, occ, obs
  <1>23. CASE StopBlanked
    BY <1>23 DEF StopBlanked, Fail, Blanked, args, table, efp, hw, obs, lkm,
       occ
  <1>24. CASE Stopped
    BY <1>24 DEF Stopped, Release, args, hw, obs, lkm, occ
  <1>25. CASE Restart
    BY <1>25 DEF Restart, Fail, CallBlank, table, efp, occ, obs
  <1>26. CASE RestartBlanked
    BY <1>26 DEF RestartBlanked, Fail, Release, Blanked, args, table, efp, hw,
       obs, lkm, occ
  <1>27. CASE Rerun
    BY <1>27 DEF Rerun, Fail, SetState, table, hw, obs, lkm, occ
  <1>28. CASE Abort
    BY <1>28 DEF Abort, CallBlank, table, efp, occ, obs
  <1>29. CASE AbortBlanked
    BY <1>29 DEF AbortBlanked, Release, Blanked, efp, hw, obs, lkm, occ
  <1>30. CASE Heartbeat
    BY <1>30 DEF Heartbeat, table, efp, hw, obs, lkm, occ
  <1>31. CASE HbRegion
    BY <1>31 DEF HbRegion, Return, table, efp, hw, obs, lkm, occ
  <1>32. CASE Probe
    BY <1>32 DEF Probe, CallBlank, ReadFrame, table, efp, lkm, obs
  <1>33. CASE HbBlanked
    BY <1>33 DEF HbBlanked, Release, Notify, Blanked, lkm, occ
  <1>34. CASE OccTake
    BY <1>34 DEF OccTake, local, table, efp, lkm, obs, args
  <1>35. CASE HostRing
    BY <1>35 DEF HostRing, Ring, local, table, hw, obs, args, lkm, occ
  <1>36. CASE HostRingBusy
    BY <1>36 DEF HostRingBusy, Ring, local, table, hw, obs, args, lkm, occ
  <1>37. CASE HostPush
    BY <1>37 DEF HostPush, local, table, efp, lkm, args
  <1>38. CASE HostUnthrottle
    BY <1>38 DEF HostUnthrottle, local, table, efp, lkm, occ, obs, args
  <1>39. CASE OtherLkm
    BY <1>39 DEF OtherLkm, local, table, efp, lkm, occ, obs, args
  <1>40. CASE StoreUpset
    BY <1>40 DEF StoreUpset, local, table, efp, lkm, obs, args
  <1>41. CASE BlankWaits
    BY <1>41 DEF BlankWaits, SetState, args, table, hw, obs, lkm, occ
  <1> QED BY <1>1, <1>2, <1>3, <1>4, <1>5, <1>6, <1>7, <1>8, <1>9, <1>10,
     <1>11, <1>12, <1>13, <1>14, <1>15, <1>16, <1>17, <1>18, <1>19, <1>20,
     <1>21, <1>22, <1>23, <1>24, <1>25, <1>26, <1>27, <1>28, <1>29, <1>30,
     <1>31, <1>32, <1>33, <1>34, <1>35, <1>36, <1>37, <1>38, <1>39, <1>40,
     <1>41 DEF Next, DaemonStep, Surroundings

\* EFP_STATUS at rest never shows RUNNING or PAUSED when no region is in that
\* state, under every fault, every lock command of another master, every
\* interleaving of heartbeat and commands, and any number of regions.
THEOREM StatusTruthful == Spec => []StatusTruth
  <1>1. Init => StatusInv
    BY DEF Init, StatusInv
  <1>2. IInv /\ StatusInv /\ [Next]_vars => StatusInv'
    <2>1. IInv /\ StatusInv /\ UNCHANGED vars => StatusInv'
      BY DEF StatusInv, vars
    <2> QED
      BY <2>1, StatusStep
  <1>3. StatusInv => StatusTruth
    BY DEF StatusInv, StatusTruth
  <1> QED
    BY <1>1, <1>2, <1>3, InvariantHolds, PTL DEF Spec

-----------------------------------------------------------------------------
(* A region is locked while it runs.                                       *)

\* Nobody else writes LKM_CMD.
SoleMaster == "lkm" \notin Faults /\ "global" \notin Faults

\* A deploy works on a FREE region, and the BLANK of stop and restart finds the
\* lock it has just opened, so that it cannot be refused.
LockInv ==
  /\ LockedWhileRunning
  /\ ~global_lock
  /\ pc \in Deploys \/ (pc \in InBlank /\ ret \in {"run", "wdt", "gate"})
       => rstate[r] = "FREE"
  /\ pc \in InBlank /\ ret \in {"stop", "restart"} => r \notin locks
  /\ pc = "blanked" /\ ret \in {"stop", "restart"} => err = "none"

\* Every step preserves it.
LEMMA LockStep == ASSUME SoleMaster, IInv, LockInv, Next PROVE LockInv'
  <1> USE DEF IInv, TypeOK, LockInv, LockedWhileRunning
  <1>1. CASE Accept
    BY <1>1, AcceptPc DEF Accept, table, hw, lkm, Deploys, InBlank, Blanking
  <1>2. CASE Reject
    BY <1>2 DEF Reject, Fail, args, table, hw, obs, lkm, occ, Deploys,
       InBlank, Blanking
  <1>3. CASE Squelch
    BY <1>3 DEF Squelch, args, table, hw, obs, lkm, occ, Deploys, InBlank,
       Blanking
  <1>4. CASE ClearBusy
    BY <1>4 DEF ClearBusy, Return, table, hw, obs, lkm, occ, Deploys, InBlank,
       Blanking
  <1>5. CASE Verify
    BY <1>5 DEF Verify, Fail, SetState, args, table, hw, obs, lkm, occ,
       Deploys, InBlank, Blanking
  <1>6. CASE Alloc
    <2>1. CASE AllocError = "none"
      <3>1. /\ pc' = "blank" /\ ret' = "run" /\ r' = Allocated
            /\ UNCHANGED <<rstate, lkm>>
        BY <1>6, <2>1 DEF Alloc, CallBlank, table, hw
      <3>2. rstate[Allocated] = "FREE"
        BY <2>1, AllocErrorType
      <3> QED
        BY <1>6, <3>1, <3>2 DEF Alloc, Blanking, Deploys, InBlank, lkm
    <2>2. CASE AllocError # "none"
      <3>1. pc' = "squelch" /\ UNCHANGED lkm
        BY <1>6, <2>2 DEF Alloc, Fail, hw
      <3>2. \A rg \in Regions : rstate'[rg] = rstate[rg]
        BY <1>6, <2>2, AllocErrorType DEF Alloc, Release, table, TableOK
      <3> QED
        BY <1>6, <3>1, <3>2 DEF Alloc, Blanking, Deploys, InBlank, lkm
    <2> QED
      BY <2>1, <2>2
  <1>7. CASE BlankColumn
    <2>1. ~(ret \in {"stop", "restart"} /\ ~Open(r))
      BY <1>7 DEF BlankColumn, Open, InBlank
    <2>2. UNCHANGED <<ret, r, rstate, lkm>> /\ pc' \in InBlank
      BY <1>7 DEF BlankColumn, table, InBlank
    <2>3. Open(r) => err' = "none"
      BY <1>7 DEF BlankColumn
    <2> QED
      BY <1>7, <2>1, <2>2, <2>3 DEF BlankColumn, Blanking, Deploys, InBlank, lkm
  <1>8. CASE RunBlanked
    BY <1>8 DEF RunBlanked, Fail, Blanked, table, efp, hw, obs, lkm, occ,
       Deploys, InBlank, Blanking
  <1>9. CASE Arm
    BY <1>9 DEF Arm, Fail, SetState, args, table, lkm, occ, Deploys, InBlank,
       Blanking
  <1>10. CASE LoadDone
    BY <1>10 DEF LoadDone, efp, hw, obs, lkm, occ, Deploys, InBlank, Blanking
  <1>11. CASE Expire
    BY <1>11 DEF Expire, Notify, args, table, efp, lkm, occ, Deploys, InBlank,
       Blanking
  <1>12. CASE DrainCheck
    BY <1>12 DEF DrainCheck, Fail, table, efp, hw, obs, lkm, occ, Deploys,
       InBlank, Blanking
  <1>13. CASE DrainPush
    BY <1>13 DEF DrainPush, args, table, efp, lkm, obs, Deploys, InBlank,
       Blanking
  <1>14. CASE WdtBlanked
    BY <1>14 DEF WdtBlanked, Fail, Blanked, args, table, hw, obs, lkm, occ,
       Deploys, InBlank, Blanking
  <1>15. CASE CrcGate
    BY <1>15 DEF CrcGate, SetState, CallBlank, table, hw, obs, lkm, occ,
       Deploys, InBlank, Blanking
  <1>16. CASE GateBlanked
    BY <1>16 DEF GateBlanked, Fail, Blanked, args, table, hw, obs, lkm, occ,
       Deploys, InBlank, Blanking
  <1>17. CASE Readback
    BY <1>17 DEF Readback, Fail, SetState, ReadFrame, table, lkm, obs,
       Deploys, InBlank, Blanking
  <1>18. CASE Commit
    BY <1>18 DEF Commit, args, hw, obs, lkm, occ, Deploys, InBlank, Blanking
  <1>19. CASE Lock
    BY <1>19 DEF Lock, Notify, args, table, efp, occ, obs, Deploys, InBlank,
       Blanking
  <1>20. CASE CtxSave
    <2>1. pc' = "squelch" /\ UNCHANGED lkm
      BY <1>20 DEF CtxSave, Fail
    <2>2. \A rg \in Regions : rstate'[rg] # "FREE" => rstate[rg] # "FREE"
      BY <1>20 DEF CtxSave, TableOK
    <2> QED
      BY <1>20, <2>1, <2>2 DEF CtxSave, Blanking, Deploys, InBlank, lkm
  <1>21. CASE CtxRestore
    <2>1. pc' = "squelch" /\ UNCHANGED lkm
      BY <1>21 DEF CtxRestore, Fail
    <2>2. \A rg \in Regions : rstate'[rg] # "FREE" => rstate[rg] # "FREE"
      BY <1>21 DEF CtxRestore, TableOK
    <2> QED
      BY <1>21, <2>1, <2>2 DEF CtxRestore, Blanking, Deploys, InBlank, lkm
  <1>22. CASE Stop
    BY <1>22 DEF Stop, Fail, CallBlank, table, efp, occ, obs, Deploys,
       InBlank, Blanking
  <1>23. CASE StopBlanked
    BY <1>23 DEF StopBlanked, Fail, Blanked, args, table, efp, hw, obs, lkm,
       occ, Deploys, InBlank, Blanking
  <1>24. CASE Stopped
    <2>1. r \in Regions /\ \A rg \in Regions :
            rstate'[rg] = IF rg = r THEN "FREE" ELSE rstate[rg]
      BY <1>24 DEF Stopped, Blanked, Release, HandOK, InBlank, TableOK
    <2>2. pc' = "squelch" /\ UNCHANGED lkm
      BY <1>24 DEF Stopped, hw
    <2> QED
      BY <1>24, <2>1, <2>2 DEF Stopped, Blanked, Blanking, Deploys, InBlank, lkm
  <1>25. CASE Restart
    BY <1>25 DEF Restart, Fail, CallBlank, table, efp, occ, obs, Deploys,
       InBlank, Blanking
  <1>26. CASE RestartBlanked
    <2>0. err = "none" /\ Release(r) /\ pc' = "rerun"
      BY <1>26 DEF RestartBlanked, Blanked, InBlank
    <2>1. r \in Regions /\ \A rg \in Regions :
            rstate'[rg] = IF rg = r THEN "FREE" ELSE rstate[rg]
      BY <1>26, <2>0 DEF RestartBlanked, Blanked, Release, HandOK, InBlank, TableOK
    <2>2. pc' = "rerun" /\ UNCHANGED lkm
      BY <1>26, <2>0 DEF RestartBlanked, hw
    <2> QED
      BY <1>26, <2>1, <2>2 DEF RestartBlanked, Blanked, Blanking, Deploys, InBlank, lkm
  <1>27. CASE Rerun
    BY <1>27 DEF Rerun, Fail, SetState, table, hw, obs, lkm, occ, Deploys,
       InBlank, Blanking
  <1>28. CASE Abort
    BY <1>28 DEF Abort, CallBlank, table, efp, occ, obs, Deploys, InBlank,
       Blanking
  <1>29. CASE AbortBlanked
    <2>1. r \in Regions /\ \A rg \in Regions :
            rstate'[rg] = IF rg = r THEN "FREE" ELSE rstate[rg]
      BY <1>29 DEF AbortBlanked, Blanked, Release, HandOK, InBlank, TableOK
    <2>2. pc' = "abort" /\ UNCHANGED lkm
      BY <1>29 DEF AbortBlanked, hw
    <2> QED
      BY <1>29, <2>1, <2>2 DEF AbortBlanked, Blanked, Blanking, Deploys, InBlank, lkm
  <1>30. CASE Heartbeat
    BY <1>30 DEF Heartbeat, table, efp, hw, obs, lkm, occ, Deploys, InBlank,
       Blanking
  <1>31. CASE HbRegion
    BY <1>31 DEF HbRegion, Return, table, efp, hw, obs, lkm, occ, Deploys,
       InBlank, Blanking
  <1>32. CASE Probe
    BY <1>32 DEF Probe, CallBlank, ReadFrame, table, efp, lkm, obs, Deploys,
       InBlank, Blanking
  <1>33. CASE HbBlanked
    <2>1. r \in Regions /\ \A rg \in Regions :
            rstate'[rg] = IF rg = r THEN "FREE" ELSE rstate[rg]
      BY <1>33 DEF HbBlanked, Blanked, Release, HandOK, InBlank, TableOK
    <2>2. pc' = "hb" /\ UNCHANGED lkm
      BY <1>33 DEF HbBlanked, hw
    <2> QED
      BY <1>33, <2>1, <2>2 DEF HbBlanked, Blanked, Blanking, Deploys, InBlank, lkm
  <1>34. CASE OccTake
    BY <1>34 DEF OccTake, local, table, efp, lkm, obs, args, Deploys, InBlank,
       Blanking
  <1>35. CASE HostRing
    BY <1>35 DEF HostRing, Ring, local, table, hw, obs, args, lkm, occ,
       Deploys, InBlank, Blanking
  <1>36. CASE HostRingBusy
    BY <1>36 DEF HostRingBusy, Ring, local, table, hw, obs, args, lkm, occ,
       Deploys, InBlank, Blanking
  <1>37. CASE HostPush
    BY <1>37 DEF HostPush, local, table, efp, lkm, args, Deploys, InBlank,
       Blanking
  <1>38. CASE HostUnthrottle
    BY <1>38 DEF HostUnthrottle, local, table, efp, lkm, occ, obs, args,
       Deploys, InBlank, Blanking
  <1>39. CASE OtherLkm
    BY <1>39 DEF OtherLkm, SoleMaster
  <1>40. CASE StoreUpset
    BY <1>40 DEF StoreUpset, local, table, efp, lkm, obs, args, Deploys,
       InBlank, Blanking
  <1>41. CASE BlankWaits
    BY <1>41 DEF BlankWaits, SetState, args, table, hw, obs, lkm, occ, Deploys, InBlank, Blanking
  <1> QED BY <1>1, <1>2, <1>3, <1>4, <1>5, <1>6, <1>7, <1>8, <1>9, <1>10,
     <1>11, <1>12, <1>13, <1>14, <1>15, <1>16, <1>17, <1>18, <1>19, <1>20,
     <1>21, <1>22, <1>23, <1>24, <1>25, <1>26, <1>27, <1>28, <1>29, <1>30,
     <1>31, <1>32, <1>33, <1>34, <1>35, <1>36, <1>37, <1>38, <1>39, <1>40,
     <1>41 DEF Next, DaemonStep, Surroundings

\* If the daemon is the only master that writes LKM_CMD, a RUNNING or PAUSED
\* region is locked from the end of its deploy to the BLANK that removes it, for
\* any number of regions and whatever the host, the watchdog and upsets do.
THEOREM RunningIsLocked ==
  ASSUME SoleMaster
  PROVE  Spec => []LockedWhileRunning
  <1>1. Init => LockInv
    BY DEF Init, LockInv, LockedWhileRunning, Deploys, InBlank
  <1>2. IInv /\ LockInv /\ [Next]_vars => LockInv'
    <2>1. IInv /\ LockInv /\ UNCHANGED vars => LockInv'
      BY DEF LockInv, LockedWhileRunning, Blanking, vars
    <2> QED
      BY <2>1, LockStep
  <1>3. LockInv => LockedWhileRunning
    BY DEF LockInv
  <1> QED
    BY <1>1, <1>2, <1>3, InvariantHolds, PTL DEF Spec

-----------------------------------------------------------------------------
(* No stray word reaches a frame.                                          *)

\* The streaming host stays silent once its budget has expired.
PromptHost == "late" \notin Faults

\* A WRITE is in flight only inside LOAD and its watchdog drain, on the column
\* in hand; the skid holds the host's next word or a drain zero, and nothing
\* once the frame is complete; the drain can always finish the frame.
WriteInv ==
  /\ wr.on => /\ pc \in {"load", "drain", "push"}
              /\ wr.win = <<r, c>> /\ wr.cnt = n
  /\ ~wr.on => skid = <<>>
  /\ pc = "push" => wr.on /\ skid = <<>>
  /\ pc \in {"drain", "push"} /\ wr.on =>
       wr.cnt - wr.idx <= z + (IF skid = <<>> THEN 0 ELSE 1)

\* The armed WRITE is a record of a window, a position and a count.
LEMMA ArmedWrite ==
  ASSUME HwOK, wr.on
  PROVE  /\ wr \in [on : {TRUE}, win : Windows, idx : 0 .. MaxWords - 1,
                    cnt : Slots]
         /\ wr.win \in Windows /\ wr.idx \in 0 .. MaxWords - 1 /\ wr.cnt \in Slots
         /\ wr.idx \in Nat /\ wr.cnt \in Nat
  <1>1. wr # NoWrite
    BY DEF NoWrite
  <1>2. wr \in [on : {TRUE}, win : Windows, idx : 0 .. MaxWords - 1, cnt : Slots]
    BY <1>1 DEF HwOK
  <1>3. wr.win \in Windows /\ wr.idx \in 0 .. MaxWords - 1 /\ wr.cnt \in Slots
    BY <1>2
  <1>4. wr.idx \in Nat
    BY <1>3
  <1>5. wr.cnt \in Nat
    BY <1>3 DEF Slots
  <1> QED
    BY <1>2, <1>3, <1>4, <1>5

\* Every step preserves it.
LEMMA WriteStep == ASSUME PromptHost, IInv, WriteInv, Next PROVE WriteInv'
  <1> USE DEF IInv, TypeOK, WriteInv
  <1>1. CASE Accept
    BY <1>1, AcceptPc DEF Accept, table, hw, lkm, occ
  <1>2. CASE Reject
    BY <1>2 DEF Reject, Fail, args, table, hw, obs, lkm, occ
  <1>3. CASE Squelch
    BY <1>3 DEF Squelch, args, table, hw, obs, lkm, occ
  <1>4. CASE ClearBusy
    BY <1>4 DEF ClearBusy, Return, table, hw, obs, lkm, occ
  <1>5. CASE Verify
    BY <1>5 DEF Verify, Fail, SetState, args, table, hw, obs, lkm, occ
  <1>6. CASE Alloc
    BY <1>6 DEF Alloc, Fail, SetState, Release, CallBlank, table, hw, lkm, occ
  <1>7. CASE BlankColumn
    BY <1>7 DEF BlankColumn, SetState, table, lkm, occ
  <1>8. CASE RunBlanked
    BY <1>8 DEF RunBlanked, Fail, Blanked, table, efp, hw, obs, lkm, occ
  <1>9. CASE Arm
    BY <1>9 DEF Arm, Fail, SetState, args, table, lkm, occ
  <1>10. CASE LoadDone
    BY <1>10 DEF LoadDone, efp, hw, obs, lkm, occ
  <1>11. CASE Expire
    <2>1. pc' = "drain" /\ z' = n /\ UNCHANGED <<wr, skid, r, c, n>>
      BY <1>11 DEF Expire, args, occ
    <2>2. wr.on /\ wr.cnt = n /\ wr.cnt \in Slots /\ wr.idx \in 0 .. MaxWords - 1
      BY <1>11, ArmedWrite DEF Expire
    <2> QED
      BY <1>11, <2>1, <2>2 DEF Expire, Slots
  <1>12. CASE DrainCheck
    <2>1. CASE ~wr.on
      BY <1>12, <2>1 DEF DrainCheck, hw, occ
    <2>2. CASE wr.on
      <3>1. z \in Nat /\ wr.idx < wr.cnt /\ wr.cnt - wr.idx <= z
        BY <1>12, <2>2 DEF DrainCheck, LocalsOK, StreamOK
      <3>2. wr.idx \in Nat /\ wr.cnt \in Nat
        BY <2>2, ArmedWrite DEF Slots
      <3>3. z # 0
        BY <3>1, <3>2
      <3> QED
        BY <1>12, <2>2, <3>1, <3>3 DEF DrainCheck, hw, occ
    <2> QED
      BY <2>1, <2>2
  <1>13. CASE DrainPush
    <2>1. wr.on /\ skid = <<>> /\ wr.cnt - wr.idx <= z /\ z \in Nat
      BY <1>13 DEF DrainPush, LocalsOK
    <2>2. wr.cnt \in Nat /\ wr.idx \in Nat
      BY <2>1, ArmedWrite DEF Slots
    <2>3. skid' # <<>> /\ z' = z - 1 /\ pc' = "drain" /\ UNCHANGED <<wr, r, c, n>>
      BY <1>13 DEF DrainPush, args
    <2>4. wr.cnt - wr.idx <= (z - 1) + 1
      BY <2>1, <2>2
    <2> QED
      BY <2>1, <2>3, <2>4
  <1>14. CASE WdtBlanked
    BY <1>14 DEF WdtBlanked, Fail, Blanked, args, table, hw, obs, lkm, occ
  <1>15. CASE CrcGate
    BY <1>15 DEF CrcGate, SetState, CallBlank, table, hw, obs, lkm, occ
  <1>16. CASE GateBlanked
    BY <1>16 DEF GateBlanked, Fail, Blanked, args, table, hw, obs, lkm, occ
  <1>17. CASE Readback
    BY <1>17 DEF Readback, Fail, SetState, ReadFrame, table, lkm, obs
  <1>18. CASE Commit
    BY <1>18 DEF Commit, args, hw, obs, lkm, occ
  <1>19. CASE Lock
    BY <1>19 DEF Lock, Notify, args, table, efp, occ, obs
  <1>20. CASE CtxSave
    BY <1>20 DEF CtxSave, Fail, args, lkm, occ, obs
  <1>21. CASE CtxRestore
    BY <1>21 DEF CtxRestore, Fail, args, lkm, occ, obs
  <1>22. CASE Stop
    BY <1>22 DEF Stop, Fail, CallBlank, table, efp, occ, obs
  <1>23. CASE StopBlanked
    BY <1>23 DEF StopBlanked, Fail, Blanked, args, table, efp, hw, obs, lkm,
       occ
  <1>24. CASE Stopped
    BY <1>24 DEF Stopped, Release, args, hw, obs, lkm, occ
  <1>25. CASE Restart
    BY <1>25 DEF Restart, Fail, CallBlank, table, efp, occ, obs
  <1>26. CASE RestartBlanked
    BY <1>26 DEF RestartBlanked, Fail, Release, Blanked, args, table, efp, hw,
       obs, lkm, occ
  <1>27. CASE Rerun
    BY <1>27 DEF Rerun, Fail, SetState, table, hw, obs, lkm, occ
  <1>28. CASE Abort
    BY <1>28 DEF Abort, CallBlank, table, efp, occ, obs
  <1>29. CASE AbortBlanked
    BY <1>29 DEF AbortBlanked, Release, Blanked, efp, hw, obs, lkm, occ
  <1>30. CASE Heartbeat
    BY <1>30 DEF Heartbeat, table, efp, hw, obs, lkm, occ
  <1>31. CASE HbRegion
    BY <1>31 DEF HbRegion, Return, table, efp, hw, obs, lkm, occ
  <1>32. CASE Probe
    BY <1>32 DEF Probe, CallBlank, ReadFrame, table, efp, lkm, obs
  <1>33. CASE HbBlanked
    BY <1>33 DEF HbBlanked, Release, Notify, Blanked, lkm, occ
  <1>34. CASE OccTake
    <2>1. wr.on /\ skid # <<>> /\ skid' = <<>> /\ UNCHANGED <<pc, r, c, n, z>>
      BY <1>34 DEF OccTake, local, args
    <2>2. /\ wr \in [on : {TRUE}, win : Windows, idx : 0 .. MaxWords - 1, cnt : Slots]
          /\ wr.cnt \in Nat /\ wr.idx \in Nat
      BY <2>1, ArmedWrite
    <2>3. pc # "push"
      BY <2>1
    <2>4. CASE wr.idx + 1 = wr.cnt
      BY <1>34, <2>1, <2>3, <2>4 DEF OccTake, NoWrite
    <2>5. CASE wr.idx + 1 # wr.cnt
      <3>1. wr' = [wr EXCEPT !.idx = wr.idx + 1]
        BY <1>34, <2>5 DEF OccTake
      <3>2. wr'.on /\ wr'.win = wr.win /\ wr'.cnt = wr.cnt /\ wr'.idx = wr.idx + 1
        BY <2>2, <3>1
      <3>3. pc = "drain" => wr.cnt - (wr.idx + 1) <= z
        BY <2>1, <2>2 DEF LocalsOK
      <3> QED
        <4>1. wr'.cnt - wr'.idx = wr.cnt - (wr.idx + 1)
          BY <3>2
        <4>2. pc' = "drain" => wr'.cnt - wr'.idx <= z'
          BY <2>1, <3>3, <4>1
        <4> QED
          BY <2>1, <2>3, <3>2, <4>2 DEF LocalsOK
    <2> QED
      BY <2>4, <2>5
  <1>35. CASE HostRing
    BY <1>35 DEF HostRing, Ring, local, table, hw, obs, args, lkm, occ
  <1>36. CASE HostRingBusy
    BY <1>36 DEF HostRingBusy, Ring, local, table, hw, obs, args, lkm, occ
  <1>37. CASE HostPush
    <2>1. pc = "load" /\ wr.on
      BY <1>37 DEF HostPush, PromptHost
    <2> QED
      BY <1>37, <2>1 DEF HostPush, local, args
  <1>38. CASE HostUnthrottle
    BY <1>38 DEF HostUnthrottle, local, table, efp, lkm, occ, obs, args
  <1>39. CASE OtherLkm
    BY <1>39 DEF OtherLkm, local, table, efp, lkm, occ, obs, args
  <1>40. CASE StoreUpset
    BY <1>40 DEF StoreUpset, local, table, efp, lkm, obs, args
  <1>41. CASE BlankWaits
    BY <1>41 DEF BlankWaits, SetState, args, table, hw, obs, lkm, occ
  <1> QED BY <1>1, <1>2, <1>3, <1>4, <1>5, <1>6, <1>7, <1>8, <1>9, <1>10,
     <1>11, <1>12, <1>13, <1>14, <1>15, <1>16, <1>17, <1>18, <1>19, <1>20,
     <1>21, <1>22, <1>23, <1>24, <1>25, <1>26, <1>27, <1>28, <1>29, <1>30,
     <1>31, <1>32, <1>33, <1>34, <1>35, <1>36, <1>37, <1>38, <1>39, <1>40,
     <1>41 DEF Next, DaemonStep, Surroundings

\* If the host stays silent once its budget has expired, no word is left in the
\* skid for the next WRITE to take as its first: the drain always finishes the
\* starved frame within its budget and never pushes a word too many.
THEOREM NoWordIsLeftOver ==
  ASSUME PromptHost
  PROVE  Spec => []NoSurplusWord
  <1>1. Init => WriteInv
    BY DEF Init, WriteInv, NoWrite
  <1>2. IInv /\ WriteInv /\ [Next]_vars => WriteInv'
    <2>1. IInv /\ WriteInv /\ UNCHANGED vars => WriteInv'
      BY DEF WriteInv, vars
    <2> QED
      BY <2>1, WriteStep
  <1>3. WriteInv => NoSurplusWord
    BY DEF WriteInv, NoSurplusWord
  <1> QED
    BY <1>1, <1>2, <1>3, InvariantHolds, PTL DEF Spec

-----------------------------------------------------------------------------
(* What runs is what the host streamed.                                    *)

Prefix(m) == [i \in 1 .. m |-> i]

\* The first m words of column cc of the region in hand are the image's.
Loaded(cc, m) == \A i \in 1 .. m : store[<<r, cc>>][i] \in {i, Upset}

\* Column cc is loaded and its CRC recorded.
Recorded(cc) == col_crc[<<r, cc>>] = Prefix(n) /\ Loaded(cc, n)

\* In LOAD the CRC, the frame and the host agree on how far the stream is.
LoadInv ==
  pc = "load" => \E m \in 0 .. MaxWords :
    /\ m = IF wr.on THEN wr.idx ELSE n
    /\ crc = Prefix(m) /\ Loaded(c, m)
    /\ skid = <<>> => hpos = m
    /\ skid # <<>> => hpos = m + 1 /\ skid = <<m + 1>>

\* The columns already loaded are recorded.
ColumnsInv ==
  /\ pc \in {"arm", "load"} =>
       \A cc \in Cols : FirstCol(r, k) <= cc /\ cc < c => Recorded(cc)
  /\ pc \in {"gate", "readback", "commit"} =>
       \A cc \in ColsOf(r, k) : Recorded(cc)

\* One more streamed word.
LEMMA PrefixAppend ==
  ASSUME NEW m \in Nat
  PROVE  Append(Prefix(m), m + 1) = Prefix(m + 1)
  BY DEF Prefix

\* Every step preserves what is known of a deploy's columns.
LEMMA DeployStep ==
  ASSUME SoleMaster, PromptHost, IInv, LockInv, WriteInv, LoadInv, ColumnsInv, Next
  PROVE  LoadInv' /\ ColumnsInv'
  <1>1. CASE Accept
    BY <1>1, AcceptPc DEF Accept, LoadInv, ColumnsInv
  <1>2. CASE Reject
    BY <1>2 DEF Reject, Fail, args, table, hw, obs, lkm, occ, LoadInv,
       ColumnsInv, Loaded, Recorded
  <1>3. CASE Squelch
    BY <1>3 DEF Squelch, args, table, hw, obs, lkm, occ, LoadInv, ColumnsInv,
       Loaded, Recorded
  <1>4. CASE ClearBusy
    BY <1>4 DEF ClearBusy, Return, table, hw, obs, lkm, occ, LoadInv,
       ColumnsInv, Loaded, Recorded
  <1>5. CASE Verify
    BY <1>5 DEF Verify, Fail, SetState, args, table, hw, obs, lkm, occ,
       LoadInv, ColumnsInv, Loaded, Recorded
  <1>6. CASE Alloc
    BY <1>6 DEF Alloc, Fail, SetState, Release, CallBlank, table, hw, lkm,
       occ, LoadInv, ColumnsInv, Loaded, Recorded
  <1>7. CASE BlankColumn
    BY <1>7 DEF BlankColumn, SetState, table, lkm, occ, LoadInv, ColumnsInv,
       Loaded, Recorded
  <1>8. CASE RunBlanked
    <2>1. CASE pc' = "squelch"
      BY <2>1 DEF LoadInv, ColumnsInv
    <2>2. CASE pc' = "arm"
      <3>1. c' = FirstCol(r, k) /\ UNCHANGED <<r, k>>
        BY <1>8, <2>2 DEF RunBlanked, Fail
      <3>2. FirstCol(r, k) \in Int
        BY DEF IInv, TypeOK, LocalsOK, FirstCol
      <3> QED
        BY <2>2, <3>1, <3>2 DEF LoadInv, ColumnsInv, Cols, FirstCol
    <2> QED
      BY <1>8, <2>1, <2>2 DEF RunBlanked, Fail
  <1>9. CASE Arm
    <2>1. CASE pc' = "squelch"
      BY <2>1 DEF LoadInv, ColumnsInv
    <2>2. CASE pc' = "load"
      <3>1. /\ wr' = [on |-> TRUE, win |-> <<r, c>>, idx |-> 0, cnt |-> n]
            /\ crc' = <<>> /\ hpos' = 0 /\ UNCHANGED <<skid, store, r, c, k, n, col_crc>>
        BY <1>9, <2>2 DEF Arm, Fail, args, table
      <3>2. skid' = <<>>
        BY <1>9, <3>1 DEF Arm, WriteInv
      <3>3. wr'.on /\ wr'.idx = 0
        BY <3>1
      <3>4. crc' = Prefix(0)
        BY <3>1 DEF Prefix
      <3>5. LoadInv'
        BY <3>1, <3>2, <3>3, <3>4 DEF LoadInv, Loaded, Prefix
      <3>6. ColumnsInv'
        BY <1>9, <2>2, <3>1 DEF Arm, ColumnsInv, Recorded, Loaded
      <3> QED
        BY <3>5, <3>6
    <2> QED
      BY <1>9, <2>1, <2>2 DEF Arm, Fail
  <1>10. CASE LoadDone
    <2>1. /\ UNCHANGED <<store, r, k, n>> /\ pc = "load" /\ ~wr.on /\ c \in Cols
          /\ r \in Regions /\ c <= cend
      BY <1>10 DEF LoadDone, hw, occ, IInv, TypeOK, LocalsOK, HandOK, Deploys
    <2>2. crc = Prefix(n) /\ Loaded(c, n)
      BY <2>1 DEF LoadInv
    <2>3. col_crc'[<<r, c>>] = crc
          /\ \A cc \in Cols : cc # c => col_crc'[<<r, cc>>] = col_crc[<<r, cc>>]
      BY <1>10, <2>1 DEF LoadDone, IInv, TypeOK, TableOK, Windows
    <2>4. \A cc \in Cols : FirstCol(r, k) <= cc /\ cc <= c => Recorded(cc)'
      <3> SUFFICES ASSUME NEW cc \in Cols, FirstCol(r, k) <= cc, cc <= c
                   PROVE  Recorded(cc)'
        OBVIOUS
      <3>1. CASE cc = c
        BY <2>1, <2>2, <2>3, <3>1 DEF Recorded, Loaded, Prefix
      <3>2. CASE cc # c
        <4>1. Recorded(cc)
          BY <2>1, <3>2 DEF ColumnsInv, Cols
        <4> QED
          BY <2>1, <2>3, <3>2, <4>1 DEF Recorded, Loaded, Prefix
      <3> QED
        BY <3>1, <3>2
    <2>5. CASE c = cend
      <3>1. pc' = "gate" /\ cend = LastCol(r, k) /\ r + k <= FabCols /\ k \in 0 .. FabCols
        BY <1>10, <2>1, <2>5 DEF LoadDone, IInv, TypeOK, LocalsOK, HandOK, Deploys
      <3>2. FirstCol(r, k) \in Cols /\ LastCol(r, k) \in Cols
        BY <2>1, <3>1, ColRange
      <3>3. \A cc \in ColsOf(r, k) : cc \in Cols /\ FirstCol(r, k) <= cc /\ cc <= c
        BY <2>5, <3>1, <3>2 DEF ColsOf, Cols
      <3>4. \A cc \in ColsOf(r', k') : Recorded(cc)'
        BY <2>1, <2>4, <3>3
      <3> QED
        BY <3>1, <3>4 DEF LoadInv, ColumnsInv, ColsOf
    <2>6. CASE c # cend
      <3>1. pc' = "arm" /\ c' = c + 1
        BY <1>10, <2>6 DEF LoadDone
      <3>2. \A cc \in Cols : cc < c + 1 => cc <= c
        BY <2>1 DEF Cols
      <3> QED
        BY <2>1, <2>4, <3>1, <3>2 DEF LoadInv, ColumnsInv, FirstCol
    <2> QED
      BY <2>5, <2>6
  <1>11. CASE Expire
    BY <1>11 DEF Expire, Notify, args, table, efp, lkm, occ, LoadInv,
       ColumnsInv, Loaded, Recorded
  <1>12. CASE DrainCheck
    BY <1>12 DEF DrainCheck, Fail, table, efp, hw, obs, lkm, occ, LoadInv,
       ColumnsInv, Loaded, Recorded
  <1>13. CASE DrainPush
    BY <1>13 DEF DrainPush, args, table, efp, lkm, obs, LoadInv, ColumnsInv,
       Loaded, Recorded
  <1>14. CASE WdtBlanked
    BY <1>14 DEF WdtBlanked, Fail, Blanked, args, table, hw, obs, lkm, occ,
       LoadInv, ColumnsInv, Loaded, Recorded
  <1>15. CASE CrcGate
    BY <1>15 DEF CrcGate, SetState, CallBlank, table, hw, obs, lkm, occ,
       LoadInv, ColumnsInv, Loaded, Recorded
  <1>16. CASE GateBlanked
    BY <1>16 DEF GateBlanked, Fail, Blanked, args, table, hw, obs, lkm, occ,
       LoadInv, ColumnsInv, Loaded, Recorded
  <1>17. CASE Readback
    BY <1>17 DEF Readback, Fail, SetState, ReadFrame, table, lkm, obs,
       LoadInv, ColumnsInv, Loaded, Recorded
  <1>18. CASE Commit
    BY <1>18 DEF Commit, args, hw, obs, lkm, occ, LoadInv, ColumnsInv, Loaded,
       Recorded
  <1>19. CASE Lock
    BY <1>19 DEF Lock, Notify, args, table, efp, occ, obs, LoadInv,
       ColumnsInv, Loaded, Recorded
  <1>20. CASE CtxSave
    BY <1>20 DEF CtxSave, Fail, args, lkm, occ, obs, LoadInv, ColumnsInv,
       Loaded, Recorded
  <1>21. CASE CtxRestore
    BY <1>21 DEF CtxRestore, Fail, args, lkm, occ, obs, LoadInv, ColumnsInv,
       Loaded, Recorded
  <1>22. CASE Stop
    BY <1>22 DEF Stop, Fail, CallBlank, table, efp, occ, obs, LoadInv,
       ColumnsInv, Loaded, Recorded
  <1>23. CASE StopBlanked
    BY <1>23 DEF StopBlanked, Fail, Blanked, args, table, efp, hw, obs, lkm,
       occ, LoadInv, ColumnsInv, Loaded, Recorded
  <1>24. CASE Stopped
    BY <1>24 DEF Stopped, Release, args, hw, obs, lkm, occ, LoadInv,
       ColumnsInv, Loaded, Recorded
  <1>25. CASE Restart
    BY <1>25 DEF Restart, Fail, CallBlank, table, efp, occ, obs, LoadInv,
       ColumnsInv, Loaded, Recorded
  <1>26. CASE RestartBlanked
    BY <1>26 DEF RestartBlanked, Fail, Release, Blanked, args, table, efp, hw,
       obs, lkm, occ, LoadInv, ColumnsInv, Loaded, Recorded
  <1>27. CASE Rerun
    BY <1>27 DEF Rerun, Fail, SetState, table, hw, obs, lkm, occ, LoadInv,
       ColumnsInv, Loaded, Recorded
  <1>28. CASE Abort
    BY <1>28 DEF Abort, CallBlank, table, efp, occ, obs, LoadInv, ColumnsInv,
       Loaded, Recorded
  <1>29. CASE AbortBlanked
    BY <1>29 DEF AbortBlanked, Release, Blanked, efp, hw, obs, lkm, occ,
       LoadInv, ColumnsInv, Loaded, Recorded
  <1>30. CASE Heartbeat
    BY <1>30 DEF Heartbeat, table, efp, hw, obs, lkm, occ, LoadInv,
       ColumnsInv, Loaded, Recorded
  <1>31. CASE HbRegion
    BY <1>31 DEF HbRegion, Return, table, efp, hw, obs, lkm, occ, LoadInv,
       ColumnsInv, Loaded, Recorded
  <1>32. CASE Probe
    BY <1>32 DEF Probe, CallBlank, ReadFrame, table, efp, lkm, obs, LoadInv,
       ColumnsInv, Loaded, Recorded
  <1>33. CASE HbBlanked
    BY <1>33 DEF HbBlanked, Release, Notify, Blanked, lkm, occ, LoadInv,
       ColumnsInv, Loaded, Recorded
  <1>34. CASE OccTake
    <2>1. /\ UNCHANGED <<pc, r, c, n, k, col_crc, hpos>> /\ wr.on /\ skid # <<>>
          /\ skid' = <<>> /\ wr.win = <<r, c>> /\ wr.cnt = n
      BY <1>34 DEF OccTake, local, args, table, obs, WriteInv
    <2>2. pc \in {"load", "drain", "push"}
      BY <2>1 DEF WriteInv
    <2>3. CASE pc # "load"
      BY <2>1, <2>2, <2>3 DEF LoadInv, ColumnsInv
    <2>4. CASE pc = "load"
      <3>0. PICK m \in 0 .. MaxWords - 1 : m = wr.idx
        BY <2>1, ArmedWrite DEF IInv, TypeOK
      <3>1. m \in Nat /\ wr.cnt \in Slots
            /\ wr \in [on : {TRUE}, win : Windows, idx : 0 .. MaxWords - 1, cnt : Slots]
        <4>1. HwOK
          BY DEF IInv, TypeOK
        <4>2. wr.cnt \in Slots /\ wr \in [on : {TRUE}, win : Windows,
                                        idx : 0 .. MaxWords - 1, cnt : Slots]
          BY <2>1, <4>1, ArmedWrite
        <4>3. m \in Nat
          OBVIOUS
        <4> QED
          BY <4>2, <4>3
      <3>2. crc = Prefix(m) /\ Loaded(c, m) /\ hpos = m + 1 /\ skid = <<m + 1>>
        BY <2>1, <2>4, <3>0 DEF LoadInv
      <3>3. skid[1] = m + 1
        BY <3>2
      <3>4. crc' = Append(Prefix(m), m + 1)
        BY <1>34, <3>2, <3>3 DEF OccTake
      <3>5. crc' = Prefix(m + 1)
        BY <3>1, <3>4, PrefixAppend
      <3>6. r \in Regions /\ c \in Cols
        BY <2>4 DEF IInv, TypeOK, LocalsOK, HandOK, Deploys
      <3>7. store' = [store EXCEPT ![<<r, c>>] =
                        [store[<<r, c>>] EXCEPT ![m + 1] = m + 1]]
        BY <1>34, <2>1, <3>0, <3>3 DEF OccTake
      <3>8. store \in [Windows -> Frame]
        BY DEF IInv, TypeOK, HwOK
      <3>9. <<r, c>> \in Windows /\ \A cc \in Cols : <<r, cc>> \in Windows
        BY <3>6 DEF Windows
      <3>10. store'[<<r, c>>] = [store[<<r, c>>] EXCEPT ![m + 1] = m + 1]
             /\ \A cc \in Cols : cc # c => store'[<<r, cc>>] = store[<<r, cc>>]
        BY <3>6, <3>7, <3>8, <3>9
      <3>11. \A i \in 1 .. m + 1 : store'[<<r, c>>][i] \in {i, Upset}
        <4>1. store[<<r, c>>] \in [Slots -> Word]
          BY <3>8, <3>9 DEF Frame
        <4>2. m + 1 \in Slots /\ \A i \in 1 .. m : i \in Slots /\ i # m + 1
          BY <3>1 DEF Slots
        <4>3. store'[<<r, c>>][m + 1] = m + 1
          BY <3>10, <4>1, <4>2
        <4>4. \A i \in 1 .. m : store'[<<r, c>>][i] = store[<<r, c>>][i]
          BY <3>10, <4>1, <4>2
        <4>5. \A i \in 1 .. m : store'[<<r, c>>][i] \in {i, Upset}
          BY <3>2, <4>4 DEF Loaded
        <4> QED
          BY <3>1, <4>3, <4>5
      <3>12. Loaded(c, m + 1)'
        BY <2>1, <3>11 DEF Loaded
      <3>13. wr' = IF m + 1 = n THEN NoWrite ELSE [wr EXCEPT !.idx = m + 1]
        BY <1>34, <2>1, <3>0 DEF OccTake
      <3>14. m + 1 = IF wr'.on THEN wr'.idx ELSE n'
        <4>1. CASE m + 1 = n
          BY <2>1, <3>13, <4>1 DEF NoWrite
        <4>2. CASE m + 1 # n
          <5>1. wr' = [wr EXCEPT !.idx = m + 1]
            BY <3>13, <4>2
          <5>2. wr'.on /\ wr'.idx = m + 1
            BY <3>1, <5>1
          <5> QED
            BY <5>2
        <4> QED
          BY <4>1, <4>2
      <3>15. LoadInv'
        <4>1. m + 1 \in 0 .. MaxWords
          BY <3>1
        <4>2. crc' = Prefix(m + 1) /\ hpos' = m + 1
          BY <2>1, <3>2, <3>5
        <4> QED
          BY <2>1, <3>12, <3>14, <4>1, <4>2 DEF LoadInv, Prefix
      <3>16. ColumnsInv'
        <4>1. \A cc \in Cols : FirstCol(r, k) <= cc /\ cc < c =>
                Recorded(cc) /\ cc # c
          BY <2>4, <3>6 DEF ColumnsInv, Cols
        <4>2. \A cc \in Cols : FirstCol(r, k) <= cc /\ cc < c => Recorded(cc)'
          BY <2>1, <3>10, <4>1 DEF Recorded, Loaded, Prefix
        <4> QED
          BY <2>1, <2>4, <4>2 DEF ColumnsInv, FirstCol
      <3> QED
        BY <3>15, <3>16
    <2> QED
      BY <2>3, <2>4
  <1>35. CASE HostRing
    BY <1>35 DEF HostRing, Ring, local, table, hw, obs, args, lkm, occ,
       LoadInv, ColumnsInv, Loaded, Recorded
  <1>36. CASE HostRingBusy
    BY <1>36 DEF HostRingBusy, Ring, local, table, hw, obs, args, lkm, occ,
       LoadInv, ColumnsInv, Loaded, Recorded
  <1>37. CASE HostPush
    BY <1>37 DEF HostPush, local, table, efp, lkm, args, LoadInv, ColumnsInv,
       Loaded, Recorded
  <1>38. CASE HostUnthrottle
    BY <1>38 DEF HostUnthrottle, local, table, efp, lkm, occ, obs, args,
       LoadInv, ColumnsInv, Loaded, Recorded
  <1>39. CASE OtherLkm
    BY <1>39 DEF OtherLkm, local, table, efp, lkm, occ, obs, args, LoadInv,
       ColumnsInv, Loaded, Recorded
  <1>40. CASE StoreUpset
    <2>1. /\ UNCHANGED <<pc, r, c, n, k, wr, crc, skid, hpos, col_crc>>
          /\ \E w \in Windows, i \in Slots : store' = [store EXCEPT ![w][i] = Upset]
      BY <1>40 DEF StoreUpset, local, table, args, obs
    <2>2. \A w \in Windows, i \in Slots : store'[w][i] \in {store[w][i], Upset}
      BY <2>1 DEF IInv, TypeOK, HwOK, Frame
    <2>3. r \in Regions => \A cc \in Cols, m \in 0 .. MaxWords :
             Loaded(cc, m) => Loaded(cc, m)'
      BY <2>1, <2>2 DEF Loaded, Windows, Slots
    <2>4. LoadInv'
      <3>1. pc = "load" => r \in Regions /\ c \in Cols
        BY DEF IInv, TypeOK, LocalsOK, HandOK, Deploys
      <3> QED BY <2>1, <2>3, <3>1 DEF LoadInv
    <2>5. ColumnsInv'
      <3>1. pc \in {"arm", "load", "gate", "readback", "commit"} =>
              /\ r \in Regions /\ n \in 0 .. MaxWords
              /\ ColsOf(r, k) \subseteq Cols
        <4>1. /\ n \in 0 .. MaxWords /\ k \in 0 .. FabCols
              /\ pc \in Deploys => r \in Regions /\ r + k <= FabCols
          BY DEF IInv, TypeOK, LocalsOK, HandOK
        <4>2. r \in Regions /\ r + k <= FabCols => ColsOf(r, k) \subseteq Cols
          BY <4>1, ColRange DEF ColsOf, Cols
        <4> QED BY <4>1, <4>2 DEF Deploys
      <3>2. r \in Regions /\ n \in 0 .. MaxWords =>
              \A cc \in Cols : Recorded(cc) => Recorded(cc)'
        BY <2>1, <2>3 DEF Recorded
      <3> QED BY <2>1, <3>1, <3>2 DEF ColumnsInv
    <2> QED BY <2>4, <2>5
  <1>41. CASE BlankWaits
    BY <1>41 DEF BlankWaits, SetState, args, table, hw, obs, lkm, occ, LoadInv,
       ColumnsInv, Loaded, Recorded
  <1> QED BY <1>1, <1>2, <1>3, <1>4, <1>5, <1>6, <1>7, <1>8, <1>9, <1>10,
     <1>11, <1>12, <1>13, <1>14, <1>15, <1>16, <1>17, <1>18, <1>19, <1>20,
     <1>21, <1>22, <1>23, <1>24, <1>25, <1>26, <1>27, <1>28, <1>29, <1>30,
     <1>31, <1>32, <1>33, <1>34, <1>35, <1>36, <1>37, <1>38, <1>39, <1>40,
     <1>41 DEF Next, DaemonStep, Surroundings

\* A container's frames, CRCs and extent are kept by a step that leaves them
\* alone, upsets aside.
LEMMA IntactKept ==
  ASSUME IInv, RegionIntact,
         \A rg \in Regions : rstate'[rg] # "FREE" /\ ~(Blanking(rg)') =>
           /\ rstate[rg] # "FREE" /\ ~Blanking(rg)
           /\ rwords'[rg] = rwords[rg] /\ rcols'[rg] = rcols[rg]
           /\ \A cc \in Cols :
                /\ col_crc'[<<rg, cc>>] = col_crc[<<rg, cc>>]
                /\ \A i \in Slots :
                     store'[<<rg, cc>>][i] \in {store[<<rg, cc>>][i], Upset}
  PROVE  RegionIntact'
  <1> SUFFICES ASSUME NEW rg \in Regions, rstate'[rg] # "FREE", ~(Blanking(rg)'),
                      NEW cc \in ColsOf(rg, rcols'[rg])
               PROVE  /\ col_crc'[<<rg, cc>>] = [i \in 1 .. rwords'[rg] |-> i]
                      /\ \A i \in 1 .. rwords'[rg] :
                           store'[<<rg, cc>>][i] \in {i, Upset}
    BY DEF RegionIntact, ColsOf
  <1>1. rstate[rg] # "FREE" /\ ~Blanking(rg) /\ rwords'[rg] = rwords[rg]
        /\ rcols'[rg] = rcols[rg]
    OBVIOUS
  <1>2. rcols[rg] \in 0 .. FabCols /\ rwords[rg] \in 0 .. MaxWords
        /\ rg + rcols[rg] <= FabCols
    BY DEF IInv, TypeOK, TableOK, StageOK
  <1>3. FirstCol(rg, rcols[rg]) \in Cols /\ LastCol(rg, rcols[rg]) \in Cols
    BY <1>2, ColRange
  <1>4. cc \in Cols
    BY <1>1, <1>3 DEF ColsOf, Cols
  <1>5. /\ col_crc[<<rg, cc>>] = [i \in 1 .. rwords[rg] |-> i]
        /\ \A i \in 1 .. rwords[rg] : store[<<rg, cc>>][i] \in {i, Upset}
    BY <1>1 DEF RegionIntact
  <1>6. \A i \in 1 .. rwords[rg] : i \in Slots
    BY <1>2 DEF Slots
  <1> QED
    BY <1>1, <1>4, <1>5, <1>6

\* Every step keeps the containers intact.
LEMMA IntactStep ==
  ASSUME SoleMaster, PromptHost, IInv, LockInv, WriteInv, LoadInv, ColumnsInv, RegionIntact, Next
  PROVE  RegionIntact'
  <1> USE DEF LockInv, WriteInv
  <1>1. CASE Accept
    BY <1>1, AcceptPc, IntactKept DEF Accept, table, hw, occ, Blanking
  <1>2. CASE Reject
    BY <1>2, IntactKept DEF Reject, Fail, args, table, hw, obs, lkm, occ,
       Blanking
  <1>3. CASE Squelch
    BY <1>3, IntactKept DEF Squelch, args, table, hw, obs, lkm, occ, Blanking
  <1>4. CASE ClearBusy
    BY <1>4, IntactKept DEF ClearBusy, Return, table, hw, obs, lkm, occ,
       Blanking
  <1>5. CASE Verify
    BY <1>5, IntactKept DEF Verify, Fail, SetState, args, table, hw, obs, lkm,
       occ, Blanking
  <1>6. CASE Alloc
    <2>1. CASE AllocError = "none"
      BY <1>6, <2>1, IntactKept DEF Alloc, table, hw, occ, Blanking
    <2>2. CASE AllocError # "none"
      <3>1. \A rg \in Regions : rstate'[rg] # "FREE" =>
              rstate'[rg] = rstate[rg] /\ rwords'[rg] = rwords[rg] /\ rcols'[rg] = rcols[rg]
        BY <1>6, <2>2, AllocErrorType DEF Alloc, Release, table, IInv, TypeOK, TableOK
      <3>2. UNCHANGED <<col_crc, store>>
        BY <1>6, <2>2 DEF Alloc, Release, table, hw, occ
      <3> QED
        BY <1>6, <3>1, <3>2, IntactKept DEF Alloc, Blanking
    <2> QED
      BY <2>1, <2>2
  <1>7. CASE BlankColumn
    <2>1. \A rg \in Regions \ {r}, cc \in Cols : store'[<<rg, cc>>] = store[<<rg, cc>>]
      BY <1>7 DEF BlankColumn, occ, IInv, TypeOK, HwOK, Windows
    <2>2. UNCHANGED <<r, rstate, rwords, rcols, col_crc>> /\ pc' \in InBlank
      BY <1>7 DEF BlankColumn, table, InBlank
    <2> QED
      BY <1>7, <2>1, <2>2, IntactKept DEF BlankColumn, Blanking, InBlank
  <1>8. CASE RunBlanked
    <2>1. rstate[r] = "FREE" /\ UNCHANGED <<r, rstate, rwords, rcols, col_crc, store>>
      BY <1>8 DEF RunBlanked, Blanked, InBlank, args, table, hw, occ
    <2> QED
      BY <1>8, <2>1, IntactKept DEF RunBlanked, Fail, Blanked, Blanking
  <1>9. CASE Arm
    BY <1>9, IntactKept DEF Arm, Fail, SetState, args, table, lkm, occ,
       Blanking
  <1>10. CASE LoadDone
    <2>1. rstate[r] = "FREE" /\ UNCHANGED <<r, rstate, rwords, rcols, store>>
      BY <1>10 DEF LoadDone, Deploys, hw, occ
    <2>2. \A rg \in Regions \ {r}, cc \in Cols : col_crc'[<<rg, cc>>] = col_crc[<<rg, cc>>]
      BY <1>10 DEF LoadDone, IInv, TypeOK, TableOK, Windows
    <2> QED
      BY <1>10, <2>1, <2>2, IntactKept DEF LoadDone, Blanking
  <1>11. CASE Expire
    BY <1>11, IntactKept DEF Expire, Notify, args, table, efp, lkm, occ,
       Blanking
  <1>12. CASE DrainCheck
    BY <1>12, IntactKept DEF DrainCheck, Fail, table, efp, hw, obs, lkm, occ,
       Blanking
  <1>13. CASE DrainPush
    BY <1>13, IntactKept DEF DrainPush, args, table, efp, lkm, obs, Blanking
  <1>14. CASE WdtBlanked
    <2>1. rstate[r] = "FREE" /\ UNCHANGED <<r, rstate, rwords, rcols, col_crc, store>>
      BY <1>14 DEF WdtBlanked, Blanked, InBlank, args, table, hw, occ
    <2> QED
      BY <1>14, <2>1, IntactKept DEF WdtBlanked, Fail, Blanked, Blanking
  <1>15. CASE CrcGate
    BY <1>15, IntactKept DEF CrcGate, SetState, CallBlank, table, hw, obs,
       lkm, occ, Blanking
  <1>16. CASE GateBlanked
    <2>1. rstate[r] = "FREE" /\ UNCHANGED <<r, rstate, rwords, rcols, col_crc, store>>
      BY <1>16 DEF GateBlanked, Blanked, InBlank, args, table, hw, occ
    <2> QED
      BY <1>16, <2>1, IntactKept DEF GateBlanked, Fail, Blanked, Blanking
  <1>17. CASE Readback
    BY <1>17, IntactKept DEF Readback, Fail, SetState, ReadFrame, table, lkm,
       obs, Blanking
  <1>18. CASE Commit
    <2>1. r \in Regions /\ k \in 0 .. FabCols /\ n \in 0 .. MaxWords
      BY <1>18 DEF Commit, IInv, TypeOK, LocalsOK, HandOK, Deploys
    <2>2. /\ rwords'[r] = n /\ rcols'[r] = k
          /\ \A rg \in Regions \ {r} :
               rstate'[rg] = rstate[rg] /\ rwords'[rg] = rwords[rg] /\ rcols'[rg] = rcols[rg]
      BY <1>18, <2>1 DEF Commit, IInv, TypeOK, TableOK
    <2>3. UNCHANGED <<r, col_crc, store>> /\ pc' = "lock" /\ pc = "commit"
      BY <1>18 DEF Commit, args, hw, occ
    <2>4. \A cc \in ColsOf(r, k) :
            /\ col_crc[<<r, cc>>] = [i \in 1 .. n |-> i]
            /\ \A i \in 1 .. n : store[<<r, cc>>][i] \in {i, Upset}
      BY <2>3 DEF ColumnsInv, Recorded, Prefix, Loaded
    <2> SUFFICES ASSUME NEW rg \in Regions, rstate'[rg] # "FREE",
                        NEW cc \in ColsOf(rg, rcols'[rg])
                 PROVE  /\ col_crc[<<rg, cc>>] = [i \in 1 .. rwords'[rg] |-> i]
                        /\ \A i \in 1 .. rwords'[rg] :
                             store[<<rg, cc>>][i] \in {i, Upset}
      BY <2>3 DEF RegionIntact, ColsOf
    <2>5. CASE rg = r
      BY <2>2, <2>4, <2>5
    <2>6. CASE rg # r
      BY <2>2, <2>3, <2>6 DEF RegionIntact, Blanking
    <2> QED
      BY <2>5, <2>6
  <1>19. CASE Lock
    BY <1>19, IntactKept DEF Lock, Notify, args, table, efp, occ, obs,
       Blanking
  <1>20. CASE CtxSave
    <2>1. \A rg \in Regions : rstate'[rg] # "FREE" => rstate[rg] # "FREE"
      BY <1>20 DEF CtxSave, IInv, TypeOK, TableOK
    <2>2. UNCHANGED <<r, rwords, rcols, col_crc, store>> /\ pc \notin {"blank", "blanked", "stopped"}
      BY <1>20 DEF CtxSave, args, occ
    <2> QED
      BY <2>1, <2>2, IntactKept DEF Blanking
  <1>21. CASE CtxRestore
    <2>1. \A rg \in Regions : rstate'[rg] # "FREE" => rstate[rg] # "FREE"
      BY <1>21 DEF CtxRestore, IInv, TypeOK, TableOK
    <2>2. UNCHANGED <<r, rwords, rcols, col_crc, store>> /\ pc \notin {"blank", "blanked", "stopped"}
      BY <1>21 DEF CtxRestore, args, occ
    <2> QED
      BY <2>1, <2>2, IntactKept DEF Blanking
  <1>22. CASE Stop
    BY <1>22, IntactKept DEF Stop, Fail, CallBlank, table, efp, occ, obs,
       Blanking
  <1>23. CASE StopBlanked
    BY <1>23, IntactKept DEF StopBlanked, Fail, Blanked, args, table, efp, hw,
       obs, lkm, occ, Blanking
  <1>24. CASE Stopped
    <2>1. /\ r \in Regions /\ rstate'[r] = "FREE"
          /\ \A rg \in Regions \ {r} :
               rstate'[rg] = rstate[rg] /\ rwords'[rg] = rwords[rg] /\ rcols'[rg] = rcols[rg]
      BY <1>24 DEF IInv, TypeOK, TableOK, Stopped, Release, HandOK, InBlank
    <2>2. UNCHANGED <<col_crc, store>> /\ \A rg \in Regions \ {r} : ~Blanking(rg)
      BY <1>24 DEF Stopped, Release, hw, occ, Blanking
    <2> QED
      BY <2>1, <2>2, IntactKept
  <1>25. CASE Restart
    BY <1>25, IntactKept DEF Restart, Fail, CallBlank, table, efp, occ, obs,
       Blanking
  <1>26. CASE RestartBlanked
    <2>0. Release(r) /\ pc' = "rerun"
      BY <1>26 DEF RestartBlanked, Blanked, InBlank
    <2>1. /\ r \in Regions /\ rstate'[r] = "FREE"
          /\ \A rg \in Regions \ {r} :
               rstate'[rg] = rstate[rg] /\ rwords'[rg] = rwords[rg] /\ rcols'[rg] = rcols[rg]
      BY <1>26, <2>0 DEF IInv, TypeOK, TableOK, RestartBlanked, Blanked, Release, HandOK, InBlank
    <2>2. UNCHANGED <<col_crc, store>> /\ \A rg \in Regions \ {r} : ~Blanking(rg)
      BY <1>26, <2>0 DEF RestartBlanked, Blanked, Release, hw, occ, Blanking
    <2> QED
      BY <2>1, <2>2, IntactKept
  <1>27. CASE Rerun
    BY <1>27, IntactKept DEF Rerun, Fail, SetState, table, hw, obs, lkm, occ,
       Blanking
  <1>28. CASE Abort
    BY <1>28, IntactKept DEF Abort, CallBlank, table, efp, occ, obs, Blanking
  <1>29. CASE AbortBlanked
    <2>1. /\ r \in Regions /\ rstate'[r] = "FREE"
          /\ \A rg \in Regions \ {r} :
               rstate'[rg] = rstate[rg] /\ rwords'[rg] = rwords[rg] /\ rcols'[rg] = rcols[rg]
      BY <1>29 DEF IInv, TypeOK, TableOK, AbortBlanked, Blanked, Release, HandOK, InBlank
    <2>2. UNCHANGED <<col_crc, store>> /\ \A rg \in Regions \ {r} : ~Blanking(rg)
      BY <1>29 DEF AbortBlanked, Blanked, Release, hw, occ, Blanking
    <2> QED
      BY <2>1, <2>2, IntactKept
  <1>30. CASE Heartbeat
    BY <1>30, IntactKept DEF Heartbeat, table, efp, hw, obs, lkm, occ,
       Blanking
  <1>31. CASE HbRegion
    BY <1>31, IntactKept DEF HbRegion, Return, table, efp, hw, obs, lkm, occ,
       Blanking
  <1>32. CASE Probe
    BY <1>32, IntactKept DEF Probe, CallBlank, ReadFrame, table, efp, lkm,
       obs, Blanking
  <1>33. CASE HbBlanked
    <2>1. /\ r \in Regions /\ rstate'[r] = "FREE"
          /\ \A rg \in Regions \ {r} :
               rstate'[rg] = rstate[rg] /\ rwords'[rg] = rwords[rg] /\ rcols'[rg] = rcols[rg]
      BY <1>33 DEF IInv, TypeOK, TableOK, HbBlanked, Blanked, Release, HandOK, InBlank
    <2>2. UNCHANGED <<col_crc, store>> /\ \A rg \in Regions \ {r} : ~Blanking(rg)
      BY <1>33 DEF HbBlanked, Blanked, Release, hw, occ, Blanking
    <2> QED
      BY <2>1, <2>2, IntactKept
  <1>34. CASE OccTake
    <2>1. rstate[r] = "FREE" /\ wr.win = <<r, c>>
      BY <1>34 DEF OccTake, Deploys
    <2>2. UNCHANGED <<pc, r, rstate, rwords, rcols, col_crc>>
      BY <1>34 DEF OccTake, local, args, table
    <2>3. \A rg \in Regions \ {r}, cc \in Cols : store'[<<rg, cc>>] = store[<<rg, cc>>]
      BY <1>34, <2>1 DEF OccTake, IInv, TypeOK, HwOK, Windows
    <2> QED
      BY <2>1, <2>2, <2>3, IntactKept DEF Blanking
  <1>35. CASE HostRing
    BY <1>35, IntactKept DEF HostRing, Ring, local, table, hw, obs, args, lkm,
       occ, Blanking
  <1>36. CASE HostRingBusy
    BY <1>36, IntactKept DEF HostRingBusy, Ring, local, table, hw, obs, args,
       lkm, occ, Blanking
  <1>37. CASE HostPush
    BY <1>37, IntactKept DEF HostPush, local, table, efp, lkm, args, Blanking
  <1>38. CASE HostUnthrottle
    BY <1>38, IntactKept DEF HostUnthrottle, local, table, efp, lkm, occ, obs,
       args, Blanking
  <1>39. CASE OtherLkm
    BY <1>39, IntactKept DEF OtherLkm, local, table, efp, lkm, occ, obs, args,
       Blanking
  <1>40. CASE StoreUpset
    BY <1>40, IntactKept DEF StoreUpset, local, table, efp, lkm, obs, args,
       Blanking
  <1>41. CASE BlankWaits
    BY <1>41, IntactKept DEF BlankWaits, SetState, args, table, hw, obs, lkm, occ, Blanking
  <1> QED BY <1>1, <1>2, <1>3, <1>4, <1>5, <1>6, <1>7, <1>8, <1>9, <1>10,
     <1>11, <1>12, <1>13, <1>14, <1>15, <1>16, <1>17, <1>18, <1>19, <1>20,
     <1>21, <1>22, <1>23, <1>24, <1>25, <1>26, <1>27, <1>28, <1>29, <1>30,
     <1>31, <1>32, <1>33, <1>34, <1>35, <1>36, <1>37, <1>38, <1>39, <1>40,
     <1>41 DEF Next, DaemonStep, Surroundings

\* What holds throughout a deploy and of the containers it leaves.
DeployInv == LockInv /\ WriteInv /\ LoadInv /\ ColumnsInv /\ RegionIntact

\* It holds with one master and a prompt host.
LEMMA DeployHolds ==
  ASSUME SoleMaster, PromptHost
  PROVE  Spec => []DeployInv
  <1>1. Init => DeployInv
    BY DEF DeployInv, Init, LockInv, LockedWhileRunning, Deploys, InBlank, WriteInv,
       NoWrite, LoadInv, ColumnsInv, RegionIntact
  <1>2. IInv /\ DeployInv /\ [Next]_vars => DeployInv'
    <2>1. IInv /\ DeployInv /\ Next => DeployInv'
      BY LockStep, WriteStep, DeployStep, IntactStep DEF DeployInv
    <2>2. IInv /\ DeployInv /\ UNCHANGED vars => DeployInv'
      BY DEF DeployInv, LockInv, LockedWhileRunning, WriteInv, LoadInv, ColumnsInv,
         RegionIntact, Blanking, Recorded, Loaded, vars
    <2> QED BY <2>1, <2>2
  <1> QED BY <1>1, <1>2, InvariantHolds, PTL DEF Spec

\* With one master on LKM_CMD and a host that stays silent after its budget, a
\* RUNNING or PAUSED container has its own image, word for word, in every frame
\* it covers, and the recorded CRC is that image's: for every number of regions,
\* columns and words, every mix of legacy and packed deploys, starved streams,
\* transport errors, upsets, context and heartbeat steps.
THEOREM RunningIsIntact ==
  ASSUME SoleMaster, PromptHost
  PROVE  Spec => []RegionIntact
  <1>1. DeployInv => RegionIntact
    BY DEF DeployInv
  <1> QED
    BY <1>1, DeployHolds, PTL

=============================================================================
