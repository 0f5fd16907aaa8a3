------------------------- MODULE DaemonFabricProofs -------------------------
(***************************************************************************)
(* What the daemon leaves behind: theorems about the regions it marks FREE *)
(* and the fabric it serves, on top of DaemonProofs.  They hold for images *)
(* of one column per region slot, as the EMRI specification lays the       *)
(* fabric out, and while no stored word is upset.  What is said of the     *)
(* frame decoder needs packed images that fill the column's data words, as *)
(* the packers emit them.                                                  *)
(***************************************************************************)
EXTENDS DaemonProofs

USE RegionAssumption, ColAssumption, WordAssumption, ColWordsAssumption

\* A packed image covers its region's own column.
OneColumn == \A d \in Doorbells : d.img.cols <= 1

\* No stored word flips.
NoUpsets == "upset" \notin Faults

\* A stream of m words completes the decode of every column.
Full(m) == \A cc \in Cols : m >= ColWords[cc]

\* An image that is not empty has all the words its columns decode.
FullFrames == \A d \in Doorbells : d.img.words = 0 \/ Full(d.img.words)

\* The deploy whose stream may be in the frame of a FREE region.
Holding == {"load", "drain", "push", "gate", "readback", "commit"}
Working(rg) == /\ r = rg
               /\ pc \in Holding \/ (pc = "blank" /\ ret \in {"run", "wdt", "gate"})

\* One column at a time, and the column in hand is the region's first.
OneInv ==
  /\ k <= 1 /\ image.cols <= 1
  /\ \A rg \in Regions : rcols[rg] <= 1
  /\ pc \in {"blank", "arm", "load", "drain", "push", "readback", "probe"} =>
       c = FirstCol(r, k) /\ cend = c

\* What a FREE region needs for its next deploy: its lock is open.  So no BLANK of
\* a command is refused; the heartbeat never has to quarantine a region.
OpenInv ==
  /\ \A rg \in Regions : rstate[rg] = "FREE" => rg \notin locks
  /\ pc = "lock" => rstate[r] # "FREE"
  /\ pc \in InBlank => ret # "hb"
  /\ pc \in InBlank \cup {"stopped"} => r \notin locks
  /\ pc = "blanked" => err = "none"
  /\ pc \in InBlank /\ ret \in {"stop", "restart", "abort"} =>
       rstate[r] # "FREE" /\ n = rwords[r] /\ k = rcols[r]
  /\ pc = "probe" => rstate[r] = "RUNNING" /\ n = rwords[r] /\ k = rcols[r]

\* Words are the host's or zero.
ExactInv == /\ \A w \in Windows, i \in Slots : store[w][i] # Upset
            /\ skid # <<Upset>>

\* A live word lies in the frame of a container, or of the deploy in hand.
LiveInv ==
  \A rg \in Regions, cc \in Cols, i \in Slots : store[<<rg, cc>>][i] # Blank =>
    IF rstate[rg] # "FREE"
    THEN cc = FirstCol(rg, rcols[rg]) /\ i <= rwords[rg]
    ELSE Working(rg) /\ cc = FirstCol(rg, k) /\ i <= n

\* A BLANK that returned has left nothing, and nothing was loaded before LOAD.
EmptyInv ==
  pc \in {"blanked", "stopped", "arm"} =>
    \A cc \in Cols, i \in Slots : store[<<r, cc>>][i] = Blank

FreeInv == OneInv /\ OpenInv /\ ExactInv /\ LiveInv /\ EmptyInv

\* The one region the host pauses, if any.
PausedOnly(p) == \A d \in Doorbells : d.cmd = "ctx_save" /\ d.sel \in Regions => d.sel = p

\* One container at a time is paused, and the freeze is its.
PauseInv(p) ==
  /\ doorbell # NoDoorbell /\ doorbell.cmd = "ctx_save" /\ doorbell.sel \in Regions =>
       doorbell.sel = p
  /\ pc = "ctx_save" /\ sel \in Regions => sel = p
  /\ \A rg \in Regions : rstate[rg] = "PAUSED" => rg = p /\ (frozen \/ Blanking(rg))
  /\ frozen => \E rg \in Regions : rstate[rg] = "PAUSED" /\ ~Blanking(rg)

\* Frames in hand and in the table fill their columns.
InHand == Deploys \cup InBlank \cup {"probe"}
FullInv ==
  /\ image.words = 0 \/ Full(image.words)
  /\ \A rg \in Regions : rcols[rg] # 0 => Full(rwords[rg])
  /\ pc \in InHand /\ k # 0 => Full(n)

\* The decoder is armed only for the column of the packed deploy in hand, it has
\* the words the WRITE has taken and no others, and a blanked frame is armed.
Loading == {"load", "drain", "push"}
SeqInv ==
  /\ dec.on => /\ pc \in Loading /\ k # 0 /\ wr.on
               /\ dec.col = c /\ dec.got = wr.idx /\ dec.by \subseteq {r}
  /\ pc = "arm" \/ (pc = "blanked" /\ ret = "run") => <<r, FirstCol(r, k)>> \notin dirty

DecodeInv == FullInv /\ SeqInv

\* A packed container's column carries its own stream once it is decoded.
ColumnInv ==
  /\ \A rg \in Regions : rstate[rg] # "FREE" /\ rcols[rg] # 0 /\ ~Blanking(rg) =>
       fabric[rg] = rg
  /\ pc = "load" /\ k # 0 /\ ~dec.on => fabric[r] = r
  /\ pc \in {"gate", "readback", "commit"} /\ k # 0 => fabric[r] = r

-----------------------------------------------------------------------------
(* Steps that only move on.                                                *)

\* A region of one column ends where it begins.
LEMMA OneLast ==
  ASSUME NEW rg \in Regions, NEW cl \in 0 .. FabCols, cl <= 1
  PROVE  LastCol(rg, cl) = FirstCol(rg, cl)
  BY DEF LastCol, FirstCol, Regions

\* The table tells FREE from taken as before, and a taken region's extent.
SameExtent ==
  \A rg \in Regions :
    /\ rstate'[rg] = "FREE" <=> rstate[rg] = "FREE"
    /\ rstate[rg] # "FREE" => rwords'[rg] = rwords[rg] /\ rcols'[rg] = rcols[rg]
    /\ rcols'[rg] <= 1

\* Points at which no frame is in hand.
Resting == {"idle", "reject", "squelch", "release", "verify", "alloc", "ctx_save",
            "ctx_restore", "stop", "restart", "rerun", "abort", "hb"}

\* A step to a resting point, from one at which the region in hand is empty.
LEMMA ToRest ==
  ASSUME FreeInv, SameExtent, UNCHANGED <<locks, store, skid>>,
         pc \notin Holding \cup {"blank"}, pc' \in Resting,
         k' <= 1, image'.cols <= 1
  PROVE  FreeInv'
  <1>1. OneInv'
    BY DEF FreeInv, OneInv, SameExtent, Resting
  <1>2. OpenInv'
    BY DEF FreeInv, OpenInv, SameExtent, Resting, InBlank
  <1>3. ExactInv'
    BY DEF FreeInv, ExactInv
  <1>4. LiveInv'
    BY DEF FreeInv, LiveInv, SameExtent, Resting, Working
  <1>5. EmptyInv'
    BY DEF EmptyInv, Resting
  <1> QED BY <1>1, <1>2, <1>3, <1>4, <1>5 DEF FreeInv

\* A step of the surroundings that leaves the daemon and the store alone.
LEMMA Outside ==
  ASSUME FreeInv, UNCHANGED <<pc, ret, r, c, cend, n, k, err>>,
         UNCHANGED <<rstate, rwords, rcols, locks, store>>,
         image'.cols <= 1, skid' # <<Upset>>
  PROVE  FreeInv'
  <1>1. OneInv'
    BY DEF FreeInv, OneInv
  <1>2. OpenInv'
    BY DEF FreeInv, OpenInv
  <1>3. ExactInv'
    BY DEF FreeInv, ExactInv
  <1>4. LiveInv'
    BY DEF FreeInv, LiveInv, Working
  <1>5. EmptyInv'
    BY DEF FreeInv, EmptyInv
  <1> QED BY <1>1, <1>2, <1>3, <1>4, <1>5 DEF FreeInv

\* A deploy moves on with its frame in hand.
LEMMA DeployMoves ==
  ASSUME IInv, LockInv, FreeInv, pc \in Holding \cup {"arm"},
         pc' \in Holding \/ (pc' = "blank" /\ ret' \in {"wdt", "gate"}),
         UNCHANGED <<r, n, k, rstate, rwords, rcols, locks, store, image>>,
         pc' \in {"load", "drain", "push", "readback", "blank"} =>
           c' = FirstCol(r, k) /\ cend' = c',
         skid' # <<Upset>>
  PROVE  FreeInv'
  <1>1. OneInv'
    BY DEF FreeInv, OneInv, Holding
  <1>2. OpenInv'
    <2>1. r \in Regions /\ rstate[r] = "FREE"
      BY DEF IInv, HandOK, LockInv, Holding, Deploys
    <2> QED BY <2>1 DEF FreeInv, OpenInv, Holding, InBlank
  <1>3. ExactInv'
    BY DEF FreeInv, ExactInv
  <1>4. LiveInv'
    BY DEF FreeInv, LiveInv, Working, Holding
  <1>5. EmptyInv'
    BY DEF EmptyInv, Holding
  <1> QED BY <1>1, <1>2, <1>3, <1>4, <1>5 DEF FreeInv

\* A command enters the BLANK of a container it has unlocked.
LEMMA EnterBlank ==
  ASSUME IInv, FreeInv, pc \notin Holding \cup {"blank"},
         NEW rg \in Regions, rstate[rg] # "FREE",
         NEW caller \in {"stop", "restart", "abort"},
         CallBlank(caller, rg, rwords[rg], rcols[rg]), locks' = locks \ {rg},
         UNCHANGED <<rstate, rwords, rcols, store, skid, image>>
  PROVE  FreeInv'
  <1>a. pc' = "blank" /\ ret' = caller /\ r' = rg /\ n' = rwords[rg] /\ k' = rcols[rg]
        /\ c' = FirstCol(rg, rcols[rg]) /\ cend' = LastCol(rg, rcols[rg])
    BY DEF CallBlank
  <1>b. rcols[rg] \in 0 .. FabCols /\ rcols[rg] <= 1
    BY DEF IInv, TypeOK, TableOK, FreeInv, OneInv
  <1>1. OneInv'
    BY <1>a, <1>b, OneLast DEF FreeInv, OneInv
  <1>2. OpenInv'
    BY <1>a DEF FreeInv, OpenInv, InBlank
  <1>3. ExactInv'
    BY DEF FreeInv, ExactInv
  <1>4. LiveInv'
    BY <1>a DEF FreeInv, LiveInv, Working
  <1>5. EmptyInv'
    BY <1>a DEF EmptyInv
  <1> QED BY <1>1, <1>2, <1>3, <1>4, <1>5 DEF FreeInv

\* A region is given up empty and unlocked.
LEMMA GiveUp ==
  ASSUME IInv, FreeInv, pc \in {"blanked", "stopped"}, Release(r), pc' \in Resting,
         UNCHANGED <<locks, store, skid, k, image>>
  PROVE  FreeInv'
  <1>a. /\ r \in Regions /\ r \notin locks
        /\ \A cc \in Cols, i \in Slots : store[<<r, cc>>][i] = Blank
    BY DEF IInv, HandOK, FreeInv, OpenInv, EmptyInv, InBlank
  <1>b. /\ \A rg \in Regions : rg # r =>
             rstate'[rg] = rstate[rg] /\ rwords'[rg] = rwords[rg] /\ rcols'[rg] = rcols[rg]
        /\ rstate'[r] = "FREE" /\ rcols'[r] = 0
    BY <1>a DEF Release, IInv, TypeOK, TableOK
  <1>1. OneInv'
    BY <1>b DEF FreeInv, OneInv, Resting
  <1>2. OpenInv'
    BY <1>a, <1>b DEF FreeInv, OpenInv, InBlank, Resting
  <1>3. ExactInv'
    BY DEF FreeInv, ExactInv
  <1>4. LiveInv'
    <2> SUFFICES ASSUME NEW rg \in Regions, NEW cc \in Cols, NEW i \in Slots,
                        store[<<rg, cc>>][i] # Blank
                 PROVE  /\ rstate'[rg] # "FREE"
                        /\ cc = FirstCol(rg, rcols'[rg]) /\ i <= rwords'[rg]
      BY DEF LiveInv
    <2>1. rg # r
      BY <1>a
    <2>2. rstate[rg] # "FREE" /\ cc = FirstCol(rg, rcols[rg]) /\ i <= rwords[rg]
      BY DEF FreeInv, LiveInv, Working, Holding
    <2> QED BY <1>b, <2>1, <2>2
  <1>5. EmptyInv'
    BY DEF EmptyInv, Resting
  <1> QED BY <1>1, <1>2, <1>3, <1>4, <1>5 DEF FreeInv

-----------------------------------------------------------------------------
(* Steps that touch a frame, a lock or the table.                          *)

\* The BLANK of the column in hand clears the region: its lock is open, and its
\* live words are the first n of that column.
LEMMA BlankClears ==
  ASSUME IInv, LockInv, FreeInv, BlankColumn
  PROVE  FreeInv'
  <1>a. pc = "blank" /\ r \in Regions /\ c \in Cols /\ n \in 0 .. MaxWords
        /\ k <= 1 /\ ret # "hb" /\ c = FirstCol(r, k) /\ cend = c
    BY DEF BlankColumn, IInv, TypeOK, LocalsOK, HandOK, InBlank, FreeInv, OneInv, OpenInv
  <1>b. Open(r)
    BY <1>a DEF Open, LockInv, FreeInv, OpenInv, InBlank
  <1>c. pc' = "blanked" /\ err' = "none" /\ c' = c
        /\ UNCHANGED <<ret, r, cend, n, k, skid, image, locks, rstate, rwords, rcols>>
    BY <1>a, <1>b DEF BlankColumn, SetState, table, lkm
  <1>d. store' = [store EXCEPT ![<<r, c>>] =
                    [i \in Slots |-> IF i <= n THEN Blank ELSE store[<<r, c>>][i]]]
    BY <1>b DEF BlankColumn
  <1>e. \A rg \in Regions, cc \in Cols, i \in Slots :
          store'[<<rg, cc>>][i] = IF rg = r /\ cc = c /\ i <= n THEN Blank
                                  ELSE store[<<rg, cc>>][i]
    <2>1. store \in [Windows -> Frame] /\ <<r, c>> \in Windows
      BY <1>a DEF IInv, TypeOK, HwOK, Windows
    <2> TAKE rg \in Regions, cc \in Cols, i \in Slots
    <2>2. <<rg, cc>> \in Windows
      BY DEF Windows
    <2> QED BY <1>d, <2>1, <2>2
  <1>f. \A cc \in Cols, i \in Slots : store[<<r, cc>>][i] # Blank => cc = c /\ i <= n
    <2>1. CASE ret \in {"stop", "restart", "abort"}
      BY <1>a, <2>1 DEF FreeInv, LiveInv, OpenInv, InBlank
    <2>2. CASE ret \in {"run", "wdt", "gate"}
      BY <1>a, <2>2 DEF FreeInv, LiveInv, LockInv, InBlank
    <2> QED BY <1>a, <2>1, <2>2 DEF IInv, TypeOK, LocalsOK
  <1>g. \A cc \in Cols, i \in Slots : store'[<<r, cc>>][i] = Blank
    BY <1>a, <1>e, <1>f
  <1>1. OneInv'
    BY <1>c DEF FreeInv, OneInv
  <1>2. OpenInv'
    BY <1>a, <1>c DEF FreeInv, OpenInv, InBlank
  <1>3. ExactInv'
    <2>1. Blank # Upset
      BY DEF Blank, Upset
    <2>2. \A rg \in Regions, cc \in Cols, i \in Slots : store'[<<rg, cc>>][i] # Upset
      BY <1>e, <2>1 DEF FreeInv, ExactInv, Windows
    <2> QED BY <1>c, <2>2 DEF FreeInv, ExactInv, Windows
  <1>4. LiveInv'
    <2> SUFFICES ASSUME NEW rg \in Regions, NEW cc \in Cols, NEW i \in Slots,
                        store'[<<rg, cc>>][i] # Blank
                 PROVE  /\ rstate[rg] # "FREE"
                        /\ cc = FirstCol(rg, rcols[rg]) /\ i <= rwords[rg]
      BY <1>c DEF LiveInv
    <2>1. rg # r /\ store[<<rg, cc>>][i] # Blank
      BY <1>a, <1>e, <1>g
    <2> QED BY <2>1 DEF FreeInv, LiveInv, Working
  <1>5. EmptyInv'
    BY <1>c, <1>g DEF EmptyInv
  <1> QED BY <1>1, <1>2, <1>3, <1>4, <1>5 DEF FreeInv

\* A word the OCC takes lands in the frame of the deploy in hand.
LEMMA TakeLands ==
  ASSUME IInv, LockInv, WriteInv, FreeInv, OccTake
  PROVE  FreeInv'
  <1>a. /\ pc \in {"load", "drain", "push"} /\ wr.win = <<r, c>> /\ wr.cnt = n
        /\ r \in Regions /\ rstate[r] = "FREE" /\ c \in Cols /\ c = FirstCol(r, k)
    BY DEF OccTake, WriteInv, IInv, TypeOK, LocalsOK, HandOK, LockInv, Deploys,
       FreeInv, OneInv
  <1>b. wr.idx \in Nat /\ wr.idx + 1 <= n /\ wr.idx + 1 \in Slots
    BY <1>a, ArmedWrite DEF OccTake, IInv, TypeOK, StreamOK, Slots
  <1>c. skid[1] \in Word /\ skid[1] # Upset
    BY DEF OccTake, IInv, TypeOK, HwOK, FreeInv, ExactInv
  <1>d. /\ UNCHANGED <<pc, ret, r, c, cend, n, k, err, rstate, rwords, rcols, locks, image>>
        /\ skid' = <<>>
    BY DEF OccTake, local, args, table, efp, lkm
  <1>e. \A rg \in Regions, cc \in Cols, i \in Slots :
          store'[<<rg, cc>>][i] = IF rg = r /\ cc = c /\ i = wr.idx + 1 THEN skid[1]
                                  ELSE store[<<rg, cc>>][i]
    <2>1. store \in [Windows -> Frame] /\ <<r, c>> \in Windows
      BY <1>a DEF IInv, TypeOK, HwOK, Windows
    <2>2. store' = [store EXCEPT ![<<r, c>>][wr.idx + 1] = skid[1]]
      BY <1>a DEF OccTake
    <2> TAKE rg \in Regions, cc \in Cols, i \in Slots
    <2>3. <<rg, cc>> \in Windows /\ store[<<rg, cc>>] \in Frame
      BY <2>1 DEF Windows
    <2>4. store'[<<rg, cc>>] = IF rg = r /\ cc = c
                               THEN [store[<<r, c>>] EXCEPT ![wr.idx + 1] = skid[1]]
                               ELSE store[<<rg, cc>>]
      BY <2>1, <2>2, <2>3
    <2> QED BY <1>b, <2>3, <2>4 DEF Frame
  <1>1. OneInv'
    BY <1>d DEF FreeInv, OneInv
  <1>2. OpenInv'
    BY <1>d DEF FreeInv, OpenInv
  <1>3. ExactInv'
    <2>1. \A rg \in Regions, cc \in Cols, i \in Slots : store[<<rg, cc>>][i] # Upset
      BY DEF FreeInv, ExactInv, Windows
    <2>2. \A rg \in Regions, cc \in Cols, i \in Slots : store'[<<rg, cc>>][i] # Upset
      <3> TAKE rg \in Regions, cc \in Cols, i \in Slots
      <3>1. store'[<<rg, cc>>][i] \in {skid[1], store[<<rg, cc>>][i]}
        BY <1>e
      <3> QED BY <1>c, <2>1, <3>1
    <2> QED BY <1>d, <2>2 DEF ExactInv, Windows
  <1>4. LiveInv'
    BY <1>a, <1>b, <1>d, <1>e DEF FreeInv, LiveInv, Working, Holding
  <1>5. EmptyInv'
    BY <1>a, <1>d DEF EmptyInv
  <1> QED BY <1>1, <1>2, <1>3, <1>4, <1>5 DEF FreeInv

\* The deploy's region becomes a container with the extent in hand.
LEMMA CommitTakes ==
  ASSUME IInv, LockInv, FreeInv, Commit
  PROVE  FreeInv'
  <1>a. pc = "commit" /\ r \in Regions /\ rstate[r] = "FREE" /\ k <= 1
    BY DEF Commit, IInv, HandOK, LockInv, Deploys, FreeInv, OneInv
  <1>b. pc' = "lock" /\ UNCHANGED <<r, n, k, locks, store, skid, image>>
    BY DEF Commit, args, hw, lkm, occ
  <1>c. /\ \A rg \in Regions : rg # r =>
             rstate'[rg] = rstate[rg] /\ rwords'[rg] = rwords[rg] /\ rcols'[rg] = rcols[rg]
        /\ rstate'[r] = "RUNNING" /\ rwords'[r] = n /\ rcols'[r] = k
    BY <1>a DEF Commit, IInv, TypeOK, TableOK
  <1>1. OneInv'
    BY <1>a, <1>b, <1>c DEF FreeInv, OneInv
  <1>2. OpenInv'
    BY <1>a, <1>b, <1>c DEF FreeInv, OpenInv, InBlank
  <1>3. ExactInv'
    BY <1>b DEF FreeInv, ExactInv
  <1>4. LiveInv'
    <2> SUFFICES ASSUME NEW rg \in Regions, NEW cc \in Cols, NEW i \in Slots,
                        store[<<rg, cc>>][i] # Blank
                 PROVE  /\ rstate'[rg] # "FREE"
                        /\ cc = FirstCol(rg, rcols'[rg]) /\ i <= rwords'[rg]
      BY <1>b DEF LiveInv
    <2>1. CASE rg = r
      BY <1>a, <1>c, <2>1 DEF FreeInv, LiveInv
    <2>2. CASE rg # r
      BY <1>c, <2>2 DEF FreeInv, LiveInv, Working
    <2> QED BY <2>1, <2>2
  <1>5. EmptyInv'
    BY <1>b DEF EmptyInv
  <1> QED BY <1>1, <1>2, <1>3, <1>4, <1>5 DEF FreeInv

\* The region in hand is empty, and the step goes to a point that relies on it.
LEMMA ToEmpty ==
  ASSUME FreeInv, pc \notin Holding \cup {"blank"}, pc' \in {"arm", "stopped"},
         r' \in Regions, rstate[r'] = "FREE" \/ (pc = "blanked" /\ r' = r),
         r' \notin locks,
         UNCHANGED <<k, rstate, rwords, rcols, locks, store, skid, image>>,
         pc' = "arm" => c' = FirstCol(r', k) /\ cend' = c'
  PROVE  FreeInv'
  <1>1. OneInv'
    BY DEF FreeInv, OneInv
  <1>2. OpenInv'
    BY DEF FreeInv, OpenInv, InBlank
  <1>3. ExactInv'
    BY DEF FreeInv, ExactInv
  <1>4. LiveInv'
    BY DEF FreeInv, LiveInv, Working
  <1>5. EmptyInv'
    BY DEF FreeInv, EmptyInv, LiveInv, Working
  <1> QED BY <1>1, <1>2, <1>3, <1>4, <1>5 DEF FreeInv

\* A deploy enters the BLANK of the FREE region it was given.
LEMMA AllocEnters ==
  ASSUME IInv, FreeInv, Alloc, AllocError = "none"
  PROVE  FreeInv'
  <1>a. Allocated \in Regions /\ rstate[Allocated] = "FREE" /\ Allocated \notin locks
    BY AllocErrorType DEF FreeInv, OpenInv
  <1>b. /\ pc = "alloc" /\ pc' = "blank" /\ ret' = "run" /\ r' = Allocated
        /\ k' = (IF k = 0 THEN 0 ELSE image.cols)
        /\ c' = FirstCol(Allocated, k') /\ cend' = LastCol(Allocated, k')
        /\ UNCHANGED <<rstate, rwords, rcols, locks, store, skid, image>>
    BY DEF Alloc, CallBlank, SetState, table, hw, lkm, occ
  <1>c. k' <= 1 /\ k' \in 0 .. FabCols
    <2>1. image.cols <= 1 /\ image.cols \in Nat /\ FabCols >= 1
      BY DEF FreeInv, OneInv, IInv, TypeOK, EfpOK, Images
    <2> QED BY <1>b, <2>1
  <1>1. OneInv'
    BY <1>a, <1>b, <1>c, OneLast DEF FreeInv, OneInv
  <1>2. OpenInv'
    BY <1>a, <1>b DEF FreeInv, OpenInv, InBlank
  <1>3. ExactInv'
    BY <1>b DEF FreeInv, ExactInv
  <1>4. LiveInv'
    BY <1>b DEF FreeInv, LiveInv, Working, Holding
  <1>5. EmptyInv'
    BY <1>b DEF EmptyInv
  <1> QED BY <1>1, <1>2, <1>3, <1>4, <1>5 DEF FreeInv

\* A frame that holds the image's words and no upset one reads back as recorded.
LEMMA ReadsBack ==
  ASSUME IInv, FreeInv, r \in Regions, c \in Cols,
         col_crc[<<r, c>>] = [i \in 1 .. n |-> i],
         \A i \in 1 .. n : store[<<r, c>>][i] \in {i, Upset}
  PROVE  Matches
  <1>1. n \in 0 .. MaxWords /\ \A i \in 1 .. n : i \in Slots
    BY DEF IInv, TypeOK, LocalsOK, Slots
  <1>2. \A i \in 1 .. n : store[<<r, c>>][i] = i
    BY <1>1 DEF FreeInv, ExactInv, Windows
  <1> QED BY <1>2 DEF Matches, Stream

-----------------------------------------------------------------------------
(* FREE regions are free.                                                  *)

\* Every step preserves the invariant.
LEMMA FreeStep ==
  ASSUME SoleMaster, PromptHost, NoUpsets, OneColumn, IInv, LockInv, WriteInv,
         ColumnsInv, RegionIntact, FreeInv, Next
  PROVE  FreeInv'
  <1>k. /\ k <= 1 /\ image.cols <= 1 /\ skid # <<Upset>>
        /\ UNCHANGED table => SameExtent
    BY DEF FreeInv, OneInv, ExactInv, SameExtent, table
  <1>1. CASE Accept
    <2>1. pc' \in Resting
      BY <1>1, AcceptPc DEF Resting
    <2>2. pc = "idle" /\ k' <= 1 /\ UNCHANGED image
      BY <1>1 DEF Accept
    <2> QED BY <1>1, <1>k, <2>1, <2>2, ToRest DEF Accept, hw, lkm, occ, Holding
  <1>2. CASE Reject
    BY <1>2, <1>k, ToRest DEF Reject, Fail, args, hw, lkm, occ, Holding, Resting
  <1>3. CASE Squelch
    BY <1>3, <1>k, ToRest DEF Squelch, args, hw, lkm, occ, Holding, Resting
  <1>4. CASE ClearBusy
    BY <1>4, <1>k, ToRest DEF ClearBusy, Return, hw, lkm, occ, Holding, Resting
  <1>5. CASE Verify
    BY <1>5, <1>k, ToRest DEF Verify, Fail, SetState, args, hw, lkm, occ, Holding,
       Resting
  <1>6. CASE Alloc
    <2>1. CASE AllocError # "none"
      <3>1. SameExtent
        BY <1>6, <1>k, <2>1, AllocErrorType DEF Alloc, Release, IInv, TypeOK, TableOK,
           SameExtent, FreeInv, OneInv
      <3>2. pc' = "squelch" /\ pc = "alloc" /\ UNCHANGED <<k, image, locks, store, skid>>
        BY <1>6, <2>1 DEF Alloc, Fail, hw, lkm, occ
      <3> QED BY <1>k, <3>1, <3>2, ToRest DEF Holding, Resting
    <2> QED BY <1>6, <2>1, AllocEnters
  <1>7. CASE BlankColumn
    BY <1>7, BlankClears
  <1>8. CASE RunBlanked
    <2>1. /\ err = "none" /\ r \in Regions /\ r \notin locks /\ pc = "blanked"
          /\ k \in 0 .. FabCols /\ cend = LastCol(r, k)
      BY <1>8 DEF RunBlanked, Blanked, FreeInv, OpenInv, IInv, TypeOK, LocalsOK,
         HandOK, InBlank
    <2>2. /\ pc' = "arm" /\ c' = FirstCol(r, k)
          /\ UNCHANGED <<r, cend, k, rstate, rwords, rcols, locks, store, skid, image>>
      BY <1>8, <2>1 DEF RunBlanked, table, efp, hw, lkm, occ
    <2>3. LastCol(r, k) = FirstCol(r, k)
      BY <1>k, <2>1, OneLast
    <2> QED BY <2>1, <2>2, <2>3, ToEmpty DEF Holding
  <1>9. CASE Arm
    <2>1. CASE Open(r) /\ <<r, c>> \notin dirty
      <3>1. /\ pc = "arm" /\ pc' = "load" /\ UNCHANGED <<r, c, cend, n, k, skid>>
            /\ UNCHANGED <<rstate, rwords, rcols, locks, store, image>>
        BY <1>9, <2>1 DEF Arm, SetState, args, table, lkm
      <3>2. c = FirstCol(r, k) /\ cend = c
        BY <3>1 DEF FreeInv, OneInv
      <3> QED BY <1>k, <3>1, <3>2, DeployMoves DEF Holding
    <2>2. CASE ~(Open(r) /\ <<r, c>> \notin dirty)
      BY <1>9, <1>k, <2>2, ToRest DEF Arm, Fail, args, lkm, occ, Holding, Resting
    <2> QED BY <2>1, <2>2
  <1>10. CASE LoadDone
    <2>1. pc = "load" /\ c = FirstCol(r, k) /\ cend = c
      BY <1>10 DEF LoadDone, FreeInv, OneInv
    <2>2. /\ pc' = "gate" /\ UNCHANGED <<r, n, k, skid>>
          /\ UNCHANGED <<rstate, rwords, rcols, locks, store, image>>
      BY <1>10, <2>1 DEF LoadDone, efp, hw, lkm, occ
    <2> QED BY <1>k, <2>1, <2>2, DeployMoves DEF Holding
  <1>11. CASE Expire
    <2>1. /\ pc = "load" /\ pc' = "drain" /\ UNCHANGED <<r, c, cend, n, k, skid>>
          /\ UNCHANGED <<rstate, rwords, rcols, locks, store, image>>
      BY <1>11 DEF Expire, args, table, efp, lkm, occ
    <2>2. c = FirstCol(r, k) /\ cend = c
      BY <2>1 DEF FreeInv, OneInv
    <2> QED BY <1>k, <2>1, <2>2, DeployMoves DEF Holding
  <1>12. CASE DrainCheck
    <2>1. pc = "drain" /\ c = FirstCol(r, k) /\ cend = c
      BY <1>12 DEF DrainCheck, FreeInv, OneInv
    <2>2. ~(wr.on /\ z = 0)
      <3> SUFFICES ASSUME wr.on, z = 0 PROVE FALSE
        OBVIOUS
      <3>1. wr.idx \in Nat /\ wr.cnt \in Nat /\ wr.idx < wr.cnt
        BY ArmedWrite DEF IInv, TypeOK, StreamOK
      <3>2. wr.cnt - wr.idx <= 0
        BY <1>12, <2>1 DEF DrainCheck, WriteInv
      <3> QED BY <3>1, <3>2
    <2>3. /\ pc' = "push" \/ (pc' = "blank" /\ ret' = "wdt")
          /\ UNCHANGED <<r, c, n, k, skid>> /\ cend' = c
          /\ UNCHANGED <<rstate, rwords, rcols, locks, store, image>>
      BY <1>12, <2>1, <2>2 DEF DrainCheck, table, efp, hw, lkm, occ
    <2> QED BY <1>k, <2>1, <2>3, DeployMoves DEF Holding
  <1>13. CASE DrainPush
    <2>1. /\ pc = "push" /\ pc' = "drain" /\ UNCHANGED <<r, c, cend, n, k>>
          /\ UNCHANGED <<rstate, rwords, rcols, locks, store, image>>
          /\ skid' = <<Blank>>
      BY <1>13 DEF DrainPush, args, table, efp, lkm
    <2>2. c = FirstCol(r, k) /\ cend = c
      BY <2>1 DEF FreeInv, OneInv
    <2>3. skid' # <<Upset>>
      BY <2>1 DEF Blank, Upset
    <2> QED BY <2>1, <2>2, <2>3, DeployMoves DEF Holding
  <1>14. CASE WdtBlanked
    BY <1>14, <1>k, ToRest DEF WdtBlanked, Blanked, Fail, args, hw, lkm, occ, Holding,
       Resting
  <1>15. CASE CrcGate
    <2>1. /\ pc = "gate" /\ r \in Regions /\ k \in 0 .. FabCols /\ cend = LastCol(r, k)
          /\ LastCol(r, k) = FirstCol(r, k)
      BY <1>15, <1>k, OneLast DEF CrcGate, IInv, TypeOK, LocalsOK, HandOK, Deploys
    <2>2. /\ pc' = "readback" \/ (pc' = "blank" /\ ret' = "gate")
          /\ c' = FirstCol(r, k) /\ cend' = LastCol(r, k) /\ UNCHANGED <<r, n, k, skid>>
          /\ UNCHANGED <<rstate, rwords, rcols, locks, store, image>>
      BY <1>15, <2>1 DEF CrcGate, CallBlank, SetState, table, hw, lkm, occ
    <2> QED BY <1>k, <2>1, <2>2, DeployMoves DEF Holding
  <1>16. CASE GateBlanked
    BY <1>16, <1>k, ToRest DEF GateBlanked, Blanked, Fail, args, hw, lkm, occ, Holding,
       Resting
  <1>17. CASE Readback
    <2>1. /\ pc = "readback" /\ r \in Regions /\ c \in Cols /\ k \in 0 .. FabCols
          /\ c = FirstCol(r, k) /\ cend = c
      BY <1>17 DEF Readback, IInv, TypeOK, LocalsOK, HandOK, Deploys, FreeInv, OneInv
    <2>2. c \in ColsOf(r, k)
      BY <1>k, <2>1, OneLast DEF ColsOf, Cols
    <2>3. Matches
      BY <2>1, <2>2, ReadsBack DEF ColumnsInv, Recorded, Prefix, Loaded
    <2>4. /\ pc' = "commit" /\ UNCHANGED <<r, n, k, skid>>
          /\ UNCHANGED <<rstate, rwords, rcols, locks, store, image>>
      BY <1>17, <2>1, <2>3 DEF Readback, ReadFrame, SetState, table, lkm
    <2> QED BY <1>k, <2>1, <2>4, DeployMoves DEF Holding
  <1>18. CASE Commit
    BY <1>18, CommitTakes
  <1>19. CASE Lock
    <2>1. /\ pc = "lock" /\ pc' = "squelch" /\ locks' = locks \cup {r}
          /\ UNCHANGED <<r, n, k, rstate, rwords, rcols, store, skid, image>>
      BY <1>19 DEF Lock, args, table, efp, occ
    <2>2. OneInv' /\ ExactInv' /\ EmptyInv'
      BY <2>1 DEF FreeInv, OneInv, ExactInv, EmptyInv
    <2>3. OpenInv'
      BY <2>1 DEF FreeInv, OpenInv, InBlank
    <2>4. LiveInv'
      BY <2>1 DEF FreeInv, LiveInv, Working, Holding
    <2> QED BY <2>2, <2>3, <2>4 DEF FreeInv
  <1>20. CASE CtxSave
    <2>1. SameExtent
      BY <1>20, <1>k DEF CtxSave, IInv, TypeOK, TableOK, SameExtent, FreeInv, OneInv
    <2>2. pc = "ctx_save" /\ pc' = "squelch" /\ UNCHANGED <<k, image, locks, store, skid>>
      BY <1>20 DEF CtxSave, Fail, args, lkm, occ
    <2> QED BY <1>k, <2>1, <2>2, ToRest DEF Holding, Resting
  <1>21. CASE CtxRestore
    <2>1. SameExtent
      BY <1>21, <1>k DEF CtxRestore, IInv, TypeOK, TableOK, SameExtent, FreeInv, OneInv
    <2>2. pc = "ctx_restore" /\ pc' = "squelch" /\ UNCHANGED <<k, image, locks, store, skid>>
      BY <1>21 DEF CtxRestore, Fail, args, lkm, occ
    <2> QED BY <1>k, <2>1, <2>2, ToRest DEF Holding, Resting
  <1>22. CASE Stop
    <2>1. /\ pc = "stop" /\ UNCHANGED <<image, store, skid>>
          /\ UNCHANGED table /\ UNCHANGED <<rstate, rwords, rcols>>
      BY <1>22 DEF Stop, Fail, efp, occ, table
    <2>2. CASE pc' = "squelch"
      BY <1>22, <1>k, <2>1, <2>2, ToRest DEF Stop, CallBlank, Holding, Resting
    <2>3. CASE pc' = "stopped"
      <3>1. r' = sel /\ sel \in Regions /\ rstate[sel] = "FREE" /\ UNCHANGED <<k, locks>>
        BY <1>22, <2>3 DEF Stop, Fail, CallBlank
      <3>2. r' \notin locks
        BY <3>1 DEF FreeInv, OpenInv
      <3> QED BY <2>1, <2>3, <3>1, <3>2, ToEmpty DEF Holding
    <2>4. CASE pc' = "blank"
      <3>1. /\ sel \in Regions /\ rstate[sel] # "FREE" /\ locks' = locks \ {sel}
            /\ CallBlank("stop", sel, rwords[sel], rcols[sel])
        BY <1>22, <2>4 DEF Stop, Fail
      <3> QED BY <2>1, <3>1, EnterBlank DEF Holding
    <2> QED BY <1>22, <2>2, <2>3, <2>4 DEF Stop, Fail, CallBlank
  <1>23. CASE StopBlanked
    <2>1. err = "none" /\ r \in Regions /\ r \notin locks /\ pc = "blanked"
      BY <1>23 DEF StopBlanked, Blanked, FreeInv, OpenInv, IInv, HandOK, InBlank
    <2>2. /\ pc' = "stopped"
          /\ UNCHANGED <<r, k, rstate, rwords, rcols, locks, store, skid, image>>
      BY <1>23, <2>1 DEF StopBlanked, args, table, efp, hw, lkm, occ
    <2> QED BY <2>1, <2>2, ToEmpty DEF Holding
  <1>24. CASE Stopped
    BY <1>24, GiveUp DEF Stopped, args, hw, lkm, occ, Resting
  <1>25. CASE Restart
    <2>1. /\ pc = "restart" /\ UNCHANGED <<image, store, skid>>
          /\ UNCHANGED table /\ UNCHANGED <<rstate, rwords, rcols>>
          /\ last.region \in Regions
      BY <1>25 DEF Restart, Fail, efp, occ, table, IInv, TypeOK, TableOK
    <2>2. CASE pc' # "blank"
      BY <1>25, <1>k, <2>1, <2>2, ToRest DEF Restart, Fail, CallBlank, Holding, Resting
    <2>3. CASE pc' = "blank"
      <3>1. /\ rstate[last.region] # "FREE" /\ locks' = locks \ {last.region}
            /\ CallBlank("restart", last.region, rwords[last.region], rcols[last.region])
        BY <1>25, <2>3 DEF Restart, Fail
      <3> QED BY <2>1, <3>1, EnterBlank DEF Holding
    <2> QED BY <2>2, <2>3
  <1>26. CASE RestartBlanked
    <2>1. pc = "blanked" /\ err = "none"
      BY <1>26 DEF RestartBlanked, Blanked, FreeInv, OpenInv
    <2> QED BY <1>26, <2>1, GiveUp DEF RestartBlanked, args, efp, hw, lkm, occ, Resting
  <1>27. CASE Rerun
    BY <1>27, <1>k, ToRest DEF Rerun, Fail, SetState, hw, lkm, occ, Holding, Resting
  <1>28. CASE Abort
    <2>1. /\ pc = "abort" /\ UNCHANGED <<image, store, skid>>
          /\ UNCHANGED table /\ UNCHANGED <<rstate, rwords, rcols>>
      BY <1>28 DEF Abort, efp, occ, table
    <2>2. CASE pc' # "blank"
      BY <1>28, <1>k, <2>1, <2>2, ToRest DEF Abort, CallBlank, Holding, Resting
    <2>3. CASE pc' = "blank"
      <3>1. /\ r # NoRegion /\ rstate[r] # "FREE" /\ locks' = locks \ {r}
            /\ CallBlank("abort", r, rwords[r], rcols[r])
        BY <1>28, <2>1, <2>3 DEF Abort
      <3>2. r \in Regions
        BY <3>1 DEF IInv, TypeOK, LocalsOK, Regions, NoRegion
      <3> QED BY <2>1, <3>1, <3>2, EnterBlank DEF Holding
    <2> QED BY <2>2, <2>3
  <1>29. CASE AbortBlanked
    BY <1>29, GiveUp DEF AbortBlanked, Blanked, efp, hw, lkm, occ, Resting
  <1>30. CASE Heartbeat
    BY <1>30, <1>k, ToRest DEF Heartbeat, efp, hw, lkm, occ, Holding, Resting
  <1>31. CASE HbRegion
    <2>1. /\ pc = "hb" /\ UNCHANGED <<image, locks, store, skid>> /\ UNCHANGED table
          /\ UNCHANGED <<rstate, rwords, rcols>>
      BY <1>31 DEF HbRegion, table, efp, hw, lkm, occ
    <2>2. CASE pc' # "probe"
      BY <1>31, <1>k, <2>1, <2>2, ToRest DEF HbRegion, Return, Holding, Resting
    <2>3. CASE pc' = "probe"
      <3>1. /\ r # NoRegion /\ rstate[r] = "RUNNING" /\ r' = r
            /\ n' = rwords[r] /\ k' = rcols[r]
            /\ c' = FirstCol(r, rcols[r]) /\ cend' = LastCol(r, rcols[r])
        BY <1>31, <2>1, <2>3 DEF HbRegion, Return
      <3>2. r \in Regions
        BY <3>1 DEF IInv, TypeOK, LocalsOK, Regions, NoRegion
      <3>3. rcols[r] \in 0 .. FabCols /\ rcols[r] <= 1
        BY <3>2 DEF IInv, TypeOK, TableOK, FreeInv, OneInv
      <3>4. OneInv'
        BY <2>1, <3>1, <3>2, <3>3, OneLast DEF FreeInv, OneInv
      <3>5. OpenInv'
        BY <2>1, <2>3, <3>1 DEF FreeInv, OpenInv, InBlank
      <3>6. ExactInv' /\ EmptyInv'
        BY <2>1, <2>3 DEF FreeInv, ExactInv, EmptyInv
      <3>7. LiveInv'
        BY <2>1 DEF FreeInv, LiveInv, Working, Holding
      <3> QED BY <3>4, <3>5, <3>6, <3>7 DEF FreeInv
    <2> QED BY <2>2, <2>3
  <1>32. CASE Probe
    <2>1. /\ pc = "probe" /\ r \in Regions /\ c \in Cols /\ k \in 0 .. FabCols
          /\ c = FirstCol(r, k) /\ cend = c
          /\ rstate[r] = "RUNNING" /\ n = rwords[r] /\ k = rcols[r]
      BY <1>32 DEF Probe, IInv, TypeOK, LocalsOK, HandOK, FreeInv, OneInv, OpenInv
    <2>2. c \in ColsOf(r, k)
      BY <1>k, <2>1, OneLast DEF ColsOf, Cols
    <2>3. Matches
      BY <2>1, <2>2, ReadsBack DEF RegionIntact, Blanking
    <2>4. pc' = "hb" /\ UNCHANGED <<k, image, locks, store, skid>> /\ UNCHANGED table
      BY <1>32, <2>1, <2>3 DEF Probe, ReadFrame, efp, lkm
    <2> QED BY <1>k, <2>1, <2>4, ToRest DEF Holding, Resting
  <1>33. CASE HbBlanked
    BY <1>33 DEF HbBlanked, Blanked, FreeInv, OpenInv, InBlank
  <1>34. CASE OccTake
    BY <1>34, TakeLands
  <1>35. CASE HostRing
    <2>1. image'.cols <= 1
      BY <1>35 DEF HostRing, OneColumn
    <2> QED BY <1>35, <1>k, <2>1, Outside DEF HostRing, local, args, table, hw, lkm, occ
  <1>36. CASE HostRingBusy
    BY <1>36, <1>k, Outside DEF HostRingBusy, local, args, table, hw, lkm, occ
  <1>37. CASE HostPush
    <2>1. skid' # <<Upset>>
      BY <1>37 DEF HostPush, IInv, TypeOK, LocalsOK, ObsOK, Upset
    <2> QED BY <1>37, <1>k, <2>1, Outside DEF HostPush, local, args, table, efp, lkm
  <1>38. CASE HostUnthrottle
    BY <1>38, <1>k, Outside DEF HostUnthrottle, local, args, table, efp, lkm, occ
  <1>39. CASE OtherLkm
    BY <1>39 DEF OtherLkm, SoleMaster
  <1>40. CASE StoreUpset
    BY <1>40 DEF StoreUpset, NoUpsets
  <1>41. CASE BlankWaits
    BY <1>41, <1>k, Outside DEF BlankWaits, SetState, args, table, hw, lkm, occ
  <1> QED BY <1>1, <1>2, <1>3, <1>4, <1>5, <1>6, <1>7, <1>8, <1>9, <1>10,
     <1>11, <1>12, <1>13, <1>14, <1>15, <1>16, <1>17, <1>18, <1>19, <1>20,
     <1>21, <1>22, <1>23, <1>24, <1>25, <1>26, <1>27, <1>28, <1>29, <1>30,
     <1>31, <1>32, <1>33, <1>34, <1>35, <1>36, <1>37, <1>38, <1>39, <1>40,
     <1>41 DEF Next, DaemonStep, Surroundings

\* The invariant holds throughout.
LEMMA FreeHolds ==
  ASSUME SoleMaster, PromptHost, NoUpsets, OneColumn
  PROVE  Spec => []FreeInv
  <1>1. Init => FreeInv
    <2> SUFFICES ASSUME Init PROVE FreeInv
      OBVIOUS
    <2>1. OneInv
      BY DEF Init, OneInv
    <2>2. OpenInv
      BY DEF Init, OpenInv, InBlank
    <2>3. \A w \in Windows, i \in Slots : store[w][i] = Blank
      BY DEF Init
    <2>4. Blank # Upset
      BY DEF Blank, Upset
    <2>5. ExactInv
      BY <2>3, <2>4 DEF Init, ExactInv
    <2>6. LiveInv /\ EmptyInv
      BY <2>3 DEF Init, LiveInv, EmptyInv, Windows
    <2> QED BY <2>1, <2>2, <2>5, <2>6 DEF FreeInv
  <1>2. IInv /\ DeployInv /\ FreeInv /\ [Next]_vars => FreeInv'
    <2>1. IInv /\ DeployInv /\ FreeInv /\ Next => FreeInv'
      BY FreeStep DEF DeployInv
    <2>2. FreeInv /\ UNCHANGED vars => FreeInv'
      BY DEF FreeInv, OneInv, OpenInv, ExactInv, LiveInv, Working, EmptyInv, vars
    <2> QED BY <2>1, <2>2
  <1> QED BY <1>1, <1>2, InvariantHolds, DeployHolds, PTL DEF Spec

\* With one master on LKM_CMD, a host that stays silent after its budget, images
\* of at most one column and no upsets, a region marked FREE holds no live word
\* in any of its frames and is unlocked, between commands and after every failed
\* one: whatever mix of deploys, watchdog aborts, transport errors, throttles,
\* refusals, stops, restarts and aborts came before.
THEOREM FreeRegionsAreBlank ==
  ASSUME SoleMaster, PromptHost, NoUpsets, OneColumn
  PROVE  Spec => []FreeIsBlank
  <1>1. FreeInv => FreeIsBlank
    BY DEF FreeInv, OpenInv, LiveInv, FreeIsBlank, Deploying, Working, Holding
  <1> QED BY <1>1, FreeHolds, PTL

-----------------------------------------------------------------------------
(* The freeze belongs to the paused container.                             *)

\* A step that pauses nobody, releases nobody and takes no command.
LEMMA PauseKept ==
  ASSUME NEW p, PauseInv(p), UNCHANGED frozen, doorbell' \in {doorbell, NoDoorbell},
         pc' = "ctx_save" => pc = "ctx_save" /\ sel' = sel,
         \A rg \in Regions : rstate'[rg] = "PAUSED" =>
           rstate[rg] = "PAUSED" /\ (Blanking(rg) => Blanking(rg)'),
         \A rg \in Regions : rstate[rg] = "PAUSED" /\ ~Blanking(rg) =>
           rstate'[rg] = "PAUSED" /\ ~(Blanking(rg)')
  PROVE  PauseInv(p)'
  BY DEF PauseInv

\* A container is taken into its BLANK and its freeze, if any, is released.
LEMMA PauseEnds ==
  ASSUME IInv, NEW p, PauseInv(p), NEW rg \in Regions,
         pc \notin {"blank", "blanked", "stopped"}, pc' = "blank", r' = rg,
         frozen' = (frozen /\ rstate[rg] # "PAUSED"),
         UNCHANGED <<rstate, doorbell>>
  PROVE  PauseInv(p)'
  <1>1. \A x \in Regions : ~Blanking(x)
    BY DEF Blanking
  <1>2. \A x \in Regions : Blanking(x)' <=> x = rg
    BY DEF Blanking
  <1>3. \A x \in Regions : rstate[x] = "PAUSED" => x = p /\ frozen
    BY <1>1 DEF PauseInv
  <1>4. \A x \in Regions : rstate'[x] = "PAUSED" => x = p /\ (frozen' \/ Blanking(x)')
    <2> SUFFICES ASSUME NEW x \in Regions, rstate[x] = "PAUSED"
                 PROVE  x = p /\ (frozen' \/ Blanking(x)')
      OBVIOUS
    <2>1. CASE x = rg
      BY <1>2, <1>3, <2>1
    <2>2. CASE x # rg
      BY <1>3, <2>2
    <2> QED BY <2>1, <2>2
  <1>5. frozen' => \E x \in Regions : rstate'[x] = "PAUSED" /\ ~(Blanking(x)')
    BY <1>1, <1>2 DEF PauseInv
  <1> QED BY <1>4, <1>5 DEF PauseInv

\* Freeing a region at the end of its BLANK.
LEMMA PauseFreed ==
  ASSUME IInv, NEW p, PauseInv(p), pc \in {"blanked", "stopped"}, Release(r),
         pc' \notin {"blank", "blanked", "stopped", "ctx_save"}, UNCHANGED frozen,
         UNCHANGED doorbell
  PROVE  PauseInv(p)'
  <1>1. r \in Regions /\ rstate'[r] = "FREE"
        /\ \A x \in Regions : x # r => rstate'[x] = rstate[x]
    BY DEF IInv, HandOK, InBlank, Release, TypeOK, TableOK
  <1>2. \A x \in Regions : (Blanking(x) <=> x = r) /\ ~(Blanking(x)')
    BY DEF Blanking
  <1> QED BY <1>1, <1>2, PauseKept

\* Every step preserves it.
LEMMA PauseStep ==
  ASSUME "ctx" \notin Faults, NEW p, PausedOnly(p), IInv, LockInv, FreeInv, PauseInv(p),
         Next
  PROVE  PauseInv(p)'
  <1>1. CASE Accept
    <2>1. pc' = "ctx_save" => doorbell.cmd = "ctx_save"
      <3>1. doorbell \in [cmd : Commands, sel : 0 .. AutoRegion, early : BOOLEAN]
        BY <1>1 DEF Accept, IInv, TypeOK, EfpOK
      <3> QED BY <1>1, <3>1 DEF Accept, Entry, Commands
    <2>2. /\ doorbell # NoDoorbell /\ doorbell' = NoDoorbell /\ sel' = doorbell.sel
          /\ UNCHANGED <<rstate, frozen>>
      BY <1>1 DEF Accept, table, hw
    <2>3. \A rg \in Regions : ~Blanking(rg) /\ ~(Blanking(rg)')
      BY <1>1, AcceptPc DEF Accept, Blanking
    <2> QED BY <2>1, <2>2, <2>3 DEF PauseInv
  <1>2. CASE Reject
    BY <1>2, PauseKept DEF Reject, Fail, args, table, hw, Blanking
  <1>3. CASE Squelch
    BY <1>3, PauseKept DEF Squelch, args, table, hw, Blanking
  <1>4. CASE ClearBusy
    BY <1>4, PauseKept DEF ClearBusy, Return, table, hw, Blanking
  <1>5. CASE Verify
    BY <1>5, PauseKept DEF Verify, Fail, SetState, args, table, hw, Blanking
  <1>6. CASE Alloc
    <2>1. CASE AllocError = "none"
      <3>1. rstate[Allocated] = "FREE"
        BY <2>1, AllocErrorType
      <3> QED BY <1>6, <2>1, <3>1, PauseKept DEF Alloc, CallBlank, SetState, table, hw,
                 Blanking
    <2>2. CASE AllocError # "none"
      <3>1. \A rg \in Regions : rstate'[rg] = rstate[rg]
        BY <1>6, <2>2, AllocErrorType DEF Alloc, Release, table, IInv, TypeOK, TableOK
      <3> QED BY <1>6, <2>2, <3>1, PauseKept DEF Alloc, Fail, hw, Blanking
    <2> QED BY <2>1, <2>2
  <1>7. CASE BlankColumn
    BY <1>7, PauseKept DEF BlankColumn, SetState, table, Blanking
  <1>8. CASE RunBlanked
    <2>1. rstate[r] = "FREE"
      BY <1>8 DEF RunBlanked, Blanked, LockInv, InBlank
    <2> QED BY <1>8, <2>1, PauseKept DEF RunBlanked, Blanked, Fail, table, efp, hw,
               Blanking
  <1>9. CASE Arm
    BY <1>9, PauseKept DEF Arm, Fail, SetState, args, table, Blanking
  <1>10. CASE LoadDone
    BY <1>10, PauseKept DEF LoadDone, efp, hw, Blanking
  <1>11. CASE Expire
    BY <1>11, PauseKept DEF Expire, args, table, efp, Blanking
  <1>12. CASE DrainCheck
    <2>1. rstate[r] = "FREE"
      BY <1>12 DEF DrainCheck, LockInv, Deploys
    <2> QED BY <1>12, <2>1, PauseKept DEF DrainCheck, Fail, table, efp, hw, Blanking
  <1>13. CASE DrainPush
    BY <1>13, PauseKept DEF DrainPush, args, table, efp, Blanking
  <1>14. CASE WdtBlanked
    <2>1. rstate[r] = "FREE"
      BY <1>14 DEF WdtBlanked, Blanked, LockInv, InBlank
    <2> QED BY <1>14, <2>1, PauseKept DEF WdtBlanked, Blanked, Fail, args, table, hw,
               Blanking
  <1>15. CASE CrcGate
    <2>1. rstate[r] = "FREE"
      BY <1>15 DEF CrcGate, LockInv, Deploys
    <2> QED BY <1>15, <2>1, PauseKept DEF CrcGate, CallBlank, SetState, table, hw, Blanking
  <1>16. CASE GateBlanked
    <2>1. rstate[r] = "FREE"
      BY <1>16 DEF GateBlanked, Blanked, LockInv, InBlank
    <2> QED BY <1>16, <2>1, PauseKept DEF GateBlanked, Blanked, Fail, args, table, hw,
               Blanking
  <1>17. CASE Readback
    BY <1>17, PauseKept DEF Readback, Fail, SetState, table, Blanking
  <1>18. CASE Commit
    <2>1. r \in Regions /\ rstate[r] = "FREE" /\ rstate'[r] = "RUNNING"
          /\ \A x \in Regions : x # r => rstate'[x] = rstate[x]
      BY <1>18 DEF Commit, IInv, HandOK, LockInv, Deploys, TypeOK, TableOK
    <2> QED BY <1>18, <2>1, PauseKept DEF Commit, args, hw, Blanking
  <1>19. CASE Lock
    BY <1>19, PauseKept DEF Lock, args, table, efp, Blanking
  <1>20. CASE CtxSave
    <2>1. \A x \in Regions : ~Blanking(x) /\ ~(Blanking(x)')
      BY <1>20 DEF CtxSave, Fail, Blanking
    <2>2. CASE UNCHANGED <<rstate, frozen>>
      BY <1>20, <2>1, <2>2, PauseKept DEF CtxSave, Fail
    <2>3. CASE ~UNCHANGED <<rstate, frozen>>
      <3>1. /\ sel \in Regions /\ sel = p /\ frozen' = TRUE /\ pc' = "squelch"
            /\ rstate' = [rstate EXCEPT ![sel] = "PAUSED"] /\ doorbell' = doorbell
        BY <1>20, <2>3 DEF CtxSave, PauseInv
      <3>2. rstate'[sel] = "PAUSED" /\ \A x \in Regions : x # sel => rstate'[x] = rstate[x]
        BY <3>1 DEF IInv, TypeOK, TableOK
      <3> QED BY <2>1, <3>1, <3>2 DEF PauseInv
    <2> QED BY <2>2, <2>3
  <1>21. CASE CtxRestore
    <2>1. \A x \in Regions : ~Blanking(x) /\ ~(Blanking(x)')
      BY <1>21 DEF CtxRestore, Fail, Blanking
    <2>2. CASE UNCHANGED <<rstate, frozen>>
      BY <1>21, <2>1, <2>2, PauseKept DEF CtxRestore, Fail
    <2>3. CASE ~UNCHANGED <<rstate, frozen>>
      <3>1. /\ sel \in Regions /\ rstate[sel] = "PAUSED" /\ frozen' = FALSE
            /\ pc' = "squelch" /\ doorbell' = doorbell
            /\ rstate' = [rstate EXCEPT ![sel] = "RUNNING"]
        BY <1>21, <2>3 DEF CtxRestore
      <3>2. rstate'[sel] = "RUNNING" /\ \A x \in Regions : x # sel => rstate'[x] = rstate[x]
        BY <3>1 DEF IInv, TypeOK, TableOK
      <3>3. \A x \in Regions : rstate'[x] # "PAUSED"
        BY <3>1, <3>2 DEF PauseInv
      <3> QED BY <3>1, <3>3 DEF PauseInv
    <2> QED BY <2>2, <2>3
  <1>22. CASE Stop
    <2>1. pc = "stop" /\ UNCHANGED <<rstate, doorbell>>
      BY <1>22 DEF Stop, Fail, efp, table
    <2>2. CASE pc' # "blank" /\ pc' # "stopped"
      BY <1>22, <2>1, <2>2, PauseKept DEF Stop, Fail, CallBlank, Blanking
    <2>3. CASE pc' = "stopped"
      <3>1. r' = sel /\ rstate[sel] = "FREE" /\ UNCHANGED frozen
        BY <1>22, <2>3 DEF Stop, Fail, CallBlank
      <3> QED BY <2>1, <2>3, <3>1, PauseKept DEF Blanking
    <2>4. CASE pc' = "blank"
      <3>1. sel \in Regions /\ r' = sel /\ frozen' = (frozen /\ rstate[sel] # "PAUSED")
        BY <1>22, <2>4 DEF Stop, Fail, CallBlank
      <3> QED BY <2>1, <2>4, <3>1, PauseEnds
    <2> QED BY <2>2, <2>3, <2>4
  <1>23. CASE StopBlanked
    <2>1. err = "none"
      BY <1>23 DEF StopBlanked, Blanked, LockInv
    <2> QED BY <1>23, <2>1, PauseKept DEF StopBlanked, Blanked, args, table, efp, hw,
               Blanking
  <1>24. CASE Stopped
    BY <1>24, PauseFreed DEF Stopped, hw
  <1>25. CASE Restart
    <2>1. pc = "restart" /\ UNCHANGED <<rstate, frozen, doorbell>>
      BY <1>25 DEF Restart, Fail, efp, table
    <2>2. CASE pc' # "blank"
      BY <1>25, <2>1, <2>2, PauseKept DEF Restart, Fail, CallBlank, Blanking
    <2>3. CASE pc' = "blank"
      <3>1. r' = last.region /\ rstate[last.region] = "RUNNING"
        BY <1>25, <2>3 DEF Restart, Fail, CallBlank
      <3> QED BY <2>1, <2>3, <3>1, PauseKept DEF Blanking
    <2> QED BY <2>2, <2>3
  <1>26. CASE RestartBlanked
    <2>1. err = "none"
      BY <1>26 DEF RestartBlanked, Blanked, LockInv
    <2> QED BY <1>26, <2>1, PauseFreed DEF RestartBlanked, Blanked, efp, hw
  <1>27. CASE Rerun
    BY <1>27, PauseKept DEF Rerun, Fail, SetState, table, hw, Blanking
  <1>28. CASE Abort
    <2>1. pc = "abort" /\ UNCHANGED <<rstate, doorbell>>
      BY <1>28 DEF Abort, efp, table
    <2>2. CASE pc' # "blank"
      BY <1>28, <2>1, <2>2, PauseKept DEF Abort, CallBlank, Blanking
    <2>3. CASE pc' = "blank"
      <3>1. r # NoRegion /\ r' = r /\ frozen' = (frozen /\ rstate[r] # "PAUSED")
        BY <1>28, <2>1, <2>3 DEF Abort, CallBlank, CtxFails
      <3>2. r \in Regions
        BY <3>1 DEF IInv, TypeOK, LocalsOK, Regions, NoRegion
      <3> QED BY <2>1, <2>3, <3>1, <3>2, PauseEnds
    <2> QED BY <2>2, <2>3
  <1>29. CASE AbortBlanked
    BY <1>29, PauseFreed DEF AbortBlanked, Blanked, efp, hw
  <1>30. CASE Heartbeat
    BY <1>30, PauseKept DEF Heartbeat, table, efp, hw, Blanking
  <1>31. CASE HbRegion
    BY <1>31, PauseKept DEF HbRegion, Return, table, efp, hw, Blanking
  <1>32. CASE Probe
    <2>1. rstate[r] = "RUNNING"
      BY <1>32 DEF Probe, FreeInv, OpenInv
    <2> QED BY <1>32, <2>1, PauseKept DEF Probe, CallBlank, table, efp, Blanking
  <1>33. CASE HbBlanked
    BY <1>33, PauseFreed DEF HbBlanked, Blanked, lkm
  <1>34. CASE OccTake
    BY <1>34, PauseKept DEF OccTake, local, args, table, efp, Blanking
  <1>35. CASE HostRing
    BY <1>35 DEF HostRing, Ring, PausedOnly, PauseInv, local, args, table, hw, Blanking,
       NoDoorbell
  <1>36. CASE HostRingBusy
    BY <1>36 DEF HostRingBusy, Ring, PausedOnly, PauseInv, local, args, table, hw,
       Blanking, NoDoorbell
  <1>37. CASE HostPush
    BY <1>37, PauseKept DEF HostPush, local, args, table, efp, Blanking
  <1>38. CASE HostUnthrottle
    BY <1>38, PauseKept DEF HostUnthrottle, local, args, table, efp, Blanking
  <1>39. CASE OtherLkm
    BY <1>39, PauseKept DEF OtherLkm, local, args, table, efp, Blanking
  <1>40. CASE StoreUpset
    BY <1>40, PauseKept DEF StoreUpset, local, args, table, efp, Blanking
  <1>41. CASE BlankWaits
    BY <1>41, PauseKept DEF BlankWaits, SetState, args, table, hw, Blanking
  <1> QED BY <1>1, <1>2, <1>3, <1>4, <1>5, <1>6, <1>7, <1>8, <1>9, <1>10,
     <1>11, <1>12, <1>13, <1>14, <1>15, <1>16, <1>17, <1>18, <1>19, <1>20,
     <1>21, <1>22, <1>23, <1>24, <1>25, <1>26, <1>27, <1>28, <1>29, <1>30,
     <1>31, <1>32, <1>33, <1>34, <1>35, <1>36, <1>37, <1>38, <1>39, <1>40,
     <1>41 DEF Next, DaemonStep, Surroundings

-----------------------------------------------------------------------------
(* The decoder is idle when the daemon writes OCC_DECODE.                  *)

\* A step that neither streams nor arms, and keeps the frame in hand or drops it.
LEMMA DecodeKept ==
  ASSUME DecodeInv, UNCHANGED <<dec, dirty, image>>,
         \A rg \in Regions : rcols'[rg] # 0 =>
           rcols'[rg] = rcols[rg] /\ rwords'[rg] = rwords[rg],
         pc' \in InHand => pc \in InHand /\ UNCHANGED <<n, k>>,
         ~dec.on \/ (pc' \in Loading /\ UNCHANGED <<r, c, k, wr>>),
         pc' = "arm" \/ (pc' = "blanked" /\ ret' = "run") =>
           /\ pc = "arm" \/ (pc = "blanked" /\ ret = "run")
           /\ UNCHANGED <<r, k>>
  PROVE  DecodeInv'
  <1>1. FullInv'
    BY DEF DecodeInv, FullInv, Full
  <1>2. SeqInv'
    BY DEF DecodeInv, SeqInv
  <1> QED BY <1>1, <1>2 DEF DecodeInv

\* The table's extents stay or go.
LEMMA ExtentFreed ==
  ASSUME IInv, NEW rg \in Regions, Release(rg)
  PROVE  \A x \in Regions : rcols'[x] # 0 => rcols'[x] = rcols[x] /\ rwords'[x] = rwords[x]
  BY DEF Release, IInv, TypeOK, TableOK

\* A container's frames are taken in hand.
LEMMA DecodeTaken ==
  ASSUME DecodeInv, pc \notin Loading, NEW rg \in Regions,
         n' = rwords[rg], k' = rcols[rg], pc' \in {"blank", "probe"},
         UNCHANGED <<dec, dirty, image, rwords, rcols>>
  PROVE  DecodeInv'
  <1>1. FullInv'
    BY DEF DecodeInv, FullInv, Full
  <1>2. SeqInv'
    BY DEF DecodeInv, SeqInv
  <1> QED BY <1>1, <1>2 DEF DecodeInv

\* Every step preserves it.
LEMMA DecodeStep ==
  ASSUME SoleMaster, PromptHost, NoUpsets, OneColumn, FullFrames, IInv, LockInv,
         WriteInv, FreeInv, DecodeInv, Next
  PROVE  DecodeInv'
  <1>a. pc \notin Loading => ~dec.on
    BY DEF DecodeInv, SeqInv
  <1>b. UNCHANGED table => UNCHANGED <<rwords, rcols>>
    BY DEF table
  <1> USE DEF InHand, Deploys, InBlank, Loading
  <1>1. CASE Accept
    BY <1>1, <1>a, <1>b, AcceptPc, DecodeKept DEF Accept, hw, occ
  <1>2. CASE Reject
    BY <1>2, <1>a, <1>b, DecodeKept DEF Reject, Fail, hw, occ
  <1>3. CASE Squelch
    BY <1>3, <1>a, <1>b, DecodeKept DEF Squelch, hw, occ
  <1>4. CASE ClearBusy
    BY <1>4, <1>a, <1>b, DecodeKept DEF ClearBusy, Return, hw, occ
  <1>5. CASE Verify
    BY <1>5, <1>a, <1>b, DecodeKept DEF Verify, Fail, SetState, hw, occ
  <1>6. CASE Alloc
    <2>1. CASE AllocError = "none"
      <3>1. /\ pc = "alloc" /\ pc' = "blank" /\ n' = image.words
            /\ UNCHANGED <<dec, dirty, image, rwords, rcols>>
        BY <1>6, <2>1 DEF Alloc, CallBlank, SetState, table, hw, occ
      <3>2. Full(image.words)
        BY <3>1 DEF DecodeInv, FullInv, IInv, StageOK
      <3>3. FullInv'
        BY <3>1, <3>2 DEF DecodeInv, FullInv, Full
      <3>4. SeqInv'
        BY <1>a, <3>1 DEF SeqInv
      <3> QED BY <3>3, <3>4 DEF DecodeInv
    <2>2. CASE AllocError # "none"
      <3>1. \A rg \in Regions : rcols'[rg] # 0 =>
              rcols'[rg] = rcols[rg] /\ rwords'[rg] = rwords[rg]
        BY <1>6, <2>2, <1>b, AllocErrorType, ExtentFreed DEF Alloc
      <3> QED BY <1>6, <1>a, <2>2, <3>1, DecodeKept DEF Alloc, Fail, hw, occ
    <2> QED BY <2>1, <2>2
  <1>7. CASE BlankColumn
    <2>1. /\ pc = "blank" /\ r \in Regions /\ c \in Cols /\ c = FirstCol(r, k) /\ cend = c
          /\ Open(r) /\ ~dec.on
      BY <1>7, <1>a DEF BlankColumn, FreeInv, OneInv, OpenInv, LockInv, IInv, TypeOK,
         LocalsOK, HandOK, Open
    <2>2. /\ pc' = "blanked" /\ dirty' = dirty \ {<<r, c>>} /\ Capture(Armed, n, NoRegion)
          /\ UNCHANGED <<ret, r, n, k, image, rwords, rcols>>
      BY <1>7, <2>1, <1>b DEF BlankColumn, SetState
    <2>3. ~dec'.on
      <3>1. CASE k = 0
        BY <2>1, <2>2, <3>1 DEF Capture, Armed
      <3>2. CASE k # 0
        <4>1. Full(n)
          BY <2>1, <3>2 DEF DecodeInv, FullInv
        <4>2. n >= ColWords[c] /\ n \in Nat /\ ColWords[c] \in Nat
          BY <2>1, <4>1 DEF Full, IInv, TypeOK, LocalsOK
        <4>3. dec' = NoDecode
          BY <2>2, <3>2, <4>2 DEF Capture, Armed, Decode
        <4> QED BY <4>3 DEF NoDecode
      <3> QED BY <3>1, <3>2
    <2>4. FullInv'
      BY <2>1, <2>2 DEF DecodeInv, FullInv, Full
    <2>5. SeqInv'
      BY <2>1, <2>2, <2>3 DEF SeqInv
    <2> QED BY <2>4, <2>5 DEF DecodeInv
  <1>8. CASE RunBlanked
    BY <1>8, <1>a, <1>b, DecodeKept DEF RunBlanked, Blanked, Fail, efp, hw, occ
  <1>9. CASE Arm
    <2>1. /\ pc = "arm" /\ r \in Regions /\ c \in Cols /\ c = FirstCol(r, k)
          /\ r \notin locks /\ ~global_lock /\ <<r, c>> \notin dirty
      BY <1>9 DEF Arm, FreeInv, OneInv, OpenInv, LockInv, IInv, TypeOK, LocalsOK, HandOK,
         DecodeInv, SeqInv
    <2>2. /\ pc' = "load" /\ dec' = Armed
          /\ wr' = [on |-> TRUE, win |-> <<r, c>>, idx |-> 0, cnt |-> n]
          /\ UNCHANGED <<r, c, n, k, image, rwords, rcols>>
      BY <1>9, <1>b, <2>1 DEF Arm, Open, SetState, args
    <2>3. FullInv'
      BY <2>1, <2>2 DEF DecodeInv, FullInv, Full
    <2>4. SeqInv'
      BY <1>a, <2>1, <2>2 DEF SeqInv, Armed, Decode
    <2> QED BY <2>3, <2>4 DEF DecodeInv
  <1>10. CASE LoadDone
    <2>1. ~dec.on /\ pc = "load" /\ c = cend
      BY <1>10 DEF LoadDone, DecodeInv, SeqInv, FreeInv, OneInv
    <2> QED BY <1>10, <2>1, DecodeKept DEF LoadDone, efp, hw, occ
  <1>11. CASE Expire
    BY <1>11, <1>b, DecodeKept DEF Expire, args, efp, occ, DecodeInv, SeqInv
  <1>12. CASE DrainCheck
    <2>1. pc = "drain"
      BY <1>12 DEF DrainCheck
    <2>2. ~(wr.on /\ z = 0)
      <3> SUFFICES ASSUME wr.on, z = 0 PROVE FALSE
        OBVIOUS
      <3>1. wr.idx \in Nat /\ wr.cnt \in Nat /\ wr.idx < wr.cnt
        BY ArmedWrite DEF IInv, TypeOK, StreamOK
      <3>2. wr.cnt - wr.idx <= 0
        BY <1>12, <2>1 DEF DrainCheck, WriteInv
      <3> QED BY <3>1, <3>2
    <2>3. /\ pc' = "push" \/ (pc' = "blank" /\ ~wr.on)
          /\ UNCHANGED <<dec, dirty, wr, image, r, c, n, k, rwords, rcols>>
      BY <1>12, <1>b, <2>1, <2>2 DEF DrainCheck, efp, hw, occ
    <2>4. dec.on => wr.on
      BY DEF DecodeInv, SeqInv
    <2> QED BY <2>1, <2>3, <2>4, DecodeKept
  <1>13. CASE DrainPush
    BY <1>13, <1>b, DecodeKept DEF DrainPush, args, efp
  <1>14. CASE WdtBlanked
    BY <1>14, <1>a, <1>b, DecodeKept DEF WdtBlanked, Blanked, Fail, args, hw, occ
  <1>15. CASE CrcGate
    <2>1. /\ pc = "gate" /\ pc' \in {"blank", "readback"}
          /\ UNCHANGED <<n, k, image, dec, dirty, rwords, rcols>>
      BY <1>15, <1>b DEF CrcGate, CallBlank, SetState, hw, occ
    <2> QED BY <1>a, <2>1, DecodeKept
  <1>16. CASE GateBlanked
    BY <1>16, <1>a, <1>b, DecodeKept DEF GateBlanked, Blanked, Fail, args, hw, occ
  <1>17. CASE Readback
    BY <1>17, <1>a, <1>b, DecodeKept DEF Readback, ReadFrame, Fail, SetState
  <1>18. CASE Commit
    <2>1. /\ pc = "commit" /\ r \in Regions /\ pc' = "lock" /\ UNCHANGED <<dec, dirty, image>>
          /\ rwords'[r] = n /\ rcols'[r] = k
          /\ \A x \in Regions : x # r => rwords'[x] = rwords[x] /\ rcols'[x] = rcols[x]
      BY <1>18 DEF Commit, hw, occ, IInv, HandOK, TypeOK, TableOK
    <2>2. FullInv'
      BY <2>1 DEF DecodeInv, FullInv, Full
    <2>3. SeqInv'
      BY <1>a, <2>1 DEF SeqInv
    <2> QED BY <2>2, <2>3 DEF DecodeInv
  <1>19. CASE Lock
    BY <1>19, <1>a, <1>b, DecodeKept DEF Lock, efp, occ
  <1>20. CASE CtxSave
    BY <1>20, <1>a, DecodeKept DEF CtxSave, Fail, occ
  <1>21. CASE CtxRestore
    BY <1>21, <1>a, DecodeKept DEF CtxRestore, Fail, occ
  <1>22. CASE Stop
    <2>1. pc = "stop" /\ UNCHANGED <<image, dec, dirty, rwords, rcols>>
      BY <1>22, <1>b DEF Stop, Fail, efp, occ
    <2>2. CASE pc' # "blank"
      BY <1>22, <1>a, <2>1, <2>2, DecodeKept DEF Stop, Fail, CallBlank
    <2>3. CASE pc' = "blank"
      <3>1. sel \in Regions /\ n' = rwords[sel] /\ k' = rcols[sel]
        BY <1>22, <2>3 DEF Stop, Fail, CallBlank
      <3> QED BY <2>1, <2>3, <3>1, DecodeTaken
    <2> QED BY <2>2, <2>3
  <1>23. CASE StopBlanked
    BY <1>23, <1>a, <1>b, DecodeKept DEF StopBlanked, Blanked, Fail, args, efp, hw, occ
  <1>24. CASE Stopped
    <2>1. r \in Regions
      BY <1>24 DEF Stopped, IInv, HandOK
    <2> QED BY <1>24, <1>a, <2>1, ExtentFreed, DecodeKept DEF Stopped, hw, occ
  <1>25. CASE Restart
    <2>1. /\ pc = "restart" /\ UNCHANGED <<image, dec, dirty, rwords, rcols>>
          /\ last.region \in Regions
      BY <1>25, <1>b DEF Restart, Fail, efp, occ, IInv, TypeOK, TableOK
    <2>2. CASE pc' # "blank"
      BY <1>25, <1>a, <2>1, <2>2, DecodeKept DEF Restart, Fail, CallBlank
    <2>3. CASE pc' = "blank"
      <3>1. n' = rwords[last.region] /\ k' = rcols[last.region]
        BY <1>25, <2>3 DEF Restart, Fail, CallBlank
      <3> QED BY <2>1, <2>3, <3>1, DecodeTaken
    <2> QED BY <2>2, <2>3
  <1>26. CASE RestartBlanked
    <2>1. r \in Regions /\ err = "none" /\ pc = "blanked"
      BY <1>26 DEF RestartBlanked, Blanked, IInv, HandOK, FreeInv, OpenInv
    <2>2. Release(r) /\ pc' = "rerun" /\ UNCHANGED <<image, dec, dirty>>
      BY <1>26, <2>1 DEF RestartBlanked, efp, hw, occ
    <2> QED BY <1>a, <2>1, <2>2, ExtentFreed, DecodeKept
  <1>27. CASE Rerun
    BY <1>27, <1>a, <1>b, DecodeKept DEF Rerun, Fail, SetState, hw, occ
  <1>28. CASE Abort
    <2>1. /\ pc = "abort" /\ UNCHANGED <<image, dec, dirty, rwords, rcols>>
      BY <1>28, <1>b DEF Abort, efp, occ
    <2>2. CASE pc' # "blank"
      BY <1>28, <1>a, <2>1, <2>2, DecodeKept DEF Abort, CallBlank
    <2>3. CASE pc' = "blank"
      <3>1. r # NoRegion /\ n' = rwords[r] /\ k' = rcols[r]
        BY <1>28, <2>1, <2>3 DEF Abort, CallBlank
      <3>2. r \in Regions
        BY <3>1 DEF IInv, TypeOK, LocalsOK, Regions, NoRegion
      <3> QED BY <2>1, <2>3, <3>1, <3>2, DecodeTaken
    <2> QED BY <2>2, <2>3
  <1>29. CASE AbortBlanked
    <2>1. r \in Regions /\ pc = "blanked"
      BY <1>29 DEF AbortBlanked, Blanked, IInv, HandOK
    <2> QED BY <1>29, <1>a, <2>1, ExtentFreed, DecodeKept DEF AbortBlanked, efp, hw, occ
  <1>30. CASE Heartbeat
    BY <1>30, <1>a, <1>b, DecodeKept DEF Heartbeat, efp, hw, occ
  <1>31. CASE HbRegion
    <2>1. /\ pc = "hb" /\ UNCHANGED <<image, dec, dirty, rwords, rcols>>
      BY <1>31, <1>b DEF HbRegion, efp, hw, occ
    <2>2. CASE pc' # "probe"
      BY <1>31, <1>a, <2>1, <2>2, DecodeKept DEF HbRegion, Return
    <2>3. CASE pc' = "probe"
      <3>1. r # NoRegion /\ n' = rwords[r] /\ k' = rcols[r]
        BY <1>31, <2>1, <2>3 DEF HbRegion, Return
      <3>2. r \in Regions
        BY <3>1 DEF IInv, TypeOK, LocalsOK, Regions, NoRegion
      <3> QED BY <2>1, <2>3, <3>1, <3>2, DecodeTaken
    <2> QED BY <2>2, <2>3
  <1>32. CASE Probe
    BY <1>32, <1>a, <1>b, DecodeKept DEF Probe, ReadFrame, CallBlank, efp
  <1>33. CASE HbBlanked
    BY <1>33 DEF HbBlanked, Blanked, FreeInv, OpenInv
  <1>34. CASE OccTake
    <2>1. /\ pc \in Loading /\ wr.on /\ wr.win = <<r, c>> /\ wr.cnt = n /\ c \in Cols
          /\ n \in Nat /\ wr.idx \in Nat /\ r \in Regions
      BY <1>34, ArmedWrite DEF OccTake, WriteInv, IInv, TypeOK, LocalsOK, HandOK
    <2>2. /\ Capture(dec, 1, r) /\ UNCHANGED <<pc, ret, r, c, n, k, image, rwords, rcols>>
          /\ wr' = IF wr.idx + 1 = n THEN NoWrite ELSE [wr EXCEPT !.idx = wr.idx + 1]
      BY <1>34, <1>b, <2>1 DEF OccTake, local, args, efp
    <2>3. FullInv'
      BY <2>2 DEF DecodeInv, FullInv, Full
    <2>4. SeqInv'
      <3>1. CASE ~dec.on
        BY <2>1, <2>2, <3>1 DEF Capture, SeqInv
      <3>2. CASE dec.on
        <4>1. /\ k # 0 /\ dec.col = c /\ dec.got = wr.idx /\ dec.by \subseteq {r}
              /\ ColWords[c] \in Nat /\ n >= ColWords[c]
          BY <2>1, <3>2 DEF DecodeInv, SeqInv, FullInv, Full
        <4>2. dec \in [on : {TRUE}, col : Cols, got : Nat,
                       by : SUBSET (Regions \cup {NoRegion})]
          BY <3>2, ArmedDecoder DEF IInv, TypeOK, HwOK
        <4>3. CASE wr.idx + 1 < ColWords[c]
          <5>1. dec' = [dec EXCEPT !.got = wr.idx + 1, !.by = dec.by \cup {r}]
            BY <2>2, <3>2, <4>1, <4>3 DEF Capture
          <5>2. dec'.col = c /\ dec'.got = wr.idx + 1 /\ dec'.by \subseteq {r}
            BY <4>1, <4>2, <5>1
          <5>3. wr.idx + 1 # n
            BY <2>1, <4>1, <4>3
          <5>4. wr \in [on : {TRUE}, win : Windows, idx : 0 .. MaxWords - 1, cnt : Slots]
            BY <2>1, ArmedWrite DEF IInv, TypeOK
          <5>5. wr'.on /\ wr'.idx = wr.idx + 1
            BY <2>2, <5>3, <5>4
          <5> QED BY <2>1, <2>2, <4>1, <5>2, <5>5 DEF SeqInv
        <4>4. CASE ~(wr.idx + 1 < ColWords[c])
          <5>1. dec' = NoDecode
            BY <2>2, <3>2, <4>1, <4>4 DEF Capture
          <5> QED BY <2>1, <2>2, <5>1 DEF SeqInv, NoDecode
        <4> QED BY <4>3, <4>4
      <3> QED BY <3>1, <3>2
    <2> QED BY <2>3, <2>4 DEF DecodeInv
  <1>35. CASE HostRing
    <2>1. /\ image'.words = 0 \/ Full(image'.words)
          /\ UNCHANGED <<pc, ret, r, c, n, k, wr, dec, dirty, rwords, rcols>>
      BY <1>35, <1>b DEF HostRing, FullFrames, local, args, hw, occ
    <2>2. FullInv'
      BY <2>1 DEF DecodeInv, FullInv, Full
    <2>3. SeqInv'
      BY <2>1 DEF DecodeInv, SeqInv
    <2> QED BY <2>2, <2>3 DEF DecodeInv
  <1>36. CASE HostRingBusy
    BY <1>36, <1>a, <1>b, DecodeKept DEF HostRingBusy, local, args, hw, occ
  <1>37. CASE HostPush
    BY <1>37, <1>a, <1>b, DecodeKept DEF HostPush, local, args, efp
  <1>38. CASE HostUnthrottle
    BY <1>38, <1>a, <1>b, DecodeKept DEF HostUnthrottle, local, args, efp, occ
  <1>39. CASE OtherLkm
    BY <1>39, <1>a, <1>b, DecodeKept DEF OtherLkm, local, args, efp, occ
  <1>40. CASE StoreUpset
    BY <1>40 DEF StoreUpset, NoUpsets
  <1>41. CASE BlankWaits
    BY <1>41, <1>a, <1>b, DecodeKept DEF BlankWaits, SetState, args, hw, occ
  <1> QED BY <1>1, <1>2, <1>3, <1>4, <1>5, <1>6, <1>7, <1>8, <1>9, <1>10,
     <1>11, <1>12, <1>13, <1>14, <1>15, <1>16, <1>17, <1>18, <1>19, <1>20,
     <1>21, <1>22, <1>23, <1>24, <1>25, <1>26, <1>27, <1>28, <1>29, <1>30,
     <1>31, <1>32, <1>33, <1>34, <1>35, <1>36, <1>37, <1>38, <1>39, <1>40,
     <1>41 DEF Next, DaemonStep, Surroundings

\* It holds throughout.
LEMMA DecodeHolds ==
  ASSUME SoleMaster, PromptHost, NoUpsets, OneColumn, FullFrames
  PROVE  Spec => []DecodeInv
  <1>1. Init => DecodeInv
    BY DEF Init, DecodeInv, FullInv, SeqInv, NoDecode, InHand, Deploys, InBlank
  <1>2. IInv /\ DeployInv /\ FreeInv /\ DecodeInv /\ [Next]_vars => DecodeInv'
    <2>1. IInv /\ DeployInv /\ FreeInv /\ DecodeInv /\ Next => DecodeInv'
      BY DecodeStep DEF DeployInv
    <2>2. DecodeInv /\ UNCHANGED vars => DecodeInv'
      BY DEF DecodeInv, FullInv, SeqInv, Full, vars
    <2> QED BY <2>1, <2>2
  <1> QED BY <1>1, <1>2, InvariantHolds, DeployHolds, FreeHolds, PTL DEF Spec

\* Back-to-back deploys (BLANK then WRITE) self-sequence: under the conditions of
\* FreeRegionsAreBlank and with packed images that fill their columns, the decoder
\* is idle at every OCC_DECODE write, after every watchdog drain, transport error,
\* refused image, stop, restart and abort: no deploy waits for the one before.
THEOREM DeploysSelfSequence ==
  ASSUME SoleMaster, PromptHost, NoUpsets, OneColumn, FullFrames
  PROVE  Spec => []SelfSequenced
  <1>1. DecodeInv => SelfSequenced
    BY DEF DecodeInv, SeqInv, Loading, SelfSequenced, DecoderReady
  <1> QED BY <1>1, DecodeHolds, PTL

-----------------------------------------------------------------------------
(* The fabric serves what the table says.                                  *)

\* A step that decodes nothing, commits nothing and starts no stream.
LEMMA ColumnKept ==
  ASSUME ColumnInv, UNCHANGED fabric,
         \A rg \in Regions : rstate'[rg] # "FREE" /\ ~(Blanking(rg)') =>
           rstate[rg] # "FREE" /\ ~Blanking(rg) /\ rcols'[rg] = rcols[rg],
         pc' \notin {"load", "gate", "readback", "commit"} \/ UNCHANGED <<pc, r, k, dec>>
  PROVE  ColumnInv'
  BY DEF ColumnInv

\* A deploy's stream is complete: its column is its own.
LEMMA ColumnMoves ==
  ASSUME IInv, LockInv, DecodeInv, ColumnInv, UNCHANGED <<fabric, r, k, rstate, rcols>>,
         pc \in {"gate", "readback"} \/ (pc = "load" /\ ~wr.on),
         pc' \in {"gate", "readback", "commit"}
  PROVE  ColumnInv'
  <1>1. r \in Regions /\ rstate[r] = "FREE"
    BY DEF IInv, HandOK, LockInv, Deploys
  <1>2. k # 0 => fabric[r] = r
    BY DEF ColumnInv, DecodeInv, SeqInv
  <1>3. \A rg \in Regions : ~Blanking(rg)
    BY DEF Blanking
  <1> QED BY <1>1, <1>2, <1>3 DEF ColumnInv

\* Freeing a region takes its claim away.
LEMMA ColumnFreed ==
  ASSUME IInv, ColumnInv, pc \in {"blanked", "stopped"}, Release(r),
         pc' \in {"squelch", "rerun", "abort", "hb"}, UNCHANGED fabric
  PROVE  ColumnInv'
  <1>1. r \in Regions /\ rstate'[r] = "FREE"
        /\ \A x \in Regions : x # r => rstate'[x] = rstate[x] /\ rcols'[x] = rcols[x]
    BY DEF IInv, HandOK, InBlank, Release, TypeOK, TableOK
  <1>2. \A x \in Regions : Blanking(x) => x = r
    BY DEF Blanking
  <1> QED BY <1>1, <1>2, ColumnKept

\* Every step preserves it.
LEMMA ColumnStep ==
  ASSUME IInv, LockInv, WriteInv, FreeInv, DecodeInv, ColumnInv, Next
  PROVE  ColumnInv'
  <1>1. CASE Accept
    BY <1>1, AcceptPc, ColumnKept DEF Accept, table, hw, occ, Blanking
  <1>2. CASE Reject
    BY <1>2, ColumnKept DEF Reject, Fail, table, hw, occ, Blanking
  <1>3. CASE Squelch
    BY <1>3, ColumnKept DEF Squelch, table, hw, occ, Blanking
  <1>4. CASE ClearBusy
    BY <1>4, ColumnKept DEF ClearBusy, Return, table, hw, occ, Blanking
  <1>5. CASE Verify
    BY <1>5, ColumnKept DEF Verify, Fail, SetState, table, hw, occ, Blanking
  <1>6. CASE Alloc
    <2>1. CASE AllocError = "none"
      BY <1>6, <2>1, ColumnKept DEF Alloc, CallBlank, table, hw, occ, Blanking
    <2>2. CASE AllocError # "none"
      <3>1. \A rg \in Regions : rstate'[rg] # "FREE" =>
              rstate[rg] # "FREE" /\ rcols'[rg] = rcols[rg]
        BY <1>6, <2>2, AllocErrorType DEF Alloc, Release, table, IInv, TypeOK, TableOK
      <3> QED BY <1>6, <2>2, <3>1, ColumnKept DEF Alloc, Fail, hw, occ, Blanking
    <2> QED BY <2>1, <2>2
  <1>7. CASE BlankColumn
    <2>1. /\ pc = "blank" /\ pc' \in InBlank /\ c = FirstCol(r, k) /\ r \in Regions
          /\ UNCHANGED <<r, k, rstate, rcols>>
      BY <1>7 DEF BlankColumn, InBlank, FreeInv, OneInv, IInv, HandOK, table
    <2>2. \A rg \in Regions : rg # r => fabric'[rg] = fabric[rg]
      <3>1. ~dec.on
        BY <2>1 DEF DecodeInv, SeqInv, Loading
      <3>2. \/ UNCHANGED fabric
            \/ k # 0 /\ \E x : fabric' = [fabric EXCEPT ![c] = x]
        BY <1>7, <3>1 DEF BlankColumn, Capture, Armed, Decode
      <3>3. \A rg \in Regions : rg \in Cols
        BY DEF Regions, Cols
      <3> QED BY <2>1, <3>2, <3>3 DEF FirstCol, IInv, TypeOK, HwOK
    <2>3. \A rg \in Regions : Blanking(rg)' <=> rg = r
      BY <2>1 DEF Blanking, InBlank
    <2>4. \A rg \in Regions : Blanking(rg) <=> rg = r
      BY <2>1 DEF Blanking
    <2> QED BY <2>1, <2>2, <2>3, <2>4 DEF ColumnInv, InBlank
  <1>8. CASE RunBlanked
    <2>1. rstate[r] = "FREE"
      BY <1>8 DEF RunBlanked, Blanked, LockInv, InBlank
    <2> QED BY <1>8, <2>1, ColumnKept DEF RunBlanked, Blanked, Fail, table, efp, hw, occ,
               Blanking
  <1>9. CASE Arm
    <2>1. CASE Open(r) /\ <<r, c>> \notin dirty
      <3>1. /\ pc = "arm" /\ pc' = "load" /\ (k # 0 => dec'.on)
            /\ UNCHANGED <<r, k, rstate, rcols, fabric>>
        BY <1>9, <2>1 DEF Arm, Armed, Decode, args, table
      <3> QED BY <3>1 DEF ColumnInv, Blanking
    <2>2. CASE ~(Open(r) /\ <<r, c>> \notin dirty)
      BY <1>9, <2>2, ColumnKept DEF Arm, Fail, table, occ, Blanking
    <2> QED BY <2>1, <2>2
  <1>10. CASE LoadDone
    <2>1. c = cend
      BY <1>10 DEF LoadDone, FreeInv, OneInv
    <2> QED BY <1>10, <2>1, ColumnMoves DEF LoadDone, hw, occ
  <1>11. CASE Expire
    BY <1>11, ColumnKept DEF Expire, args, table, occ, Blanking
  <1>12. CASE DrainCheck
    <2>1. rstate[r] = "FREE"
      BY <1>12 DEF DrainCheck, LockInv, Deploys
    <2> QED BY <1>12, <2>1, ColumnKept DEF DrainCheck, Fail, table, hw, occ, Blanking
  <1>13. CASE DrainPush
    BY <1>13, ColumnKept DEF DrainPush, args, table, Blanking
  <1>14. CASE WdtBlanked
    <2>1. rstate[r] = "FREE"
      BY <1>14 DEF WdtBlanked, Blanked, LockInv, InBlank
    <2> QED BY <1>14, <2>1, ColumnKept DEF WdtBlanked, Blanked, Fail, args, table, hw, occ,
               Blanking
  <1>15. CASE CrcGate
    <2>1. CASE pc' = "blank"
      BY <1>15, <2>1, ColumnKept DEF CrcGate, table, hw, occ, Blanking
    <2>2. CASE pc' # "blank"
      BY <1>15, <2>2, ColumnMoves DEF CrcGate, CallBlank, table, hw, occ
    <2> QED BY <2>1, <2>2
  <1>16. CASE GateBlanked
    <2>1. rstate[r] = "FREE"
      BY <1>16 DEF GateBlanked, Blanked, LockInv, InBlank
    <2> QED BY <1>16, <2>1, ColumnKept DEF GateBlanked, Blanked, Fail, args, table, hw, occ,
               Blanking
  <1>17. CASE Readback
    <2>1. CASE Matches
      BY <1>17, <2>1, ColumnMoves DEF Readback, ReadFrame, table
    <2>2. CASE ~Matches
      BY <1>17, <2>2, ColumnKept DEF Readback, ReadFrame, Fail, table, Blanking
    <2> QED BY <2>1, <2>2
  <1>18. CASE Commit
    <2>1. /\ pc = "commit" /\ r \in Regions /\ rcols'[r] = k
          /\ \A x \in Regions : x # r => rstate'[x] = rstate[x] /\ rcols'[x] = rcols[x]
      BY <1>18 DEF Commit, IInv, HandOK, Deploys, TypeOK, TableOK
    <2>2. pc' = "lock" /\ UNCHANGED <<r, k, fabric>>
      BY <1>18 DEF Commit, args, hw, occ
    <2> QED BY <2>1, <2>2 DEF ColumnInv, Blanking
  <1>19. CASE Lock
    BY <1>19, ColumnKept DEF Lock, args, table, occ, Blanking
  <1>20. CASE CtxSave
    <2>1. \A x \in Regions : rstate'[x] # "FREE" => rstate[x] # "FREE"
      BY <1>20 DEF CtxSave, IInv, TypeOK, TableOK
    <2> QED BY <1>20, <2>1, ColumnKept DEF CtxSave, Fail, occ, Blanking
  <1>21. CASE CtxRestore
    <2>1. \A x \in Regions : rstate'[x] # "FREE" => rstate[x] # "FREE"
      BY <1>21 DEF CtxRestore, IInv, TypeOK, TableOK
    <2> QED BY <1>21, <2>1, ColumnKept DEF CtxRestore, Fail, occ, Blanking
  <1>22. CASE Stop
    BY <1>22, ColumnKept DEF Stop, Fail, CallBlank, table, occ, Blanking
  <1>23. CASE StopBlanked
    <2>1. err = "none"
      BY <1>23 DEF StopBlanked, Blanked, LockInv
    <2> QED BY <1>23, <2>1, ColumnKept DEF StopBlanked, Blanked, args, table, hw, occ,
               Blanking
  <1>24. CASE Stopped
    BY <1>24, ColumnFreed DEF Stopped, hw, occ
  <1>25. CASE Restart
    BY <1>25, ColumnKept DEF Restart, Fail, CallBlank, table, occ, Blanking
  <1>26. CASE RestartBlanked
    <2>1. err = "none"
      BY <1>26 DEF RestartBlanked, Blanked, LockInv
    <2> QED BY <1>26, <2>1, ColumnFreed DEF RestartBlanked, Blanked, hw, occ
  <1>27. CASE Rerun
    BY <1>27, ColumnKept DEF Rerun, Fail, SetState, table, hw, occ, Blanking
  <1>28. CASE Abort
    BY <1>28, ColumnKept DEF Abort, CallBlank, table, occ, Blanking
  <1>29. CASE AbortBlanked
    BY <1>29, ColumnFreed DEF AbortBlanked, Blanked, hw, occ
  <1>30. CASE Heartbeat
    BY <1>30, ColumnKept DEF Heartbeat, table, hw, occ, Blanking
  <1>31. CASE HbRegion
    BY <1>31, ColumnKept DEF HbRegion, Return, table, hw, occ, Blanking
  <1>32. CASE Probe
    BY <1>32, ColumnKept DEF Probe, ReadFrame, CallBlank, table, Blanking
  <1>33. CASE HbBlanked
    BY <1>33, ColumnFreed DEF HbBlanked, Blanked, occ
  <1>34. CASE OccTake
    <2>1. /\ pc \in {"load", "drain", "push"} /\ wr.win = <<r, c>> /\ r \in Regions
          /\ c = FirstCol(r, k) /\ UNCHANGED <<pc, r, k, rstate, rcols>>
      BY <1>34 DEF OccTake, WriteInv, IInv, HandOK, Deploys, FreeInv, OneInv, local,
         args, table
    <2>2. \A rg \in Regions : rg \in Cols
      BY DEF Regions, Cols
    <2>3. \A rg \in Regions : ~Blanking(rg) /\ ~(Blanking(rg)')
      BY <2>1 DEF Blanking
    <2>4. Capture(dec, 1, r)
      BY <1>34, <2>1 DEF OccTake
    <2>5. CASE ~dec.on
      <3>1. UNCHANGED <<dec, fabric>>
        BY <2>4, <2>5 DEF Capture
      <3> QED BY <2>1, <2>3, <3>1 DEF ColumnInv
    <2>6. CASE dec.on
      <3>1. k # 0 /\ dec.col = c /\ c = r /\ dec.by \cup {r} = {r}
        BY <2>1, <2>6 DEF DecodeInv, SeqInv, FirstCol
      <3>2. \/ dec'.on /\ UNCHANGED fabric
            \/ fabric' = [fabric EXCEPT ![r] = r]
        <4>1. dec \in [on : {TRUE}, col : Cols, got : Nat,
                       by : SUBSET (Regions \cup {NoRegion})]
          BY <2>6, ArmedDecoder DEF IInv, TypeOK, HwOK
        <4>2. CASE dec.got + 1 < ColWords[dec.col]
          BY <2>4, <2>6, <4>1, <4>2 DEF Capture
        <4>3. CASE ~(dec.got + 1 < ColWords[dec.col])
          BY <2>4, <2>6, <3>1, <4>3 DEF Capture
        <4> QED BY <4>2, <4>3
      <3>3. \A rg \in Regions : fabric[rg] = rg => fabric'[rg] = rg
        BY <2>2, <3>2 DEF IInv, TypeOK, HwOK
      <3>4. dec'.on \/ fabric'[r] = r
        BY <2>1, <2>2, <3>2 DEF IInv, TypeOK, HwOK
      <3> QED BY <2>1, <2>3, <3>3, <3>4 DEF ColumnInv
    <2> QED BY <2>5, <2>6
  <1>35. CASE HostRing
    BY <1>35, ColumnKept DEF HostRing, local, args, table, hw, occ, Blanking
  <1>36. CASE HostRingBusy
    BY <1>36, ColumnKept DEF HostRingBusy, local, args, table, hw, occ, Blanking
  <1>37. CASE HostPush
    BY <1>37, ColumnKept DEF HostPush, local, args, table, Blanking
  <1>38. CASE HostUnthrottle
    BY <1>38, ColumnKept DEF HostUnthrottle, local, args, table, occ, Blanking
  <1>39. CASE OtherLkm
    BY <1>39, ColumnKept DEF OtherLkm, local, args, table, occ, Blanking
  <1>40. CASE StoreUpset
    BY <1>40, ColumnKept DEF StoreUpset, local, args, table, Blanking
  <1>41. CASE BlankWaits
    BY <1>41, ColumnKept DEF BlankWaits, args, table, hw, occ, Blanking
  <1> QED BY <1>1, <1>2, <1>3, <1>4, <1>5, <1>6, <1>7, <1>8, <1>9, <1>10,
     <1>11, <1>12, <1>13, <1>14, <1>15, <1>16, <1>17, <1>18, <1>19, <1>20,
     <1>21, <1>22, <1>23, <1>24, <1>25, <1>26, <1>27, <1>28, <1>29, <1>30,
     <1>31, <1>32, <1>33, <1>34, <1>35, <1>36, <1>37, <1>38, <1>39, <1>40,
     <1>41 DEF Next, DaemonStep, Surroundings

\* Under the conditions of FreeRegionsAreBlank, with a context engine that does
\* not fail, a host that pauses one region only and packed images that fill their
\* columns, the fabric is frozen exactly while that region is PAUSED (until the
\* BLANK of its stop or abort), no freeze is left behind, and the column of every
\* packed container was last decoded from that container's own stream.
THEOREM FabricIsTrue ==
  ASSUME SoleMaster, PromptHost, NoUpsets, OneColumn, FullFrames, "ctx" \notin Faults,
         NEW p, PausedOnly(p)
  PROVE  Spec => []FabricTruth
  <1> DEFINE J == PauseInv(p) /\ ColumnInv
  <1>1. Init => J
    BY DEF Init, PauseInv, ColumnInv
  <1>2. IInv /\ DeployInv /\ FreeInv /\ DecodeInv /\ J /\ [Next]_vars => J'
    <2>1. IInv /\ DeployInv /\ FreeInv /\ DecodeInv /\ J /\ Next => J'
      BY PauseStep, ColumnStep DEF DeployInv
    <2>2. J /\ UNCHANGED vars => J'
      BY DEF PauseInv, ColumnInv, Blanking, vars
    <2> QED BY <2>1, <2>2
  <1>3. IInv /\ FreeInv /\ J => FabricTruth
    <2> SUFFICES ASSUME IInv, FreeInv, J PROVE FabricTruth
      OBVIOUS
    <2>1. /\ \A rg \in Regions : rstate[rg] = "PAUSED" => frozen \/ Blanking(rg)
          /\ frozen => \E rg \in Regions : rstate[rg] = "PAUSED"
      BY DEF PauseInv
    <2>2. ASSUME NEW rg \in Regions, rstate[rg] # "FREE", rcols[rg] # 0, ~Blanking(rg),
                 NEW cc \in ColsOf(rg, rcols[rg])
          PROVE  fabric[cc] = rg
      <3>1. rcols[rg] = 1
        BY <2>2 DEF IInv, TypeOK, TableOK, FreeInv, OneInv
      <3>2. cc = rg
        BY <3>1 DEF ColsOf, FirstCol, LastCol, Regions
      <3> QED BY <2>2, <3>2 DEF ColumnInv
    <2> QED BY <2>1, <2>2 DEF FabricTruth
  <1> QED BY <1>1, <1>2, <1>3, InvariantHolds, DeployHolds, FreeHolds, DecodeHolds,
         PTL DEF Spec

=============================================================================
