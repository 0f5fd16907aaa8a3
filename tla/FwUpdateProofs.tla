--------------------------- MODULE FwUpdateProofs ---------------------------
(***************************************************************************)
(* The dual-partition update never loses the device: theorems about        *)
(* FwUpdate for payloads of any length, any set of images and every        *)
(* combination of the faults, as long as the host updates the slot that is *)
(* not running (~SameSlot).                                                *)
(***************************************************************************)
EXTENDS FwUpdate, TLAPS

WholeImage(p) == \E im \in Images : p = Whole(im)

Writing  == {"write", "magic", "ver", "crc", "mark", "unmark"}
Updating == {"verify"} \cup Writing

\* What lies staged with a length that passes is one image; its trailer is an
\* image's or an erased one.
StageInv ==
  /\ staged.len = Words => WholeImage(staged.payload)
  /\ WholeImage(staged.crc) \/ staged.crc = Whole(Erased)

\* busy is up exactly while a command runs, and a command runs only after a
\* slot was booted; the slot it writes is the other one.
CommandInv ==
  /\ IF busy THEN booted # None /\ pc # "serve"
             ELSE IF booted = None THEN pc \in {"boot", "try", "halt"}
                                   ELSE pc = "serve"
  /\ doorbell # "nop" => pc = "serve"
  /\ doorbell = "fwupdate" \/ pc = "begin" => staged.slot # booted
  /\ pc \in Updating => slot \in Slots /\ slot # booted /\ staged.len = Words

\* How far the update is: the sum follows the staged words, and is a whole image
\* once it was accepted; the header is complete before the slot is marked.
SumInv ==
  /\ pc = "begin" => sum = <<>> /\ i = 1
  /\ pc = "verify" => sum \in Seq(Images) /\ Len(sum) = i - 1
  /\ pc \in Writing => WholeImage(sum)
  /\ pc \in {"mark", "unmark"} => WholeImage(flash[slot].crc)
  /\ pc = "unmark" => flash[slot].active

\* Slot B as shipped, until its first update is complete: nothing else was ever
\* booted than slot A, and A is the slot to boot.
Shipped ==
  /\ Valid(0) /\ flash[0].active /\ ~flash[1].active
  /\ booted # 1
  /\ pc = "try" => active = 0 /\ attempt = 0

\* A header names a whole image, or the slot is as shipped.  What was booted is
\* valid, and something is.
SlotInv ==
  /\ WholeImage(flash[0].crc)
  /\ WholeImage(flash[1].crc) \/ (flash[1].crc = Whole(Erased) /\ Shipped)
  /\ \E s \in Slots : Valid(s)
  /\ booted # None => Valid(booted)
  /\ \E s \in Slots : flash[s].active

\* The second attempt is made because the first slot is bad.
BootInv ==
  /\ pc # "halt"
  /\ pc = "try" => attempt \in {0, 1} /\ (attempt = 1 => ~Valid(active))

IInv == TypeOK /\ StageInv /\ CommandInv /\ SumInv /\ SlotInv /\ BootInv

-----------------------------------------------------------------------------
USE WordAssumption, ImageAssumption, FlagAssumption

Slot == [payload : Payload, magic : BOOLEAN, ver : Images, crc : Payload,
         active : BOOLEAN]

\* An image fills a payload, and no image reads as erased flash.
LEMMA WholeType ==
  ASSUME NEW im \in Images \cup {Erased} PROVE Whole(im) \in Payload
  BY DEF Whole, Payload

LEMMA WholeNotErased ==
  ASSUME NEW p, WholeImage(p)
  PROVE  p \in Payload /\ p # Whole(Erased) /\ \A j \in 1 .. Words : p[j] \in Images
  <1>1. PICK im \in Images : p = Whole(im)
    BY DEF WholeImage
  <1>2. p[1] = im /\ Whole(Erased)[1] = Erased
    BY <1>1 DEF Whole
  <1> QED
    BY <1>1, <1>2, WholeType DEF Whole

LEMMA EmptySum == <<>> \in Seq(Images) /\ <<>> \in Seq(Images \cup {Erased})
                  /\ Len(<<>>) = 0
  OBVIOUS

LEMMA LongerSum ==
  ASSUME NEW q \in Seq(Images), NEW x \in Images
  PROVE  /\ Append(q, x) \in Seq(Images) /\ Append(q, x) \in Seq(Images \cup {Erased})
         /\ Len(Append(q, x)) = Len(q) + 1
  OBVIOUS

\* A decayed word is not what a header that names an image expects.
LEMMA DecayedInvalid ==
  ASSUME TypeOK, NEW s \in Slots, WholeImage(flash[s].crc), NEW j \in 1 .. Words,
         flash' = [flash EXCEPT ![s].payload[j] = Erased]
  PROVE  ~Valid(s)'
  <1>1. flash'[s].crc = flash[s].crc /\ flash'[s].payload[j] = Erased
    BY DEF TypeOK, Payload
  <1>2. flash[s].crc[j] \in Images
    BY WholeNotErased
  <1> QED
    BY <1>1, <1>2 DEF Valid

\* A header write changes one field of one slot, and none of the payload.
LEMMA HeaderFlash ==
  ASSUME TypeOK, Header, slot \in Slots, 1 - slot \in Slots, slot # 1 - slot,
         sum \in Payload
  PROVE  /\ flash' \in [Slots -> Slot]
         /\ \A s \in Slots : flash'[s].payload = flash[s].payload
         /\ flash'[1 - slot].magic = flash[1 - slot].magic
         /\ flash'[1 - slot].crc = flash[1 - slot].crc
         /\ flash'[slot].crc = IF pc = "crc" THEN sum ELSE flash[slot].crc
         /\ pc = "mark" => flash'[slot].active
         /\ pc # "mark" => flash'[slot].active = flash[slot].active
         /\ pc # "unmark" => flash'[1 - slot].active = flash[1 - slot].active
  <1>1. CASE pc = "magic"
    <2>1. [flash[slot] EXCEPT !.magic = TRUE] \in Slot
      BY DEF TypeOK, Slot
    <2>2. flash' = [flash EXCEPT ![slot] = [flash[slot] EXCEPT !.magic = TRUE]]
      BY <1>1 DEF Header
    <2>3. flash' \in [Slots -> Slot]
      BY <2>1, <2>2 DEF TypeOK, Slot
    <2>4. \A s \in Slots : s # slot => flash'[s] = flash[s]
      BY <2>2 DEF TypeOK
    <2>5. flash'[slot] = [flash[slot] EXCEPT !.magic = TRUE]
      BY <2>2 DEF TypeOK
    <2>6. /\ flash'[slot].payload = flash[slot].payload
          /\ flash'[slot].crc = flash[slot].crc
          /\ flash'[slot].magic = TRUE
          /\ flash'[slot].active = flash[slot].active
      BY <2>5 DEF TypeOK
    <2> QED BY <1>1, <2>3, <2>4, <2>6
  <1>2. CASE pc = "ver"
    <2>1. [flash[slot] EXCEPT !.ver = ver] \in Slot
      BY DEF TypeOK, Slot
    <2>2. flash' = [flash EXCEPT ![slot] = [flash[slot] EXCEPT !.ver = ver]]
      BY <1>2 DEF Header
    <2>3. flash' \in [Slots -> Slot]
      BY <2>1, <2>2 DEF TypeOK, Slot
    <2>4. \A s \in Slots : s # slot => flash'[s] = flash[s]
      BY <2>2 DEF TypeOK
    <2>5. flash'[slot] = [flash[slot] EXCEPT !.ver = ver]
      BY <2>2 DEF TypeOK
    <2>6. /\ flash'[slot].payload = flash[slot].payload
          /\ flash'[slot].crc = flash[slot].crc
          /\ flash'[slot].active = flash[slot].active
      BY <2>5 DEF TypeOK
    <2> QED BY <1>2, <2>3, <2>4, <2>6
  <1>3. CASE pc = "crc"
    <2>1. [flash[slot] EXCEPT !.crc = sum] \in Slot
      BY DEF TypeOK, Slot
    <2>2. flash' = [flash EXCEPT ![slot] = [flash[slot] EXCEPT !.crc = sum]]
      BY <1>3 DEF Header
    <2>3. flash' \in [Slots -> Slot]
      BY <2>1, <2>2 DEF TypeOK, Slot
    <2>4. \A s \in Slots : s # slot => flash'[s] = flash[s]
      BY <2>2 DEF TypeOK
    <2>5. flash'[slot] = [flash[slot] EXCEPT !.crc = sum]
      BY <2>2 DEF TypeOK
    <2>6. /\ flash'[slot].payload = flash[slot].payload
          /\ flash'[slot].crc = sum
          /\ flash'[slot].active = flash[slot].active
      BY <2>5 DEF TypeOK
    <2> QED BY <1>3, <2>3, <2>4, <2>6
  <1>4. CASE pc = "mark"
    <2>1. [flash[slot] EXCEPT !.active = TRUE] \in Slot
      BY DEF TypeOK, Slot
    <2>2. flash' = [flash EXCEPT ![slot] = [flash[slot] EXCEPT !.active = TRUE]]
      BY <1>4 DEF Header
    <2>3. flash' \in [Slots -> Slot]
      BY <2>1, <2>2 DEF TypeOK, Slot
    <2>4. \A s \in Slots : s # slot => flash'[s] = flash[s]
      BY <2>2 DEF TypeOK
    <2>5. flash'[slot] = [flash[slot] EXCEPT !.active = TRUE]
      BY <2>2 DEF TypeOK
    <2>6. /\ flash'[slot].payload = flash[slot].payload
          /\ flash'[slot].crc = flash[slot].crc
          /\ flash'[slot].active = TRUE
          /\ flash'[slot].magic = flash[slot].magic
      BY <2>5 DEF TypeOK
    <2> QED BY <1>4, <2>3, <2>4, <2>6
  <1>5. CASE pc = "unmark"
    <2>1. [flash[1 - slot] EXCEPT !.active = FALSE] \in Slot
      BY DEF TypeOK, Slot
    <2>2. flash' = [flash EXCEPT ![1 - slot] = [flash[1 - slot] EXCEPT !.active = FALSE]]
      BY <1>5 DEF Header
    <2>3. flash' \in [Slots -> Slot]
      BY <2>1, <2>2 DEF TypeOK, Slot
    <2>4. \A s \in Slots : s # 1 - slot => flash'[s] = flash[s]
      BY <2>2 DEF TypeOK
    <2>5. flash'[1 - slot] = [flash[1 - slot] EXCEPT !.active = FALSE]
      BY <2>2 DEF TypeOK
    <2>6. /\ flash'[1 - slot].payload = flash[1 - slot].payload
          /\ flash'[1 - slot].crc = flash[1 - slot].crc
          /\ flash'[1 - slot].active = FALSE
          /\ flash'[1 - slot].magic = flash[1 - slot].magic
      BY <2>5 DEF TypeOK
    <2> QED BY <1>5, <2>3, <2>4, <2>6
  <1> QED BY <1>1, <1>2, <1>3, <1>4, <1>5 DEF Header

\* One step of a spec that keeps the host off the running slot keeps the
\* invariant.
LEMMA IInvStep == ASSUME ~SameSlot, IInv, Next PROVE IInv'
  <1> USE DEF IInv
  <1>1. CASE Pick
    <2>1. TypeOK'
      BY <1>1 DEF Pick, TypeOK, hdr, Slots
    <2>2. StageInv' /\ CommandInv' /\ SumInv'
      BY <1>1 DEF Pick, StageInv, CommandInv, SumInv, hdr, Updating, Writing
    <2>3. SlotInv'
      BY <1>1 DEF Pick, SlotInv, Shipped, Valid, hdr, Slots
    <2>4. BootInv'
      BY <1>1 DEF Pick, BootInv
    <2> QED BY <2>1, <2>2, <2>3, <2>4
  <1>2. CASE Try
    <2>1. TypeOK'
      BY <1>2 DEF Try, TypeOK, hdr, Tried, Slots, BootInv
    <2>2. StageInv' /\ CommandInv' /\ SumInv'
      BY <1>2 DEF Try, StageInv, CommandInv, SumInv, hdr, Updating, Writing, TypeOK,
         Tried, Slots, None, SlotInv, BootInv, Valid
    <2>3. SlotInv'
      BY <1>2 DEF Try, SlotInv, Shipped, Valid, hdr, Tried, TypeOK, Slots
    <2>4. BootInv'
      BY <1>2 DEF Try, BootInv, SlotInv, Valid, Tried, TypeOK, Slots
    <2> QED BY <2>1, <2>2, <2>3, <2>4
  <1>3. CASE Accept
    <2>1. TypeOK'
      <3>1. pc' \in {"begin", "boot", "reject"}
        BY <1>3 DEF Accept
      <3>2. sum' \in Seq(Images \cup {Erased})
        BY <1>3, EmptySum DEF Accept
      <3>3. /\ doorbell' = "nop" /\ err' = "none" /\ busy' = TRUE /\ done' = FALSE
            /\ slot' = None /\ i' = 1
        BY <1>3 DEF Accept
      <3>4. i' \in 1 .. Words + 1
        BY <3>3
      <3>5. UNCHANGED <<flash, staged, ver, attempt, active, booted>>
        BY <1>3 DEF Accept
      <3> QED
        BY <3>1, <3>2, <3>3, <3>4, <3>5 DEF TypeOK, None
    <2>2. StageInv' /\ SumInv'
      BY <1>3 DEF Accept, StageInv, SumInv, Writing
    <2>4. CommandInv'
      <3>1. booted # None
        BY <1>3 DEF Accept, CommandInv
      <3>2. pc' \in {"begin", "boot", "reject"} /\ (pc' = "begin" => doorbell = "fwupdate")
        BY <1>3 DEF Accept
      <3> QED
        BY <1>3, <3>1, <3>2 DEF Accept, CommandInv, Updating, Writing
    <2>3. SlotInv' /\ BootInv'
      BY <1>3 DEF Accept, SlotInv, Shipped, Valid, BootInv
    <2> QED BY <2>1, <2>2, <2>3, <2>4
  <1>4. CASE Reject
    <2>1. TypeOK'
      BY <1>4 DEF Reject, Fail, TypeOK
    <2>2. StageInv' /\ CommandInv' /\ SumInv'
      BY <1>4 DEF Reject, Fail, StageInv, CommandInv, SumInv, Updating, Writing
    <2>3. SlotInv' /\ BootInv'
      BY <1>4 DEF Reject, Fail, SlotInv, Shipped, Valid, BootInv
    <2> QED BY <2>1, <2>2, <2>3
  <1>5. CASE Begin
    <2>1. TypeOK'
      BY <1>5 DEF Begin, Fail, TypeOK
    <2>2. StageInv' /\ CommandInv' /\ SumInv'
      <3>1. StageInv'
        BY <1>5 DEF Begin, StageInv
      <3>2. CommandInv'
        BY <1>5 DEF Begin, Fail, CommandInv, Updating, Writing, TypeOK, Slots, None
      <3>3. SumInv'
        <4>1. sum' \in Seq(Images) /\ Len(sum') = i' - 1
          <5>1. sum = <<>> /\ i = 1
            BY <1>5 DEF Begin, SumInv
          <5>2. sum' = sum /\ i' = i
            BY <1>5 DEF Begin
          <5> QED BY <5>1, <5>2, EmptySum
        <4>2. pc' \in {"verify", "finish"}
          BY <1>5 DEF Begin, Fail
        <4> QED
          BY <4>1, <4>2 DEF SumInv, Writing
      <3> QED BY <3>1, <3>2, <3>3
    <2>3. SlotInv' /\ BootInv'
      BY <1>5 DEF Begin, Fail, SlotInv, Shipped, Valid, BootInv
    <2> QED BY <2>1, <2>2, <2>3
  <1>6. CASE Verify
    <2>a. WholeImage(staged.payload)
      BY <1>6 DEF Verify, CommandInv, StageInv, Updating
    <2>b. i <= Words => staged.payload[i] \in Images
      BY <2>a, WholeNotErased DEF TypeOK
    <2>c. sum \in Seq(Images) /\ Len(sum) = i - 1
      BY <1>6 DEF Verify, SumInv
    <2>d. i > Words /\ sum = staged.crc => WholeImage(sum)
      <3> SUFFICES ASSUME i > Words, sum = Whole(Erased) PROVE FALSE
        BY DEF StageInv
      <3>1. 1 \in 1 .. Len(sum) /\ sum[1] \in Images
        BY <2>c DEF TypeOK
      <3> QED
        BY <3>1 DEF Whole
    <2>1. TypeOK'
      <3>1. sum' \in Seq(Images \cup {Erased}) /\ i' \in 1 .. Words + 1
        <4>1. CASE i <= Words
          BY <1>6, <4>1, <2>b, <2>c, LongerSum DEF Verify, TypeOK
        <4>2. CASE i > Words
          BY <1>6, <4>2 DEF Verify, TypeOK
        <4> QED BY <4>1, <4>2 DEF TypeOK
      <3> QED
        BY <1>6, <3>1 DEF Verify, Fail, TypeOK
    <2>2. StageInv' /\ CommandInv'
      BY <1>6 DEF Verify, Fail, StageInv, CommandInv, Updating, Writing
    <2>3. SumInv'
      <3>1. CASE i <= Words
        <4>1. sum' \in Seq(Images) /\ Len(sum') = i' - 1
          BY <1>6, <3>1, <2>b, <2>c, LongerSum DEF Verify, TypeOK
        <4> QED
          BY <1>6, <3>1, <4>1 DEF Verify, SumInv, Writing
      <3>2. CASE i > Words
        BY <1>6, <3>2, <2>d DEF Verify, Fail, SumInv, Writing, TypeOK
      <3> QED BY <3>1, <3>2 DEF TypeOK
    <2>4. SlotInv' /\ BootInv'
      BY <1>6 DEF Verify, Fail, SlotInv, Shipped, Valid, BootInv
    <2> QED BY <2>1, <2>2, <2>3, <2>4
  <1>7. CASE Write
    <2>a. slot \in Slots /\ slot # booted /\ WholeImage(staged.payload)
      BY <1>7 DEF Write, CommandInv, StageInv, Updating, Writing
    <2>b. i <= Words => staged.payload[i] \in Images
      BY <2>a, WholeNotErased DEF TypeOK
    <2>c. /\ DOMAIN flash' = Slots
          /\ \A s \in Slots : /\ flash'[s].magic = flash[s].magic
                              /\ flash'[s].ver = flash[s].ver
                              /\ flash'[s].crc = flash[s].crc
                              /\ flash'[s].active = flash[s].active
                              /\ s # slot => flash'[s] = flash[s]
      BY <1>7, <2>a DEF Write, TypeOK
    <2>1. TypeOK'
      <3>1. flash' \in [Slots -> Slot]
        <4>1. CASE i <= Words
          <5>1. [flash[slot].payload EXCEPT ![i] = staged.payload[i]] \in Payload
            BY <2>a, <2>b, <4>1 DEF TypeOK, Payload
          <5>2. [flash[slot] EXCEPT !.payload = [@ EXCEPT ![i] = staged.payload[i]]]
                  \in Slot
            BY <5>1, <2>a DEF TypeOK, Slot
          <5>3. flash' = [flash EXCEPT ![slot] = [flash[slot] EXCEPT !.payload =
                            [@ EXCEPT ![i] = staged.payload[i]]]]
            BY <1>7, <4>1 DEF Write
          <5> QED
            BY <5>2, <5>3, <2>a DEF TypeOK, Slot
        <4>2. CASE i > Words
          BY <1>7, <4>2 DEF Write, TypeOK, Slot
        <4> QED BY <4>1, <4>2 DEF TypeOK
      <3>2. i' \in 1 .. Words + 1 /\ pc' \in {"write", "magic"}
        BY <1>7 DEF Write, TypeOK
      <3>3. UNCHANGED <<staged, doorbell, err, busy, done, slot, ver, sum, attempt,
                        active, booted>>
        BY <1>7 DEF Write, hdr
      <3> QED
        BY <3>1, <3>2, <3>3 DEF TypeOK, Slot
    <2>2. StageInv' /\ CommandInv'
      BY <1>7 DEF Write, hdr, StageInv, CommandInv, Updating, Writing
    <2>3. SumInv' /\ BootInv'
      BY <1>7 DEF Write, hdr, SumInv, BootInv, Writing
    <2>4. SlotInv'
      <3>1. \A s \in Slots : s # slot => (Valid(s)' <=> Valid(s))
        BY <2>c DEF Valid
      <3>2. UNCHANGED booted /\ booted # None /\ booted \in Slots /\ pc' # "try"
        BY <1>7 DEF Write, CommandInv, TypeOK, Slots, None, hdr
      <3> QED
        BY <3>1, <3>2, <2>a, <2>c DEF SlotInv, Shipped, Slots, None
    <2> QED BY <2>1, <2>2, <2>3, <2>4
  <1>8. CASE Header
    <2>a. /\ slot \in Slots /\ 1 - slot \in Slots /\ slot # booted
          /\ booted \in Slots /\ booted = 1 - slot /\ UNCHANGED booted
          /\ pc \in {"magic", "ver", "crc", "mark", "unmark"} /\ busy
          /\ pc' \in {"ver", "crc", "mark", "unmark", "boot"}
      BY <1>8 DEF Header, CommandInv, TypeOK, Slots, None, Updating, Writing
    <2>b. WholeImage(sum) /\ sum \in Payload
      BY <2>a, WholeNotErased DEF SumInv, Writing
    <2>c. /\ flash' \in [Slots -> Slot]
          /\ \A s \in Slots : flash'[s].payload = flash[s].payload
          /\ flash'[booted].magic = flash[booted].magic
          /\ flash'[booted].crc = flash[booted].crc
          /\ flash'[slot].crc = IF pc = "crc" THEN sum ELSE flash[slot].crc
          /\ pc = "mark" => flash'[slot].active
          /\ pc # "mark" => flash'[slot].active = flash[slot].active
          /\ pc # "unmark" => flash'[booted].active = flash[booted].active
      BY <1>8, <2>a, <2>b, HeaderFlash
    <2>1. TypeOK'
      <3>1. flash' \in [Slots -> Slot]
        BY <2>c
      <3>2. UNCHANGED <<staged, doorbell, err, busy, done, slot, ver, sum, i, attempt,
                        active, booted>>
        BY <1>8 DEF Header, hdr
      <3> QED
        BY <3>1, <3>2, <2>a DEF TypeOK, Slot
    <2>2. StageInv' /\ CommandInv'
      BY <1>8, <2>a DEF Header, hdr, StageInv, CommandInv, Updating, Writing
    <2>3. SumInv'
      BY <1>8, <2>a, <2>b, <2>c DEF Header, SumInv, Writing
    <2>4. BootInv'
      BY <2>a DEF BootInv
    <2>5. SlotInv'
      <3>1. Valid(booted) /\ Valid(booted)'
        BY <2>a, <2>c DEF Valid, SlotInv, None, Slots
      <3>2. WholeImage(flash'[0].crc)
        BY <2>a, <2>b, <2>c DEF SlotInv, Slots
      <3>3. \E s \in Slots : flash'[s].active
        <4>1. CASE pc = "unmark"
          BY <4>1, <2>a, <2>c DEF SumInv
        <4>2. CASE pc # "unmark"
          <5>1. PICK s \in Slots : flash[s].active
            BY DEF SlotInv
          <5>2. s = slot \/ s = booted
            BY <2>a DEF Slots
          <5> QED
            BY <4>2, <5>1, <5>2, <2>a, <2>c
        <4> QED BY <4>1, <4>2
      <3>4. WholeImage(flash'[1].crc) \/ (flash'[1].crc = Whole(Erased) /\ Shipped')
        <4>1. CASE WholeImage(flash[1].crc)
          BY <4>1, <2>a, <2>b, <2>c DEF Slots
        <4>2. CASE flash[1].crc = Whole(Erased) /\ Shipped /\ ~WholeImage(flash[1].crc)
          <5>1. slot = 1 /\ booted = 0
            BY <4>2, <2>a DEF Shipped, Slots
          <5>2. pc \notin {"mark", "unmark"}
            BY <4>2, <5>1 DEF SumInv
          <5>3. flash'[0].active /\ ~flash'[1].active
            BY <4>2, <5>1, <5>2, <2>c DEF Shipped
          <5>4. flash'[1].crc = Whole(Erased) \/ WholeImage(flash'[1].crc)
            BY <4>2, <5>1, <2>b, <2>c
          <5> QED
            BY <3>1, <5>1, <5>3, <5>4, <2>a DEF Shipped
        <4> QED BY <4>1, <4>2 DEF SlotInv
      <3> QED
        BY <3>1, <3>2, <3>3, <3>4, <2>a DEF SlotInv
    <2> QED BY <2>1, <2>2, <2>3, <2>4, <2>5
  <1>9. CASE Finish
    <2>1. TypeOK'
      BY <1>9 DEF Finish, TypeOK
    <2>2. StageInv' /\ CommandInv'
      BY <1>9 DEF Finish, StageInv, CommandInv, Updating, Writing
    <2>3. SumInv' /\ BootInv'
      BY <1>9 DEF Finish, SumInv, BootInv, Writing
    <2>4. SlotInv'
      BY <1>9 DEF Finish, SlotInv, Shipped, Valid
    <2> QED BY <2>1, <2>2, <2>3, <2>4
  <1>10. CASE HostStage
    <2>a. pc \notin Updating \cup {"begin"}
      BY <1>10 DEF HostStage, CommandInv, Updating, Writing
    <2>b. /\ staged' \in [payload : Payload, crc : Payload, len : {Words, 0}, ver : Images,
                          slot : {0, 1, None}]
          /\ WholeImage(staged'.payload)
          /\ WholeImage(staged'.crc) \/ staged'.crc = Whole(Erased)
      <3>a. PICK im \in Images, s \in {0, 1, None} :
              \/ staged' = Good(im, s)
              \/ staged' = [Good(im, 1) EXCEPT !.crc = Whole(Erased)]
              \/ staged' = [Good(im, 1) EXCEPT !.len = 0]
        BY <1>10 DEF HostStage, Stages, Slots, None
      <3>b. Whole(im) \in Payload /\ Whole(Erased) \in Payload /\ WholeImage(Whole(im))
        BY WholeType DEF WholeImage
      <3>1. CASE staged' = Good(im, s)
        BY <3>1, <3>b DEF Good
      <3>2. CASE staged' = [Good(im, 1) EXCEPT !.crc = Whole(Erased)]
        BY <3>2, <3>b DEF Good
      <3>3. CASE staged' = [Good(im, 1) EXCEPT !.len = 0]
        BY <3>3, <3>b DEF Good
      <3> QED BY <3>a, <3>1, <3>2, <3>3
    <2>1. TypeOK'
      BY <1>10, <2>b DEF HostStage, TypeOK
    <2>2. StageInv'
      BY <2>b DEF StageInv
    <2>3. CommandInv'
      BY <1>10, <2>a DEF HostStage, CommandInv
    <2>4. SumInv' /\ BootInv'
      BY <1>10 DEF HostStage, SumInv, BootInv, Writing, Valid
    <2>5. SlotInv'
      BY <1>10 DEF HostStage, SlotInv, Shipped, Valid
    <2> QED BY <2>1, <2>2, <2>3, <2>4, <2>5
  <1>11. CASE HostRestage
    <2>a. PICK im \in Images : staged' = [staged EXCEPT !.payload = Whole(im),
                                                         !.crc = Whole(im)]
      BY <1>11 DEF HostRestage
    <2>b. /\ staged'.len = staged.len /\ staged'.slot = staged.slot
          /\ staged'.payload = Whole(im) /\ staged'.crc = Whole(im)
          /\ staged' \in [payload : Payload, crc : Payload, len : {Words, 0}, ver : Images,
                          slot : {0, 1, None}]
      BY <2>a, WholeType DEF TypeOK
    <2>1. TypeOK'
      BY <1>11, <2>b DEF HostRestage, TypeOK
    <2>2. StageInv'
      BY <2>b DEF StageInv, WholeImage
    <2>3. CommandInv'
      BY <1>11, <2>b DEF HostRestage, CommandInv
    <2>4. SumInv' /\ BootInv'
      BY <1>11 DEF HostRestage, SumInv, BootInv, Writing, Valid
    <2>5. SlotInv'
      BY <1>11 DEF HostRestage, SlotInv, Shipped, Valid
    <2> QED BY <2>1, <2>2, <2>3, <2>4, <2>5
  <1>12. CASE HostRing
    <2>1. TypeOK'
      BY <1>12 DEF HostRing, TypeOK
    <2>2. StageInv' /\ CommandInv'
      BY <1>12 DEF HostRing, StageInv, CommandInv
    <2>3. SumInv' /\ BootInv'
      BY <1>12 DEF HostRing, SumInv, BootInv, Writing, Valid
    <2>4. SlotInv'
      BY <1>12 DEF HostRing, SlotInv, Shipped, Valid
    <2> QED BY <2>1, <2>2, <2>3, <2>4
  <1>13. CASE Crash
    <2>a. /\ staged' \in [payload : Payload, crc : Payload, len : {Words, 0}, ver : Images,
                          slot : {0, 1, None}]
          /\ staged'.len = 0 /\ staged'.crc = Whole(Erased)
      BY <1>13, WholeType DEF Crash, NothingStaged, None
    <2>b. sum' \in Seq(Images \cup {Erased}) /\ i' \in 1 .. Words + 1
      BY <1>13, EmptySum DEF Crash
    <2>c. /\ pc' = "boot" /\ doorbell' = "nop" /\ err' = "none" /\ busy' = FALSE
          /\ done' = FALSE /\ slot' = None /\ booted' = None
      BY <1>13 DEF Crash
    <2>d. UNCHANGED <<flash, ver, attempt, active>>
      BY <1>13 DEF Crash
    <2>1. TypeOK'
      BY <2>a, <2>b, <2>c, <2>d DEF TypeOK, None
    <2>2. StageInv'
      BY <2>a DEF StageInv
    <2>3. CommandInv'
      BY <2>c DEF CommandInv, Updating, Writing
    <2>4. SumInv' /\ BootInv'
      BY <2>c DEF SumInv, BootInv, Writing
    <2>5. SlotInv'
      BY <2>c, <2>d DEF SlotInv, Shipped, Valid, None
    <2> QED BY <2>1, <2>2, <2>3, <2>4, <2>5
  <1>14. CASE Corrupt
    <2>a. PICK j \in 1 .. Words : flash' = [flash EXCEPT ![1 - booted].payload[j] = Erased]
      BY <1>14 DEF Corrupt
    <2>b. booted \in Slots /\ 1 - booted \in Slots /\ 1 - booted # booted
      BY <1>14 DEF Corrupt, TypeOK, Slots, None
    <2>c. UNCHANGED <<staged, doorbell, err, busy, done, pc, slot, ver, sum, i, attempt,
                      active, booted>>
      BY <1>14 DEF Corrupt, hdr
    <2>d. /\ DOMAIN flash' = Slots
          /\ \A s \in Slots : /\ flash'[s].magic = flash[s].magic
                              /\ flash'[s].ver = flash[s].ver
                              /\ flash'[s].crc = flash[s].crc
                              /\ flash'[s].active = flash[s].active
          /\ flash'[booted] = flash[booted]
      BY <2>a, <2>b DEF TypeOK
    <2>1. TypeOK'
      <3>1. flash' \in [Slots -> Slot]
        <4>1. [flash[1 - booted].payload EXCEPT ![j] = Erased] \in Payload
          BY <2>b DEF TypeOK, Payload
        <4>2. [flash[1 - booted] EXCEPT !.payload = [@ EXCEPT ![j] = Erased]] \in Slot
          BY <4>1, <2>b DEF TypeOK, Slot
        <4> QED
          BY <4>2, <2>a, <2>b DEF TypeOK, Slot
      <3> QED
        BY <3>1, <2>c DEF TypeOK, Slot
    <2>2. StageInv' /\ CommandInv'
      BY <2>c DEF StageInv, CommandInv
    <2>3. SumInv'
      BY <2>c, <2>d DEF SumInv, CommandInv, Updating, Writing
    <2>4. Valid(booted) /\ Valid(booted)'
      BY <2>b, <2>c, <2>d DEF SlotInv, Valid, None, Slots
    <2>5. SlotInv'
      BY <2>b, <2>c, <2>d, <2>4 DEF SlotInv, Shipped, Slots
    <2>6. BootInv'
      <3> SUFFICES ASSUME pc = "try", attempt = 1 PROVE ~Valid(active)'
        BY <2>c DEF BootInv
      <3>1. active = 1 - booted
        BY <2>b, <2>4 DEF BootInv, TypeOK, Slots
      <3>2. WholeImage(flash[active].crc)
        BY DEF SlotInv, Shipped, TypeOK, Slots
      <3> QED
        BY <3>1, <3>2, <2>a, <2>b, <2>c, DecayedInvalid
    <2> QED BY <2>1, <2>2, <2>3, <2>5, <2>6
  <1> QED BY <1>1, <1>2, <1>3, <1>4, <1>5, <1>6, <1>7, <1>8, <1>9, <1>10, <1>11,
     <1>12, <1>13, <1>14 DEF Next, Firmware

LEMMA IInvInit == ASSUME Init PROVE IInv
  <1>1. PICK v \in Images : flash = [s \in Slots |->
          IF s = 0 THEN [payload |-> Whole(v), magic |-> TRUE, ver |-> v,
                         crc |-> Whole(v), active |-> TRUE]
                   ELSE [payload |-> Whole(Erased), magic |-> FALSE, ver |-> v,
                         crc |-> Whole(Erased), active |-> FALSE]]
    BY DEF Init
  <1>2. flash \in [Slots -> Slot]
    BY <1>1, WholeType DEF Slot
  <1>3. /\ staged \in [payload : Payload, crc : Payload, len : {Words, 0}, ver : Images,
                       slot : {0, 1, None}]
        /\ staged.len = 0 /\ staged.crc = Whole(Erased)
    BY WholeType DEF Init, NothingStaged, None
  <1>4. sum \in Seq(Images \cup {Erased}) /\ i \in 1 .. Words + 1
    BY EmptySum DEF Init
  <1>5. TypeOK
    <2>1. attempt \in 0 .. 2 /\ active \in Slots
      BY DEF Init, Slots
    <2>2. /\ doorbell = "nop" /\ err = "none" /\ busy = FALSE /\ done = FALSE
          /\ pc = "boot" /\ slot = None /\ ver \in Images /\ booted = None
      BY DEF Init
    <2> QED
      BY <1>2, <1>3, <1>4, <2>1, <2>2 DEF TypeOK, Slot, None
  <1>6. StageInv
    BY <1>3 DEF StageInv
  <1>7. CommandInv /\ SumInv /\ BootInv
    BY DEF Init, CommandInv, SumInv, BootInv, Updating, Writing, None
  <1>8. SlotInv
    BY <1>1 DEF Init, SlotInv, Shipped, Valid, WholeImage, Slots, None
  <1> QED BY <1>5, <1>6, <1>7, <1>8 DEF IInv

LEMMA IInvStutter == ASSUME IInv, UNCHANGED vars PROVE IInv'
  BY DEF vars, IInv, TypeOK, StageInv, CommandInv, SumInv, SlotInv, Shipped, BootInv,
     Valid

LEMMA IInvAlways == ASSUME ~SameSlot PROVE Spec => []IInv
  <1>1. Init => IInv
    BY IInvInit
  <1>2. IInv /\ [Next]_vars => IInv'
    BY IInvStep, IInvStutter
  <1> QED BY <1>1, <1>2, PTL DEF Spec

-----------------------------------------------------------------------------
\* The update of the slot that is not running never leaves the device without a
\* slot to boot (fwupdate_boot's halt) nor without an active flag, whatever is
\* staged, wherever the power fails and whichever words of the other slot decay.
THEOREM NeverHaltsAlways == ASSUME ~SameSlot PROVE Spec => []NeverHalts
  <1>1. IInv => NeverHalts
    BY DEF IInv, NeverHalts, BootInv, SlotInv, Slots
  <1> QED BY <1>1, IInvAlways, PTL

\* What the stub boots is one image whole: the payload matches a checksum that
\* do_fwupdate computed over one image, or that slot A was shipped with.
THEOREM BootsWhole == ASSUME ~SameSlot PROVE Spec => BootsWholeImage
  <1>1. ASSUME IInv, [Next]_vars, pc = "try", pc' \in {"serve", "finish"}
        PROVE  \E im \in Images : flash[booted'].payload = Whole(im)
    <2>1. Try
      <3>1. pc' # pc /\ pc' # "boot"
        BY <1>1
      <3>2. ~(HostStage \/ HostRestage \/ HostRing \/ Crash \/ Corrupt \/ UNCHANGED vars)
        BY <3>1 DEF HostStage, HostRestage, HostRing, Crash, Corrupt, vars
      <3>3. Firmware
        BY <1>1, <3>2 DEF Next
      <3> QED
        BY <1>1, <3>3 DEF Firmware, Pick, Accept, Reject, Begin, Verify, Write, Header,
           Finish
    <2>3. booted' = Tried /\ Valid(Tried)
      BY <1>1, <2>1 DEF Try
    <2>4. Tried \in Slots
      BY <1>1 DEF IInv, TypeOK, Tried, Slots
    <2>2. WholeImage(flash[Tried].crc)
      BY <1>1, <2>4 DEF IInv, SlotInv, Shipped, Tried, Slots, TypeOK
    <2> QED
      BY <2>2, <2>3 DEF Valid, WholeImage
  <1>2. IInv /\ [Next]_vars =>
          [(pc = "try" /\ pc' \in {"serve", "finish"}) =>
             \E im \in Images : flash[booted'].payload = Whole(im)]_vars
    BY <1>1
  <1> QED BY <1>2, IInvAlways, PTL DEF Spec, BootsWholeImage
=============================================================================
