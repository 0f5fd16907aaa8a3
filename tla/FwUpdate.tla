------------------------------ MODULE FwUpdate ------------------------------
(***************************************************************************)
(* The dual-partition firmware update (bmc-fw/fwupdate): a boot stub that  *)
(* picks a slot, verifies and runs it, and a server that writes a staged   *)
(* image into a slot, word by word, and boots into it.  Power may fail     *)
(* between any two accesses to the flash; the flash and nothing else       *)
(* survives.  Every access to the staging registers is a step too: the     *)
(* words are read once to be verified and a second time to be written.     *)
(*                                                                         *)
(* A word of image i is i; the CRC32 of a payload is abstracted by the     *)
(* payload itself (no collisions).                                         *)
(***************************************************************************)
EXTENDS Naturals, Sequences, FiniteSets

CONSTANTS
  Images,       \* firmware images the host may stage
  Erased,       \* a flash word no image has
  Words,        \* FW_PAYLOAD_WORDS
  Faults,       \* of "crash", "restage" (the host stages while busy), "corrupt"
  SameSlot      \* the host may update the slot that was booted

Slots   == {0, 1}                     \* A, B
Payload == [1 .. Words -> Images \cup {Erased}]
Whole(i) == [j \in 1 .. Words |-> i]

ASSUME WordAssumption  == Words \in Nat \ {0}
ASSUME ImageAssumption == Erased \notin Images /\ Images # {}
ASSUME FlagAssumption  == SameSlot \in BOOLEAN

VARIABLES
  flash,        \* [slot -> payload, magic, ver, crc, active]
  staged,       \* IMG_SIG, IMG_DIGEST[0], EFP_IMG_WORDS, EFP_IMG_COLS, EFP_REGION
  doorbell,     \* EFP_CMD
  err, busy, done,
  pc,
  slot, ver,    \* locals of do_fwupdate, read at its start
  sum,          \* the payload words verified so far
  i,            \* next word
  attempt, active,
  booted        \* the slot whose payload was run last (the event ring tells the host)

hdr  == <<staged, doorbell, err, busy, done>>
vars == <<flash, staged, doorbell, err, busy, done, pc, slot, ver, sum, i,
          attempt, active, booted>>

None == 2

-----------------------------------------------------------------------------
(* fwupdate_boot.                                                          *)

\* mutant: the CRC of the slot is not checked
ValidMagicOnly(s) == flash[s].magic

\* slot_payload_crc against the header.
Valid(s) == flash[s].magic /\ flash[s].payload = flash[s].crc

\* Exactly B flagged boots B; both or neither boot A.
Pick ==
  /\ pc = "boot"
  /\ active' = IF flash[1].active /\ ~flash[0].active THEN 1 ELSE 0
  /\ attempt' = 0 /\ pc' = "try"
  /\ UNCHANGED <<flash, hdr, slot, ver, sum, i, booted>>

Tried == IF attempt = 0 THEN active ELSE 1 - active

\* mutant: no fallback
TryOnce ==
  /\ pc = "try"
  /\ IF Valid(Tried) THEN booted' = Tried /\ pc' = IF busy THEN "finish" ELSE "serve"
                     ELSE pc' = "halt" /\ UNCHANGED booted
  /\ UNCHANGED <<flash, hdr, slot, ver, sum, i, attempt, active>>

\* A good slot runs and returns; a bad one falls back to the other, then halts.
Try ==
  /\ pc = "try"
  /\ \/ /\ Valid(Tried)
        /\ booted' = Tried
        /\ pc' = IF busy THEN "finish" ELSE "serve"
        /\ UNCHANGED attempt
     \/ /\ ~Valid(Tried)
        /\ attempt' = attempt + 1
        /\ pc' = IF attempt = 0 THEN "try" ELSE "halt"
        /\ UNCHANGED booted
  /\ UNCHANGED <<flash, hdr, slot, ver, sum, i, active>>

-----------------------------------------------------------------------------
(* fwupdate_server and do_fwupdate.                                        *)

Accept ==
  /\ pc = "serve" /\ doorbell # "nop"
  /\ doorbell' = "nop" /\ err' = "none" /\ busy' = TRUE /\ done' = FALSE
  /\ pc' = CASE doorbell = "fwupdate" -> "begin"
             [] doorbell = "reboot"   -> "boot"
             [] OTHER                 -> "reject"
  /\ slot' = None /\ sum' = <<>> /\ i' = 1
  /\ UNCHANGED <<flash, staged, ver, attempt, active, booted>>

Fail(e) == err' = e /\ pc' = "finish"

Reject == /\ pc = "reject" /\ Fail("bad_cmd")
          /\ UNCHANGED <<flash, staged, doorbell, busy, done, slot, ver, sum, i,
                         attempt, active, booted>>

Begin ==
  /\ pc = "begin"
  /\ IF staged.slot = None \/ staged.len # Words
     THEN Fail("bad_cmd") /\ UNCHANGED <<slot, ver, sum, i>>
     ELSE /\ slot' = staged.slot /\ ver' = staged.ver
          /\ pc' = "verify" /\ UNCHANGED <<sum, i, err>>
  /\ UNCHANGED <<flash, staged, doorbell, busy, done, attempt, active, booted>>

\* One staged word enters the CRC, then the sum meets the trailer.
Verify ==
  /\ pc = "verify"
  /\ IF i <= Words
     THEN /\ sum' = Append(sum, staged.payload[i]) /\ i' = i + 1
          /\ UNCHANGED <<pc, err>>
     ELSE /\ IF sum = staged.crc THEN pc' = "write" /\ UNCHANGED err
                                 ELSE Fail("fwupdate")
          /\ i' = 1 /\ UNCHANGED sum
  /\ UNCHANGED <<flash, staged, doorbell, busy, done, slot, ver, attempt,
                 active, booted>>

\* Each staged word is read again and written.
Write ==
  /\ pc = "write"
  /\ IF i <= Words
     THEN /\ flash' = [flash EXCEPT ![slot].payload[i] = staged.payload[i]]
          /\ i' = i + 1 /\ UNCHANGED pc
     ELSE pc' = "magic" /\ UNCHANGED <<flash, i>>
  /\ UNCHANGED <<hdr, slot, ver, sum, attempt, active, booted>>

\* The header words in order (the length, which nobody reads back, is left out);
\* the target's flag is set before the other's is cleared.
Header ==
  /\ \/ pc = "magic"  /\ flash' = [flash EXCEPT ![slot].magic = TRUE] /\ pc' = "ver"
     \/ pc = "ver"    /\ flash' = [flash EXCEPT ![slot].ver = ver]    /\ pc' = "crc"
     \/ pc = "crc"    /\ flash' = [flash EXCEPT ![slot].crc = sum]    /\ pc' = "mark"
     \/ pc = "mark"   /\ flash' = [flash EXCEPT ![slot].active = TRUE]
                      /\ pc' = "unmark"
     \/ pc = "unmark" /\ flash' = [flash EXCEPT ![1 - slot].active = FALSE]
                      /\ pc' = "boot"
  /\ UNCHANGED <<hdr, slot, ver, sum, i, attempt, active, booted>>

Finish ==
  /\ pc = "finish"
  /\ done' = TRUE /\ busy' = FALSE /\ pc' = "serve"
  /\ UNCHANGED <<flash, staged, doorbell, err, slot, ver, sum, i, attempt,
                 active, booted>>

Firmware == Pick \/ Try \/ Accept \/ Reject \/ Begin \/ Verify \/ Write
            \/ Header \/ Finish

-----------------------------------------------------------------------------
(* The host, and what befalls the flash.                                   *)

\* What a host stages: an image with its own trailer or, by mistake, another's,
\* a wrong length or a slot that does not exist.
Good(a, s) == [payload |-> Whole(a), crc |-> Whole(a), len |-> Words, ver |-> a,
               slot |-> s]
Stages == {Good(a, s) : a \in Images, s \in Slots}
          \cup {[Good(a, 1) EXCEPT !.crc = Whole(Erased)] : a \in Images}
          \cup {[Good(a, 1) EXCEPT !.len = 0] : a \in Images}
          \cup {Good(a, None) : a \in Images}

HostStage ==
  /\ ~busy /\ doorbell = "nop"
  /\ staged' \in Stages
  /\ UNCHANGED <<flash, doorbell, err, busy, done, pc, slot, ver, sum, i,
                 attempt, active, booted>>

\* A host that stages the next image while the command runs.
HostRestage ==
  /\ "restage" \in Faults /\ busy
  /\ \E a \in Images : staged' = [staged EXCEPT !.payload = Whole(a), !.crc = Whole(a)]
  /\ UNCHANGED <<flash, doorbell, err, busy, done, pc, slot, ver, sum, i,
                 attempt, active, booted>>

HostRing ==
  /\ ~busy /\ doorbell = "nop" /\ booted # None
  /\ doorbell' \in {"fwupdate", "reboot", "other"}
  /\ SameSlot \/ doorbell' # "fwupdate" \/ staged.slot # booted
  /\ UNCHANGED <<flash, staged, err, busy, done, pc, slot, ver, sum, i, attempt,
                 active, booted>>

NothingStaged == [payload |-> Whole(Erased), crc |-> Whole(Erased), len |-> 0,
                  ver |-> CHOOSE v \in Images : TRUE, slot |-> None]

\* Power fails: only the flash survives.
Crash ==
  /\ "crash" \in Faults /\ pc # "halt"
  /\ pc' = "boot"
  /\ staged' = NothingStaged /\ doorbell' = "nop"
  /\ err' = "none" /\ busy' = FALSE /\ done' = FALSE
  /\ slot' = None /\ sum' = <<>> /\ i' = 1 /\ booted' = None
  /\ UNCHANGED <<flash, ver, attempt, active>>

\* A word of the slot that was not booted goes bad.
Corrupt ==
  /\ "corrupt" \in Faults /\ booted # None
  /\ \E j \in 1 .. Words : flash' = [flash EXCEPT ![1 - booted].payload[j] = Erased]
  /\ UNCHANGED <<hdr, pc, slot, ver, sum, i, attempt, active, booted>>

-----------------------------------------------------------------------------
\* Slot A ships with an image, slot B is empty.
Init ==
  /\ \E v \in Images : flash = [s \in Slots |->
       IF s = 0 THEN [payload |-> Whole(v), magic |-> TRUE, ver |-> v,
                      crc |-> Whole(v), active |-> TRUE]
                ELSE [payload |-> Whole(Erased), magic |-> FALSE, ver |-> v,
                      crc |-> Whole(Erased), active |-> FALSE]]
  /\ staged = NothingStaged /\ doorbell = "nop"
  /\ err = "none" /\ busy = FALSE /\ done = FALSE
  /\ pc = "boot" /\ slot = None /\ ver \in Images /\ sum = <<>> /\ i = 1
  /\ attempt = 0 /\ active = 0 /\ booted = None

Next == Firmware \/ HostStage \/ HostRestage \/ HostRing \/ Crash \/ Corrupt

Spec == Init /\ [][Next]_vars

-----------------------------------------------------------------------------
(* Properties.                                                             *)

\* The locals index the two slots and the payload's words.
TypeOK ==
  /\ flash \in [Slots -> [payload : Payload, magic : BOOLEAN, ver : Images,
                          crc : Payload, active : BOOLEAN]]
  /\ staged \in [payload : Payload, crc : Payload, len : {Words, 0}, ver : Images,
                 slot : {0, 1, None}]
  /\ doorbell \in {"nop", "fwupdate", "reboot", "other"}
  /\ err \in {"none", "bad_cmd", "fwupdate"} /\ busy \in BOOLEAN /\ done \in BOOLEAN
  /\ pc \in {"boot", "try", "serve", "halt", "begin", "reject", "verify", "write",
             "magic", "ver", "crc", "mark", "unmark", "finish"}
  /\ slot \in {0, 1, None} /\ ver \in Images
  /\ sum \in Seq(Images \cup {Erased}) /\ i \in 1 .. Words + 1
  /\ attempt \in 0 .. 2 /\ active \in Slots /\ booted \in {0, 1, None}

\* The stub never runs a torn image: whatever write the power failed in, and
\* whatever the host staged meanwhile, a payload that runs is one image whole.
BootsWholeImage ==
  [][(pc = "try" /\ pc' \in {"serve", "finish"}) =>
       \E im \in Images : flash[booted'].payload = Whole(im)]_vars

\* The update of the slot that was not booted never leaves the device without
\* a slot to boot, wherever the power fails, and one is always marked active:
\* the stub's "neither" case, which would boot A whatever was updated last, is
\* never needed.
NeverHalts == TypeOK /\ pc # "halt" /\ (flash[0].active \/ flash[1].active)

=============================================================================
