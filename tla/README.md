# Verification of the Ethereal platform

TLA+ models, TLC runs and TLAPS proofs for the Ethereal (Astral) platform: an
FPGA overlay fabric onto which logic images are deployed the way containers
are, through a register interface (EMRI), an on-chip configuration controller
(OCC) and a firmware daemon on a management CPU (BMC); the host tools that pack,
publish and deploy those images; and the harness that decides whether the
platform's RISC-V core is right. Paths below are relative to `src/`.

## 1. The system

### Parts, state and interaction

```
 host tools (efp_client.py) --AXI / EFP-SPI--> emri_axi_adapter --+
                                                                  v
 BMC CPU: daemon.c, fwupdate.c, script.c --------AXI-------> emri_regfile
                                                              |      | event ring,
                              OCC_CMD, OCC_WDATA (skid), LKM  v      v anomaly monitor
                                                            occ_top --frame bus--> columns
                                                                    frame_decoder -> fabric

 ethimg.py, capcheck.py --.eth--> oci_registry.py (push, pull) --.eth--> ethctl.py --> efp_client.py

 build_corpus.py, build_rom.py --images--> run_difftest.py --trace--> rv_difftest.py <-- rv_spike.py
 build_linux_boot.py --images, manifest--> run_linux_boot.py --------------^
```

| Part | State it keeps | Operations | What is hard about it |
| --- | --- | --- | --- |
| OCC, `ethereal-fabric/rtl/occ/occ_top.sv` | FSM, latched frame, index, streaming CRC, a dirty bit per window | WRITE, BLANK, READBACK | host-paced words, gates evaluated once at accept, CRC shared by all commands |
| OCC front end, `ethereal-shell/rtl/emri/emri_regfile.sv` | command latch, one-word skid, lock matrix, sticky completion | OCC_CMD, OCC_WDATA, LKM_CMD, stalls of the one host port | several masters, one port; refusals; stale completions |
| Event ring and monitor, same file | ring and two 16-bit pointers; counters, baselines, window, flags, owed entries | push, pop, clear, notify, W1C, window and threshold writes | two producers and one push port, wrap, saturation, W1C racing a spike |
| AXI adapter, `emri_axi_adapter.sv` | one transaction | read, write | serialisation, stalled accesses |
| Daemon, `ethereal-runtime/bmc-fw/daemon/daemon.c` | region table, recorded CRCs, last image, EFP registers | run, run_packed, stop, restart, abort, ctx_save, ctx_restore, heartbeat, watchdog | every step interleaves with the host's stream and other masters; partial failure of multi-step commands; timeouts |
| Firmware update, `bmc-fw/fwupdate/fwupdate.c` | two flash slots | boot with fallback, update, reboot | power failure between flash writes; staging read twice |
| EFP-SPI link, `bmc-fw/efp-spi/efp_spi.c` | frame assembler, response pipeline, session CRC | byte service, drain, resync | lost bytes, misalignment, retries |
| Script interpreter, `bmc-fw/script/script.c` | script cursor | bytecode of daemon commands | bounds, failure half way |
| Context engine, `ctx_engine_wrap.sv`, `occ/ctx_scan.sv` | freeze bit, scan position | save, restore | one freeze for the whole fabric |
| Frame decoder, `frame_decoder.sv` | column buffer, walk position | decode a column | order-based capture |
| mFSM, `mfsm/*.sv` | session state, latched terminal, rx counters | begin_rx, verify, occ_go, abort | one-cycle status pulses |
| Host sessions, `ethereal-tools/tools/efp_client.py`, `ethctl.py` | operation list, staging registers, the OCC of an mFSM | run, run_packed, stop, restart, abort, ps, host-driven deploy | polling of a status other commands leave behind; refused WRITEs; timeouts that leave the daemon waiting |
| Images, `ethimg.py`, `ethereal-runtime/security/capcheck.py` | manifest, digests, signature, capabilities | pack, verify, load | what is checked by whom |
| Artifact store, `oci_registry.py` | blobs, index, tags, temporary files | push, pull, inspect | several processes and no lock; crashes; lost answers |
| DiffTest, `ethereal-shell/verif/eth_rv/rv_*.py` | two commit streams | normalise, cut, inject, compare | four forms of one commit; what MATCH means |
| RTL runner, `verif/eth_rv_core/run_difftest.py` and the image builders | corpus, model, traces, time stamps | build, run, compare | stale products, shared work directory |
| Linux boot, `build_linux_boot.py`, `run_linux_boot.py` | image directory, manifest, memory image | build, check, boot, firmware DiffTest | killed builders, caches, a tree and an initramfs that must agree |
| AXI crossbar, DMA, mailbox, PLIC, RISC-V core, fabric tiles | - | - | the data plane; see section 7 |

Components interact through registers only. The daemon and the host are both
masters of the EMRI; the host stages an image, rings `EFP_CMD`, streams words
into `OCC_WDATA` when it sees `LOAD`, and polls `EFP_STATUS`. The daemon drives
the OCC and the lock matrix through the same port. The monitor pushes into the
ring beside the bus. The verification tools interact through files: each is one
process, and what they share is a directory.

### What correctness means here

* OCC: the CRC describes the store; a READBACK's verdict is exact; a closed lock
  keeps a region's words; a clean window is blank; a completion belongs to the
  command polled; a command ends.
* Daemon: what runs is its own image, in its own columns, locked; what is FREE
  is blank and open; the fabric is frozen exactly while something is paused;
  status and events tell the truth; every command ends; corruption is found.
* Ring and monitor: the ring is a FIFO; no owed anomaly is lost; a rate above the
  threshold ends in an announced throttle.
* Firmware update: no torn image runs and there is always one to run.
* Host tools: what the operator is told happened on the device, and a failed
  command does not make the next one fail.
* Artifact store: what is pulled was pushed there, and is verified; an interrupted
  push is invisible.
* DiffTest and its runners: exit 0 means that this RTL does what Spike does, exit 1
  that it does not, and neither is about a stale file.

`PROJECT.json` lists the hazards behind these statements, at their lines.

## 2. Modules

| Module | Models | Step |
| --- | --- | --- |
| `OccTop` | `occ_top.sv` and the OCC front end of `emri_regfile.sv` | one clock: `OccClk /\ RegClk /\ Master` |
| `Daemon` | `daemon.c`, every handler, with the hardware as the daemon sees it | the daemon from one point of interference to the next; one word of a stream; one act of a master or a fault |
| `EmriLog` | `emri_axi_adapter.sv`, the ring and the monitor of `emri_regfile.sv` | one clock: `Adapter /\ Ring /\ Monitor` |
| `EvtFifo` | what the ring promises (abstract) | one push, pop or clear |
| `FwUpdate` | `fwupdate.c` | one flash or staging access |
| `EthImage` | `ethimg.py`, `capcheck.py` (operators) | |
| `EfpClient` | the sessions and `EfpDaemonModel` of `efp_client.py` (operators) | |
| `EthCtl` | `ethctl.py` and `execute_ops`, on `EfpClient` | one register access of the host, one step of the device |
| `OciRegistry` | `oci_registry.py`, on `EthImage` | one file operation or request of one process |
| `RvTrace` | commits, trace text, Spike logs, injection, per-commit checks (operators) | |
| `Difftest` | `rv_difftest.py`, on `RvTrace` | golden, DUT, one commit |
| `RvImage` | ELF and hex loaders, memory window, BootROM (operators) | |
| `RtlRun` | `run_difftest.py`, `build_corpus.py`, on `RvTrace` and `RvImage` | one stage of one runner, one edit |
| `LinuxBoot` | `build_linux_boot.py`, `run_linux_boot.py`, on `RvTrace` | one file operation or stage of one process, one edit, one kill |
| `MCOccTop`, `MCDaemon`, `MCEmriLog`, `MCFwUpdate`, `MCEthCtl`, `MCOciRegistry`, `MCDifftest`, `MCRtlRun`, `MCLinuxBoot` | instances for TLC | |
| `OccTopProofs`, `DaemonProofs`, `DaemonFabricProofs`, `EmriLogProofs`, `FwUpdateProofs`, `OciRegistryProofs`, `RtlRunProofs`, `LinuxBootProofs` | theorems | |

Definitions with a comment `mutant:` (in the host and harness modules also named
`Bug_...`) are deliberately wrong variants of the definition that follows; they are used only to show that a property notices.

### OccTop

Registers keep their RTL names without `_r`. `OccClk` has one action per arc of
the FSM (`Hold`, `Accept`, `WriteWord`, `Starve`, `BlankWord`, `StoreDone`,
`ReadWord`, `ReadDone`, `Compare`); `RegClk` has one conjunct per always_ff block
of the front end. All blocks read the state before the edge, as the RTL does.
Writes of FRAME_ADDR, WORD_COUNT and EXPECT_CRC travel with the start that uses
them. A frame word is abstract; the CRC32 is the sequence of words it consumed
(no collisions). `granted` is a history variable: the regions whose lock was
open at the last accept.

### Daemon

`pc` is the point the handler has reached; `r`, `c`, `n`, `k` are the region,
column, words and columns in hand (`k = 0` is the legacy column-less flow). A
BLANK or READBACK streams by itself and is one step: `OccTop` shows that it
completes, when it is refused and what its CRC means. A WRITE is host-paced, so
each word is a host push into the skid and an OCC take out of it. The four
helpers that BLANK a region share `BlankColumn` with `ret` as the return point.
`store` is the configuration memory, `fabric` what the decoder last drove into a
column, `frozen` the context engine's freeze. `dec` is the frame decoder between an
`OCC_DECODE` write and the `column_data_words` words (`ColWords`) it then takes from
the frame bus (`Capture`): words of any stream, BLANK zeros included, and a column of
several streams is `Mixed`. While it is armed the daemon's next `OCC_DECODE` write is
not accepted (`DecoderReady`; `emri_regfile.sv:1047`), so `BlankColumn` and `Arm` wait,
after the status has been published (`BlankWaits`). A BLANK or WRITE that is refused
leaves it armed. Word `i` of an image is the number
`i`, so a misplaced, missing or surplus word is visible. The verification of the
Ed25519 signature and the capability comparison are Booleans of the image.
`Faults` selects what the surroundings may do; the module's header lists them.

### EmriLog

`Host(op)` is the decode of the one access the adapter drives in this clock.
`Log` is the refinement mapping: the entries between the pointers. Widths are
parameters (`PtrMod`, `MaxCount`, `TickMod`).

### FwUpdate

A slot's payload, magic, version, CRC and active flag are separate words and
separate steps; a crash keeps the flash and nothing else. `booted` is the slot
whose payload ran last. The `slot_change` event is not modelled again here (the
ring is `EmriLog`'s). The host updates the slot it is not running unless
`SameSlot`.

### EthImage, EfpClient, EthCtl

An image is a record of its members, the manifest's digest table and the
signature; SHA-256 is a tagged copy of its input. A session is a sequence of
operations (`Write`, `Check`, `PollState`, `Stream`, ...), built as `EfpSession` builds
it; `EthCtl` executes the head, one access a step. `d` is `EfpDaemonModel`: `Accept`
is its doorbell, `Tick` its state machine, `Push` the OCC_WDATA port. With `link =
"model"` the daemon advances only when a poll retries, as in process; with `link =
"wire"` it advances on its own and the doorbell waits in `bell` until it is picked
up, as over a bus. `occ` is the OCC an mFSM host drives itself: the stub of
`ethctl.py` in process, the RTL's gates and skid over a bus. `surplus` remembers that a
word of an earlier command was waiting in the skid when a session began, `raw` that
some session skipped the blank on a dirty or locked window. A poll times out when
nothing the device does on its own can make it match (`Quiet`): the code's 10000
retries are longer than any of the daemon's own work. The signature check of the
daemon and that of the tool are two different operators because they differ.

### OciRegistry

`fs` maps a path to its content and to the processes that hold it open, so that an
open truncates, a write fills, a rename moves the inode with its handles, and a
process may die anywhere in between (`Crash`). A registry is the same map, with
blobs and tags put in one request each, an answer that may be lost and a 202
without effect. `raced`, `shared`, `deferred` record the circumstances in which the
code gives no guarantee; `published` and `delivered` what was reported.

### RvTrace, Difftest

`RvTrace` is the data: a commit record with its constructor's checks, its text form
and parser, Spike's log lines and their normalisation, the corruption of one field,
and the comparison of two commits. A conversion returns a set, empty where the code
raises. `Difftest` is `main`: a job names a program, what the core did, the producer's
form, the command line and the tools installed: Spike needs `dtc` for every ELF, with
or without `--dtb` (`rv_spike.py:77`, `:455`). The properties compare the verdict with the effects
themselves, past all conversions. The Python model of the instruction set appears
by what it retires and where it halts.

### RvImage, RtlRun

Images are bytes at addresses: ELF segments, the hex fixture, the window the
testbench preloads, the BootROM with its patched words. `RtlRun` has one action per
stage of `main` for each of two runners. `rom.hex` and a program's `mem.hex` are files
of the work directory (`romhex`, `memhex`): truncated (`Prepare`, `OpenImage`), written
(`WriteRom`, `WriteImage`) and read when the testbench starts (`StartTb`), each in a
step of its own; a testbench that loaded somebody else's image, or half of one, may do
whatever the core does with some program (`Behaviours`). Runs
without `--rom` are not modelled. A time stamp is a tick of `clock`. `want` is
the RTL version the runner saw when it judged its model; `disturbed` records a
second runner at the same program, one that uses `rom.hex` with another ROM or while it
is being written, or an edit while a model compiled, `moved` an
ELF that changed between the run and its golden stream or that was refused.

### LinuxBoot

`fs` holds the image directory. An image is truncated and then filled (`Opened`,
`CloseFile`); a killed process leaves what it had. The manifest is the record of what
the builder read back. Time stamps are reduced to what is asked of them: whether
`s4.mem.hex` is newer than its inputs (`memFresh`), whether a model is newer than its
sources. Sizes and addresses of the initramfs, the tree's slot and the kernel are
small numbers. `clean` is a process that no builder disturbed. The run prints "does not match Spike"
for every non-zero status of the comparator (`run_linux_boot.py:563`); the model's
verdict is `mismatch` when the comparator found one and `failed` when it did not get that
far (a missing tool, an unreadable dump, a kill), and the printed line is the same.

## 3. Runs

| Run | Shows |
| --- | --- |
| `occ_raw` | masters that issue anything at any clock: `ReadbackVerdict`, `CleanIsBlank`, `LockGate` |
| `occ_polite` | masters that poll and stream what they armed: `NoStaleCompletion`, `CommandCompletes` |
| `daemon_deploy` | all commands on two regions with starvation, transport CRC failure and throttling: `RegionIntact`, `FreeIsBlank`, `LockedWhileRunning`, `FabricTruth` (frozen while paused, each column decoded from its owner), `NoSurplusWord`, `SelfSequenced` (the decoder is idle at every `OCC_DECODE` write) |
| `daemon_masters` | other lock masters, a late host, a failing context engine: `StatusTruth` |
| `daemon_live` | `CommandCompletes` and `HeartbeatFinds` with a two-column container, a second one, upsets of both and eager doorbells; both allow for `Stalled` |
| `emri_log` | the ring refines `EvtFifo` (`RingIsFifo`); `ThrottleLogged`, `DeltaNeverWraps`; `SpikeThrottles` under a running clock |
| `fwupdate` | power failure at every access, decay of the idle slot, restaging during the update: `BootsWholeImage`, `NeverHalts` |
| `ethctl` | four commands in a row on a BMC or an mFSM, in process or over a bus: `RunTruth`, `StopTruth` (reports are true), `NotWedged`, `SessionEnds` (nothing is left hanging but in the cases named) |
| `oci` | two processes on a layout or a registry with crashes, rot, lost answers and foreign entries: `DeliveredTruth` (verified, and from the repository asked), `TagClosed`, `StoreIntact`, `PushThenPull` |
| `difftest` | every program, core fault, trace form and option of the instance: `MatchSound`, `AlarmTruth`, `CapturedSame`, `InjectCaught` |
| `rtlrun` | two runners and an edit of the RTL, the window or a program: `PassTruth`, `FailTruth`, `LoadedRight`, `RunsEnd` |
| `linuxboot` | two processes, an edit and a kill on an empty or a booted directory: `BuildTruth`, `TreeMatchesInitrd`, `BootTruth`, `DiffTruth` |

`TypeOK` of `OccTop` and `Daemon` is only proved (section 4); in the other modules it is
a conjunct of one invariant of the run: `DeltaNeverWraps` and `NeverHalts` (proved as
well), `BuildTruth` (likewise), `NotWedged`, `StoreIntact`, `CapturedSame`, `LoadedRight`.

### Bounds

* `OccTop`: three addresses, a two-word window and a one-word one, one non-zero
  word. Frames are whole windows in `occ_raw` (the daemon always programs whole
  windows); an empty frame is included in `occ_polite`, where both regions also
  share one lock bit as regions 8..15 alias 0..7.
* `Daemon`: the real two regions and two columns, frames of up to two words: long
  enough for a starved frame to be partly written and for a surplus word. Column 0
  decodes two words and column 1 one (`MCWideCols`), and packed images fill their
  columns; in `daemon_live` columns take one word and two words may be upset, so that
  one region can be quarantined while another still runs.
* `EmriLog`: a ring of two with pointers modulo four, so that overflow and
  pointer wrap both happen; counters saturate at two, so that a region can spike
  twice and then saturate; a tick of three clocks, as long as one bus
  transaction. The tick stamp has one value in this instance: the run tells whose
  entry is lost, and the theorem `ThrottleIsLogged` which of two stamps it carries.
* `FwUpdate`: two images, two payload words.
* `EthCtl`: two regions, images of one and two words, windows of two, either window;
  signed, foreign-signed, unsigned, over-privileged and torn images, one without the
  target's frames and one with empty ones. Four commands: enough
  for a deploy, a command that leaves something behind, one that meets it and one
  after that.
* `OciRegistry`: two clients and three commands (two with foreign entries or rot
  in a layout), two repositories that share a tag, so that pushes meet on a blob,
  on the index and on a tag.
* `Difftest`: programs of at most four effects that hold each kind of commit, cores
  with any one effect wrong, missing or doubled.
* `RtlRun`: two programs, two modes, two RTL versions, one edit; a window of 48
  bytes in which images touch, overlap and leave gaps. Two requests run one program
  with and without `--dtb`, so that their memory images differ, and their ROMs may.
* `LinuxBoot`: two processes, of which only the pairs in `Beside` overlap (a builder
  with a builder, a boot or a check, two boots: each pair that meets on an image or
  on `s4.mem.hex`; other pairs repeat the same accesses), one edit, one kill. A second init makes the initramfs cover the tree's
  slot, a second busybox does not fit at all.

The runs `ethctl`, `oci`, `difftest`, `rtlrun` and `linuxboot` may stop, so deadlock is not
checked: their commands are a bounded number. Nor is it in `daemon_live`, where the daemon
may hang at an `OCC_DECODE` write (`Stalled`) while the host owes nothing. In `ethctl` and `rtlrun` a
liveness property says that a started command ends; in `linuxboot` a builder that hangs
until `build_images` kills it is an action, and that a command ends is not checked.

### Fairness

* `OccTop`: the clock runs, and a master that armed a WRITE keeps pushing: the
  host tools stream the whole frame, and the daemon drains with zeros in place of
  a host that stops (`daemon.c:220`).
* `Daemon`: the daemon loop and the OCC keep stepping. Nothing is assumed of the
  host, which is what the watchdog is for.
* `EmriLog`: the clock runs. Nothing is assumed of the masters.
* `EthCtl`: the tool keeps executing its list and the device keeps ticking.
* `RtlRun`: a process that was started is scheduled, and a testbench
  that neither passes nor fails is ended by the 1800 s of `run`
  (`run_difftest.py:263`).

### Where the properties stop holding

The passing runs fix the surroundings each property needs. Widening them
shows the following, all found with these models (change the `Faults` or the
`Doorbells` of the run named):

* `LockGate` with frames that cross a region boundary: only the start address meets
  the gate and the frame writes into a locked region (`occ_top.sv:408`, against
  `emri-v0.md:557`).
* `CommandCompletes` with `"late"`: a host word that arrives between the drain's
  `done_flag` sample and its push leaves the push stalled for ever (`daemon.c:229`,
  against `emri-v0.md:384`).
* `CommandCompletes` and `HeartbeatFinds` without `Stalled`: the quarantine of a packed
  container arms the decoder (`daemon.c:365`), and then its BLANK meets the region's own
  lock and is refused. The next `OCC_DECODE` write, that of a packed deploy, a restart or
  a second quarantine, holds the bus for words that only a later stream could bring,
  and the daemon is the one that waits. TLC finds it in `daemon_live`, and
  `SelfSequenced` fails in `daemon_deploy` with `"upset"`. The registers are described as
  "self-sequencing": the write "stalls until the previous decode completes"
  (`emri_regfile.sv:864`), as if it always did. A stream refused because another master
  locked the region ends in the same way, and so does a packed image with fewer words
  than `column_data_words` of its column, which the daemon does not compare: its BLANK
  and its WRITE are shorter than the decode, and the first words of one end up in the
  column of the other (`Mixed`). The instances use whole columns, and `Stalled` asks for
  a FREE region that is locked, so only the quarantine is exempted.
* A quarantined region is not blank: the heartbeat's BLANK meets the region's own
  lock, is refused, its result is dropped, and the corrupt configuration stays in a
  region marked FREE (`daemon.c:1064`, against `emri-v0.md:411`).
* A doorbell rung between the squelch check and `busy=0` is executed, not ignored
  (`daemon.c:1222`, against `emri-v0.md:231`).
* A read of `EVT_LOG_DATA` in the clock of a monitor push returns the oldest entry and
  does not remove it (`emri_regfile.sv:645`, against `emri-v0.md:345`).
* `FreeIsBlank` with `"upset"`: a deploy whose READBACK fails leaves the region
  FREE and configured (`daemon.c:584`); with a two-column image and `"starve"`,
  the watchdog blanks the starved column only (`daemon.c:268`, `emri-v0.md:391`).
  The next deploy blanks before it writes, so no image is corrupted by it.
* `LockedWhileRunning` with `"global"`: stop unlocks before a BLANK that the global
  lock refuses, and a RUNNING region stays unlocked (`daemon.c:790`).
  `RegionIntact` fails in the same way for two columns.
* Abort does not clear every lock: a quarantined region is FREE and locked, and
  abort skips FREE regions (`daemon.c:985`, `emri-v0.md:582`).
* `FabricTruth` with `"ctx"`, or with two regions paused: abort ignores a failed
  release, and the fabric has one freeze bit (`daemon.c:983`, `daemon.c:966`,
  `emri-v0.md:533`, `emri-v0.md:546`).
* `NoSurplusWord` with `"late"` (`daemon.c:225`).
* `FabricTruth` with a two-column image in region 0 and a packed image for region
  1: `daemon.c:652` bounds the columns by the fabric, not by the neighbours; the
  specification assumes one column per region slot (`emri-v0.md:84`).
* `CleanIsBlank` with frames shorter than a window: a BLANK of part of it clears
  the window's dirty bit (`occ_top.sv:392`, against the comment at 218).
* `ThrottleLogged` when the host releases a throttle bit without its flag: the
  next spike throttles silently (`emri_regfile.sv:822`). A saturated counter has no
  delta left and the monitor is blind to its region.
* A negative control passes without an injected fault if the dump ends just where the
  fault was to be: the truncation is reported at that index (`run_difftest.py:1009`,
  against `run_difftest.py:27`). `PassTruth` allows for it.
* `NeverHalts` with `SameSlot = TRUE`: nothing in `do_fwupdate` refuses the slot
  that is running.

Host tools. The properties name these as their exemptions:

* `StopTruth`: a stop or abort whose awaited state the previous command left behind
  is reported before the daemon saw it (`efp_client.py:462`); its doorbell may then
  overwrite one that is pending.
* `NotWedged`: a packed deploy over a bus that misses the `done_flag` pulse between
  two columns (`efp_client.py:523`), or a restart with a shorter `.eth`
  (`efp_client.py:556`), leaves the daemon waiting in LOAD. A restart streams any
  image under the digest verified last.
* `SessionEnds`, `NotWedged`, `RunTruth`: a deploy with `blank_first=False` onto a dirty or
  locked window is refused before its first word. Over a bus a push behind it stalls
  (`ethctl.py:497`), or its one word stays in the skid (`emri_regfile.sv:1045`); the next
  deploy, to whichever window, takes that word first and is reported as a success with
  the wrong contents. `NotWedged` says that nothing else leaves a word there, and
  `RunTruth` that a deploy that starts without one is right. A second NEEDS_BLANK is
  returned as a success.
* `StoreIntact`, `PushThenPull`: two pushes share `.tmp` names and the
  index has no lock (`oci_registry.py:362`, `:389`, `:475`), against the docstring at
  `:328`; a torn blob is never rewritten (`:359`). A first push killed between
  `oci-layout` and `index.json` leaves a layout that cannot be loaded (`:462`).
* `DeliveredTruth`: an entry of another tool without a repository shadows every
  repository's tag (`:405`). Two pulls to one destination share one `.part` (`:1032`).
  `TagClosed`: 202 counts as stored (`:601`, `:624`).

DiffTest and its runners:

* `MatchSound`: a stream without memory fields, or without FP state, narrows the
  comparison, the register class included; a contiguous lane mask of the wrong
  width is not seen. Two empty streams match.
* `AlarmTruth`: the Python model runs until `tohost` is not zero, the golden stream
  ends at the first store to it (`rv_model.py:217`). `InjectCaught`: `value` on a commit
  that writes no register does nothing; a refused injection is an uncaught
  `ValueError`, whose exit status is the one of a divergence.
* `PassTruth`: an edit while the model compiles is never noticed
  (`run_difftest.py:643`); a corpus ELF is not rebuilt when its source changes
  (`:279`); two runners share one work directory (`:728`). `LoadedRight` and the verdicts:
  two runs of one program write one `mem.hex` (`:727`, `:374`), and all of them one
  `rom.hex` (`:941`), truncating it first; a testbench started meanwhile loads the
  other's image, or a part of one. `FailTruth`: the
  comparator's exit 2 counts as a mismatch (`:830`), and an image error is a
  traceback with exit 1. `LoadedRight`: `elf_to_hex` drops the bytes of an incomplete word,
  and the zero lines of an overlapping segment.
* `BuildTruth`: `--check` says nothing of a torn BootROM or `fw_jump.elf`
  (`build_linux_boot.py:461`). An interrupted clone leaves a directory that only
  `--refresh` repairs (`:174`). The initramfs is only kept above the kernel's start
  address, so a large one covers the tree's slot (`:332`).
* `TreeMatchesInitrd` asks of the tree only when the BootROM is that of the manifest's
  build. Without that condition it fails with three processes, the requests `Build` and
  `Boot1`, no overlap, two edits and a kill: `initrd_start` is documented as "the DT's own
  `linux,initrd-start`" (`run_linux_boot.py:131`) and reads the manifest, and the guard
  of `build_memory_image` against a tree and an image that "would disagree" (`:146`)
  adds the manifest's start and the length of the initramfs. A build for another init that
  is killed after the BootROM, and one for the first init that stops after the
  initramfs, leave an initramfs that fits the old manifest and a tree that does not.
* `DiffTruth` says that the streams are equal where `fw_jump.bin` and `fw_jump.elf` are of
  one build. Of two builds, it speaks of cycle, address, register and value: a
  byte lane that only one side reports is not compared.
* `BootTruth`: a torn or older `s4.mem.hex` with a later time stamp is reused for ever
  (`run_linux_boot.py:175`); the model finds it when an interrupted or concurrent
  build is allowed between. `DiffTruth`: a prefix of any length passes, zero commits
  included (`:528`), and "does not match Spike" is printed of a comparator that failed by
  itself, too (`:563`): `DiffTruth` speaks of the verdict `mismatch`, not of that line. A
  console mismatch does not change the exit status (`:694`), and
  neither does a Spike that ends before the marker; a silent Spike is
  waited for without end (`:228`).
* The help of `--stop-trap-cause` (`run_linux_boot.py:606`) says "the first trap whose
  cause is not this one"; the testbench halts when the cause is this one
  (`tb_eth_rv_core.sv:1676`).

Read in the code and not modelled: `occ_check` reports a sticky CRC error before a
lock refusal (`daemon.c:320`); a lock refusal pushes no event (`daemon.c:330`,
`emri-v0.md:564`); `slot_change` events carry a boot count where `emri-v0.md:353`
and `fwupdate.h:51` say the version (`fwupdate.c:146`).

## 4. Proofs

TLAPS checks every theorem to the last leaf, for all values of the constants
that satisfy the modules' named assumptions.

### OccTopProofs

| Theorem | Invariant it rests on |
| --- | --- |
| `OccTypeCorrect` | `TypeOK` is inductive; the index needs `idx <= count_r` |
| `CrcAlwaysDescribesStore` | the CRC and the store advance together; needs that a frame is shorter than the address space, so that `At(addr, .)` is injective on it |
| `ReadbackVerdictExact` | `VerdictInv`: once a command has left the command latch, the frame in flight is the one programmed, and the completion of a finished READBACK is the comparison it made; `CrcDescribesStore` turns that into a statement about the store |
| `LockGateHolds` | `GateInv`: the frame a store command runs is one that was programmed and the region of its first word is in `granted`. Assumes frames inside one region (`SingleRegionFrames`); section 3 shows that it is needed |
| `CleanAlwaysBlank` | `BlankInv`: a live word in a clean window is one a BLANK in flight has yet to reach, and the words behind its index are zero. Assumes whole-window frames (`FullWindowFrames`) |
| `CompletionNeverStale` | `PoliteInv`: a held or running command was started by a master that saw the port idle, and its start cleared the sticky flags. Assumes masters that wait for their command (`Polite`); a master that starts a command over another reads the other's `done_flag` |

### DaemonProofs

`IInv` strengthens `TypeOK` with what the handler's locals mean at each `pc`:
`HandOK` (the region in hand exists and the columns in hand are its columns),
`StageOK` (a deploy has words and fits the fabric, and nobody stages another image
while busy), `StreamOK` (a drain push has budget left, an armed WRITE words to come).
It is proved once (`IInvStep`, one case per action) and the other theorems build
on it.

| Theorem | Assumes | Added invariant |
| --- | --- | --- |
| `TypeCorrect` | - | `IInv` |
| `StatusTruthful` | - | `StatusInv`: the status is truthful at every step, because a BLANK has replaced it before a region is taken away |
| `RunningIsLocked` | no other lock master (`SoleMaster`) | `LockInv`: a deploy works on a FREE region, and the BLANK of stop and restart finds the lock just opened |
| `NoWordIsLeftOver` | a host that does not resume during the drain (`PromptHost`) | `WriteInv`: a WRITE is in flight only in LOAD and the drain, the skid is empty once it is complete, and the drain's budget covers what is missing |
| `RunningIsIntact` | both | `LoadInv`, `ColumnsInv`: in LOAD the CRC, the frame and the host agree on how far the stream is; the columns before it are loaded and recorded |

The two assumptions are the ones section 3 shows to be necessary. `RunningIsIntact`
rests on `DeployHolds`, which the next module uses too.

### DaemonFabricProofs

What the daemon leaves behind. All three theorems assume `SoleMaster` and `PromptHost`, images
of at most one column (`OneColumn`, the layout of `emri-v0.md:84`) and no upset words
(`NoUpsets`); section 3 has a counterexample for each one dropped. What they say of the
decoder also needs packed images that fill their columns (`FullFrames`).

| Theorem | Assumes also | Added invariant |
| --- | --- | --- |
| `FreeRegionsAreBlank` | - | `FreeInv`: a live word lies in the frame of a container or of the deploy in hand (`LiveInv`); a FREE region is unlocked and every BLANK finds its lock open, so none is refused and the watchdog's always cleans up (`OpenInv`); the frame in hand is the region's own column (`OneInv`); after a BLANK nothing is left (`EmptyInv`) |
| `DeploysSelfSequence` (`SelfSequenced`) | `FullFrames` | `DecodeInv`: frames in hand and in the table fill their columns (`FullInv`); the decoder is armed only between the acceptance of a packed deploy's WRITE and its last word, for that column, and has got exactly the words the WRITE has taken (`SeqInv`) |
| `FabricIsTrue` | `FullFrames`, no failing context engine, one region that is ever paused (`PausedOnly(p)`) | `PauseInv(p)`: the freeze bit is set exactly while `p` is paused; `ColumnInv`: once the decoder is idle again, the column of the packed deploy in hand carries its stream, and so does that of every packed container |

### EmriLogProofs

`RingInv` is `TypeOK` with two facts: the request on the host port is one a master made,
and a snapshot is never above its counter. Lemmas about remainders (`ModUnique`, `ModMult`
and those built on them) show that the pointer arithmetic counts entries correctly
through a wrap of the pointers.

| Theorem | Assumes | Argument |
| --- | --- | --- |
| `DeltaNeverWrapsAlways` | - | `RingInv`: counters saturate and never decrease but by a clear that takes the snapshot along |
| `RingImplementsFifo` | - | the entries between the pointers (`Log`) after each kind of clock: a push appends and, when full, drops the oldest; a pop drops the oldest; a clear empties; everything else stutters |
| `ThrottleIsLogged` | a tick of two clocks per region (`SlowTick`: the RTL has 4096 for two, `emri_pkg.sv:114`), releases that clear the region's flags too (`ReleasesWhole`, section 3) | `DrainInv`: what is owed fits in the rest of the tick, because the bus blocks the monitor at most every other clock; `FlagInv`: a region with a flag up is throttled |

### FwUpdateProofs

`NeverHaltsAlways` and `BootsWhole` assume that the host updates the slot that is not
running (`~SameSlot`, section 3). They hold for payloads of any length, any images and a
power failure, a corrupted word of the idle slot or a restaging at any step. `IInv` says
how far an update is (`SumInv`: the sum follows the staged words, and is a whole image
once accepted), that only the other slot is written (`CommandInv`), and that whatever
happens one slot is valid and every header names a whole image, or is erased and slot A
is the one to boot (`SlotInv`, `Shipped`). `Shipped` is the part that is not obvious: after a power
failure between the magic and the CRC of slot B's first update, slot B has a magic, an
erased CRC field and a payload that may decay to erased words, so it may count as
valid; only the active flags, and slot A being valid, keep the stub from trying it.

### OciRegistryProofs

For any number of clients, jobs, images, references and destinations, with a kill, a lost
or deferred answer, a stale handle or a rotten file at any step.

| Theorem | Assumes of the start | Argument |
| --- | --- | --- |
| `TagsAreClosed` | the store found is closed (`StartsClosed`) | a blob is never removed; a push puts its manifest after the blobs and its index entry after the manifest (`TodoInv`: what a client has still to put, and that what it has put is there); whoever writes through a stale handle writes a document that is closed in the same way |
| `DeliveriesAreTrue` | a push's manifest is carried only under that push's repository and tag (`StartsLabelled`) | `LabelInv`, `TagInv`: an index is only ever computed from entries that are labelled truly; `FetchInv`: what a pull holds at each stage is what its manifest and config name; `OwnInv`, `HandleInv`: a pull that met no other has its `.part` file to itself from staging to rename; `DeliverInv` |
| `StoreStaysIntact` | no corrupt image, no torn file but temporary ones, and an index that is one (`StartsIntact`); the file pushed is not replaced by a corrupt one between the verification and the second read (`RereadsSound`: `push` reads the file again, `oci_registry.py:788`) | `SoundInv`, `IndexInv`, `TempInv`, `WholeInv`: a push that met no other on a temporary file is its only writer, so what it renames is complete; `Changes` says where each content of the store comes from |
| `PushesArePullable` (`PushThenPull`) | the store is closed (`StartsClosed`) and every blob in it has the digest it is named by (`StartsAddressed`) | `AddrInv`: without rot and meetings that stays so, hence a manifest found by its digest is the one pushed; `PubLayout`: one client at a time holds a computed index, and it keeps the label of every push reported (`Ready`); `PubRegistry`: a reported tag holds the manifest of a push under that label; `PubJobs`: what was reported was not refused. `TagClosed` then gives the config and the layer, and `ClosedPullable` that they match the image |

TLC checked these invariants too, on the instance of run `oci`, whose scenarios satisfy
all the hypotheses. The model's digest is free of collisions (`Digests`), as the code takes
SHA-256 to be.

### RtlRunProofs

For any number of runners that share one corpus and one work directory, any programs,
core versions, command lines and edits of the sources. Assumed: a request names its
programs in a sequence, its fault index is a number or absent (`RequestAssumption`); the
sources at the start have a core and a golden stream, and every stream is a sequence of
commits (`CoreAssumption`, `GoldenAssumption`). TLC evaluates these on the instance of run
`rtlrun`, and checked the invariants below on it.

| Theorem | Says |
| --- | --- |
| `PassesAreTrue` | `PassTruth`: exit 0 of an undisturbed run is about the RTL it looked at |
| `FailuresAreTrue` | `FailTruth`: exit 1 of such a run is not a false alarm |

Neither is inductive: an exit status is what several stages made of files that others
write too. The invariant `IInv` has one part for each thing that could go wrong:

* `FreshInv`: a model whose time stamp is not older than the sources' is one of these
  sources, unless they were edited while it compiled. This is what `_stale` relies on.
* `MeetInv`: runs of one program at the same time know of each other, so an undisturbed
  run is the only writer of its trace and its console record.
* `DumpInv` (from both): the model of an undisturbed run has the version the run saw, and
  the trace and the record it reads are what that core wrote for this program and this
  fault.
* `JudgeInv`: every program is judged or still to do, no failure is forgotten when the
  next program is judged and none is made up.
* `RomInv`, `LoadInv`: whoever opens `rom.hex` or a program's image disturbs those that
  count on what they wrote there, so an undisturbed run finds its own images, complete,
  and its testbench has loaded them. `Behaviours` is then the one of its program.

The verdict itself rests on lemmas about the comparator: `FirstIsFirst` (a reported
index diverges and none before it does) and `CaughtIsMet` (a dump with one corrupted
record is reported at that record only if the true streams agree up to there).

### LinuxBootProofs

For any number of commands in one image directory, any overlaps (`Beside` is not
assumed to be anything), pins, sources, kills and edits. Assumed, and evaluated by TLC on
the run's instance: a request is a build, a check or a run with a list of modes
(`RequestAssumption`); every pin and source has a version 1, that of the directory found
(`VersionAssumption`), whose initramfs lies above the kernel's start
(`LayoutAssumption`); Spike's streams reach the kernel entry and carry no byte lanes
(`GoldenAssumption`); consoles are sequences (`ConsoleAssumption`).

| Theorem | Says |
| --- | --- |
| `BuildsAreTrue` | `BuildTruth`: exit 0 of the builder and of `--check`, with `TypeOK` |
| `TreesFit` | `TreeMatchesInitrd`: the layout of what the core runs |
| `BootsAreTrue` | `BootTruth`: a reported boot, and `console_match` |
| `DiffsAreTrue` | `DiffTruth`: the firmware comparison, its two verdicts about the RTL (a pass, and `mismatch` where the comparator found the divergence); a comparator that fails by itself may do so at any time and says nothing |

The invariant `IInv` says what a process knows at each stage, of its record, the files,
the models and the age of `s4.mem.hex`, so that every lemma about a stage is about values
and not about the state:

* `FileInv`: each file is missing, torn or well-formed, and a manifest that no second
  builder disturbed describes a tree that fits its initramfs (`Sound`). `MemInv`: a
  memory image that counts as fresh is of the files that are there. `ExeInv`: a model that
  counts as fresh is of the RTL that is there. These are what the time stamps are for.
* `Pending`, `Plan`, `Present`: what a process is about to write, what it has
  collected, and that files once found stay there: nothing deletes an image.
* `BuildInv`: an undisturbed builder's images so far are of its own pins, written or about
  to be. `ImageInv`, `ModelInv`: an undisturbed run has the manifest that is there, and
  loads an image and a model that are fresh. `CheckInv`, `ReportInv`: what exit statuses and
  verdicts say.

TLC checked `IInv` on the instance of `linuxboot` and on one with three commands.
`Disturbs` is why the argument closes: a process that writes marks the others, and a
marked one keeps only what does not depend on files (`DisturbedOK`). Every step is then
quiet (`QuietStep`), opens a file (`PutStep`), fills it (`CloseFileStep`) or
writes a report (`ReportStep`), and each stage has one lemma about its record. The verdicts
rest on `MatchIsPrefix` (what `_compare_console` accepts is a prefix of Spike's
console, also when Spike died early) and `ComparedOK` (the comparator matches exactly
the streams that are equal up to the commits it was given; none is equal where the core
computes a wrong value).

### Only model-checked

The other host and harness modules (`EthCtl`, `Difftest`) and `LoadedRight` of
`RtlRun`, which is about images built byte by byte.
Liveness under fairness (`CommandCompletes`, `HeartbeatFinds`, `SpikeThrottles`,
`SessionEnds`, `RunsEnd`) and ENABLED are beyond the prover, as are induction over data
and RECURSIVE operators; liveness stays with TLC and no module here declares a
RECURSIVE operator.

## 5. Abstract specifications

`EvtFifo` is implemented by `EmriLog` (run `emri_log`, theorem `RingImplementsFifo`). Planned: `OccFrame`, the
frame-level OCC that `Daemon` uses (accept, stream, verdict), implemented by
`OccTop`.

## 6. Plan

Done: OCC with its front end, the daemon, the ring with the monitor, the firmware
update, the artifact store, the DiffTest runner and the Linux boot flow, with twenty-nine
theorems; the host sessions and the control tool, images and DiffTest. Next, in this order:

1. Theorems about the host control tool: `EthCtl` `StopTruth` and `RunTruth`.
2. `EfpSpi`: byte-level framing, resynchronisation, the response pipeline; no
   write executed twice or from two halves.
3. `CtxEngine` and `Mfsm`: the scan chain and the session tracker.
4. `OccFrame` and the refinement by `OccTop`.
5. The data plane: mailbox switches, DMA channels and arbiter, AXI crossbar, PLIC.

## 7. Not modelled

Cryptography, the RISC-V core and its FPU, the fabric's tiles and routing, the
offline mapper and bit-level serial I/O are data, out of TLC's reach, and checked in
the repository by differential tests. The mapper and
the Python instruction-set model are pure functions of large data. Authentication
and redirects of the HTTP registry client, replay plan files and every message are
left out of the host tools. The NEORV32 netlist is vendored. Reset is
the initial state; resets during operation are not modelled (the power failures of
`FwUpdate` apart). The CRC32s have no collisions. Memory ordering between masters
is the bus's: one access at a time.
