# Verification of the MEDUSA embedded-controller application

TLA+ modules for the AMD MEDUSA EC firmware (Zephyr, C): what they model, what TLC
checks on small instances and what TLAPS proves for every instance. Paths below are
relative to `src/`. `PROJECT.json` has the machine-readable side: components, runs,
mutants, the map from definitions to source lines, findings, hazards and theorems.

## 1. The system

The EC brings an AMD APU board up and down, watches buttons, adapter, battery and
temperatures, and serves the host over eSPI. Every application part is a cooperative
Zephyr thread (`misc/task_handler.c`), a work item or a callback; interrupts and
kernel timers preempt the threads everywhere, and a thread that sleeps or waits for a
bus lets the others in. The parts share plain global variables without locks.

| Part | Source | State it keeps | Operations | Interacts with |
|---|---|---|---|---|
| power sequencing | `app/power_sequencing` | `next_stage`, `g_pwrSeqDelay`, delay timer, `current_state`/`next_state`, enable pins, retry counters | one stage per pass, `app_pseq_nextStep` from anywhere, transition handlers, state monitor | everybody calls `nextStep`; reads SLP lines, power good, AC; votes on deep sleep |
| NV options | `misc/f_nv_options.c`, `drivers/amd_crb_drivers_spiFlash.c` | working copy with CRC and `hasUpdate`, active block, two flash blocks, sector buffer | set, periodic save, load, reset after save | setters in ACPI, shell and validation; resets the EC |
| debouncing | `app/peripheral_management/periphmgmt.c`, `board_periph.c` | per pin: `debouncing`, `deb_cnt`, `prev_level`; semaphore, sleep vote | pin interrupt, registration, scan of all pins per period | calls every pin handler; pin interrupts share its fields |
| power button | `app/peripheral_management/app_btn.c`, `app/smchost/smchost_pm.c` | FCH pin, five timers, slide flags, ring of two posted edges | press, release, replay, timer callbacks, S0 monitor | gets edges from the debouncer; calls the sequencer, whose thread replays posted edges; host switches slide mode |
| ACPI space, SCI | `app/acpi`, `app/smchost/sci.c` | register file, event queue, SCI flag | event enqueue, query, purge | sets options, slide mode; forces G3; every task reports events |
| SMC host | `app/smchost` | command waiting for data, ACPI mode, semaphore | host commands over port 62h/66h, resets | ACPI, battery, thermal |
| KBC host | `app/kbchost` | 8042 data state, enable bits, queues from and to the host | host bytes, replies, keys to the host | matrix, host interrupt |
| keyboard matrix | `drivers/kbs_matrix.c`, `drivers/amdcrb_keymap.c` | modifiers, last make code, typematic timer and rates | make, break, repeat, Fn layer | KBC host |
| deep sleep, AC/DC | `app/power_management`, `misc/task_handler.c` | votes of all tasks, AC/DC state | combine the votes, enter and leave sleep | every thread |
| battery | `app/battery_management`, `drivers/dev_smtbty.c`, `board_smtbty.c` | debounces, error counters, charge status and its copy, charger | one pass per period: detect, read, decide, charge | charger and battery on I2C, AC, frozen at S0 entry |
| fan, thermal, ALS | `app/fanctrl`, `app/thermal_management`, `app/als` | measurements, control state | periodic polling | sequencer (shutdown requests), host |
| USB-C, UCSI | `app/usbc` | PD port state, UCSI mailbox | PD interrupts, host mailbox commands | PD controllers, sequencer |
| eSPI, OOB | `drivers/espi_hub.c`, `drivers/espioob_mngr.c`, `drivers/oob_msg_mngr.c` | virtual wires, request queue, semaphore, reassembly buffer, reply being sent | receive callback, requests with timeout, fragments | sequencer, RPMC |
| RPMC | `drivers/oob_rpmc_msg.c`, `drivers/oob_rpmc_rom.c` | keys, counter and their states, key block, two counter blocks, pending erase | write root key, update key, increase; scan at power-up | OOB messages, flash, system work queue |
| manageability, UDC, SFH, SAF, shell, validation | `app/wireless_manageability`, `app/udc`, `app/sfh`, `app/saf`, `shell`, `app/ec_debug`, `app/s0stest` | various | debug and side channels | sequencer, NV options |
| boards, boot, drivers, utilities | `boards`, `boot`, `drivers`, `misc`, `utilities` | tables, device registers, ring queue | register access | everything |

What is hard in this code:

* **Interleaving without locks.** `next_stage` is one slot written by seven callers;
  `inputBuffer_lst` is written by interrupts during the scan; the lock of
  `f_nv_options_save` is commented out.
* **Unreliable peers.** The SoC repeats, delays and gives up requests; the host stops
  reading, or its interrupt repeats itself; an I2C write to the charger is lost.
* **Order and time.** Timers race with what stops them; delays can be skipped by a
  stale flag; edges are posted and replayed after newer ones.
* **Crashes.** A long press, an NV-option change or a debug command resets the EC in
  the middle of a sequence; power can fail between two flash operations.
* **Partial failure.** A refused state transition has already written its pins; the
  result of a flash write is ignored.
* **Something must happen.** A board with AC must come up again, a forced power-off
  must happen, a changed option must reach flash, a handler must learn its pin's level.

The properties that make the modelled parts correct are those of section 4; for the
parts not modelled: the votes never allow deep sleep while a task works, the ring
queue is a FIFO, the UCSI mailbox answers each command once.

## 2. Modules

| Module | Models | Run | Proofs |
|---|---|---|---|
| `PowerSeq` | `app_pseq.c`: thread, stages, handlers, monitor, requests, resets | `boards`, `power_live` | `PowerSeqProofs`, for Dorne in `MCBoards` `BoardsProofs` |
| `NvOptions` | `f_nv_options.c` with the flash write of `amd_crb_drivers_spiFlash.c` | `stores`, `faults` | `NvOptionsProofs` |
| `NvRegister` | abstract: an atomic register that survives restarts | property of `NvOptions` | refinement in `NvOptionsProofs` |
| `RpmcRom` | `oob_rpmc_rom.c`: the two-block store of a counter, deferred erase, boot scan | `stores` | `RpmcRomProofs` |
| `MonoCounter` | abstract: a counter that only moves on | property of `RpmcRom` | refinement in `RpmcRomProofs` |
| `Rpmc` | `oob_rpmc_msg.c` with the root key block of `oob_rpmc_rom.c` | `stores` | `OobProofs` |
| `RpmcLedger` | abstract: one owner, and increases acknowledged from growing values | property of `Rpmc` | refinement in `OobProofs` |
| `OobManager` | `espioob_mngr.c` and `oob_msg_mngr.c` | `stores` | `OobProofs` |
| `PwrBtn` | `app_btn.c` and the power button part of `smchost_pm.c` | `faults` | `PwrBtnProofs` |
| `Debounce` | `periphmgmt.c` and the pin interrupts of `board_periph.c` | `tasks` | `TaskProofs` |
| `SmcHost` | `sci.c`, the thread and handshake of `smchost.c`, the notification calls of `app_acpi.c` | `tasks` | `HostProofs` |
| `Kbc` | `kbchost.c` | `tasks` | `HostProofs` |
| `KbsMatrix` | `kbs_matrix.c` and the Fn layer of `amdcrb_keymap.c` | `tasks`, `typematic_delay` | `HostProofs` |
| `Battery` | `app_smtbty.c`, `dev_smtbty.c` and `board_smtbty.c` of Plum | `tasks` | `TaskProofs` |

`MCBoards`, `MCStores`, `MCFaults` and `MCTasks` check several modules, or one module for
two boards, in one run: a behaviour first chooses the unit it exercises and then takes
only that unit's steps, so that the units are explored side by side and not multiplied.
Units in one run share no state. The component modules are extended, so that the run
checks the very definitions the theorems state; only `MCBoards` instantiates `PowerSeq` a
second time, for Dorne. `OptionsReachFlash` is `ChangesReachFlash` of `NvOptions` for the
behaviours of that unit.

Definitions named `X_Something` directly before `X` are mutated forms of `X` that
show that a property can fail; nothing else uses them.

### PowerSeq

`pc` is the position in one pass of `app_pseq_thread`: `idle` (in `k_msleep`), `run`
(stage chosen), `set`/`update`/`commit`/`reject` (`app_pseq_setPwrStatus` and
`app_pseq_update`, split where a callback can change `next_state`), `tail` (the
`nextStep` at the end of a stage), `post` and `mon`. Each stage of
`app_pseq_StateMachine` is an operator named after its enumerator. `high` is the set of
output pins driven high; `slp` the SLP lines the APU asserts; `Requesters` says who
else calls in: thermal trip, hot bag, USB-C, manageability, power button, and the
three software resets. Readings of AC, power good and VR configuration are free
choices from constant sets. `posted`, `pgSeen` and `handler` are abstractions or
history variables; the comments in the module say which.

### NvOptions

A block is a record of magic word, contents and the contents its CRC was computed
from; CRC equality is equality of contents. One step is one flash operation of
`amd_crb_flash_byte_write`: read the sector into the buffer, erase, program, or write
directly when no bit goes from 0 to 1. `saver` holds each caller's position: the
system work queue, which nothing but a power loss interrupts, and, in builds with the
shell, the preemptible shell thread. Both blocks are in one 4 KB sector.

### Debounce

Each access of the scan that an interrupt can separate from the next is a step.
Where the language leaves the compiler a choice (testing the stored or the re-read
counter, keeping or dropping the redundant `deb_cnt = 0`) the step has both outcomes.
A read of a native GPIO does not fail; pins on I/O expanders never debounce, because
their dispatcher is compiled out, and are left out.

### PwrBtn

`periph_thread` and `app_pseq_thread` are cooperative, so a press is one step; a
release is three (pin and click; long-press flags; timers), because the timers fire in
interrupts in between. The debouncer's edges, the sequencer's progress and the host's
switch of slide mode are the environment; the sequencer is reduced to its power
state, to `g_pwrSeqDelay` being zero or not, and to being inside a stage or not.
`Following` has the power states a stage can lead to, and `MayRest` says where a stage may
leave no delay pending: never in INIT, whose stages arm each other until ENTER_TO_G3
commits G3, and not on entering S0_R, which arms TRANSFERED_INTO_S0. TLC confirms
`Following` on `PowerSeq` without requests for G3 and without virtual wires. With
`Overruled` such a request, or a SLP virtual wire, breaks into a sequence, and `Committed`
lets it go on from any state that the transition handlers accept.
`disturbed` is history: it is set by a replayed press whose button is released (or is
now held by a masked press), by a timer that fires inside a release handler, and by a
fingerprint mask that differs between press and release. S4 behaves like S5 here, and
the keyboard LEDs are left out.

### RpmcRom

A step is one flash operation: `oobmngr_thread` writes, the system work queue does the
deferred erase. `pend` is `erase_addr`, `timer` the way from arming the timer to the
work item. A power failure may tear the record being written or leave any mixture of
old, broken and erased records of a block being erased. `LossWhileBare` lets power fail
after `_mc_program` erased both blocks, which it does only when a second block end
comes while the first erase is still pending: with 512 records in a block and a timer
of a few seconds that takes hundreds of increases within the period. The run sets it to
FALSE; with TRUE the counter is lost, against `oob_rpmc_msg.c:55` ("not impacted by a power
interruption event"). When the work item has run between the two erases, `erase_addr` is
already cleared and the second one goes to flash address 0 of the device, outside the two
blocks; the model has the step, without effect on the blocks. The new count and its cycle
are set with the write, where the code sets them. `JustArmed` keeps the work item from
running in the instant between the start of its timer and the write that follows; that
an item once submitted runs before a whole further block is filled is assumed in the
same way.

### Rpmc

One counter of the emulated device. `Requests` is everything a host can have issued so
far, so that a request may be lost, repeated, delayed or reordered; a signature is
right when its key is. `step` splits a handler at its flash operations, in each of
which power may fail. The counter's own store is one register, which is what
`RpmcRom` refines; the key block is modelled with its records.

### OobManager

A packet is a pair of message and index; the receive callback decides by the semaphore
whether it is a request or the answer to the EC's own request. The service that a
request reaches returns any reply length or an error. What the SoC does with the
fragments (start, end, sequence numbers modulo 4) is in `SocReceives`, which is external.

### SmcHost

A step lies between two reads of the status register. Events are numbered in the
order they are reported. The operating system is external: it answers an SCI by a
query, may read EC space, turns ACPI mode on and off, warns of resets and resets. Turning
the mode on also reports the event kept in `_s_fakeEventId`, if there is one (`FakeEvent`).

### Kbc and KbsMatrix

Bytes of the host are classes with the same effect; `ops` is what a command still has
to do when an interrupt comes between. `Retrigger` delivers the last byte again, as often
as it likes: the case the guard of `kbc_handler` exists for. The guard drops the second
delivery and forgets the byte, so that a third one is queued, which the comment
(`kbchost.c:875`) intends for a retry of the host. `odd` and `extra` are history: whether the
byte was delivered an odd number of times, and the third, fifth, ... deliveries so far. An
answer waits for the output buffer up to `Retries` times; then the rest of it is queued
without another look. Keys are classes too: repeating, sent once,
without code; the Fn layer maps a key to its outcomes, all of them for the entries
whose function returns without filling the structure in.

### Battery

A pass of the thread is, after its beginning, four steps: detection, periodic reads, the decision, and the
status that sets the charge. A read fails or not as it likes when a battery is fitted,
always when none is. `lost` counts writes the charger missed (their result is ignored).
`BATTERY_MANAGEMENT` is off in `prj.conf` and switched on by the defconfigs of the boards.

## 3. Reading the runs

`tlc -config X.cfg M` for every row, with the files that `PROJECT.json` names. `stores`,
`tasks` and `kbc_repeat` do not check for deadlock: their environment (host, SoC, user) may
run out of bounded requests. A unit's steps are conjuncts of its bundle's next-state
relation, so TLC counts them under the bundle's action; its coverage of the
subexpressions (`-coverage`) shows that each action of each component happens in one of
the passing runs. One branch does not: `QueryEc` refusing a query, which takes a host
that queries without having been signalled.

| Run | Instance | Shows |
|---|---|---|
| `boards` | Plum with every requester and reading; Dorne with PEO and SLP virtual wires | rails, sleep votes, settled states, state entries |
| `power_live` | AC and power good present, VR may ask for G3 | the board comes up again, a forced G3 happens, the SLP wait ends |
| `stores` | counter store with power failures, RPMC with two algorithms and two keys, options with atomic sector writes, OOB with two requests | nothing acknowledged is lost or given twice; messages are whole |
| `faults` | options with shell saves, flash errors, loss inside an erase; button with fingerprint mask, timer races, yielding stages, overruled sequences | no invented options; reset timer, FCH pin, click or slide key |
| `tasks` | two pins; three events and one reset; two host bytes, one extra firing and one key; one lost charger write; four keys | nothing missed, nobody blocks, charging ends |
| `s5_rails` | button presses, AC may vanish | *violation*: S5 without its rails |
| `force_g3_exit` | thermal trip, AC present | *violation*: a forced G3 from S0_R is never left |
| `force_g3_lost` | hot bag | *violation*: a forced G3 is overwritten by the running stage |
| `nv_erase_loss` | loss inside an erase | *violation*: both blocks are gone |
| `pwrbtn_replay` | no mask, no timer races, stages do not yield, no sequence is overruled | *violation*: a click during the way to S0 leaves the FCH button asserted |
| `kbc_repeat` | two host bytes | *violation*: the second of two equal bytes is dropped |
| `typematic_delay` | two typematic bytes | *violation*: the delay of the host is never used |

## 4. Properties

Power sequencer. The eight safety properties are claimed of Plum; of Dorne only
`DorneOrder`, the rail orders and the sleep vote: there the SLP virtual-wire callback
writes `next_state` between a transition handler and its commit, and TLC finds a state
entered without its handler (`app_pseq.c:693`).

* `RailOrder`, `RunRailOrder`, `PowerDownOrder`: no interleaving of requests and
  resets with the sequence leaves the APU out of reset or the run rails on without
  the rails below them.
* `S0Settled`, `G3Settled`, `S0Awake`, `StateEntryHandled`: when the sequencer rests,
  its state and the pins agree, and a state was entered by its own handler, from a
  state that the handler accepts.
* `NoSleepWhilePending`: with a stage pending there is no deep-sleep vote, and a running
  timer or the expired flag will bring the stage about.
* `PowerReturns`, `S0EntryResolves`, `ForceG3Honoured`: liveness of the sequencer.

What is kept in flash.

* `Durable`, `AtomicSave`, `ResetKeepsOptions`, `OptionsReachFlash`, `NeverInvented`: what a
  restart finds of the options; the first four with atomic sector writes, the last
  with overlapping saves and every fault. `KeepsACopy` is the property that
  `nv_erase_loss` violates.
* `WritesErased`: no record of the counter is programmed over another one, also after a
  scan that met torn records. `CacheStored`: the cached count is the one a power-up
  would find. `CounterMonotonic`: the store implements `MonoCounter`, so that no power
  failure in a write or in either erase takes the count back.
* `MissionKeyKept`, `AckedIncreaseKept`: what RPMC acknowledged survives power failures.
  `OneLedger`: the answers implement `RpmcLedger`; however requests are repeated, delayed
  and cut by power failures, there is one key under which increases are acknowledged,
  and no two of them start from the same value or from an earlier one.
* `RequestsAccepted`: after a synchronous request of the EC, answered or timed out,
  packets are requests again. `WholeMessages`: a request carried out is one that the SoC
  sent, and a reply arrives whole; both unless a packet of the request was lost.

Tasks and the host.

* `NothingMissed`, `Delivered`, `NoVoteWhileDebouncing`: the unlocked scan loses
  nothing. `Delivered` holds although a race can lose a reload (a shorter debounce)
  or make the counter wrap (256 periods instead of ten).
* `EcResetOnlyHeld`, `CleanRelease`, `ClickOrSlide`: the power button. `CleanRelease`
  says that the three disturbances are the only ways to leave the FCH button
  asserted; `pwrbtn_replay` shows that one of them happens with a plain click.
* `NoWakeupLost`, `InOrder`, `EventsDelivered`: when the thread sleeps with nothing
  signalled, a host that waits for a byte finds it and a queued event has been announced;
  events reach it in the order they were reported, none twice, and the queue is
  emptied, through full output buffers, mode changes and resets.
* `NoByteTwice`, `NoKeysWhileDisabled`, `NeverBlocks`: the 8042 interface with an interrupt
  that repeats itself (no more bytes are queued than the host wrote and third, fifth, ...
  firings offered), keys that arrive during a disable, and a host that does not read.
* `RepeatsOnlyHeld`: the typematic timer never runs on for a key that was released.
* `RemovalStopsCharging`, `DisabledMeansOff`: a battery taken out for good ends charging
  through debounces, stale answers, reactivation and a lost write; at rest the charger
  agrees with the status.

### Bounds

`SlpWaitLimit`, `S5ToG3Delay`, `VrRetries`, `S0Settle`, `Reload` and the limits and debounces of
`Battery` are 0 to 2 instead of up to 10000: the code only compares these counters with
their limit, so one value below, one at and one beyond it are enough. Counters that wrap
do so: `CntMod` is 3 or 4 instead of 256, so that two posted edges are told from one and the wrap is met; `ValueMod` is 3 instead of 2^32; `CycleMod` and
`WrapOffset` are 12 and 4 instead of 2^16 and 2048, which keeps what the comparison
needs (the distance of two live cycles is far below the offset). Two pins are enough for
the order of a scan (a pin before and one after the current one). Three option contents
tell the default, the last and the new ones apart; `faults` uses two to keep two
overlapping saves affordable. Two records per counter block (`Cells`) and three in the
key block (`KeyCells`) make a block fill and change after a few writes. Queues hold two
entries (`QueueSize`, `FromSize`, `ToSize`), so that they fill; `Retries` is 2, one try that waits
and one that gives up. `FragMax` is 2 with replies of
1, 2, 4 and 11 bytes: one packet, exactly one, several, and more than four, where the
sequence number wraps. `MaxCount`, `MaxMsgs`, `MaxFrags`, `MaxSends`, `MaxEvents`, `MaxResets`,
`MaxWrites`, `MaxExtra`, `MaxKeys` and `MaxLost` bound what the environment does and nothing in the EC.

### Fairness

`PowerSeq`: weak fairness of the thread, which wakes every millisecond and shares the
processor with threads that all block again, of the delay timer, and of the reboot that
follows a software reset. Liveness is stated for the case that requests stop
(`Quiescent`) where requests could postpone the goal for ever. `NvOptions`: weak fairness of
the save from the work queue, which a periodic timer submits. `Debounce`: weak fairness of
the thread and of latched interrupts; `Delivered` assumes the pins settle. `Kbc`: weak
fairness of its two threads and nothing of the host, which is the point of
`NeverBlocks`. `Battery`: weak fairness of the steps of a pass and of the two timers, and strong
fairness of its beginning, since the freeze at S0 entry lasts a few seconds and S0 is
entered far less often than a pass begins. Weak fairness of its `Unfreeze` also says that
the system does not rest in G3, where a pass does not begin (`app_smtbty.c:1308`; `ready`
stands for both conditions): with the adapter the monitor leaves G3 for S5
(`app_pseq.c:1482`), and without it a charger has nothing to charge from.

`SmcHost` is the only module that assumes something of the outside world, and
`EventsDelivered` the only property that needs it: a host that has been signalled an SCI
again and again queries, finishes the read it has begun and resumes, and a reset that was
begun ends. A host that never queries gets no event, and no code of the EC could change
that.

## 5. Findings

1. **S5 without its rails** (`s5_rails`). `powersequence.rst` says 1.8V_ALW "should be
   ready when system enters S5"; a button press on the way to G3 commits S5 with the
   enables low.
2. **Forced G3 from S0_R is never left** (`force_g3_exit`). The transition is refused,
   the rails are off, and the monitor has no case for S0_R.
3. **Forced G3 lost** (`force_g3_lost`). `next_stage` is one slot; the running stage's
   `nextStep` overwrites the request.
4. **Both option blocks in one sector** (`nv_erase_loss`). Clearing the old block's magic
   word erases the sector that holds the new block.
5. **A posted press is replayed twice and its release never** (`pwrbtn_replay`). The FCH
   sees a held power button after a click that fell into a stage's delay: the click waits
   in the ring while the stages follow each other, and is replayed on reaching S0.
6. **Intended repetitions are dropped** (`kbc_repeat`). `kbchost.c:872` says that two
   intentionally identical writes "are not dropped"; the guard only compares with the
   previous byte, so the second one is.
7. **The typematic delay of the host is never used** (`typematic_delay`). The mask is
   applied after the shift (`kbs_matrix.c:445`), and the delay index is always 0.

Seen while modelling, without a run of their own:

* Sequencer: a new S0 request does not reset the SLP wait counter (`app_pseq.c:1186`);
  the 30 ms RTC delay can be skipped by a stale `g_pwrSeqExpired` (`app_pseq.c:1093`); with
  SLP virtual wires a state can be committed whose handler never ran (`app_pseq.c:693`).
* Options: a save from the preemptible shell that overlaps with a setter or with the
  periodic save can leave no valid block (`f_nv_options.c:384`, the lock is commented
  out); the ignored result of the flash write (`f_nv_options.c:388`) drops the update.
* Button: with a fingerprint reader, a mask that ends while the button is held leaves the
  10 s timer running after the release.
* RPMC: the count is lost when power fails after both blocks were erased
  (`LossWhileBare`, section 2).
* OOB: a packet that arrives while the EC waits for its own answer is taken for the
  answer whatever its tag; a packet that meets a full queue is dropped; the sequence
  numbers of requests are not looked at, so a request with a lost packet is shorter.
* ACPI: events are queued also when SCIs are disabled, and purged by a reset warning
  only.
* Keyboard: an interrupt that fires three times for one byte has it queued twice, since the
  guard cannot tell the third firing from a retry (`kbchost.c:875`); the hot-key event state is left by a command only; DEFAULT_DISABLE purges
  before it disables, so a key can slip in between (`NoKeysWhileDisabled` is about the
  port's disable bit); a full key queue drops break codes; functions of the Fn layer can
  return without filling in the structure their caller reads.
* Battery: the recheck delay is 5000 with a comment in microseconds and is used as
  milliseconds; a battery given up as dead never has its disable repeated.

## 6. Proofs

All theorems are for every value of the constants that the named assumptions allow.

* `PowerSeqProofs`. `TypeCorrect`; `RailOrder`, `RunRailOrder` and `PowerDownOrder` from
  one inductive invariant `PowerInv`, which adds to the rail order what each stage may
  assume of the pins between two passes; `NoSleepWhilePending` from `VoteInv`, which
  extends it to the points inside a pass, where the monitor runs beside a request and the
  timer may expire. Under `~SlpVwires`, since
  the virtual-wire callback breaks them: `StateEntryHandled` from `EntryInv`; `S0Awake` from
  `AwakeInv`, the vote at each point of a transition; `S0Settled` and `G3Settled` from
  `SettleInv`. The settled properties are far from inductive: they speak of the sequencer at
  rest, and the pins get there over a dozen stages which requests enter anywhere.
  `SettleInv` says of every stage that ends a sequence what the pins are already when it
  is asked for (`AllOn`, `AllOff`, `PartOff`), also while it is only the successor a running stage
  will ask for, and that `next_state` follows `current_state` outside a transition
  (`Follows`).
* `NvOptionsProofs`. `TypeCorrect` and `NeverInvented` without further assumptions, that is with
  shell, flash errors and loss of power everywhere: `KnownInv` extends the property to
  blocks in flash that are not the one a restart would load, and to the sector buffer.
  `Durable`, `ResetKeepsOptions`
  and the refinement `AtomicSave` (every step of `NvOptions` is a step of `NvRegister` or
  leaves it alone) under `Quiet`: no shell, no flash errors, no loss inside erase and
  program, which the runs show to be necessary. The invariant `SaveInv` ties the
  position of the save to what flash and sector buffer hold: the old block is
  invalidated only when the new one holds the options in use.
* `RpmcRomProofs`. `WritesErased` from `LayoutInv`, with any failure of power: below the last
  record everything is erased, and the other block is erased, about to be, or waits for
  the deferred erase, with one case for each position of the thread (at rest, writing,
  scanning at boot, erasing both). Under `~LossWhileBare`, `CacheStored` and the refinement
  `CounterMonotonic` (every step is a step of `MonoCounter` or leaves the count alone) from
  `StoreInv`, which adds that the cached count is `Newest`: it is a whole record, and every
  other whole record lies behind it, in its block by its place, in the other one by a
  cycle that `Supersedes` still orders after the wrap, because the distance of two cycles
  in flash is bounded by the number of cells (`Behind`).
* `OobProofs`, the channel. `RequestsAccepted` from `SemInv`. `WholeMessages` from two invariants.
  `ReplyInv`: the packet prepared continues what the SoC has received and has its next
  number, and what is left to send and what is sent make up the reply. `StreamInv`: as long
  as nothing was lost and the EC sent nothing, there is a run of the reassembly through the
  queue (`Gathered`: one state before the first packet, one after each) that starts
  at what the buffer holds, continues a request with each packet or begins one, and
  ends where the SoC goes on. Receiving extends the run, processing takes its first step
  off. Assumed are a packet size and reply lengths that are not 0 (`FragAssumption`,
  `ReplyAssumption`: every reply has a status byte) and a queue size that is a number.
* `BoardsProofs`. `DorneOrder` of the two-board model. The constants of Dorne satisfy the
  assumptions of `PowerSeq` (`DorneIsABoard`), the instance in `MCBoards` is the one the
  theorems of `PowerSeqProofs` are about (`SameInit`, `SameNext`), and a step of the two boards
  is a step or a stutter of Dorne (`BoardsRunDorne`); three theorems then give the property.
* `OobProofs`, RPMC. `MissionKeyKept` and `AckedIncreaseKept` from `RpmcInv`, for any
  set of keys that can be told from an erased and a broken record, any size of the key
  block and any count. Its parts: `StoreInv` (below `rtAddr` the
  block is erased, and the newest whole record is the store's cached key, except while
  one is being written), `StateInv` (in the mission state the key in use is the one in
  flash, and once something was acknowledged no key is being written), `CountInv` (what
  was acknowledged lies below what flash holds, and an increase under way is from a
  value nobody was acknowledged) and `KeyInv` (the keys acknowledged are the one in use).
  The key found by a scan is a least
  element of a set of addresses; `LeastNumber` provides it from the well-foundedness of
  the naturals. `OneLedger`, the refinement of `RpmcLedger`, adds `AuthInv`: in the mission
  state only the mission key derives signatures, so that whatever is acknowledged is
  acknowledged under it, and a root key only when nothing else has been. `CountsByOne`, the
  contract between the two modules of the counter, adds `DiffInv`: between a service and its
  write to flash the counter in RAM is one ahead of flash, or starts at 0. Every write
  `Rpmc` makes is thus one that `MonoCounter` allows, which is what `RpmcRom` implements.
  `RpmcTypeCorrect` assumes of `MaxCount` that it is a number (`CountAssumption`).
* `TaskProofs`, debouncing. `TypeCorrect`, `NoVoteWhileDebouncing`, and `NothingMissed` from
  `DebounceInv`: each pin's level is known to its handler, latched as an interrupt,
  being debounced, or in the thread's hands (`Noticed`); and a pin that is debouncing
  will be looked at again, because the semaphore is given, the scan has not passed it,
  or it was counted (`Watched`).
* `PwrBtnProofs`. `EcResetOnlyHeld` from `EcInv`; `CleanRelease` from `CleanInv`: without a
  disturbance the timers of a press do not outlive it, a long masked press is
  remembered until its release, and the FCH pin is asserted only by a press that
  will deassert it or by a click whose timer runs. `ClickOrSlide` from `CleanInv` and
  `ReportInv`: no click before the release, and until then the slide is remembered in the
  flag that suppresses the click. `ButtonTypeCorrect`, with the bounds of the S0 counter
  (`S0Inv`: it moves only while it is within its limit) and of the ring.
* `HostProofs`, 8042. `NoByteTwice` from `ByteInv`: when the last delivery was one that may queue a byte (the
  first, third, ...) and the guard does not remember it, nothing was queued for it, and one
  more may be. `NoKeysWhileDisabled` from `DisableInv`:
  what a command still has to do is one of the tails of a command's operations, and after
  the disable only the purge is left.
* `HostProofs`, matrix and ACPI. `RepeatsOnlyHeld` is inductive itself. `InOrder` from `OrderInv`: the
  queue increases and lies above what the host has seen. `NoWakeupLost` from `OrderInv`,
  `PortInv`, which says for each thing the host may wait for what the two port buffers and
  the pending request are, and that a byte not yet taken has woken the thread or is served
  in this pass, and `SignalInv`: a queued event is announced, or the thread has a pass to
  make, or the host is in a transaction whose last read makes the thread run again.
  `SmcTypeCorrect`: the queue is within its size and holds events that were reported
  (`SmcAssumption`: sizes and bounds are numbers).
* `TaskProofs`, battery. `DisabledMeansOff` from `ChargerInv`: unless a write was lost, a charger is off
  while `oldChgSt` says that charging has ended, and between passes the two copies of the
  status agree. `BatteryTypeCorrect`, the bounds of all counters, needs `AnswersInv`: the
  answers counted by one reactivation are forgotten before the next begins. The limits
  are numbers, and `ReactEvery`, by which the code divides, is not 0 (`BatteryAssumption`).

Every safety property of the passing runs, invariant, action property or refinement, has
its theorem. Only model-checked are the liveness
properties (`PowerReturns`, `S0EntryResolves`, `ForceG3Honoured`, `OptionsReachFlash`, `Delivered`,
`EventsDelivered`, `NeverBlocks`, `RemovalStopsCharging`): fairness is out of the prover's reach.
The three theorems about settled states say nothing of Dorne, whose virtual wires break
them (section 4), and the two about the counter nothing of the window that
`LossWhileBare` opens, where they fail.

## 7. Not modelled

Electrical timing (delays are "eventually"), priorities beyond what the positions
express, logging, post codes, LEDs and formatting; the flash driver apart from the
byte write; the parts listed as `not_modelled` in `PROJECT.json`, with the reason.

Details of modelled parts that are left out:

* RPMC: the scan at power-up erases all blocks when the flash's unique ID or the layout's
  version does not match (`oob_rpmc_rom.c:906`). `Scan` and `Preload` are of a device that
  was set up once and keeps its flash and firmware.
* OOB: the 128 bytes of the reassembly buffer and the 8-bit arithmetic of lengths; packets
  have the length their header says, and requests fit.
* Battery: the six block reads of `board_smtbty_onBtyAttach` (`board_smtbty.c:805`) and the
  two status reads of `app_battery_flagsCalculate` (`app_smtbty.c:797`) move
  `continuousErrCount` too: a failed one counts, a good one clears it. `Attach` and `Finish`
  leave it alone. In `Reactivate` one outcome decides on both counters; in the code an
  answer of 0 volts or amperes clears the errors and also the responses
  (`board_smtbty.c:1013`).

The map covers about 6 % of the implementation's lines. Most of the others are not
control: register headers and access functions of device drivers, GPIO and keymap
tables, copies of the same board file for every board (`board_periph.c`, `board_smtbty.c`,
`board_vrCfg.c`, of which one copy each is modelled), the accessors of the ACPI register
file, validation and debug commands. What is left with control of its own is in the plan.

## 8. Plan

1. Proofs: what of the settled states is left on a board with virtual wires; the safety
   part of the liveness properties (what holds while the goal is outstanding).
2. `SleepCtl` and `AcDcSwitch` (`app/power_management`): the votes of all tasks, composed
   with the vote interfaces of `PowerSeq` and `Debounce`.
3. A composition of `Debounce`, `PwrBtn` and `PowerSeq`: from the pin to the sequencer.
4. `RingQueue` (`utilities/u_rrq.c`): the array queue against the mathematical FIFO.
5. `UcsiTunnel` (`app/usbc`) and the manageability hooks.
