# A TLA+ model of STM32Tools

STM32Tools is a C library for STM32 boards: persistent storage on external NOR Flash,
a bootloader with rollback, field buses, modems and drivers. This directory holds TLA+
modules of the parts whose correctness depends on *order*: what is durable when the power
goes, which of two actors moves first, how often something is retried, what a counter says
after it wrapped around. TLC checks small instances, TLAPS proves the central invariants for
every instance. `PROJECT.json` lists every component, run, mutant, mapped source line, finding,
hazard and theorem.

    tlc -workers 2 -config MCStorage.cfg MCStorage     (runs: see section 4)
    tlapm BootloaderProofs.tla                         (proofs: see section 7)

## 1. Inventory

| Component | State it keeps | Operations | What is hard | What makes it correct |
|---|---|---|---|---|
| Boot policy (`Src/Bootloader/bootloader_policy.c`) | none (a pure function of the persisted payload) | `Decide` | counters across resets, saturation, order of reset flags | never destroys without a marker, bounded attempts |
| Bootloader (`bootloader.c`) | application Flash, candidate and rollback slots, newest upgrade payload; RAM of one boot | `Bootloader_Run`, `InstallSlot`, `BackupCurrentApplication`, `DoRollback` | reset between any two durable steps; every call may fail | only a whole image runs; a torn one is marked; something is always left to install; an upgrade ends |
| Upgrade log (`storage_upgrade.c`, `storage_record.c`, `storage_bank.c`) | two banks of one sector, an append-only region, `latest`, `next_sequence` | `Init`, `Get`, `Append`, `Compact` | torn writes and half-done erases during a compaction; sequence wrap-around | a register: the newest acknowledged payload survives |
| Durable record queue (`DurableRecordQueue.c`) | slots with body / commit / ack words, epochs, summaries, a two-sector cache, quarantine | `InitEx`, `Append`, `Peek`, `Acknowledge`, `ReclaimOne`, `PrepareOne` | crash between words, uncertain acks, stale cache, partial failure of an erase | no unconfirmed record is erased, identities are unique, counters agree with the Flash |
| Dual bank store (`DualBankStore.c`) | two banks, RAM copies, a prepared prefix | `Init`, `Load`, `Save`, `PrepareStep`, `SavePrepared` | a failing save that committed; strict recovery from decayed records | an old snapshot never comes back |
| Storage log (`storage_log.c`) | ring of sectors with generations, write offset, cursors, receipts | `Append`, `GetRecent`, `NextPending`, `Acknowledge`, `Clear` | rotation over unacknowledged records, stale receipts, torn headers | order, no acknowledgement of another record, everything is delivered |
| Firmware slots (`storage_firmware.c`, `storage_commit.c`) | image area, manifest committed last | `BeginWrite`, `WriteChunk`, `Finish`, `Invalidate` | cut before the manifest, stale manifest over a new image | a valid manifest implies the whole image |
| Partitions (`storage_partition.c`) over the W25Q driver (`w25q.c`, `w25q_storage.c`) | `needs_ready` latch; the chip | read, program, erase | time-out while the chip is still busy, transfers that fail half way | an OK tells the truth, nothing else changes |
| RS-485 / Modbus (`ModbusQueue.c`, `Rs485Core.c`, `ModbusMaster.c`) | request queues by priority, result queue, one pending result, receive queue | submit, process, get result, feed, flush, execute | full queues, retries against late and stored frames | each request has one result, never lost and never another's |
| UART receive (`UartReceive.c`) | DMA state, staging frame or message queue, flags | receive and error interrupts, task-side take | interrupt between any two task steps | a lost chunk is reported before what follows it; no port starves |
| MQTT line collector (`MqttLineCollector.h`) | one buffer, a mode | `FeedFrames`, `Feed`, `Invalidate` | text lines and binary bodies in one stream, overflow, loss | lines and frames are kept apart |
| Button (`Button.c`) | edge queue, phases | EXTI interrupt, `Process`, `NextWakeDelay` | edges that overflow the queue, sleeping too long | one event per gesture, no missed deadline |
| Health monitor (`HealthMonitor.c`) | per-task deadlines, leases, a fault mask | `Register`, `Arm`, `Check`, `Progress`, leases, `StableFor` | 32-bit tick wrap-around | faults are stalls, milestones are real |
| Connect transfer (`ConnectTransfer.c`) | a receiving session | begin, accept, complete, confirm, cancel, time-out | late or duplicated blocks, a sink that fails | only a whole file is verified |
| AT channel recovery (`AtChannelRecovery.h`) and ML307 modem (`ml307_ssl.c`) | recovery state; a transaction plan | quarantine, restart, probe; install and prepare TLS | URCs and late answers between a command and its response | success means configured; the channel always comes back |
| coreMQTT (`Src/MQTT/core_mqtt.c`, `core_mqtt_state.c`) | tables of outgoing and incoming publishes | publish, acknowledgements, connect, resend | connections that break inside an exchange | QoS promises, nothing stuck |
| Codecs (AT, Modbus RTU, HTTP range, EWM103), firmware signatures | none | format, parse, verify | | not modelled: pure functions |
| Tracealyzer/RTT, nanopb, monocypher | third-party | | | not modelled |
| Sensors, radio, displays, cameras, utilities, HAL ports | register level I/O | | | not modelled: no order of steps of their own |

Interactions. `Bootloader_Run` calls the policy with the newest payload of the upgrade log and
persists what the policy answers by appending to that log; it reads and writes firmware slots,
which sit on partitions, which sit on a backend (W25Q). The application calls the same log and
slot code to download a candidate and to confirm a trial. The queue keeps its epoch in a dual
bank store. The log, the dual bank store and the storage log share the committed records of
`storage_record.c`. The Modbus worker, the RS-485 feeder and the UART interrupt meet at RTOS
queues; the line collector is fed by the UART and told of its losses; the modem transaction runs
on an AT channel that the recovery takes out of service.

## 2. Plan

Done, in this order: the bootloader with its policy and the log it writes to; the record queue;
the other stores in Flash (dual bank store, storage log, firmware slot, partitions over the
driver); the links (Modbus, UART, line collector); the small state machines (button, health
monitor, connect transfer); the sessions (coreMQTT, modem set-up over the recovering channel).
Two refinements tie layers together: `Bootloader` *uses* the register that `UpgradeLog`
*implements*, and `FirmwareSlot` implements `SlotRegister`, which is the one-step slot `Bootloader`
assumes.

Proved: every safety property and both refinements the passing runs check, except the one of the
line collector (section 7). Left to model: `W25Q_EraseChip` and coreMQTT's keep-alive.

## 3. Modules and how they correspond to the code

**BootPolicy** is `BootloaderPolicy_Decide`. `Payload` keeps the four fields of
`UpgradeStatePayload` a decision reads: `state`, `trial` (`trial_boot_count`), `wd`
(`watchdog_resets`), `att` (`phase_attempts`). Versions, lengths, CRCs, `reset_reason` and
`last_error` are written but never decide anything. `CounterMax` is 2^32 - 1 in the code.

**Bootloader** is `Bootloader_Run` and what it calls in `bootloader.c`. `pc` names the next call
that reads or changes something durable; `ram` is Run's copy of the payload, `partial` is
`app_may_be_partial`. A step makes at most one durable change, so a `Reset` can fall between any
two. Contents of the application Flash and of slots are pairs (`vec`, `body`): `vec` is the image
whose vector words are in place, which is all `Bootloader_IsAppValid` looks at, `body` the image
whose remaining bytes are. An erase first takes the body and may leave the vectors
(`InstallErase`), programming goes body first, vectors last (`InstallCopy`, `InstallVectors`).
A slot is a register: its manifest check (`StorageFirmware_IsValid`) is `SlotIsValid`. Every
call on the external Flash may fail when `StorageFaults`, every internal erase or program when
`FlashFaults`; a failing call leaves either outcome. The application appears as three actions
written from the flow README.md:106-112 prescribes (`AppBeginDownload`, `AppRequestInstall`,
`AppConfirm`); it is product code and marked external.

**BootHistory** adds counters that only observe `Bootloader` (erases, rollbacks, unconfirmed
starts) so that limits across many boots can be stated.

**RecordRegion** is the scan of `storage_record.c`. Records of the upgrade log have one length, so
a region is a sequence of slots. Words that are not records are told apart by what the scan does
with them: it stops at an erased word, which is also what the commit word of a torn record is
(`Hole`), and passes over other garbage (`Garbled`).

**UpgradeLog** is `StorageUpgrade_Init/Append/Compact` with `StorageBank_Switch`. Each action is
one program or erase. `Interrupted` gives what the Flash may hold when the operation at `pc` is cut
short; both `Crash` and `Fail` use it. The log region has two sectors and one record straddles
them, since 68-byte records are not aligned to 4-KiB sectors. `SeqMod` stands for 2^32.

**UpgradeRegister** is what the log promises: a value, an append in progress, and the one hole in
the promise (`shadowed`, see the findings). `UpgradeLog!Register` is the refinement mapping (the value
is what the next `Init` would load) and `Bootloader!Register` maps `Bootloader`'s use of the log to
the same register, so the two fit together: what `Bootloader` assumes is what `UpgradeLog` provides.

**DurableQueue** is `DurableRecordQueue.c`. Every operation holds the transaction from its first
to its last Flash access and nobody else writes the region, so each is one action; where a call
or the power fails, the action leaves any of the contents the interrupted operation may have left
(`HalfWritten`, `HalfErased`, the two values of an ack word). `ram` is the `DurableRecordQueue`
with the summary bytes; `Load`, `SetSlot` and `Quarantine` are its three helpers and map `ram` to
`ram`. `Find` is `FindSlot` with its loop written as "the lowest pass whose sector has the flag".
`owed` and `newest` only observe: what the caller was promised, and the identity given last. A
restart (`Start`) may happen at any time, which also stands for a power cut between operations.
The dual bank store of the epoch is one register; a save that fails may have taken effect.

**DualBankStore** is the store on two `RecordRegion` banks. Every program and every sector erase of
a `Save` is a step of `job`; `StoreMishap` lets a step fail, be cut short or a committed record
decay. `mode` is the way a product uses the store: `legacy` (Init), `strict` (InitStrict), `prepared`
(PrepareStep and SavePrepared, with the owner's byte cursor in `store.prepared`). `promise` and
`attempt` are histories of what was answered OK and of what was being stored.

**StorageLog** is the ring. The caller serializes the calls, so each is one action, with a second
action (`...Breaks`) for what an interrupted call leaves. A sector is a header (generation) and
slots; `receipt` is what a reader holds and `owed` what it still has to see. `IsNewest` is the choice
`Init` makes among the sectors with a header: the highest generation, the first of equals.

**SlotRegister** and **FirmwareSlot**: a slot holds nothing or one announced image; the detailed slot
has a manifest sector and an image area of blocks, a block being the set of its programmed bits so
that programming is union. `ImplementsSlot` is the refinement.

**W25Q** and **StoragePartition**: one call at a time (the backend's lock) is a sequence of SPI
transfers (`PollStatus`, `WriteEnable`, `ProgramPage`, ...) to a chip that is busy for a while, ignores
commands and reads as ones meanwhile; `SpiFault` fails a transfer after all, part or none of it
arrived, `ControllerReset` restarts the driver and not the chip. The content is the set of programmed
addresses. `StoragePartition` checks and maps the calls; `programmed` and `touched` are what callers
may rely on.

**Rs485Core**, **ModbusMaster**, **ModbusQueue** are composed by EXTENDS: one feeding task, one worker that
calls `ProcessOne` and, inside, `ModbusMaster_Execute`, submitters and consumers. Each RTOS queue call
is a step; `Feed` on a full queue is the two calls of the code. A fragment carries its age (asked for
by this try, still under way when it began, or already stored), which is what the properties are about.

**UartReceive** has the interrupt (`RxEvent`, `RxError`) interleaved with every shared access of the
serving task (`Look`, `Drain`, `Clear`, `Report`, `Deliver`, `StoreRestart`), in both builds. A chunk is
represented by what was lost before it.

**LineCollector** takes one byte per step, by `FeedFrames` or by the older `Feed` (`framed`). `discarding` names the six modes of the code, and `length`
doubles as the rest to be drained, as there. The header parser of `ModuleFrameParser.c` is a fold of
`ScanByte`. The protocol has one quoted and one numeric field where EWM103's has one more numeric
field in front. `Lose` removes bytes and calls `Invalidate`, which is what the UART's loss callback is for.

**Button** has a real time (`time`, of which the code sees `TickAt(time)`), the edges an interrupt
stores with their ticks and the passes of `Button_Process`; `ideal` is an observer that sees every edge at once, and `EdgeLost` is an edge the
controller misses. **HealthMonitor** takes one millisecond at a time modulo `ClockRange`; `life` and
`calm` count without wrapping. **ConnectTransfer** gets any block of any file at any time; a CRC stands
for the bytes it covers; `ticks` wraps around.

**MqttSession** has the two record tables with their compaction, the packets in both directions, the
application of `core_mqtt_state.h`'s example (its loop is `Resend`) and a broker. `Drop` loses everything
under way, `Forget` the broker's session. `Picked` is what a compaction leaves: the records at some
places of a table, in their order.

**AtRecovery** is the recovery's transition function; **ModemTls** adds the transactions, the modem, both
directions of the line and the product's adapter, which `Inc/ML307/README.md` describes. `Settings`
are the options that are set and queried, in their order (`Options` in the code); `stale` only
observes whether the installation of the certificate began while something was still on its way.

**MCBootloader**, **MCUpgradeLog**, **MCPartition** give constants. **MCLinks**, **MCStorage** and
**MCDevice** explore several components in one run: `part` says which one moves, the others keep an
initial state, so the state spaces are added and not multiplied. The bootloader is a part of two of
them: of `MCStorage` with failing storage, of `MCLinks` with a log that works.

## 4. Runs

| Run | Question | Bounds | States |
|---|---|---|---|
| `MCLogFaults` | the log refines the register; sequence numbers stay comparable; cuts alone never make an append fail or lose an acknowledged payload | 3 records, 2 values, sequence modulo 16, 2 mishaps | 543,000 |
| `MCStorage` | boot, with resets and faults everywhere: no torn image runs or is backed up, torn is marked, something is left to install, intent before erase, a trusting boot destroys only what it backed up, the log is used as a register, the erases for one candidate are bounded; the dual bank store finds what it promised, RAM agrees with Flash; the storage log's reader is never misled, finds the newest, misses none | boot: 2 good images and one with bad vectors, limits 2, counters saturate at 2, install requested with either state; store: banks of 2 slots, the second straddling two sectors, sequence modulo 12, 2 mishaps; log: 2 sectors of 2 slots, 5 records, 1 clear, 1 mishap | 654,000 |
| `MCLinks` | one result for each request and never from a stored answer; losses reported before what follows, everyone served; lines and frames kept apart; a modem set-up ends, and ends only when the modem is configured; an unconfirmed image is started at most `MaxTrial` times and a started upgrade ends | 2 requests, 2 priorities, queues of 1, 2 ports; the 23 records of `ModemRecords`, buffer 14, any loss; modem: 4 settings, 3 mishaps; boot: 2 images, limits 2, the log works, internal Flash may fail | 265,000 |
| `MCDevice` | gestures; faults and milestones; whole files and time-outs; the record queue; MQTT exchanges; Flash as told; the slot as a register | see below | 1,050,000 |
| `MCBootBackup`, `MCBootPhase`, `MCLogShadow`, `MCLogLost`, `MCUartGap`, `MCLineNul`, `MCMqttResend`, `MCFlashBlock` | expected violations, section 6 | | |

Why the bounds are enough. *Boot*: two images are the running and the new one; a third with implausible
vectors is what `IsAppValid` rejects. Limits of 2 tell first attempt, retry and exhaustion apart,
and `CounterMax = 2` makes saturation meet the limits. Resets are unbounded in every run
with the bootloader. *Log*: three records make a log with a first, a straddling and a last slot; sequence numbers modulo
16 wrap around every few compactions, and behaviours are unbounded, so every phase of the
wrap-around is visited. Two mishaps are a cut within the recovery from a cut, or a failed append
followed by a cut. `SequencesComparable` does need that bound: a sector that a cut spares in
*every* compaction ages without limit, which takes 2^31 appends in the code. Section 7 proves the
properties of this run for any number of mishaps that the range of numbers allows, which is more
than 24 numbers for two mishaps in a log of three records; the run keeps to 16, for time. Modulo 25 it
was made once (2.4 million states, with the invariant of the proof) and agrees.

*Queue* (3 sectors of 2 slots, cache of 1, 2 epochs of 3 records, 2 mishaps): three sectors and a
cache of one (two in the code) evict all the time; two slots make a sector full, part-used and empty;
six records over two epochs fill every slot and reuse reclaimed ones. The width of epoch and
sequence is itself the bound: at `EpochMax` `Init` refuses, at `SeqMax` `Append` does, as the code
does at `UINT32_MAX`. *Stores*: two slots in a bank make every other save switch; a straddling slot
makes the erase of a bank two steps. The log wraps around its ring in five records; the larger
instance with three sectors and seven records was checked once and agrees (924,000 states).
*Button* (queue of 2, at most 4 edges, 1 lost): a press of each class, bounces, an overflow. *Health*
(deadlines 1 and 2, lease 2, clock modulo 6): the clock wraps around within two deadlines; deadlines
3 and 2 with modulo 8 were checked once (557,000 states). *Transfer*: files of two and three bytes in blocks of at most two,
a clock modulo 5 with a timeout of 2. *MQTT* (`SmallBudgets`, tables of 3 and 2 records): identifiers
are reused, tables get holes and are compacted, a connection breaks at every packet. *Flash* (8 addresses, pages of 2,
sectors of 2, blocks of 4, 2 faults): writes over a page boundary, both erase units, a read-only
partition. *Modem*: encoding, a certificate, the clock and the query that may come without a value
stand for the 8 settings; three mishaps are a restart, and another during the recovery from a lost
answer. An installation that succeeds on another one's answers and is stored damaged takes five
(section 6; TLC finds it with one setting if `~stale` is left out); section 7 proves the property
for any number. *Links*: queues of 1 are always full or empty, so every refusal and every overflow occurs;
one retry tells first try and last try apart. *Collector*: lines at, just over and well over the buffer's
capacity, a frame that just fits and one that just does not, bodies with line ends, NULs and whole
frames inside, malformed headers and tails; a record may be preceded by any other and by any loss.

Deadlock is checked in every run.

## 5. Fairness

- `MCLinks`, boot: `WF(Reset)`: a watchdog or a user eventually resets a board; `WF(Decisions)`: the
  processor runs after a reset; `SF(PersistPolicy)`: resets do not strike every boot before its first
  append. Nothing is assumed about the later steps of a boot, so a reset may interrupt every single
  install: the attempts counter alone ends the upgrade.
- `MCLinks`, modem: weak fairness of the host's steps (the adapter's task runs and its time-outs
  expire), of the modem (it answers or has a mishap, of which there are finitely many) and of the end of
  an abandoned body.
- `MCLinks`, Modbus: weak fairness of the worker and its transaction, of the consumer that collects results, and of
  the line and the feeder. UART: weak fairness of the task's steps inside a visit, strong fairness
  of the visits, because the interrupt may always interrupt but does not starve the task.
- `MCStorage`, log: a log that is down is opened again, the reader calls `NextPending`, and an
  acknowledgement that is possible again and again is made.

## 6. Findings and observations

Each finding is a run that TLC must find violated; `PROJECT.json` quotes the lines.

- `MCBootBackup`: the decision `INSTALLING` is persisted before the backup is made; a reset in
  between makes the next boot take the untouched application for a partial one and erase it
  without a backup. An install requested with `INSTALLING`, as README.md:111 says, has that effect
  in every upgrade (set `RequestStates` to `{"INSTALLING"}` in `MCBootBackup.cfg`).
- `MCBootPhase`: README.md:120 allows `BOOTLOADER_MAX_PHASE_ATTEMPTS` erases in one install or rollback
  phase. The boot that enters a rollback phase (trials used up, install attempts used up, application
  invalid, watchdog storm) persists the phase with no attempt counted and erases at once; the boots
  after it may then count up to the limit. With a limit of `MaxPhase` the phase erases `MaxPhase + 1`
  times, without any fault. An install phase keeps the limit (`CandidateErasesBounded`), and one erase
  more is all there is (`RollbackRetriesEnd`, section 7).
- `MCLogShadow`: an append that reports an error after its record was committed leaves its sequence
  number unused in RAM; the next acknowledged append gets the same number and the scan prefers the
  first of the two.
- `MCLogLost`: `Compact` takes a read error of bank A for an empty bank and may erase the only record.
- `MCUartGap`: bytes that arrive while a failed restart of the DMA waits for the task are missed
  without a call of the loss callback.
- `MCLineNul`: ENGINEERING_CONTRACTS.md:58-59 has records with an embedded NUL discarded through LF.
  A NUL as the very byte that shows a record to be text (after `+`, say) is kept: the text callback
  gets it, and the line callback gets a string that C cuts there, where README.md:48 rules truncated
  prefixes out. Anywhere else in a line a NUL drops the line. The record that shows it is in
  `EarlyNulRecords` only; `RecordsKeptApart` is checked with the others.
- `MCMqttResend`: the resend loop of `core_mqtt_state.h` skips a publish, because the first resend
  compacts the table under the loop's cursor.
- `MCFlashBlock`: `Storage_EraseBlock64` in a partition that begins at a sector and not at a block
  erases what lies in front of it.

Seen while modelling, without a run of their own:

- Boot: a rollback after a failed install starts with the attempts of the install (bootloader.c:524). An exhausted rollback is held in `ROLLING_BACK`, where README.md:141
  says `FAILED` (bootloader_policy.c:122-129). When the log fails, `Run` jumps although the
  counted trial could not be persisted (bootloader.c:449; compare bootloader_policy.h:52-53), so the
  limit of trials holds with a working log only.
- Record queue: README.md:64 says that `PrepareOne` with `keep_spare=0` maintains one sector, the code
  reclaims only when no slot at all is free (DurableRecordQueue.c:399, as DurableRecordQueue.h:67
  says). After a restart records are delivered in slot order, not in the order of their identities
  (DurableRecordQueue.c:215).
- Dual bank store: a cut during the erase of the old bank's head may leave its commit word over a
  damaged header; `InitStrict` then fails although the newest record is whole in the other bank.
- Storage log: an append after a failed `Clear`, without an `Init` in between, writes into a sector
  without a header and answers OK; an interrupted `Clear` may leave an old record behind a blank slot,
  which appears again; `Init` compares sequence numbers with 1, so that beyond 2^31 they restart after
  a reboot in the middle of a rotation.
- Firmware slot: `Finish` does not read the image back. A chunk that failed half way must be repeated
  with the same data, or a committed manifest stands over a garbled image, which `IsValid` detects but
  `ReadImage` does not. The model assumes the same data.
- W25Q: `W25Q_EraseChip`, which nothing calls, asks for no successful `Init`; on a chip that was busy
  during a failed `Init` it answers OK without erasing.
- UART: `Start` in the task stores `restart_pending` after it started the DMA and may overwrite the
  interrupt's request for a restart; the port is then deaf. `DeafOnlyByStore` says that this is the only way.
- Line collector: after a loss inside a frame whose body holds line ends, a part of the body that
  looks like a line or a frame is taken for one.
- Button: a release edge that is lost, followed by a second press, can make an extra-long press out of two.
- Health monitor: after a fault other tasks' signs of life are refused, so they may be named too.
  `StableFor` compares modulo 2^32: after 49.7 days of stability it answers "no" again for a while.
- Modem: the end of a recovery does not prove that the channel is in step: an "OK" that was late may
  pass for the answer to its probe. The strict query checks of the transactions catch it. The
  installation of the certificate has no such check (its answers name nothing but the certificate):
  four restarts can leave a prompt, an "OK" and a read-back of an earlier attempt on the line, and the
  next installation succeeds on those while its own body is still on its way; the module then may
  store that one damaged. `ConfiguredWhenDone` therefore speaks of an installation that began on a
  quiet channel (`stale`). `WAIT_MODE` has no time-out of its own: the adapter must report the end
  of the body. A query answered without a value stays incomplete until its time-out.
- coreMQTT: a PUBCOMP that is lost after its record was deleted makes the broker's repeated PUBREL end
  in `MQTTBadResponse`; `lastPacketRxTime` is never written, so that past `PACKET_RX_TIMEOUT_MS` every
  idle `ProcessLoop` without a ping outstanding sends a PINGREQ.

## 7. What is proved

TLC shows a property on the instance of its run, TLAPS for every value of the constants. The only
assumptions are the named ones on the constants (`LimitsAssumption`, `ImageAssumption`,
`QueueAssumption`, `LogAssumption`, `UartAssumption`, `SettingsAssumption`, `BoundsAssumption` and
the like: sizes and limits are positive and fit their counters), which TLC evaluates in every run,
and the hypotheses some theorems state openly: `~StorageFaults`, `LogSectors > 1`, `BlocksAligned`,
`WideEnough`, `WideForAll` and `~BankReadFaults`, each explained where it occurs. No invariant below is
inductive as the runs check it; each strengthened one was checked with TLC before it was proved.

**BootloaderProofs**, for all images, limits, counter widths and with or without faults:
`TypeCorrect`; `JumpsToWholeImage`, `TornIsMarked`, `SlotsAreWhole`, `AlwaysRecoverable` (safety);
`IntentFirst`, `RollbackKept` (what an erase may never do); `RegisterUsed` (`Bootloader` implements
`UpgradeRegister`); `DecideMarks` (what the policy guarantees about markers). That the application
is marked when torn depends on where the boot code is and on what it is about to write. `IInv` adds
`Marked` (between a persisted decision and the end of `InstallSlot` the log holds a marker),
`Unmarking` (an unmarked payload is only about to be written over a whole application), `Trusting`
(which control points imply a whole application), `Copying` (the body is the source's before the
vectors are written), and `Intent`. `NextInv` shows it inductive, by groups of actions with the same
footprint. `BackupOfTrusted` adds `BackupInv`: an unmarked application has vectors in place, the
boot that finds it so is at its first attempt, and it reaches the first erase with the copy made.
`RetriesBounded` (`CandidateErasesBounded`) adds `HistoryInv`: the erases of a candidate never run
ahead of the attempts the newest payload counted, since an install phase counts an attempt before it
acts and a reset may fall in between. Those of a rollback run ahead by one, which is the erase of
`MCBootPhase`; `RollbackRetriesEnd` says that there is never another. `TrialsCounted` (`TrialsBounded`) is the
same argument for starts. Its hypothesis `~StorageFaults` is the one of `MCLinks`; without it the
code has no such limit (section 6).

**ApplicationProofs**, the record queue, for all numbers of sectors, slots, cached sectors and
epochs and any mishaps: `CountRight` (`FreeCounted`), `OwedIsStored` (`OwedStored`), `SearchesMissNothing`
(`SearchesComplete`), `PinnedIsKept` (`AckPinned`) and `IdentitiesGrow` (`IdentityNew`). One
relation carries all of them: `Sound(q, B, D)`, RAM `q` describes the erased slots `B` and the slots
`D` from which a delivery is due. It is asymmetric, as the code is: "pending" may be shown wrongly
but never be missing, "free" is exact outside quarantine. The four helpers that change RAM (`Load`,
`SetSlot`, `Quarantine`, and `Emptied` after an erase) each preserve it; `FindSlot` finds a slot if
`Sound` describes one; then each operation is a few of these lemmas in the order of its calls.
`IInv` adds that what was confirmed is not owed, that a pin outlives everything but a restart, and
that no stored identity is beyond the newest (`Ids`).

**StorageProofs**, `ReaderIsSafe`: `ReaderSafe` for all sizes of a storage log with two sectors or
more and any mishaps. `IInv` says what the next `Init` relies on, at every moment and not only when
it is called: every owed record is found by a scan (`OwedFound`) and precedes the records of the
newest sector when it lies in another (`LatestOwed`, which speaks of all entries of that sector, for
an interrupted rotation leaves some that no scan reaches); RAM points into the newest sector
(`ActiveNewest`); generations are distinct (`Distinct`); a receipt is of the newest generation or of
an older one (`ReceiptKept`). After a failed `Clear` nothing is owed and `ActiveNewest` is suspended until the next `Init`
(`Trusted`), and nothing is said of receipts any more, as in `ReaderSafe`.
That there is a newest sector at all is `FirstExists`, minimal elements of finite strict orders. The
hypothesis `LogSectors > 1` is needed: `StorageLog_Init` accepts a region of one sector, in which a
rotation that breaks off after the erase leaves no header, and the next `Append` answers OK and is
lost (TLC finds it with `LogSectors = 1`).

`RecentIsRight`: `RecentAreNewest` under the same hypothesis. The scan of `StorageLog_GetRecent` is a
recursive function of the places visited. That it exists, and that after each place it holds the
newest of those visited so far, is shown by `Upward`, an induction over `0 .. n` drawn from the
well-foundedness of finite subsets, as the induction theorems of the library, which take an operator
as parameter, cannot be used.

**RecordProofs** are the lemmas the two stores with wrapping sequence numbers share: `FindLatest`
answers the first of the newest records it reaches, and says "none" when it reaches none, for every
region and every range of numbers, if its records lie within half the range of one another; `Age`, how many numbers lie between a record and the next, turns `Storage_SeqIsNewer` into
an order.

**StoreProofs**, `StoreFindsSnapshot` (`SnapshotSurvives`) and `RamIsRight` (`RamAgrees`): for
banks of any size, with or without a straddling record, in all three modes of use, any number of
cuts, failed calls and decayed records. `StoreInv` says which bank is live: its `k` records have the
ages `k .. 1` and behind them is at most one slot that is not blank (`LiveBank`); whatever is left in
the other bank, in any place, is older (`OldBank`). At each step of a save it adds what RAM, the job and the other bank are
(`Clearing`, `Writing`, `Verifying`, `Retiring`). A failed call or a cut in the middle of a switch
leaves either bank live, and both choices satisfy the same predicate, so any number of them does. A
decayed record says nothing against the invariant of a strict store, which refuses to answer; the
legacy `Init` takes the next best, after which nothing is claimed (`Kind`). `WideEnough`, `SeqMod > 4 * BankSlots`, keeps
the records of two banks comparable; in the code it is 2^32.

**UpgradeProofs**: `NumbersStayComparable`, `OnlyFaultsFail` (`CutsOnlyDelay`),
`PowerCutsAreHarmless` (`CutsLoseNothing`) and `LogImplementsRegister` (`ImplementsRegister`), for
logs of any length and any straddling. `UpgradeInv` is `Phases`, what the next operation of an append
or a compaction may rely on, and `FlashHolds`: no record was numbered longer ago than `Recent`
allows, and the newest one, which is where `Init` looks first among equals (`BankIsNewest`,
`LogIsNewest`), has the age the operation at `pc` leaves. The first part is what makes the others possible and
is where the argument lies: a compaction that comes to its end leaves nothing older than its own
snapshot, so old numbers survive only when each compaction since was cut short, and between two mishaps at most
`LogSlots + 1` numbers are given out. So `Bound(m) == (LogSlots + 1) * (m + 1)` holds for the age
after `m` mishaps, less the room that is left in the log. `WideForAll` says that twice the bound for
`MaxMishaps` is below the range of the numbers: with 2^32 of them, for any log of `L` records, about
2^31 / (L + 1) cuts and failures in a life. A read error of a bank (`BankReadFaults`) is excluded, for
the code then may erase the only record (`MCLogLost`).

**LinksProofs**: `LossIsReported` and `DeafenedOnlyByStore` for every ring size and any number of
ports, `BusQueueSafe` (`ModbusSafe`) and `AnswersAreFresh` (`StoredNeverTaken`) for all requests,
priorities, depths and retry counts. `UartInv` says at each point of a visit what the interrupt may
have done since: a ring with a gap has its loss latched (`LossLatched`), what the task took out
after it saw no loss is clean (`CleanAtGet`). `MasterInv` orders the ages of fragments along the
line, the feeder and the queue, and says that none is "stored" from the flush on (`StoredFlushed`);
that the feeder may hold one across the flush is what makes it more than the emptiness of a queue.
`QueueInv` puts each request in exactly one of the queues, the transaction, the pending result and
the results (`OnePlace`), from which follows that no result is lost, repeated or without room.

**StorageProofs**, partitions and slots. `FlashKeepsItsWord`: `FlashAsTold` for every chip, page size, table and
number of faults, if partitions begin at a multiple of every erase unit they offer (`BlocksAligned`;
`MCFlashBlock` shows what happens without). The invariant follows a call through the driver: what
the chip holds and will hold when it comes to rest lies between what must be programmed and what may
be, and a stage behind the ready latch finds the chip at rest.

`SlotImplementsRegister`: every step of a firmware slot is a step of
`SlotRegister` or a stutter, for all images, blocks and slot sizes. The invariant says that a
readable manifest announces exactly what is stored, and that a writer has written what it streamed
so far and at most a part of the block it is at.

**ApplicationProofs**, the rest. `TransferVerifiesWholeFiles` and `TransferTimesOut`: for all files,
block sizes, timeouts and clock widths. The first rests on the running CRC covering exactly what the sink
accepted, a prefix of the announced length; the second on the tick of the last progress lying
exactly `idle` ticks back, as long as the session is polled before the clock wraps around.

`HealthIsKnown`: for all tasks, deadlines, leases and clock widths, as long
as the monitor is polled within half the clock's range. `HealthInv` relates each task's wrapped tick
to the real time since its last sign of life (`Attentive`) and the start of stability to `calm`
(`Milestone`). The proof corrected the model: an earlier form of the property, that a stalled task
is *always* named, held only in its small instance.

`GesturesAreRight`: `GesturesRight` for all debounce and hold times, capacities of the edge queue, numbers of edges and starts of the tick counter, over less than one revolution of it
(`EndOfTime < Ticks`, 49 days in the code), in which it wraps around at most once. The observer has
seen edges that the button still holds in its queue, so the two cannot be compared directly. `ButtonInv` puts an observer behind every queued edge
(`Chain`): the first is in the state of the button (`Agrees`), each of the others comes from the one
before it, and what the last would make of the present is what `ideal` makes of it. `AdvanceFollows`
shows that `Advance` does to the button what time does to the observer, or finds the event it is told
next; `StoppedFollows` that a call which stops at an event may tell it to the whole row at once
(`ToldLater`, `AnswersLater`). The loop over the edges is a recursive function; that it exists and
keeps what each turn keeps is shown by `Upward` once more.

**LinksProofs**, the modem. `ModemIsConfigured`: `ConfiguredWhenDone` for any settings in any order and any number
of restarts, refusals, lost lines and late answers. `ModemInv` follows the line. A value that answers a query holds, or the
report of a restart is behind it (`Truthful`, for what is on its way and for what was received), and
that report is lost only while the channel is being recovered, when no transaction collects lines: so
what was verified is still set or the report of a restart is yet to come (`Verified`, `AllVerified`).
An installation that began on a quiet channel has at most its own command under way, and an answer of
the kind it waits for is the one to that command (`InStep`). After one that was verified no payload is
ever sent again (`CertificateKept`). The proof corrected the model, too: the property without `stale`
held in its small instance only.

**MqttProofs**, `ExchangesAreSafe` (`ExchangesSafe`) and `NothingGetsStuck` (`NothingStuck`), for tables
of any length, any budgets and identifiers, and connections that break, resume or begin anew at any
packet. `ExchangeInv` has these parts. `Structure` is about the tables and the application, and always
holds: records have different identifiers and states their quality of service allows, the
application keeps just the messages of open records, and publishes lie in the table in the order
they were made, PUBRELs in that of their PUBRECs, through every compaction. `OutExchanges` and
`InExchanges` relate both ends of an exchange and what is between them: no identifier has two packets
on its way (`Orderly`), and the packet, the record here, and what the broker holds or delivers
agree (`OutPackets`, `InPackets`; `OutAgreed`, `InAgreed` where nothing is under way), which is
how the acknowledgement of one message is not taken for that of the next with its identifier. A resend after a
reconnection starts from nothing under way and has not sent yet what is before its cursor
(`NotYetSent`). `Promised` is what `ExchangesSafe` is after: nothing delivered twice, nothing finished
or acknowledged that did not arrive. All but `Structure` end, as `Delivery` and `NothingStuck` do, when
the two ends take different views of the session (`mixed`): the broker began a new one and the client,
which never saw the CONNACK, keeps its records of the old.
`Picked` and the lemmas about the places of a table (`Enumerates`) carry order and identity through
compaction.

Only model-checked:

- all liveness (`UpgradeEnds`, `ModemConfigured`, `EveryoneServed`, `OwedDelivered`), which is out
  of this prover's reach together with ENABLED;
- `RecordsKeptApart` of the line collector: it speaks of the 23 records of `ModemRecords`, as bytes, one
  after the other; a general form would need a theory of the text the modules send, which the code has
  nowhere but in its scanners;
- what the runs of section 6 refute, and the theorems' statements where their hypotheses do not hold.

## 8. Not modelled

- Pure functions of their input: the AT, Modbus RTU and HTTP range codecs, the EWM103 facade, the
  check of firmware signatures, the AT session's append buffer and the stateless frame parsers (other than the header parser
  of the collector). The models that use their answers tell the answers apart that matter.
- Third-party code (nanopb, monocypher, Tracealyzer, RTT), which makes up most of the lines of the
  repository together with displays, cameras, sensors and HAL ports. These are register tables, pixel drawing and
  single bus transactions without an order of steps to get wrong; the internal Flash and watchdog
  ports are represented by what they may leave behind.
- Parts of modelled components: `W25Q_EraseChip`; of coreMQTT the serializer, keep-alive, subscriptions and
  QoS 0; of the ML307 the commands other than the TLS set-up; argument
  checks, statistics and diagnostics everywhere.
- Contents of payloads beyond what decides; silent corruption, that is, a program that reports success and
  stored something else (decaying records of the dual bank store and the queue are modelled); product code other than the external
  actions named in the modules.
