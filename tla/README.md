# TLA+ model of tesla-key-esp32

The firmware in `src/main` turns an ESP32 into a Bluetooth key for a Tesla: it holds a private
key, pairs it with one vehicle (a VIN), keeps a BLE link to it, and carries out commands that
arrive over HTTP, MCP or MQTT. This directory models the parts of it where a wrong order of
events costs something: a car that opens twice, a caller told "failed" about a command that
happened, a device that signs with half of a new identity, a link that is never picked up again.

1. [Inventory](#1-inventory)
2. [Modules](#2-modules)
3. [Runs](#3-runs)
4. [Findings](#4-findings)
5. [Proofs](#5-proofs)
6. [What is not modelled](#6-what-is-not-modelled)
7. [Plan](#7-plan)

To repeat the checks: `tlc -workers 2 -config <X>.cfg <module>` for a run of section 3 and
`tlapm <module>` for the proof modules of section 5.

## 1. Inventory

`PROJECT.json` lists every component with its sources and every hazard with its line. The threads
of the running device are `vehicle_loop` (one iteration every 50 ms), the NimBLE host task, the
HTTP worker, the auto-pair supervisor, the MQTT client and its publisher, the OTA coordinator and
its TLS worker, the event task of the network, the LAN watchdog, the syslog task and the heap
supervisor; `app_main` runs first and alone.

| Component | State | Operations | Hard part | Correct when |
|---|---|---|---|---|
| **Command runner** (`command_runner.hpp`, `vehicle_commands.cpp`) | FIFO of commands with phase, deadline, retries, `payload_maybe_sent`; completion and generation | enqueue, tick, transmit, timeouts, replies, flush, pop | a retry of what the vehicle may have done; a caller that gives up while the loop transmits | a mutating command is carried out at most once; answers to callers are true and stay true; every command leaves |
| **Dispatcher, reply matching** (`ble_dispatcher.hpp`, `vcsec_response.hpp`, `session_state.hpp`) | request slots, VCSEC reply context, sessions, anti-replay window | register, match, release, authenticate | late, duplicated and unauthenticated replies | a reply is applied only to the request it answers; no slot leaks |
| **Vehicle identity** (`vehicle_pairing.cpp`, `key_rotation.hpp`, `vin_transition.hpp`, `main.cpp`) | key, sessions, dates and VIN in two NVS namespaces; two journals; RAM gates | first key, rotation, VIN change, cleanup, boot recovery | power loss between commits; a commit that reports failure and happened | the device signs only with one consistent identity, and repairs tears |
| **Bluetooth link** (`ble_client.cpp`, `ble_readiness.hpp`) | about a dozen atomics, `intent_mutex_`, connection generation | connect, stop, disconnect, discovery, host callbacks, `service_pending` | a callback that may not wait and loses the mutex; reused handles; failing NimBLE calls | a ready link is wanted and fresh, retirement and attempts end |
| **Deferred events** (`ble_deferred_queue.hpp`, `vehicle_telemetry.cpp`) | bounded ring, overflow flag | push, pop, overflow, apply | a full queue; LinkUp and LinkDown of two links | no lost barrier, no bytes framed across a gap |
| **RX framing** (`rx_framing.hpp`) | partial frame | append, reset | length prefix edges | frames are those that were sent |
| **Telemetry polling** (`wake_poll.hpp`, `telemetry_poll.hpp`, `link_state.hpp`) | due times, wake windows | choose a poll, warm the link, drop it | a poll that keeps the car awake | the car is let asleep, data is refreshed |
| **OTA** (`ota_*.cpp`, `health_gate.hpp`) | worker job, leases, operation gate, boot slot, probation | check, download, select, cancel, confirm, roll back | a cancel or deadline after the boot slot changed | one durable effect at a time; a bad image is rolled back |
| **Boot guard, heap supervision** (`boot_guard.hpp`, `heap_*.hpp`, `safe_mode.cpp`) | persistent restart budget, admission, start gates | charge, restart, latch safe mode, admit | a charge whose commit is uncertain | no restart loop, no early latch |
| **Network** (`net.cpp`, `wifi_rollback.hpp`) | trial and proven credentials, two transports | set, prove, roll back | power loss around the commit | the last proven pair survives |
| **Configuration** (`config_store.hpp`, `config_commit.hpp`, `config_repair.hpp`) | one blob and legacy keys | load, commit, repair | torn or unknown commit | RAM follows flash |
| **MQTT** (`mqtt_ha.cpp`, `mqtt_state_lifecycle.hpp`) | client lifecycle, probe owner, discovery | start, replace, probe, publish | late callbacks of an old client | one client, no stale state |
| **HTTP, MCP** (`http_*.cpp`, `mcp_server.cpp`) | effect replies | route, execute, answer, restart | a reply owed before a restart | the answer matches the effect |
| **Syslog, diagnostics**; **boards, build, web pages** | output only | - | - | - |

How they interact. HTTP, MCP and MQTT tasks call `VehicleController` under `command_mutex_`, put a
command in the FIFO and wait for its completion. `vehicle_loop` drives the FIFO under
`vehicle_mutex_` and writes frames through `BleClient`. The NimBLE host hands link events and
received bytes to `vehicle_loop` through the deferred queue and touches `BleClient`'s atomics
directly. Identity changes hold `command_mutex_` and an OTA lease, and close the signing gate that
`vehicle_loop` reads. Boot recovery runs before any of the tasks. One compare-and-swap word, the
operation gate of `health_gate.hpp`, is what an update, an identity change, a health commit, a
configuration restart and a deliberate heap restart exclude each other with. The network part
publishes which transport is up; MQTT, syslog and the updater only read that.

## 2. Modules

### CommandRunner, MessageFault, CommandService

`CommandRunner` composes the runner with the dispatcher, the session trackers, the shell in
`vehicle_telemetry.cpp`, the waiting callers of `vehicle_commands.cpp` and an external vehicle.
An action is one critical section of `vehicle_mutex_`: `Drive` is `drive_command_runner_` with the
BLE write inside it, `Rx` the handling of one received message, `Link` the link events, `Callers`
what the task with `command_mutex_` does step by step (enqueue, wake up, time out, take the failure
snapshot, flush, pop), `Time` the passing of time, `Car` the vehicle. `MessageFault` holds the pure
fault decisions of `command_fault.hpp`.

- *Time.* The code compares clock values only with bounds, so the model keeps the answers: `due`
  for the head's current wait, `expired` for overall deadlines. Either can become true at any moment
  it can in the code; the relation between the lengths of two timeouts is not used by any property.
- *The FIFO* is the interval `front .. next-1` of command ids; ids never return.
- *UUIDs* are numbers, fresh among those in use (the code draws 16 random bytes).
- *The vehicle* is external. It may act on a payload frame or refuse it, answer, stay silent, answer
  late or twice, and send faults, authenticated or not; replies overtake each other. A failed write
  may have left its frame in the air.
- *Refutation.* Only an authenticated refusal proves that the vehicle did not act. This is what the
  protocol promises and the one assumption about the vehicle that `AtMostOnce` needs.

`CommandService` is the abstract promise to the caller of a mutating command: `Accept`, `Execute`
(once), `Abandon` (never executed later) and `Tell`. The refinement mapping is in `CommandRunner`:
a command is *void* once it is over or past its deadline with nothing submitted, *open* otherwise.

### Identity

One step per NVS commit. `Writes` gives a commit its outcomes: done, failed without effect, failed
although it happened. `PowerLoss` can follow every step and keeps only `durable`. `tx` is
`generate_key_locked_` with its cleanup, which three callers share (boot, `/gen_keys` and
`/set_vin`, the supervisor); `rot` is the `key_rotate` journal, `txn` the `vin_txn` journal with the
previous VIN and key. `BootJournal` .. `BootGenerated` follow the recovery in `main.cpp`, which is
itself a row of fallible writes. `SetupPortal` is the VIN save of the provisioning portal.
`RequestSession` and `EstablishSession` are the two ends of a handshake of `vehicle_loop`, so that a
session of an old key can arrive after the key changed. `madeFor` is history: for which VIN each key
was generated. Key bytes, MACs and dates are reduced to whose they are.

### BleLink

The three threads of `BleClient`: `cmd` (a command or request), `loop` (`vehicle_loop`) and the
NimBLE host. Tasks wait for `intent_mutex_`; a host callback only tries it and has a branch for
losing. A task's critical section is therefore two steps (body, release), and a publication by the
host is two steps with an odd generation in between, exactly the window the atomics leave. The
controller holds one link and one GAP procedure and reuses one connection handle, the worst case for
stale terminations. The deferred queue has the code's merging of notifications into a cell
(`CellChunks`) and its overflow; `LoopPop` .. `LoopUnwind` are the application of an event, with
`complete_ready()` and its recheck as steps of their own. `FaultKinds` names which NimBLE calls may
fail.

Abstracted: service, characteristic and descriptor discovery are one GATT stage; the framer is
the list of notifications it holds, and where a frame ends, or times out, is a choice; a notification
split over two cells, the MTU exchange, the chunks of one write, RSSI and the list of nearby
vehicles are left out.

### OtaTransfer and OtaUpdate

`OtaTransfer` is one firmware operation: the coordinator task that owns the flash writer and the
operation gate, the TLS worker that only fills a one-block mailbox, and the control word of the `Job`
both change by compare-and-swap. The worker may stay in an SDK call for ever, so retirement is
one-sided and memory is reclaimed by a *later* reservation. Redirects, the length and hash verdicts,
the three outcomes of the boot selection, a deadline and a cancel at any point are in it. The bytes
are counted in blocks; a block has a verdict, not a content.

`OtaUpdate` is the service above it, where an exchange with the server is one step: the gate,
the channel and its revision, the offer a check publishes and an install must name by generation, the
deferred check of the web page (`ota_check_after_http_work`), the coordinator as far as status and
lease go, uploads, and over boots the probation, the health commit and the bootloader's rollback.
Identity changes, configuration restarts and fault restarts appear as the other users of the gate.
Gate and identity journal are two things: a request arms the journal under the gate (`JournalArmed`)
and may return the gate with the journal still armed (`IdentityEnds`: the marker's outcome unknown, or
the cleanup pending), the supervisor's retry closes it without the gate (`JournalRetired`), and boot
recovery may fail to close it. `journal` is the number of the boot that armed the open one.

### Boot

`app_main` up to admission, the NimBLE host gate, the two task gates, the crash counter and the
breadcrumb in flash, safe mode and the heap supervisor with its sealed restart. A reset may come
between any two steps, and a flash write may fail with or without effect. `ledger` and `crumb` are
flash, the rest is one boot.

### WifiTrial, NetLink, EthStart, PingProbe

- `WifiTrial`: new credentials from `POST /set_wifi` over boots: staging with the backup, the boot
  window with its reason-aware deadline, commit, rollback, the portal. The disconnect reason is the
  code's one global.
- `NetLink`: station and Ethernet drivers, the event task that turns driver events into leases with
  generations, `recompute_link()`, the boot window, the retrying portal, and the watchdog whose
  reads around a probe are separate steps, as are its last comparison of the generations
  (`WdCompare`), the call that takes the driver down (`WdReset`) and, 200 ms later, the one that starts
  Ethernet again (`WdRestart`): no lock holds between them and the event task runs. `proof` is history: per lease generation, which gateways
  have answered a probe, and which one has been silent since, how often.
- `EthStart`: the chain of twelve fallible acquisitions of `net_start_eth()` and its teardown, where
  a release may fail too.
- `PingProbe`: generations of `esp_ping` sessions under one persistent control block, with callbacks
  that come after the caller gave up.

### Mqtt, Syslog

`Mqtt` has the client's event handler and the publisher task, the three atomics between them (each
access a step), the outbox (admission is no delivery) and the broker's retained messages: discovery
rows, availability and one state per domain. `Syslog` has the start with its gate and its unwinding,
`syslog_send()` running in any task, and the forwarding loop with the resolve throttle, the failure
latch, exceptions and the boot replay.

### WakePoll

When `vehicle_loop` asks the car for its charge state and when it lets go of the link: the active
window, the falling edge with its recheck under `command_mutex_`, `WakePollState`, and the health
probe and commands as the other owners of the mutex. The car, its sleep and the age of every
reading are the environment. `refreshed` and `extra` are history: whether the cache has been fresh in
this awake episode, and how many one-shots fired after that.

### AntiReplay

The replay window of one request slot: `AntiReplayWindow::add()` in its three ways to admit a counter
and its two to refuse one, `is_valid()`, and the one reply without a counter that `dispatch()` lets
through. The bitmap is the set of its one bits. The reference it is compared with, `Admissible`, is
told by the whole history of the request.

### Modules for TLC

`MCCommandRunner`, `MCIdentity`, `MCBleLink`, `MCBoot` and `MCOtaUpdate` give constants. `MCNetwork`
(WifiTrial, NetLink, EthStart, PingProbe, Syslog), `MCServices` (OtaTransfer, Mqtt, and CommandRunner
and Identity for their liveness) and `MCLink` (BleLink, WakePoll, AntiReplay) put several parts that share no
variable under one run: `part` says which of them a behaviour moves, the others rest in an initial
state. Every step of every part is explored and none of the products. Where parts *do* share
something in the code, the model that needs it has it: the gate is in `OtaTransfer`, `OtaUpdate`,
`Boot` and `Identity`, the mutex in `Identity` and `WakePoll`.

### Proof modules

`CommandRunnerProofs` and `CommandRunnerSafety` (which extends it), `IdentityProofs`,
`OtaUpdateProofs`, `BootProofs`, `NetworkProofs` (WifiTrial, PingProbe, Syslog, EthStart, NetLink),
`LinkProofs` (WakePoll, AntiReplay, BleLink) and `ServicesProofs` (OtaTransfer, Mqtt); see section 5. The
components that one of the last three proves share no variable: each has its own inductive invariant
and theorems in a part of its own. Inductive invariants are stated in the proof module, those of
`CommandRunner` and `Identity` in the component's module.

## 3. Runs

Properties named in *italics* are conjunctions; their parts are defined, with a comment each, in the
module of the part.

| Run | States | Properties | Shows |
|---|---|---|---|
| `runner_once` | 1.1 M | `TypeOK` `AtMostOnce` `HonestFailure` `ImplementsService` | one command of every shape and every class of fault: never done twice, never a false "definitely failed", and a refinement of `CommandService` |
| `runner_fifo` | 2.0 M | `HonestSuccess` `SlotDiscipline` | a mutating command and a background poll share the FIFO with late replies of the first: no reply answers the wrong command, no slot leaks |
| `identity_safety` | 2.1 M | *`IdentitySafe`* `SigningIdentity` `JournalsCoverTears` `OnlyRequestsReplace` | two failing commits and a power loss anywhere |
| `ble_safety` | 5.1 M | *`ReadyLinkIsSound`* `FramerIsContiguous` `TerminatesItsOwnLink` *`WakeSafe`* `WindowIsExact` | two links in a row with one reused handle, all interleavings; the polling loop beside commands, probes and a car that falls asleep; every order of counters at a replay window |
| `ble_faults` | 4.6 M | *`LinkStateIsTrue`* | one failing call, reset or throwing handler at any point |
| `ble_live` | 304 k | *`LinkWorkEnds`* | with a failing cancel, connect or terminate, retirements and attempts end |
| `ota_update` | 2.1 M | *`OfferSafe`* `LeaseIsGate` *`RollbackIsSound`* *`StartsAreExclusive`* `StatusSettles` | what is installed is what the client confirmed, a rollback finds a working image and no identity change of the image it leaves, and a status shown as running ends |
| `boot` | 1.0 M | *`BudgetSafe`* `SealedIsAlone` *`TrustIsEarned`* *`BootProgress`* | restarts are bounded over boots, credit is earned, a sealed restart is alone, boot and supervisor get somewhere |
| `network` | 1.3 M | *`TrialSafe`* *`LinkSafe`* *`UnwindIsSafe`* *`ProbesAreSeparate`* *`SyslogSafe`* `RefusalIsSustainedOnAir` `RecoverIsEarned` *`NetworkRecovers`* | the last proven credentials survive, verdicts and the decision to reset a driver are earned, nothing half-built stays, the device comes back online |
| `services` | 415 k | *`TransferSafe`* `LeaseCoversEffects` `OnlyTheAnnouncedImage` *`BrokerSafe`* `RetiredIsFinal` *`ServicesEnd`* | the transfer in every interleaving, the bridge over reconnects and lost messages, and the liveness of transfer, bridge, FIFO and identity journals |
| `identity_reload`, `wifi_refusal` | - | one each | violations, section 4 |

`JournalRetires` (a part of `ServicesEnd`) has one exception, which the code documents: after a
second ambiguous commit of a first key the device stops signing and waits for its owner.
`ReadyLinkIsFresh` excepts an overflow that has not been taken yet: `docs/ARCHITECTURE.md:996-998`
describes that window. Of the states of `network`, 490 k are the trial's, 750 k the links', 73 k
syslog's, 19 k the probe's and 102 the Ethernet chain's; of those of `services`, 248 k the bridge's,
120 k the identity's, 45 k the transfer's and 3 k the runner's.

**Bounds.**
- *Runner.* One command reaches every phase, every retry decision and every race of its caller with
  the loop, which is all `AtMostOnce` and `HonestFailure` are about (the proofs cover any number). Two
  commands are what wrong-addressee replies and slots need. `Uuids` has 9 elements, more than the
  prerequisites and payloads of two commands and the replies under way use at once. One retry instead
  of three: retry number two takes the same branch. `MaxWire` 1 bounds replies under way at once; a
  reply can still wait while any number of other steps happen, and be consumed and sent again.
  `Codes` has a member of each class that `command_fault.hpp` distinguishes. In `services` the
  vehicle is silent, which is what liveness must survive.
- *Identity.* Five keys: the ones that flash, RAM, journal, a handshake and a request can hold at
  once, so `NewKey` is always fresh. Two VINs make a change of vehicle; two faults cover a failure
  inside the recovery of a failure; one power loss, and any number of resets of parked devices.
  `Overtaking = FALSE` keeps a request from taking `command_mutex_` between the supervisor's look and
  its cleanup; that case is the finding `identity_reload`, and the run is about everything else. The
  liveness in `services` has one VIN, one fault and one power loss.
- *BLE.* A published link moves the generation four times: an odd value while it is published or
  retired, an even one after. `MaxGen` 8 is two complete links, which stale terminations and
  left-over sessions need; 6 is one link and a host reset; 4, for liveness, is one link. Links that a
  callback terminates without publishing cost no generation. A queue of two cells with two
  notifications each is full, merges and overflows within two notifications and two link events.
- *Polling.* The car falls asleep twice, so that a request of one episode can meet the next; one reply,
  reading or opportunity is lost (the proof covers any number).
- *Replay window.* Three bits and counters up to 7: jumps below, at and above the width, and counters on
  both sides of the window's end (the proof covers 64 bits and 32-bit counters).
- *Update.* Two images beside the factory image make an offer, a newer offer and a rollback. Two boots
  are an installation and the verdict on it. `MaxSerial` 3 lets a client hold an offer two newer ones
  have replaced; `MaxRevision` 1 is one change of channel, and at both bounds the code's exhausted
  bits are taken. `MaxNews` 3 bounds how often the feeds publish. `ArmingBoots` lets the first boot
  arm a journal, which the second, on probation or after a rollback, may find open (the proof covers
  any set of boots). A transfer has two blocks (the
  first and the last are told apart) and one redirect.
- *Boot.* Threshold 2, limit 3, saturation 4 keep the order of 4, 5 and 100 in the code; two samples
  make a hold that can be broken; two resets beyond the deliberate ones and one failing storage call.
- *Network.* Three pairs: proven, on trial, and a second trial on top of it. Grace of three checks,
  one more than the sustained refusal needs. Two gateways make a takeover; three probes leave one late
  session behind and one behind that; a queue of two lines is full, four lines overflow it.
- *Bridge.* One row and one gated domain: rows are published in one order by one loop, domains do not
  interact. The outbox holds more than one round. Any two of a lost connection, a refused
  publish and a cache that becomes invalid.

**Fairness.** Only where the code or FreeRTOS provides it: each is a task that is runnable, a timer,
or a call the SDK bounds.
- Runner: `vehicle_loop` iterates, ticks advance, a timed wait wakes, a queued LinkDown is applied;
  nothing is assumed of the vehicle or of the link coming back.
- Identity: tasks are scheduled and a parked device is power-cycled (that is what its message asks
  for); requests and replies are owed nothing, and faults are bounded because a flash that always
  fails is replaced, not recovered.
- BLE: strong fairness for the tasks, as a FreeRTOS mutex wakes its waiter of highest priority; of
  infinitely many zero-wait attempts of `vehicle_loop`, one a round, not all collide with a critical
  section of microseconds; the host delivers events and the controller ends what it was asked to end.
- Transfer: the coordinator, its deadline, and the worker *outside* of SDK calls. A return from the SDK
  is not fair: `LeaseEnds` holds although the worker may never come back.
- Update: the queued web check and the coordinator task run.
- Boot: `app_main`, the created tasks, the supervisor and its cadence; strong fairness for the rollback
  of a fatal boot, which another owner of the gate can delay but not for ever.
- Network: the event task, the waits of the boot window, the portal task and its clock, and the end of
  the watchdog's own 200 ms before it starts Ethernet again; a station in
  range joins and a cable gets its lease once the trouble is over. Trials: the boot sequence and the
  station's verdict.
- Bridge: publisher, handler, delivery, reconnection and the publish interval; that five seconds
  drain an outbox whose connection lives is an assumption. Another one, of safety, is that the external
  MQTT client delivers its outbox in order.
- Syslog: starter, senders, the task and its cadence, and the network coming back.
- Polling: none; only safety is checked.

`CHECK_DEADLOCK FALSE` is set for Identity, Boot, Network and Services (with their violation runs):
an idle or parked device may stop, a finished probe or start has no next step, and the budgets of
resets and troubles run out.

## 4. Findings

Each is a run that expects a violation, with the contradicted text quoted in `PROJECT.json`.

- `identity_reload` (`vehicle_pairing.cpp:166`): the supervisor tests `pairing_cleanup_pending_`
  before it waits for `command_mutex_` and not again. Overtaken by a rotation with an unknown commit,
  it takes back `key_reload_required_` and opens the signing gate without the reboot the header
  requires.
- `wifi_refusal` (`net.cpp:382`): the boot window's checkpoint reads the last disconnect reason ever
  seen. When Ethernet gets its lease, the station stops trying, and one refusal is counted at two
  checkpoints, although the comment promises that only a sustained refusal spends the trial.
  `RefusalIsSustainedOnAir` is the promise that does hold, without Ethernet.

Disagreements seen in the models that have no run of their own:

- `vehicle_pairing.cpp:112`: the supervisor skips its round when no VIN is set, before the branch that
  retries a failed cleanup, so the "will retry automatically" of the web page does not hold there;
  `/set_vin` is refused while the cleanup is pending, so only a reboot helps.
- `vehicle_pairing.cpp:384` says that under the guard no OTA worker can start and reboot "while the key
  journal is in flight", and `health_gate.hpp:178` that no half-committed identity is handed to
  another image. That is true while the guard lasts, which is what `RollbackIsSound` states. A request that
  returns NotCommitted after an ambiguous marker write (`:455-467`) or CleanupPending (`:540-546`)
  destroys the guard with the journal armed; `reserve_operation()` (`ota_update.cpp:1106`) looks at the
  gate and the probation only, so an update may boot another image before the supervisor's retry. In
  `OtaUpdate` a trace of 13 states leads to `pending /\ journal # 0`.
- `net.cpp:1088`: a transport that "has produced no evidence" must not be reset for the failure of
  another, and the generation is compared last so that a new lease is caught. Between that comparison
  (`:1094`) and the driver call (`:1104`, `:1114`) no lock is held, so a lease that arrives there is
  reset. `RecoverIsEarned` is about the comparison; the same statement about the driver call, with the
  generation of that moment, is violated in `NetLink` (a trace of 23 states).
- `ble_client.cpp:1053`: a DISCONNECT callback that lost the mutex decides not to rescan, then clears
  `disconnecting_`. A `connect()` in between is neither started nor remembered.
- `ble_client.cpp:993`: a CONNECT callback that lost the mutex ignores the result of
  `ble_gap_terminate()`; when that fails, `connecting_` stays set and nothing retries.
- `ble_client.cpp:721` and `:223`: a `disconnect()` during a connect scan, or a failed scan cancel at
  the discovery timeout, leave the scan running with no timer to stop it.

## 5. Proofs

TLAPS checks these for every value of the constants, assuming only the named `ASSUME`s of the
component's module (well-formed kinds, limits that are naturals, non-empty queues and image sets, a
missing address that is no gateway's).

| Module | Theorem | Statement |
|---|---|---|
| `CommandRunnerProofs` | `TypeCorrect` | `Spec => []TypeOK` |
| `CommandRunnerSafety` | `RunnerInvariant`, `AnswerInvariant` | `Spec => [](TypeOK /\ RunnerInv)`, `Spec => []AnswerInv` |
| | `NeverTwice`, `DefiniteFailureIsFinal` | `AtMostOnce`, `HonestFailure` |
| | `SuccessIsEarned`, `SlotsFollowHead` | `HonestSuccess`, `SlotDiscipline` |
| | `RunnerImplementsService` | `Spec => ImplementsService`, the refinement of `CommandService` |
| `IdentityProofs` | `IdentityInvariant` | `~Overtaking => (Spec => [](TypeOK /\ IdentityInv))` |
| | `IdentityIsSafe`, `SignsWithOneIdentity`, `TearsAreCovered` | `IdentitySafe`, `SigningIdentity`, `JournalsCoverTears` |
| | `RequestsReplace` | the action property `OnlyRequestsReplace` |
| `OtaUpdateProofs` | `UpdateInvariant` | `Spec => [](TypeOK /\ UpdateInv)` |
| | `OffersAreSafe`, `LeaseHoldsGate`, `RollbacksAreSound` | `OfferSafe`, `LeaseIsGate`, `RollbackIsSound` |
| | `StartsExclude` | the action property `StartsAreExclusive` |
| `BootProofs` | `BootInvariant` | `Spec => [](TypeOK /\ BootInv)` |
| | `BootsAreBounded`, `RestartsAreAlone` | `BudgetSafe`, `SealedIsAlone` |
| | `NothingReopens` | the action property `TrustIsEarned` |
| `NetworkProofs` | `TrialTypeCorrect`, `WayBack`, `TrialIsSafe` | the parts of `TrialSafe`, and it |
| | `RefusalSustained` | `TrialSpec => RefusalIsSustainedOnAir` |
| | `NetInvariant`, `LinksAreSafe` | `NetSpec => [](NetTypeOK /\ NetInv)`, `LinkSafe` |
| | `RecoveriesAreEarned` | the action property `RecoverIsEarned` |
| | `FailedStartIsSafe` | `EthSpec => []UnwindIsSafe` |
| | `NoSessionLost`, `OwnVerdict`, `ProbesSeparate` | the parts of `ProbesAreSeparate`, and it |
| | `SyslogTypeCorrect`, `QueueOutlives`, `LinesAreCounted`, `ReprobedOnce`, `SyslogIsSafe` | the parts of `SyslogSafe`, and it |
| `LinkProofs` | `PollingInvariant`, `PollingIsSafe` | `WakeSpec => []WakeInv`, `WakeSpec => []WakeSafe` |
| | `BitmapIsHistory`, `ReplaysAreExact` | `ReplaySpec => []ReplayInv`, `ReplaySpec => []WindowIsExact` |
| | `LinkInvariant` | `Spec => [](TypeOK /\ BleInv)` of `BleLink` |
| | `LinkStateHolds`, `ReadyLinksAreSound`, `FramerStaysContiguous` | `LinkStateIsTrue`, `ReadyLinkIsSound`, `FramerIsContiguous` |
| | `TerminationsAreTheirOwn` | the action property `TerminatesItsOwnLink` |
| `ServicesProofs` | `OtaTypeCorrect`, `OneUserOfBlock`, `AckIsTrue`, `ReclaimIsLast`, `TransferIsSafe` | the parts of `TransferSafe`, and it |
| | `LeaseCovers`, `AnnouncedImageOnly`, `RetiredForGood` | `LeaseCoversEffects`, `OnlyTheAnnouncedImage`, `RetiredIsFinal` |
| | `MqttInvariant`, `BrokerIsSafe` | `MqttSpec => [](MqttTypeOK /\ MqttInv)`, `BrokerSafe` |

*Runner.* `AtMostOnce` is not inductive: a state may have one execution and a second frame in
the air, or an authenticated refusal under way for a frame that was carried out, and the next step
breaks it. `RunnerInv` excludes them:

- `Untouched`: nothing has happened to an id not yet handed out;
- `Evidence`: `payload_maybe_sent` is the truth. Unset, no frame of the command exists and it has not
  been carried out; set, there is one attempt, and the command awaits its answer or is over;
- `UniqueAttempts`, `Refutations`: a UUID names one frame, and a refusal is about an attempt that left
  the air without being carried out. This is why a retry after an authenticated refusal may clear
  `payload_maybe_sent`;
- `Attempts`: slots and the VCSEC context stand for the attempt the head awaits, so an admitted reply
  is a reply to it;
- `Completion`, `Definite`: what a caller is told is the outcome of its own command, and a definite
  failure is recorded only with nothing submitted and no way to submit.

Almost all operations change a command only towards its end. `Evolves` states that relation between
two versions of a command, one lemma per operator shows it (`EvolvesFinish`, `EvolvesRetry`,
`EvolvesFault`, ...), and `EvolveStep` shows once that a step of that form keeps the invariant. Only
the steps that are not of that form (`SubmitStep`: a payload leaves; `EnqueueStep`; the vehicle's
`CarInv`) are proved by hand.

`HonestSuccess` needs the mirror image of `Refutations`: a confirmation is about an attempt that left
the air *by being carried out* (`Confirmations`), and the successes recorded so far are such
(`Earned`). `SlotDiscipline` needs that only the head awaits a response and owns the slot of its
attempt (`Routable`). Together with `Untold` they are `AnswerInv`.

*Refinement.* Every step of the command path accepts a command (`AcceptRefines`), lets the vehicle
carry one out (`ExecuteRefines`), tells a caller (`TellRefines`) or does none of these, when it may
give commands up (`InnerRefines`: the set of commands that turn *void* in it, none of which has been
or will be carried out, is what `Abandon` takes). Read-only commands and repeated answers stutter.

*Identity.* `JournalsCoverTears` says nothing while a journal is armed, which is where everything is
decided. `IdentityInv` has the missing halves: who holds `command_mutex_` and the lease in which step
(`LockOrder`); what flash holds with and without each journal (`Flash`); what a VIN transition, boot
and the rotation have established at each of their steps (`Transition`, `Booting`, `Rotation`); how
what the controller holds follows from flash once it is loaded (`Runtime`); and that a handshake whose
reply the present key would verify was asked for the VIN in flash (`Handshake`). Every action has a lemma
for the types and one with the seven parts. The hypothesis `~Overtaking` is necessary: with it lifted
`identity_reload` is a violation (section 4). `HasNewKey` guards the two steps that draw a key from a
finite `Keys`; the code's space is never exhausted.

*Update.* `UpdateInv`: a published operation keeps its lease until its end and no generation passes it
(`Operation`); the lease, the ticket of the web handler and a sealed restart exclude each other
(`Gate`); an image is selected only at the end of an installation, probation and an identity
transaction exclude each other, and a journal met on probation is of an earlier boot (`Fallback`); the offer is withdrawn while anything is under way (`Progress`);
a channel word captured before an exchange is the current one, or can never count again (`Truth`); and
from the offer a client saw to the image it gets nothing can be exchanged, over restarts of the
generation (`Confirmation`).

*Boot.* `BootInv`: nothing of this boot is decided before the ledger is charged (`Fresh`); the boots
that were not healthy are at most what flash stores, or the count is saturated (`Budget`); the gates
of the start-up open in the order of `app_main` (`Startup`); credit is trusted only on evidence that is
(`Credit`); and `SealedIsAlone`, which is inductive with these.

*Trial.* `TrialInv`: while a pair is on trial the backup is the pair last proven (`CopyIsTrue`,
`ProvenPairIsKept`), a proof is of the pair it commits (`ProofIsOfThePair`), the window counts only
downwards (`WindowRuns`), and on air the reason is the current attempt's (`ReasonIsCurrent`).

*Links.* `LinkSafe` is about leases that the event task has published, while the drivers are already
elsewhere. `EventsTell` bridges the gap: for each transport the last event that waits, or else the one the
handler holds, or else the lease, tells the truth about the driver. From it follow `Route` (the active
transport has a lease, Ethernet first) and `Pursued` (an idle station has a disconnect event coming
whose handler will retry, or a reason not to). For `RecoverIsEarned` each thing the watchdog
remembers - the sample, the streak of silent probes, the gateway that once answered - is tied to a
lease generation and backed by pings that happened in it (`Sampled`, `StreakIsBacked`, `BaseIsBacked`,
`Earned`); the property is about the step that decides, since the driver call after it is covered by
no lock (section 4). `MemoryAdvances` shows once that a new generation forgets and never confuses. The attempt
corrected the property: the history variable used to be cleared when the driver lost its address, and
a lease that flapped while its events still waited made it forget an answer that the code rightly
counts. `proof` is now kept per lease generation, as the code's own memory is.

*Ethernet.* `EthInv`: objects exist only on top of those they are built on (`Ordered`), and after
activation the set a callback uses is never shortened.

*Probe.* `PingInv`: a task that has still to call back is retained (`PendingIsRetained`), the block's
active generation is that session's (`SessionIsActive`), and an end once recorded is the session's own
measurement (`EndIsMeasured`, `AnswerIsFinal`).

*Syslog.* `SyslogInv`: the order of the start (`StartOrder`), which decides who may free the queue;
the account of the lines (`EveryLineIsCounted`, with the records of drops behind the counter); and
the budget of the re-probe (`ReprobeBudget`).

*Polling.* `OneShotPerEpisode` needs the account `ExtraIsLast`: once an episode has been refreshed,
`WakePollState.fresh` stays set, nothing is armed any more except by a proven sleep, and an extra
request leaves neither armed nor pending. `RequestsAreOne` says that a request is armed or latched,
never both. `DropSparesCommands` needs that the loop holds the mutex from `LockForDrop` on.

*Replay window.* `ReplayInv` says what the bitmap means: bit `o` is set exactly when `highest_counter_ - o`
has been admitted (`BitsAreAdmitted`), and `highest_counter_` is the highest of these
(`HighestIsMaximum`). Then `is_valid()`, the verdict of `add()` and the history agree.

*Link.* None of the four properties of `BleLink` is inductive: each looks at one end of a way that
leads from the controller through a host callback, the atomics and the queue to `vehicle_loop`.
`BleInv` describes the way:

- `Locking`, `Generations`: who holds `intent_mutex_` at which step, with the exception the code makes
  for retirements; the generation is odd exactly while the host publishes or retires. `Returns` lists
  where a critical section may go on;
- `Radio`: at most one procedure or one link, never both, and a published handle is the link of its
  generation. With it a termination whose generation still matches can only hit its own link, although
  every link has the same handle; `link.gen = Settled(c.gen)` covers the odd window too;
- `Places`, `Wanted`: the popped event is there as long as a step needs it, and a ready link is either in
  the publication that `LoopRecheck` will examine or the link whose LinkUp was applied last, with the
  request standing;
- `Order`: events wait in the order of their generations, and a LinkDown is later than everything of its
  link. `Latest` is the last generation of which an event may wait: during a retirement the one before
  `c.gen`;
- `Barrier`: sessions of an earlier link always have a teardown in front of them: a LinkDown queued or
  popped, an overflow that is not yet taken, or a retirement that has still to queue its LinkDown. On
  a ready link at `drive` none of these is possible, which is `ReadyLinkIsFresh`;
- `Slices`, `Stream`: the notifications in the framer, in the event, in the cells and on the air follow
  each other. `Stream` says which notification comes next at each of these places (`AheadOf`,
  `Continues`), and a link that could not queue one is no longer `Open`.

A lemma per action shows that it keeps the types and the nine parts. What a queue keeps when a cell
is added, grows, is read or is freed is shown once for any queue (`AppendKeeps`, `JoinKeeps`,
`SliceKeeps`, `TailKeeps`); what the calls that start or stop a scan and
`terminate_published_link_()` may leave behind is shown once for all their callers (`StartMoves`,
`CancelMoves`, `EnsureMoves`, `TryMoves`, `TerminateMoves`); and steps that leave the queue or the
generation alone share `OrderStays`, `StreamStays` and `StreamEmpty`. TLC has checked `BleInv` as an
invariant under the bounds of `ble_faults` (4.6 M states).

*Transfer.* `OtaInv` adds to the types where the mailbox phase and the worker's and the coordinator's
places agree (`MailboxPhase`, `WorkerPlaces`), that the lease is held from the claim until the
effects are settled (`LeaseInv`), and what the writer's counters say of the image (`ImageInv`). That
the worker's later steps have no effect is `RetiredForGood`, an action property from the same
invariant.

*Bridge.* `OnlineFollowsEveryRow` looks at messages already admitted; the publisher in the middle of a
round needs that every row before its place is retained, in the outbox in front of what comes next,
or expired (`RowsAreBehind`). `ClearedIsEmpty` needs that the plan in the publisher's hand still fits
the domain's state when it is sent (`PlanIsSound`): a planned skip is of a domain that is cleared, and
a planned clear carries the empty object. Lemmas about a queue that loses its first or gets one more
message (`SentAfterFirst`, `EmptyAfterLast`, ...) carry both facts through delivery, expiry and
admission for any length of the outbox.

*Only model-checked.* Every liveness property (`StatusSettles`, `BootProgress`, `NetworkRecovers`,
`ServicesEnd`, `LinkWorkEnds`): it needs `ENABLED`, which this version of the prover does not support.
All invariants and action properties of the passing runs are theorems. What a recursive definition
computes for all inputs would stay with TLC too: the installed provers cannot instantiate the
induction theorems. No module so far has one.

## 6. What is not modelled

- *Cryptography, protobuf, NVS encoding, TLS, JSON, HTML, manifest and signature formats*: data. Where
  their verdict matters (a signature fits, a commit failed), the model chooses it.
- *Lengths of timeouts*: see section 2. A property about a ratio of two timeouts cannot be stated.
- *Allocation failures* other than a throwing event handler, a failed builder of the bridge, and an
  exception in the syslog and polling loops.
- *Polling*: the rotation of the slow domains, the telemetry mailbox and its identity epoch, an unpaired
  device, and its liveness (a stale reading is refreshed once the car is awake; a falling edge is
  served): the car, the radio and the clocks may starve the loop in the model as they may in a garage.
- *Bridge*: the publisher's outermost catch, a duplicated QoS 1 message, the settings page's connection
  test and the broker URI.
- *Syslog*: the filter of its own lines and the advisory probe. *Diagnostics*: the in-memory log, crash and core
  dump reports, the heap trend and the stack watch render what they observe.
- *Network*: DNS, captive pages, mDNS, signal readings, the wire format of the SPI probe; the stores of
  `recompute_link()` are one step (the event task outranks its readers).
- *HTTP and MCP*: routing, parsing and rendering. *Configuration*: parsing, the repair console and the
  blob's format.
- *Pin tables, web pages, scripts, tests*: they change no state the rest reads.

## 7. Plan

What remains, in this order:

1. **TelemetryCache**: the mailbox between `vehicle_loop`'s handlers and its publisher with the identity
   epoch, and the rotation of the slow domains: no reading of a previous vehicle is published.
2. **RxFraming**: the length prefix against its reference definition, the list of frames sent, over
   bounded inputs.
3. **HTTP effects**: replies owed before a restart. **Configuration repair**: the console's repair and
   the blob's unknown commits.
