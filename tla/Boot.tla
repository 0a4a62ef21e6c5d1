-------------------------------- MODULE Boot --------------------------------
(***************************************************************************)
(* Start-up and self-recovery: the order in which app_main admits the      *)
(* firmware, the start gates of the Bluetooth host and the two vehicle     *)
(* tasks, the crash counter in flash, and the heap supervisor that may     *)
(* restart the device on purpose (main.cpp, safe_mode.cpp, boot_guard.hpp, *)
(* reboot_reason.hpp, heap_supervisor.cpp, heap_supervision.hpp,           *)
(* heap_watchdog.hpp, runtime_admission.hpp, nimble_start_gate.hpp,        *)
(* task_start_gate.hpp).                                                   *)
(*                                                                         *)
(* A reset may strike between any two steps, and a write to flash may fail *)
(* with or without having landed.                                          *)
(***************************************************************************)
EXTENDS Integers, FiniteSets

CONSTANTS Threshold,  \* kBootFailThreshold: units that enter safe mode
          Limit,      \* kUnhealthyRestartLimit: units that end self-restarts
          CountMax,   \* kBootFailMax: where the stored count saturates
          Hold,       \* critical samples before a restart is due
          Healthy,    \* healthy samples before the count may be cleared
          MaxResets,  \* resets the environment may still cause
          MaxFaults   \* storage calls that may fail or throw

ASSUME BootAssumption ==
    /\ {Threshold, Limit, CountMax, Hold, Healthy} \subseteq Nat \ {0}
    /\ {MaxResets, MaxFaults} \subseteq Nat
    /\ Threshold <= Limit /\ Limit < CountMax

VARIABLES
    ledger,    \* boot_fail in flash: a count, or Missing
    crumb,     \* the reboot reason in flash: the heap streak, or Missing
    pending,   \* the running image is on probation
    reset,     \* what caused this boot
    evidence,  \* the record take_reboot_reason() returned
    recovery,  \* s_recovery: count, latched, trusted, clear pending
    admission, \* RuntimeAdmissionGate
    stage,     \* where app_main is
    host,      \* NimbleStartGate
    synced,    \* host_synced_
    hostReset, \* host_reset_count_ # 0
    gate,      \* DualTaskStartGate
    tasks,     \* the loop task and the pairing task
    owner,     \* the operation gate of OtaUpdate
    heap,      \* the largest internal block, as far as it matters
    sup,       \* the heap supervisor
    cool,      \* writes the retry cadence still holds back
    resets, faults, \* what the environment has left
    unhealthy  \* charged faults and self-restarts since credit was earned

flashVars == <<ledger, crumb, pending>>
bootVars == <<reset, evidence, stage, admission>>
startVars == <<host, synced, hostReset, gate, tasks>>
supVars == <<sup, cool>>
envVars == <<heap, resets, faults>>
vars == <<ledger, crumb, pending, reset, evidence, recovery, admission, stage,
          host, synced, hostReset, gate, tasks, owner, heap, sup, cool, resets,
          faults, unhealthy>>

Missing == -1
Counts == 0..CountMax
Codes == {"Fault", "Sw", "Clean", "Unknown"}
Stages == {"nvs", "reason", "ledger", "supervisor", "network", "nimble",
           "nimbleWait", "services", "firstTask", "secondTask", "cancelled",
           "admit", "done", "portal", "fatal", "rollback", "halted"}
Tasks == {"loop", "pair"}
NoEvidence == [state |-> "Missing", streak |-> 0]
Latched == [count |-> 0, latched |-> TRUE, trusted |-> FALSE, clear |-> FALSE]
NoSup == [at |-> "off", hold |-> 0, run |-> 0, streak |-> 0, trusted |-> FALSE]

\* A flash call that failed: it may or may not have landed.
StoreFails == faults > 0 /\ faults' = faults - 1
StoreWorks == UNCHANGED faults

----------------------------------------------------------------------------
(* Resets and the evidence they leave.                                     *)

\* RAM after any reset.
Restarted(code) ==
    /\ reset' = code
    /\ evidence' = NoEvidence
    /\ recovery' = Latched
    /\ admission' = "Booting"
    /\ stage' = "nvs"
    /\ host' = "Idle"
    /\ synced' = FALSE
    /\ hostReset' = FALSE
    /\ gate' = "Idle"
    /\ tasks' = [t \in Tasks |-> "none"]
    /\ owner' = "Idle"
    /\ sup' = NoSup
    /\ cool' = {}

\* A panic, a power cycle, a requested restart or a reset of unknown cause.
\* The bootloader returns an unconfirmed image to its predecessor.
Reset ==
    /\ resets > 0
    /\ resets' = resets - 1
    /\ \E code \in Codes : Restarted(code)
    /\ pending' = FALSE
    /\ UNCHANGED <<ledger, crumb, heap, faults, unhealthy>>

\* boot_counter_cause()
Cause ==
    IF reset = "Fault" THEN "Fault"
    ELSE IF evidence.state = "Error" THEN "Uncertain"
    ELSE IF evidence.state = "Present"
    THEN IF reset = "Sw" THEN "HeapRecovery" ELSE "Uncertain"
    ELSE IF reset \in {"Sw", "Clean"} THEN "Clean" ELSE "Uncertain"

TrustedCauseOnly == Cause # "Uncertain"

\* boot_healthy_clear_allowed()
Trusted == Cause # "Uncertain" /\ evidence.state # "Error"

MaxOf(a, b) == IF a > b THEN a ELSE b

\* boot_shared_count()
SharedCount(stored) ==
    LET floor == IF evidence.state = "Present" THEN MaxOf(stored, evidence.streak)
                 ELSE stored
    IN CASE Cause = "Clean" -> 0
         [] Cause = "Fault" -> IF floor < CountMax THEN floor + 1 ELSE CountMax
         [] OTHER           -> floor

----------------------------------------------------------------------------
(* app_main.                                                               *)

\* boot_fatal(): admission closes for this boot, the boot stops here.
BootFatal ==
    /\ admission' = "Fatal"
    /\ stage' = "fatal"

\* A stage that succeeds, or whose failure is fatal.
Passes(next) ==
    /\ \/ stage' = next /\ UNCHANGED admission
       \/ BootFatal
    /\ UNCHANGED <<flashVars, reset, evidence, recovery, startVars, owner,
                   supVars, envVars, unhealthy>>

\* Flash, the configuration and the identity journals' pre-flight.
BootStorage == stage = "nvs" /\ Passes("reason")

\* The vehicle controller, its identity recovery and the network; without a
\* network the device serves its setup portal instead. In safe mode Bluetooth
\* is not started.
BootNetwork ==
    /\ stage = "network"
    /\ \E next \in {"portal", IF recovery.latched THEN "services" ELSE "nimble"} :
          Passes(next)

\* provisioning_run_with_retry(): the stored network came up after all. The
\* terminal portal never returns.
PortalReturns ==
    /\ stage = "portal"
    /\ Passes(IF recovery.latched THEN "services" ELSE "nimble")

\* HTTP, MQTT, the watchdog and the health gate task; safe mode ends here,
\* without the vehicle tasks.
BootServices ==
    /\ stage = "services"
    /\ Passes(IF recovery.latched THEN "done" ELSE "firstTask")

\* take_reboot_reason(): read and erase. Any doubt about either is an error at
\* the restart cap.
TakeReason ==
    /\ stage = "reason"
    /\ stage' = "ledger"
    /\ \/ /\ StoreWorks
          /\ crumb' = Missing
          /\ evidence' = IF crumb = Missing THEN NoEvidence
                         ELSE [state |-> "Present", streak |-> crumb]
       \/ /\ StoreFails
          /\ crumb' \in {crumb, Missing}
          /\ evidence' = [state |-> "Error", streak |-> Limit]
    /\ UNCHANGED <<ledger, pending, reset, recovery, admission, startVars, owner,
                   supVars, heap, resets, unhealthy>>

\* safe_mode_begin(): charge first, then ask. Until the new count is known to
\* be stored the boot stays in safe mode.
SafeModeBegin ==
    /\ stage = "ledger"
    /\ LET n == SharedCount(IF ledger = Missing THEN 0 ELSE ledger)
       IN \/ /\ StoreWorks
             /\ ledger' = n
             /\ recovery' = [count |-> n, latched |-> n >= Threshold,
                             trusted |-> Trusted,
                             clear |-> n < Threshold /\ n # 0 /\ Trusted]
             /\ unhealthy' = IF Cause = "Clean" THEN 0
                             ELSE IF Cause = "Fault" THEN unhealthy + 1
                             ELSE unhealthy
          \/ /\ StoreFails
             /\ ledger' \in {ledger, n}
             /\ recovery' = Latched
             /\ unhealthy' = IF Cause = "Clean" /\ ledger' = 0 THEN 0
                             ELSE unhealthy
    /\ admission' = IF recovery'.latched THEN "SafeMode" ELSE admission
    /\ stage' = "supervisor"
    /\ UNCHANGED <<crumb, pending, reset, evidence, startVars, owner, supVars,
                   heap, resets>>

\* heap_supervisor_start() with the seed of the restart budget.
SupervisorStart ==
    /\ stage = "supervisor"
    /\ LET seeded == evidence.state # "Error"
       IN \/ /\ sup' = [NoSup EXCEPT !.at = "sample", !.trusted = seeded,
                          !.streak = IF seeded THEN evidence.streak ELSE Limit]
             /\ stage' = "network"
             /\ UNCHANGED admission
          \/ BootFatal /\ UNCHANGED sup
    /\ UNCHANGED <<flashVars, reset, evidence, recovery, startVars, owner, cool,
                   envVars, unhealthy>>

\* BleClient::start(): the host's first synchronisation is awaited, with a
\* timeout that is itself a compare-and-swap.
NimbleStart ==
    /\ stage = "nimble"
    /\ \/ host' = "AwaitingSync" /\ stage' = "nimbleWait" /\ UNCHANGED admission
       \/ BootFatal /\ UNCHANGED host
    /\ UNCHANGED <<flashVars, reset, evidence, recovery, synced, hostReset, gate,
                   tasks, owner, supVars, envVars, unhealthy>>

NimbleWait ==
    /\ stage = "nimbleWait"
    /\ \/ host = "Synced" /\ stage' = "services" /\ UNCHANGED <<host, admission>>
       \/ host = "AwaitingSync" /\ host' = "TimedOut" /\ BootFatal
    /\ UNCHANGED <<flashVars, reset, evidence, recovery, synced, hostReset, gate,
                   tasks, owner, supVars, envVars, unhealthy>>

\* start_tasks(): two creations behind one gate. A second creation that fails
\* cancels the first task, which acknowledges in its own time or not in time.
FirstTask ==
    /\ stage = "firstTask"
    /\ gate = "Idle"
    /\ \/ gate' = "Creating" /\ tasks' = [tasks EXCEPT !.loop = "wait"]
          /\ stage' = "secondTask" /\ UNCHANGED admission
       \/ BootFatal /\ UNCHANGED <<gate, tasks>>
    /\ UNCHANGED <<flashVars, reset, evidence, recovery, host, synced, hostReset,
                   owner, supVars, envVars, unhealthy>>

SecondTask ==
    /\ stage = "secondTask"
    /\ \/ gate' = "Running" /\ tasks' = [tasks EXCEPT !.pair = "wait"]
          /\ stage' = "admit"
       \/ gate' = "Cancelled" /\ stage' = "cancelled" /\ UNCHANGED tasks
    /\ UNCHANGED <<flashVars, reset, evidence, recovery, admission, host, synced,
                   hostReset, owner, supVars, envVars, unhealthy>>

CancelledStart ==
    /\ stage = "cancelled"
    /\ gate' = IF tasks.loop = "gone" THEN "Idle" ELSE gate
    /\ BootFatal
    /\ UNCHANGED <<flashVars, reset, evidence, recovery, host, synced, hostReset,
                   tasks, owner, supVars, envVars, unhealthy>>

\* The last look at the host, and mark_ready(): from Booting only.
Admit ==
    /\ stage = "admit"
    /\ IF synced /\ ~hostReset /\ admission = "Booting"
       THEN admission' = "Ready" /\ stage' = "done"
       ELSE BootFatal
    /\ UNCHANGED <<flashVars, reset, evidence, recovery, startVars, owner, supVars,
                   envVars, unhealthy>>

FatalRollbackSteals ==
    /\ stage = "fatal"
    /\ IF pending THEN owner' = "Sealed" /\ stage' = "rollback"
       ELSE UNCHANGED owner /\ stage' = "halted"
    /\ UNCHANGED <<flashVars, reset, evidence, recovery, admission, startVars,
                   supVars, envVars, unhealthy>>

\* fatal_startup_rollback(): waits for the operation gate, then rolls a
\* pending image back or halts a stable one.
FatalRollback ==
    /\ stage = "fatal"
    /\ owner = "Idle"
    /\ IF pending THEN owner' = "Sealed" /\ stage' = "rollback"
       ELSE UNCHANGED owner /\ stage' = "halted"
    /\ UNCHANGED <<flashVars, reset, evidence, recovery, admission, startVars,
                   supVars, envVars, unhealthy>>

RollbackReboots ==
    /\ stage = "rollback"
    /\ \/ /\ pending' = FALSE
          /\ Restarted("Sw")
       \/ /\ stage' = "halted"
          /\ UNCHANGED <<pending, reset, evidence, recovery, admission, startVars,
                         owner, supVars>>
    /\ UNCHANGED <<ledger, crumb, envVars, unhealthy>>

\* Await_task_start_(): what each vehicle task sees at its entry.
TaskEnters ==
    /\ \E t \in Tasks :
        /\ tasks[t] = "wait"
        /\ \/ /\ gate = "Running" /\ admission = "Ready"
              /\ tasks' = [tasks EXCEPT ![t] = "run"]
           \/ /\ \/ gate \in {"Cancelled", "Idle"}
                 \/ gate = "Running" /\ admission \in {"SafeMode", "Fatal"}
              /\ tasks' = [tasks EXCEPT ![t] = "gone"]
    /\ UNCHANGED <<flashVars, bootVars, recovery, host, synced, hostReset, gate,
                   owner, supVars, envVars, unhealthy>>

\* The NimBLE host task: on_sync() and on_reset().
HostSync ==
    /\ host # "Idle"
    /\ ~synced
    /\ synced' = TRUE
    /\ host' = IF host = "AwaitingSync" THEN "Synced" ELSE host
    /\ UNCHANGED <<flashVars, bootVars, recovery, hostReset, gate, tasks, owner,
                   supVars, envVars, unhealthy>>

HostResets ==
    /\ host # "Idle"
    /\ ~hostReset
    /\ hostReset' = TRUE
    /\ synced' = FALSE
    /\ UNCHANGED <<flashVars, bootVars, recovery, host, gate, tasks, owner, supVars,
                   envVars, unhealthy>>

AppMain ==
    \/ BootStorage \/ BootNetwork \/ BootServices \/ TakeReason \/ SafeModeBegin
    \/ SupervisorStart \/ NimbleStart \/ NimbleWait \/ FirstTask \/ SecondTask \/ CancelledStart \/ Admit
    \/ FatalRollback \/ RollbackReboots

----------------------------------------------------------------------------
(* The heap supervisor.                                                    *)

Critical == heap = "critical"
Busy == owner = "Ota"

\* healthy_now() with the conditions that are not state here (progress of the
\* vehicle loop, the network) chosen freely.
HealthyNow == admission = "Ready" /\ synced /\ ~hostReset /\ ~Busy /\ ~Critical

\* heap_watch(): the continuous critical hold. CriticalEpisode counts the same
\* 300 s from the same first sample, so a restart that is due finds the grace of
\* an update's writer spent.
SupHold == IF ~Critical THEN 0 ELSE IF sup.hold < Hold THEN sup.hold + 1 ELSE Hold

\* RecoveryHealthyRun::sample(): one sample that is not eligible starts over.
SupRun(eligible) ==
    IF ~eligible THEN 0 ELSE IF sup.run < Healthy THEN sup.run + 1 ELSE Healthy

\* supervisor_iteration() up to its decision: a restart attempt goes first,
\* or the abort of the update that is in its way, then maintenance.
SupSample ==
    /\ sup.at = "sample"
    /\ \E eligible \in (IF HealthyNow THEN BOOLEAN ELSE {FALSE}) :
          sup' = [sup EXCEPT !.hold = SupHold, !.run = SupRun(eligible),
                      !.at = IF SupHold = Hold /\ ~Busy THEN "attempt"
                             ELSE IF SupHold = Hold THEN "abort"
                             ELSE IF SupRun(eligible) = Healthy /\ recovery.clear
                                     /\ ~recovery.latched /\ recovery.trusted
                                     /\ "clear" \notin cool
                             THEN "clear" ELSE "sample"]
    /\ UNCHANGED <<flashVars, bootVars, recovery, startVars, owner, cool, envVars,
                   unhealthy>>

\* ota_request_heap_abort(): the transfer sees its budget end.
SupAborts ==
    /\ sup.at = "abort"
    /\ owner' = IF Busy THEN "Idle" ELSE owner
    /\ sup' = [sup EXCEPT !.at = "sample"]
    /\ UNCHANGED <<flashVars, bootVars, recovery, startVars, cool, envVars, unhealthy>>

\* attempt_heap_restart() up to the reservation: budget, cadence, the gate,
\* and the heap once more under the gate.
MayRestart == sup.trusted /\ sup.streak < Limit

SupAttempts ==
    /\ sup.at = "attempt"
    /\ IF MayRestart /\ "restart" \notin cool /\ owner = "Idle"
       THEN \/ /\ Critical
               /\ owner' = "FaultRestart"
               /\ cool' = cool \cup {"restart"}
               /\ sup' = [sup EXCEPT !.at = "reserve"]
            \/ /\ ~Critical
               /\ sup' = [sup EXCEPT !.at = "sample"]
               /\ UNCHANGED <<owner, cool>>
       ELSE sup' = [sup EXCEPT !.at = "sample"] /\ UNCHANGED <<owner, cool>>
    /\ UNCHANGED <<flashVars, bootVars, recovery, startVars, envVars, unhealthy>>

ReservationOffByOne ==
    LET current == MaxOf(ledger, recovery.count)
    IN IF ledger # Missing /\ recovery.trusted /\ ~pending /\ current <= Limit
       THEN {current + 1} ELSE {}

\* safe_mode_prepare_heap_restart(): the confirmed floor in RAM and the record
\* in flash are both honoured, and a missing record is refused.
Reservation ==
    LET current == MaxOf(ledger, recovery.count)
    IN IF ledger # Missing /\ recovery.trusted /\ ~pending /\ current < Limit
       THEN {current + 1} ELSE {}

SupReservesLeaks ==
    /\ sup.at = "reserve"
    /\ \/ \E next \in Reservation :
          \/ /\ StoreWorks
             /\ ledger' = next
             /\ recovery' = [recovery EXCEPT !.count = next,
                                             !.clear = ~recovery.latched]
             /\ sup' = [sup EXCEPT !.at = "crumb"]
             /\ UNCHANGED owner
          \/ /\ StoreFails
             /\ ledger' \in {ledger, next}
             /\ sup' = [sup EXCEPT !.at = "sample"]
             /\ owner' = owner
             /\ UNCHANGED recovery
       \/ /\ \/ Reservation = {} /\ StoreWorks
             \/ StoreFails
          /\ sup' = [sup EXCEPT !.at = "sample"]
          /\ owner' = owner
          /\ UNCHANGED <<ledger, recovery>>
    /\ UNCHANGED <<crumb, pending, bootVars, startVars, cool, heap, resets,
                   unhealthy>>

SupReserves ==
    /\ sup.at = "reserve"
    /\ \/ \E next \in Reservation :
          \/ /\ StoreWorks
             /\ ledger' = next
             /\ recovery' = [recovery EXCEPT !.count = next,
                                             !.clear = ~recovery.latched]
             /\ sup' = [sup EXCEPT !.at = "crumb"]
             /\ UNCHANGED owner
          \/ /\ StoreFails
             /\ ledger' \in {ledger, next}
             /\ sup' = [sup EXCEPT !.at = "sample"]
             /\ owner' = "Idle"
             /\ UNCHANGED recovery
       \/ /\ \/ Reservation = {} /\ StoreWorks
             \/ StoreFails
          /\ sup' = [sup EXCEPT !.at = "sample"]
          /\ owner' = "Idle"
          /\ UNCHANGED <<ledger, recovery>>
    /\ UNCHANGED <<crumb, pending, bootVars, startVars, cool, heap, resets,
                   unhealthy>>

\* persist_reboot_reason(): the last write before the restart is final.
SupPersists ==
    /\ sup.at = "crumb"
    /\ \/ /\ StoreWorks
          /\ crumb' = sup.streak + 1
          /\ sup' = [sup EXCEPT !.at = "restart"]
          /\ owner' = "Sealed"
       \/ /\ StoreFails
          /\ crumb' \in {crumb, sup.streak + 1}
          /\ sup' = [sup EXCEPT !.at = "sample"]
          /\ owner' = "Idle"
    /\ UNCHANGED <<ledger, pending, bootVars, recovery, startVars, cool, heap,
                   resets, unhealthy>>

SupRestarts ==
    /\ sup.at = "restart"
    /\ Restarted("Sw")
    /\ unhealthy' = unhealthy + 1
    /\ UNCHANGED <<flashVars, envVars>>

\* safe_mode_clear_after_healthy_run() publishes full credit in RAM.
ClearedRecovery == [Latched EXCEPT !.latched = FALSE, !.trusted = TRUE]

\* maintain_healthy_run(): the gate, the health once more under the gate, then
\* the durable zero before anything in RAM is refilled.
SupClears ==
    /\ sup.at = "clear"
    /\ IF owner # "Idle" \/ ~HealthyNow
       THEN /\ UNCHANGED <<ledger, recovery, cool, faults, unhealthy>>
            /\ sup' = [sup EXCEPT !.at = "sample",
                                  !.run = IF HealthyNow THEN @ ELSE 0]
       ELSE /\ cool' = cool \cup {"clear"}
            /\ \/ /\ ledger # Missing
                  /\ StoreWorks
                  /\ ledger' = 0
                  /\ unhealthy' = 0
                  /\ recovery' = ClearedRecovery
                  /\ sup' = [sup EXCEPT !.at = "sample",
                                        !.streak = IF sup.trusted THEN 0 ELSE @]
               \/ /\ StoreFails
                  /\ ledger' \in {ledger, 0}
                  /\ unhealthy' = IF ledger' = 0 THEN 0 ELSE unhealthy
                  /\ sup' = [sup EXCEPT !.at = "sample"]
                  /\ UNCHANGED recovery
    /\ UNCHANGED <<crumb, pending, bootVars, startVars, owner, heap, resets>>

\* An exception in the iteration gives the gate back and starts the healthy
\* run over; after the last durable effect, or outside the iteration, the task
\* parks with what it holds.
SupThrows ==
    /\ sup.at \in {"sample", "attempt", "reserve", "crumb", "clear", "restart"}
    /\ \/ /\ sup.at \in {"attempt", "reserve", "crumb", "clear"}
          /\ sup' = [sup EXCEPT !.at = "sample", !.run = 0]
          /\ owner' = IF sup.at \in {"reserve", "crumb"} THEN "Idle" ELSE owner
          /\ StoreFails
          /\ UNCHANGED admission
       \/ /\ sup.at = "restart"
          /\ sup' = [sup EXCEPT !.at = "parked"]
          /\ UNCHANGED <<owner, admission, faults>>
       \/ /\ sup.at = "sample"
          /\ sup' = [sup EXCEPT !.at = "parked"]
          /\ admission' = "Fatal"
          /\ UNCHANGED <<owner, faults>>
    /\ UNCHANGED <<flashVars, reset, evidence, recovery, stage, startVars, cool,
                   heap, resets, unhealthy>>

Supervisor ==
    \/ SupSample \/ SupAborts \/ SupAttempts \/ SupReserves \/ SupPersists
    \/ SupRestarts \/ SupClears

----------------------------------------------------------------------------
(* The rest of the firmware.                                               *)

\* The retry interval of a failed or finished write passes.
CadenceDue ==
    /\ \E w \in cool : cool' = cool \ {w}
    /\ UNCHANGED <<flashVars, bootVars, recovery, startVars, owner, sup, envVars,
                   unhealthy>>

HeapChanges ==
    /\ heap' = IF Critical THEN "ok" ELSE "critical"
    /\ UNCHANGED <<flashVars, bootVars, recovery, startVars, owner, supVars, resets,
                   faults, unhealthy>>

\* An update, or any other owner of the gate, comes and goes once the web
\* server runs.
OtherOwner ==
    /\ stage \in {"firstTask", "secondTask", "cancelled", "admit", "done", "fatal"}
    /\ \/ owner = "Idle" /\ owner' = "Ota"
       \/ owner = "Ota" /\ owner' = "Idle"
    /\ UNCHANGED <<flashVars, bootVars, recovery, startVars, supVars, envVars,
                   unhealthy>>

\* The health gate ends probation of an image that reached Ready.
HealthGate ==
    /\ pending
    /\ admission = "Ready"
    /\ owner = "Idle"
    /\ pending' = FALSE
    /\ UNCHANGED <<ledger, crumb, bootVars, recovery, startVars, owner, supVars,
                   envVars, unhealthy>>

----------------------------------------------------------------------------
\* A device in the field at power-on: enrolled or not, on probation or not.
Init ==
    /\ ledger \in {Missing, 0}
    /\ crumb = Missing
    /\ pending \in BOOLEAN
    /\ reset = "Clean"
    /\ evidence = NoEvidence
    /\ recovery = Latched
    /\ admission = "Booting"
    /\ stage = "nvs"
    /\ host = "Idle"
    /\ synced = FALSE
    /\ hostReset = FALSE
    /\ gate = "Idle"
    /\ tasks = [t \in Tasks |-> "none"]
    /\ owner = "Idle"
    /\ heap = "ok"
    /\ sup = NoSup
    /\ cool = {}
    /\ resets = MaxResets
    /\ faults = MaxFaults
    /\ unhealthy = 0

Next ==
    \/ AppMain \/ PortalReturns \/ TaskEnters \/ HostSync \/ HostResets
    \/ Supervisor \/ SupThrows
    \/ CadenceDue \/ HeapChanges \/ OtherOwner \/ HealthGate \/ Reset

Spec == Init /\ [][Next]_vars

\* app_main, the supervisor, task entries and time move on. The fatal path
\* polls the gate every second, and the supervisor holds it for a moment once
\* in five minutes, so it meets the free gate.
Fairness ==
    /\ WF_vars(AppMain)
    /\ SF_vars(FatalRollback)
    /\ WF_vars(TaskEnters)
    /\ WF_vars(Supervisor)
    /\ WF_vars(CadenceDue)

FairSpec == Spec /\ Fairness

----------------------------------------------------------------------------
(* Properties.                                                             *)

EvidenceType == [state : {"Missing", "Present", "Error"}, streak : 0..Limit]

RecoveryType == [count : Counts, latched : BOOLEAN, trusted : BOOLEAN, clear : BOOLEAN]

SupType == [at : {"off", "sample", "attempt", "abort", "reserve", "crumb",
                  "restart", "clear", "parked"},
            hold : 0..Hold, run : 0..Healthy, streak : 0..Limit, trusted : BOOLEAN]

TypeOK ==
    /\ ledger \in Counts \cup {Missing}
    /\ crumb \in 1..Limit \cup {Missing}
    /\ pending \in BOOLEAN
    /\ reset \in Codes
    /\ evidence \in EvidenceType
    /\ recovery \in RecoveryType
    /\ admission \in {"Booting", "Ready", "SafeMode", "Fatal"}
    /\ stage \in Stages
    /\ host \in {"Idle", "AwaitingSync", "Synced", "TimedOut"}
    /\ {synced, hostReset} \subseteq BOOLEAN
    /\ gate \in {"Idle", "Creating", "Running", "Cancelled"}
    /\ tasks \in [Tasks -> {"none", "wait", "run", "gone"}]
    /\ owner \in {"Idle", "Ota", "FaultRestart", "Sealed"}
    /\ heap \in {"ok", "critical"}
    /\ sup \in SupType
    /\ cool \subseteq {"restart", "clear"}
    /\ resets \in 0..MaxResets
    /\ faults \in 0..MaxFaults
    /\ unhealthy \in Nat

\* The device restarts itself at most Limit times before credit is earned by
\* a known clean boot or a qualified healthy run, whatever panics, failed or
\* half-done flash writes and lost breadcrumbs come in between.
RestartsAreBounded ==
    sup.at = "restart" => unhealthy < Limit

\* The vehicle is only ever worked on in a boot with fewer than Threshold
\* charged units behind it: no sequence of faults and self-restarts gets past
\* safe mode.
CrashLoopIsContained ==
    (\E t \in Tasks : tasks[t] = "run") => unhealthy < Threshold

\* A vehicle task runs only after the whole start-up succeeded: both tasks
\* exist, the host synchronised in time, and the boot is not in safe mode. A late synchronisation, a late task or a
\* failure that raced the last step cannot open it.
WorkNeedsAdmission ==
    (\E t \in Tasks : tasks[t] = "run") =>
        /\ stage = "done"
        /\ host = "Synced"
        /\ gate = "Running"
        /\ admission \in {"Ready", "Fatal"}
        /\ ~recovery.latched

\* Whoever is restarting the device, or rolling its image back, is alone: no
\* other owner can begin once a restart is sealed, and only one of them is.
SealedIsAlone ==
    /\ sup.at \in {"reserve", "crumb"} => owner = "FaultRestart"
    /\ sup.at = "restart" => owner = "Sealed"
    /\ stage = "rollback" => owner = "Sealed" /\ sup.at \notin {"reserve", "crumb", "restart"}

\* Within one boot credit is only refilled from evidence that was never in
\* doubt: neither safe mode nor an unreadable breadcrumb grows into a clear by
\* waiting.
CreditIsEarned ==
    [][ledger' = 0 /\ ledger \notin {0, Missing} /\ stage # "ledger" =>
        /\ admission = "Ready"
        /\ evidence.state # "Error"
        /\ Cause # "Uncertain"]_vars

\* Admission only closes: Ready is never reached from safe mode or after a
\* fatal error in the same boot.
AdmissionOnlyCloses ==
    [][stage' # "nvs" =>
        /\ admission \in {"SafeMode", "Fatal"} => admission' # "Ready"
        /\ admission = "Fatal" => admission' = "Fatal"]_vars

\* A boot ends: in the running firmware, in the setup portal, halted, or in
\* one more reset; no start-up step waits for ever.
BootSettles ==
    <>[](stage \in {"done", "portal", "halted"}) \/ []<>(stage = "nvs")
    \/ <>[](stage = "fatal" /\ owner # "Idle") \/ []<>(owner = "Ota")

\* A heap that stays exhausted is acted on until the credit is used up, in
\* doubt, or the gate is kept by another restart.
WedgeIsActedOn ==
    <>[](Critical /\ owner # "Ota") =>
        <>[](\/ sup.at \in {"off", "parked"}
             \/ ~MayRestart
             \/ Reservation = {}
             \/ owner = "Sealed")

\* What the persistent boot budget guarantees (boot_guard.hpp:79,
\* nimble_start_gate.hpp:40): restarts are bounded, a crash loop ends in safe
\* mode, and no work starts before the host answered.
BudgetSafe ==
    /\ TypeOK
    /\ RestartsAreBounded
    /\ CrashLoopIsContained
    /\ WorkNeedsAdmission

\* Nothing closed within a boot opens again by itself: neither the restart
\* credit (heap_supervisor.cpp:103) nor the admission of the vehicle tasks
\* (nimble_start_gate.hpp:40).
TrustIsEarned == CreditIsEarned /\ AdmissionOnlyCloses

\* Start-up and the heap supervisor both get somewhere: no step waits for
\* ever (nimble_start_gate.hpp:40), and an exhausted heap is acted on
\* (heap_supervisor.cpp:114).
BootProgress == BootSettles /\ WedgeIsActedOn

=============================================================================
