----------------------------- MODULE MCServices -----------------------------
(***************************************************************************)
(* The update transfer and the Home Assistant bridge for TLC, and what the *)
(* command runner and the vehicle identity owe in the end.  The four share *)
(* no variable, so each behaviour moves one of them, named by `part', and  *)
(* leaves the others at one of their initial states: every step of every   *)
(* part is explored, and none of their products.  A liveness property and  *)
(* a fairness assumption therefore speak of the part that moves.           *)
(***************************************************************************)
EXTENDS OtaTransfer, Mqtt

VARIABLES part,
    \* CommandRunner's state
    cmd, front, next, due, lapsed, sessions, slots, ctx, infoReq, sleep,
    bleLink, generation, waiter, completion, results, air, wire, executed,
    \* Identity's state
    key, rec, rot, vin, txn, pc, ram, handshake, lock, lease, tx, req, madeFor,
    faults, crashes

\* An action and a read-only poll, neither retried.
RunnerKind(dom, wake, effect, cb) ==
    [dom |-> dom, wake |-> wake, effect |-> effect, onTx |-> FALSE, cb |-> cb,
     bypass |-> FALSE, reply |-> "Action", retries |-> 0]
RunnerKinds == {RunnerKind("Vcsec", "WakeIfNeeded", "Mutating", TRUE),
                RunnerKind("Info", "NoWakeSkip", "ReadOnly", FALSE)}

Runner == INSTANCE CommandRunner WITH
    Kinds <- RunnerKinds, Codes <- {}, Uuids <- 1 .. 9, QueueSize <- 2,
    MaxCommands <- 2, MaxWire <- 0, expired <- lapsed, session <- sessions,
    link <- bleLink, caller <- waiter, result <- results

runnerVars == <<cmd, front, next, due, lapsed, sessions, slots, ctx, infoReq,
    sleep, bleLink, generation, waiter, completion, results, air, wire,
    executed>>

Id == INSTANCE Identity WITH
    Keys <- 1 .. 5, Vins <- {"v1"}, NoVin <- "none", Overtaking <- FALSE,
    MaxFaults <- 1, MaxCrashes <- 1

identityVars == <<key, rec, rot, vin, txn, pc, ram, handshake, lock, lease,
    tx, req, madeFor, faults, crashes>>

Parts == {"ota", "mqtt", "runner", "identity"}

\* A part that does not move rests in one initial state.  The caches start
\* valid: MaxCaches = 1 lets one of them become invalid at any time.  Of the
\* bridge's three troubles (a lost connection, a refused publish, a changed
\* cache) each behaviour has any two.
ServicesInit ==
    /\ part \in Parts
    /\ Init /\ MqttInit /\ Runner!Init /\ Id!Init
    /\ part # "ota" => kind = "check"
    /\ \A d \in Domains : cache[d] # Invalid
    /\ mqBudget.drops + mqBudget.refusals + mqBudget.caches = 2
    /\ part # "mqtt" => mqBudget.drops = 0

OtaStep ==
    /\ part = "ota" /\ Next
    /\ UNCHANGED <<part, mqttVars, runnerVars, identityVars>>
MqttStep ==
    /\ part = "mqtt" /\ MqttNext
    /\ UNCHANGED <<part, vars, runnerVars, identityVars>>
RunnerStep ==
    /\ part = "runner" /\ Runner!Next
    /\ UNCHANGED <<part, vars, mqttVars, identityVars>>
IdentityStep ==
    /\ part = "identity" /\ Id!Next
    /\ UNCHANGED <<part, vars, mqttVars, runnerVars>>

ServicesNext == OtaStep \/ MqttStep \/ RunnerStep \/ IdentityStep

servicesVars == <<part, vars, mqttVars, runnerVars, identityVars>>

\* The fairness of each module, for the part that moves.
OtaFair ==
    /\ WF_vars(part = "ota" /\ Coordinator)
    /\ WF_vars(part = "ota" /\ Expire)
    /\ WF_vars(part = "ota" /\ NetIdle)
    /\ WF_vars(part = "ota" /\ NetWaits)
    /\ WF_vars(part = "ota" /\ NetPublishes)
MqttFair ==
    /\ WF_mqttVars(part = "mqtt" /\ StartPublisher)
    /\ WF_mqttVars(part = "mqtt" /\ Publisher)
    /\ WF_mqttVars(part = "mqtt" /\ Deliver)
    /\ WF_mqttVars(part = "mqtt" /\ Connected)
    /\ WF_mqttVars(part = "mqtt" /\ HandlerFinishes)
    /\ WF_mqttVars(part = "mqtt" /\ IntervalPasses)
RunnerFair ==
    /\ WF_runnerVars(part = "runner" /\ Runner!Drive)
    /\ WF_runnerVars(part = "runner" /\ Runner!PhaseRunsOut)
    /\ \A i \in Runner!Ids :
          WF_runnerVars(part = "runner" /\ Runner!DeadlinePasses(i))
    /\ WF_runnerVars(part = "runner" /\ Runner!CallerStep)
    /\ WF_runnerVars(part = "runner" /\ Runner!ApplyLinkDown)

IdentityFair ==
    /\ WF_identityVars(part = "identity" /\ Id!TxStep)
    /\ WF_identityVars(part = "identity" /\ Id!BootStep)
    /\ WF_identityVars(part = "identity" /\ Id!HttpStep)
    /\ WF_identityVars(part = "identity" /\ Id!AutoStep)
    /\ WF_identityVars(part = "identity" /\ Id!Reset)

ServicesSpec ==
    /\ ServicesInit /\ [][ServicesNext]_servicesVars
    /\ OtaFair /\ MqttFair /\ RunnerFair /\ IdentityFair

-----------------------------------------------------------------------------
(* OtaTransfer's LeaseEnds, for the part that moves.                        *)
OtaLeaseEnds == part = "ota" => LeaseEnds

(* OtaTransfer's WorkerEnds, for the part that moves.                       *)
OtaWorkerEnds == part = "ota" => WorkerEnds

(* Mqtt's BrokerSettles, for the part that moves.                           *)
MqttBrokerSettles == part = "mqtt" => BrokerSettles

(* CommandRunner's EveryCommandLeaves, for the part that moves.             *)
RunnerEveryCommandLeaves == part = "runner" => Runner!EveryCommandLeaves

(* Identity's JournalRetires, for the part that moves.                      *)
IdentityJournalRetires == part = "identity" => Id!JournalRetires

(* Identity's TransitionResolves, for the part that moves.                  *)
IdentityTransitionResolves == part = "identity" => Id!TransitionResolves

(* What was begun ends, in every part: an update gives the gate back and    *)
(* its worker retires (ota_coordinator.cpp:134), the broker holds the       *)
(* readings of the caches (mqtt_ha.cpp:470), a command leaves the FIFO      *)
(* (vehicle_telemetry.cpp:1463) and the identity journals retire.           *)
ServicesEnd ==
    /\ OtaLeaseEnds
    /\ OtaWorkerEnds
    /\ MqttBrokerSettles
    /\ RunnerEveryCommandLeaves
    /\ IdentityJournalRetires
    /\ IdentityTransitionResolves

=============================================================================
