------------------------------ MODULE BootProofs ------------------------------
(***************************************************************************)
(* Boot and heap supervision over any number of restarts: the inductive    *)
(* invariant BootInv of module Boot, and from it the invariants and the    *)
(* action property the run checks, for every threshold, limit and bound.   *)
(***************************************************************************)
EXTENDS Boot, TLAPS

\* Before the crash ledger is charged nothing of this boot is decided.
Fresh ==
    /\ stage \in {"nvs", "reason", "ledger"} => recovery = Latched /\ admission = "Booting"
    /\ stage \in {"nvs", "reason", "ledger", "supervisor"} => sup.at = "off"

\* What flash knows of the units charged so far; the count saturates above every limit.
Stored == IF ledger = Missing THEN 0 ELSE ledger

Budget ==
    /\ unhealthy <= Stored \/ ledger = CountMax
    /\ ~recovery.latched => unhealthy < Threshold
    /\ sup.at \in {"crumb", "restart"} => unhealthy < Stored /\ Stored <= Limit
    /\ sup.at \in {"reserve", "crumb"} => sup.streak < Limit

\* The gates of the start-up, in the order app_main passes them.
Startup ==
    /\ stage \in {"nimble", "nimbleWait"} => ~recovery.latched
    /\ stage = "services" => recovery.latched \/ host = "Synced"
    /\ stage \in {"firstTask", "secondTask", "cancelled", "admit"} =>
          ~recovery.latched /\ host = "Synced"
    /\ stage = "admit" => gate = "Running"
    /\ admission = "Ready" =>
          stage = "done" /\ host = "Synced" /\ gate = "Running" /\ ~recovery.latched
    /\ WorkNeedsAdmission

\* Credit is only trusted on evidence that is.
Credit ==
    /\ recovery.trusted => Trusted
    /\ sup.at = "clear" => recovery.trusted /\ ~recovery.latched

BootInv ==
    /\ Fresh
    /\ Budget
    /\ Startup
    /\ Credit
    /\ SealedIsAlone

----------------------------------------------------------------------------
(* Operators                                                               *)

\* The state of a fresh boot, and the credit a qualified healthy run restores.
LEMMA FreshTyped ==
    Latched \in RecoveryType /\ ClearedRecovery \in RecoveryType /\ NoSup \in SupType
  <1>1. 0 \in Counts /\ 0 \in 0..Hold /\ 0 \in 0..Healthy /\ 0 \in 0..Limit
    BY BootAssumption DEF Counts
  <1>2. Latched \in RecoveryType
    BY <1>1 DEF Latched, RecoveryType
  <1>3. ClearedRecovery \in RecoveryType
    BY <1>2 DEF ClearedRecovery, RecoveryType
  <1>4. NoSup \in SupType
    BY <1>1 DEF NoSup, SupType
  <1>5. QED
    BY <1>2, <1>3, <1>4

\* boot_shared_count() stays in the range of the counter, a clean boot starts over, a fault is one
\* unit more, and nothing else loses a stored unit.
LEMMA SharedCountBounds ==
    ASSUME TypeOK, NEW n \in Counts
    PROVE  /\ SharedCount(n) \in Counts
           /\ Cause = "Clean" => SharedCount(n) = 0
           /\ Cause = "Fault" => SharedCount(n) >= n + 1 \/ SharedCount(n) = CountMax
           /\ Cause # "Clean" => SharedCount(n) >= n
  <1> DEFINE floor == IF evidence.state = "Present" THEN MaxOf(n, evidence.streak) ELSE n
  <1>1. floor \in Counts /\ floor >= n
    BY BootAssumption DEF MaxOf, TypeOK, EvidenceType, Counts
  <1>2. SharedCount(n) = CASE Cause = "Clean" -> 0
                           [] Cause = "Fault" -> IF floor < CountMax THEN floor + 1 ELSE CountMax
                           [] OTHER           -> floor
    BY DEF SharedCount
  <1> HIDE DEF floor
  <1>3. CASE Cause = "Clean"
    BY <1>2, <1>3, BootAssumption DEF Counts
  <1>4. CASE Cause = "Fault"
    BY <1>1, <1>2, <1>4, BootAssumption DEF Counts
  <1>5. CASE Cause # "Clean" /\ Cause # "Fault"
    BY <1>1, <1>2, <1>5
  <1>6. QED
    BY <1>3, <1>4, <1>5

\* The unit safe_mode_prepare_heap_restart() stores is one more than what flash holds, within the
\* restart cap.
LEMMA ReservationBounds ==
    ASSUME TypeOK, NEW next \in Reservation
    PROVE  /\ next \in 1..Limit /\ next \in Counts
           /\ ledger \in Counts /\ ledger # Missing /\ ledger < next
  <1> DEFINE current == MaxOf(ledger, recovery.count)
  <1>1. ledger # Missing /\ current < Limit /\ next = current + 1
    BY DEF Reservation
  <1>2. ledger \in Counts /\ recovery.count \in Counts
    BY <1>1 DEF TypeOK, RecoveryType
  <1>3. current \in Counts /\ ledger <= current
    BY <1>2 DEF MaxOf, Counts
  <1> HIDE DEF current
  <1>4. QED
    BY <1>1, <1>2, <1>3, BootAssumption DEF Counts

----------------------------------------------------------------------------
(* Every action keeps the invariant                                        *)

\* BootStorage keeps BootInv.
LEMMA BootStorageKeeps ==
    ASSUME TypeOK, BootInv, BootStorage
    PROVE  TypeOK' /\ BootInv'
  <1> USE DEF BootInv, TypeOK, BootStorage, Passes, BootFatal, flashVars, startVars, supVars,
      envVars
  <1>1. TypeOK'
    <2>1. ledger' \in Counts \cup {Missing}
      BY BootAssumption DEF Counts, Missing, EvidenceType, RecoveryType
    <2>2. crumb' \in 1..Limit \cup {Missing}
      BY BootAssumption DEF Missing, SupType
    <2>3. pending' \in BOOLEAN
      BY BootAssumption
    <2>4. reset' \in Codes
      BY BootAssumption DEF Codes
    <2>5. evidence' \in EvidenceType
      BY BootAssumption DEF EvidenceType, NoEvidence, Missing
    <2>6. recovery' \in RecoveryType
      BY BootAssumption DEF RecoveryType, Latched, Counts, Missing
    <2>7. admission' \in {"Booting", "Ready", "SafeMode", "Fatal"}
      BY BootAssumption
    <2>8. stage' \in Stages
      BY BootAssumption DEF Stages
    <2>9. host' \in {"Idle", "AwaitingSync", "Synced", "TimedOut"}
      BY BootAssumption
    <2>10. synced' \in BOOLEAN
      BY BootAssumption
    <2>11. hostReset' \in BOOLEAN
      BY BootAssumption
    <2>12. gate' \in {"Idle", "Creating", "Running", "Cancelled"}
      BY BootAssumption
    <2>13. tasks' \in [Tasks -> {"none", "wait", "run", "gone"}]
      BY BootAssumption DEF Tasks
    <2>14. owner' \in {"Idle", "Ota", "FaultRestart", "Sealed"}
      BY BootAssumption
    <2>15. heap' \in {"ok", "critical"}
      BY BootAssumption
    <2>16. sup' \in SupType
      BY BootAssumption DEF SupType, NoSup, EvidenceType
    <2>17. cool' \in SUBSET {"restart", "clear"}
      BY BootAssumption
    <2>18. resets' \in 0..MaxResets
      BY BootAssumption
    <2>19. faults' \in 0..MaxFaults
      BY BootAssumption
    <2>20. unhealthy' \in Nat
      BY BootAssumption
    <2>21. QED
      BY <2>1, <2>2, <2>3, <2>4, <2>5, <2>6, <2>7, <2>8, <2>9, <2>10, <2>11, <2>12, <2>13,
         <2>14, <2>15, <2>16, <2>17, <2>18, <2>19, <2>20
  <1>2. Fresh'
    BY BootAssumption DEF Fresh, Latched
  <1>3. Budget'
    BY BootAssumption DEF Budget, Stored, Latched, Missing, Counts, RecoveryType, SupType
  <1>4. Startup'
    BY BootAssumption DEF Startup, WorkNeedsAdmission, Latched, RecoveryType
  <1>5. Credit'
    BY BootAssumption DEF Credit, Trusted, Cause, Latched, RecoveryType
  <1>6. SealedIsAlone'
    BY BootAssumption DEF SealedIsAlone, SupType
  <1>7. QED
    BY <1>1, <1>2, <1>3, <1>4, <1>5, <1>6

\* BootNetwork keeps BootInv.
LEMMA BootNetworkKeeps ==
    ASSUME TypeOK, BootInv, BootNetwork
    PROVE  TypeOK' /\ BootInv'
  <1> USE DEF BootInv, TypeOK, BootNetwork, Passes, BootFatal, flashVars, startVars, supVars,
      envVars
  <1>1. TypeOK'
    <2>1. ledger' \in Counts \cup {Missing}
      BY BootAssumption DEF Counts, Missing, EvidenceType, RecoveryType
    <2>2. crumb' \in 1..Limit \cup {Missing}
      BY BootAssumption DEF Missing, SupType
    <2>3. pending' \in BOOLEAN
      BY BootAssumption
    <2>4. reset' \in Codes
      BY BootAssumption DEF Codes
    <2>5. evidence' \in EvidenceType
      BY BootAssumption DEF EvidenceType, NoEvidence, Missing
    <2>6. recovery' \in RecoveryType
      BY BootAssumption DEF RecoveryType, Latched, Counts, Missing
    <2>7. admission' \in {"Booting", "Ready", "SafeMode", "Fatal"}
      BY BootAssumption
    <2>8. stage' \in Stages
      BY BootAssumption DEF Stages
    <2>9. host' \in {"Idle", "AwaitingSync", "Synced", "TimedOut"}
      BY BootAssumption
    <2>10. synced' \in BOOLEAN
      BY BootAssumption
    <2>11. hostReset' \in BOOLEAN
      BY BootAssumption
    <2>12. gate' \in {"Idle", "Creating", "Running", "Cancelled"}
      BY BootAssumption
    <2>13. tasks' \in [Tasks -> {"none", "wait", "run", "gone"}]
      BY BootAssumption DEF Tasks
    <2>14. owner' \in {"Idle", "Ota", "FaultRestart", "Sealed"}
      BY BootAssumption
    <2>15. heap' \in {"ok", "critical"}
      BY BootAssumption
    <2>16. sup' \in SupType
      BY BootAssumption DEF SupType, NoSup, EvidenceType
    <2>17. cool' \in SUBSET {"restart", "clear"}
      BY BootAssumption
    <2>18. resets' \in 0..MaxResets
      BY BootAssumption
    <2>19. faults' \in 0..MaxFaults
      BY BootAssumption
    <2>20. unhealthy' \in Nat
      BY BootAssumption
    <2>21. QED
      BY <2>1, <2>2, <2>3, <2>4, <2>5, <2>6, <2>7, <2>8, <2>9, <2>10, <2>11, <2>12, <2>13,
         <2>14, <2>15, <2>16, <2>17, <2>18, <2>19, <2>20
  <1>2. Fresh'
    BY BootAssumption DEF Fresh, Latched
  <1>3. Budget'
    BY BootAssumption DEF Budget, Stored, Latched, Missing, Counts, RecoveryType, SupType
  <1>4. Startup'
    BY BootAssumption DEF Startup, WorkNeedsAdmission, Latched, RecoveryType
  <1>5. Credit'
    BY BootAssumption DEF Credit, Trusted, Cause, Latched, RecoveryType
  <1>6. SealedIsAlone'
    BY BootAssumption DEF SealedIsAlone, SupType
  <1>7. QED
    BY <1>1, <1>2, <1>3, <1>4, <1>5, <1>6

\* BootServices keeps BootInv.
LEMMA BootServicesKeeps ==
    ASSUME TypeOK, BootInv, BootServices
    PROVE  TypeOK' /\ BootInv'
  <1> USE DEF BootInv, TypeOK, BootServices, Passes, BootFatal, flashVars, startVars, supVars,
      envVars
  <1>1. TypeOK'
    <2>1. ledger' \in Counts \cup {Missing}
      BY BootAssumption DEF Counts, Missing, EvidenceType, RecoveryType
    <2>2. crumb' \in 1..Limit \cup {Missing}
      BY BootAssumption DEF Missing, SupType
    <2>3. pending' \in BOOLEAN
      BY BootAssumption
    <2>4. reset' \in Codes
      BY BootAssumption DEF Codes
    <2>5. evidence' \in EvidenceType
      BY BootAssumption DEF EvidenceType, NoEvidence, Missing
    <2>6. recovery' \in RecoveryType
      BY BootAssumption DEF RecoveryType, Latched, Counts, Missing
    <2>7. admission' \in {"Booting", "Ready", "SafeMode", "Fatal"}
      BY BootAssumption
    <2>8. stage' \in Stages
      BY BootAssumption DEF Stages
    <2>9. host' \in {"Idle", "AwaitingSync", "Synced", "TimedOut"}
      BY BootAssumption
    <2>10. synced' \in BOOLEAN
      BY BootAssumption
    <2>11. hostReset' \in BOOLEAN
      BY BootAssumption
    <2>12. gate' \in {"Idle", "Creating", "Running", "Cancelled"}
      BY BootAssumption
    <2>13. tasks' \in [Tasks -> {"none", "wait", "run", "gone"}]
      BY BootAssumption DEF Tasks
    <2>14. owner' \in {"Idle", "Ota", "FaultRestart", "Sealed"}
      BY BootAssumption
    <2>15. heap' \in {"ok", "critical"}
      BY BootAssumption
    <2>16. sup' \in SupType
      BY BootAssumption DEF SupType, NoSup, EvidenceType
    <2>17. cool' \in SUBSET {"restart", "clear"}
      BY BootAssumption
    <2>18. resets' \in 0..MaxResets
      BY BootAssumption
    <2>19. faults' \in 0..MaxFaults
      BY BootAssumption
    <2>20. unhealthy' \in Nat
      BY BootAssumption
    <2>21. QED
      BY <2>1, <2>2, <2>3, <2>4, <2>5, <2>6, <2>7, <2>8, <2>9, <2>10, <2>11, <2>12, <2>13,
         <2>14, <2>15, <2>16, <2>17, <2>18, <2>19, <2>20
  <1>2. Fresh'
    BY BootAssumption DEF Fresh, Latched
  <1>3. Budget'
    BY BootAssumption DEF Budget, Stored, Latched, Missing, Counts, RecoveryType, SupType
  <1>4. Startup'
    BY BootAssumption DEF Startup, WorkNeedsAdmission, Latched, RecoveryType
  <1>5. Credit'
    BY BootAssumption DEF Credit, Trusted, Cause, Latched, RecoveryType
  <1>6. SealedIsAlone'
    BY BootAssumption DEF SealedIsAlone, SupType
  <1>7. QED
    BY <1>1, <1>2, <1>3, <1>4, <1>5, <1>6

\* TakeReason keeps BootInv.
LEMMA TakeReasonKeeps ==
    ASSUME TypeOK, BootInv, TakeReason
    PROVE  TypeOK' /\ BootInv'
  <1> USE DEF BootInv, TypeOK, TakeReason, StoreFails, StoreWorks, NoEvidence, startVars,
      supVars
  <1>1. TypeOK'
    <2>1. crumb' \in 1..Limit \cup {Missing}
      BY BootAssumption DEF Missing, SupType
    <2>2. evidence' \in EvidenceType
      BY BootAssumption DEF EvidenceType, Missing
    <2>3. stage' \in Stages
      BY BootAssumption DEF Stages
    <2>4. faults' \in 0..MaxFaults
      BY BootAssumption
    <2>5. QED
      BY <2>1, <2>2, <2>3, <2>4
  <1>2. Fresh'
    BY BootAssumption DEF Fresh, Latched
  <1>3. Budget'
    BY BootAssumption DEF Budget, Stored, Latched, Missing, Counts, RecoveryType, SupType
  <1>4. Startup'
    BY BootAssumption DEF Startup, WorkNeedsAdmission, Latched, RecoveryType
  <1>5. Credit'
    BY BootAssumption DEF Credit, Trusted, Cause, Fresh, Latched, RecoveryType
  <1>6. SealedIsAlone'
    BY BootAssumption DEF SealedIsAlone, SupType
  <1>7. QED
    BY <1>1, <1>2, <1>3, <1>4, <1>5, <1>6

\* SafeModeBegin keeps BootInv.
LEMMA SafeModeBeginKeeps ==
    ASSUME TypeOK, BootInv, SafeModeBegin
    PROVE  TypeOK' /\ BootInv'
  <1> USE DEF BootInv, TypeOK, SafeModeBegin, StoreFails, StoreWorks, Cause, Trusted, MaxOf,
      Latched, startVars, supVars
  <1>1. TypeOK'
    <2>1. ledger' \in Counts \cup {Missing}
      BY SharedCountBounds, BootAssumption DEF Counts, Missing, EvidenceType, RecoveryType
    <2>2. recovery' \in RecoveryType
      <3>1. PICK n \in Counts :
              recovery' \in {Latched, [count |-> n, latched |-> n >= Threshold, trusted |-> Trusted,
                                      clear |-> n < Threshold /\ n # 0 /\ Trusted]}
        BY SharedCountBounds, BootAssumption DEF Counts, Missing
      <3>2. PICK l \in BOOLEAN : l = (n >= Threshold)
        <4>1. (n >= Threshold) = TRUE \/ (n >= Threshold) = FALSE
          BY BootAssumption DEF Counts
        <4> HIDE DEF SafeModeBegin, TypeOK, BootInv
        <4>2. QED
          BY <4>1
      <3>3. PICK t \in BOOLEAN : t = Trusted
        OBVIOUS
      <3>4. PICK c \in BOOLEAN : c = (n < Threshold /\ n # 0 /\ t)
        OBVIOUS
      <3>5. recovery' \in {Latched, [count |-> n, latched |-> l, trusted |-> t, clear |-> c]}
        BY <3>1, <3>2, <3>3, <3>4
      <3> HIDE DEF SafeModeBegin, TypeOK, BootInv, Latched
      <3>6. QED
        BY <3>5, FreshTyped DEF RecoveryType
    <2>3. admission' \in {"Booting", "Ready", "SafeMode", "Fatal"}
      BY SharedCountBounds, BootAssumption
    <2>4. stage' \in Stages
      BY SharedCountBounds, BootAssumption DEF Stages
    <2>5. faults' \in 0..MaxFaults
      BY SharedCountBounds, BootAssumption
    <2>6. unhealthy' \in Nat
      BY SharedCountBounds, BootAssumption
    <2>7. QED
      BY <2>1, <2>2, <2>3, <2>4, <2>5, <2>6
  <1>2. Fresh'
    BY SharedCountBounds, BootAssumption DEF Fresh
  <1>3. Budget'
    BY SharedCountBounds, BootAssumption DEF Budget, Stored, Fresh, Missing, Counts,
       RecoveryType, SupType
  <1>4. Startup'
    BY SharedCountBounds, BootAssumption DEF Startup, WorkNeedsAdmission, RecoveryType
  <1>5. Credit'
    BY SharedCountBounds, BootAssumption DEF Credit, Fresh, RecoveryType
  <1>6. SealedIsAlone'
    BY SharedCountBounds, BootAssumption DEF SealedIsAlone, SupType
  <1>7. QED
    BY <1>1, <1>2, <1>3, <1>4, <1>5, <1>6

\* SupervisorStart keeps BootInv.
LEMMA SupervisorStartKeeps ==
    ASSUME TypeOK, BootInv, SupervisorStart
    PROVE  TypeOK' /\ BootInv'
  <1> USE DEF BootInv, TypeOK, SupervisorStart, BootFatal, NoSup, flashVars, startVars, envVars
  <1>1. TypeOK'
    <2>1. admission' \in {"Booting", "Ready", "SafeMode", "Fatal"}
      BY BootAssumption
    <2>2. stage' \in Stages
      BY BootAssumption DEF Stages
    <2>3. sup' \in SupType
      <3>1. PICK seeded \in BOOLEAN : seeded = (evidence.state # "Error")
        OBVIOUS
      <3>2. PICK streak \in 0..Limit : streak = IF seeded THEN evidence.streak ELSE Limit
        BY BootAssumption DEF EvidenceType
      <3>3. \/ sup' = [NoSup EXCEPT !.at = "sample", !.trusted = seeded, !.streak = streak]
            \/ UNCHANGED sup
        BY <3>1, <3>2
      <3> HIDE DEF SupervisorStart, BootInv
      <3>4. QED
        BY <3>3, FreshTyped DEF SupType
    <2>4. QED
      BY <2>1, <2>2, <2>3
  <1>2. Fresh'
    BY BootAssumption DEF Fresh, Latched
  <1>3. Budget'
    BY BootAssumption DEF Budget, Stored, Latched, Missing, Counts, RecoveryType, SupType
  <1>4. Startup'
    BY BootAssumption DEF Startup, WorkNeedsAdmission, Latched, RecoveryType
  <1>5. Credit'
    BY BootAssumption DEF Credit, Trusted, Cause, Latched, RecoveryType
  <1>6. SealedIsAlone'
    BY BootAssumption DEF SealedIsAlone, SupType
  <1>7. QED
    BY <1>1, <1>2, <1>3, <1>4, <1>5, <1>6

\* NimbleStart keeps BootInv.
LEMMA NimbleStartKeeps ==
    ASSUME TypeOK, BootInv, NimbleStart
    PROVE  TypeOK' /\ BootInv'
  <1> USE DEF BootInv, TypeOK, NimbleStart, BootFatal, flashVars, supVars, envVars
  <1>1. TypeOK'
    <2>1. admission' \in {"Booting", "Ready", "SafeMode", "Fatal"}
      BY BootAssumption
    <2>2. stage' \in Stages
      BY BootAssumption DEF Stages
    <2>3. host' \in {"Idle", "AwaitingSync", "Synced", "TimedOut"}
      BY BootAssumption
    <2>4. QED
      BY <2>1, <2>2, <2>3
  <1>2. Fresh'
    BY BootAssumption DEF Fresh, Latched
  <1>3. Budget'
    BY BootAssumption DEF Budget, Stored, Latched, Missing, Counts, RecoveryType, SupType
  <1>4. Startup'
    BY BootAssumption DEF Startup, WorkNeedsAdmission, Latched, RecoveryType
  <1>5. Credit'
    BY BootAssumption DEF Credit, Trusted, Cause, Latched, RecoveryType
  <1>6. SealedIsAlone'
    BY BootAssumption DEF SealedIsAlone, SupType
  <1>7. QED
    BY <1>1, <1>2, <1>3, <1>4, <1>5, <1>6

\* NimbleWait keeps BootInv.
LEMMA NimbleWaitKeeps ==
    ASSUME TypeOK, BootInv, NimbleWait
    PROVE  TypeOK' /\ BootInv'
  <1> USE DEF BootInv, TypeOK, NimbleWait, BootFatal, flashVars, supVars, envVars
  <1>1. TypeOK'
    <2>1. admission' \in {"Booting", "Ready", "SafeMode", "Fatal"}
      BY BootAssumption
    <2>2. stage' \in Stages
      BY BootAssumption DEF Stages
    <2>3. host' \in {"Idle", "AwaitingSync", "Synced", "TimedOut"}
      BY BootAssumption
    <2>4. QED
      BY <2>1, <2>2, <2>3
  <1>2. Fresh'
    BY BootAssumption DEF Fresh, Latched
  <1>3. Budget'
    BY BootAssumption DEF Budget, Stored, Latched, Missing, Counts, RecoveryType, SupType
  <1>4. Startup'
    BY BootAssumption DEF Startup, WorkNeedsAdmission, Latched, RecoveryType
  <1>5. Credit'
    BY BootAssumption DEF Credit, Trusted, Cause, Latched, RecoveryType
  <1>6. SealedIsAlone'
    BY BootAssumption DEF SealedIsAlone, SupType
  <1>7. QED
    BY <1>1, <1>2, <1>3, <1>4, <1>5, <1>6

\* FirstTask keeps BootInv.
LEMMA FirstTaskKeeps ==
    ASSUME TypeOK, BootInv, FirstTask
    PROVE  TypeOK' /\ BootInv'
  <1> USE DEF BootInv, TypeOK, FirstTask, BootFatal, flashVars, supVars, envVars
  <1>1. TypeOK'
    <2>1. admission' \in {"Booting", "Ready", "SafeMode", "Fatal"}
      BY BootAssumption
    <2>2. stage' \in Stages
      BY BootAssumption DEF Stages
    <2>3. gate' \in {"Idle", "Creating", "Running", "Cancelled"}
      BY BootAssumption
    <2>4. tasks' \in [Tasks -> {"none", "wait", "run", "gone"}]
      BY BootAssumption DEF Tasks
    <2>5. QED
      BY <2>1, <2>2, <2>3, <2>4
  <1>2. Fresh'
    BY BootAssumption DEF Fresh, Latched
  <1>3. Budget'
    BY BootAssumption DEF Budget, Stored, Latched, Missing, Counts, RecoveryType, SupType
  <1>4. Startup'
    BY BootAssumption DEF Startup, WorkNeedsAdmission, Latched, RecoveryType
  <1>5. Credit'
    BY BootAssumption DEF Credit, Trusted, Cause, Latched, RecoveryType
  <1>6. SealedIsAlone'
    BY BootAssumption DEF SealedIsAlone, SupType
  <1>7. QED
    BY <1>1, <1>2, <1>3, <1>4, <1>5, <1>6

\* SecondTask keeps BootInv.
LEMMA SecondTaskKeeps ==
    ASSUME TypeOK, BootInv, SecondTask
    PROVE  TypeOK' /\ BootInv'
  <1> USE DEF BootInv, TypeOK, SecondTask, flashVars, supVars, envVars
  <1>1. TypeOK'
    <2>1. stage' \in Stages
      BY BootAssumption DEF Stages
    <2>2. gate' \in {"Idle", "Creating", "Running", "Cancelled"}
      BY BootAssumption
    <2>3. tasks' \in [Tasks -> {"none", "wait", "run", "gone"}]
      BY BootAssumption DEF Tasks
    <2>4. QED
      BY <2>1, <2>2, <2>3
  <1>2. Fresh'
    BY BootAssumption DEF Fresh, Latched
  <1>3. Budget'
    BY BootAssumption DEF Budget, Stored, Latched, Missing, Counts, RecoveryType, SupType
  <1>4. Startup'
    BY BootAssumption DEF Startup, WorkNeedsAdmission, Latched, RecoveryType
  <1>5. Credit'
    BY BootAssumption DEF Credit, Trusted, Cause, Latched, RecoveryType
  <1>6. SealedIsAlone'
    BY BootAssumption DEF SealedIsAlone, SupType
  <1>7. QED
    BY <1>1, <1>2, <1>3, <1>4, <1>5, <1>6

\* CancelledStart keeps BootInv.
LEMMA CancelledStartKeeps ==
    ASSUME TypeOK, BootInv, CancelledStart
    PROVE  TypeOK' /\ BootInv'
  <1> USE DEF BootInv, TypeOK, CancelledStart, BootFatal, flashVars, supVars, envVars
  <1>1. TypeOK'
    <2>1. admission' \in {"Booting", "Ready", "SafeMode", "Fatal"}
      BY BootAssumption
    <2>2. stage' \in Stages
      BY BootAssumption DEF Stages
    <2>3. gate' \in {"Idle", "Creating", "Running", "Cancelled"}
      BY BootAssumption
    <2>4. QED
      BY <2>1, <2>2, <2>3
  <1>2. Fresh'
    BY BootAssumption DEF Fresh, Latched
  <1>3. Budget'
    BY BootAssumption DEF Budget, Stored, Latched, Missing, Counts, RecoveryType, SupType
  <1>4. Startup'
    BY BootAssumption DEF Startup, WorkNeedsAdmission, Latched, RecoveryType
  <1>5. Credit'
    BY BootAssumption DEF Credit, Trusted, Cause, Latched, RecoveryType
  <1>6. SealedIsAlone'
    BY BootAssumption DEF SealedIsAlone, SupType
  <1>7. QED
    BY <1>1, <1>2, <1>3, <1>4, <1>5, <1>6

\* Admit keeps BootInv.
LEMMA AdmitKeeps ==
    ASSUME TypeOK, BootInv, Admit
    PROVE  TypeOK' /\ BootInv'
  <1> USE DEF BootInv, TypeOK, Admit, BootFatal, flashVars, startVars, supVars, envVars
  <1>1. TypeOK'
    <2>1. admission' \in {"Booting", "Ready", "SafeMode", "Fatal"}
      BY BootAssumption
    <2>2. stage' \in Stages
      BY BootAssumption DEF Stages
    <2>3. QED
      BY <2>1, <2>2
  <1>2. Fresh'
    BY BootAssumption DEF Fresh, Latched
  <1>3. Budget'
    BY BootAssumption DEF Budget, Stored, Latched, Missing, Counts, RecoveryType, SupType
  <1>4. Startup'
    BY BootAssumption DEF Startup, WorkNeedsAdmission, Latched, RecoveryType
  <1>5. Credit'
    BY BootAssumption DEF Credit, Trusted, Cause, Latched, RecoveryType
  <1>6. SealedIsAlone'
    BY BootAssumption DEF SealedIsAlone, SupType
  <1>7. QED
    BY <1>1, <1>2, <1>3, <1>4, <1>5, <1>6

\* FatalRollback keeps BootInv.
LEMMA FatalRollbackKeeps ==
    ASSUME TypeOK, BootInv, FatalRollback
    PROVE  TypeOK' /\ BootInv'
  <1> USE DEF BootInv, TypeOK, FatalRollback, flashVars, startVars, supVars, envVars
  <1>1. TypeOK'
    <2>1. stage' \in Stages
      BY BootAssumption DEF Stages
    <2>2. owner' \in {"Idle", "Ota", "FaultRestart", "Sealed"}
      BY BootAssumption
    <2>3. QED
      BY <2>1, <2>2
  <1>2. Fresh'
    BY BootAssumption DEF Fresh, Latched
  <1>3. Budget'
    BY BootAssumption DEF Budget, Stored, Latched, Missing, Counts, RecoveryType, SupType
  <1>4. Startup'
    BY BootAssumption DEF Startup, WorkNeedsAdmission, Latched, RecoveryType
  <1>5. Credit'
    BY BootAssumption DEF Credit, Trusted, Cause, Latched, RecoveryType
  <1>6. SealedIsAlone'
    BY BootAssumption DEF SealedIsAlone, SupType
  <1>7. QED
    BY <1>1, <1>2, <1>3, <1>4, <1>5, <1>6

\* RollbackReboots keeps BootInv.
LEMMA RollbackRebootsKeeps ==
    ASSUME TypeOK, BootInv, RollbackReboots
    PROVE  TypeOK' /\ BootInv'
  <1> USE DEF BootInv, TypeOK, RollbackReboots, Restarted, NoEvidence, Latched, NoSup,
      startVars, supVars, envVars
  <1>1. TypeOK'
    <2>1. pending' \in BOOLEAN
      BY BootAssumption
    <2>2. reset' \in Codes
      BY BootAssumption DEF Codes
    <2>3. evidence' \in EvidenceType
      BY BootAssumption DEF EvidenceType, Missing
    <2>4. recovery' \in RecoveryType
      <3>1. recovery' \in {Latched, recovery}
        OBVIOUS
      <3> HIDE DEF RollbackReboots, BootInv
      <3>2. QED
        BY <3>1, FreshTyped
    <2>5. admission' \in {"Booting", "Ready", "SafeMode", "Fatal"}
      BY BootAssumption
    <2>6. stage' \in Stages
      BY BootAssumption DEF Stages
    <2>7. host' \in {"Idle", "AwaitingSync", "Synced", "TimedOut"}
      BY BootAssumption
    <2>8. synced' \in BOOLEAN
      BY BootAssumption
    <2>9. hostReset' \in BOOLEAN
      BY BootAssumption
    <2>10. gate' \in {"Idle", "Creating", "Running", "Cancelled"}
      BY BootAssumption
    <2>11. tasks' \in [Tasks -> {"none", "wait", "run", "gone"}]
      BY BootAssumption DEF Tasks
    <2>12. owner' \in {"Idle", "Ota", "FaultRestart", "Sealed"}
      BY BootAssumption
    <2>13. sup' \in SupType
      <3>1. sup' \in {NoSup, sup}
        OBVIOUS
      <3> HIDE DEF RollbackReboots, BootInv
      <3>2. QED
        BY <3>1, FreshTyped
    <2>14. cool' \in SUBSET {"restart", "clear"}
      BY BootAssumption
    <2>15. QED
      BY <2>1, <2>2, <2>3, <2>4, <2>5, <2>6, <2>7, <2>8, <2>9, <2>10, <2>11, <2>12, <2>13, <2>14
  <1>2. Fresh'
    BY BootAssumption DEF Fresh
  <1>3. Budget'
    BY BootAssumption DEF Budget, Stored, Missing, Counts, RecoveryType, SupType
  <1>4. Startup'
    BY BootAssumption DEF Startup, WorkNeedsAdmission, RecoveryType
  <1>5. Credit'
    BY BootAssumption DEF Credit, Trusted, Cause, RecoveryType
  <1>6. SealedIsAlone'
    BY BootAssumption DEF SealedIsAlone, SupType
  <1>7. QED
    BY <1>1, <1>2, <1>3, <1>4, <1>5, <1>6

\* PortalReturns keeps BootInv.
LEMMA PortalReturnsKeeps ==
    ASSUME TypeOK, BootInv, PortalReturns
    PROVE  TypeOK' /\ BootInv'
  <1> USE DEF BootInv, TypeOK, PortalReturns, Passes, BootFatal, flashVars, startVars, supVars,
      envVars
  <1>1. TypeOK'
    <2>1. ledger' \in Counts \cup {Missing}
      BY BootAssumption DEF Counts, Missing, EvidenceType, RecoveryType
    <2>2. crumb' \in 1..Limit \cup {Missing}
      BY BootAssumption DEF Missing, SupType
    <2>3. pending' \in BOOLEAN
      BY BootAssumption
    <2>4. reset' \in Codes
      BY BootAssumption DEF Codes
    <2>5. evidence' \in EvidenceType
      BY BootAssumption DEF EvidenceType, NoEvidence, Missing
    <2>6. recovery' \in RecoveryType
      BY BootAssumption DEF RecoveryType, Latched, Counts, Missing
    <2>7. admission' \in {"Booting", "Ready", "SafeMode", "Fatal"}
      BY BootAssumption
    <2>8. stage' \in Stages
      BY BootAssumption DEF Stages
    <2>9. host' \in {"Idle", "AwaitingSync", "Synced", "TimedOut"}
      BY BootAssumption
    <2>10. synced' \in BOOLEAN
      BY BootAssumption
    <2>11. hostReset' \in BOOLEAN
      BY BootAssumption
    <2>12. gate' \in {"Idle", "Creating", "Running", "Cancelled"}
      BY BootAssumption
    <2>13. tasks' \in [Tasks -> {"none", "wait", "run", "gone"}]
      BY BootAssumption DEF Tasks
    <2>14. owner' \in {"Idle", "Ota", "FaultRestart", "Sealed"}
      BY BootAssumption
    <2>15. heap' \in {"ok", "critical"}
      BY BootAssumption
    <2>16. sup' \in SupType
      BY BootAssumption DEF SupType, NoSup, EvidenceType
    <2>17. cool' \in SUBSET {"restart", "clear"}
      BY BootAssumption
    <2>18. resets' \in 0..MaxResets
      BY BootAssumption
    <2>19. faults' \in 0..MaxFaults
      BY BootAssumption
    <2>20. unhealthy' \in Nat
      BY BootAssumption
    <2>21. QED
      BY <2>1, <2>2, <2>3, <2>4, <2>5, <2>6, <2>7, <2>8, <2>9, <2>10, <2>11, <2>12, <2>13,
         <2>14, <2>15, <2>16, <2>17, <2>18, <2>19, <2>20
  <1>2. Fresh'
    BY BootAssumption DEF Fresh, Latched
  <1>3. Budget'
    BY BootAssumption DEF Budget, Stored, Latched, Missing, Counts, RecoveryType, SupType
  <1>4. Startup'
    BY BootAssumption DEF Startup, WorkNeedsAdmission, Latched, RecoveryType
  <1>5. Credit'
    BY BootAssumption DEF Credit, Trusted, Cause, Latched, RecoveryType
  <1>6. SealedIsAlone'
    BY BootAssumption DEF SealedIsAlone, SupType
  <1>7. QED
    BY <1>1, <1>2, <1>3, <1>4, <1>5, <1>6

\* TaskEnters keeps BootInv.
LEMMA TaskEntersKeeps ==
    ASSUME TypeOK, BootInv, TaskEnters
    PROVE  TypeOK' /\ BootInv'
  <1> USE DEF BootInv, TypeOK, TaskEnters, flashVars, bootVars, supVars, envVars
  <1>1. TypeOK'
    <2>1. tasks' \in [Tasks -> {"none", "wait", "run", "gone"}]
      BY BootAssumption DEF Tasks
    <2>2. QED
      BY <2>1
  <1>2. Fresh'
    BY BootAssumption DEF Fresh, Latched
  <1>3. Budget'
    BY BootAssumption DEF Budget, Stored, Latched, Missing, Counts, RecoveryType, SupType
  <1>4. Startup'
    BY BootAssumption DEF Startup, WorkNeedsAdmission, Latched, RecoveryType
  <1>5. Credit'
    BY BootAssumption DEF Credit, Trusted, Cause, Latched, RecoveryType
  <1>6. SealedIsAlone'
    BY BootAssumption DEF SealedIsAlone, SupType
  <1>7. QED
    BY <1>1, <1>2, <1>3, <1>4, <1>5, <1>6

\* HostSync keeps BootInv.
LEMMA HostSyncKeeps ==
    ASSUME TypeOK, BootInv, HostSync
    PROVE  TypeOK' /\ BootInv'
  <1> USE DEF BootInv, TypeOK, HostSync, flashVars, bootVars, supVars, envVars
  <1>1. TypeOK'
    <2>1. host' \in {"Idle", "AwaitingSync", "Synced", "TimedOut"}
      BY BootAssumption
    <2>2. synced' \in BOOLEAN
      BY BootAssumption
    <2>3. QED
      BY <2>1, <2>2
  <1>2. Fresh'
    BY BootAssumption DEF Fresh, Latched
  <1>3. Budget'
    BY BootAssumption DEF Budget, Stored, Latched, Missing, Counts, RecoveryType, SupType
  <1>4. Startup'
    BY BootAssumption DEF Startup, WorkNeedsAdmission, Latched, RecoveryType
  <1>5. Credit'
    BY BootAssumption DEF Credit, Trusted, Cause, Latched, RecoveryType
  <1>6. SealedIsAlone'
    BY BootAssumption DEF SealedIsAlone, SupType
  <1>7. QED
    BY <1>1, <1>2, <1>3, <1>4, <1>5, <1>6

\* HostResets keeps BootInv.
LEMMA HostResetsKeeps ==
    ASSUME TypeOK, BootInv, HostResets
    PROVE  TypeOK' /\ BootInv'
  <1> USE DEF BootInv, TypeOK, HostResets, flashVars, bootVars, supVars, envVars
  <1>1. TypeOK'
    <2>1. synced' \in BOOLEAN
      BY BootAssumption
    <2>2. hostReset' \in BOOLEAN
      BY BootAssumption
    <2>3. QED
      BY <2>1, <2>2
  <1>2. Fresh'
    BY BootAssumption DEF Fresh, Latched
  <1>3. Budget'
    BY BootAssumption DEF Budget, Stored, Latched, Missing, Counts, RecoveryType, SupType
  <1>4. Startup'
    BY BootAssumption DEF Startup, WorkNeedsAdmission, Latched, RecoveryType
  <1>5. Credit'
    BY BootAssumption DEF Credit, Trusted, Cause, Latched, RecoveryType
  <1>6. SealedIsAlone'
    BY BootAssumption DEF SealedIsAlone, SupType
  <1>7. QED
    BY <1>1, <1>2, <1>3, <1>4, <1>5, <1>6

\* SupSample keeps BootInv.
LEMMA SupSampleKeeps ==
    ASSUME TypeOK, BootInv, SupSample
    PROVE  TypeOK' /\ BootInv'
  <1> USE DEF BootInv, TypeOK, SupSample, Busy, HealthyNow, Critical, SupHold, SupRun,
      flashVars, bootVars, startVars, envVars
  <1>1. TypeOK'
    <2>1. sup' \in SupType
      <3>1. PICK h \in 0..Hold : h = SupHold
        BY BootAssumption DEF SupType
      <3>2. PICK eligible \in BOOLEAN, a \in {"sample", "attempt", "abort", "clear"} :
              sup' = [sup EXCEPT !.hold = h, !.run = SupRun(eligible), !.at = a]
        BY <3>1
      <3>3. SupRun(eligible) \in 0..Healthy
        BY BootAssumption DEF SupType
      <3>4. QED
        BY <3>2, <3>3 DEF SupType
    <2>2. QED
      BY <2>1
  <1>2. Fresh'
    BY BootAssumption DEF Fresh, Latched
  <1>3. Budget'
    BY BootAssumption DEF Budget, Stored, Latched, Missing, Counts, RecoveryType, SupType
  <1>4. Startup'
    BY BootAssumption DEF Startup, WorkNeedsAdmission, Latched, RecoveryType
  <1>5. Credit'
    BY BootAssumption DEF Credit, Trusted, Cause, Latched, RecoveryType
  <1>6. SealedIsAlone'
    BY BootAssumption DEF SealedIsAlone, SupType
  <1>7. QED
    BY <1>1, <1>2, <1>3, <1>4, <1>5, <1>6

\* SupAborts keeps BootInv.
LEMMA SupAbortsKeeps ==
    ASSUME TypeOK, BootInv, SupAborts
    PROVE  TypeOK' /\ BootInv'
  <1> USE DEF BootInv, TypeOK, SupAborts, Busy, flashVars, bootVars, startVars, envVars
  <1>1. TypeOK'
    <2>1. owner' \in {"Idle", "Ota", "FaultRestart", "Sealed"}
      BY BootAssumption
    <2>2. sup' \in SupType
      BY BootAssumption DEF SupType, NoSup, EvidenceType
    <2>3. QED
      BY <2>1, <2>2
  <1>2. Fresh'
    BY BootAssumption DEF Fresh, Latched
  <1>3. Budget'
    BY BootAssumption DEF Budget, Stored, Latched, Missing, Counts, RecoveryType, SupType
  <1>4. Startup'
    BY BootAssumption DEF Startup, WorkNeedsAdmission, Latched, RecoveryType
  <1>5. Credit'
    BY BootAssumption DEF Credit, Trusted, Cause, Latched, RecoveryType
  <1>6. SealedIsAlone'
    BY BootAssumption DEF SealedIsAlone, SupType
  <1>7. QED
    BY <1>1, <1>2, <1>3, <1>4, <1>5, <1>6

\* SupAttempts keeps BootInv.
LEMMA SupAttemptsKeeps ==
    ASSUME TypeOK, BootInv, SupAttempts
    PROVE  TypeOK' /\ BootInv'
  <1> USE DEF BootInv, TypeOK, SupAttempts, Critical, MayRestart, flashVars, bootVars,
      startVars, envVars
  <1>1. TypeOK'
    <2>1. owner' \in {"Idle", "Ota", "FaultRestart", "Sealed"}
      BY BootAssumption
    <2>2. sup' \in SupType
      BY BootAssumption DEF SupType, NoSup, EvidenceType
    <2>3. cool' \in SUBSET {"restart", "clear"}
      BY BootAssumption
    <2>4. QED
      BY <2>1, <2>2, <2>3
  <1>2. Fresh'
    BY BootAssumption DEF Fresh, Latched
  <1>3. Budget'
    BY BootAssumption DEF Budget, Stored, Latched, Missing, Counts, RecoveryType, SupType
  <1>4. Startup'
    BY BootAssumption DEF Startup, WorkNeedsAdmission, Latched, RecoveryType
  <1>5. Credit'
    BY BootAssumption DEF Credit, Trusted, Cause, Fresh, SealedIsAlone, Latched, RecoveryType,
       SupType
  <1>6. SealedIsAlone'
    BY BootAssumption DEF SealedIsAlone, SupType
  <1>7. QED
    BY <1>1, <1>2, <1>3, <1>4, <1>5, <1>6

\* SupReserves keeps BootInv.
LEMMA SupReservesKeeps ==
    ASSUME TypeOK, BootInv, SupReserves
    PROVE  TypeOK' /\ BootInv'
  <1> USE DEF BootInv, TypeOK
  <1>1. sup.at = "reserve" /\ owner = "FaultRestart" /\ stage \notin {"nvs", "reason", "ledger", "supervisor", "rollback"}
    BY DEF SupReserves, SealedIsAlone, Fresh
  <1>2. UNCHANGED <<crumb, pending, reset, evidence, stage, admission, host, synced, hostReset, gate,
                    tasks, cool, heap, resets, unhealthy>>
    BY DEF SupReserves, bootVars, startVars
  <1>3. faults' \in 0..MaxFaults
    <2>1. faults' = faults \/ (faults > 0 /\ faults' = faults - 1)
      BY DEF SupReserves, StoreFails, StoreWorks
    <2>2. QED
      BY <2>1, BootAssumption
  <1>4. /\ UNCHANGED recovery \/ \E n \in Counts : recovery' = [recovery EXCEPT !.count = n, !.clear = ~recovery.latched]
        /\ \/ /\ sup' = [sup EXCEPT !.at = "crumb"] /\ UNCHANGED owner
              /\ ledger' \in 1..Limit /\ ledger < ledger' /\ ledger \in Counts
           \/ /\ sup' = [sup EXCEPT !.at = "sample"] /\ owner' = "Idle" /\ UNCHANGED recovery
              /\ ledger' = ledger \/ (ledger' \in 1..Limit /\ ledger < ledger' /\ ledger \in Counts)
    <2>1. ASSUME NEW next \in Reservation, ledger' = next, sup' = [sup EXCEPT !.at = "crumb"], UNCHANGED owner,
                 recovery' = [recovery EXCEPT !.count = next, !.clear = ~recovery.latched]
          PROVE  <1>4!2!1 /\ <1>4!1
      BY <2>1, ReservationBounds
    <2>2. ASSUME NEW next \in Reservation, ledger' \in {ledger, next}, sup' = [sup EXCEPT !.at = "sample"],
                 owner' = "Idle", UNCHANGED recovery
          PROVE  <1>4!2!2 /\ <1>4!1
      BY <2>2, ReservationBounds
    <2>3. QED
      BY <2>1, <2>2 DEF SupReserves
  <1>5. TypeOK'
    <2>1. ledger' \in Counts \cup {Missing}
      <3>1. 1..Limit \subseteq Counts
        BY BootAssumption DEF Counts
      <3>2. QED
        BY <1>4, <3>1
    <2>2. recovery' \in RecoveryType
      BY <1>4 DEF RecoveryType
    <2>3. owner' \in {"Idle", "Ota", "FaultRestart", "Sealed"}
      BY <1>1, <1>2, <1>3, <1>4, BootAssumption
    <2>4. sup' \in SupType
      BY <1>1, <1>2, <1>3, <1>4, BootAssumption DEF SupType, NoSup, EvidenceType
    <2>5. faults' \in 0..MaxFaults
      BY <1>1, <1>2, <1>3, <1>4, BootAssumption
    <2>6. QED
      BY <2>1, <2>2, <2>3, <2>4, <2>5, <1>1, <1>2, <1>3, <1>4
  <1>6. Fresh'
    BY <1>1, <1>2, <1>3, <1>4, BootAssumption DEF Fresh, Latched
  <1>7. Budget'
    <2>1. CASE <1>4!2!1
      <3>1. sup'.at = "crumb" /\ sup'.streak = sup.streak /\ sup.streak < Limit
        BY <1>1, <2>1 DEF Budget, SupType
      <3>2. ledger \in Nat /\ unhealthy \in Nat /\ ledger' \in Nat /\ ledger < ledger' /\ ledger' <= Limit
            /\ Limit < CountMax
        BY <2>1, BootAssumption DEF Counts
      <3>3. unhealthy <= ledger
        BY <3>2, BootAssumption DEF Budget, Stored, Missing
      <3>4. Stored' = ledger'
        BY <3>2 DEF Stored, Missing
      <3>5. ~recovery'.latched => unhealthy < Threshold
        BY <1>4 DEF Budget, RecoveryType
      <3>6. unhealthy < ledger'
        BY <3>2, <3>3
      <3>7. QED
        BY <1>2, <3>1, <3>2, <3>4, <3>5, <3>6 DEF Budget
    <2>2. CASE <1>4!2!2
      <3>1. sup'.at = "sample"
        BY <2>2 DEF SupType
      <3>2. CASE ledger' = ledger
        BY <1>2, <2>2, <3>1, <3>2 DEF Budget, Stored
      <3>3. CASE ledger' \in 1..Limit /\ ledger < ledger' /\ ledger \in Counts
        <4>1. ledger \in Nat /\ unhealthy \in Nat /\ ledger' \in Nat /\ ledger' <= Limit /\ Limit < CountMax
          BY <3>3, BootAssumption DEF Counts
        <4>2. unhealthy <= ledger
          BY <3>3, <4>1, BootAssumption DEF Budget, Stored, Missing
        <4>3. Stored' = ledger' /\ unhealthy <= ledger'
          BY <3>3, <4>1, <4>2 DEF Stored, Missing
        <4>4. QED
          BY <1>2, <2>2, <3>1, <4>3 DEF Budget
      <3>4. QED
        BY <2>2, <3>2, <3>3
    <2>3. QED
      BY <1>4, <2>1, <2>2
  <1>8. Startup'
    BY <1>1, <1>2, <1>3, <1>4, BootAssumption DEF Startup, WorkNeedsAdmission, Latched,
       RecoveryType
  <1>9. Credit'
    BY <1>1, <1>2, <1>3, <1>4, BootAssumption DEF Credit, Trusted, Cause, Fresh, SealedIsAlone,
       Latched, RecoveryType, SupType
  <1>10. SealedIsAlone'
    BY <1>1, <1>2, <1>3, <1>4, BootAssumption DEF SealedIsAlone, SupType
  <1>11. QED
    BY <1>5, <1>6, <1>7, <1>8, <1>9, <1>10

\* SupPersists keeps BootInv.
LEMMA SupPersistsKeeps ==
    ASSUME TypeOK, BootInv, SupPersists
    PROVE  TypeOK' /\ BootInv'
  <1> USE DEF BootInv, TypeOK, SupPersists, StoreFails, StoreWorks, bootVars, startVars
  <1>1. TypeOK'
    <2>1. crumb' \in 1..Limit \cup {Missing}
      <3>1. sup.streak < Limit /\ sup.streak \in Nat /\ Limit \in Nat
        BY BootAssumption DEF Budget, SupType
      <3>2. sup.streak + 1 \in 1..Limit
        BY <3>1
      <3>3. QED
        BY <3>2
    <2>2. owner' \in {"Idle", "Ota", "FaultRestart", "Sealed"}
      BY BootAssumption
    <2>3. sup' \in SupType
      BY BootAssumption DEF SupType, NoSup, EvidenceType
    <2>4. faults' \in 0..MaxFaults
      BY BootAssumption
    <2>5. QED
      BY <2>1, <2>2, <2>3, <2>4
  <1>2. Fresh'
    BY BootAssumption DEF Fresh, Latched
  <1>3. Budget'
    BY BootAssumption DEF Budget, Stored, Latched, Missing, Counts, RecoveryType, SupType
  <1>4. Startup'
    BY BootAssumption DEF Startup, WorkNeedsAdmission, Latched, RecoveryType
  <1>5. Credit'
    BY BootAssumption DEF Credit, Trusted, Cause, Fresh, SealedIsAlone, Latched, RecoveryType,
       SupType
  <1>6. SealedIsAlone'
    BY BootAssumption DEF SealedIsAlone, SupType
  <1>7. QED
    BY <1>1, <1>2, <1>3, <1>4, <1>5, <1>6

\* SupRestarts keeps BootInv.
LEMMA SupRestartsKeeps ==
    ASSUME TypeOK, BootInv, SupRestarts
    PROVE  TypeOK' /\ BootInv'
  <1> USE DEF BootInv, TypeOK, SupRestarts, Restarted, NoEvidence, Latched, NoSup, flashVars,
      envVars
  <1>1. TypeOK'
    <2>1. reset' \in Codes
      BY BootAssumption DEF Codes
    <2>2. evidence' \in EvidenceType
      BY BootAssumption DEF EvidenceType, Missing
    <2>3. recovery' \in RecoveryType
      BY BootAssumption DEF RecoveryType, Counts, Missing
    <2>4. admission' \in {"Booting", "Ready", "SafeMode", "Fatal"}
      BY BootAssumption
    <2>5. stage' \in Stages
      BY BootAssumption DEF Stages
    <2>6. host' \in {"Idle", "AwaitingSync", "Synced", "TimedOut"}
      BY BootAssumption
    <2>7. synced' \in BOOLEAN
      BY BootAssumption
    <2>8. hostReset' \in BOOLEAN
      BY BootAssumption
    <2>9. gate' \in {"Idle", "Creating", "Running", "Cancelled"}
      BY BootAssumption
    <2>10. tasks' \in [Tasks -> {"none", "wait", "run", "gone"}]
      BY BootAssumption DEF Tasks
    <2>11. owner' \in {"Idle", "Ota", "FaultRestart", "Sealed"}
      BY BootAssumption
    <2>12. sup' \in SupType
      BY BootAssumption DEF SupType, EvidenceType
    <2>13. cool' \in SUBSET {"restart", "clear"}
      BY BootAssumption
    <2>14. unhealthy' \in Nat
      BY BootAssumption
    <2>15. QED
      BY <2>1, <2>2, <2>3, <2>4, <2>5, <2>6, <2>7, <2>8, <2>9, <2>10, <2>11, <2>12, <2>13, <2>14
  <1>2. Fresh'
    BY BootAssumption DEF Fresh
  <1>3. Budget'
    BY BootAssumption DEF Budget, Stored, Missing, Counts, RecoveryType, SupType
  <1>4. Startup'
    BY BootAssumption DEF Startup, WorkNeedsAdmission, RecoveryType
  <1>5. Credit'
    BY BootAssumption DEF Credit, Trusted, Cause, RecoveryType
  <1>6. SealedIsAlone'
    BY BootAssumption DEF SealedIsAlone, SupType
  <1>7. QED
    BY <1>1, <1>2, <1>3, <1>4, <1>5, <1>6

\* SupClears keeps BootInv.
LEMMA SupClearsKeeps ==
    ASSUME TypeOK, BootInv, SupClears
    PROVE  TypeOK' /\ BootInv'
  <1> USE DEF BootInv, TypeOK, SupClears, StoreFails, StoreWorks, HealthyNow, Critical, Busy,
      ClearedRecovery, Latched, bootVars, startVars
  <1>1. TypeOK'
    <2>1. ledger' \in Counts \cup {Missing}
      BY BootAssumption DEF Counts, Missing, EvidenceType, RecoveryType
    <2>2. recovery' \in RecoveryType
      <3>1. recovery' \in {recovery, ClearedRecovery}
        OBVIOUS
      <3> HIDE DEF SupClears, BootInv
      <3>2. QED
        BY <3>1, FreshTyped
    <2>3. sup' \in SupType
      <3>1. sup' \in {[sup EXCEPT !.at = "sample"], [sup EXCEPT !.at = "sample", !.run = 0],
                     [sup EXCEPT !.at = "sample", !.run = sup.run],
                     [sup EXCEPT !.at = "sample", !.streak = 0],
                     [sup EXCEPT !.at = "sample", !.streak = sup.streak]}
        OBVIOUS
      <3>2. 0 \in 0..Healthy /\ 0 \in 0..Limit
        BY BootAssumption
      <3> HIDE DEF SupClears, BootInv
      <3>3. QED
        BY <3>1, <3>2 DEF SupType
    <2>4. cool' \in SUBSET {"restart", "clear"}
      BY BootAssumption
    <2>5. faults' \in 0..MaxFaults
      BY BootAssumption
    <2>6. unhealthy' \in Nat
      BY BootAssumption
    <2>7. QED
      BY <2>1, <2>2, <2>3, <2>4, <2>5, <2>6
  <1>2. Fresh'
    BY BootAssumption DEF Fresh
  <1>3. Budget'
    <2>1. sup.at = "clear" /\ sup'.at = "sample"
      BY DEF SupType
    <2>2. unhealthy \in Nat /\ ledger \in Counts \cup {Missing} /\ 0 \in Counts /\ 0 < Threshold
      BY BootAssumption DEF Counts
    <2>3. ~recovery.latched /\ unhealthy < Threshold
      BY <2>1 DEF Credit, Budget
    <2>4. \/ ledger' = 0 /\ unhealthy' = 0
          \/ UNCHANGED <<ledger, unhealthy>>
      OBVIOUS
    <2>5. unhealthy' <= Stored' \/ ledger' = CountMax
      BY <2>2, <2>4 DEF Budget, Stored, Missing
    <2>6. unhealthy' < Threshold
      BY <2>2, <2>3, <2>4
    <2>7. QED
      BY <2>1, <2>5, <2>6 DEF Budget
  <1>4. Startup'
    BY BootAssumption DEF Startup, WorkNeedsAdmission, RecoveryType
  <1>5. Credit'
    BY BootAssumption DEF Credit, Trusted, Cause, RecoveryType
  <1>6. SealedIsAlone'
    BY BootAssumption DEF SealedIsAlone, SupType
  <1>7. QED
    BY <1>1, <1>2, <1>3, <1>4, <1>5, <1>6

\* SupThrows keeps BootInv.
LEMMA SupThrowsKeeps ==
    ASSUME TypeOK, BootInv, SupThrows
    PROVE  TypeOK' /\ BootInv'
  <1> USE DEF BootInv, TypeOK, SupThrows, StoreFails, flashVars, startVars
  <1>1. TypeOK'
    <2>1. admission' \in {"Booting", "Ready", "SafeMode", "Fatal"}
      BY BootAssumption
    <2>2. owner' \in {"Idle", "Ota", "FaultRestart", "Sealed"}
      BY BootAssumption
    <2>3. sup' \in SupType
      <3>1. sup' \in {[sup EXCEPT !.at = "sample", !.run = 0], [sup EXCEPT !.at = "parked"]}
        OBVIOUS
      <3>2. 0 \in 0..Healthy
        BY BootAssumption
      <3> HIDE DEF SupThrows, BootInv
      <3>3. QED
        BY <3>1, <3>2 DEF SupType
    <2>4. faults' \in 0..MaxFaults
      BY BootAssumption
    <2>5. QED
      BY <2>1, <2>2, <2>3, <2>4
  <1>2. Fresh'
    BY BootAssumption DEF Fresh, Latched
  <1>3. Budget'
    BY BootAssumption DEF Budget, Stored, Latched, Missing, Counts, RecoveryType, SupType
  <1>4. Startup'
    BY BootAssumption DEF Startup, WorkNeedsAdmission, Latched, RecoveryType
  <1>5. Credit'
    BY BootAssumption DEF Credit, Trusted, Cause, Fresh, SealedIsAlone, Latched, RecoveryType,
       SupType
  <1>6. SealedIsAlone'
    BY BootAssumption DEF SealedIsAlone, SupType
  <1>7. QED
    BY <1>1, <1>2, <1>3, <1>4, <1>5, <1>6

\* CadenceDue keeps BootInv.
LEMMA CadenceDueKeeps ==
    ASSUME TypeOK, BootInv, CadenceDue
    PROVE  TypeOK' /\ BootInv'
  <1> USE DEF BootInv, TypeOK, CadenceDue, flashVars, bootVars, startVars, envVars
  <1>1. TypeOK'
    <2>1. cool' \in SUBSET {"restart", "clear"}
      BY BootAssumption
    <2>2. QED
      BY <2>1
  <1>2. Fresh'
    BY BootAssumption DEF Fresh, Latched
  <1>3. Budget'
    BY BootAssumption DEF Budget, Stored, Latched, Missing, Counts, RecoveryType, SupType
  <1>4. Startup'
    BY BootAssumption DEF Startup, WorkNeedsAdmission, Latched, RecoveryType
  <1>5. Credit'
    BY BootAssumption DEF Credit, Trusted, Cause, Latched, RecoveryType
  <1>6. SealedIsAlone'
    BY BootAssumption DEF SealedIsAlone, SupType
  <1>7. QED
    BY <1>1, <1>2, <1>3, <1>4, <1>5, <1>6

\* HeapChanges keeps BootInv.
LEMMA HeapChangesKeeps ==
    ASSUME TypeOK, BootInv, HeapChanges
    PROVE  TypeOK' /\ BootInv'
  <1> USE DEF BootInv, TypeOK, HeapChanges, Critical, flashVars, bootVars, startVars, supVars
  <1>1. TypeOK'
    <2>1. heap' \in {"ok", "critical"}
      BY BootAssumption
    <2>2. QED
      BY <2>1
  <1>2. Fresh'
    BY BootAssumption DEF Fresh, Latched
  <1>3. Budget'
    BY BootAssumption DEF Budget, Stored, Latched, Missing, Counts, RecoveryType, SupType
  <1>4. Startup'
    BY BootAssumption DEF Startup, WorkNeedsAdmission, Latched, RecoveryType
  <1>5. Credit'
    BY BootAssumption DEF Credit, Trusted, Cause, Latched, RecoveryType
  <1>6. SealedIsAlone'
    BY BootAssumption DEF SealedIsAlone, SupType
  <1>7. QED
    BY <1>1, <1>2, <1>3, <1>4, <1>5, <1>6

\* OtherOwner keeps BootInv.
LEMMA OtherOwnerKeeps ==
    ASSUME TypeOK, BootInv, OtherOwner
    PROVE  TypeOK' /\ BootInv'
  <1> USE DEF BootInv, TypeOK, OtherOwner, flashVars, bootVars, startVars, supVars, envVars
  <1>1. TypeOK'
    <2>1. owner' \in {"Idle", "Ota", "FaultRestart", "Sealed"}
      BY BootAssumption
    <2>2. QED
      BY <2>1
  <1>2. Fresh'
    BY BootAssumption DEF Fresh, Latched
  <1>3. Budget'
    BY BootAssumption DEF Budget, Stored, Latched, Missing, Counts, RecoveryType, SupType
  <1>4. Startup'
    BY BootAssumption DEF Startup, WorkNeedsAdmission, Latched, RecoveryType
  <1>5. Credit'
    BY BootAssumption DEF Credit, Trusted, Cause, Latched, RecoveryType
  <1>6. SealedIsAlone'
    BY BootAssumption DEF SealedIsAlone, SupType
  <1>7. QED
    BY <1>1, <1>2, <1>3, <1>4, <1>5, <1>6

\* HealthGate keeps BootInv.
LEMMA HealthGateKeeps ==
    ASSUME TypeOK, BootInv, HealthGate
    PROVE  TypeOK' /\ BootInv'
  <1> USE DEF BootInv, TypeOK, HealthGate, bootVars, startVars, supVars, envVars
  <1>1. TypeOK'
    <2>1. pending' \in BOOLEAN
      BY BootAssumption
    <2>2. QED
      BY <2>1
  <1>2. Fresh'
    BY BootAssumption DEF Fresh, Latched
  <1>3. Budget'
    BY BootAssumption DEF Budget, Stored, Latched, Missing, Counts, RecoveryType, SupType
  <1>4. Startup'
    BY BootAssumption DEF Startup, WorkNeedsAdmission, Latched, RecoveryType
  <1>5. Credit'
    BY BootAssumption DEF Credit, Trusted, Cause, Latched, RecoveryType
  <1>6. SealedIsAlone'
    BY BootAssumption DEF SealedIsAlone, SupType
  <1>7. QED
    BY <1>1, <1>2, <1>3, <1>4, <1>5, <1>6

\* Reset keeps BootInv.
LEMMA ResetKeeps ==
    ASSUME TypeOK, BootInv, Reset
    PROVE  TypeOK' /\ BootInv'
  <1> USE DEF BootInv, TypeOK, Reset, Restarted, NoEvidence, Latched, NoSup
  <1>1. TypeOK'
    <2>1. pending' \in BOOLEAN
      BY BootAssumption
    <2>2. reset' \in Codes
      BY BootAssumption DEF Codes
    <2>3. evidence' \in EvidenceType
      BY BootAssumption DEF EvidenceType, Missing
    <2>4. recovery' \in RecoveryType
      BY BootAssumption DEF RecoveryType, Counts, Missing
    <2>5. admission' \in {"Booting", "Ready", "SafeMode", "Fatal"}
      BY BootAssumption
    <2>6. stage' \in Stages
      BY BootAssumption DEF Stages
    <2>7. host' \in {"Idle", "AwaitingSync", "Synced", "TimedOut"}
      BY BootAssumption
    <2>8. synced' \in BOOLEAN
      BY BootAssumption
    <2>9. hostReset' \in BOOLEAN
      BY BootAssumption
    <2>10. gate' \in {"Idle", "Creating", "Running", "Cancelled"}
      BY BootAssumption
    <2>11. tasks' \in [Tasks -> {"none", "wait", "run", "gone"}]
      BY BootAssumption DEF Tasks
    <2>12. owner' \in {"Idle", "Ota", "FaultRestart", "Sealed"}
      BY BootAssumption
    <2>13. sup' \in SupType
      BY BootAssumption DEF SupType, EvidenceType
    <2>14. cool' \in SUBSET {"restart", "clear"}
      BY BootAssumption
    <2>15. resets' \in 0..MaxResets
      BY BootAssumption
    <2>16. QED
      BY <2>1, <2>2, <2>3, <2>4, <2>5, <2>6, <2>7, <2>8, <2>9, <2>10, <2>11, <2>12, <2>13,
         <2>14, <2>15
  <1>2. Fresh'
    BY BootAssumption DEF Fresh
  <1>3. Budget'
    BY BootAssumption DEF Budget, Stored, Missing, Counts, RecoveryType, SupType
  <1>4. Startup'
    BY BootAssumption DEF Startup, WorkNeedsAdmission, RecoveryType
  <1>5. Credit'
    BY BootAssumption DEF Credit, Trusted, Cause, RecoveryType
  <1>6. SealedIsAlone'
    BY BootAssumption DEF SealedIsAlone, SupType
  <1>7. QED
    BY <1>1, <1>2, <1>3, <1>4, <1>5, <1>6

----------------------------------------------------------------------------
(* The initial state and every step                                        *)

LEMMA InitEstablishes ==
    ASSUME Init
    PROVE  TypeOK /\ BootInv
  <1>1. TypeOK
    <2>1. ledger \in Counts \cup {Missing} /\ resets \in 0..MaxResets /\ faults \in 0..MaxFaults
      BY BootAssumption DEF Init, Counts
    <2>2. evidence \in EvidenceType /\ recovery \in RecoveryType /\ sup \in SupType
      BY FreshTyped, BootAssumption DEF Init, NoEvidence, EvidenceType
    <2>3. tasks \in [Tasks -> {"none", "wait", "run", "gone"}] /\ reset \in Codes /\ stage \in Stages
      BY DEF Init, Codes, Stages
    <2>4. QED
      BY <2>1, <2>2, <2>3 DEF Init, TypeOK
  <1>2. Fresh /\ SealedIsAlone
    BY DEF Init, Fresh, SealedIsAlone, NoSup
  <1>3. Budget
    BY BootAssumption DEF Init, Budget, Stored, NoSup, Latched, Missing
  <1>4. Startup
    BY DEF Init, Startup, WorkNeedsAdmission, Latched, Tasks
  <1>5. Credit
    BY DEF Init, Credit, Latched, NoSup
  <1>6. QED
    BY <1>1, <1>2, <1>3, <1>4, <1>5 DEF BootInv

LEMMA NextKeeps ==
    ASSUME TypeOK, BootInv, [Next]_vars
    PROVE  TypeOK' /\ BootInv'
  <1>1. CASE AppMain
    BY <1>1, BootStorageKeeps, BootNetworkKeeps, BootServicesKeeps, TakeReasonKeeps,
       SafeModeBeginKeeps, SupervisorStartKeeps, NimbleStartKeeps, NimbleWaitKeeps, FirstTaskKeeps,
       SecondTaskKeeps, CancelledStartKeeps, AdmitKeeps, FatalRollbackKeeps, RollbackRebootsKeeps
       DEF AppMain
  <1>2. CASE Supervisor
    BY <1>2, SupSampleKeeps, SupAbortsKeeps, SupAttemptsKeeps, SupReservesKeeps, SupPersistsKeeps,
       SupRestartsKeeps, SupClearsKeeps DEF Supervisor
  <1>3. CASE UNCHANGED vars
    <2>1. TypeOK'
      BY <1>3 DEF TypeOK, vars
    <2>2. BootInv'
      BY <1>3 DEF vars, BootInv, Fresh, Budget, Stored, Startup, WorkNeedsAdmission, Credit, Trusted,
         Cause, SealedIsAlone
    <2>3. QED
      BY <2>1, <2>2
  <1>4. QED
    BY <1>1, <1>2, <1>3, PortalReturnsKeeps, TaskEntersKeeps, HostSyncKeeps, HostResetsKeeps,
       SupThrowsKeeps, CadenceDueKeeps, HeapChangesKeeps, OtherOwnerKeeps, HealthGateKeeps, ResetKeeps
       DEF Next

----------------------------------------------------------------------------
(* What follows                                                            *)

\* Below the limits the stored count is exact, so that it bounds restarts and work alike.
LEMMA BudgetFollows ==
    ASSUME TypeOK, BootInv
    PROVE  BudgetSafe
  <1>1. RestartsAreBounded
    <2> SUFFICES ASSUME sup.at = "restart" PROVE unhealthy < Limit
      BY DEF RestartsAreBounded
    <2>1. unhealthy < Stored /\ Stored <= Limit
      BY DEF BootInv, Budget
    <2>2. unhealthy \in Nat /\ Stored \in Nat /\ Limit \in Nat
      BY BootAssumption DEF TypeOK, Stored, Counts, Missing
    <2>3. QED
      BY <2>1, <2>2
  <1>2. WorkNeedsAdmission
    BY DEF BootInv, Startup
  <1>3. CrashLoopIsContained
    BY <1>2 DEF BootInv, Budget, WorkNeedsAdmission, CrashLoopIsContained
  <1>4. QED
    BY <1>1, <1>2, <1>3 DEF BudgetSafe

\* A stored count becomes zero again only in a qualified clear or in the boot's own charge.
LEMMA ZeroIsCleared ==
    ASSUME TypeOK, BootInv, [Next]_vars, ledger' = 0, ledger \notin {0, Missing}, stage # "ledger"
    PROVE  SupClears
  <1>1. CASE SupReserves
    <2>1. ledger' \in {ledger} \cup Reservation
      BY <1>1 DEF SupReserves
    <2>2. 0 \notin Reservation
      BY ReservationBounds
    <2>3. QED
      BY <2>1, <2>2
  <1>2. CASE AppMain
    BY <1>2 DEF AppMain, BootStorage, BootNetwork, BootServices, TakeReason, SafeModeBegin,
       SupervisorStart, NimbleStart, NimbleWait, FirstTask, SecondTask, CancelledStart, Admit,
       FatalRollback, RollbackReboots, Passes, flashVars
  <1>3. CASE Supervisor /\ ~SupReserves
    BY <1>3 DEF Supervisor, SupSample, SupAborts, SupAttempts, SupPersists, SupRestarts, flashVars
  <1>4. QED
    BY <1>1, <1>2, <1>3 DEF Next, vars, PortalReturns, TaskEnters, HostSync, HostResets, SupThrows,
       CadenceDue, HeapChanges, OtherOwner, HealthGate, Reset, Passes, flashVars

LEMMA CreditStep ==
    ASSUME TypeOK, BootInv, [Next]_vars, ledger' = 0, ledger \notin {0, Missing}, stage # "ledger"
    PROVE  admission = "Ready" /\ evidence.state # "Error" /\ Cause # "Uncertain"
  <1>1. SupClears
    BY ZeroIsCleared
  <1>2. sup.at = "clear" /\ HealthyNow
    BY <1>1 DEF SupClears
  <1>3. QED
    BY <1>2 DEF HealthyNow, BootInv, Credit, Trusted

\* Only mark_ready() opens admission, from Booting, and only the start of a boot closes less.
LEMMA AdmissionStep ==
    ASSUME TypeOK, BootInv, [Next]_vars, stage' # "nvs"
    PROVE  /\ admission \in {"SafeMode", "Fatal"} => admission' # "Ready"
           /\ admission = "Fatal" => admission' = "Fatal"
  <1>1. CASE AppMain
    <2>1. CASE SafeModeBegin
      BY <2>1 DEF SafeModeBegin, BootInv, Fresh
    <2>2. CASE AppMain /\ ~SafeModeBegin
      BY <2>2 DEF AppMain, BootStorage, BootNetwork, BootServices, TakeReason, SupervisorStart,
         NimbleStart, NimbleWait, FirstTask, SecondTask, CancelledStart, Admit, FatalRollback,
         RollbackReboots, Passes, BootFatal, Restarted
    <2>3. QED
      BY <1>1, <2>1, <2>2
  <1>2. CASE Supervisor
    BY <1>2 DEF Supervisor, SupSample, SupAborts, SupAttempts, SupReserves, SupPersists, SupRestarts,
       SupClears, Restarted, bootVars
  <1>3. QED
    BY <1>1, <1>2 DEF Next, vars, PortalReturns, TaskEnters, HostSync, HostResets, SupThrows,
       CadenceDue, HeapChanges, OtherOwner, HealthGate, Reset, Restarted, Passes, BootFatal, bootVars

\* Whatever resets, fails or half-lands in between, the charges in flash stay ahead of the units
\* they count (safe_mode_begin, safe_mode_prepare_heap_restart), and each gate of the start-up is
\* passed in order (task_start_gate.hpp, nimble_start_gate.hpp).
THEOREM BootInvariant == Spec => [](TypeOK /\ BootInv)
  <1>1. Init => TypeOK /\ BootInv
    BY InitEstablishes
  <1>2. TypeOK /\ BootInv /\ [Next]_vars => (TypeOK /\ BootInv)'
    BY NextKeeps
  <1>3. QED
    BY <1>1, <1>2, PTL DEF Spec

\* Self-restarts are bounded, a crash loop ends in safe mode, and no vehicle work starts before
\* the start-up is complete (boot_guard.hpp, nimble_start_gate.hpp).
THEOREM BootsAreBounded == Spec => []BudgetSafe
  <1>1. TypeOK /\ BootInv => BudgetSafe
    BY BudgetFollows
  <1>2. QED
    BY <1>1, BootInvariant, PTL

\* A restart that is reserved or sealed, and a rollback, are alone (attempt_heap_restart,
\* fatal_startup_rollback).
THEOREM RestartsAreAlone == Spec => []SealedIsAlone
  <1>1. TypeOK /\ BootInv => SealedIsAlone
    BY DEF BootInv
  <1>2. QED
    BY <1>1, BootInvariant, PTL

\* Neither restart credit nor admission opens again within a boot (maintain_healthy_run,
\* RuntimeAdmissionGate::mark_ready).
THEOREM NothingReopens == Spec => TrustIsEarned
  <1>1. TypeOK /\ BootInv /\ [Next]_vars =>
          [ledger' = 0 /\ ledger \notin {0, Missing} /\ stage # "ledger" =>
              admission = "Ready" /\ evidence.state # "Error" /\ Cause # "Uncertain"]_vars
    BY CreditStep
  <1>2. TypeOK /\ BootInv /\ [Next]_vars =>
          [stage' # "nvs" => /\ admission \in {"SafeMode", "Fatal"} => admission' # "Ready"
                             /\ admission = "Fatal" => admission' = "Fatal"]_vars
    BY AdmissionStep
  <1>3. QED
    BY <1>1, <1>2, BootInvariant, PTL DEF Spec, TrustIsEarned, CreditIsEarned, AdmissionOnlyCloses

==============================================================================
