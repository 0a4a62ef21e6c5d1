---------------------------- MODULE NetworkProofs ----------------------------
(***************************************************************************)
(* The network parts, each proved for all of its constants.  They share no *)
(* variable, so each has its own inductive invariant and its own theorems. *)
(***************************************************************************)
EXTENDS WifiTrial, PingProbe, Syslog, EthStart, NetLink, TLAPS

-----------------------------------------------------------------------------
(***************************************************************************)
(* The credential trial: it is well typed, the proven pair is never lost,  *)
(* and without Ethernet only a sustained refusal cuts a trial short.       *)
(***************************************************************************)

\* The boot works on a copy of the blob that is true until the boot writes.
CopyIsTrue ==
    /\ stage \in {"wire", "window", "restore", "commit"} => ram = blob
    /\ stage = "restore" => ram.armed

\* Before the radio is started nothing can be proven, and a commit is that of
\* the pair that joined or of none.
ProofIsOfThePair ==
    /\ stage \in {"reset", "wire"} => sta = "off" /\ ~joined /\ reason = "None"
    /\ stage = "commit" => \/ joined /\ good = ram.cur
                           \/ ~joined /\ sta = "off"

\* Which of the two pairs in flash the proven one is.
ProvenPairIsKept ==
    good # NoPair /\ ~residual =>
        good = (IF blob.armed THEN blob.bak ELSE blob.cur)

\* While the loop of the boot window runs.
WindowRuns ==
    stage = "window" =>
        /\ watch.auth < kWifiAuthToRollback
        /\ watch.checks < GraceChecks
        /\ trial.refused <= watch.checks

\* What the sampled reason says about the attempts, as long as each attempt
\* is followed by another.
ReasonIsCurrent ==
    stage = "window" /\ ram.armed /\ ~trial.paused =>
        /\ sta \in {"connecting", "associated", "up"}
        /\ sta = "up" => joined
        /\ sta # "connecting" => reason = "None"
        /\ trial.heard => trial.refusedNow = (reason = "Auth")
        /\ watch.auth <= trial.refused

TrialInv ==
    /\ TrialTypeOK
    /\ CopyIsTrue
    /\ ProofIsOfThePair
    /\ ProvenPairIsKept
    /\ WindowRuns
    /\ ReasonIsCurrent

-----------------------------------------------------------------------------
(* Types survive a step. *)
LEMMA TrialTypeOKStep ==
    TrialTypeOK /\ WindowRuns /\ TrialNext => TrialTypeOK'
<1> SUFFICES ASSUME TrialTypeOK, WindowRuns, TrialNext
             PROVE  TrialTypeOK'
  OBVIOUS
<1> USE TrialAssumption DEF TrialTypeOK, WindowRuns, Blobs, Stages, Classes,
   kWifiAuthToRollback, radio, ghosts, bounds
<1>1. CASE Load
  BY <1>1 DEF Load
<1>2. CASE WireFirst
  BY <1>2 DEF WireFirst, FreshTrial
<1>3. CASE Proven
  BY <1>3 DEF Proven
<1>4. CASE WindowOver
  BY <1>4 DEF WindowOver
<1>5. CASE Checkpoint
  <2>1. watch' \in [auth : 0..kWifiAuthToRollback, checks : 0..GraceChecks]
    BY <1>5 DEF Checkpoint, rollback_step
  <2>2. trial.refused + 1 \in 0..GraceChecks
    BY <1>5 DEF Checkpoint
  <2>3. (IF trial.refusedNow THEN trial.refused + 1 ELSE 0) \in 0..GraceChecks
    BY <1>5, <2>2
  <2>4. trial' \in [heard : BOOLEAN, refusedNow : BOOLEAN,
                      refused : 0..GraceChecks, paused : BOOLEAN]
    BY <1>5, <2>3 DEF Checkpoint
  <2>5. stage' \in Stages
    BY <1>5 DEF Checkpoint
  <2> QED
    BY <1>5, <2>1, <2>2, <2>3, <2>4, <2>5 DEF Checkpoint
<1>6. CASE Restore
  <2>1. Restored(ram) \in Blobs
    BY <1>6 DEF Restored
  <2>2. blob' \in Blobs /\ ram' \in Blobs
    BY <1>6, <2>1 DEF Restore, cfg_save
  <2>3. stage' \in Stages
    BY <1>6 DEF Restore
  <2> QED
    BY <1>6, <2>1, <2>2, <2>3 DEF Restore
<1>7. CASE Decide
  BY <1>7 DEF Decide
<1>8. CASE Commit
  <2>1. Committed(ram) \in Blobs
    BY <1>8 DEF Committed
  <2>2. blob' \in Blobs /\ ram' \in Blobs
    BY <1>8, <2>1 DEF Commit, cfg_save
  <2>3. blob'.armed \in BOOLEAN
    BY <1>8, <2>2 DEF Blobs
  <2>4. residual' \in BOOLEAN
    BY <1>8, <2>3 DEF Commit
  <2> QED
    BY <1>8, <2>1, <2>2, <2>3, <2>4 DEF Commit
<1>9. CASE Restart
  <2>1. watch' \in [auth : 0..kWifiAuthToRollback, checks : 0..GraceChecks]
    BY <1>9 DEF Restart, Off
  <2>2. trial' \in [heard : BOOLEAN, refusedNow : BOOLEAN,
                      refused : 0..GraceChecks, paused : BOOLEAN]
    BY <1>9 DEF Restart, Off, FreshTrial
  <2>3. wired' \in BOOLEAN /\ joined' \in BOOLEAN
    BY <1>9 DEF Restart, Off
  <2> QED
    BY <1>9, <2>1, <2>2, <2>3 DEF Restart, Off
<1>10. CASE StaDisconnected
  <2>1. trial' \in [heard : BOOLEAN, refusedNow : BOOLEAN,
                      refused : 0..GraceChecks, paused : BOOLEAN]
    BY <1>10 DEF StaDisconnected
  <2> QED
    BY <1>10, <2>1 DEF StaDisconnected, Retrying, wifi_retry_action,
       RollbackActive
<1>11. CASE StaConnected
  <2>1. trial' \in [heard : BOOLEAN, refusedNow : BOOLEAN,
                      refused : 0..GraceChecks, paused : BOOLEAN]
    BY <1>11 DEF StaConnected
  <2> QED
    BY <1>11, <2>1 DEF StaConnected
<1>12. CASE StaGotIp
  BY <1>12 DEF StaGotIp
<1>13. CASE PortalRetries
  BY <1>13 DEF PortalRetries
<1>14. CASE PortalLeaves
  BY <1>14 DEF PortalLeaves
<1>15. CASE EthGotIp
  BY <1>15 DEF EthGotIp
<1>16. CASE EthDisconnected
  <2>1. sta' \in {"off", "connecting", "associated", "up", "paused", "spent"}
    BY <1>16 DEF EthDisconnected
  <2>2. wired' \in BOOLEAN
    BY <1>16 DEF EthDisconnected
  <2> QED
    BY <1>16, <2>1, <2>2 DEF EthDisconnected
<1>17. ASSUME NEW pair \in Pairs, SetWifi(pair)
      PROVE  TrialTypeOK'
  <2>1. stage_wifi_change(blob, pair) \in Blobs
    BY <1>17 DEF stage_wifi_change
  <2>2. blob' \in Blobs /\ stage' \in Stages /\ good' \in Pairs \cup {NoPair}
    BY <1>17, <2>1 DEF SetWifi, cfg_save
  <2> QED
    BY <1>17, <2>2 DEF SetWifi
<1>18. ASSUME NEW pair \in Pairs, PortalSave(pair)
      PROVE  TrialTypeOK'
  <2>1. config_apply_setup_wifi(pair) \in Blobs
    BY <1>18 DEF config_apply_setup_wifi
  <2>2. blob' \in Blobs /\ stage' \in Stages /\ good' \in Pairs \cup {NoPair}
    BY <1>18, <2>1 DEF PortalSave, cfg_save
  <2> QED
    BY <1>18, <2>2 DEF PortalSave
<1>19. CASE PowerLoss
  <2>1. watch' \in [auth : 0..kWifiAuthToRollback, checks : 0..GraceChecks]
    BY <1>19 DEF PowerLoss, Off
  <2>2. trial' \in [heard : BOOLEAN, refusedNow : BOOLEAN,
                      refused : 0..GraceChecks, paused : BOOLEAN]
    BY <1>19 DEF PowerLoss, Off, FreshTrial
  <2>3. wired' \in BOOLEAN /\ joined' \in BOOLEAN
    BY <1>19 DEF PowerLoss, Off
  <2> QED
    BY <1>19, <2>1, <2>2, <2>3 DEF PowerLoss, Off
<1> QED
  BY <1>1, <1>2, <1>3, <1>4, <1>5, <1>6, <1>7, <1>8, <1>9, <1>10, <1>11, <1>12,
     <1>13, <1>14, <1>15, <1>16, <1>17, <1>18, <1>19 DEF TrialNext, BootSteps,
     Station

(* The boot's copy stays true until the boot writes. *)
LEMMA CopyIsTrueStep ==
    CopyIsTrue /\ TrialNext => CopyIsTrue'
<1> SUFFICES ASSUME CopyIsTrue, TrialNext
             PROVE  CopyIsTrue'
  OBVIOUS
<1> USE TrialAssumption DEF CopyIsTrue, radio, ghosts, bounds
<1>1. CASE Load
  BY <1>1 DEF Load
<1>2. CASE WireFirst
  BY <1>2 DEF WireFirst, FreshTrial
<1>3. CASE Proven
  BY <1>3 DEF Proven
<1>4. CASE WindowOver
  BY <1>4 DEF WindowOver
<1>5. CASE Checkpoint
  BY <1>5 DEF Checkpoint, rollback_step
<1>6. CASE Restore
  BY <1>6 DEF Restore, cfg_save, Restored
<1>7. CASE Decide
  BY <1>7 DEF Decide
<1>8. CASE Commit
  BY <1>8 DEF Commit, cfg_save, Committed, wifi_trial_can_commit
<1>9. CASE Restart
  BY <1>9 DEF Restart, Off, FreshTrial
<1>10. CASE StaDisconnected
  BY <1>10 DEF StaDisconnected, Retrying, wifi_retry_action, RollbackActive
<1>11. CASE StaConnected
  BY <1>11 DEF StaConnected
<1>12. CASE StaGotIp
  BY <1>12 DEF StaGotIp
<1>13. CASE PortalRetries
  BY <1>13 DEF PortalRetries
<1>14. CASE PortalLeaves
  BY <1>14 DEF PortalLeaves
<1>15. CASE EthGotIp
  BY <1>15 DEF EthGotIp
<1>16. CASE EthDisconnected
  BY <1>16 DEF EthDisconnected
<1>17. ASSUME NEW pair \in Pairs, SetWifi(pair)
      PROVE  CopyIsTrue'
  BY <1>17 DEF SetWifi, cfg_save, stage_wifi_change
<1>18. ASSUME NEW pair \in Pairs, PortalSave(pair)
      PROVE  CopyIsTrue'
  BY <1>18 DEF PortalSave, cfg_save, config_apply_setup_wifi
<1>19. CASE PowerLoss
  BY <1>19 DEF PowerLoss, Off, FreshTrial
<1> QED
  BY <1>1, <1>2, <1>3, <1>4, <1>5, <1>6, <1>7, <1>8, <1>9, <1>10, <1>11, <1>12,
     <1>13, <1>14, <1>15, <1>16, <1>17, <1>18, <1>19 DEF TrialNext, BootSteps,
     Station

(* Nothing is proven before the radio starts, and a commit is of the pair that joined. *)
LEMMA ProofIsOfThePairStep ==
    CopyIsTrue /\ ProofIsOfThePair /\ TrialNext => ProofIsOfThePair'
<1> SUFFICES ASSUME CopyIsTrue, ProofIsOfThePair, TrialNext
             PROVE  ProofIsOfThePair'
  OBVIOUS
<1> USE TrialAssumption DEF CopyIsTrue, ProofIsOfThePair, radio, ghosts, bounds
<1>1. CASE Load
  BY <1>1 DEF Load
<1>2. CASE WireFirst
  BY <1>2 DEF WireFirst, FreshTrial
<1>3. CASE Proven
  BY <1>3 DEF Proven
<1>4. CASE WindowOver
  BY <1>4 DEF WindowOver
<1>5. CASE Checkpoint
  BY <1>5 DEF Checkpoint, rollback_step
<1>6. CASE Restore
  BY <1>6 DEF Restore, cfg_save, Restored
<1>7. CASE Decide
  BY <1>7 DEF Decide
<1>8. CASE Commit
  BY <1>8 DEF Commit, cfg_save, Committed, wifi_trial_can_commit
<1>9. CASE Restart
  BY <1>9 DEF Restart, Off, FreshTrial
<1>10. CASE StaDisconnected
  BY <1>10 DEF StaDisconnected, Retrying, wifi_retry_action, RollbackActive
<1>11. CASE StaConnected
  BY <1>11 DEF StaConnected
<1>12. CASE StaGotIp
  BY <1>12 DEF StaGotIp
<1>13. CASE PortalRetries
  BY <1>13 DEF PortalRetries
<1>14. CASE PortalLeaves
  BY <1>14 DEF PortalLeaves
<1>15. CASE EthGotIp
  BY <1>15 DEF EthGotIp
<1>16. CASE EthDisconnected
  BY <1>16 DEF EthDisconnected
<1>17. ASSUME NEW pair \in Pairs, SetWifi(pair)
      PROVE  ProofIsOfThePair'
  BY <1>17 DEF SetWifi, cfg_save, stage_wifi_change
<1>18. ASSUME NEW pair \in Pairs, PortalSave(pair)
      PROVE  ProofIsOfThePair'
  BY <1>18 DEF PortalSave, cfg_save, config_apply_setup_wifi
<1>19. CASE PowerLoss
  BY <1>19 DEF PowerLoss, Off, FreshTrial
<1> QED
  BY <1>1, <1>2, <1>3, <1>4, <1>5, <1>6, <1>7, <1>8, <1>9, <1>10, <1>11, <1>12,
     <1>13, <1>14, <1>15, <1>16, <1>17, <1>18, <1>19 DEF TrialNext, BootSteps,
     Station

(* The proven pair stays where a boot finds it. *)
LEMMA ProvenPairIsKeptStep ==
    TrialTypeOK /\ CopyIsTrue /\ ProofIsOfThePair /\ ProvenPairIsKept /\
    TrialNext
        => ProvenPairIsKept'
<1> SUFFICES ASSUME TrialTypeOK, CopyIsTrue, ProofIsOfThePair, ProvenPairIsKept, TrialNext
             PROVE  ProvenPairIsKept'
  OBVIOUS
<1> USE TrialAssumption DEF TrialTypeOK, Blobs, CopyIsTrue, ProofIsOfThePair,
   ProvenPairIsKept, radio, ghosts, bounds
<1>1. CASE Load
  BY <1>1 DEF Load
<1>2. CASE WireFirst
  BY <1>2 DEF WireFirst, FreshTrial
<1>3. CASE Proven
  BY <1>3 DEF Proven
<1>4. CASE WindowOver
  BY <1>4 DEF WindowOver
<1>5. CASE Checkpoint
  BY <1>5 DEF Checkpoint, rollback_step
<1>6. CASE Restore
  BY <1>6 DEF Restore, cfg_save, Restored
<1>7. CASE Decide
  BY <1>7 DEF Decide
<1>8. CASE Commit
  BY <1>8 DEF Commit, cfg_save, Committed, wifi_trial_can_commit
<1>9. CASE Restart
  BY <1>9 DEF Restart, Off, FreshTrial
<1>10. CASE StaDisconnected
  BY <1>10 DEF StaDisconnected, Retrying, wifi_retry_action, RollbackActive
<1>11. CASE StaConnected
  BY <1>11 DEF StaConnected
<1>12. CASE StaGotIp
  BY <1>12 DEF StaGotIp
<1>13. CASE PortalRetries
  BY <1>13 DEF PortalRetries
<1>14. CASE PortalLeaves
  BY <1>14 DEF PortalLeaves
<1>15. CASE EthGotIp
  BY <1>15 DEF EthGotIp
<1>16. CASE EthDisconnected
  BY <1>16 DEF EthDisconnected
<1>17. ASSUME NEW pair \in Pairs, SetWifi(pair)
      PROVE  ProvenPairIsKept'
  <2> DEFINE new == stage_wifi_change(blob, pair)
  <2>1. blob' \in {new, blob} /\ good' = good /\ residual' = residual
    BY <1>17 DEF SetWifi, cfg_save
  <2>2. ASSUME good # NoPair, ~residual
        PROVE  new.armed /\ new.bak = good
    <3>1. CASE blob.armed
      BY <2>2, <3>1 DEF stage_wifi_change
    <3>2. CASE ~blob.armed
      BY <2>2, <3>2 DEF stage_wifi_change
    <3> QED
      BY <3>1, <3>2
  <2> QED
    BY <2>1, <2>2
<1>18. ASSUME NEW pair \in Pairs, PortalSave(pair)
      PROVE  ProvenPairIsKept'
  BY <1>18 DEF PortalSave, cfg_save, config_apply_setup_wifi
<1>19. CASE PowerLoss
  BY <1>19 DEF PowerLoss, Off, FreshTrial
<1> QED
  BY <1>1, <1>2, <1>3, <1>4, <1>5, <1>6, <1>7, <1>8, <1>9, <1>10, <1>11, <1>12,
     <1>13, <1>14, <1>15, <1>16, <1>17, <1>18, <1>19 DEF TrialNext, BootSteps,
     Station

(* The counters of the boot window stay below their limits. *)
LEMMA WindowRunsStep ==
    TrialTypeOK /\ WindowRuns /\ TrialNext => WindowRuns'
<1> SUFFICES ASSUME TrialTypeOK, WindowRuns, TrialNext
             PROVE  WindowRuns'
  OBVIOUS
<1> USE TrialAssumption DEF TrialTypeOK, WindowRuns, kWifiAuthToRollback,
   radio, ghosts, bounds
<1>1. CASE Load
  BY <1>1 DEF Load
<1>2. CASE WireFirst
  BY <1>2 DEF WireFirst, FreshTrial
<1>3. CASE Proven
  BY <1>3 DEF Proven
<1>4. CASE WindowOver
  BY <1>4 DEF WindowOver
<1>5. CASE Checkpoint
  <2>1. watch'.checks = watch.checks + 1 /\ trial'.refused <= trial.refused + 1
    BY <1>5 DEF Checkpoint, rollback_step
  <2> DEFINE step == rollback_step(watch, reason)
             refused == IF reason = "Auth" THEN watch.auth + 1 ELSE 0
  <2>2. refused \in Nat /\ step.auth = refused /\ step.checks = watch.checks + 1
    BY <1>5 DEF Checkpoint, rollback_step
  <2>3. ~step.back => refused < kWifiAuthToRollback /\ watch.checks + 1 < GraceChecks
    <3>1. step.back <=> \/ refused >= kWifiAuthToRollback
                        \/ watch.checks + 1 >= GraceChecks
      BY Zenon DEF rollback_step
    <3>2. watch.checks + 1 \in Nat
      BY <1>5 DEF Checkpoint
    <3> HIDE DEF step, refused
    <3> QED
      BY <2>2, <3>1, <3>2, TrialAssumption
  <2>4. stage' = "window" => /\ watch'.auth < kWifiAuthToRollback
                             /\ watch'.checks < GraceChecks
    <3>1. watch' = [auth |-> step.auth, checks |-> step.checks]
      BY <1>5 DEF Checkpoint
    <3>2. stage' = "window" => ~step.back
      BY <1>5 DEF Checkpoint
    <3> HIDE DEF step, refused
    <3> QED
      BY <3>1, <3>2, <2>2, <2>3, TrialAssumption
  <2> QED
    BY <1>5, <2>1, <2>4 DEF Checkpoint
<1>6. CASE Restore
  BY <1>6 DEF Restore, cfg_save, Restored
<1>7. CASE Decide
  BY <1>7 DEF Decide
<1>8. CASE Commit
  BY <1>8 DEF Commit, cfg_save, Committed, wifi_trial_can_commit
<1>9. CASE Restart
  BY <1>9 DEF Restart, Off, FreshTrial
<1>10. CASE StaDisconnected
  BY <1>10 DEF StaDisconnected, Retrying, wifi_retry_action, RollbackActive
<1>11. CASE StaConnected
  BY <1>11 DEF StaConnected
<1>12. CASE StaGotIp
  BY <1>12 DEF StaGotIp
<1>13. CASE PortalRetries
  BY <1>13 DEF PortalRetries
<1>14. CASE PortalLeaves
  BY <1>14 DEF PortalLeaves
<1>15. CASE EthGotIp
  BY <1>15 DEF EthGotIp
<1>16. CASE EthDisconnected
  BY <1>16 DEF EthDisconnected
<1>17. ASSUME NEW pair \in Pairs, SetWifi(pair)
      PROVE  WindowRuns'
  BY <1>17 DEF SetWifi, cfg_save, stage_wifi_change
<1>18. ASSUME NEW pair \in Pairs, PortalSave(pair)
      PROVE  WindowRuns'
  BY <1>18 DEF PortalSave, cfg_save, config_apply_setup_wifi
<1>19. CASE PowerLoss
  BY <1>19 DEF PowerLoss, Off, FreshTrial
<1> QED
  BY <1>1, <1>2, <1>3, <1>4, <1>5, <1>6, <1>7, <1>8, <1>9, <1>10, <1>11, <1>12,
     <1>13, <1>14, <1>15, <1>16, <1>17, <1>18, <1>19 DEF TrialNext, BootSteps,
     Station

(* A sampled refusal is the last word of an attempt of this window. *)
LEMMA ReasonIsCurrentStep ==
    TrialTypeOK /\ ProofIsOfThePair /\ WindowRuns /\ ReasonIsCurrent /\
    TrialNext
        => ReasonIsCurrent'
<1> SUFFICES ASSUME TrialTypeOK, ProofIsOfThePair, WindowRuns, ReasonIsCurrent, TrialNext
             PROVE  ReasonIsCurrent'
  OBVIOUS
<1> USE TrialAssumption DEF TrialTypeOK, ProofIsOfThePair, WindowRuns,
   ReasonIsCurrent, Classes, kWifiAuthToRollback, radio, ghosts, bounds
<1>1. CASE Load
  BY <1>1 DEF Load
<1>2. CASE WireFirst
  BY <1>2 DEF WireFirst, FreshTrial
<1>3. CASE Proven
  BY <1>3 DEF Proven
<1>4. CASE WindowOver
  BY <1>4 DEF WindowOver
<1>5. CASE Checkpoint
  BY <1>5 DEF Checkpoint, rollback_step
<1>6. CASE Restore
  BY <1>6 DEF Restore, cfg_save, Restored
<1>7. CASE Decide
  BY <1>7 DEF Decide
<1>8. CASE Commit
  BY <1>8 DEF Commit, cfg_save, Committed, wifi_trial_can_commit
<1>9. CASE Restart
  BY <1>9 DEF Restart, Off, FreshTrial
<1>10. CASE StaDisconnected
  BY <1>10 DEF StaDisconnected, Retrying, wifi_retry_action, RollbackActive
<1>11. CASE StaConnected
  BY <1>11 DEF StaConnected
<1>12. CASE StaGotIp
  BY <1>12 DEF StaGotIp
<1>13. CASE PortalRetries
  BY <1>13 DEF PortalRetries
<1>14. CASE PortalLeaves
  BY <1>14 DEF PortalLeaves
<1>15. CASE EthGotIp
  BY <1>15 DEF EthGotIp
<1>16. CASE EthDisconnected
  BY <1>16 DEF EthDisconnected
<1>17. ASSUME NEW pair \in Pairs, SetWifi(pair)
      PROVE  ReasonIsCurrent'
  BY <1>17 DEF SetWifi, cfg_save, stage_wifi_change
<1>18. ASSUME NEW pair \in Pairs, PortalSave(pair)
      PROVE  ReasonIsCurrent'
  BY <1>18 DEF PortalSave, cfg_save, config_apply_setup_wifi
<1>19. CASE PowerLoss
  BY <1>19 DEF PowerLoss, Off, FreshTrial
<1> QED
  BY <1>1, <1>2, <1>3, <1>4, <1>5, <1>6, <1>7, <1>8, <1>9, <1>10, <1>11, <1>12,
     <1>13, <1>14, <1>15, <1>16, <1>17, <1>18, <1>19 DEF TrialNext, BootSteps,
     Station

-----------------------------------------------------------------------------
(* Together: the invariant holds at first and in every step.                *)
LEMMA TrialInvInit == TrialInit => TrialInv
<1> SUFFICES ASSUME TrialInit
             PROVE  TrialInv
  OBVIOUS
<1> USE TrialAssumption
<1>1. TrialTypeOK
  <2>1. blob \in Blobs /\ ram \in Blobs
    BY DEF TrialInit, Blobs
  <2>2. wired \in BOOLEAN /\ joined \in BOOLEAN /\ residual \in BOOLEAN
    BY DEF TrialInit
  <2>3. /\ watch \in [auth : 0..kWifiAuthToRollback, checks : 0..GraceChecks]
        /\ trial \in [heard : BOOLEAN, refusedNow : BOOLEAN,
                      refused : 0..GraceChecks, paused : BOOLEAN]
    BY DEF TrialInit, FreshTrial, kWifiAuthToRollback
  <2> QED
    BY <2>1, <2>2, <2>3 DEF TrialInit, TrialTypeOK, Stages, Classes
<1>2. CopyIsTrue /\ ProofIsOfThePair /\ WindowRuns /\ ReasonIsCurrent
  BY DEF TrialInit, CopyIsTrue, ProofIsOfThePair, WindowRuns, ReasonIsCurrent
<1>3. ProvenPairIsKept
  BY DEF TrialInit, ProvenPairIsKept
<1> QED
  BY <1>1, <1>2, <1>3 DEF TrialInv

(* A step that changes nothing keeps it too.                                *)
LEMMA TrialInvStep == TrialInv /\ [TrialNext]_trialVars => TrialInv'
<1> SUFFICES ASSUME TrialInv, [TrialNext]_trialVars
             PROVE  TrialInv'
  OBVIOUS
<1>1. CASE TrialNext
  BY <1>1, TrialTypeOKStep, CopyIsTrueStep, ProofIsOfThePairStep,
     ProvenPairIsKeptStep, WindowRunsStep, ReasonIsCurrentStep DEF TrialInv
<1>2. CASE UNCHANGED trialVars
  BY <1>2 DEF trialVars, TrialInv, TrialTypeOK, CopyIsTrue, ProofIsOfThePair,
     ProvenPairIsKept, WindowRuns, ReasonIsCurrent
<1> QED
  BY <1>1, <1>2

(* The invariant of the trial.                                              *)
LEMMA TrialInvariant == TrialSpec => []TrialInv
BY TrialInvInit, TrialInvStep, PTL DEF TrialSpec

(* The trial is well typed for every instance: rollback_step() never counts *)
(* past its limits.                                                         *)
THEOREM TrialTypeCorrect == TrialSpec => []TrialTypeOK
<1>1. TrialInv => TrialTypeOK
  BY DEF TrialInv
<1> QED
  BY <1>1, TrialInvariant, PTL

(* Whatever sequence of /set_wifi, boots, lost writes and power losses, the *)
(* pair that last joined a network is the current pair in flash or the      *)
(* armed backup, unless its proof could not be persisted.                   *)
THEOREM WayBack == TrialSpec => []WayBackIsKept
<1>1. TrialInv => WayBackIsKept
  BY DEF TrialInv, ProvenPairIsKept, WayBackIsKept, TrialTypeOK, Blobs
<1> QED
  BY <1>1, TrialInvariant, PTL

(* While Ethernet has not stopped the attempts, a trial ends before its     *)
(* grace only when the last word of two windows on end was a refusal.       *)
THEOREM RefusalSustained == TrialSpec => RefusalIsSustainedOnAir
<1> DEFINE Cut == /\ stage = "window"
                  /\ stage' = "restore"
                  /\ watch'.checks < GraceChecks
                  /\ ~trial.paused
           Sustained == trial'.refused >= kWifiAuthToRollback
<1>1. TrialInv /\ [TrialNext]_trialVars => [Cut => Sustained]_trialVars
  <2> SUFFICES ASSUME TrialInv, TrialNext, Cut
               PROVE  Sustained
    OBVIOUS
  <2>1. Checkpoint
    BY DEF TrialNext, BootSteps, Station, Load, WireFirst, Proven, WindowOver,
       Restore, Decide, Commit, Restart, StaDisconnected, StaConnected,
       StaGotIp, PortalRetries, PortalLeaves, EthGotIp, EthDisconnected,
       SetWifi, PortalSave, PowerLoss, Off
  <2> DEFINE step == rollback_step(watch, reason)
  <2>2. /\ watch.auth \in Nat /\ watch.checks \in Nat
        /\ trial.refused \in Nat /\ watch.auth <= trial.refused
        /\ reason = "Auth" => trial.refusedNow
    BY <2>1, TrialAssumption
       DEF Checkpoint, TrialInv, TrialTypeOK, ReasonIsCurrent,
           kWifiAuthToRollback
  <2>3. step.back /\ watch'.checks = watch.checks + 1
    BY <2>1 DEF Checkpoint, rollback_step
  <2>4. step.back <=> \/ (IF reason = "Auth" THEN watch.auth + 1 ELSE 0)
                             >= kWifiAuthToRollback
                      \/ watch.checks + 1 >= GraceChecks
    BY Zenon DEF rollback_step
  <2>5. reason = "Auth" /\ watch.auth + 1 >= kWifiAuthToRollback
    <3> HIDE DEF step
    <3> QED
      BY <2>2, <2>3, <2>4, TrialAssumption DEF kWifiAuthToRollback
  <2>6. trial'.refused = trial.refused + 1
    BY <2>1, <2>2, <2>5 DEF Checkpoint, TrialInv, TrialTypeOK
  <2> QED
    BY <2>2, <2>5, <2>6 DEF kWifiAuthToRollback
<1> QED
  BY <1>1, TrialInvariant, PTL DEF TrialSpec, RefusalIsSustainedOnAir

(* net_start_wifi(): at every instant of a trial, power losses included,    *)
(* the blob and the counters are in range and there is a way back.          *)
THEOREM TrialIsSafe == TrialSpec => []TrialSafe
BY TrialTypeCorrect, WayBack, PTL DEF TrialSafe

-----------------------------------------------------------------------------
(***************************************************************************)
(* The ping probe: no running ping task is ever forgotten, and a verdict is*)
(* always that of its own session.                                         *)
(***************************************************************************)

TaskStates == {"none", "running", "calling", "over", "deleted"}

PingTypeOK ==
    /\ caller \in [at : {"idle", "wait", "stopped"}, gen : 0..MaxProbes]
    /\ ping \in [next : 0..MaxProbes, active : 0..MaxProbes,
                 ended : 0..MaxProbes, measured : Measurements]
    /\ session \in [of : 0..MaxProbes, started : BOOLEAN]
    /\ args \in 0..MaxProbes
    /\ task \in [Probes -> TaskStates]
    /\ truth \in [Probes -> Measurements]
    /\ answer \in [result : {"none", "Reply", "NoReply", "Unavailable",
                             "PendingEnd"}, of : 0..MaxProbes]

\* A waiting caller waits for the retained session, and a started session is
\* the active generation that the callback argument names.
SessionIsActive ==
    /\ caller # CallerIdle =>
          session = [of |-> caller.gen, started |-> TRUE] /\ caller.gen # 0
    /\ session.started =>
          /\ session.of # 0 /\ session.of <= ping.next
          /\ args = session.of /\ ping.active = session.of

\* The generation recorded as ended has called back, with its measurement.
EndIsMeasured ==
    ping.ended # 0 =>
        /\ task[ping.ended] # "running"
        /\ ping.measured = truth[ping.ended]

\* The session a verdict is about cannot measure again.
AnswerIsFinal ==
    answer.of # 0 => answer.of <= ping.next /\ task[answer.of] # "running"

PingInv ==
    /\ PingTypeOK
    /\ PendingIsRetained
    /\ SessionIsActive
    /\ EndIsMeasured
    /\ AnswerIsFinal
    /\ VerdictIsOwn

-----------------------------------------------------------------------------
(* esp_ping_delete_session() stops no task that has still to call back.     *)
LEMMA DeletedKeepsRunning ==
    ASSUME PingTypeOK, NEW g
    PROVE  /\ Deleted(g) \in [Probes -> TaskStates]
           /\ \A h \in Probes : Deleted(g)[h] = "running" <=> task[h] = "running"
BY DEF Deleted, PingTypeOK, TaskStates

(* A probe begins only when no earlier session has still to call back.      *)
LEMMA NothingRunsBefore ==
    ASSUME PingInv, session = NoSession \/ MayDelete
    PROVE  \A h \in Probes : task[h] # "running"
BY DEF PingInv, PendingIsRetained, SessionIsActive, EndIsMeasured, MayDelete,
       Ended, NoSession

(* A new probe keeps the invariant.                                         *)
LEMMA ProbeBeginsStep == PingInv /\ ProbeBegins => PingInv'
<1> SUFFICES ASSUME PingInv, ProbeBegins
             PROVE  PingInv'
  OBVIOUS
<1> DEFINE g == ping.next + 1
           old == IF session = NoSession THEN task ELSE Deleted(session.of)
<1>1. g \in Probes /\ g \in 0..MaxProbes /\ g # 0
  BY PingAssumption DEF ProbeBegins, Probes
<1>2. old \in [Probes -> TaskStates] /\ \A h \in Probes : old[h] # "running"
  BY DeletedKeepsRunning, NothingRunsBefore
     DEF ProbeBegins, PingInv, PingTypeOK
<1>3. /\ caller = CallerIdle /\ truth' = truth
      /\ ping'.next = g /\ ping'.ended = 0
  BY DEF ProbeBegins, PingInv, PingTypeOK
<1>4. \/ /\ session' \in {NoSession, [of |-> g, started |-> FALSE]}
         /\ args' \in {0, g} /\ task' = old /\ caller' = caller
         /\ answer' = Answer("Unavailable", 0)
         /\ ping' \in {[ping EXCEPT !.next = g, !.active = 0, !.ended = 0],
                       [ping EXCEPT !.next = g, !.active = g, !.ended = 0]}
      \/ /\ session' = [of |-> g, started |-> TRUE]
         /\ args' = g /\ task' = [old EXCEPT ![g] = "running"]
         /\ caller' = [at |-> "wait", gen |-> g]
         /\ answer' = answer
         /\ ping' = [ping EXCEPT !.next = g, !.active = g, !.ended = 0]
  BY DEF ProbeBegins
<1>5. answer.of # 0 => answer.of <= ping.next /\ answer.of \in Probes
  BY DEF PingInv, AnswerIsFinal, PingTypeOK, Probes
<1>6. ping.next \in Nat
  BY DEF PingInv, PingTypeOK
<1> HIDE DEF g, old
<1>7. PingTypeOK'
  <2>1. caller' \in [at : {"idle", "wait", "stopped"}, gen : 0..MaxProbes]
    BY <1>1, <1>4 DEF PingInv, PingTypeOK
  <2>2. ping' \in [next : 0..MaxProbes, active : 0..MaxProbes,
                   ended : 0..MaxProbes, measured : Measurements]
    <3>1. 0 \in 0..MaxProbes
      BY PingAssumption
    <3>2. PICK a \in {0, g} :
             ping' = [ping EXCEPT !.next = g, !.active = a, !.ended = 0]
      BY <1>4
    <3>3. a \in 0..MaxProbes
      BY <1>1, <3>1
    <3> QED
      BY <1>1, <3>1, <3>2, <3>3 DEF PingInv, PingTypeOK
  <2>3. session' \in [of : 0..MaxProbes, started : BOOLEAN]
    <3>1. NoSession \in [of : 0..MaxProbes, started : BOOLEAN]
      BY PingAssumption DEF NoSession
    <3>2. \A b \in BOOLEAN :
             [of |-> g, started |-> b] \in [of : 0..MaxProbes, started : BOOLEAN]
      BY <1>1
    <3> QED
      BY <1>4, <3>1, <3>2
  <2>4. args' \in 0..MaxProbes
    BY <1>1, <1>4, PingAssumption
  <2>5. task' \in [Probes -> TaskStates]
    BY <1>1, <1>2, <1>4 DEF TaskStates
  <2>6. /\ truth' \in [Probes -> Measurements]
        /\ answer' \in [result : {"none", "Reply", "NoReply", "Unavailable",
                                  "PendingEnd"}, of : 0..MaxProbes]
    BY <1>3, <1>4, PingAssumption DEF PingInv, PingTypeOK, Answer
  <2> QED
    BY <2>1, <2>2, <2>3, <2>4, <2>5, <2>6 DEF PingTypeOK
<1>8. CASE caller' = caller /\ answer' = Answer("Unavailable", 0) /\ task' = old
  <2>1. session' \in {NoSession, [of |-> g, started |-> FALSE]}
    BY <1>4, <1>8, <1>3, <1>1 DEF CallerIdle
  <2> QED
    BY <1>2, <1>3, <1>7, <1>8, <2>1
       DEF PingInv, PendingIsRetained, SessionIsActive, EndIsMeasured,
           AnswerIsFinal, VerdictIsOwn, NoSession, Answer
<1>9. CASE /\ session' = [of |-> g, started |-> TRUE]
           /\ args' = g /\ task' = [old EXCEPT ![g] = "running"]
           /\ caller' = [at |-> "wait", gen |-> g]
           /\ answer' = answer
           /\ ping' = [ping EXCEPT !.next = g, !.active = g, !.ended = 0]
  <2>1. /\ task'[g] = "running"
        /\ \A h \in Probes \ {g} : task'[h] # "running"
    BY <1>1, <1>2, <1>9
  <2>2. ping'.active = g
    BY <1>9 DEF PingInv, PingTypeOK
  <2>3. answer.of # g
    BY <1>5, <1>6 DEF g
  <2>4. PendingIsRetained' /\ EndIsMeasured'
    BY <1>3, <1>9, <2>1 DEF PendingIsRetained, EndIsMeasured
  <2>5. SessionIsActive'
    BY <1>1, <1>3, <1>6, <1>9, <2>2 DEF SessionIsActive, g
  <2>6. AnswerIsFinal' /\ VerdictIsOwn'
    <3>1. VerdictIsOwn'
      BY <1>3, <1>9 DEF PingInv, VerdictIsOwn
    <3>2. AnswerIsFinal'
      BY <1>3, <1>5, <1>6, <1>9, <2>1, <2>3
         DEF AnswerIsFinal, PingInv, PingTypeOK, g
    <3> QED
      BY <3>1, <3>2
  <2> QED
    BY <1>7, <2>4, <2>5, <2>6 DEF PingInv
<1> QED
  BY <1>4, <1>8, <1>9

(* The two waits that end without a result.                                 *)
LEMMA QuietCallerStep ==
    PingInv /\ (StillPending \/ SpuriousWake \/ WaitTimesOut) => PingInv'
<1> SUFFICES ASSUME PingInv, StillPending \/ SpuriousWake \/ WaitTimesOut
             PROVE  PingInv'
  OBVIOUS
<1>1. /\ ping' = ping /\ session' = session /\ args' = args
      /\ task' = task /\ truth' = truth
  BY DEF StillPending, SpuriousWake, WaitTimesOut
<1>2. answer' \in {answer, Answer("PendingEnd", 0)}
  BY DEF StillPending, SpuriousWake, WaitTimesOut
<1>3. \/ caller' = caller
      \/ caller' = CallerIdle
      \/ caller # CallerIdle /\ caller' = [caller EXCEPT !.at = "stopped"]
  BY DEF StillPending, SpuriousWake, WaitTimesOut
<1>4. PingTypeOK'
  BY <1>1, <1>2, <1>3, PingAssumption DEF PingInv, PingTypeOK, Answer, CallerIdle
<1>5. PendingIsRetained' /\ EndIsMeasured'
  BY <1>1 DEF PingInv, PendingIsRetained, EndIsMeasured
<1>6. SessionIsActive'
  BY <1>1, <1>3 DEF PingInv, PingTypeOK, SessionIsActive
<1>7. AnswerIsFinal' /\ VerdictIsOwn'
  BY <1>1, <1>2 DEF PingInv, AnswerIsFinal, VerdictIsOwn, Answer
<1> QED
  BY <1>4, <1>5, <1>6, <1>7 DEF PingInv

(* Taking the result, or keeping a session that cannot be deleted.          *)
LEMMA TakeResultStep == PingInv /\ TakeResult => PingInv'
<1> SUFFICES ASSUME PingInv, TakeResult
             PROVE  PingInv'
  OBVIOUS
<1> DEFINE g == caller.gen
<1>1. /\ caller' = CallerIdle /\ truth' = truth
      /\ g # 0 /\ g \in Probes /\ ping.ended = g /\ g <= ping.next
      /\ session = [of |-> g, started |-> TRUE]
      /\ ping.next \in Nat
  BY DEF TakeResult, Ended, PingInv, PingTypeOK, SessionIsActive, Probes
<1>2. ping.measured = truth[g] /\ task[g] # "running"
  BY <1>1 DEF PingInv, EndIsMeasured
<1>3. \A h \in Probes : task[h] # "running"
  BY <1>1, <1>2 DEF PingInv, PendingIsRetained
<1> HIDE DEF g
<1>4. CASE /\ answer' = Answer("PendingEnd", 0)
           /\ UNCHANGED <<ping, session, args, task>>
  <2>1. PingTypeOK'
    BY <1>1, <1>4, PingAssumption DEF PingInv, PingTypeOK, Answer, CallerIdle
  <2> QED
    BY <1>1, <1>4, <2>1
       DEF PingInv, PendingIsRetained, SessionIsActive, EndIsMeasured,
           AnswerIsFinal, VerdictIsOwn, Answer
<1>5. CASE /\ answer' = Answer(IF ping.measured = "invalid" THEN "Unavailable"
                               ELSE ping.measured, g)
           /\ ping' = Cleaned(ping) /\ session' = NoSession /\ args' = 0
           /\ task' = Deleted(session.of)
  <2>1. /\ task' \in [Probes -> TaskStates]
        /\ \A h \in Probes : task'[h] # "running"
    BY <1>1, <1>3, <1>5, DeletedKeepsRunning DEF PingInv
  <2>2. /\ ping' \in [next : 0..MaxProbes, active : 0..MaxProbes,
                      ended : 0..MaxProbes, measured : Measurements]
        /\ ping'.next = ping.next /\ ping'.ended = ping.ended
        /\ ping'.measured = ping.measured
    BY <1>5, PingAssumption DEF PingInv, PingTypeOK, Cleaned
  <2>3. session' \in [of : 0..MaxProbes, started : BOOLEAN]
    BY <1>5, PingAssumption DEF NoSession
  <2>4. answer' \in [result : {"none", "Reply", "NoReply", "Unavailable",
                              "PendingEnd"}, of : 0..MaxProbes]
    BY <1>1, <1>5, PingAssumption
       DEF PingInv, PingTypeOK, Answer, Measurements, Probes
  <2>5. PingTypeOK'
    BY <1>1, <1>5, <2>1, <2>2, <2>3, <2>4, PingAssumption
       DEF PingInv, PingTypeOK, CallerIdle
  <2>6. PendingIsRetained'
    BY <2>1 DEF PendingIsRetained
  <2>7. SessionIsActive'
    BY <1>1, <1>5 DEF SessionIsActive, NoSession
  <2>8. EndIsMeasured'
    BY <1>1, <1>2, <2>1, <2>2 DEF EndIsMeasured
  <2>9. AnswerIsFinal' /\ VerdictIsOwn'
    BY <1>1, <1>2, <1>5, <2>1, <2>2 DEF AnswerIsFinal, VerdictIsOwn, Answer
  <2> QED
    BY <2>5, <2>6, <2>7, <2>8, <2>9 DEF PingInv
<1> QED
  BY <1>4, <1>5 DEF TakeResult, g

(* A ping task calls back: it is the retained one, so its measurement goes  *)
(* to its own generation.                                                   *)
LEMMA OnEndStep ==
    ASSUME PingInv, NEW g \in Probes, OnEnd(g)
    PROVE  PingInv'
<1>1. /\ session = [of |-> g, started |-> TRUE] /\ args = g
      /\ g # 0 /\ ping.active = g /\ task[g] = "running"
  BY PingAssumption
     DEF OnEnd, PingInv, PendingIsRetained, SessionIsActive, Probes
<1>2. /\ caller' = caller /\ session' = session /\ args' = args
      /\ answer' = answer
  BY DEF OnEnd
<1>3. PICK m \in Measurements :
         /\ truth' = [truth EXCEPT ![g] = m]
         /\ ping' = complete(m)
         /\ task' = [task EXCEPT ![g] = "calling"]
  BY <1>1 DEF OnEnd
<1>4. /\ ping' \in [next : 0..MaxProbes, active : 0..MaxProbes,
                    ended : 0..MaxProbes, measured : Measurements]
      /\ ping'.next = ping.next /\ ping'.active = ping.active
      /\ ping'.ended = g /\ ping'.measured = m
  BY <1>1, <1>3 DEF PingInv, PingTypeOK, complete
<1>5. PingTypeOK'
  BY <1>2, <1>3, <1>4 DEF PingInv, PingTypeOK, TaskStates
<1>6. PendingIsRetained'
  BY <1>2, <1>3 DEF PingInv, PendingIsRetained, PingTypeOK
<1>7. SessionIsActive'
  BY <1>2, <1>4 DEF PingInv, SessionIsActive
<1>8. EndIsMeasured'
  BY <1>3, <1>4 DEF PingInv, PingTypeOK, EndIsMeasured
<1>9. answer.of # g
  BY <1>1 DEF PingInv, AnswerIsFinal
<1>10. AnswerIsFinal' /\ VerdictIsOwn'
  BY <1>2, <1>3, <1>4, <1>9
     DEF PingInv, PingTypeOK, AnswerIsFinal, VerdictIsOwn, Probes
<1> QED
  BY <1>5, <1>6, <1>7, <1>8, <1>10 DEF PingInv

(* The give that follows the callback changes only the semaphore.           *)
LEMMA GiveDoneStep ==
    ASSUME PingInv, NEW g \in Probes, GiveDone(g)
    PROVE  PingInv'
<1>1. /\ task' \in [Probes -> TaskStates]
      /\ \A h \in Probes : task'[h] = "running" => task[h] = "running"
      /\ \A h \in 0..MaxProbes : task[h] # "running" /\ h # 0
                                   => task'[h] # "running"
  BY DEF GiveDone, PingInv, PingTypeOK, TaskStates, Probes
<1>2. UNCHANGED <<caller, ping, session, args, truth, answer>>
  BY DEF GiveDone
<1> QED
  BY <1>1, <1>2
     DEF PingInv, PingTypeOK, PendingIsRetained, SessionIsActive,
         EndIsMeasured, AnswerIsFinal, VerdictIsOwn

(* No session, no caller, an empty block.                                   *)
LEMMA PingInitially == PingInit => PingInv
BY PingAssumption
   DEF PingInit, PingInv, PingTypeOK, PendingIsRetained, SessionIsActive,
       EndIsMeasured, AnswerIsFinal, VerdictIsOwn, CallerIdle, NoSession,
       Answer, Measurements, TaskStates

(* The invariant of the probe.                                              *)
LEMMA PingInvariant == PingSpec => []PingInv
<1>1. PingInv /\ [PingNext]_pingVars => PingInv'
  <2> SUFFICES ASSUME PingInv, [PingNext]_pingVars
               PROVE  PingInv'
    OBVIOUS
  <2>1. CASE PingTask
    BY <2>1, OnEndStep, GiveDoneStep DEF PingTask
  <2>2. CASE CallerSteps
    BY <2>2, QuietCallerStep, ProbeBeginsStep, TakeResultStep DEF CallerSteps
  <2>3. CASE UNCHANGED pingVars
    BY <2>3
       DEF pingVars, PingInv, PingTypeOK, PendingIsRetained, SessionIsActive,
           EndIsMeasured, AnswerIsFinal, VerdictIsOwn
  <2> QED
    BY <2>1, <2>2, <2>3 DEF PingNext
<1> QED
  BY <1>1, PingInitially, PTL DEF PingSpec

(* ping_probe.hpp: the control block, its argument and its handle stay with *)
(* a session until its on_ping_end callback has run, so no callback ever    *)
(* reaches a block that has moved on.                                       *)
THEOREM NoSessionLost == PingSpec => []PendingIsRetained
BY PingInvariant, PTL DEF PingInv

(* ping_probe_run(): the verdict given to link recovery is the measurement  *)
(* of the session this very call started.                                   *)
THEOREM OwnVerdict == PingSpec => []VerdictIsOwn
BY PingInvariant, PTL DEF PingInv

(* ping_probe_run(): no two probes ever share a session.                    *)
THEOREM ProbesSeparate == PingSpec => []ProbesAreSeparate
BY NoSessionLost, OwnVerdict, PTL DEF ProbesAreSeparate

-----------------------------------------------------------------------------
(***************************************************************************)
(* The log forwarder: the queue outlives its users, no line is lost        *)
(* uncounted, and an outage costs one look-up outside the cadence.         *)
(***************************************************************************)

Counters == {"offered", "delivered", "blank", "dropped", "records"}

\* What startup has built at each of its steps.
StartOrder ==
    /\ starter \in {"alloc", "begin", "create", "unwind", "off"} =>
           ~s_queue /\ slAt = "none" /\ slGate # "Running"
    /\ starter \in {"alloc", "begin"} => slGate = "Idle"
    /\ starter \in {"create", "publish", "commit"} => slGate = "Waiting"
    /\ starter = "publish" => ~s_queue /\ slAt = "gate"
    /\ starter \in {"commit", "up"} => s_queue /\ memory = "live"
    /\ starter = "commit" => slAt = "gate"
    /\ ~s_queue => hooks = 0

\* A look-up outside the cadence is made or due only in an outage, once; what
\* the task does behind the throttle it does with its look-up made.
ReprobeBudget ==
    /\ reprobes + (IF have_checked \/ checkDue THEN 0 ELSE 1)
           <= IF send_failing THEN 1 ELSE 0
    /\ slAt \in {"resolve", "replay", "receive", "send"} => have_checked

SyslogInv ==
    /\ SyslogTypeOK
    /\ StartOrder
    /\ EveryLineIsCounted
    /\ count.records <= count.dropped
    /\ ReprobeBudget

-----------------------------------------------------------------------------
(* Nothing started, nothing counted.                                        *)
LEMMA SyslogInitially == SyslogInit => SyslogInv
<1> SUFFICES ASSUME SyslogInit
             PROVE  SyslogInv
  OBVIOUS
<1>1. /\ count \in [Counters -> Nat]
      /\ count.offered = 0 /\ count.delivered = 0 /\ count.blank = 0
      /\ count.dropped = 0 /\ count.records = 0
  BY DEF SyslogInit, Counters
<1>2. /\ resolved \in BOOLEAN /\ have_checked \in BOOLEAN /\ checkDue \in BOOLEAN
      /\ replayed \in BOOLEAN /\ send_failing \in BOOLEAN /\ s_queue \in BOOLEAN
      /\ netUp \in BOOLEAN
  BY DEF SyslogInit
<1>3. lines \in Seq(LineKinds) /\ Len(lines) = 0
  BY DEF SyslogInit
<1>4. SyslogTypeOK
  BY <1>1, <1>2, <1>3, SyslogAssumption
     DEF SyslogInit, SyslogTypeOK, Counters, NoLine
<1>5. EveryLineIsCounted /\ count.records <= count.dropped
  BY <1>1, <1>3 DEF SyslogInit, EveryLineIsCounted
<1>6. StartOrder /\ ReprobeBudget
  BY DEF SyslogInit, StartOrder, ReprobeBudget
<1> QED
  BY <1>4, <1>5, <1>6 DEF SyslogInv

(* Startup publishes the queue before it opens the gate.                    *)
LEMMA StarterStep == SyslogInv /\ Starter => SyslogInv'
<1> SUFFICES ASSUME SyslogInv, Starter
             PROVE  SyslogInv'
  OBVIOUS
<1>1. UNCHANGED <<hooks, slInHand, lines, netUp, slFlags, count, reprobes,
                  slBudget>>
  BY DEF Starter
<1>2. /\ starter' \in {"begin", "off", "create", "publish", "unwind", "commit",
                       "up"}
      /\ memory' \in {"none", "owned", "live", "freed"}
      /\ slGate' \in {"Idle", "Waiting", "Running", "Cancelled"}
      /\ s_queue' \in BOOLEAN
      /\ slAt' \in {"none", "gate", "top", "resolve", "replay", "receive", "send"}
      /\ slAt' = slAt \/ (slAt' \in {"none", "gate"} /\ slAt # "send")
      /\ slGate' = "Running" => s_queue'
      /\ StartOrder'
  <2>1. CASE AllocateResources
    BY <1>1, <2>1
       DEF AllocateResources, SyslogInv, SyslogTypeOK, StartOrder
  <2>2. CASE BeginGate
    BY <1>1, <2>2 DEF BeginGate, SyslogInv, SyslogTypeOK, StartOrder
  <2>3. CASE CreateTask
    BY <1>1, <2>3 DEF CreateTask, SyslogInv, SyslogTypeOK, StartOrder
  <2>4. CASE Unwind
    BY <1>1, <2>4 DEF Unwind, SyslogInv, SyslogTypeOK, StartOrder
  <2>5. CASE PublishQueue
    <3>1. s_queue' \in BOOLEAN
      BY <2>5 DEF PublishQueue
    <3> QED
      BY <1>1, <2>5, <3>1 DEF PublishQueue, SyslogInv, SyslogTypeOK, StartOrder
  <2>6. CASE CommitGate
    BY <1>1, <2>6 DEF CommitGate, SyslogInv, SyslogTypeOK, StartOrder
  <2> QED
    BY <2>1, <2>2, <2>3, <2>4, <2>5, <2>6 DEF Starter
<1>3. SyslogTypeOK'
  BY <1>1, <1>2 DEF SyslogInv, SyslogTypeOK, slFlags
<1> QED
  BY <1>1, <1>2, <1>3
     DEF SyslogInv, EveryLineIsCounted, ReprobeBudget, slFlags

\* Counters only ever grow by one, and the others stay.
LEMMA CountTypes ==
    ASSUME count \in [Counters -> Nat], NEW f \in Counters
    PROVE  /\ Bump(f) \in [Counters -> Nat]
           /\ Bump(f)[f] = count[f] + 1
           /\ \A g \in Counters \ {f} : Bump(f)[g] = count[g]
BY DEF Bump

(* The arithmetic of a line that moves from one place to another.           *)
\* The books: o offered, r records, d delivered, b blank, x dropped, l lines
\* waiting, h hooks, i in hand.
Balanced(o, r, d, b, x, l, h, i) == o + r = d + b + x + l + h + i

(* A line on one side of the books is one fewer on the other.               *)
LEMMA Balance ==
    ASSUME NEW o \in Nat, NEW r \in Nat, NEW d \in Nat, NEW b \in Nat,
           NEW x \in Nat, NEW l \in Nat, NEW h \in Nat, NEW i \in Nat,
           Balanced(o, r, d, b, x, l, h, i)
    PROVE  /\ r <= x => h <= o
           /\ Balanced(o + 1, r, d, b, x, l, h + 1, i)
           /\ Balanced(o, r, d, b, x + 1, l, h - 1, i)
           /\ Balanced(o, r, d, b, x, l + 1, h - 1, i)
           /\ Balanced(o, r + 1, d, b, x + 1, l, h, i)
           /\ Balanced(o, r, d + 1, b, x, l, h, i - 1)
           /\ Balanced(o, r, d, b + 1, x, l, h, i - 1)
           /\ Balanced(o, r, d, b, x + 1, l, h, i - 1)
           /\ Balanced(o, r, d, b, x + 1, l - 1, h, i)
           /\ Balanced(o, r, d, b, x, l - 1, h, i + 1)
BY DEF Balanced

InHand == IF slInHand = NoLine THEN 0 ELSE 1

\* EveryLineIsCounted, in those terms.
Books == Balanced(count.offered, count.records, count.delivered, count.blank,
                  count.dropped, Len(lines), hooks, InHand)

(* The books in the form Balance wants them.                                *)
LEMMA BooksAreCounts == /\ EveryLineIsCounted <=> Books
                        /\ EveryLineIsCounted' <=> Books'
BY DEF EveryLineIsCounted, Books, Balanced, InHand

(* syslog_send() with the handle it loaded.                                 *)
LEMMA HookStep == SyslogInv /\ (HookLoads \/ HookSends) => SyslogInv'
<1> SUFFICES ASSUME SyslogInv, HookLoads \/ HookSends
             PROVE  SyslogInv'
  OBVIOUS
<1>1. UNCHANGED <<slStart, slTask, netUp, slFlags, reprobes, slBudget>>
  BY DEF HookLoads, HookSends
<1>2. /\ count \in [Counters -> Nat] /\ hooks \in 0..MaxLines
      /\ lines \in Seq(LineKinds) /\ Len(lines) \in Nat /\ Len(lines) <= kQueueDepth
      /\ count.offered \in Nat /\ count.delivered \in Nat /\ count.blank \in Nat
      /\ count.dropped \in Nat /\ count.records \in Nat
      /\ s_queue \in BOOLEAN
  BY DEF SyslogInv, SyslogTypeOK, Counters
<1>3. /\ Books /\ InHand \in Nat /\ InHand' = InHand /\ hooks \in Nat
      /\ count.records <= count.dropped
  BY <1>1, <1>2, BooksAreCounts, SyslogAssumption DEF SyslogInv, InHand, slTask
<1>7. hooks <= count.offered
  BY <1>2, <1>3, Balance DEF Books
<1>4. /\ count' \in [Counters -> Nat] /\ hooks' \in 0..MaxLines
      /\ lines' \in Seq(LineKinds) /\ Len(lines') <= kQueueDepth
      /\ EveryLineIsCounted' /\ count'.records <= count'.dropped
      /\ ~s_queue => hooks' = 0
  <2>1. CASE HookLoads
    <3>1. /\ count' = Bump("offered") /\ hooks' = hooks + 1 /\ lines' = lines
          /\ count.offered < MaxLines /\ s_queue
      BY <2>1 DEF HookLoads
    <3>2. /\ count' \in [Counters -> Nat]
          /\ count'.offered = count.offered + 1
          /\ count'.delivered = count.delivered /\ count'.blank = count.blank
          /\ count'.dropped = count.dropped /\ count'.records = count.records
      BY <1>2, <3>1, CountTypes DEF Counters
    <3>3. hooks' \in 0..MaxLines
      BY <1>2, <1>3, <1>7, <3>1, SyslogAssumption
    <3>4. Balanced(count.offered + 1, count.records, count.delivered,
                   count.blank, count.dropped, Len(lines), hooks + 1, InHand)
      BY <1>2, <1>3, Balance DEF Books
    <3>5. Books'
      BY <1>3, <3>1, <3>2, <3>4, Zenon DEF Books
    <3> QED
      BY <1>2, <1>3, <3>1, <3>2, <3>3, <3>5, BooksAreCounts
  <2>2. CASE HookSends
    <3>1. /\ hooks > 0 /\ hooks' = hooks - 1
          /\ \/ /\ Len(lines) < kQueueDepth
                /\ \E k \in LineKinds : lines' = Append(lines, k)
                /\ count' = count
             \/ count' = Bump("dropped") /\ lines' = lines
      BY <2>2 DEF HookSends
    <3>2. hooks' \in 0..MaxLines /\ s_queue
      BY <1>2, <1>3, <3>1, SyslogAssumption DEF SyslogInv, StartOrder
    <3>3. CASE /\ Len(lines) < kQueueDepth
               /\ \E k \in LineKinds : lines' = Append(lines, k)
               /\ count' = count
      <4>1. /\ lines' \in Seq(LineKinds) /\ Len(lines') = Len(lines) + 1
            /\ Len(lines') <= kQueueDepth
        BY <1>2, <3>3, SyslogAssumption
      <4>2. Balanced(count.offered, count.records, count.delivered, count.blank,
                     count.dropped, Len(lines) + 1, hooks - 1, InHand)
        BY <1>2, <1>3, Balance DEF Books
      <4>3. Books'
        BY <1>3, <3>1, <3>3, <4>1, <4>2, Zenon DEF Books
      <4> QED
        BY <1>2, <1>3, <3>2, <3>3, <4>1, <4>3, BooksAreCounts
    <3>4. CASE count' = Bump("dropped") /\ lines' = lines
      <4>1. /\ count' \in [Counters -> Nat]
            /\ count'.dropped = count.dropped + 1
            /\ count'.delivered = count.delivered /\ count'.blank = count.blank
            /\ count'.offered = count.offered /\ count'.records = count.records
        BY <1>2, <3>4, CountTypes DEF Counters
      <4>2. Balanced(count.offered, count.records, count.delivered, count.blank,
                     count.dropped + 1, Len(lines), hooks - 1, InHand)
        BY <1>2, <1>3, Balance DEF Books
      <4>3. Books'
        BY <1>3, <3>1, <3>4, <4>1, <4>2, Zenon DEF Books
      <4> QED
        BY <1>2, <1>3, <3>2, <3>4, <4>1, <4>3, BooksAreCounts
    <3> QED
      BY <3>1, <3>3, <3>4
  <2> QED
    BY <2>1, <2>2
<1>5. SyslogTypeOK'
  BY <1>1, <1>4 DEF SyslogInv, SyslogTypeOK, slStart, slTask, slFlags, Counters
<1>6. StartOrder' /\ ReprobeBudget'
  BY <1>1, <1>4
     DEF SyslogInv, StartOrder, ReprobeBudget, slStart, slTask, slFlags
<1> QED
  BY <1>4, <1>5, <1>6 DEF SyslogInv

-----------------------------------------------------------------------------
\* What a step of the forwarding task leaves alone, and where it may be.
LEMMA TaskRuns ==
    ASSUME SyslogInv, SyslogTask
    PROVE  UNCHANGED <<starter, memory, slGate, s_queue, hooks, netUp>>
BY DEF SyslogTask, GateOpens, NetIsDown, Throttle, Resolve, ReplayBoot, Receive,
       SendOk, SendFails, slStart

(* The forwarding task's flags: the throttle and the failure latch.         *)
LEMMA TaskReprobes == SyslogInv /\ SyslogTask => ReprobeBudget'
<1> SUFFICES ASSUME SyslogInv, SyslogTask
             PROVE  ReprobeBudget'
  OBVIOUS
<1>1. /\ reprobes \in Nat /\ have_checked \in BOOLEAN /\ send_failing \in BOOLEAN
      /\ checkDue \in BOOLEAN /\ ReprobeBudget
  BY DEF SyslogInv, SyslogTypeOK
<1>2. CASE GateOpens \/ NetIsDown \/ Resolve \/ ReplayBoot \/ Receive
  BY <1>1, <1>2
     DEF GateOpens, NetIsDown, Resolve, ReplayBoot, Receive, Contained, slTask,
         slFlags, ReprobeBudget
<1>3. CASE Throttle
  BY <1>1, <1>3 DEF Throttle, CheckNow, ReprobeBudget
<1>4. CASE SendOk
  BY <1>1, <1>4 DEF SendOk, ReprobeBudget
<1>5. CASE SendFails
  <2>1. CASE UNCHANGED <<resolved, have_checked, send_failing>>
    BY <1>1, <1>5, <2>1 DEF SendFails, ReprobeBudget
  <2>2. ASSUME NEW hard \in BOOLEAN, SendFailure(hard)
        PROVE  ReprobeBudget'
    BY <1>1, <1>5, <2>2
       DEF SendFails, SendFailure, LetGo, reprobe_once, ReprobeBudget
  <2> QED
    BY <1>5, <2>1, <2>2 DEF SendFails
<1> QED
  BY <1>2, <1>3, <1>4, <1>5 DEF SyslogTask

(* The forwarding task keeps the books: no line leaves without a count.     *)
LEMMA TaskCounts ==
    ASSUME SyslogInv, SyslogTask
    PROVE  /\ count' \in [Counters -> Nat]
           /\ lines' \in Seq(LineKinds) /\ Len(lines') <= kQueueDepth
           /\ slInHand' \in LineKinds \cup {NoLine}
           /\ (slInHand' # NoLine) <=> (slAt' = "send")
           /\ EveryLineIsCounted' /\ count'.records <= count'.dropped
<1>1. hooks' = hooks
  BY TaskRuns
<1>2. /\ count \in [Counters -> Nat] /\ hooks \in 0..MaxLines
      /\ lines \in Seq(LineKinds) /\ Len(lines) \in Nat /\ Len(lines) <= kQueueDepth
      /\ count.offered \in Nat /\ count.delivered \in Nat /\ count.blank \in Nat
      /\ count.dropped \in Nat /\ count.records \in Nat
      /\ slInHand \in LineKinds \cup {NoLine}
      /\ (slInHand # NoLine) <=> (slAt = "send")
      /\ kQueueDepth \in Nat
  BY SyslogAssumption DEF SyslogInv, SyslogTypeOK, Counters
<1>3. Books /\ InHand \in Nat /\ hooks \in Nat /\ count.records <= count.dropped
  BY <1>2, BooksAreCounts, SyslogAssumption DEF SyslogInv, InHand
<1>4. CASE GateOpens \/ NetIsDown \/ Throttle \/ Resolve
  <2>1. /\ UNCHANGED <<count, lines, slInHand>>
        /\ slAt # "send" /\ slAt' # "send"
    BY <1>4 DEF GateOpens, NetIsDown, Throttle, Resolve, Contained, slTask
  <2>2. Books'
    BY <1>1, <1>3, <2>1 DEF Books, InHand
  <2> QED
    BY <1>2, <1>3, <2>1, <2>2, BooksAreCounts
<1>5. CASE ReplayBoot
  <2>1. /\ UNCHANGED <<lines, slInHand>> /\ slAt = "replay"
        /\ slAt' # "send" /\ InHand' = InHand
        /\ \/ count' = count
           \/ count' = [count EXCEPT !.dropped = @ + 1, !.records = @ + 1]
    BY <1>5 DEF ReplayBoot, Contained, InHand
  <2>2. CASE count' = count
    <3>1. Books'
      BY <1>1, <1>3, <2>1, <2>2 DEF Books
    <3> QED
      BY <1>2, <1>3, <2>1, <2>2, <3>1, BooksAreCounts
  <2>3. CASE count' = [count EXCEPT !.dropped = @ + 1, !.records = @ + 1]
    <3>1. /\ count' \in [Counters -> Nat]
          /\ count'.offered = count.offered
          /\ count'.delivered = count.delivered /\ count'.blank = count.blank
          /\ count'.dropped = count.dropped + 1
          /\ count'.records = count.records + 1
      <4> DEFINE once == Bump("dropped")
      <4>1. /\ once \in [Counters -> Nat]
            /\ once["dropped"] = count["dropped"] + 1
            /\ \A g \in Counters \ {"dropped"} : once[g] = count[g]
        BY <1>2, CountTypes DEF Counters
      <4>2. count' = [once EXCEPT !["records"] = once["records"] + 1]
        BY <1>2, <2>3 DEF Bump, Counters
      <4> HIDE DEF once
      <4> QED
        BY <1>2, <4>1, <4>2 DEF Counters
    <3>2. Balanced(count.offered, count.records + 1, count.delivered,
                   count.blank, count.dropped + 1, Len(lines), hooks, InHand)
      BY <1>2, <1>3, Balance DEF Books
    <3>3. Books'
      BY <1>1, <2>1, <3>1, <3>2, Zenon DEF Books
    <3>4. count'.records <= count'.dropped
      BY <1>2, <1>3, <3>1
    <3> QED
      BY <1>2, <2>1, <3>1, <3>3, <3>4, BooksAreCounts
  <2> QED
    BY <2>1, <2>2, <2>3
<1>6. CASE Receive
  <2>0. slAt = "receive" /\ slInHand = NoLine /\ InHand = 0
    BY <1>2, <1>6 DEF Receive, InHand
  <2>1. CASE lines = <<>>
    <3>1. slAt' = "top" /\ UNCHANGED <<lines, slInHand, count>>
      BY <1>6, <2>1 DEF Receive
    <3>2. Books'
      BY <1>1, <1>3, <3>1 DEF Books, InHand
    <3> QED
      BY <1>2, <1>3, <2>0, <3>1, <3>2, BooksAreCounts
  <2>2. CASE lines # <<>>
    <3>1. /\ lines' \in Seq(LineKinds) /\ Len(lines') = Len(lines) - 1
          /\ Head(lines) \in LineKinds /\ Len(lines') <= kQueueDepth
      <4>1. lines' = Tail(lines) /\ Len(lines) > 0
        BY <1>2, <1>6, <2>2 DEF Receive
      <4>2. Len(lines') = Len(lines) - 1
        BY <1>2, <4>1
      <4>3. lines' \in Seq(LineKinds) /\ Head(lines) \in LineKinds
        BY <1>2, <4>1
      <4> QED
        BY <1>2, <4>2, <4>3
    <3>2. CASE resolved
      <4>1. slAt' = "send" /\ slInHand' = Head(lines) /\ count' = count
        BY <1>6, <2>2, <3>2 DEF Receive
      <4>2. slInHand' # NoLine /\ InHand' = InHand + 1
        BY <2>0, <3>1, <4>1 DEF InHand, LineKinds, NoLine
      <4>3. Balanced(count.offered, count.records, count.delivered, count.blank,
                     count.dropped, Len(lines) - 1, hooks, InHand + 1)
        BY <1>2, <1>3, Balance DEF Books
      <4>4. Books'
        BY <1>1, <3>1, <4>1, <4>2, <4>3, Zenon DEF Books
      <4> QED
        BY <1>2, <1>3, <3>1, <4>1, <4>2, <4>4, BooksAreCounts
    <3>3. CASE ~resolved
      <4>1. slAt' = "top" /\ slInHand' = slInHand /\ count' = Bump("dropped")
        BY <1>6, <2>2, <3>3 DEF Receive
      <4>2. /\ count' \in [Counters -> Nat] /\ InHand' = InHand
            /\ count'.offered = count.offered
            /\ count'.delivered = count.delivered /\ count'.blank = count.blank
            /\ count'.dropped = count.dropped + 1
            /\ count'.records = count.records
        BY <1>2, <4>1, CountTypes DEF Counters, InHand
      <4>3. Balanced(count.offered, count.records, count.delivered, count.blank,
                     count.dropped + 1, Len(lines) - 1, hooks, InHand)
        BY <1>2, <1>3, Balance DEF Books
      <4>4. Books'
        BY <1>1, <3>1, <4>2, <4>3, Zenon DEF Books
      <4> QED
        BY <1>2, <1>3, <2>0, <3>1, <4>1, <4>2, <4>4, BooksAreCounts
    <3> QED
      BY <3>2, <3>3
  <2> QED
    BY <2>1, <2>2
<1>7. CASE SendOk \/ SendFails
  <2>1. /\ slAt = "send" /\ slAt' = "top" /\ slInHand' = NoLine
        /\ lines' = lines
        /\ \E f \in {"delivered", "blank", "dropped"} : count' = Bump(f)
    BY <1>7 DEF SendOk, SendFails, LetGo
  <2>2. InHand = 1 /\ InHand' = InHand - 1
    BY <1>2, <2>1 DEF InHand
  <2>3. PICK f \in {"delivered", "blank", "dropped"} : count' = Bump(f)
    BY <2>1
  <2>4. /\ count' \in [Counters -> Nat] /\ count'[f] = count[f] + 1
        /\ \A g \in Counters \ {f} : count'[g] = count[g]
    BY <1>2, <2>3, CountTypes DEF Counters
  <2>5. /\ count'.offered = count.offered /\ count'.records = count.records
        /\ \/ /\ count'.delivered = count.delivered + 1
              /\ count'.blank = count.blank /\ count'.dropped = count.dropped
           \/ /\ count'.delivered = count.delivered
              /\ count'.blank = count.blank + 1 /\ count'.dropped = count.dropped
           \/ /\ count'.delivered = count.delivered
              /\ count'.blank = count.blank /\ count'.dropped = count.dropped + 1
    BY <2>4 DEF Counters
  <2>6. /\ Balanced(count.offered, count.records, count.delivered + 1,
                    count.blank, count.dropped, Len(lines), hooks, InHand - 1)
        /\ Balanced(count.offered, count.records, count.delivered,
                    count.blank + 1, count.dropped, Len(lines), hooks, InHand - 1)
        /\ Balanced(count.offered, count.records, count.delivered,
                    count.blank, count.dropped + 1, Len(lines), hooks, InHand - 1)
    BY <1>2, <1>3, Balance DEF Books
  <2>7. Books'
    BY <1>1, <2>1, <2>2, <2>5, <2>6, Zenon DEF Books
  <2>8. count'.records <= count'.dropped
    BY <1>2, <1>3, <2>5
  <2> QED
    BY <1>2, <2>1, <2>4, <2>7, <2>8, BooksAreCounts
<1> QED
  BY <1>4, <1>5, <1>6, <1>7 DEF SyslogTask

(* The forwarding task keeps the types, and runs only on an open gate.      *)
LEMMA TaskStep == SyslogInv /\ SyslogTask => SyslogInv'
<1> SUFFICES ASSUME SyslogInv, SyslogTask
             PROVE  SyslogInv'
  OBVIOUS
<1>1. UNCHANGED <<starter, memory, slGate, s_queue, hooks, netUp>>
  BY TaskRuns
<1>2. /\ slAt' \in {"top", "resolve", "replay", "receive", "send"}
      /\ slAt # "none"
  BY DEF SyslogTask, GateOpens, NetIsDown, Throttle, Resolve, ReplayBoot,
         Receive, SendOk, SendFails, Contained, LetGo, slTask
<1>3. /\ resolved' \in BOOLEAN /\ have_checked' \in BOOLEAN
      /\ checkDue' \in BOOLEAN /\ replayed' \in BOOLEAN
      /\ send_failing' \in BOOLEAN /\ reprobes' \in Nat
      /\ slBudget' \in 0..MaxLogFaults
  <2>1. /\ resolved \in BOOLEAN /\ have_checked \in BOOLEAN
        /\ checkDue \in BOOLEAN /\ replayed \in BOOLEAN
        /\ send_failing \in BOOLEAN /\ reprobes \in Nat
        /\ slBudget \in 0..MaxLogFaults /\ MaxLogFaults \in Nat
        /\ TRUE \in BOOLEAN /\ FALSE \in BOOLEAN
    BY SyslogAssumption DEF SyslogInv, SyslogTypeOK
  <2>2. slBudget' \in 0..MaxLogFaults
    BY <2>1
       DEF SyslogTask, GateOpens, NetIsDown, Throttle, Resolve, ReplayBoot,
           Receive, SendOk, SendFails, SlFault
  <2>3. CASE SendFails
    <3>1. \A hard \in BOOLEAN :
             /\ (resolved /\ ~hard) \in BOOLEAN
             /\ (have_checked /\ ~reprobe_once(hard, send_failing)) \in BOOLEAN
      OBVIOUS
    <3> QED
      BY <2>1, <2>2, <2>3, <3>1 DEF SendFails, SendFailure
  <2>4. CASE GateOpens \/ NetIsDown \/ Resolve \/ ReplayBoot \/ Receive
    BY <2>1, <2>2, <2>4
       DEF GateOpens, NetIsDown, Resolve, ReplayBoot, Receive, slFlags
  <2>5. CASE Throttle
    <3>1. reprobes' \in Nat
      BY <2>1, <2>5 DEF Throttle
    <3>2. have_checked' \in {TRUE, have_checked} /\ checkDue' \in {FALSE, checkDue}
      BY <2>5 DEF Throttle
    <3> QED
      BY <2>1, <2>2, <2>5, <3>1, <3>2 DEF Throttle
  <2>6. CASE SendOk
    <3>1. reprobes' \in Nat
      BY <2>1, <2>6 DEF SendOk
    <3>2. send_failing' \in {FALSE, send_failing}
      BY <2>6 DEF SendOk
    <3> QED
      BY <2>1, <2>2, <2>6, <3>1, <3>2 DEF SendOk
  <2> QED
    BY <2>3, <2>4, <2>5, <2>6 DEF SyslogTask
<1>4. SyslogTypeOK'
  BY <1>1, <1>2, <1>3, TaskCounts DEF SyslogInv, SyslogTypeOK, Counters
<1>5. StartOrder'
  <2>1. starter = "up" \/ slAt = "gate"
    BY <1>2 DEF SyslogInv, StartOrder, SyslogTypeOK
  <2>2. slAt = "gate" => slGate = "Running"
    BY DEF SyslogTask, GateOpens, NetIsDown, Throttle, Resolve, ReplayBoot,
           Receive, SendOk, SendFails
  <2> QED
    BY <1>1, <1>2, <2>1, <2>2 DEF SyslogInv, StartOrder, SyslogTypeOK
<1> QED
  BY <1>4, <1>5, TaskCounts, TaskReprobes DEF SyslogInv

(* The clock and the network change only their own flags.                   *)
LEMMA EnvironmentStep == SyslogInv /\ (CadencePasses \/ NetChanges) => SyslogInv'
<1> SUFFICES ASSUME SyslogInv, CadencePasses \/ NetChanges
             PROVE  SyslogInv'
  OBVIOUS
<1>1. /\ UNCHANGED <<slStart, hooks, slTask, lines, resolved, have_checked,
                     replayed, send_failing, count, reprobes>>
      /\ checkDue' \in BOOLEAN /\ netUp' \in BOOLEAN
      /\ checkDue => checkDue'
      /\ slBudget' \in 0..MaxLogFaults
  <2>1. CASE CadencePasses
    BY <2>1 DEF CadencePasses, SyslogInv, SyslogTypeOK
  <2>2. CASE NetChanges
    BY <2>2, SyslogAssumption
       DEF NetChanges, SlFault, slFlags, SyslogInv, SyslogTypeOK
  <2> QED
    BY <2>1, <2>2
<1> QED
  BY <1>1
     DEF SyslogInv, SyslogTypeOK, StartOrder, EveryLineIsCounted, ReprobeBudget,
         slStart, slTask

-----------------------------------------------------------------------------
(* The invariant of the forwarder.                                          *)
LEMMA SyslogInvariant == SyslogSpec => []SyslogInv
<1>1. SyslogInv /\ [SyslogNext]_syslogVars => SyslogInv'
  <2> SUFFICES ASSUME SyslogInv, [SyslogNext]_syslogVars
               PROVE  SyslogInv'
    OBVIOUS
  <2>1. CASE UNCHANGED syslogVars
    BY <2>1
       DEF syslogVars, slStart, slTask, slFlags, SyslogInv, SyslogTypeOK,
           StartOrder, EveryLineIsCounted, ReprobeBudget
  <2> QED
    BY <2>1, StarterStep, HookStep, TaskStep, EnvironmentStep DEF SyslogNext
<1> QED
  BY <1>1, SyslogInitially, PTL DEF SyslogSpec

(* Every reachable state of the log forwarder is well typed.                *)
THEOREM SyslogTypeCorrect == SyslogSpec => []SyslogTypeOK
BY SyslogInvariant, PTL DEF SyslogInv

(* syslog_start(): a queue that the log hook or the task can see is never   *)
(* one that a failed start deletes.                                         *)
THEOREM QueueOutlives == SyslogSpec => []QueueOutlivesItsUsers
<1>1. SyslogInv => QueueOutlivesItsUsers
  BY DEF SyslogInv, SyslogTypeOK, StartOrder, QueueOutlivesItsUsers
<1> QED
  BY <1>1, SyslogInvariant, PTL

(* s_dropped_lines: no line is lost without being counted, whatever fails.  *)
THEOREM LinesAreCounted == SyslogSpec => []EveryLineIsCounted
BY SyslogInvariant, PTL DEF SyslogInv

(* handle_send_failure(): an outage costs one look-up outside the cadence.  *)
THEOREM ReprobedOnce == SyslogSpec => []OneReprobePerOutage
<1>1. SyslogInv => OneReprobePerOutage
  BY DEF SyslogInv, SyslogTypeOK, ReprobeBudget, OneReprobePerOutage
<1> QED
  BY <1>1, SyslogInvariant, PTL

(* syslog.cpp: queue, lines and look-ups are accounted for, whatever step   *)
(* of start-up, hook or loop fails.                                         *)
THEOREM SyslogIsSafe == SyslogSpec => []SyslogSafe
BY SyslogTypeCorrect, QueueOutlives, LinesAreCounted, ReprobedOnce, PTL
   DEF SyslogSafe

-----------------------------------------------------------------------------
(***************************************************************************)
(* The Ethernet start: whichever step of the chain fails, the unwinding    *)
(* leaves either nothing or a set of objects no callback misses a part of. *)
(***************************************************************************)

\* An object exists only on top of those it is built on.
Ordered ==
    /\ have \subseteq Objects
    /\ "events" \in have => "spi" \in have
    /\ "netif" \in have => "events" \in have
    /\ "mac" \in have \/ "phy" \in have => "netif" \in have
    /\ "driver" \in have => "mac" \in have /\ "phy" \in have
    /\ "glue" \in have => "driver" \in have
    /\ "attach" \in have => "glue" \in have
    /\ "ethHandler" \in have \/ "published" \in have => "glue" \in have
    /\ "ipHandler" \in have => "ethHandler" \in have

\* The chain is only half built while nothing has been activated, and after
\* activation it is never shortened.
EthInv ==
    /\ Ordered
    /\ activated => UsedByCallbacks \subseteq have
    /\ "started" \in have => activated
    /\ ethAt = "probe" => have = {}
    /\ ethAt \in {"probe", "build"} => ~activated
    /\ ethAt = "wait" => activated /\ have = Objects
    /\ FallbackIsClean

-----------------------------------------------------------------------------
\* The objects of net_start_eth(), written out.
LEMMA ObjectsAre ==
    Objects = {"spi", "events", "netif", "mac", "phy", "driver", "glue", "attach",
               "ethHandler", "ipHandler", "published", "started"}
  <1>1. Len(Chain) = 12
    BY DEF Chain
  <1>2. /\ Chain[1] = "spi" /\ Chain[2] = "events" /\ Chain[3] = "netif" /\ Chain[4] = "mac"
        /\ Chain[5] = "phy" /\ Chain[6] = "driver" /\ Chain[7] = "glue" /\ Chain[8] = "attach"
        /\ Chain[9] = "ethHandler" /\ Chain[10] = "ipHandler" /\ Chain[11] = "published"
        /\ Chain[12] = "started"
    BY DEF Chain
  <1>3. \A i \in 1..12 : i = 1 \/ i = 2 \/ i = 3 \/ i = 4 \/ i = 5 \/ i = 6 \/ i = 7 \/ i = 8 \/ i = 9
                         \/ i = 10 \/ i = 11 \/ i = 12
    OBVIOUS
  <1>4. QED
    BY <1>1, <1>2, <1>3 DEF Objects

\* What the next object of an unfinished chain stands on is there
\* (net_start_eth() makes one after the other).
LEMMA NextStands ==
    ASSUME have \subseteq Objects, "started" \notin have
    PROVE  /\ NextObject \in Objects /\ NextObject \notin have
           /\ NextObject # "spi" => "spi" \in have
           /\ NextObject \notin {"spi", "events"} => "events" \in have
           /\ NextObject \notin {"spi", "events", "netif"} => "netif" \in have
           /\ NextObject \notin {"spi", "events", "netif", "mac"} => "mac" \in have
           /\ NextObject \notin {"spi", "events", "netif", "mac", "phy"} => "phy" \in have
           /\ NextObject \notin {"spi", "events", "netif", "mac", "phy", "driver"} => "driver" \in have
           /\ NextObject \in {"attach", "ethHandler", "ipHandler", "published", "started"} => "glue" \in have
           /\ NextObject \in {"ethHandler", "ipHandler", "published", "started"} => "attach" \in have
           /\ NextObject \in {"ipHandler", "published", "started"} => "ethHandler" \in have
           /\ NextObject \in {"published", "started"} => "ipHandler" \in have
           /\ NextObject = "started" => "published" \in have
  <1> DEFINE Missing(i) == Chain[i] \notin have /\ \A j \in 1..i - 1 : Chain[j] \in have
  <1>1. Len(Chain) = 12
    BY DEF Chain
  <1>2. /\ Chain[1] = "spi" /\ Chain[2] = "events" /\ Chain[3] = "netif" /\ Chain[4] = "mac"
        /\ Chain[5] = "phy" /\ Chain[6] = "driver" /\ Chain[7] = "glue" /\ Chain[8] = "attach"
        /\ Chain[9] = "ethHandler" /\ Chain[10] = "ipHandler" /\ Chain[11] = "published"
        /\ Chain[12] = "started"
    BY DEF Chain
  <1>3. \E i \in 1..12 : Missing(i)
    <2>1. /\ \A j \in 1..0 : FALSE
          /\ \A j \in 1..1 : j = 1
          /\ \A j \in 1..2 : j = 1 \/ j = 2
          /\ \A j \in 1..3 : j = 1 \/ j = 2 \/ j = 3
          /\ \A j \in 1..4 : j \in 1..3 \/ j = 4
          /\ \A j \in 1..5 : j \in 1..4 \/ j = 5
          /\ \A j \in 1..6 : j \in 1..5 \/ j = 6
          /\ \A j \in 1..7 : j \in 1..6 \/ j = 7
          /\ \A j \in 1..8 : j \in 1..7 \/ j = 8
          /\ \A j \in 1..9 : j \in 1..8 \/ j = 9
          /\ \A j \in 1..10 : j \in 1..9 \/ j = 10
          /\ \A j \in 1..11 : j \in 1..10 \/ j = 11
      OBVIOUS
    <2>2. QED
      BY <1>2, <2>1
  <1>4. PICK i \in 1..12 : NextObject = Chain[i] /\ Missing(i)
    BY <1>1, <1>3 DEF NextObject
  <1>5. NextObject \in Objects /\ NextObject \notin have
    BY <1>1, <1>4 DEF Objects
  <1>6. \A j \in 1..12 : j < i => Chain[j] \in have
    BY <1>4
  <1>7. QED
    BY <1>2, <1>4, <1>5, <1>6

\* The object a teardown gives back carries nothing that is still there.
LEMMA TornLast ==
    ASSUME NEW o, NEW i \in 1..Len(Teardown), o = Teardown[i], Teardown[i] \in have,
           \A j \in HeldTail : i <= j
    PROVE  /\ o \in Objects \ {"attach", "started"}
           /\ o \in {"ethHandler", "published", "glue", "driver", "mac", "phy", "netif", "events", "spi"} =>
                "ipHandler" \notin have
           /\ o \in {"glue", "driver", "mac", "phy", "netif", "events", "spi"} =>
                "ethHandler" \notin have /\ "published" \notin have
           /\ o \in {"driver", "mac", "phy", "netif", "events", "spi"} => "glue" \notin have
           /\ o \in {"mac", "phy", "netif", "events", "spi"} => "driver" \notin have
           /\ o \in {"netif", "events", "spi"} => "mac" \notin have /\ "phy" \notin have
           /\ o \in {"events", "spi"} => "netif" \notin have
           /\ o = "spi" => "events" \notin have
  <1>1. Len(Teardown) = 10
    BY DEF Teardown
  <1>2. /\ Teardown[1] = "ipHandler" /\ Teardown[2] = "ethHandler" /\ Teardown[3] = "published"
        /\ Teardown[4] = "glue" /\ Teardown[5] = "driver" /\ Teardown[6] = "mac"
        /\ Teardown[7] = "phy" /\ Teardown[8] = "netif" /\ Teardown[9] = "events"
        /\ Teardown[10] = "spi"
    BY DEF Teardown
  <1>3. \A j \in 1..10 : j < i => Teardown[j] \notin have
    BY <1>1 DEF HeldTail
  <1>4. i \in 1..10
    BY <1>1
  <1>5. QED
    BY <1>2, <1>3, <1>4, ObjectsAre

\* A teardown finds the first held object of its list.
LEMMA TeardownFinds ==
    ASSUME HeldTail # {}
    PROVE  \E i \in HeldTail : /\ \A j \in HeldTail : i <= j
                               /\ i = CHOOSE k \in HeldTail : \A j \in HeldTail : k <= j
  <1> DEFINE Lowest(k) == k \in HeldTail /\ \A j \in HeldTail : k <= j
  <1>1. Len(Teardown) = 10
    BY DEF Teardown
  <1>2. HeldTail \subseteq 1..10
    BY <1>1 DEF HeldTail
  <1>3. \E k \in HeldTail : \A j \in HeldTail : k <= j
    <2> \A k, j \in HeldTail : k <= j \/ j < k
      BY <1>2
    <2>1. SUFFICES ASSUME \A k \in HeldTail : \E j \in HeldTail : j < k PROVE FALSE
      OBVIOUS
    <2>2. 1 \notin HeldTail
      BY <1>2, <2>1
    <2>3. 2 \notin HeldTail
      BY <1>2, <2>1, <2>2
    <2>4. 3 \notin HeldTail
      BY <1>2, <2>1, <2>2, <2>3
    <2>5. 4 \notin HeldTail
      BY <1>2, <2>1, <2>2, <2>3, <2>4
    <2>6. 5 \notin HeldTail
      BY <1>2, <2>1, <2>2, <2>3, <2>4, <2>5
    <2>7. 6 \notin HeldTail
      BY <1>2, <2>1, <2>2, <2>3, <2>4, <2>5, <2>6
    <2>8. 7 \notin HeldTail
      BY <1>2, <2>1, <2>2, <2>3, <2>4, <2>5, <2>6, <2>7
    <2>9. 8 \notin HeldTail
      BY <1>2, <2>1, <2>2, <2>3, <2>4, <2>5, <2>6, <2>7, <2>8
    <2>10. 9 \notin HeldTail
      BY <1>2, <2>1, <2>2, <2>3, <2>4, <2>5, <2>6, <2>7, <2>8, <2>9
    <2>11. 10 \notin HeldTail
      BY <1>2, <2>1, <2>2, <2>3, <2>4, <2>5, <2>6, <2>7, <2>8, <2>9, <2>10
    <2> \A i \in 1..10 : i = 1 \/ i = 2 \/ i = 3 \/ i = 4 \/ i = 5 \/ i = 6 \/ i = 7 \/ i = 8 \/ i = 9
                          \/ i = 10
      OBVIOUS
    <2>12. QED
      BY <1>2, <2>2, <2>3, <2>4, <2>5, <2>6, <2>7, <2>8, <2>9, <2>10, <2>11
  <1>4. QED
    BY <1>3

\* Every step keeps what is built on what: an acquisition adds on top, a
\* teardown takes from the top, and a start that was attempted ends the
\* teardown before it begins.
LEMMA EthStep ==
    ASSUME EthInv, [EthNext]_ethVars
    PROVE  EthInv'
  <1> USE DEF EthInv
  <1>1. CASE ProbeCandidate
    BY <1>1, ObjectsAre DEF ProbeCandidate, Ordered, FallbackIsClean
  <1>2. CASE ProbeOver
    BY <1>2 DEF ProbeOver, Ordered, FallbackIsClean
  <1>3. CASE Acquire
    <2>1. "started" \notin have /\ have \subseteq Objects /\ ethAt = "build"
      BY <1>3 DEF Acquire, Ordered
    <2> DEFINE o == NextObject
    <2>2. have' = have \cup {o} /\ activated' = (activated \/ o = "started")
          /\ ethAt' = IF o = "started" THEN "wait" ELSE "build"
      BY <1>3 DEF Acquire
    <2>3. Ordered'
      BY <2>1, <2>2, NextStands DEF Ordered
    <2>4. o = "started" => have' = Objects
      BY <2>1, <2>2, NextStands, ObjectsAre
    <2>5. "started" \in have' => o = "started"
      BY <2>1, <2>2
    <2>6. ~activated
      BY <2>1
    <2>7. QED
      BY <2>1, <2>2, <2>3, <2>4, <2>5, <2>6 DEF FallbackIsClean, UsedByCallbacks
  <1>4. CASE AcquireFails
    <2>1. "started" \notin have /\ have \subseteq Objects /\ ethAt = "build" /\ ~activated
      BY <1>4 DEF AcquireFails, Ordered
    <2> DEFINE o == NextObject
    <2>2. activated' = (o = "started") /\ ethAt' = "undo"
          /\ (have' = have \/ (o = "mac" /\ have' = have \cup {"phy"}))
      BY <1>4 DEF AcquireFails
    <2>3. Ordered'
      BY <2>1, <2>2, NextStands, ObjectsAre DEF Ordered
    <2>4. o = "started" => UsedByCallbacks \subseteq have'
      BY <2>1, <2>2, NextStands, ObjectsAre DEF UsedByCallbacks
    <2>5. "started" \notin have'
      BY <2>1, <2>2
    <2>6. QED
      BY <2>2, <2>3, <2>4, <2>5 DEF FallbackIsClean
  <1>5. CASE UndoStep
    <2>1. ethAt = "undo" /\ ~activated /\ HeldTail # {} /\ UNCHANGED activated
      BY <1>5 DEF UndoStep
    <2>2. PICK i \in HeldTail : /\ \A j \in HeldTail : i <= j
                                /\ i = CHOOSE k \in HeldTail : \A j \in HeldTail : k <= j
      BY <2>1, TeardownFinds
    <2> DEFINE o == Teardown[i]
    <2>3. \/ have' = have \ ({o} \cup IF o = "glue" THEN {"attach"} ELSE {}) /\ ethAt' = "undo"
          \/ have' = have /\ ethAt' = "parked"
      BY <1>5, <2>1, <2>2 DEF UndoStep
    <2>4. i \in 1..Len(Teardown) /\ o \in have
      BY DEF HeldTail
    <2>5. Ordered'
      <3> HIDE DEF o
      <3>1. CASE have' = have \ ({o} \cup IF o = "glue" THEN {"attach"} ELSE {})
        BY <2>2, <2>4, <3>1, TornLast DEF Ordered, o
      <3>2. QED
        BY <2>3, <3>1 DEF Ordered
    <2>6. QED
      BY <2>1, <2>3, <2>5 DEF FallbackIsClean
  <1>6. CASE UndoOver
    <2>1. HeldTail = {} => have \subseteq {"attach", "started"}
      <3>1. Len(Teardown) = 10
        BY DEF Teardown
      <3>2. /\ Teardown[1] = "ipHandler" /\ Teardown[2] = "ethHandler" /\ Teardown[3] = "published"
            /\ Teardown[4] = "glue" /\ Teardown[5] = "driver" /\ Teardown[6] = "mac"
            /\ Teardown[7] = "phy" /\ Teardown[8] = "netif" /\ Teardown[9] = "events"
            /\ Teardown[10] = "spi"
        BY DEF Teardown
      <3>3. HeldTail = {} => \A i \in 1..10 : Teardown[i] \notin have
        BY <3>1 DEF HeldTail
      <3>4. QED
        BY <3>2, <3>3, ObjectsAre DEF Ordered
    <2>2. HeldTail = {} /\ ~activated => have = {}
      BY <2>1, ObjectsAre DEF Ordered
    <2>3. ethAt' = "parked" \/ (ethAt' = "wifi" /\ ~activated /\ HeldTail = {})
      BY <1>6 DEF UndoOver
    <2>4. QED
      BY <1>6, <2>2, <2>3 DEF UndoOver, Ordered, FallbackIsClean
  <1>7. CASE LeaseWait
    BY <1>7 DEF LeaseWait, Ordered, FallbackIsClean
  <1>8. CASE UNCHANGED ethVars
    BY <1>8 DEF ethVars, Ordered, FallbackIsClean
  <1>9. QED
    BY <1>1, <1>2, <1>3, <1>4, <1>5, <1>6, <1>7, <1>8 DEF EthNext

\* Whichever step of net_start_eth() fails, nothing a callback may touch is
\* freed and Wi-Fi starts over released pins or beside a running driver
\* (eth_cleanup_startup).
THEOREM FailedStartIsSafe == EthSpec => []UnwindIsSafe
  <1>1. EthInit => EthInv
    BY DEF EthInit, EthInv, Ordered, FallbackIsClean
  <1>2. EthInv /\ [EthNext]_ethVars => EthInv'
    BY EthStep
  <1>3. EthInv => UnwindIsSafe
    BY DEF EthInv, Ordered, UnwindIsSafe, NothingFreedInUse
  <1>4. QED
    BY <1>1, <1>2, <1>3, PTL DEF EthSpec

-----------------------------------------------------------------------------
(***************************************************************************)
(* The links of the device: the published route has a lease behind it, and *)
(* the watchdog decides on a reset only after a gateway that had answered  *)
(* fell silent, in the generation of its last look.                        *)
(***************************************************************************)

\* Which drivers have an address, and the places of the inbox that say so or
\* deny it truly of a transport.
Has == [t \in Transports |-> IF t = "Wifi" THEN station = "up" ELSE cable = "up"]
Tells(e, t, has) == TransportOf(e) = t /\ IsUp(e) = has[t]

\* An event that the driver has overtaken has a later one behind it, so that
\* the last event of each transport tells the truth about its driver.
EventsTell ==
    /\ \A i \in 1..Len(inbox), t \in Transports :
          TransportOf(inbox[i]) = t /\ ~Tells(inbox[i], t, Has) =>
              \E j \in i + 1..Len(inbox) : Tells(inbox[j], t, Has)
    /\ \A t \in Transports :
          handler.at = "lease" /\ TransportOf(handler.event) = t /\ ~Tells(handler.event, t, Has) =>
              \E j \in 1..Len(inbox) : Tells(inbox[j], t, Has)
    /\ \A t \in Transports : lease[t] # Has[t] =>
          \/ \E j \in 1..Len(inbox) : Tells(inbox[j], t, Has)
          \/ handler.at = "lease" /\ Tells(handler.event, t, Has)

\* The handler holds an event exactly while it has still to publish it.
HandlerHolds == handler.at = "lease" <=> handler.event # "none"

\* An idle station is about to be retried, or has a reason not to be.
Pursued ==
    station = "idle" =>
        \/ \E j \in 1..Len(inbox) : inbox[j] = "StaDisconnected"
        \/ handler.event = "StaDisconnected"
        \/ lease["Eth"]
        \/ ~wifiProven /\ attempts >= BootRetries

\* The route is the one the leases give, at every instant.
Route == link = net_link_active(lease)

\* The radio is off until the wire was waited for, and only the portal's
\* loop keeps an access point.
BootOrder ==
    /\ mainAt = "wire" => station = "off"
    /\ mainAt # "portal" => ~portal.ap

\* The sample the watchdog works on.
Sampled ==
    /\ wd.at # "idle" => /\ wd.sample.transport \in Transports
                         /\ wd.sample.gen <= gen[wd.sample.transport]
    /\ wd.at = "address" => wd.sample.address = NoAddress
    /\ wd.at \in {"ping", "verify", "recheck", "compare"} => wd.sample.address # NoAddress

\* What the watchdog believes of the sample's generation, pings have shown.
SampleNow == gen[wd.sample.transport] = wd.sample.gen
Shown == proof[wd.sample.transport]

StreakIsBacked ==
    /\ streak.of.transport \in Transports =>
          streak.of.gen <= gen[streak.of.transport]
    /\ wd.at # "verify" /\ streak.fails = 1 /\ streak.of.transport \in Transports
       /\ streak.of.gen = gen[streak.of.transport] /\ streak.of.address # NoAddress =>
          /\ proof[streak.of.transport].of = streak.of.address
          /\ proof[streak.of.transport].fails >= 1
    /\ wd.at = "verify" /\ wd.result = "NoReply" /\ SampleNow =>
          /\ Shown.of = wd.sample.address
          /\ Shown.fails >= 1
          /\ streak.of = wd.sample /\ streak.fails = 1 => Shown.fails = 2

BaseIsBacked ==
    /\ \A t \in Transports : base[t].ever =>
          /\ base[t].of.address # NoAddress
          /\ base[t].of.gen <= gen[t]
          /\ base[t].of.gen = gen[t] => base[t].of.address \in proof[t].replied
    /\ wd.at = "verify" /\ wd.result = "Reply" /\ SampleNow =>
          wd.sample.address \in Shown.replied

Earned ==
    wd.at \in {"recheck", "compare"} /\ SampleNow =>
        /\ wd.sample.address \in Shown.replied
        /\ Shown.of = wd.sample.address
        /\ Shown.fails >= kWatchFailsToRecover

NetInv ==
    /\ EventsTell
    /\ HandlerHolds
    /\ Pursued
    /\ Route
    /\ BootOrder
    /\ Sampled
    /\ StreakIsBacked
    /\ BaseIsBacked
    /\ Earned

----------------------------------------------------------------------------
(* Operators                                                               *)

\* The resting values are well typed.
LEMMA RestTyped ==
    /\ NoIdentity \in Identities
    /\ NoProof \in ProofType
    /\ IdleWd \in WdType
    /\ NoPortal \in PortalType
  <1>1. NoIdentity \in Identities
    BY DEF NoIdentity, Identity, Identities, Addresses
  <1>2. NoProof \in ProofType
    BY DEF NoProof, ProofType, Addresses, kWatchFailsToRecover
  <1>3. IdleWd \in WdType
    BY <1>1 DEF IdleWd, WdType
  <1>4. NoPortal \in PortalType
    BY DEF NoPortal, PortalType
  <1>5. QED
    BY <1>1, <1>2, <1>3, <1>4

\* An event is of one transport, and says up or down.
LEMMA EventsAre ==
    ASSUME NEW e \in Events
    PROVE  TransportOf(e) \in Transports /\ IsUp(e) \in BOOLEAN
  BY DEF Events, TransportOf, IsUp, Transports

\* A posted event is the last of the inbox (esp_event_post()).
LEMMA Posted ==
    ASSUME NetTypeOK, NEW e \in Events, Post(e)
    PROVE  /\ inbox' \in Seq(Events) /\ Len(inbox') <= MaxInbox
           /\ Len(inbox') = Len(inbox) + 1
           /\ inbox'[Len(inbox) + 1] = e
           /\ \A i \in 1..Len(inbox) : inbox'[i] = inbox[i]
  BY NetAssumption DEF NetTypeOK, Post

\* The event task takes the first event.
LEMMA Taken ==
    ASSUME NetTypeOK, inbox # <<>>, inbox' = Tail(inbox)
    PROVE  /\ Len(inbox) >= 1 /\ Head(inbox) = inbox[1] /\ Head(inbox) \in Events
           /\ inbox' \in Seq(Events) /\ Len(inbox') = Len(inbox) - 1
           /\ \A i \in 1..Len(inbox) - 1 : inbox'[i] = inbox[i + 1]
  BY DEF NetTypeOK

\* A driver that changes says so: the events in front of the new one are
\* overtaken at worst, and it is behind all of them.
LEMMA DriverTells ==
    ASSUME NetTypeOK, EventsTell, NEW e \in Events, Post(e), UNCHANGED <<handler, lease>>,
           IsUp(e) = Has'[TransportOf(e)],
           \A t \in Transports : t # TransportOf(e) => Has'[t] = Has[t]
    PROVE  EventsTell'
  <1>1. /\ Len(inbox') = Len(inbox) + 1 /\ inbox'[Len(inbox) + 1] = e
        /\ \A i \in 1..Len(inbox) : inbox'[i] = inbox[i]
    BY Posted
  <1>2. Len(inbox) \in Nat
    BY DEF NetTypeOK
  <1>3. ASSUME NEW t \in Transports, NEW i \in 0..Len(inbox),
               t # TransportOf(e) => \E j \in i + 1..Len(inbox) : Tells(inbox[j], t, Has)
        PROVE  \E j \in i + 1..Len(inbox') : Tells(inbox'[j], t, Has')
    <2>1. CASE t = TransportOf(e)
      BY <1>1, <1>2, <2>1 DEF Tells
    <2>2. CASE t # TransportOf(e)
      BY <1>1, <1>2, <1>3, <2>2 DEF Tells
    <2>3. QED
      BY <2>1, <2>2
  <1>4. ASSUME NEW i \in 1..Len(inbox'), NEW t \in Transports,
               TransportOf(inbox'[i]) = t, ~Tells(inbox'[i], t, Has')
        PROVE  \E j \in i + 1..Len(inbox') : Tells(inbox'[j], t, Has')
    <2>1. i # Len(inbox) + 1
      BY <1>1, <1>4 DEF Tells
    <2>2. i \in 1..Len(inbox) /\ i \in 0..Len(inbox) /\ inbox'[i] = inbox[i]
      BY <1>1, <1>2, <2>1
    <2>3. t # TransportOf(e) => \E j \in i + 1..Len(inbox) : Tells(inbox[j], t, Has)
      BY <1>4, <2>2 DEF EventsTell, Tells
    <2>4. QED
      BY <1>3, <2>2, <2>3
  <1>5. 0 \in 0..Len(inbox) /\ 0 + 1 = 1
    BY <1>2
  <1>6. ASSUME NEW t \in Transports, handler.at = "lease", TransportOf(handler.event) = t,
               ~Tells(handler.event, t, Has')
        PROVE  \E j \in 1..Len(inbox') : Tells(inbox'[j], t, Has')
    <2>1. t # TransportOf(e) => \E j \in 1..Len(inbox) : Tells(inbox[j], t, Has)
      BY <1>6 DEF EventsTell, Tells
    <2>2. QED
      BY <1>3, <1>5, <2>1
  <1>7. ASSUME NEW t \in Transports, lease[t] # Has'[t]
        PROVE  \/ \E j \in 1..Len(inbox') : Tells(inbox'[j], t, Has')
               \/ handler.at = "lease" /\ Tells(handler.event, t, Has')
    <2>1. CASE t # TransportOf(e) /\ handler.at = "lease" /\ Tells(handler.event, t, Has)
      BY <1>7, <2>1 DEF Tells
    <2>2. CASE t # TransportOf(e) => \E j \in 1..Len(inbox) : Tells(inbox[j], t, Has)
      BY <1>3, <1>5, <2>2
    <2>3. QED
      BY <1>7, <2>1, <2>2 DEF EventsTell
  <1>8. QED
    BY <1>4, <1>6, <1>7 DEF EventsTell

\* What neither moves a driver nor handles an event.
LEMMA StillTells ==
    ASSUME EventsTell, UNCHANGED <<inbox, handler, lease>>, Has' = Has
    PROVE  EventsTell'
  BY DEF EventsTell

\* The first event goes from the inbox to the handler.
LEMMA TakenTells ==
    ASSUME NetTypeOK, EventsTell, handler.at = "idle", inbox # <<>>, inbox' = Tail(inbox),
           handler' = [event |-> Head(inbox), at |-> "lease"], lease' = lease, Has' = Has
    PROVE  EventsTell'
  <1>1. /\ Len(inbox) >= 1 /\ Len(inbox') = Len(inbox) - 1 /\ Len(inbox) \in Nat
        /\ \A i \in 1..Len(inbox) - 1 : inbox'[i] = inbox[i + 1]
        /\ handler'.event = inbox[1] /\ handler'.at = "lease"
    BY Taken DEF NetTypeOK
  <1>2. ASSUME NEW t \in Transports, NEW i \in 0..Len(inbox'),
               \E j \in i + 2..Len(inbox) : Tells(inbox[j], t, Has)
        PROVE  \E j \in i + 1..Len(inbox') : Tells(inbox'[j], t, Has)
    <2>1. PICK j \in i + 2..Len(inbox) : Tells(inbox[j], t, Has)
      BY <1>2
    <2>2. j - 1 \in i + 1..Len(inbox') /\ j - 1 \in 1..Len(inbox) - 1 /\ (j - 1) + 1 = j
      BY <1>1
    <2>3. inbox'[j - 1] = inbox[j]
      BY <1>1, <2>2
    <2>4. QED
      BY <2>1, <2>2, <2>3
  <1>3. ASSUME NEW i \in 1..Len(inbox'), NEW t \in Transports,
               TransportOf(inbox'[i]) = t, ~Tells(inbox'[i], t, Has)
        PROVE  \E j \in i + 1..Len(inbox') : Tells(inbox'[j], t, Has)
    <2>1. i + 1 \in 1..Len(inbox) /\ i \in 0..Len(inbox') /\ inbox'[i] = inbox[i + 1]
          /\ (i + 1) + 1 = i + 2
      BY <1>1
    <2>2. \E j \in (i + 1) + 1..Len(inbox) : Tells(inbox[j], t, Has)
      BY <1>3, <2>1 DEF EventsTell
    <2>3. QED
      BY <1>2, <2>1, <2>2
  <1>4. 0 \in 0..Len(inbox') /\ 1 \in 1..Len(inbox) /\ 0 + 2 = 2 /\ 1 + 1 = 2 /\ 0 + 1 = 1
    BY <1>1
  <1>5. ASSUME NEW t \in Transports, TransportOf(inbox[1]) = t, ~Tells(inbox[1], t, Has)
        PROVE  \E j \in 1..Len(inbox') : Tells(inbox'[j], t, Has)
    <2>1. \E j \in 2..Len(inbox) : Tells(inbox[j], t, Has)
      BY <1>4, <1>5 DEF EventsTell
    <2>2. QED
      BY <1>2, <1>4, <2>1
  <1>6. ASSUME NEW t \in Transports, lease[t] # Has[t]
        PROVE  \/ \E j \in 1..Len(inbox') : Tells(inbox'[j], t, Has)
               \/ Tells(inbox[1], t, Has)
    <2>1. PICK j \in 1..Len(inbox) : Tells(inbox[j], t, Has)
      BY <1>6 DEF EventsTell
    <2>2. CASE j = 1
      BY <2>1, <2>2
    <2>3. CASE j # 1
      <3>1. j \in 2..Len(inbox)
        BY <1>1, <2>3
      <3>2. QED
        BY <1>2, <1>4, <2>1, <3>1
    <2>4. QED
      BY <2>2, <2>3
  <1>7. QED
    BY <1>1, <1>3, <1>5, <1>6 DEF EventsTell

\* A published event leaves a lease that is true, or an event that will
\* make it so.
LEMMA PublishTells ==
    ASSUME NetTypeOK, EventsTell, handler.at = "lease", handler.event \in Events,
           lease' = [lease EXCEPT ![TransportOf(handler.event)] = IsUp(handler.event)],
           handler' = [event |-> "none", at |-> "idle"], inbox' = inbox, Has' = Has
    PROVE  EventsTell'
  <1>1. handler'.at = "idle"
    OBVIOUS
  <1>2. ASSUME NEW t \in Transports, lease'[t] # Has[t]
        PROVE  \E j \in 1..Len(inbox) : Tells(inbox[j], t, Has)
    <2>1. CASE t = TransportOf(handler.event)
      <3>1. lease'[t] = IsUp(handler.event)
        BY <2>1 DEF NetTypeOK
      <3>2. ~Tells(handler.event, t, Has)
        BY <1>2, <3>1 DEF Tells
      <3>3. QED
        BY <2>1, <3>2 DEF EventsTell
    <2>2. CASE t # TransportOf(handler.event)
      <3>1. lease'[t] = lease[t]
        BY <2>2 DEF NetTypeOK
      <3>2. QED
        BY <1>2, <2>2, <3>1 DEF EventsTell, Tells
    <2>3. QED
      BY <2>1, <2>2
  <1>3. QED
    BY <1>1, <1>2 DEF EventsTell

\* What the watchdog knows of a generation is forgotten, never confused, when
\* the generation of a transport moves on.
LEMMA MemoryAdvances ==
    ASSUME NetTypeOK, Sampled, StreakIsBacked, BaseIsBacked, Earned,
           UNCHANGED <<wd, streak, base>>,
           \A u \in Transports : \/ gen'[u] = gen[u] /\ proof'[u] = proof[u]
                                \/ gen'[u] = gen[u] + 1
    PROVE  StreakIsBacked' /\ BaseIsBacked' /\ Earned'
  <1>1. \A u \in Transports : gen[u] \in Nat
    BY DEF NetTypeOK
  <1>2. \A u \in Transports, k \in Nat : k <= gen[u] =>
            /\ k <= gen'[u]
            /\ k = gen'[u] => gen'[u] = gen[u] /\ proof'[u] = proof[u]
    BY <1>1
  <1>3. /\ wd.at # "idle" => wd.sample.transport \in Transports
        /\ wd.sample.gen \in Nat /\ streak.of.gen \in Nat
        /\ \A t \in Transports : base[t].of.gen \in Nat
    BY DEF NetTypeOK, Sampled, WdType, Identities
  <1>4. ASSUME wd.at # "idle", SampleNow'
        PROVE  SampleNow /\ Shown' = Shown
    BY <1>2, <1>3, <1>4 DEF SampleNow, Shown, Sampled
  <1>5. StreakIsBacked'
    <2>1. streak.of.transport \in Transports => streak.of.gen <= gen'[streak.of.transport]
      BY <1>2, <1>3 DEF StreakIsBacked
    <2>2. streak.of.transport \in Transports /\ streak.of.gen = gen'[streak.of.transport] =>
            /\ streak.of.gen = gen[streak.of.transport]
            /\ proof'[streak.of.transport] = proof[streak.of.transport]
      BY <1>2, <1>3 DEF StreakIsBacked
    <2>3. QED
      BY <1>4, <2>1, <2>2 DEF StreakIsBacked
  <1>6. BaseIsBacked'
    <2>1. ASSUME NEW t \in Transports, base[t].ever
          PROVE  /\ base[t].of.gen <= gen'[t]
                 /\ base[t].of.gen = gen'[t] =>
                       base[t].of.gen = gen[t] /\ proof'[t] = proof[t]
      BY <1>2, <1>3, <2>1 DEF BaseIsBacked
    <2>2. QED
      BY <1>4, <2>1 DEF BaseIsBacked
  <1>7. Earned'
    BY <1>4 DEF Earned
  <1>8. QED
    BY <1>5, <1>6, <1>7

\* StationJoins keeps NetInv.
LEMMA StationJoinsKeeps ==
    ASSUME NetTypeOK, NetInv, StationJoins
    PROVE  NetTypeOK' /\ NetInv'
  <1> USE DEF NetInv, NetTypeOK, StationJoins, links, watchdog, budgets
  <1>1. NetTypeOK'
    <2>1. station' \in {"off", "idle", "connecting", "up"}
      BY NetAssumption, RestTyped DEF Transports
    <2>2. gw' \in [Transports -> Addresses]
      BY NetAssumption, RestTyped DEF Transports, Addresses
    <2>3. inbox' \in Seq(Events) /\ Len(inbox') <= MaxInbox
      <3>1. Post("StaGotIp") /\ "StaGotIp" \in Events
        BY DEF Events
      <3>2. QED
        BY <3>1, Posted
    <2>4. QED
      BY <2>1, <2>2, <2>3
  <1>2. EventsTell'
    <2>1. Post("StaGotIp") /\ "StaGotIp" \in Events
      BY DEF Events
    <2>2. TransportOf("StaGotIp") = "Wifi" /\ IsUp("StaGotIp") = Has'["Wifi"]
      BY DEF Has, Transports, TransportOf, IsUp
    <2>3. \A t \in Transports : t # "Wifi" => Has'[t] = Has[t]
      BY DEF Has, Transports
    <2>4. QED
      BY <2>1, <2>2, <2>3, DriverTells
  <1>3. HandlerHolds'
    BY NetAssumption DEF HandlerHolds, Transports
  <1>4. Pursued'
    <2>1. Post("StaGotIp") /\ "StaGotIp" \in Events
      BY DEF Events
    <2>2. Len(inbox) \in Nat
      OBVIOUS
    <2>3. /\ \A j \in 1..Len(inbox) : j \in 1..Len(inbox') /\ inbox'[j] = inbox[j]
          /\ Len(inbox) + 1 \in 1..Len(inbox') /\ inbox'[Len(inbox) + 1] = "StaGotIp"
      BY <2>1, <2>2, Posted
    <2>4. QED
      BY <2>3 DEF Pursued
  <1>5. Route'
    BY NetAssumption DEF Route, Transports
  <1>6. BootOrder'
    BY NetAssumption DEF BootOrder, Transports
  <1>7. Sampled'
    BY NetAssumption DEF Sampled, Transports, WdType, Identities
  <1>8. StreakIsBacked'
    BY NetAssumption DEF StreakIsBacked, SampleNow, Shown, Transports, WdType, Identities,
       ProofType, kWatchFailsToRecover
  <1>9. BaseIsBacked'
    BY NetAssumption DEF BaseIsBacked, SampleNow, Shown, Transports, WdType, Identities,
       ProofType, kWatchFailsToRecover
  <1>10. Earned'
    BY NetAssumption DEF Earned, SampleNow, Shown, Transports, WdType, Identities, ProofType,
       kWatchFailsToRecover
  <1>11. QED
    BY <1>1, <1>2, <1>3, <1>4, <1>5, <1>6, <1>7, <1>8, <1>9, <1>10

\* StationDrops keeps NetInv.
LEMMA StationDropsKeeps ==
    ASSUME NetTypeOK, NetInv, StationDrops
    PROVE  NetTypeOK' /\ NetInv'
  <1> USE DEF NetInv, NetTypeOK, StationDrops, Trouble, links, watchdog
  <1>1. NetTypeOK'
    <2>1. station' \in {"off", "idle", "connecting", "up"}
      BY NetAssumption, RestTyped DEF Transports
    <2>2. gw' \in [Transports -> Addresses]
      BY NetAssumption, RestTyped DEF Transports, Addresses
    <2>3. inbox' \in Seq(Events) /\ Len(inbox') <= MaxInbox
      <3>1. Post("StaDisconnected") /\ "StaDisconnected" \in Events
        BY DEF Events
      <3>2. QED
        BY <3>1, Posted
    <2>4. trouble' \in 0..MaxTrouble
      BY NetAssumption, RestTyped DEF Transports
    <2>5. silent' \in 0..MaxSilent
      BY NetAssumption, RestTyped DEF Transports
    <2>6. QED
      BY <2>1, <2>2, <2>3, <2>4, <2>5
  <1>2. EventsTell'
    <2>1. Post("StaDisconnected") /\ "StaDisconnected" \in Events
      BY DEF Events
    <2>2. TransportOf("StaDisconnected") = "Wifi" /\ IsUp("StaDisconnected") = Has'["Wifi"]
      BY DEF Has, Transports, TransportOf, IsUp
    <2>3. \A t \in Transports : t # "Wifi" => Has'[t] = Has[t]
      BY DEF Has, Transports
    <2>4. QED
      BY <2>1, <2>2, <2>3, DriverTells
  <1>3. HandlerHolds'
    BY NetAssumption DEF HandlerHolds, Transports
  <1>4. Pursued'
    <2>1. Post("StaDisconnected") /\ "StaDisconnected" \in Events
      BY DEF Events
    <2>2. Len(inbox) \in Nat
      OBVIOUS
    <2>3. /\ \A j \in 1..Len(inbox) : j \in 1..Len(inbox') /\ inbox'[j] = inbox[j]
          /\ Len(inbox) + 1 \in 1..Len(inbox') /\ inbox'[Len(inbox) + 1] = "StaDisconnected"
      BY <2>1, <2>2, Posted
    <2>4. QED
      BY <2>3 DEF Pursued
  <1>5. Route'
    BY NetAssumption DEF Route, Transports
  <1>6. BootOrder'
    BY NetAssumption DEF BootOrder, Transports
  <1>7. Sampled'
    BY NetAssumption DEF Sampled, Transports, WdType, Identities
  <1>8. StreakIsBacked'
    BY NetAssumption DEF StreakIsBacked, SampleNow, Shown, Transports, WdType, Identities,
       ProofType, kWatchFailsToRecover
  <1>9. BaseIsBacked'
    BY NetAssumption DEF BaseIsBacked, SampleNow, Shown, Transports, WdType, Identities,
       ProofType, kWatchFailsToRecover
  <1>10. Earned'
    BY NetAssumption DEF Earned, SampleNow, Shown, Transports, WdType, Identities, ProofType,
       kWatchFailsToRecover
  <1>11. QED
    BY <1>1, <1>2, <1>3, <1>4, <1>5, <1>6, <1>7, <1>8, <1>9, <1>10

\* GatewayMoves keeps NetInv.
LEMMA GatewayMovesKeeps ==
    ASSUME NetTypeOK, NetInv, GatewayMoves
    PROVE  NetTypeOK' /\ NetInv'
  <1> USE DEF NetInv, NetTypeOK, GatewayMoves, Trouble, links, watchdog
  <1>1. NetTypeOK'
    <2>1. gw' \in [Transports -> Addresses]
      BY NetAssumption, RestTyped DEF Transports, Addresses
    <2>2. inbox' \in Seq(Events) /\ Len(inbox') <= MaxInbox
      <3>1. Post("StaGotIp") /\ "StaGotIp" \in Events
        BY DEF Events
      <3>2. QED
        BY <3>1, Posted
    <2>3. trouble' \in 0..MaxTrouble
      BY NetAssumption, RestTyped DEF Transports
    <2>4. silent' \in 0..MaxSilent
      BY NetAssumption, RestTyped DEF Transports
    <2>5. QED
      BY <2>1, <2>2, <2>3, <2>4
  <1>2. EventsTell'
    <2>1. Post("StaGotIp") /\ "StaGotIp" \in Events
      BY DEF Events
    <2>2. TransportOf("StaGotIp") = "Wifi" /\ IsUp("StaGotIp") = Has'["Wifi"]
      BY DEF Has, Transports, TransportOf, IsUp
    <2>3. \A t \in Transports : t # "Wifi" => Has'[t] = Has[t]
      BY DEF Has, Transports
    <2>4. QED
      BY <2>1, <2>2, <2>3, DriverTells
  <1>3. HandlerHolds'
    BY NetAssumption DEF HandlerHolds, Transports
  <1>4. Pursued'
    <2>1. Post("StaGotIp") /\ "StaGotIp" \in Events
      BY DEF Events
    <2>2. Len(inbox) \in Nat
      OBVIOUS
    <2>3. /\ \A j \in 1..Len(inbox) : j \in 1..Len(inbox') /\ inbox'[j] = inbox[j]
          /\ Len(inbox) + 1 \in 1..Len(inbox') /\ inbox'[Len(inbox) + 1] = "StaGotIp"
      BY <2>1, <2>2, Posted
    <2>4. QED
      BY <2>3 DEF Pursued
  <1>5. Route'
    BY NetAssumption DEF Route, Transports
  <1>6. BootOrder'
    BY NetAssumption DEF BootOrder, Transports
  <1>7. Sampled'
    BY NetAssumption DEF Sampled, Transports, WdType, Identities
  <1>8. StreakIsBacked'
    BY NetAssumption DEF StreakIsBacked, SampleNow, Shown, Transports, WdType, Identities,
       ProofType, kWatchFailsToRecover
  <1>9. BaseIsBacked'
    BY NetAssumption DEF BaseIsBacked, SampleNow, Shown, Transports, WdType, Identities,
       ProofType, kWatchFailsToRecover
  <1>10. Earned'
    BY NetAssumption DEF Earned, SampleNow, Shown, Transports, WdType, Identities, ProofType,
       kWatchFailsToRecover
  <1>11. QED
    BY <1>1, <1>2, <1>3, <1>4, <1>5, <1>6, <1>7, <1>8, <1>9, <1>10

\* CableIn keeps NetInv.
LEMMA CableInKeeps ==
    ASSUME NetTypeOK, NetInv, CableIn
    PROVE  NetTypeOK' /\ NetInv'
  <1> USE DEF NetInv, NetTypeOK, CableIn, Trouble, links, watchdog
  <1>1. NetTypeOK'
    <2>1. cable' \in {"down", "link", "up", "stopped"}
      BY NetAssumption, RestTyped DEF Transports
    <2>2. trouble' \in 0..MaxTrouble
      BY NetAssumption, RestTyped DEF Transports
    <2>3. silent' \in 0..MaxSilent
      BY NetAssumption, RestTyped DEF Transports
    <2>4. QED
      BY <2>1, <2>2, <2>3
  <1>2. EventsTell'
    <2>1. Has' = Has
      BY DEF Has
    <2>2. QED
      BY <2>1, StillTells
  <1>3. HandlerHolds'
    BY NetAssumption DEF HandlerHolds, Transports
  <1>4. Pursued'
    BY NetAssumption DEF Pursued, Transports
  <1>5. Route'
    BY NetAssumption DEF Route, Transports
  <1>6. BootOrder'
    BY NetAssumption DEF BootOrder, Transports
  <1>7. Sampled'
    BY NetAssumption DEF Sampled, Transports, WdType, Identities
  <1>8. StreakIsBacked'
    BY NetAssumption DEF StreakIsBacked, SampleNow, Shown, Transports, WdType, Identities,
       ProofType, kWatchFailsToRecover
  <1>9. BaseIsBacked'
    BY NetAssumption DEF BaseIsBacked, SampleNow, Shown, Transports, WdType, Identities,
       ProofType, kWatchFailsToRecover
  <1>10. Earned'
    BY NetAssumption DEF Earned, SampleNow, Shown, Transports, WdType, Identities, ProofType,
       kWatchFailsToRecover
  <1>11. QED
    BY <1>1, <1>2, <1>3, <1>4, <1>5, <1>6, <1>7, <1>8, <1>9, <1>10

\* CableLeases keeps NetInv.
LEMMA CableLeasesKeeps ==
    ASSUME NetTypeOK, NetInv, CableLeases
    PROVE  NetTypeOK' /\ NetInv'
  <1> USE DEF NetInv, NetTypeOK, CableLeases, links, watchdog, budgets
  <1>1. NetTypeOK'
    <2>1. cable' \in {"down", "link", "up", "stopped"}
      BY NetAssumption, RestTyped DEF Transports
    <2>2. gw' \in [Transports -> Addresses]
      BY NetAssumption, RestTyped DEF Transports, Addresses
    <2>3. inbox' \in Seq(Events) /\ Len(inbox') <= MaxInbox
      <3>1. Post("EthGotIp") /\ "EthGotIp" \in Events
        BY DEF Events
      <3>2. QED
        BY <3>1, Posted
    <2>4. QED
      BY <2>1, <2>2, <2>3
  <1>2. EventsTell'
    <2>1. Post("EthGotIp") /\ "EthGotIp" \in Events
      BY DEF Events
    <2>2. TransportOf("EthGotIp") = "Eth" /\ IsUp("EthGotIp") = Has'["Eth"]
      BY DEF Has, Transports, TransportOf, IsUp
    <2>3. \A t \in Transports : t # "Eth" => Has'[t] = Has[t]
      BY DEF Has, Transports
    <2>4. QED
      BY <2>1, <2>2, <2>3, DriverTells
  <1>3. HandlerHolds'
    BY NetAssumption DEF HandlerHolds, Transports
  <1>4. Pursued'
    <2>1. Post("EthGotIp") /\ "EthGotIp" \in Events
      BY DEF Events
    <2>2. Len(inbox) \in Nat
      OBVIOUS
    <2>3. /\ \A j \in 1..Len(inbox) : j \in 1..Len(inbox') /\ inbox'[j] = inbox[j]
          /\ Len(inbox) + 1 \in 1..Len(inbox') /\ inbox'[Len(inbox) + 1] = "EthGotIp"
      BY <2>1, <2>2, Posted
    <2>4. QED
      BY <2>3 DEF Pursued
  <1>5. Route'
    BY NetAssumption DEF Route, Transports
  <1>6. BootOrder'
    BY NetAssumption DEF BootOrder, Transports
  <1>7. Sampled'
    BY NetAssumption DEF Sampled, Transports, WdType, Identities
  <1>8. StreakIsBacked'
    BY NetAssumption DEF StreakIsBacked, SampleNow, Shown, Transports, WdType, Identities,
       ProofType, kWatchFailsToRecover
  <1>9. BaseIsBacked'
    BY NetAssumption DEF BaseIsBacked, SampleNow, Shown, Transports, WdType, Identities,
       ProofType, kWatchFailsToRecover
  <1>10. Earned'
    BY NetAssumption DEF Earned, SampleNow, Shown, Transports, WdType, Identities, ProofType,
       kWatchFailsToRecover
  <1>11. QED
    BY <1>1, <1>2, <1>3, <1>4, <1>5, <1>6, <1>7, <1>8, <1>9, <1>10

\* CableOut keeps NetInv.
LEMMA CableOutKeeps ==
    ASSUME NetTypeOK, NetInv, CableOut
    PROVE  NetTypeOK' /\ NetInv'
  <1> USE DEF NetInv, NetTypeOK, CableOut, Trouble, links, watchdog
  <1>1. NetTypeOK'
    <2>1. cable' \in {"down", "link", "up", "stopped"}
      BY NetAssumption, RestTyped DEF Transports
    <2>2. gw' \in [Transports -> Addresses]
      BY NetAssumption, RestTyped DEF Transports, Addresses
    <2>3. inbox' \in Seq(Events) /\ Len(inbox') <= MaxInbox
      <3>1. Post("EthDisconnected") /\ "EthDisconnected" \in Events
        BY DEF Events
      <3>2. QED
        BY <3>1, Posted
    <2>4. trouble' \in 0..MaxTrouble
      BY NetAssumption, RestTyped DEF Transports
    <2>5. silent' \in 0..MaxSilent
      BY NetAssumption, RestTyped DEF Transports
    <2>6. QED
      BY <2>1, <2>2, <2>3, <2>4, <2>5
  <1>2. EventsTell'
    <2>1. Post("EthDisconnected") /\ "EthDisconnected" \in Events
      BY DEF Events
    <2>2. TransportOf("EthDisconnected") = "Eth" /\ IsUp("EthDisconnected") = Has'["Eth"]
      BY DEF Has, Transports, TransportOf, IsUp
    <2>3. \A t \in Transports : t # "Eth" => Has'[t] = Has[t]
      BY DEF Has, Transports
    <2>4. QED
      BY <2>1, <2>2, <2>3, DriverTells
  <1>3. HandlerHolds'
    BY NetAssumption DEF HandlerHolds, Transports
  <1>4. Pursued'
    <2>1. Post("EthDisconnected") /\ "EthDisconnected" \in Events
      BY DEF Events
    <2>2. Len(inbox) \in Nat
      OBVIOUS
    <2>3. /\ \A j \in 1..Len(inbox) : j \in 1..Len(inbox') /\ inbox'[j] = inbox[j]
          /\ Len(inbox) + 1 \in 1..Len(inbox') /\ inbox'[Len(inbox) + 1] = "EthDisconnected"
      BY <2>1, <2>2, Posted
    <2>4. QED
      BY <2>3 DEF Pursued
  <1>5. Route'
    BY NetAssumption DEF Route, Transports
  <1>6. BootOrder'
    BY NetAssumption DEF BootOrder, Transports
  <1>7. Sampled'
    BY NetAssumption DEF Sampled, Transports, WdType, Identities
  <1>8. StreakIsBacked'
    BY NetAssumption DEF StreakIsBacked, SampleNow, Shown, Transports, WdType, Identities,
       ProofType, kWatchFailsToRecover
  <1>9. BaseIsBacked'
    BY NetAssumption DEF BaseIsBacked, SampleNow, Shown, Transports, WdType, Identities,
       ProofType, kWatchFailsToRecover
  <1>10. Earned'
    BY NetAssumption DEF Earned, SampleNow, Shown, Transports, WdType, Identities, ProofType,
       kWatchFailsToRecover
  <1>11. QED
    BY <1>1, <1>2, <1>3, <1>4, <1>5, <1>6, <1>7, <1>8, <1>9, <1>10

\* AdvanceGeneration keeps NetInv.
LEMMA AdvanceGenerationKeeps ==
    ASSUME NetTypeOK, NetInv, AdvanceGeneration
    PROVE  NetTypeOK' /\ NetInv'
  <1> USE DEF NetInv, NetTypeOK, AdvanceGeneration, budgets, NoProof, TransportOf
  <1>1. NetTypeOK'
    <2>1. inbox' \in Seq(Events) /\ Len(inbox') <= MaxInbox
      <3>1. Len(inbox) \in Nat
        OBVIOUS
      <3>2. QED
        BY <3>1, Taken, NetAssumption
    <2>2. handler' \in [event : Events \cup {"none"}, at : {"idle", "lease"}]
      BY Taken
    <2>3. gen' \in [Transports -> Nat]
      <3>1. \A u \in Transports : gen[u] \in Nat /\ gen[u] + 1 \in Nat
        OBVIOUS
      <3>2. QED
        BY <3>1
    <2>4. proof' \in [Transports -> ProofType]
      BY NetAssumption, RestTyped DEF ProofType
    <2>5. QED
      BY <2>1, <2>2, <2>3, <2>4
  <1>2. EventsTell'
    <2>1. Has' = Has
      BY DEF Has
    <2>2. QED
      BY <2>1, TakenTells
  <1>3. HandlerHolds'
    BY Taken DEF HandlerHolds, Events
  <1>4. Pursued'
    <2> SUFFICES ASSUME station = "idle", ~lease["Eth"], ~(~wifiProven /\ attempts >= BootRetries)
                 PROVE  \/ \E j \in 1..Len(inbox') : inbox'[j] = "StaDisconnected"
                        \/ handler'.event = "StaDisconnected"
      BY DEF Pursued
    <2>1. handler.event # "StaDisconnected"
      BY DEF HandlerHolds
    <2>2. PICK j \in 1..Len(inbox) : inbox[j] = "StaDisconnected"
      BY <2>1 DEF Pursued
    <2>3. handler'.event = inbox[1] /\ Len(inbox') = Len(inbox) - 1 /\ Len(inbox) \in Nat
          /\ \A i \in 1..Len(inbox) - 1 : inbox'[i] = inbox[i + 1]
      BY Taken
    <2>4. CASE j = 1
      BY <2>2, <2>3, <2>4
    <2>5. CASE j # 1
      <3>1. j - 1 \in 1..Len(inbox') /\ j - 1 \in 1..Len(inbox) - 1 /\ (j - 1) + 1 = j
        BY <2>3, <2>5
      <3>2. inbox'[j - 1] = "StaDisconnected"
        BY <2>2, <2>3, <3>1
      <3>3. QED
        BY <3>1, <3>2
    <2>6. QED
      BY <2>4, <2>5
  <1>5. Route'
    BY NetAssumption DEF Route, Transports
  <1>6. BootOrder'
    BY NetAssumption DEF BootOrder, Transports
  <1>7. Sampled'
    <2>1. \A u \in Transports : gen[u] \in Nat /\ gen'[u] \in {gen[u], gen[u] + 1}
      BY DEF Transports
    <2>2. wd.sample.gen \in Nat
      BY DEF WdType, Identities
    <2>3. \A u \in Transports : wd.sample.gen <= gen[u] => wd.sample.gen <= gen'[u]
      BY <2>1, <2>2
    <2>4. QED
      BY <2>3 DEF Sampled
  <1>8. StreakIsBacked'
    <2>1. TransportOf(Head(inbox)) \in Transports /\ \A u \in Transports : gen[u] \in Nat
      BY DEF TransportOf, Transports
    <2>2. \A u \in Transports : \/ gen'[u] = gen[u] /\ proof'[u] = proof[u]
                                \/ gen'[u] = gen[u] + 1
      BY <2>1
    <2>3. QED
      BY <2>2, MemoryAdvances
  <1>9. BaseIsBacked'
    <2>1. TransportOf(Head(inbox)) \in Transports /\ \A u \in Transports : gen[u] \in Nat
      BY DEF TransportOf, Transports
    <2>2. \A u \in Transports : \/ gen'[u] = gen[u] /\ proof'[u] = proof[u]
                                \/ gen'[u] = gen[u] + 1
      BY <2>1
    <2>3. QED
      BY <2>2, MemoryAdvances
  <1>10. Earned'
    <2>1. TransportOf(Head(inbox)) \in Transports /\ \A u \in Transports : gen[u] \in Nat
      BY DEF TransportOf, Transports
    <2>2. \A u \in Transports : \/ gen'[u] = gen[u] /\ proof'[u] = proof[u]
                                \/ gen'[u] = gen[u] + 1
      BY <2>1
    <2>3. QED
      BY <2>2, MemoryAdvances
  <1>11. QED
    BY <1>1, <1>2, <1>3, <1>4, <1>5, <1>6, <1>7, <1>8, <1>9, <1>10

\* Publish keeps NetInv.
LEMMA PublishKeeps ==
    ASSUME NetTypeOK, NetInv, Publish
    PROVE  NetTypeOK' /\ NetInv'
  <1> USE DEF NetInv, NetTypeOK, Publish, Connect, RetryAfterWifi, watchdog, budgets,
      net_link_active, TransportOf, IsUp
  <1>1. NetTypeOK'
    <2>1. station' \in {"off", "idle", "connecting", "up"}
      BY NetAssumption, RestTyped DEF Transports
    <2>2. handler' \in [event : Events \cup {"none"}, at : {"idle", "lease"}]
      BY NetAssumption, RestTyped DEF Events
    <2>3. lease' \in [Transports -> BOOLEAN]
      BY NetAssumption, RestTyped DEF Transports, Events
    <2>4. link' \in Transports \cup {"None"}
      BY NetAssumption, RestTyped DEF Transports
    <2>5. wifiProven' \in BOOLEAN
      BY NetAssumption, RestTyped DEF Transports
    <2>6. wireBit' \in BOOLEAN
      BY NetAssumption, RestTyped DEF Transports
    <2>7. attempts' \in 0..BootRetries
      BY NetAssumption, RestTyped DEF Transports
    <2>8. QED
      BY <2>1, <2>2, <2>3, <2>4, <2>5, <2>6, <2>7
  <1>2. EventsTell'
    <2>1. Has' = Has
      BY DEF Has
    <2>2. handler.event \in Events
      BY DEF HandlerHolds
    <2>3. QED
      BY <2>1, <2>2, PublishTells
  <1>3. HandlerHolds'
    BY NetAssumption DEF HandlerHolds, Transports
  <1>4. Pursued'
    <2>1. handler.event \in Events
      BY DEF HandlerHolds
    <2>2. ASSUME station = "idle", NEW e \in Events, IsUp(e), TransportOf(e) = "Wifi",
                 \/ handler.event = e
                 \/ lease["Wifi"] /\ TransportOf(handler.event) = "Eth"
          PROVE  \E j \in 1..Len(inbox) : inbox[j] = "StaDisconnected"
      <3>1. Has["Wifi"] = FALSE /\ "Wifi" \in Transports
        BY <2>2 DEF Has, Transports
      <3>2. \E j \in 1..Len(inbox) : Tells(inbox[j], "Wifi", Has)
        BY <2>2, <3>1 DEF EventsTell, Tells
      <3>3. \A j \in 1..Len(inbox) : inbox[j] \in Events
        OBVIOUS
      <3>4. QED
        BY <3>1, <3>2, <3>3 DEF Tells, Events
    <2>3. CASE handler.event = "StaGotIp"
      BY <2>1, <2>2, <2>3 DEF Pursued
    <2>4. CASE handler.event = "StaDisconnected"
      BY <2>4, NetAssumption DEF Pursued
    <2>5. CASE handler.event = "EthGotIp"
      BY <2>5 DEF Pursued, Transports
    <2>6. CASE handler.event = "EthDisconnected"
      <3>1. CASE lease["Wifi"] /\ station = "idle"
        BY <2>2, <2>6, <3>1 DEF Pursued, Events
      <3>2. CASE ~lease["Wifi"] \/ station # "idle"
        BY <2>6, <3>2 DEF Pursued
      <3>3. QED
        BY <3>1, <3>2
    <2>7. QED
      BY <2>1, <2>3, <2>4, <2>5, <2>6 DEF Events
  <1>5. Route'
    BY NetAssumption DEF Route, Transports
  <1>6. BootOrder'
    BY NetAssumption DEF BootOrder, Transports
  <1>7. Sampled'
    BY NetAssumption DEF Sampled, Transports, WdType, Identities
  <1>8. StreakIsBacked'
    BY NetAssumption DEF StreakIsBacked, SampleNow, Shown, Transports, WdType, Identities,
       ProofType, kWatchFailsToRecover
  <1>9. BaseIsBacked'
    BY NetAssumption DEF BaseIsBacked, SampleNow, Shown, Transports, WdType, Identities,
       ProofType, kWatchFailsToRecover
  <1>10. Earned'
    BY NetAssumption DEF Earned, SampleNow, Shown, Transports, WdType, Identities, ProofType,
       kWatchFailsToRecover
  <1>11. QED
    BY <1>1, <1>2, <1>3, <1>4, <1>5, <1>6, <1>7, <1>8, <1>9, <1>10

\* WireWait keeps NetInv.
LEMMA WireWaitKeeps ==
    ASSUME NetTypeOK, NetInv, WireWait
    PROVE  NetTypeOK' /\ NetInv'
  <1> USE DEF NetInv, NetTypeOK, WireWait, links, watchdog, budgets
  <1>1. NetTypeOK'
    <2>1. station' \in {"off", "idle", "connecting", "up"}
      BY NetAssumption, RestTyped DEF Transports
    <2>2. mainAt' \in {"wire", "window", "lastlook", "portal", "running"}
      BY NetAssumption, RestTyped DEF Transports
    <2>3. QED
      BY <2>1, <2>2
  <1>2. EventsTell'
    <2>1. Has' = Has
      BY DEF Has, BootOrder
    <2>2. QED
      BY <2>1, StillTells
  <1>3. HandlerHolds'
    BY NetAssumption DEF HandlerHolds, Transports
  <1>4. Pursued'
    BY NetAssumption DEF Pursued, Transports
  <1>5. Route'
    BY NetAssumption DEF Route, Transports
  <1>6. BootOrder'
    BY NetAssumption DEF BootOrder, Transports
  <1>7. Sampled'
    BY NetAssumption DEF Sampled, Transports, WdType, Identities
  <1>8. StreakIsBacked'
    BY NetAssumption DEF StreakIsBacked, SampleNow, Shown, Transports, WdType, Identities,
       ProofType, kWatchFailsToRecover
  <1>9. BaseIsBacked'
    BY NetAssumption DEF BaseIsBacked, SampleNow, Shown, Transports, WdType, Identities,
       ProofType, kWatchFailsToRecover
  <1>10. Earned'
    BY NetAssumption DEF Earned, SampleNow, Shown, Transports, WdType, Identities, ProofType,
       kWatchFailsToRecover
  <1>11. QED
    BY <1>1, <1>2, <1>3, <1>4, <1>5, <1>6, <1>7, <1>8, <1>9, <1>10

\* WindowEnds keeps NetInv.
LEMMA WindowEndsKeeps ==
    ASSUME NetTypeOK, NetInv, WindowEnds
    PROVE  NetTypeOK' /\ NetInv'
  <1> USE DEF NetInv, NetTypeOK, WindowEnds, drivers, links, watchdog, budgets
  <1>1. NetTypeOK'
    <2>1. mainAt' \in {"wire", "window", "lastlook", "portal", "running"}
      BY NetAssumption, RestTyped DEF Transports
    <2>2. QED
      BY <2>1
  <1>2. EventsTell'
    <2>1. Has' = Has
      BY DEF Has
    <2>2. QED
      BY <2>1, StillTells
  <1>3. HandlerHolds'
    BY NetAssumption DEF HandlerHolds, Transports
  <1>4. Pursued'
    BY NetAssumption DEF Pursued, Transports
  <1>5. Route'
    BY NetAssumption DEF Route, Transports
  <1>6. BootOrder'
    BY NetAssumption DEF BootOrder, Transports
  <1>7. Sampled'
    BY NetAssumption DEF Sampled, Transports, WdType, Identities
  <1>8. StreakIsBacked'
    BY NetAssumption DEF StreakIsBacked, SampleNow, Shown, Transports, WdType, Identities,
       ProofType, kWatchFailsToRecover
  <1>9. BaseIsBacked'
    BY NetAssumption DEF BaseIsBacked, SampleNow, Shown, Transports, WdType, Identities,
       ProofType, kWatchFailsToRecover
  <1>10. Earned'
    BY NetAssumption DEF Earned, SampleNow, Shown, Transports, WdType, Identities, ProofType,
       kWatchFailsToRecover
  <1>11. QED
    BY <1>1, <1>2, <1>3, <1>4, <1>5, <1>6, <1>7, <1>8, <1>9, <1>10

\* LastLook keeps NetInv.
LEMMA LastLookKeeps ==
    ASSUME NetTypeOK, NetInv, LastLook
    PROVE  NetTypeOK' /\ NetInv'
  <1> USE DEF NetInv, NetTypeOK, LastLook, drivers, links, watchdog, budgets, NoPortal
  <1>1. NetTypeOK'
    <2>1. mainAt' \in {"wire", "window", "lastlook", "portal", "running"}
      BY NetAssumption, RestTyped DEF Transports
    <2>2. portal' \in PortalType
      BY NetAssumption, RestTyped DEF PortalType
    <2>3. QED
      BY <2>1, <2>2
  <1>2. EventsTell'
    <2>1. Has' = Has
      BY DEF Has
    <2>2. QED
      BY <2>1, StillTells
  <1>3. HandlerHolds'
    BY NetAssumption DEF HandlerHolds, Transports
  <1>4. Pursued'
    BY NetAssumption DEF Pursued, Transports
  <1>5. Route'
    BY NetAssumption DEF Route, Transports
  <1>6. BootOrder'
    BY NetAssumption DEF BootOrder, Transports
  <1>7. Sampled'
    BY NetAssumption DEF Sampled, Transports, WdType, Identities
  <1>8. StreakIsBacked'
    BY NetAssumption DEF StreakIsBacked, SampleNow, Shown, Transports, WdType, Identities,
       ProofType, kWatchFailsToRecover
  <1>9. BaseIsBacked'
    BY NetAssumption DEF BaseIsBacked, SampleNow, Shown, Transports, WdType, Identities,
       ProofType, kWatchFailsToRecover
  <1>10. Earned'
    BY NetAssumption DEF Earned, SampleNow, Shown, Transports, WdType, Identities, ProofType,
       kWatchFailsToRecover
  <1>11. QED
    BY <1>1, <1>2, <1>3, <1>4, <1>5, <1>6, <1>7, <1>8, <1>9, <1>10

\* PortalLeave keeps NetInv.
LEMMA PortalLeaveKeeps ==
    ASSUME NetTypeOK, NetInv, PortalLeave
    PROVE  NetTypeOK' /\ NetInv'
  <1> USE DEF NetInv, NetTypeOK, PortalLeave, CloseFails, Trouble, drivers, links, watchdog,
      budgets, NoPortal
  <1>1. NetTypeOK'
    <2>1. mainAt' \in {"wire", "window", "lastlook", "portal", "running"}
      BY NetAssumption, RestTyped DEF Transports
    <2>2. portal' \in PortalType
      BY NetAssumption, RestTyped DEF PortalType
    <2>3. trouble' \in 0..MaxTrouble
      BY NetAssumption, RestTyped DEF Transports
    <2>4. silent' \in 0..MaxSilent
      BY NetAssumption, RestTyped DEF Transports
    <2>5. QED
      BY <2>1, <2>2, <2>3, <2>4
  <1>2. EventsTell'
    <2>1. Has' = Has
      BY DEF Has
    <2>2. QED
      BY <2>1, StillTells
  <1>3. HandlerHolds'
    BY NetAssumption DEF HandlerHolds, Transports
  <1>4. Pursued'
    BY NetAssumption DEF Pursued, Transports
  <1>5. Route'
    BY NetAssumption DEF Route, Transports
  <1>6. BootOrder'
    BY NetAssumption DEF BootOrder, Transports
  <1>7. Sampled'
    BY NetAssumption DEF Sampled, Transports, WdType, Identities
  <1>8. StreakIsBacked'
    BY NetAssumption DEF StreakIsBacked, SampleNow, Shown, Transports, WdType, Identities,
       ProofType, kWatchFailsToRecover
  <1>9. BaseIsBacked'
    BY NetAssumption DEF BaseIsBacked, SampleNow, Shown, Transports, WdType, Identities,
       ProofType, kWatchFailsToRecover
  <1>10. Earned'
    BY NetAssumption DEF Earned, SampleNow, Shown, Transports, WdType, Identities, ProofType,
       kWatchFailsToRecover
  <1>11. QED
    BY <1>1, <1>2, <1>3, <1>4, <1>5, <1>6, <1>7, <1>8, <1>9, <1>10

\* PortalClose keeps NetInv.
LEMMA PortalCloseKeeps ==
    ASSUME NetTypeOK, NetInv, PortalClose
    PROVE  NetTypeOK' /\ NetInv'
  <1> USE DEF NetInv, NetTypeOK, PortalClose, CloseAp, CloseFails, Trouble, budgets, drivers,
      links, watchdog
  <1>1. NetTypeOK'
    <2>1. portal' \in PortalType
      BY NetAssumption, RestTyped DEF PortalType
    <2>2. trouble' \in 0..MaxTrouble
      BY NetAssumption, RestTyped DEF Transports
    <2>3. silent' \in 0..MaxSilent
      BY NetAssumption, RestTyped DEF Transports
    <2>4. QED
      BY <2>1, <2>2, <2>3
  <1>2. EventsTell'
    <2>1. Has' = Has
      BY DEF Has
    <2>2. QED
      BY <2>1, StillTells
  <1>3. HandlerHolds'
    BY NetAssumption DEF HandlerHolds, Transports
  <1>4. Pursued'
    BY NetAssumption DEF Pursued, Transports
  <1>5. Route'
    BY NetAssumption DEF Route, Transports
  <1>6. BootOrder'
    BY NetAssumption DEF BootOrder, Transports
  <1>7. Sampled'
    BY NetAssumption DEF Sampled, Transports, WdType, Identities
  <1>8. StreakIsBacked'
    BY NetAssumption DEF StreakIsBacked, SampleNow, Shown, Transports, WdType, Identities,
       ProofType, kWatchFailsToRecover
  <1>9. BaseIsBacked'
    BY NetAssumption DEF BaseIsBacked, SampleNow, Shown, Transports, WdType, Identities,
       ProofType, kWatchFailsToRecover
  <1>10. Earned'
    BY NetAssumption DEF Earned, SampleNow, Shown, Transports, WdType, Identities, ProofType,
       kWatchFailsToRecover
  <1>11. QED
    BY <1>1, <1>2, <1>3, <1>4, <1>5, <1>6, <1>7, <1>8, <1>9, <1>10

\* PortalAttempt keeps NetInv.
LEMMA PortalAttemptKeeps ==
    ASSUME NetTypeOK, NetInv, PortalAttempt
    PROVE  NetTypeOK' /\ NetInv'
  <1> USE DEF NetInv, NetTypeOK, PortalAttempt, Connect, links, watchdog, budgets
  <1>1. NetTypeOK'
    <2>1. station' \in {"off", "idle", "connecting", "up"}
      BY NetAssumption, RestTyped DEF Transports
    <2>2. portal' \in PortalType
      BY NetAssumption, RestTyped DEF PortalType
    <2>3. QED
      BY <2>1, <2>2
  <1>2. EventsTell'
    <2>1. Has' = Has
      BY DEF Has
    <2>2. QED
      BY <2>1, StillTells
  <1>3. HandlerHolds'
    BY NetAssumption DEF HandlerHolds, Transports
  <1>4. Pursued'
    BY NetAssumption DEF Pursued, Transports
  <1>5. Route'
    BY NetAssumption DEF Route, Transports
  <1>6. BootOrder'
    BY NetAssumption DEF BootOrder, Transports
  <1>7. Sampled'
    BY NetAssumption DEF Sampled, Transports, WdType, Identities
  <1>8. StreakIsBacked'
    BY NetAssumption DEF StreakIsBacked, SampleNow, Shown, Transports, WdType, Identities,
       ProofType, kWatchFailsToRecover
  <1>9. BaseIsBacked'
    BY NetAssumption DEF BaseIsBacked, SampleNow, Shown, Transports, WdType, Identities,
       ProofType, kWatchFailsToRecover
  <1>10. Earned'
    BY NetAssumption DEF Earned, SampleNow, Shown, Transports, WdType, Identities, ProofType,
       kWatchFailsToRecover
  <1>11. QED
    BY <1>1, <1>2, <1>3, <1>4, <1>5, <1>6, <1>7, <1>8, <1>9, <1>10

\* PortalTime keeps NetInv.
LEMMA PortalTimeKeeps ==
    ASSUME NetTypeOK, NetInv, PortalTime
    PROVE  NetTypeOK' /\ NetInv'
  <1> USE DEF NetInv, NetTypeOK, PortalTime, drivers, links, watchdog, budgets
  <1>1. NetTypeOK'
    <2>1. portal' \in PortalType
      BY NetAssumption, RestTyped DEF PortalType
    <2>2. QED
      BY <2>1
  <1>2. EventsTell'
    <2>1. Has' = Has
      BY DEF Has
    <2>2. QED
      BY <2>1, StillTells
  <1>3. HandlerHolds'
    BY NetAssumption DEF HandlerHolds, Transports
  <1>4. Pursued'
    BY NetAssumption DEF Pursued, Transports
  <1>5. Route'
    BY NetAssumption DEF Route, Transports
  <1>6. BootOrder'
    BY NetAssumption DEF BootOrder, Transports
  <1>7. Sampled'
    BY NetAssumption DEF Sampled, Transports, WdType, Identities
  <1>8. StreakIsBacked'
    BY NetAssumption DEF StreakIsBacked, SampleNow, Shown, Transports, WdType, Identities,
       ProofType, kWatchFailsToRecover
  <1>9. BaseIsBacked'
    BY NetAssumption DEF BaseIsBacked, SampleNow, Shown, Transports, WdType, Identities,
       ProofType, kWatchFailsToRecover
  <1>10. Earned'
    BY NetAssumption DEF Earned, SampleNow, Shown, Transports, WdType, Identities, ProofType,
       kWatchFailsToRecover
  <1>11. QED
    BY <1>1, <1>2, <1>3, <1>4, <1>5, <1>6, <1>7, <1>8, <1>9, <1>10

\* PortalClient keeps NetInv.
LEMMA PortalClientKeeps ==
    ASSUME NetTypeOK, NetInv, PortalClient
    PROVE  NetTypeOK' /\ NetInv'
  <1> USE DEF NetInv, NetTypeOK, PortalClient, drivers, links, watchdog, budgets
  <1>1. NetTypeOK'
    <2>1. portal' \in PortalType
      BY NetAssumption, RestTyped DEF PortalType
    <2>2. QED
      BY <2>1
  <1>2. EventsTell'
    <2>1. Has' = Has
      BY DEF Has
    <2>2. QED
      BY <2>1, StillTells
  <1>3. HandlerHolds'
    BY NetAssumption DEF HandlerHolds, Transports
  <1>4. Pursued'
    BY NetAssumption DEF Pursued, Transports
  <1>5. Route'
    BY NetAssumption DEF Route, Transports
  <1>6. BootOrder'
    BY NetAssumption DEF BootOrder, Transports
  <1>7. Sampled'
    BY NetAssumption DEF Sampled, Transports, WdType, Identities
  <1>8. StreakIsBacked'
    BY NetAssumption DEF StreakIsBacked, SampleNow, Shown, Transports, WdType, Identities,
       ProofType, kWatchFailsToRecover
  <1>9. BaseIsBacked'
    BY NetAssumption DEF BaseIsBacked, SampleNow, Shown, Transports, WdType, Identities,
       ProofType, kWatchFailsToRecover
  <1>10. Earned'
    BY NetAssumption DEF Earned, SampleNow, Shown, Transports, WdType, Identities, ProofType,
       kWatchFailsToRecover
  <1>11. QED
    BY <1>1, <1>2, <1>3, <1>4, <1>5, <1>6, <1>7, <1>8, <1>9, <1>10

\* WdRecheck keeps NetInv.
LEMMA WdRecheckKeeps ==
    ASSUME NetTypeOK, NetInv, WdRecheck
    PROVE  NetTypeOK' /\ NetInv'
  <1> USE DEF NetInv, NetTypeOK, WdRecheck, WdKeeps, drivers, links, budgets, IdleWd, NoIdentity,
      Identity
  <1>1. NetTypeOK'
    <2>1. station' \in {"off", "idle", "connecting", "up"}
      BY NetAssumption, RestTyped DEF Transports
    <2>2. cable' \in {"down", "link", "up", "stopped"}
      BY NetAssumption, RestTyped DEF Transports
    <2>3. gw' \in [Transports -> Addresses]
      BY NetAssumption, RestTyped DEF Transports, Addresses
    <2>4. inbox' \in Seq(Events) /\ Len(inbox') <= MaxInbox
      BY NetAssumption, RestTyped DEF Events
    <2>5. handler' \in [event : Events \cup {"none"}, at : {"idle", "lease"}]
      BY NetAssumption, RestTyped DEF Events
    <2>6. gen' \in [Transports -> Nat]
      BY NetAssumption, RestTyped DEF Transports
    <2>7. lease' \in [Transports -> BOOLEAN]
      BY NetAssumption, RestTyped DEF Transports, Events
    <2>8. link' \in Transports \cup {"None"}
      BY NetAssumption, RestTyped DEF Transports
    <2>9. wifiProven' \in BOOLEAN
      BY NetAssumption, RestTyped DEF Transports
    <2>10. wireBit' \in BOOLEAN
      BY NetAssumption, RestTyped DEF Transports
    <2>11. attempts' \in 0..BootRetries
      BY NetAssumption, RestTyped DEF Transports
    <2>12. mainAt' \in {"wire", "window", "lastlook", "portal", "running"}
      BY NetAssumption, RestTyped DEF Transports
    <2>13. portal' \in PortalType
      BY NetAssumption, RestTyped DEF PortalType
    <2>14. wd' \in WdType
      BY NetAssumption, RestTyped DEF WdType
    <2>15. QED
      BY <2>1, <2>2, <2>3, <2>4, <2>5, <2>6, <2>7, <2>8, <2>9, <2>10, <2>11, <2>12, <2>13, <2>14
  <1>2. EventsTell'
    <2>1. Has' = Has
      BY DEF Has
    <2>2. QED
      BY <2>1, StillTells
  <1>3. HandlerHolds'
    BY NetAssumption DEF HandlerHolds, Transports
  <1>4. Pursued'
    BY NetAssumption DEF Pursued, Transports
  <1>5. Route'
    BY NetAssumption DEF Route, Transports
  <1>6. BootOrder'
    BY NetAssumption DEF BootOrder, Transports
  <1>7. Sampled'
    BY NetAssumption DEF Sampled, Transports, WdType, Identities
  <1>8. StreakIsBacked'
    BY NetAssumption DEF StreakIsBacked, SampleNow, Shown, Transports, WdType, Identities,
       ProofType, kWatchFailsToRecover
  <1>9. BaseIsBacked'
    BY NetAssumption DEF BaseIsBacked, SampleNow, Shown, Transports, WdType, Identities,
       ProofType, kWatchFailsToRecover
  <1>10. Earned'
    BY NetAssumption DEF Earned, SampleNow, Shown, Transports, WdType, Identities, ProofType,
       kWatchFailsToRecover
  <1>11. QED
    BY <1>1, <1>2, <1>3, <1>4, <1>5, <1>6, <1>7, <1>8, <1>9, <1>10

\* WdFault keeps NetInv.
LEMMA WdFaultKeeps ==
    ASSUME NetTypeOK, NetInv, WdFault
    PROVE  NetTypeOK' /\ NetInv'
  <1> USE DEF NetInv, NetTypeOK, WdFault, WdKeeps, drivers, links, budgets, IdleWd, NoIdentity,
      Identity
  <1>1. NetTypeOK'
    <2>1. station' \in {"off", "idle", "connecting", "up"}
      BY NetAssumption, RestTyped DEF Transports
    <2>2. cable' \in {"down", "link", "up", "stopped"}
      BY NetAssumption, RestTyped DEF Transports
    <2>3. gw' \in [Transports -> Addresses]
      BY NetAssumption, RestTyped DEF Transports, Addresses
    <2>4. inbox' \in Seq(Events) /\ Len(inbox') <= MaxInbox
      BY NetAssumption, RestTyped DEF Events
    <2>5. handler' \in [event : Events \cup {"none"}, at : {"idle", "lease"}]
      BY NetAssumption, RestTyped DEF Events
    <2>6. gen' \in [Transports -> Nat]
      BY NetAssumption, RestTyped DEF Transports
    <2>7. lease' \in [Transports -> BOOLEAN]
      BY NetAssumption, RestTyped DEF Transports, Events
    <2>8. link' \in Transports \cup {"None"}
      BY NetAssumption, RestTyped DEF Transports
    <2>9. wifiProven' \in BOOLEAN
      BY NetAssumption, RestTyped DEF Transports
    <2>10. wireBit' \in BOOLEAN
      BY NetAssumption, RestTyped DEF Transports
    <2>11. attempts' \in 0..BootRetries
      BY NetAssumption, RestTyped DEF Transports
    <2>12. mainAt' \in {"wire", "window", "lastlook", "portal", "running"}
      BY NetAssumption, RestTyped DEF Transports
    <2>13. portal' \in PortalType
      BY NetAssumption, RestTyped DEF PortalType
    <2>14. wd' \in WdType
      BY NetAssumption, RestTyped DEF WdType
    <2>15. streak' \in [of : Identities, fails : 0..kWatchFailsToRecover - 1]
      BY NetAssumption, RestTyped DEF kWatchFailsToRecover
    <2>16. base' \in [Transports -> [of : Identities, ever : BOOLEAN]]
      BY NetAssumption, RestTyped DEF Transports
    <2>17. QED
      BY <2>1, <2>2, <2>3, <2>4, <2>5, <2>6, <2>7, <2>8, <2>9, <2>10, <2>11, <2>12, <2>13,
         <2>14, <2>15, <2>16
  <1>2. EventsTell'
    <2>1. Has' = Has
      BY DEF Has
    <2>2. QED
      BY <2>1, StillTells
  <1>3. HandlerHolds'
    BY NetAssumption DEF HandlerHolds, Transports
  <1>4. Pursued'
    BY NetAssumption DEF Pursued, Transports
  <1>5. Route'
    BY NetAssumption DEF Route, Transports
  <1>6. BootOrder'
    BY NetAssumption DEF BootOrder, Transports
  <1>7. Sampled'
    BY NetAssumption DEF Sampled, Transports, WdType, Identities
  <1>8. StreakIsBacked'
    BY NetAssumption DEF StreakIsBacked, SampleNow, Shown, Transports, WdType, Identities,
       ProofType, kWatchFailsToRecover
  <1>9. BaseIsBacked'
    BY NetAssumption DEF BaseIsBacked, SampleNow, Shown, Transports, WdType, Identities,
       ProofType, kWatchFailsToRecover
  <1>10. Earned'
    BY NetAssumption DEF Earned, SampleNow, Shown, Transports, WdType, Identities, ProofType,
       kWatchFailsToRecover
  <1>11. QED
    BY <1>1, <1>2, <1>3, <1>4, <1>5, <1>6, <1>7, <1>8, <1>9, <1>10

----------------------------------------------------------------------------
(* The watchdog.  What an iteration does is stated once for each of its    *)
(* outcomes; none of its steps but the reset touches the drivers.          *)

Outside == EventsTell /\ HandlerHolds /\ Pursued /\ Route /\ BootOrder

\* The types of what the watchdog owns.
WdTyped ==
    /\ wd \in WdType
    /\ streak \in [of : Identities, fails : 0..kWatchFailsToRecover - 1]
    /\ base \in [Transports -> [of : Identities, ever : BOOLEAN]]
    /\ proof \in [Transports -> ProofType]

\* A probe leaves the drivers, the events, the links and the portal alone.
LEMMA WatchingKeeps ==
    ASSUME NetTypeOK, NetInv, WdKeeps, WdTyped', trouble' \in 0..MaxTrouble,
           silent' \in 0..MaxSilent
    PROVE  NetTypeOK' /\ Outside'
  <1>1. NetTypeOK'
    BY DEF NetTypeOK, WdTyped, WdKeeps, drivers, links
  <1>2. EventsTell'
    BY StillTells DEF NetInv, WdKeeps, drivers, links, Has
  <1>3. HandlerHolds' /\ Pursued' /\ Route' /\ BootOrder'
    BY DEF NetInv, HandlerHolds, Pursued, Route, BootOrder, WdKeeps, drivers, links
  <1>4. QED
    BY <1>1, <1>2, <1>3 DEF Outside

\* What the watchdog remembers when it is calm is well typed.
LEMMA CalmTyped ==
    ASSUME NEW p \in ProofType
    PROVE  [p EXCEPT !.fails = 0] \in ProofType /\ [p EXCEPT !.fails = 0].replied = p.replied
  BY DEF ProofType, kWatchFailsToRecover

\* Without a usable sample the streaks are gone (net_watchdog_task()).
LEMMA UnusableGives ==
    ASSUME NetTypeOK, Unusable
    PROVE  /\ WdTyped' /\ wd' = IdleWd /\ base' = base
           /\ streak'.of = NoIdentity /\ streak'.fails = 0
           /\ \A t \in Transports : proof'[t].replied = proof[t].replied
  <1>1. /\ proof' \in [Transports -> ProofType]
        /\ \A t \in Transports : proof'[t].replied = proof[t].replied
    BY CalmTyped DEF NetTypeOK, Unusable
  <1>2. streak' \in [of : Identities, fails : 0..kWatchFailsToRecover - 1]
    BY RestTyped DEF Unusable, kWatchFailsToRecover
  <1>3. QED
    BY <1>1, <1>2, RestTyped DEF NetTypeOK, WdTyped, Unusable

\* watch_step(): a recovery is asked for only on the second silence in a row
\* of a gateway whose baseline is its own.
LEMMA JudgeGives ==
    ASSUME NetTypeOK, NEW id \in Identities, id.transport \in Transports,
           NEW result \in {"none", "Reply", "NoReply", "Unavailable"}, Judge(id, result)
    PROVE  /\ wd' \in WdType
           /\ streak' \in [of : Identities, fails : 0..kWatchFailsToRecover - 1]
           /\ base' \in [Transports -> [of : Identities, ever : BOOLEAN]]
           /\ streak'.of = id
           /\ streak'.fails = 1 => result = "NoReply"
           /\ \A t \in Transports : t # id.transport => base'[t] = base[t]
           /\ base'[id.transport].of = id
           /\ base'[id.transport].ever =>
                 \/ result = "Reply" /\ id.address # NoAddress
                 \/ base[id.transport].of = id /\ base[id.transport].ever
           /\ \/ wd' = IdleWd
              \/ /\ wd' = [IdleWd EXCEPT !.at = "recheck", !.sample = id]
                 /\ result = "NoReply" /\ streak.of = id /\ streak.fails = 1
                 /\ base[id.transport].of = id /\ base[id.transport].ever
  <1> DEFINE t == id.transport
             fails == IF streak.of = id THEN streak.fails ELSE 0
             b == Observe(base[t], id, result = "Reply")
             full == result = "NoReply" /\ fails + 1 >= kWatchFailsToRecover
  <1>1. /\ base' = [base EXCEPT ![t] = b]
        /\ streak' = [of |-> id, fails |-> IF result = "NoReply" /\ ~full THEN fails + 1 ELSE 0]
        /\ wd' = IF full /\ b.ever THEN [IdleWd EXCEPT !.at = "recheck", !.sample = id] ELSE IdleWd
    BY DEF Judge
  <1>2. PICK e \in BOOLEAN :
            e = ((base[t].of = id /\ base[t].ever) \/ (result = "Reply" /\ id.address # NoAddress))
    OBVIOUS
  <1>3. b = [of |-> id, ever |-> e]
    BY <1>2 DEF Observe
  <1>4. base' \in [Transports -> [of : Identities, ever : BOOLEAN]]
    <2>1. b \in [of : Identities, ever : BOOLEAN]
      BY <1>3
    <2> HIDE DEF b
    <2>2. QED
      BY <1>1, <2>1 DEF NetTypeOK
  <1>5. /\ base'[t] = b
        /\ \A u \in Transports : u # t => base'[u] = base[u]
    <2> HIDE DEF b
    <2>1. QED
      BY <1>1 DEF NetTypeOK
  <1>6. fails \in 0..1
    BY DEF NetTypeOK, kWatchFailsToRecover
  <1>7. streak' \in [of : Identities, fails : 0..kWatchFailsToRecover - 1] /\ streak'.of = id
        /\ (streak'.fails = 1 => result = "NoReply")
    <2>1. PICK n \in 0..1 : streak' = [of |-> id, fails |-> n] /\ (n = 1 => result = "NoReply")
      BY <1>1, <1>6 DEF kWatchFailsToRecover
    <2>2. QED
      BY <2>1 DEF kWatchFailsToRecover
  <1>8. wd' = IdleWd \/ wd' = [IdleWd EXCEPT !.at = "recheck", !.sample = id]
    BY <1>1
  <1>9. wd' \in WdType
    BY <1>8, RestTyped DEF WdType
  <1>10. full => result = "NoReply" /\ streak.of = id /\ streak.fails = 1
    BY <1>6 DEF NetTypeOK, kWatchFailsToRecover
  <1>11. b.ever = e /\ b.of = id
    BY <1>3
  <1>12. full /\ b.ever => base[t].of = id /\ base[t].ever
    BY <1>2, <1>10, <1>11
  <1>13. QED
    <2> HIDE DEF b, full, fails
    <2>1. \/ wd' = IdleWd
          \/ wd' = [IdleWd EXCEPT !.at = "recheck", !.sample = id] /\ full /\ b.ever
      BY <1>1
    <2>2. QED
      BY <1>2, <1>4, <1>5, <1>7, <1>9, <1>10, <1>11, <1>12, <2>1

\* What a ping shows under a generation that lasts.
LEMMA EvidenceGives ==
    ASSUME NetTypeOK, NetInv, wd.at = "ping",
           NEW r \in {"Reply", "NoReply", "Unavailable"}, proof' = Evidence(r)
    PROVE  /\ proof' \in [Transports -> ProofType]
           /\ \A t \in Transports : proof[t].replied \subseteq proof'[t].replied
           /\ SampleNow =>
                 LET new == proof'[wd.sample.transport]
                     old == proof[wd.sample.transport]
                 IN /\ new.of = wd.sample.address
                    /\ r = "Reply" => wd.sample.address \in new.replied
                    /\ r = "NoReply" => new.fails >= 1
                    /\ r = "NoReply" /\ old.of = wd.sample.address /\ old.fails >= 1 => new.fails = 2
  <1> DEFINE id == wd.sample
             old == proof[id.transport]
             again == old.of = id.address /\ old.fails > 0
             rs == old.replied \cup (IF r = "Reply" THEN {id.address} ELSE {})
             n == IF r # "NoReply" THEN 0 ELSE IF again THEN kWatchFailsToRecover ELSE 1
             new == [replied |-> rs, of |-> id.address, fails |-> n]
  <1>1. id.transport \in Transports /\ id.address \in Gateways
    BY DEF NetInv, Sampled, NetTypeOK, WdType, Identities, Addresses
  <1>2. rs \in SUBSET Gateways /\ old.replied \subseteq rs
    BY <1>1 DEF NetTypeOK, ProofType
  <1>3. n \in 0..kWatchFailsToRecover /\ (r = "NoReply" => n >= 1)
        /\ (r = "NoReply" /\ old.of = id.address /\ old.fails >= 1 => n = 2)
    <2>1. PICK k \in 0..2 : k = old.fails
      BY <1>1 DEF NetTypeOK, ProofType, kWatchFailsToRecover
    <2> HIDE DEF old
    <2>2. QED
      BY <2>1 DEF kWatchFailsToRecover
  <1>4. new \in ProofType
    <2> HIDE DEF rs, n
    <2>1. QED
      BY <1>1, <1>2, <1>3 DEF ProofType, Addresses
  <1>5. proof' = [u \in Transports |-> IF u = id.transport /\ gen[u] = id.gen THEN new
                                       ELSE [proof[u] EXCEPT !.fails = 0]]
    BY DEF Evidence
  <1>6. \A u \in Transports : /\ [proof[u] EXCEPT !.fails = 0] \in ProofType
                              /\ [proof[u] EXCEPT !.fails = 0].replied = proof[u].replied
    BY CalmTyped DEF NetTypeOK
  <1>7. new.replied = rs /\ new.of = id.address /\ new.fails = n
    OBVIOUS
  <1>8. r = "Reply" => id.address \in rs
    OBVIOUS
  <1> HIDE DEF new, rs, n
  <1>9. QED
    BY <1>1, <1>2, <1>3, <1>4, <1>5, <1>6, <1>7, <1>8 DEF SampleNow

\* An iteration without a usable sample.
LEMMA UnusableKeeps ==
    ASSUME NetTypeOK, NetInv, Unusable, WdKeeps, UNCHANGED budgets
    PROVE  NetTypeOK' /\ NetInv'
  <1>1. /\ WdTyped' /\ wd'.at = "idle" /\ base' = base /\ gen' = gen
        /\ streak'.of = NoIdentity /\ streak'.fails = 0
        /\ \A t \in Transports : proof'[t].replied = proof[t].replied
    BY UnusableGives DEF IdleWd, WdKeeps, links
  <1>2. NetTypeOK' /\ Outside'
    BY <1>1, WatchingKeeps DEF budgets, NetTypeOK
  <1>3. Sampled' /\ Earned'
    BY <1>1 DEF Sampled, Earned
  <1>4. StreakIsBacked'
    BY <1>1 DEF StreakIsBacked, NoIdentity, Identity, Transports
  <1>5. BaseIsBacked'
    BY <1>1 DEF NetInv, BaseIsBacked
  <1>6. QED
    BY <1>2, <1>3, <1>4, <1>5 DEF NetInv, Outside

\* A judged sample, whether its gateway was asked or had no address.
LEMMA JudgeKeeps ==
    ASSUME NetTypeOK, NetInv, WdKeeps, UNCHANGED <<proof, budgets>>,
           NEW result \in {"none", "Reply", "NoReply", "Unavailable"}, Judge(wd.sample, result),
           \/ wd.at = "verify" /\ result = wd.result /\ SampleNow
           \/ wd.at = "address" /\ result = "NoReply"
    PROVE  NetTypeOK' /\ NetInv'
  <1> DEFINE id == wd.sample
             t == id.transport
  <1>1. id \in Identities /\ t \in Transports /\ id.gen <= gen[t] /\ gen' = gen
    BY DEF NetInv, Sampled, NetTypeOK, WdType, WdKeeps, links
  <1>2. /\ wd' \in WdType
        /\ streak' \in [of : Identities, fails : 0..kWatchFailsToRecover - 1]
        /\ base' \in [Transports -> [of : Identities, ever : BOOLEAN]]
        /\ streak'.of = id
        /\ streak'.fails = 1 => result = "NoReply"
        /\ \A u \in Transports : u # t => base'[u] = base[u]
        /\ base'[t].of = id
        /\ base'[t].ever => \/ result = "Reply" /\ id.address # NoAddress
                            \/ base[t].of = id /\ base[t].ever
        /\ \/ wd' = IdleWd
           \/ /\ wd' = [IdleWd EXCEPT !.at = "recheck", !.sample = id]
              /\ result = "NoReply" /\ streak.of = id /\ streak.fails = 1
              /\ base[t].of = id /\ base[t].ever
    BY <1>1, JudgeGives
  <1>3. WdTyped'
    BY <1>2 DEF WdTyped, NetTypeOK
  <1>4. NetTypeOK' /\ Outside'
    BY <1>3, WatchingKeeps DEF budgets, NetTypeOK
  <1>5. \/ wd'.at = "idle"
        \/ /\ wd'.at = "recheck" /\ wd'.sample = id
           /\ result = "NoReply" /\ streak.of = id /\ streak.fails = 1
           /\ base[t].of = id /\ base[t].ever
    <2>1. IdleWd.at = "idle" /\ [IdleWd EXCEPT !.at = "recheck", !.sample = id].at = "recheck"
          /\ [IdleWd EXCEPT !.at = "recheck", !.sample = id].sample = id
      BY DEF IdleWd
    <2> HIDE DEF id, t
    <2>2. QED
      BY <1>2, <2>1
  <1>6. base[t].ever /\ base[t].of = id => id.address # NoAddress
    BY <1>1 DEF NetInv, BaseIsBacked
  <1>7. wd.at = "address" => id.address = NoAddress
    BY DEF NetInv, Sampled
  <1> HIDE DEF id, t
  <1>8. CASE wd.at = "verify" /\ result = wd.result /\ SampleNow
    <2>1. /\ gen[t] = id.gen
          /\ result = "NoReply" => /\ proof[t].of = id.address /\ proof[t].fails >= 1
                                   /\ streak.of = id /\ streak.fails = 1 => proof[t].fails = 2
          /\ result = "Reply" => id.address \in proof[t].replied
          /\ base[t].ever /\ base[t].of = id => id.address \in proof[t].replied
      BY <1>1, <1>8 DEF NetInv, StreakIsBacked, BaseIsBacked, SampleNow, Shown, id, t
    <2>2. Sampled'
      BY <1>1, <1>5, <1>6 DEF Sampled, t
    <2>3. StreakIsBacked'
      BY <1>1, <1>2, <1>5, <2>1 DEF StreakIsBacked, t
    <2>4. BaseIsBacked'
      <3>1. id.gen \in Nat /\ gen[t] \in Nat
        BY <1>1 DEF Identities, NetTypeOK
      <3>2. base'[t].ever => id.address # NoAddress /\ id.address \in proof[t].replied
        BY <1>2, <1>6, <2>1
      <3>3. wd'.at # "verify"
        BY <1>5
      <3>4. QED
        BY <1>1, <1>2, <3>1, <3>2, <3>3 DEF NetInv, BaseIsBacked
    <2>5. Earned'
      BY <1>1, <1>5, <2>1 DEF Earned, SampleNow, Shown, kWatchFailsToRecover, t
    <2>6. QED
      BY <1>4, <2>2, <2>3, <2>4, <2>5 DEF NetInv, Outside
  <1>9. CASE wd.at = "address" /\ result = "NoReply"
    <2>1. id.address = NoAddress
      BY <1>7, <1>9
    <2>2. ~base'[t].ever
      BY <1>2, <1>6, <2>1
    <2>3. wd'.at = "idle"
      BY <1>5, <1>6, <2>1
    <2>4. Sampled' /\ Earned'
      BY <2>3 DEF Sampled, Earned
    <2>5. StreakIsBacked'
      BY <1>1, <1>2, <2>1, <2>3 DEF StreakIsBacked, t
    <2>6. BaseIsBacked'
      BY <1>1, <1>2, <2>2, <2>3 DEF NetInv, BaseIsBacked
    <2>7. QED
      BY <1>4, <2>4, <2>5, <2>6 DEF NetInv, Outside
  <1>10. QED
    BY <1>8, <1>9

\* WdSnapshot keeps NetInv.
LEMMA WdSnapshotKeeps ==
    ASSUME NetTypeOK, NetInv, WdSnapshot
    PROVE  NetTypeOK' /\ NetInv'
  <1>1. CASE link = "None"
    BY <1>1, UnusableKeeps DEF WdSnapshot
  <1>2. CASE link # "None"
    <2>1. /\ wd' = [IdleWd EXCEPT !.at = "address", !.sample.transport = link, !.sample.gen = gen[link]]
          /\ UNCHANGED <<streak, base, proof, budgets>> /\ WdKeeps /\ wd.at = "idle"
      BY <1>2 DEF WdSnapshot
    <2>2. link \in Transports /\ gen[link] \in Nat /\ gen' = gen
      BY <1>2, <2>1 DEF NetTypeOK, WdKeeps, links
    <2>3. /\ wd'.at = "address"
          /\ wd'.sample = [transport |-> link, gen |-> gen[link], address |-> NoAddress]
      BY <2>1 DEF IdleWd, NoIdentity, Identity
    <2>4. wd' \in WdType
      <3>1. [transport |-> link, gen |-> gen[link], address |-> NoAddress] \in Identities
        BY <2>2 DEF Identities, Addresses
      <3>2. wd' = [at |-> "address", result |-> "none",
                   sample |-> [transport |-> link, gen |-> gen[link], address |-> NoAddress]]
        BY <2>1 DEF IdleWd, NoIdentity, Identity
      <3>3. QED
        BY <3>1, <3>2 DEF WdType
    <2>5. NetTypeOK' /\ Outside'
      BY <2>1, <2>4, WatchingKeeps DEF budgets, NetTypeOK, WdTyped
    <2>6. Sampled' /\ Earned'
      BY <2>2, <2>3 DEF Sampled, Earned
    <2>7. StreakIsBacked' /\ BaseIsBacked'
      BY <2>1, <2>2, <2>3 DEF NetInv, StreakIsBacked, BaseIsBacked
    <2>8. QED
      BY <2>5, <2>6, <2>7 DEF NetInv, Outside
  <1>3. QED
    BY <1>1, <1>2

\* WdAddress keeps NetInv.
LEMMA WdAddressKeeps ==
    ASSUME NetTypeOK, NetInv, WdAddress
    PROVE  NetTypeOK' /\ NetInv'
  <1> DEFINE t == wd.sample.transport
  <1>1. CASE gw[t] = NoAddress /\ Judge(wd.sample, "NoReply") /\ UNCHANGED proof
    BY <1>1, JudgeKeeps DEF WdAddress
  <1>2. CASE gw[t] # NoAddress /\ gen[t] # wd.sample.gen /\ Unusable
    BY <1>2, UnusableKeeps DEF WdAddress
  <1>3. CASE /\ gw[t] # NoAddress /\ gen[t] = wd.sample.gen
             /\ wd' = [wd EXCEPT !.at = "ping", !.sample.address = gw[t]]
             /\ UNCHANGED <<streak, base, proof>>
    <2>1. UNCHANGED budgets /\ WdKeeps /\ wd.at = "address" /\ gen' = gen
      BY DEF WdAddress, WdKeeps, links
    <2>2. t \in Transports /\ gw[t] \in Addresses /\ wd.sample \in Identities /\ wd \in WdType
      BY <2>1 DEF NetInv, Sampled, NetTypeOK, WdType
    <2>3. /\ wd'.at = "ping" /\ wd'.sample.transport = t /\ wd'.sample.gen = wd.sample.gen
          /\ wd'.sample.address = gw[t]
      BY <1>3, <2>2 DEF WdType, Identities
    <2>4. wd' \in WdType
      BY <1>3, <2>2 DEF WdType, Identities
    <2>5. NetTypeOK' /\ Outside'
      BY <1>3, <2>1, <2>4, WatchingKeeps DEF budgets, NetTypeOK, WdTyped
    <2>6. Sampled' /\ Earned'
      BY <1>3, <2>1, <2>2, <2>3 DEF NetInv, Sampled, Earned
    <2>7. StreakIsBacked' /\ BaseIsBacked'
      BY <1>3, <2>1, <2>3 DEF NetInv, StreakIsBacked, BaseIsBacked
    <2>8. QED
      BY <2>5, <2>6, <2>7 DEF NetInv, Outside
  <1>4. QED
    BY <1>1, <1>2, <1>3 DEF WdAddress

\* WdPinged keeps NetInv.
LEMMA WdPingedKeeps ==
    ASSUME NetTypeOK, NetInv, WdPinged
    PROVE  NetTypeOK' /\ NetInv'
  <1>1. PICK r \in {"Reply", "NoReply", "Unavailable"} :
            /\ wd' = [wd EXCEPT !.at = "verify", !.result = r]
            /\ proof' = Evidence(r)
            /\ IF r = "NoReply" THEN silent > 0 /\ silent' = silent - 1 ELSE UNCHANGED silent
    BY DEF WdPinged
  <1>2. UNCHANGED <<streak, base, trouble>> /\ WdKeeps /\ wd.at = "ping" /\ gen' = gen
    BY DEF WdPinged, WdKeeps, links
  <1>3. /\ proof' \in [Transports -> ProofType]
        /\ \A t \in Transports : proof[t].replied \subseteq proof'[t].replied
        /\ SampleNow =>
              LET new == proof'[wd.sample.transport]
                  old == proof[wd.sample.transport]
              IN /\ new.of = wd.sample.address
                 /\ r = "Reply" => wd.sample.address \in new.replied
                 /\ r = "NoReply" => new.fails >= 1
                 /\ r = "NoReply" /\ old.of = wd.sample.address /\ old.fails >= 1 => new.fails = 2
    BY <1>1, <1>2, EvidenceGives
  <1>4. wd' \in WdType /\ wd'.at = "verify" /\ wd'.result = r /\ wd'.sample = wd.sample
    BY <1>1 DEF NetTypeOK, WdType
  <1>5. silent' \in 0..MaxSilent
    BY <1>1, NetAssumption DEF NetTypeOK
  <1>6. NetTypeOK' /\ Outside'
    BY <1>2, <1>3, <1>4, <1>5, WatchingKeeps DEF NetTypeOK, WdTyped
  <1>7. Sampled' /\ Earned'
    BY <1>2, <1>4 DEF NetInv, Sampled, Earned
  <1>8. StreakIsBacked'
    <2>1. wd.sample.transport \in Transports /\ wd.sample.address # NoAddress
      BY <1>2 DEF NetInv, Sampled
    <2>2. streak.of = wd.sample /\ streak.fails = 1 /\ SampleNow =>
             Shown.of = wd.sample.address /\ Shown.fails >= 1
      BY <1>2, <2>1 DEF NetInv, StreakIsBacked, SampleNow, Shown
    <2>3. QED
      BY <1>2, <1>3, <1>4, <2>2 DEF NetInv, StreakIsBacked, SampleNow, Shown
  <1>9. BaseIsBacked'
    BY <1>2, <1>3, <1>4 DEF NetInv, BaseIsBacked, SampleNow, Shown
  <1>10. QED
    BY <1>6, <1>7, <1>8, <1>9 DEF NetInv, Outside

\* WdVerify keeps NetInv.
LEMMA WdVerifyKeeps ==
    ASSUME NetTypeOK, NetInv, WdVerify
    PROVE  NetTypeOK' /\ NetInv'
  <1>1. CASE Unusable
    BY <1>1, UnusableKeeps DEF WdVerify
  <1>2. CASE ~Unusable
    <2>1. SampleNow /\ Judge(wd.sample, wd.result) /\ UNCHANGED <<proof, budgets>> /\ WdKeeps
          /\ wd.at = "verify"
      BY <1>2 DEF WdVerify, SampleNow
    <2>2. wd.result \in {"none", "Reply", "NoReply", "Unavailable"}
      BY DEF NetTypeOK, WdType
    <2>3. QED
      BY <2>1, <2>2, JudgeKeeps
  <1>3. QED
    BY <1>1, <1>2

\* The last look changes nothing but the watchdog's position.
LEMMA WdCompareKeeps ==
    ASSUME NetTypeOK, NetInv, WdCompare
    PROVE  NetTypeOK' /\ NetInv'
  <1>1. /\ wd' \in {IdleWd, [wd EXCEPT !.at = "reset"]} /\ wd.at = "compare"
        /\ UNCHANGED <<streak, base, proof, budgets>> /\ WdKeeps
    BY DEF WdCompare
  <1>2. gen' = gen
    BY <1>1 DEF WdKeeps, links
  <1>3. /\ wd' \in WdType
        /\ wd' = IdleWd \/ (wd'.at = "reset" /\ wd'.sample = wd.sample)
    BY <1>1, RestTyped DEF NetTypeOK, WdType
  <1>4. wd'.at \in {"idle", "reset"}
    BY <1>3 DEF IdleWd
  <1>5. NetTypeOK' /\ Outside'
    BY <1>1, <1>3, WatchingKeeps DEF NetTypeOK, WdTyped, budgets
  <1>6. Sampled' /\ Earned' /\ StreakIsBacked' /\ BaseIsBacked'
    <2>1. Sampled'
      BY <1>1, <1>2, <1>3, <1>4 DEF NetInv, Sampled, IdleWd
    <2>2. Earned'
      BY <1>4 DEF Earned
    <2>3. StreakIsBacked' /\ BaseIsBacked'
      BY <1>1, <1>2, <1>4 DEF NetInv, StreakIsBacked, BaseIsBacked
    <2>4. QED
      BY <2>1, <2>2, <2>3
  <1>7. QED
    BY <1>5, <1>6 DEF NetInv, Outside

\* What the watchdog holds is as before when a reset of a driver is under way.
LEMMA ResettingKeeps ==
    ASSUME NetTypeOK, NetInv, wd.at \in {"reset", "restart"},
           wd' = IdleWd \/ wd' = [wd EXCEPT !.at = "restart"],
           UNCHANGED <<links, streak, base, proof>>
    PROVE  /\ wd' \in WdType /\ HandlerHolds' /\ Route'
           /\ Sampled' /\ Earned' /\ StreakIsBacked' /\ BaseIsBacked'
  <1>1. /\ wd' \in WdType
        /\ wd' = IdleWd \/ (wd'.at = "restart" /\ wd'.sample = wd.sample)
    BY RestTyped DEF NetTypeOK, WdType
  <1>2. wd'.at \in {"idle", "restart"} /\ gen' = gen
    BY <1>1 DEF IdleWd, links
  <1>3. HandlerHolds' /\ Route'
    BY DEF NetInv, HandlerHolds, Route, links
  <1>4. Sampled'
    BY <1>1, <1>2 DEF NetInv, Sampled, IdleWd
  <1>5. Earned' /\ StreakIsBacked' /\ BaseIsBacked'
    BY <1>2 DEF NetInv, Earned, StreakIsBacked, BaseIsBacked
  <1>6. QED
    BY <1>1, <1>3, <1>4, <1>5

\* net_recover() resets at most one driver, which says so like any loss.
LEMMA WdResetKeeps ==
    ASSUME NetTypeOK, NetInv, WdReset
    PROVE  NetTypeOK' /\ NetInv'
  <1>1. /\ wd' = IdleWd \/ wd' = [wd EXCEPT !.at = "restart"]
        /\ wd.at = "reset"
        /\ UNCHANGED <<links, mainAt, portal, streak, base, proof, budgets>>
    BY DEF WdReset
  <1>2. /\ wd' \in WdType /\ HandlerHolds' /\ Route'
        /\ Sampled' /\ Earned' /\ StreakIsBacked' /\ BaseIsBacked'
    BY <1>1, ResettingKeeps
  <1>3. CASE UNCHANGED drivers
    <2>1. NetTypeOK'
      BY <1>1, <1>2, <1>3 DEF NetTypeOK, drivers, links, budgets
    <2>2. EventsTell'
      BY <1>1, <1>3, StillTells DEF NetInv, drivers, links, Has
    <2>3. Pursued' /\ BootOrder'
      BY <1>1, <1>3 DEF NetInv, Pursued, BootOrder, drivers, links
    <2>4. QED
      BY <1>2, <2>1, <2>2, <2>3 DEF NetInv
  <1>4. ASSUME NEW e \in Events, NEW t \in Transports, Post(e), TransportOf(e) = t, IsUp(e) = FALSE,
               gw' = [gw EXCEPT ![t] = NoAddress],
               \/ t = "Wifi" /\ station \in {"connecting", "up"} /\ station' = "idle" /\ cable' = cable
                  /\ e = "StaDisconnected"
               \/ t = "Eth" /\ cable' = "stopped" /\ station' = station
        PROVE  NetTypeOK' /\ NetInv'
    <2>1. /\ inbox' \in Seq(Events) /\ Len(inbox') <= MaxInbox
          /\ Len(inbox') = Len(inbox) + 1
          /\ inbox'[Len(inbox) + 1] = e
          /\ \A i \in 1..Len(inbox) : inbox'[i] = inbox[i]
      BY <1>4, Posted
    <2>2. gw' \in [Transports -> Addresses]
      BY <1>4 DEF NetTypeOK, Addresses
    <2>3. NetTypeOK'
      BY <1>1, <1>2, <1>4, <2>1, <2>2 DEF NetTypeOK, links, budgets
    <2>4. IsUp(e) = Has'[t] /\ \A u \in Transports : u # t => Has'[u] = Has[u]
      BY <1>4 DEF Has, Transports
    <2>5. EventsTell'
      BY <1>1, <1>4, <2>4, DriverTells DEF NetInv, links
    <2>6. Pursued'
      <3>1. Len(inbox) \in Nat
        BY DEF NetTypeOK
      <3>2. QED
        BY <1>1, <1>4, <2>1, <3>1 DEF NetInv, Pursued, links
    <2>7. BootOrder'
      BY <1>1, <1>4 DEF NetInv, BootOrder
    <2>8. QED
      BY <1>2, <2>3, <2>5, <2>6, <2>7 DEF NetInv
  <1>5. /\ "StaDisconnected" \in Events /\ TransportOf("StaDisconnected") = "Wifi"
        /\ "EthDisconnected" \in Events /\ TransportOf("EthDisconnected") = "Eth"
        /\ IsUp("StaDisconnected") = FALSE /\ IsUp("EthDisconnected") = FALSE
        /\ "Wifi" \in Transports /\ "Eth" \in Transports
    BY DEF Events, TransportOf, IsUp, Transports
  <1>6. \/ UNCHANGED drivers
        \/ /\ station \in {"connecting", "up"} /\ station' = "idle"
           /\ gw' = [gw EXCEPT !["Wifi"] = NoAddress]
           /\ Post("StaDisconnected") /\ UNCHANGED cable
        \/ /\ cable' = "stopped" /\ gw' = [gw EXCEPT !["Eth"] = NoAddress]
           /\ Post("EthDisconnected") /\ UNCHANGED station
    BY DEF WdReset, drivers
  <1>7. QED
    BY <1>3, <1>4, <1>5, <1>6

\* The restarted Ethernet driver has a link again, and no address yet.
LEMMA WdRestartKeeps ==
    ASSUME NetTypeOK, NetInv, WdRestart
    PROVE  NetTypeOK' /\ NetInv'
  <1>1. /\ wd' = IdleWd /\ wd.at = "restart"
        /\ UNCHANGED <<station, gw, inbox, links, mainAt, portal, streak, base, proof, budgets>>
        /\ cable' = IF cable = "stopped" THEN "link" ELSE cable
    BY DEF WdRestart
  <1>2. /\ wd' \in WdType /\ HandlerHolds' /\ Route'
        /\ Sampled' /\ Earned' /\ StreakIsBacked' /\ BaseIsBacked'
    BY <1>1, ResettingKeeps
  <1>3. cable' \in {"down", "link", "up", "stopped"} /\ Has' = Has
    BY <1>1 DEF NetTypeOK, Has
  <1>4. NetTypeOK'
    BY <1>1, <1>2, <1>3 DEF NetTypeOK, links, budgets
  <1>5. EventsTell'
    BY <1>1, <1>3, StillTells DEF NetInv, links
  <1>6. Pursued' /\ BootOrder'
    BY <1>1 DEF NetInv, Pursued, BootOrder, links
  <1>7. QED
    BY <1>2, <1>4, <1>5, <1>6 DEF NetInv

----------------------------------------------------------------------------
(* The initial state, every step, and what follows                         *)

\* The start of the boot satisfies the invariant.
LEMMA NetInitEstablishes ==
    ASSUME NetInit
    PROVE  NetTypeOK /\ NetInv
  <1>1. NetTypeOK
    <2>1. inbox \in Seq(Events) /\ Len(inbox) = 0
      BY DEF NetInit
    <2>2. NoAddress \in Addresses
      BY DEF Addresses
    <2>3. streak \in [of : Identities, fails : 0..kWatchFailsToRecover - 1]
          /\ base \in [Transports -> [of : Identities, ever : BOOLEAN]]
      BY RestTyped DEF NetInit, kWatchFailsToRecover
    <2>4. 0 \in 0..BootRetries /\ MaxTrouble \in 0..MaxTrouble /\ MaxSilent \in 0..MaxSilent
          /\ 0 <= MaxInbox
      BY NetAssumption
    <2>5. handler \in [event : Events \cup {"none"}, at : {"idle", "lease"}]
      BY DEF NetInit
    <2>6. gw \in [Transports -> Addresses] /\ proof \in [Transports -> ProofType]
      BY <2>2, RestTyped DEF NetInit
    <2>7. wd \in WdType /\ portal \in PortalType
      BY RestTyped DEF NetInit
    <2>8. QED
      BY <2>1, <2>3, <2>4, <2>5, <2>6, <2>7 DEF NetInit, NetTypeOK
  <1>2. EventsTell
    <2>1. Len(inbox) = 0 /\ handler.at = "idle"
      BY DEF NetInit
    <2>2. \A t \in Transports : lease[t] = Has[t]
      BY DEF NetInit, Has
    <2>3. QED
      BY <2>1, <2>2 DEF EventsTell
  <1>3. HandlerHolds /\ Pursued /\ Route /\ BootOrder
    BY DEF NetInit, HandlerHolds, Pursued, Route, BootOrder, net_link_active, Transports, NoPortal
  <1>4. Sampled /\ StreakIsBacked /\ BaseIsBacked /\ Earned
    BY DEF NetInit, Sampled, StreakIsBacked, BaseIsBacked, Earned, IdleWd, NoIdentity, Identity,
       Transports
  <1>5. QED
    BY <1>1, <1>2, <1>3, <1>4 DEF NetInv

\* Every step, and a step that changes nothing, keeps the invariant.
LEMMA NetNextKeeps ==
    ASSUME NetTypeOK, NetInv, [NetNext]_netVars
    PROVE  NetTypeOK' /\ NetInv'
  <1>1. CASE Drivers \/ StationDrops \/ GatewayMoves \/ CableIn \/ CableOut \/ EventTask
    BY <1>1, StationJoinsKeeps, CableLeasesKeeps, StationDropsKeeps, GatewayMovesKeeps, CableInKeeps,
       CableOutKeeps, AdvanceGenerationKeeps, PublishKeeps DEF Drivers, EventTask
  <1>2. CASE WireWait \/ WindowEnds \/ LastLook \/ PortalTask \/ PortalTime \/ PortalClient
    BY <1>2, WireWaitKeeps, WindowEndsKeeps, LastLookKeeps, PortalLeaveKeeps, PortalCloseKeeps,
       PortalAttemptKeeps, PortalTimeKeeps, PortalClientKeeps DEF PortalTask
  <1>3. CASE Watchdog
    BY <1>3, WdSnapshotKeeps, WdAddressKeeps, WdPingedKeeps, WdVerifyKeeps, WdRecheckKeeps,
       WdCompareKeeps, WdResetKeeps, WdRestartKeeps, WdFaultKeeps DEF Watchdog
  <1>4. CASE UNCHANGED netVars
    <2>1. NetTypeOK'
      BY <1>4 DEF NetTypeOK, netVars
    <2>2. EventsTell'
      BY <1>4, StillTells DEF NetInv, netVars, Has
    <2>3. HandlerHolds' /\ Pursued' /\ Route' /\ BootOrder'
      BY <1>4 DEF NetInv, netVars, HandlerHolds, Pursued, Route, BootOrder
    <2>4. Sampled' /\ StreakIsBacked' /\ BaseIsBacked' /\ Earned'
      BY <1>4 DEF NetInv, netVars, Sampled, StreakIsBacked, BaseIsBacked, Earned, SampleNow, Shown
    <2>5. QED
      BY <2>1, <2>2, <2>3, <2>4 DEF NetInv
  <1>5. QED
    BY <1>1, <1>2, <1>3, <1>4 DEF NetNext

\* Between events the route is that of the leases, and when all events are
\* handled the leases are those of the drivers.
LEMMA LinksFollow ==
    ASSUME NetTypeOK, NetInv
    PROVE  LinkSafe
  <1>1. LinkFollowsLeases
    <2>1. \/ link = "Eth" /\ lease["Eth"]
          \/ link = "Wifi" /\ lease["Wifi"] /\ ~lease["Eth"]
          \/ link = "None" /\ ~lease["Wifi"] /\ ~lease["Eth"]
      BY DEF NetInv, Route, net_link_active
    <2>2. ASSUME Quiet PROVE \A t \in Transports : lease[t] = Has[t]
      BY <2>2 DEF NetInv, EventsTell, Quiet
    <2>3. Quiet => lease["Wifi"] = (station = "up") /\ lease["Eth"] = (cable = "up")
      BY <2>2 DEF Has, Transports
    <2>4. QED
      BY <2>1, <2>3 DEF LinkFollowsLeases
  <1>2. StationIsPursued
    BY DEF NetInv, Pursued, HandlerHolds, StationIsPursued, Quiet
  <1>3. PortalFailsClosed
    BY DEF NetInv, BootOrder, PortalFailsClosed
  <1>4. QED
    BY <1>1, <1>2, <1>3 DEF LinkSafe

\* Only the last look of net_recover() leads to a reset, and it sees the generation
\* that the evidence is of.
LEMMA RecoverStep ==
    ASSUME NetTypeOK, NetInv, [NetNext]_netVars, wd.at = "compare", wd'.at = "reset"
    PROVE  LET t == wd.sample.transport
           IN /\ wd.sample.address \in proof[t].replied
              /\ proof[t].of = wd.sample.address
              /\ proof[t].fails >= kWatchFailsToRecover
  <1>1. WdCompare
    <2>1. wd' # wd
      OBVIOUS
    <2>2. Watchdog
      BY <2>1 DEF NetNext, netVars, watchdog, budgets, Drivers, StationJoins, CableLeases,
         StationDrops, GatewayMoves, CableIn, CableOut, EventTask, AdvanceGeneration, Publish,
         WireWait, WindowEnds, LastLook, PortalTask, PortalLeave, PortalClose, PortalAttempt,
         PortalTime, PortalClient
    <2>3. ~WdFault
      BY DEF WdFault, IdleWd
    <2>4. QED
      BY <2>2, <2>3 DEF Watchdog, WdSnapshot, WdAddress, WdPinged, WdVerify, WdRecheck, WdReset,
         WdRestart
  <1>2. SampleNow
    BY <1>1 DEF WdCompare, SampleNow, IdleWd
  <1>3. QED
    BY <1>2 DEF NetInv, Earned, SampleNow, Shown

\* The link of the device and the memory of its watchdog, whatever order
\* the drivers' events, the boot and the probes are interleaved in.
THEOREM NetInvariant == NetSpec => [](NetTypeOK /\ NetInv)
  <1>1. NetInit => NetTypeOK /\ NetInv
    BY NetInitEstablishes
  <1>2. NetTypeOK /\ NetInv /\ [NetNext]_netVars => (NetTypeOK /\ NetInv)'
    BY NetNextKeeps
  <1>3. QED
    BY <1>1, <1>2, PTL DEF NetSpec

\* The published route has a lease behind it, a station without an address
\* is pursued, and boot never goes on beside an open access point
\* (recompute_link(), wifi_retry_action(), portal_step()).
THEOREM LinksAreSafe == NetSpec => []LinkSafe
  <1>1. NetTypeOK /\ NetInv => LinkSafe
    BY LinksFollow
  <1>2. QED
    BY <1>1, NetInvariant, PTL

\* The watchdog decides to reset only a transport whose gateway answered, and
\* then was silent twice, in the generation current at its last look
\* (net_recover()); the driver call comes later and is not compared again.
THEOREM RecoveriesAreEarned == NetSpec => RecoverIsEarned
  <1>1. NetTypeOK /\ NetInv /\ [NetNext]_netVars =>
          [wd.at = "compare" /\ wd'.at = "reset"
              => LET t == wd.sample.transport
                 IN /\ wd.sample.address \in proof[t].replied
                    /\ proof[t].of = wd.sample.address
                    /\ proof[t].fails >= kWatchFailsToRecover]_netVars
    BY RecoverStep
  <1>2. QED
    BY <1>1, NetInvariant, PTL DEF NetSpec, RecoverIsEarned
==============================================================================
