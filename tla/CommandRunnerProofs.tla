------------------------ MODULE CommandRunnerProofs ------------------------
(***************************************************************************)
(* Theorems about CommandRunner, for every set of command kinds, fault     *)
(* codes and request UUIDs, every queue size and every bound.              *)
(***************************************************************************)
EXTENDS CommandRunner, TLAPS

----------------------------------------------------------------------------
(* The operators on one command keep its type.                             *)

LEMMA NewCommandType ==
    ASSUME NEW k \in Kinds, NEW g \in Nat
    PROVE  NewCommand(k, g) \in CmdType
  BY DEF NewCommand, CmdType, States, Outcomes

LEMMA FinishType ==
    ASSUME NEW c \in CmdType, NEW success \in BOOLEAN, NEW failure \in Failures
    PROVE  Finish(c, success, failure) \in CmdType
  BY DEF Finish, CmdType, States, Outcomes, Failures

LEMMA FailType ==
    ASSUME NEW c \in CmdType
    PROVE  Fail(c) \in CmdType
  BY FinishType DEF Fail, Failures

LEMMA ScheduleRetryType ==
    ASSUME NEW c \in CmdType
    PROVE  ScheduleRetry(c) \in CmdType
  <1>1. c.tries + 1 \in Nat
    BY DEF CmdType
  <1>2. [c EXCEPT !.tries = c.tries + 1] \in CmdType
    BY <1>1 DEF CmdType
  <1>3. QED
    BY <1>2 DEF ScheduleRetry, CmdType, States

LEMMA ConfirmWakeType ==
    ASSUME NEW c \in CmdType
    PROVE  ConfirmWake(c) \in CmdType
  BY DEF ConfirmWake, CmdType, States

LEMMA PreparedType ==
    ASSUME NEW c \in CmdType
    PROVE  Prepared(c) \in CmdType
  <1>1. [c EXCEPT !.backoff = FALSE] \in CmdType
    BY DEF CmdType
  <1>2. QED
    BY <1>1, ConfirmWakeType DEF Prepared

LEMMA TxStartedType ==
    ASSUME NEW c \in CmdType, NEW act \in TxActions, NEW u \in Uuids
    PROVE  TxStarted(c, act, u) \in CmdType
  BY UuidsAssumption DEF TxStarted, CmdType

LEMMA TxCompleteType ==
    ASSUME NEW c \in CmdType, NEW act \in TxActions, NEW u \in Uuids
    PROVE  TxComplete(c, act, u) \in CmdType
  <1>1. Finish(c, TRUE, "DefinitelyFailed") \in CmdType
    BY FinishType DEF Failures
  <1>2. [c EXCEPT !.state = "AwaitingResponse", !.req = IF @ = 0 THEN u ELSE @] \in CmdType
    BY UuidsAssumption DEF CmdType, States, Waiting
  <1>3. QED
    BY <1>1, <1>2 DEF TxComplete

LEMMA TxFailedType ==
    ASSUME NEW c \in CmdType
    PROVE  TxFailed(c) \in CmdType
  BY FailType, ScheduleRetryType DEF TxFailed

LEMMA FaultEffectType ==
    ASSUME NEW c \in CmdType, NEW code, NEW rejected \in BOOLEAN
    PROVE  FaultEffect(c, code, rejected) \in CmdType
  <1> DEFINE cleared == rejected /\ known(code) /\ ~possible_success(code)
             d == [c EXCEPT !.maybe = @ /\ ~cleared]
  <1>1. d \in CmdType
    BY DEF CmdType
  <1>2. fault_outcome(code, rejected, c.maybe) \in Failures
    BY DEF fault_outcome, Failures
  <1>3. Finish(d, FALSE, fault_outcome(code, rejected, c.maybe)) \in CmdType
    BY <1>1, <1>2, FinishType
  <1>4. ScheduleRetry(d) \in CmdType
    BY <1>1, ScheduleRetryType
  <1>5. QED
    BY <1>3, <1>4 DEF FaultEffect

LEMMA RespondType ==
    ASSUME NEW c \in CmdType, NEW r
    PROVE  Respond(c, r) \in CmdType
  <1> DEFINE d == [c EXCEPT !.maybe = @ /\ ~(r.auth /\ r.body \in {"Error", "NoOp"})]
             s == Finish(d, TRUE, "DefinitelyFailed")
  <1>1. d \in CmdType
    BY DEF CmdType
  <1>2. s \in CmdType
    BY <1>1, FinishType DEF Failures
  <1>3. Fail(d) \in CmdType
    BY <1>1, FailType
  <1>4. [s EXCEPT !.noop = TRUE] \in CmdType
    BY <1>2 DEF CmdType
  <1> HIDE DEF d, s
  <1>5. Respond(c, r) = CASE r.body = "NoOp" -> [s EXCEPT !.noop = TRUE]
                          [] r.body = "Error" -> Fail(d)
                          [] OTHER -> s
    BY DEF Respond, d, s
  <1>6. QED
    BY <1>2, <1>3, <1>4, <1>5

----------------------------------------------------------------------------
(* The building blocks of the actions keep the type of the state.          *)

LEMMA CallbackEffectType ==
    ASSUME TypeOK, NEW c \in CmdType, NEW d \in CmdType
    PROVE  CallbackEffect(c, d) \in Outcomes
  BY DEF TypeOK, CallbackEffect, CmdType

LEMMA PutType ==
    ASSUME TypeOK, NEW i \in Ids, NEW c \in CmdType, Put(i, c)
    PROVE  /\ cmd' \in [Ids -> CmdType]
           /\ completion' \in Outcomes
           /\ slots' \subseteq SlotType
  <1>1. cmd[i] \in CmdType
    BY DEF TypeOK
  <1>2. QED
    BY <1>1, CallbackEffectType DEF TypeOK, Put

LEMMA NoCtxType == NoCtx \in CtxType
  BY DEF NoCtx, CtxType, CtxKinds

LEMMA DriveFrontType ==
    ASSUME TypeOK, DriveFront < next
    PROVE  /\ DriveFront \in Ids
           /\ DriveFront + 1 \in 1..(MaxCommands + 1)
           /\ DriveFront + 1 <= next
           /\ cmd[DriveFront] \in CmdType
  BY BoundsAssumption DEF TypeOK, DriveFront, Ids

LEMMA QuietType ==
    ASSUME TypeOK, NEW f \in Ids, f < next, NEW c \in CmdType, Quiet(f, c)
    PROVE  TypeOK'
  <1>1. /\ cmd' \in [Ids -> CmdType]
        /\ completion' \in Outcomes
        /\ slots' \subseteq SlotType
    BY PutType DEF Quiet
  <1>2. front' \in 1..(MaxCommands + 1) /\ front' <= next'
    BY BoundsAssumption DEF Quiet, TypeOK, Ids
  <1>3. ctx' \in CtxType /\ due' \in BOOLEAN
    BY NoCtxType DEF Quiet, TypeOK
  <1>4. QED
    BY <1>1, <1>2, <1>3 DEF TypeOK, Quiet, carVars

LEMMA SubmittedType ==
    ASSUME TypeOK, NEW f \in Ids, NEW act, NEW u \in Uuids
    PROVE  Submitted(f, act, u) \subseteq FrameType
  BY DEF TypeOK, Submitted, FrameType

LEMMA WriteFailsType ==
    ASSUME TypeOK, NEW f \in Ids, NEW c \in CmdType, NEW act \in TxActions, NEW u \in Uuids,
           WriteFails(f, c, act, u)
    PROVE  /\ cmd' \in [Ids -> CmdType]
           /\ completion' \in Outcomes
           /\ slots' \subseteq SlotType
           /\ ctx' \in CtxType
           /\ infoReq' \in Uuids \cup {0}
           /\ air' \subseteq FrameType
  <1>1. TxFailed(TxStarted(c, act, u)) \in CmdType
    BY TxStartedType, TxFailedType
  <1>2. /\ cmd' \in [Ids -> CmdType]
        /\ completion' \in Outcomes
        /\ slots' \subseteq SlotType
    BY <1>1, PutType DEF WriteFails
  <1>3. air' \subseteq FrameType
    BY SubmittedType DEF WriteFails, TypeOK
  <1>4. QED
    BY <1>2, <1>3, NoCtxType, UuidsAssumption DEF WriteFails, TypeOK

LEMMA WriteSucceedsType ==
    ASSUME TypeOK, NEW f \in Ids, NEW c \in CmdType, NEW act \in TxActions, NEW u \in Uuids,
           WriteSucceeds(f, c, act, u)
    PROVE  /\ cmd' \in [Ids -> CmdType]
           /\ completion' \in Outcomes
           /\ slots' \subseteq SlotType
           /\ ctx' \in CtxType
           /\ infoReq' \in Uuids \cup {0}
           /\ air' \subseteq FrameType
  <1> DEFINE d == TxComplete(TxStarted(c, act, u), act, u)
  <1>1. d \in CmdType
    BY TxStartedType, TxCompleteType
  <1>2. cmd[f] \in CmdType
    BY DEF TypeOK
  <1>3. c.kind \in KindType /\ d.req \in Nat /\ d.uuid \in Nat
    BY <1>1, KindsAssumption DEF CmdType
  <1>4. CtxKind(c, act) \in CtxKinds
    BY <1>3 DEF CtxKind, CtxKinds, KindType
  <1> HIDE DEF d
  <1>5. cmd' \in [Ids -> CmdType] /\ completion' \in Outcomes
    BY <1>1, <1>2, CallbackEffectType DEF WriteSucceeds, TypeOK, d
  <1>6. slots' \subseteq SlotType
    BY <1>3 DEF WriteSucceeds, TypeOK, SlotType, KindType, d
  <1>7. ctx' \in CtxType
    <2>1. [kind |-> CtxKind(c, act), id |-> f, att |-> u, gen |-> generation] \in CtxType
      BY <1>4, UuidsAssumption, BoundsAssumption DEF CtxType, TypeOK, Ids
    <2>2. QED
      BY <2>1, NoCtxType DEF WriteSucceeds
  <1>8. air' \subseteq FrameType /\ infoReq' \in Uuids \cup {0}
    BY SubmittedType, UuidsAssumption DEF WriteSucceeds, TypeOK
  <1>9. QED
    BY <1>5, <1>6, <1>7, <1>8

LEMMA TransmitType ==
    ASSUME TypeOK, NEW f \in Ids, f < next, NEW c \in CmdType, NEW act \in TxActions,
           Transmit(f, c, act)
    PROVE  TypeOK'
  <1> DEFINE Built == /\ cmd' \in [Ids -> CmdType]
                      /\ completion' \in Outcomes
                      /\ slots' \subseteq SlotType
                      /\ ctx' \in CtxType
                      /\ infoReq' \in Uuids \cup {0}
                      /\ air' \subseteq FrameType
  <1>1. Built
    <2>1. CASE BuildFails(f, c)
      <3>1. Fail(c) \in CmdType
        BY FailType
      <3>2. QED
        BY <2>1, <3>1, PutType, NoCtxType DEF BuildFails, TypeOK
    <2>2. CASE \E u \in Uuids : WriteFails(f, c, act, u) \/ WriteSucceeds(f, c, act, u)
      BY <2>2, WriteFailsType, WriteSucceedsType
    <2>3. QED
      BY <2>1, <2>2 DEF Transmit
  <1>2. front' \in 1..(MaxCommands + 1) /\ front' <= next' /\ next' = next
    BY BoundsAssumption DEF Transmit, TypeOK, Ids
  <1>3. QED
    BY <1>1, <1>2 DEF Transmit, TypeOK

----------------------------------------------------------------------------
(* Type correctness of every group of actions.                             *)

LEMMA DriveTypeOK ==
    ASSUME TypeOK, Drive
    PROVE  TypeOK'
  <1>1. CASE DriveIdle
    <2>1. front' = next /\ next' = next /\ front' \in 1..(MaxCommands + 1) /\ front' <= next'
      BY <1>1, BoundsAssumption DEF DriveIdle, TypeOK
    <2>2. UNCHANGED <<cmd, expired, generation, caller, completion, result, session, slots,
                      infoReq, sleep, air, wire, executed, link>>
      BY <1>1 DEF DriveIdle, callerVars, carVars
    <2>3. ctx' \in CtxType /\ due' \in BOOLEAN
      BY <1>1, NoCtxType DEF DriveIdle
    <2>4. QED
      BY <2>1, <2>2, <2>3 DEF TypeOK
  <1>2. CASE DriveFront < next /\ ~DriveIdle
    <2> DEFINE f == DriveFront
               c == cmd[f]
               p == Prepared(c)
    <2>1. f \in Ids /\ f < next /\ c \in CmdType /\ p \in CmdType /\ Fail(c) \in CmdType
          /\ Fail(p) \in CmdType
      BY <1>2, DriveFrontType, PreparedType, FailType
    <2> HIDE DEF f, c, p
    <2>2. CASE DriveCompleted(f) \/ DriveOffline(f) \/ DriveBackoff(f) \/ DriveAwait(f)
      BY <2>1, <2>2, QuietType
         DEF DriveCompleted, DriveOffline, DriveBackoff, DriveAwait, c
    <2>3. CASE DriveDeadline(f)
      BY <2>1, <2>3, QuietType DEF DriveDeadline, c
    <2>4. CASE DriveResponseTimeout(f)
      <3> DEFINE d == [c EXCEPT !.tries = @ + 1, !.backoff = TRUE, !.state = "Ready",
                                !.req = 0]
      <3>1. c.tries + 1 \in Nat
        BY <2>1 DEF CmdType
      <3>2. d \in CmdType
        BY <2>1, <3>1 DEF CmdType, States
      <3>3. Quiet(f, d) \/ Quiet(f, Fail(c))
        BY <2>4 DEF DriveResponseTimeout, c
      <3>4. QED
        BY <2>1, <3>2, <3>3, QuietType
    <2>5. CASE DriveStepWait(f)
      BY <2>1, <2>5, QuietType DEF DriveStepWait, c, p
    <2>6. CASE DriveStepTimeout(f)
      <3> DEFINE d == [p EXCEPT !.tries = @ + 1, !.backoff = TRUE, !.awakeOk = FALSE,
                                !.state = "Idle"]
      <3>1. p.tries + 1 \in Nat
        BY <2>1 DEF CmdType
      <3>2. d \in CmdType
        BY <2>1, <3>1 DEF CmdType, States
      <3>3. Quiet(f, d) \/ Quiet(f, Fail(p))
        BY <2>6 DEF DriveStepTimeout, c, p
      <3>4. QED
        BY <2>1, <3>2, <3>3, QuietType
    <2>7. CASE DriveVcsecAuth(f)
      <3>1. [p EXCEPT !.state = "WaitingVcsecAuth"] \in CmdType
        BY <2>1 DEF CmdType, States, Waiting
      <3>2. Transmit(f, [p EXCEPT !.state = "WaitingVcsecAuth"], "SessionInfo")
        BY <2>7 DEF DriveVcsecAuth, c, p
      <3>3. QED
        BY <2>1, <3>1, <3>2, TransmitType DEF TxActions
    <2>8. CASE DriveAsleep(f)
      <3> DEFINE d == [Fail(p) EXCEPT !.state = IF p.kind.wake = "NoWakeSkip" THEN "Skipped"
                                                ELSE "Failed"]
      <3>1. d \in CmdType
        BY <2>1 DEF CmdType, States
      <3>2. Quiet(f, d)
        BY <2>8 DEF DriveAsleep, c, p
      <3>3. QED
        BY <2>1, <3>1, <3>2, QuietType
    <2>9. CASE DriveWake(f)
      <3>1. [p EXCEPT !.state = "WaitingWake"] \in CmdType
        BY <2>1 DEF CmdType, States, Waiting
      <3>2. Transmit(f, [p EXCEPT !.state = "WaitingWake"], "Wake")
        BY <2>9 DEF DriveWake, c, p
      <3>3. QED
        BY <2>1, <3>1, <3>2, TransmitType DEF TxActions
    <2>10. CASE DriveInfoAuth(f)
      <3>1. [p EXCEPT !.state = "WaitingInfoAuth"] \in CmdType
        BY <2>1 DEF CmdType, States, Waiting
      <3>2. Transmit(f, [p EXCEPT !.state = "WaitingInfoAuth"], "InfoSession")
        BY <2>10 DEF DriveInfoAuth, c, p
      <3>3. QED
        BY <2>1, <3>1, <3>2, TransmitType DEF TxActions
    <2>11. CASE DrivePayload(f)
      <3>1. [p EXCEPT !.state = "Ready"] \in CmdType
        BY <2>1 DEF CmdType, States
      <3>2. Transmit(f, [p EXCEPT !.state = "Ready"], "Payload")
        BY <2>11 DEF DrivePayload, c, p
      <3>3. QED
        BY <2>1, <3>1, <3>2, TransmitType DEF TxActions
    <2>12. QED
      BY <1>2, <2>2, <2>3, <2>4, <2>5, <2>6, <2>7, <2>8, <2>9, <2>10, <2>11 DEF Drive, f
  <1>3. QED
    BY <1>1, <1>2 DEF Drive

LEMMA RxTypeOK ==
    ASSUME TypeOK, Rx
    PROVE  TypeOK'
  <1> DEFINE Same == UNCHANGED <<front, next, expired, generation, caller, result, infoReq,
                                 air, wire, executed, link>>
             Head == /\ cmd' \in [Ids -> CmdType]
                     /\ completion' \in Outcomes
                     /\ slots' \subseteq SlotType
  <1>1. ASSUME Same, Head, due' \in BOOLEAN, ctx' \in CtxType, session' \in [Domains -> BOOLEAN],
               sleep' \in {"Unknown", "Asleep", "Awake"}
        PROVE  TypeOK'
    BY <1>1 DEF TypeOK
  <1>2. CtxAsked \in CtxType
    BY NoCtxType DEF TypeOK, CtxAsked
  <1>3. HasCommand => front \in Ids /\ Current \in CmdType
    BY BoundsAssumption DEF TypeOK, HasCommand, Current, Ids
  <1>4. ASSUME NEW c \in CmdType, HasCommand, Put(front, c)
        PROVE  Head
    BY <1>3, <1>4, PutType
  <1>5. RxUnchanged => Same /\ due' \in BOOLEAN
    BY DEF RxUnchanged, carVars, TypeOK
  <1>6. ASSUME NEW r \in wire, NEW empty \in BOOLEAN, RxSession(r)
        PROVE  TypeOK'
    <2> DEFINE c == IF AwaitsAuth(r.dom) THEN [Current EXCEPT !.state = "Idle"] ELSE Current
    <2>1. HasCommand
      BY <1>6 DEF RxSession, Matches
    <2>2. c \in CmdType
      BY <1>3, <2>1 DEF CmdType, States
    <2>3. Head
      BY <1>4, <1>6, <2>1, <2>2 DEF RxSession
    <2>4. session' \in [Domains -> BOOLEAN]
      BY <1>6 DEF RxSession, TypeOK
    <2>5. QED
      BY <1>1, <1>5, <1>6, <2>3, <2>4 DEF RxSession, TypeOK
  <1>7. ASSUME NEW r \in wire, RxSessionBad(r)
        PROVE  TypeOK'
    <2>1. HasCommand
      BY <1>7 DEF RxSessionBad, Matches
    <2>2. Head
      BY <1>3, <1>4, <1>7, <2>1, FailType DEF RxSessionBad
    <2>3. QED
      BY <1>1, <1>5, <1>7, <2>2 DEF RxSessionBad, TypeOK
  <1>8. ASSUME NEW r \in wire, NEW empty \in BOOLEAN, RxFault(r, empty)
        PROVE  TypeOK'
    <2>1. HasCommand
      BY <1>8 DEF RxFault, FaultAdmitted, Matches
    <2>2. PayloadRejection(r) \in BOOLEAN
      BY DEF PayloadRejection
    <2>3. FaultEffect(Current, r.code, PayloadRejection(r)) \in CmdType
      BY <1>3, <2>1, <2>2, FaultEffectType
    <2>4. Head
      BY <1>4, <1>8, <2>1, <2>3 DEF RxFault
    <2>5. session' \in [Domains -> BOOLEAN]
      BY <1>8 DEF RxFault, TypeOK
    <2>6. Same /\ due' \in BOOLEAN /\ ctx' \in CtxType
      BY <1>8, NoCtxType DEF RxFault, carVars
    <2>7. QED
      BY <1>1, <1>8, <2>4, <2>5, <2>6 DEF RxFault, TypeOK
  <1>9. ASSUME NEW r \in wire, NEW empty \in BOOLEAN,
               VcsecAdmitted(r, empty) \/ InfoAdmitted(r), Put(front, Respond(Current, r))
        PROVE  Head
    <2>1. HasCommand
      BY <1>9 DEF VcsecAdmitted, InfoAdmitted, Matches
    <2>2. QED
      BY <1>3, <1>4, <1>9, <2>1, RespondType
  <1>10. ASSUME NEW r \in wire, NEW empty \in BOOLEAN,
                RxVcsecResult(r, empty) \/ RxInfoResult(r)
         PROVE  TypeOK'
    BY <1>1, <1>5, <1>9, <1>10 DEF RxVcsecResult, RxInfoResult, TypeOK
  <1>11. ASSUME NEW r \in wire, NEW empty \in BOOLEAN,
                NEW s \in {"Unknown", "Asleep", "Awake"}, RxVcsecStatus(r, empty, s)
         PROVE  TypeOK'
    BY <1>1, <1>5, <1>9, <1>11 DEF RxVcsecStatus, TypeOK
  <1>12. ASSUME NEW r \in wire, NEW empty \in BOOLEAN, RxDrop(r, empty)
         PROVE  TypeOK'
    BY <1>1, <1>2, <1>5, <1>12 DEF RxDrop, RxDropped, TypeOK
  <1>13. ASSUME NEW s \in {"Unknown", "Asleep", "Awake"}, NEW closures \in BOOLEAN,
                RxBroadcast(s, closures)
         PROVE  TypeOK'
    <2>1. Head
      BY <1>3, <1>4, <1>13, ConfirmWakeType DEF RxBroadcast, TypeOK
    <2>2. ctx' \in CtxType
      BY <1>2, <1>13 DEF RxBroadcast, TypeOK
    <2>3. QED
      BY <1>1, <1>5, <1>13, <2>1, <2>2 DEF RxBroadcast, TypeOK
  <1>14. QED
    BY <1>6, <1>7, <1>8, <1>10, <1>11, <1>12, <1>13 DEF Rx

LEMMA LinkTypeOK ==
    ASSUME TypeOK, Link
    PROVE  TypeOK'
  <1>1. CASE LinkLoss \/ LinkUp
    BY <1>1 DEF LinkLoss, LinkUp, TypeOK, queueVars, callerVars, protoVars, carVars
  <1>2. CASE ApplyLinkDown
    <2>1. HasCommand => front \in Ids /\ Current \in CmdType /\ Fail(Current) \in CmdType
      BY BoundsAssumption, FailType DEF TypeOK, HasCommand, Current, Ids
    <2>2. cmd' \in [Ids -> CmdType] /\ completion' \in Outcomes
      BY <1>2, <2>1, CallbackEffectType DEF ApplyLinkDown, TypeOK
    <2>3. QED
      BY <1>2, <2>2, NoCtxType DEF ApplyLinkDown, TypeOK, carVars
  <1>3. QED
    BY <1>1, <1>2 DEF Link

LEMMA CallersTypeOK ==
    ASSUME TypeOK, Callers
    PROVE  TypeOK'
  <1> USE DEF callerVars, protoVars, carVars, queueVars
  <1>1. ASSUME NEW k \in Kinds, NEW g \in Nat, next <= MaxCommands, Enqueue(k, g)
        PROVE  /\ cmd' \in [Ids -> CmdType]
               /\ next' \in 1..(MaxCommands + 1)
               /\ front <= next'
               /\ next \in Nat
    <2>1. NewCommand(k, g) \in CmdType
      BY <1>1, NewCommandType
    <2>2. cmd' \in [Ids -> CmdType]
      BY <1>1, <2>1 DEF Enqueue, TypeOK
    <2>3. next' = next + 1 /\ next \in Nat /\ next' <= MaxCommands + 1 /\ front <= next'
      BY <1>1, BoundsAssumption DEF Enqueue, TypeOK
    <2>4. QED
      BY <2>2, <2>3, BoundsAssumption
  <1>2. ASSUME NEW k \in Kinds, CallerEnqueue(k)
        PROVE  TypeOK'
    <2>1. generation + 1 \in Nat
      BY DEF TypeOK
    <2>2. CASE IsFull
      BY <1>2, <2>1, <2>2 DEF CallerEnqueue, TypeOK, Outcomes
    <2>3. CASE ~IsFull
      <3>1. /\ cmd' \in [Ids -> CmdType]
            /\ next' \in 1..(MaxCommands + 1)
            /\ front <= next'
            /\ next \in Nat
        BY <1>1, <1>2, <2>1, <2>3 DEF CallerEnqueue
      <3>2. caller' \in CallerType
        BY <1>2, <2>3, <3>1 DEF CallerEnqueue, CallerType
      <3>3. QED
        BY <1>2, <2>1, <3>1, <3>2 DEF CallerEnqueue, TypeOK, Outcomes
    <2>4. QED
      BY <2>2, <2>3
  <1>3. ASSUME NEW k \in Kinds, PollEnqueue(k)
        PROVE  TypeOK'
    <2>1. /\ cmd' \in [Ids -> CmdType]
          /\ next' \in 1..(MaxCommands + 1)
          /\ front <= next'
      BY <1>1, <1>3 DEF PollEnqueue
    <2>2. QED
      BY <1>3, <2>1 DEF PollEnqueue, TypeOK
  <1>4. CASE CallerSignalled
    <2>1. caller' \in CallerType
      BY <1>4 DEF CallerSignalled, TypeOK, CallerType
    <2>2. result' \in [Ids -> Outcomes]
      BY <1>4 DEF CallerSignalled, TypeOK
    <2>3. QED
      BY <1>4, <2>1, <2>2 DEF CallerSignalled, TypeOK
  <1>5. CASE CallerTimesOut
    <2>1. caller' \in CallerType
      BY <1>5 DEF CallerTimesOut, TypeOK, CallerType
    <2>2. QED
      BY <1>5, <2>1 DEF CallerTimesOut, TypeOK
  <1>6. CASE CallerSnapshot
    <2>1. caller.id \in Nat
      BY DEF TypeOK, CallerType
    <2>2. front <= caller.id /\ caller.id < next => caller.id \in Ids
      BY <2>1, BoundsAssumption DEF TypeOK, Ids
    <2>3. PendingFailure(caller.id) \in Outcomes
      BY <2>2 DEF PendingFailure, TypeOK, Outcomes, Failures, CmdType
    <2>4. result' \in [Ids -> Outcomes]
      BY <1>6, <2>3 DEF CallerSnapshot, TypeOK, Outcomes, Failures
    <2>5. caller' \in CallerType
      BY <1>6 DEF CallerSnapshot, TypeOK, CallerType
    <2>6. QED
      BY <1>6, <2>4, <2>5 DEF CallerSnapshot, TypeOK
  <1>7. CASE CallerFlush
    <2>1. cmd' \in [Ids -> CmdType]
      BY <1>7, FailType DEF CallerFlush, TypeOK
    <2>2. caller' \in CallerType
      BY <1>7 DEF CallerFlush, TypeOK, CallerType
    <2>3. generation' \in Nat /\ front' \in 1..(MaxCommands + 1) /\ front' <= next'
      BY <1>7, BoundsAssumption DEF CallerFlush, TypeOK
    <2>4. QED
      BY <1>7, <2>1, <2>2, <2>3, NoCtxType DEF CallerFlush, TypeOK
  <1>8. CASE CallerPop
    <2>1. caller' \in CallerType
      BY <1>8 DEF CallerPop, TypeOK, CallerType
    <2>2. front' \in 1..(MaxCommands + 1) /\ front' <= next' /\ slots' \subseteq SlotType
      BY <1>8, BoundsAssumption DEF CallerPop, TypeOK, HasCommand
    <2>3. due' \in BOOLEAN
      BY <1>8 DEF CallerPop, TypeOK
    <2>4. QED
      BY <1>8, <2>1, <2>2, <2>3 DEF CallerPop, TypeOK
  <1>9. QED
    BY <1>2, <1>3, <1>4, <1>5, <1>6, <1>7, <1>8 DEF Callers, CallerStep

LEMMA TimeTypeOK ==
    ASSUME TypeOK, Time
    PROVE  TypeOK'
  BY DEF Time, PhaseRunsOut, DeadlinePasses, TypeOK, callerVars, protoVars, carVars

LEMMA ReplyIsReply ==
    ASSUME TypeOK, NEW fr \in air, NEW body \in Bodies, NEW auth \in BOOLEAN,
           NEW code \in Codes \cup {0}, NEW info \in BOOLEAN
    PROVE  Reply(fr, body, auth, code, info) \in ReplyType
  <1>1. fr.id \in Ids /\ fr.att \in Uuids
    BY DEF TypeOK, FrameType
  <1>2. cmd[fr.id].kind \in KindType
    BY <1>1, KindsAssumption DEF TypeOK, CmdType
  <1>3. FrameDomain(fr) \in Domains
    BY <1>2 DEF FrameDomain, KindType
  <1>4. QED
    BY <1>1, <1>3 DEF Reply, ReplyType

LEMMA CarTypeOK ==
    ASSUME TypeOK, Car
    PROVE  TypeOK'
  <1>1. ASSUME CarUnchanged, air' \subseteq FrameType, wire' \subseteq ReplyType,
               executed' \in [Ids -> Nat]
        PROVE  TypeOK'
    BY <1>1 DEF TypeOK, CarUnchanged, queueVars, callerVars, protoVars
  <1>2. ASSUME NEW r \in ReplyType, Answers(r)
        PROVE  wire' \subseteq ReplyType
    BY <1>2 DEF Answers, TypeOK
  <1>3. ASSUME NEW fr \in air, CarIgnores(fr)
        PROVE  TypeOK'
    BY <1>1, <1>3 DEF CarIgnores, TypeOK
  <1>4. ASSUME NEW fr \in air, CarExecutes(fr)
        PROVE  TypeOK'
    <2>1. wire' \subseteq ReplyType
      BY <1>2, <1>4, ReplyIsReply DEF CarExecutes, Bodies
    <2>2. executed' \in [Ids -> Nat]
      BY <1>4 DEF CarExecutes, TypeOK, FrameType
    <2>3. QED
      BY <1>1, <1>4, <2>1, <2>2 DEF CarExecutes, TypeOK
  <1>5. ASSUME NEW fr \in air, CarRefuses(fr)
        PROVE  TypeOK'
    <2>1. wire' \subseteq ReplyType
      BY <1>2, <1>5, ReplyIsReply DEF CarRefuses, Bodies
    <2>2. QED
      BY <1>1, <1>5, <2>1 DEF CarRefuses, TypeOK
  <1>6. ASSUME NEW d \in Domains, Latest(d) # 0
        PROVE  Latest(d) \in Uuids
    BY <1>6 DEF Latest, TypeOK, CtxType
  <1>7. ASSUME NEW d \in Domains, CarSession(d)
        PROVE  TypeOK'
    <2>1. wire' \subseteq ReplyType
      <3>1. PICK body \in {"Session", "SessionBad"} :
                wire' = wire \cup {[dom |-> d, att |-> Latest(d), body |-> body,
                                    auth |-> TRUE, code |-> 0, info |-> FALSE]}
        BY <1>7 DEF CarSession
      <3>2. Latest(d) \in Uuids
        BY <1>6, <1>7 DEF CarSession
      <3>3. [dom |-> d, att |-> Latest(d), body |-> body, auth |-> TRUE, code |-> 0,
             info |-> FALSE] \in ReplyType
        BY <3>2 DEF ReplyType, Bodies
      <3>4. QED
        BY <3>1, <3>3 DEF TypeOK
    <2>2. QED
      BY <1>1, <1>7, <2>1 DEF CarSession, TypeOK
  <1>8. ASSUME NEW d \in Domains, UnsignedError(d)
        PROVE  TypeOK'
    <2>1. wire' \subseteq ReplyType
      <3>1. PICK body \in {"Error", "Fault"}, code \in Codes :
                wire' = wire \cup {[dom |-> d, att |-> Latest(d), body |-> body,
                                    auth |-> FALSE,
                                    code |-> IF body = "Fault" THEN code ELSE 0,
                                    info |-> FALSE]}
        BY <1>8 DEF UnsignedError
      <3>2. Latest(d) \in Uuids
        BY <1>6, <1>8 DEF UnsignedError
      <3>3. [dom |-> d, att |-> Latest(d), body |-> body, auth |-> FALSE,
             code |-> IF body = "Fault" THEN code ELSE 0, info |-> FALSE] \in ReplyType
        BY <3>2 DEF ReplyType, Bodies
      <3>4. QED
        BY <3>1, <3>3 DEF TypeOK
    <2>2. QED
      BY <1>1, <1>8, <2>1 DEF UnsignedError, TypeOK
  <1>9. ASSUME NEW r \in wire, WireLoses(r)
        PROVE  TypeOK'
    BY <1>1, <1>9 DEF WireLoses, TypeOK
  <1>10. QED
    BY <1>3, <1>4, <1>5, <1>7, <1>8, <1>9 DEF Car

LEMMA InitTypeOK == Init => TypeOK
  <1> SUFFICES ASSUME Init PROVE TypeOK
    OBVIOUS
  <1>1. (CHOOSE k \in Kinds : TRUE) \in Kinds
    BY KindsAssumption
  <1>2. NewCommand(CHOOSE k \in Kinds : TRUE, 0) \in CmdType
    BY <1>1, NewCommandType
  <1>3. cmd \in [Ids -> CmdType]
    BY <1>2 DEF Init
  <1>4. front \in 1..(MaxCommands + 1) /\ next \in 1..(MaxCommands + 1) /\ front <= next
    BY BoundsAssumption DEF Init
  <1>5. result \in [Ids -> Outcomes] /\ completion \in Outcomes
    BY DEF Init, Outcomes
  <1>6. session \in [Domains -> BOOLEAN] /\ executed \in [Ids -> Nat]
    BY DEF Init
  <1>7. caller \in CallerType
    BY DEF Init, CallerType
  <1>8. QED
    BY <1>3, <1>4, <1>5, <1>6, <1>7, NoCtxType DEF Init, TypeOK

\* Every reachable state of the command path is well typed: the FIFO never runs past its
\* ids, no counter turns negative, no command, context, slot or reply is malformed,
\* whatever the kinds of command, fault codes and bounds.
THEOREM TypeCorrect == Spec => []TypeOK
  <1>1. Init => TypeOK
    BY InitTypeOK
  <1>2. TypeOK /\ [Next]_vars => TypeOK'
    <2>1. CASE Next
      BY <2>1, DriveTypeOK, RxTypeOK, LinkTypeOK, CallersTypeOK, TimeTypeOK, CarTypeOK
         DEF Next
    <2>2. CASE UNCHANGED vars
      BY <2>2 DEF vars, queueVars, callerVars, protoVars, carVars, TypeOK
    <2>3. QED
      BY <2>1, <2>2
  <1>3. QED
    BY <1>1, <1>2, PTL DEF Spec

=============================================================================
