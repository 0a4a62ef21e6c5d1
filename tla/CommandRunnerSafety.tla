------------------------ MODULE CommandRunnerSafety ------------------------
(***************************************************************************)
(* AtMostOnce, HonestFailure, HonestSuccess and SlotDiscipline for every   *)
(* instance of CommandRunner, and the command service it implements.       *)
(*                                                                         *)
(* Most steps leave the frames, the replies and the vehicle alone and only *)
(* move commands along their life.  Evolves says how one command may move; *)
(* EvolveStep shows once that such a step keeps RunnerInv, and every       *)
(* action but the payload transmission, the enqueues and the vehicle's     *)
(* own steps is an instance of it.  AnswerInv adds whose answer each reply *)
(* and each waiting caller holds.  For the refinement a step accepts a     *)
(* command, lets the car carry one out, tells a caller, or gives commands  *)
(* up: an operation of the service or a stutter.                           *)
(***************************************************************************)
EXTENDS CommandRunnerProofs

\* What RunnerInv says of a single command.
Sound(c) ==
    /\ c.kind.effect = "Mutating" /\ c.maybe => c.done \/ c.state = "AwaitingResponse"
    /\ c.done \/ c.state # "AwaitingResponse" => c.req = 0
    /\ c.done /\ c.outcome = "DefinitelyFailed" => ~c.maybe

\* How a command changes in any step but the transmission of its payload.
Evolves(c, d) ==
    /\ Sound(d)
    /\ d.kind = c.kind /\ d.gen = c.gen /\ d.uuid = c.uuid
    /\ c.done => d.done /\ d.outcome = c.outcome
    /\ d.maybe => c.maybe
    /\ d.req # 0 => d.req = c.req
    /\ ~d.done /\ d.state = "AwaitingResponse" => ~c.done /\ c.state = "AwaitingResponse"

LEMMA SoundCommands ==
    ASSUME RunnerInv, NEW i \in Ids
    PROVE  Sound(cmd[i])
  BY DEF RunnerInv, Evidence, Attempts, Definite, Sound, Mutating

LEMMA EvolvesSelf ==
    ASSUME NEW c \in CmdType, Sound(c)
    PROVE  Evolves(c, c)
  BY DEF Evolves

LEMMA EvolvesTrans ==
    ASSUME NEW c \in CmdType, NEW d \in CmdType, NEW e \in CmdType,
           Evolves(c, d), Evolves(d, e)
    PROVE  Evolves(c, e)
  BY DEF Evolves

LEMMA EvolvesFinish ==
    ASSUME NEW c \in CmdType, Sound(c), NEW success \in BOOLEAN, NEW failure \in Failures
    PROVE  Evolves(c, Finish(c, success, failure))
  BY DEF Evolves, Sound, Finish, CmdType, Failures

LEMMA EvolvesFail ==
    ASSUME NEW c \in CmdType, Sound(c)
    PROVE  Evolves(c, Fail(c)) /\ Fail(c).done
  BY EvolvesFinish DEF Fail, Failures, Finish, CmdType

LEMMA EvolvesPrepared ==
    ASSUME NEW c \in CmdType, Sound(c)
    PROVE  Evolves(c, Prepared(c)) /\ Prepared(c).done = c.done
           /\ (c.state # "AwaitingResponse" => Prepared(c).state # "AwaitingResponse")
  BY DEF Evolves, Sound, Prepared, ConfirmWake, CmdType

LEMMA EvolvesConfirmWake ==
    ASSUME NEW c \in CmdType, Sound(c)
    PROVE  Evolves(c, ConfirmWake(c))
  BY DEF Evolves, Sound, ConfirmWake, CmdType

\* A command that waits for no response may be moved to any state but that one.
LEMMA EvolvesState ==
    ASSUME NEW c \in CmdType, Sound(c), ~c.done, c.state # "AwaitingResponse",
           NEW s \in States \ {"AwaitingResponse"}
    PROVE  Evolves(c, [c EXCEPT !.state = s])
  BY DEF Evolves, Sound, CmdType

\* A command of which nothing may have been submitted, or that only reads, may start over.
LEMMA EvolvesRetry ==
    ASSUME NEW c \in CmdType, Sound(c), ~c.done, ~MutatingSubmitted(c)
    PROVE  Evolves(c, ScheduleRetry(c))
  <1>1. c.tries + 1 \in Nat
    BY DEF CmdType
  <1>2. QED
    BY <1>1 DEF Evolves, Sound, ScheduleRetry, MutatingSubmitted, CmdType

\* Clearing payload_maybe_sent is sound for a command that is over or awaits its response.
LEMMA EvolvesCleared ==
    ASSUME NEW c \in CmdType, Sound(c), NEW keep \in BOOLEAN
    PROVE  Evolves(c, [c EXCEPT !.maybe = @ /\ keep])
  BY DEF Evolves, Sound, CmdType

----------------------------------------------------------------------------
(* Steps in which commands only evolve.                                    *)

\* The frame of EvolveStep: nothing moves but commands, slots, contexts and the head.
Evolution ==
    /\ \A i \in Ids : Evolves(cmd[i], cmd'[i])
    /\ \A i \in Ids : Mutating(i) /\ cmd[i].maybe /\ ~cmd'[i].maybe
                      => executed[i] = 0 /\ \A fr \in air : fr.id # i
    /\ UNCHANGED <<next, expired, result, air, wire, executed>>
    /\ front <= front'
    /\ slots' \subseteq slots
    /\ slots' # {} => front' = front /\ cmd'[front].req # 0
    /\ ctx'.kind \in {"Action", "Status"} => ctx' = ctx

LEMMA EvolveStep ==
    ASSUME TypeOK, TypeOK', RunnerInv, Evolution
    PROVE  /\ Untouched' /\ Evidence' /\ UniqueAttempts'
           /\ Refutations' /\ Attempts' /\ Definite'
  <1>1. Untouched'
    BY DEF Evolution, RunnerInv, Untouched
  <1>2. Evidence'
    BY DEF Evolution, RunnerInv, Evidence, Evolves, Sound, Mutating
  <1>3. UniqueAttempts'
    <2>1. ASSUME NEW i \in Ids, front' <= i, i < next'
          PROVE  front <= i /\ i < next /\ cmd'[i].uuid = cmd[i].uuid
      BY <2>1 DEF Evolution, Evolves, TypeOK, Ids
    <2>2. QED
      BY <2>1 DEF Evolution, RunnerInv, UniqueAttempts
  <1>4. Refutations'
    <2>1. ASSUME NEW i \in Ids, front' <= i, i < next', Mutating(i)', cmd'[i].maybe
          PROVE  front <= i /\ i < next /\ cmd'[i].uuid = cmd[i].uuid /\ Mutating(i)
                 /\ cmd[i].maybe
      BY <2>1 DEF Evolution, Evolves, TypeOK, Ids, Mutating
    <2>2. QED
      BY <2>1 DEF Evolution, RunnerInv, Refutations
  <1>5. Attempts'
    <2>1. \A i \in Ids : cmd'[i].done \/ cmd'[i].state # "AwaitingResponse" => cmd'[i].req = 0
      BY DEF Evolution, Evolves, Sound
    <2>2. ASSUME NEW s \in slots'
          PROVE  (HasCommand /\ Current.req = s.rid /\ s.rid # 0 /\ s.uuid = Current.uuid)'
      <3>1. s \in slots /\ front' = front /\ next' = next /\ cmd'[front].req # 0
        BY <2>2 DEF Evolution
      <3>2. HasCommand /\ Current.req = s.rid /\ s.rid # 0 /\ s.uuid = Current.uuid
        BY <3>1 DEF RunnerInv, Attempts
      <3>3. front \in Ids
        BY <3>2, BoundsAssumption DEF HasCommand, TypeOK, Ids
      <3>4. cmd'[front].uuid = cmd[front].uuid /\ cmd'[front].req = cmd[front].req
        BY <3>1, <3>3 DEF Evolution, Evolves
      <3>5. QED
        BY <3>1, <3>2, <3>4 DEF HasCommand, Current
    <2>3. ASSUME ctx'.kind \in {"Action", "Status"}
          PROVE  ctx'.id \in Ids
                 /\ (~cmd'[ctx'.id].done /\ cmd'[ctx'.id].state = "AwaitingResponse"
                     => ctx'.att = cmd'[ctx'.id].uuid)
      <3>1. ctx' = ctx /\ ctx.id \in Ids
        BY <2>3 DEF Evolution, RunnerInv, Attempts
      <3>2. Evolves(cmd[ctx.id], cmd'[ctx.id])
        BY <3>1 DEF Evolution
      <3>3. QED
        BY <2>3, <3>1, <3>2 DEF RunnerInv, Attempts, Evolves
    <2>4. QED
      BY <2>1, <2>2, <2>3 DEF Attempts
  <1>6. Definite'
    BY DEF Evolution, RunnerInv, Definite, Evolves, Sound
  <1>7. QED
    BY <1>1, <1>2, <1>3, <1>4, <1>5, <1>6

\* Completion survives when one command i changes and its callback runs as CallbackEffect.
LEMMA CompletionStep ==
    ASSUME TypeOK, TypeOK', RunnerInv, NEW i \in Ids, i < next,
           NEW d \in CmdType, d.kind = cmd[i].kind, d.gen = cmd[i].gen,
           cmd[i].done => d.done /\ d.outcome = cmd[i].outcome,
           cmd' = [cmd EXCEPT ![i] = d], completion' = CallbackEffect(cmd[i], d),
           UNCHANGED <<next, expired, generation, caller>>
    PROVE  Completion'
  <1>1. \A j \in Ids : /\ cmd'[j].kind = cmd[j].kind /\ cmd'[j].gen = cmd[j].gen
                       /\ cmd[j].done => cmd'[j].done /\ cmd'[j].outcome = cmd[j].outcome
    BY DEF TypeOK
  <1>2. CASE completion' = completion
    BY <1>1, <1>2 DEF RunnerInv, Completion
  <1>3. CASE completion' # completion
    <2>1. d.done /\ ~cmd[i].done /\ cmd[i].kind.cb /\ cmd[i].gen = generation
          /\ completion' = d.outcome
      BY <1>3 DEF CallbackEffect
    <2>2. caller.pc = "waiting" => i = caller.id
      BY <2>1 DEF RunnerInv, Completion
    <2>3. cmd'[i] = d
      BY DEF TypeOK
    <2>4. QED
      BY <1>1, <2>1, <2>2, <2>3 DEF RunnerInv, Completion
  <1>4. QED
    BY <1>2, <1>3

\* A step that evolves one command and runs its callback keeps the whole invariant.
LEMMA PutStep ==
    ASSUME TypeOK, TypeOK', RunnerInv, NEW i \in Ids, front <= i, i < next,
           i = front \/ slots = {},
           NEW d \in CmdType, Evolves(cmd[i], d),
           Mutating(i) /\ cmd[i].maybe /\ ~d.maybe
               => executed[i] = 0 /\ \A fr \in air : fr.id # i,
           Put(i, d),
           front <= front',
           d.req # 0 => front' = i,
           ctx'.kind \in {"Action", "Status"} => ctx' = ctx,
           UNCHANGED <<next, expired, generation, caller, result, air, wire, executed>>
    PROVE  RunnerInv'
  <1>1. cmd' = [cmd EXCEPT ![i] = d] /\ completion' = CallbackEffect(cmd[i], d)
        /\ slots' = {s \in slots : d.req # 0 \/ s.rid # cmd[i].req}
    BY DEF Put
  <1>2. \A j \in Ids : Evolves(cmd[j], cmd'[j])
    BY <1>1, SoundCommands, EvolvesSelf DEF TypeOK
  <1>3. slots' # {} => front' = front /\ cmd'[front].req # 0
    <2>1. \A s \in slots : s.rid = cmd[front].req
      BY DEF RunnerInv, Attempts, Current
    <2>2. slots' # {} => d.req # 0 /\ i = front
      BY <1>1, <2>1
    <2>3. QED
      BY <1>1, <2>2 DEF TypeOK
  <1>4. Evolution
    <2>1. \A j \in Ids : Mutating(j) /\ cmd[j].maybe /\ ~cmd'[j].maybe
                      => executed[j] = 0 /\ \A fr \in air : fr.id # j
      BY <1>1 DEF TypeOK
    <2>2. QED
      BY <1>1, <1>2, <1>3, <2>1 DEF Evolution
  <1>5. Completion'
    BY <1>1, CompletionStep DEF Evolves
  <1>6. QED
    BY <1>4, <1>5, EvolveStep DEF RunnerInv

----------------------------------------------------------------------------
(* drive_command_runner_()                                                 *)

LEMMA DriveFrontSlots ==
    ASSUME TypeOK, RunnerInv, DriveFront < next
    PROVE  /\ DriveFront \in Ids /\ front <= DriveFront
           /\ DriveFront = front \/ slots = {}
           /\ cmd[DriveFront] \in CmdType
           /\ Sound(cmd[DriveFront])
  <1>1. DriveFront \in Ids /\ front <= DriveFront /\ cmd[DriveFront] \in CmdType
    BY DriveFrontType DEF TypeOK, DriveFront
  <1>2. ASSUME DriveFront # front
        PROVE  slots = {}
    <2>1. HasCommand /\ Current.done /\ front \in Ids
      BY <1>2, BoundsAssumption DEF DriveFront, HasCommand, TypeOK, Ids
    <2>2. Current.req = 0
      BY <2>1 DEF RunnerInv, Attempts, Current
    <2>3. QED
      BY <2>2 DEF RunnerInv, Attempts
  <1>3. QED
    BY <1>1, <1>2, SoundCommands

LEMMA QuietStep ==
    ASSUME TypeOK, RunnerInv, NEW f \in Ids, f = DriveFront, f < next,
           NEW d \in CmdType, Evolves(cmd[f], d), d.maybe = cmd[f].maybe, Quiet(f, d)
    PROVE  RunnerInv'
  <1>1. TypeOK'
    BY QuietType
  <1>2. front <= f /\ (f = front \/ slots = {})
    BY DriveFrontSlots
  <1>3. d.req # 0 => front' = f
    BY DEF Evolves, Sound, Quiet
  <1>4. front <= front'
    BY <1>2, BoundsAssumption DEF Quiet, TypeOK, Ids
  <1>5. ctx'.kind \in {"Action", "Status"} => ctx' = ctx
    BY DEF Quiet, NoCtx
  <1>6. Put(f, d) /\ UNCHANGED <<next, expired, generation, caller, result, air, wire, executed>>
    BY DEF Quiet, carVars
  <1>7. QED
    BY <1>1, <1>2, <1>3, <1>4, <1>5, <1>6, PutStep

\* The steps of tick() that transmit nothing.
LEMMA DriveQuietInv ==
    ASSUME TypeOK, RunnerInv, NEW f, f = DriveFront, f < next,
           \/ DriveCompleted(f) \/ DriveDeadline(f) \/ DriveOffline(f) \/ DriveBackoff(f)
           \/ DriveAwait(f) \/ DriveResponseTimeout(f) \/ DriveStepWait(f)
           \/ DriveStepTimeout(f) \/ DriveAsleep(f)
    PROVE  RunnerInv'
  <1> DEFINE c == cmd[f]
             p == Prepared(c)
  <1>1. f \in Ids /\ c \in CmdType /\ Sound(c)
    BY DriveFrontSlots
  <1>2. Evolves(c, c) /\ Evolves(c, Fail(c)) /\ Evolves(c, p)
    BY <1>1, EvolvesSelf, EvolvesFail, EvolvesPrepared
  <1>3. p \in CmdType /\ Sound(p) /\ Fail(c) \in CmdType /\ Fail(p) \in CmdType
    BY <1>1, <1>2, PreparedType, FailType DEF Evolves
  <1>4. Evolves(c, Fail(p))
    BY <1>1, <1>2, <1>3, EvolvesFail, EvolvesTrans
  <1>5. Fail(c).maybe = c.maybe /\ p.maybe = c.maybe /\ Fail(p).maybe = c.maybe
    BY <1>1, <1>3 DEF Fail, Finish, Prepared, ConfirmWake, CmdType
  <1> HIDE DEF c, p
  <1>6. CASE DriveCompleted(f) \/ DriveOffline(f) \/ DriveBackoff(f) \/ DriveAwait(f)
    BY <1>1, <1>2, <1>6, QuietStep
       DEF DriveCompleted, DriveOffline, DriveBackoff, DriveAwait, c
  <1>7. CASE DriveDeadline(f)
    BY <1>1, <1>2, <1>3, <1>5, <1>7, QuietStep DEF DriveDeadline, c
  <1>8. CASE DriveResponseTimeout(f)
    <2>1. CASE ~MutatingSubmitted(c) /\ RetriesLeft(c)
      <3> DEFINE d == [c EXCEPT !.tries = @ + 1, !.backoff = TRUE, !.state = "Ready",
                                !.req = 0]
      <3>1. c.tries + 1 \in Nat /\ ~c.done
        BY <1>1, <1>8 DEF CmdType, DriveResponseTimeout, Ticks, Runnable, c
      <3>2. d \in CmdType /\ d.maybe = c.maybe
        BY <1>1, <3>1 DEF CmdType, States
      <3>3. Evolves(c, d)
        BY <1>1, <2>1, <3>1 DEF Evolves, Sound, MutatingSubmitted, CmdType
      <3>4. Quiet(f, d)
        BY <1>8, <2>1 DEF DriveResponseTimeout, c
      <3>5. QED
        BY <1>1, <3>2, <3>3, <3>4, QuietStep DEF c
    <2>2. CASE ~(~MutatingSubmitted(c) /\ RetriesLeft(c))
      BY <1>1, <1>2, <1>3, <1>5, <1>8, <2>2, QuietStep DEF DriveResponseTimeout, c
    <2>3. QED
      BY <2>1, <2>2
  <1>9. CASE DriveStepWait(f)
    BY <1>1, <1>2, <1>3, <1>5, <1>9, QuietStep DEF DriveStepWait, c, p
  <1>10. CASE DriveStepTimeout(f)
    <2>1. CASE ~MutatingSubmitted(p) /\ RetriesLeft(p)
      <3> DEFINE d == [p EXCEPT !.tries = @ + 1, !.backoff = TRUE, !.awakeOk = FALSE,
                                !.state = "Idle"]
      <3>1. p.tries + 1 \in Nat /\ ~p.done /\ p.state \in StepWaits
        BY <1>1, <1>3, <1>10, EvolvesPrepared
           DEF CmdType, DriveStepTimeout, Ticks, Runnable, c, p
      <3>2. d \in CmdType /\ d.maybe = c.maybe
        BY <1>3, <1>5, <3>1 DEF CmdType, States
      <3>3. Evolves(p, d)
        BY <1>3, <2>1, <3>1 DEF Evolves, Sound, MutatingSubmitted, CmdType, StepWaits
      <3>4. Quiet(f, d) /\ Evolves(c, d)
        BY <1>1, <1>2, <1>3, <1>10, <2>1, <3>2, <3>3, EvolvesTrans
           DEF DriveStepTimeout, c, p
      <3>5. QED
        BY <1>1, <3>2, <3>4, QuietStep DEF c
    <2>2. CASE ~(~MutatingSubmitted(p) /\ RetriesLeft(p))
      BY <1>1, <1>3, <1>4, <1>5, <1>10, <2>2, QuietStep DEF DriveStepTimeout, c, p
    <2>3. QED
      BY <2>1, <2>2
  <1>11. CASE DriveAsleep(f)
    <2> DEFINE s == IF p.kind.wake = "NoWakeSkip" THEN "Skipped" ELSE "Failed"
               d == [Fail(p) EXCEPT !.state = s]
    <2>1. d \in CmdType /\ d.maybe = c.maybe
      BY <1>3, <1>5 DEF CmdType, States
    <2>2. Fail(p).done
      BY <1>3, EvolvesFail
    <2>3. Evolves(Fail(p), d)
      BY <1>3, <1>4, <2>2 DEF Evolves, Sound, CmdType
    <2>4. Quiet(f, d) /\ Evolves(c, d)
      BY <1>1, <1>3, <1>4, <1>11, <2>1, <2>3, EvolvesTrans DEF DriveAsleep, c, p
    <2>5. QED
      BY <1>1, <2>1, <2>4, QuietStep DEF c
  <1>12. QED
    BY <1>6, <1>7, <1>8, <1>9, <1>10, <1>11

\* Before any transmission: the head is sound, unfinished, awaits nothing and has no slot.
LEMMA BeforeTransmit ==
    ASSUME TypeOK, RunnerInv, NEW f, f = DriveFront, f < next, Progresses(f),
           NEW s \in States \ {"AwaitingResponse"}
    PROVE  LET c == [Prepared(cmd[f]) EXCEPT !.state = s]
           IN  /\ f \in Ids /\ front <= f /\ slots = {} /\ f \notin expired
               /\ c \in CmdType /\ Sound(c) /\ ~c.done /\ c.state = s /\ c.req = 0
               /\ c.maybe = cmd[f].maybe /\ Evolves(cmd[f], c) /\ ~MutatingSubmitted(c)
               /\ ~cmd[f].done
  <1> DEFINE b == cmd[f]
             p == Prepared(b)
             c == [p EXCEPT !.state = s]
  <1>1. f \in Ids /\ front <= f /\ (f = front \/ slots = {}) /\ b \in CmdType /\ Sound(b)
    BY DriveFrontSlots
  <1>2. ~b.done /\ f \notin expired /\ b.state # "AwaitingResponse"
    BY DEF Progresses, Ticks, Runnable
  <1>3. b.req = 0
    BY <1>1, <1>2 DEF Sound
  <1>4. slots = {}
    BY <1>1, <1>3 DEF RunnerInv, Attempts, Current
  <1>5. p \in CmdType /\ Evolves(b, p) /\ ~p.done /\ p.state # "AwaitingResponse"
    BY <1>1, <1>2, PreparedType, EvolvesPrepared
  <1>6. Sound(p) /\ p.maybe = b.maybe
    BY <1>1, <1>5 DEF Evolves, Prepared, ConfirmWake, CmdType
  <1> HIDE DEF b, p
  <1>7. Evolves(p, c) /\ c \in CmdType /\ c.state = s /\ ~c.done /\ c.maybe = p.maybe
    BY <1>5, <1>6, EvolvesState DEF CmdType
  <1>8. Sound(c) /\ c.req = 0 /\ ~MutatingSubmitted(c)
    BY <1>7 DEF Evolves, Sound, MutatingSubmitted
  <1>9. Evolves(b, c)
    BY <1>1, <1>5, <1>7, EvolvesTrans
  <1>10. QED
    BY <1>1, <1>2, <1>4, <1>6, <1>7, <1>8, <1>9 DEF b, p

LEMMA PrerequisiteStep ==
    ASSUME TypeOK, RunnerInv, NEW f \in Ids, f = DriveFront, f < next, front <= f,
           slots = {}, NEW c \in CmdType, Sound(c), ~c.done, c.state # "Ready", c.req = 0,
           c.maybe = cmd[f].maybe, Evolves(cmd[f], c), ~MutatingSubmitted(c),
           NEW act \in TxActions \ {"Payload"}, Transmit(f, c, act)
    PROVE  RunnerInv'
  <1>1. TypeOK'
    BY TransmitType
  <1>2. UNCHANGED <<next, expired, generation, caller, result, wire, executed>> /\ front' = f
    BY DEF Transmit
  <1>3. ASSUME NEW d \in CmdType, Evolves(c, d), d.maybe = c.maybe, Put(f, d),
               ctx'.kind \notin {"Action", "Status"}, air' = air
        PROVE  RunnerInv'
    <2>1. cmd[f] \in CmdType
      BY DEF TypeOK
    <2>2. Evolves(cmd[f], d)
      BY <1>3, <2>1, EvolvesTrans
    <2>3. QED
      BY <1>1, <1>2, <1>3, <2>2, PutStep
  <1>4. CASE BuildFails(f, c)
    <2>1. Fail(c) \in CmdType /\ Evolves(c, Fail(c))
      BY FailType, EvolvesFail
    <2>2. Fail(c).maybe = c.maybe
      BY DEF Fail, Finish, CmdType
    <2>3. QED
      BY <1>3, <1>4, <2>1, <2>2 DEF BuildFails, NoCtx
  <1>5. ASSUME NEW u \in Uuids, WriteFails(f, c, act, u)
        PROVE  RunnerInv'
    <2> DEFINE d == TxFailed(c)
    <2>1. TxStarted(c, act, u) = c
      BY DEF TxStarted
    <2>2. d \in CmdType
      BY TxFailedType
    <2>3. Evolves(c, d)
      BY EvolvesFail, EvolvesRetry DEF TxFailed
    <2>4. d.maybe = c.maybe
      BY DEF TxFailed, Fail, Finish, ScheduleRetry, CmdType
    <2>5. air' = air
      BY <1>5 DEF WriteFails, Submitted
    <2>6. QED
      BY <1>3, <1>5, <2>1, <2>2, <2>3, <2>4, <2>5 DEF WriteFails, NoCtx
  <1>6. ASSUME NEW u \in Uuids, WriteSucceeds(f, c, act, u)
        PROVE  RunnerInv'
    <2>1. TxComplete(TxStarted(c, act, u), act, u) = c
      BY DEF TxStarted, TxComplete
    <2>2. Put(f, c)
      BY <1>6, <2>1 DEF WriteSucceeds, Put
    <2>3. CtxKind(c, act) \notin {"Action", "Status"}
      BY DEF CtxKind, TxActions
    <2>4. ctx'.kind \notin {"Action", "Status"}
      BY <1>6, <2>1, <2>3 DEF WriteSucceeds, NoCtx
    <2>5. air' = air
      BY <1>6 DEF WriteSucceeds, Submitted
    <2>6. QED
      BY <1>3, <2>2, <2>4, <2>5, EvolvesSelf
  <1>7. QED
    BY <1>4, <1>5, <1>6 DEF Transmit

\* The transmission of a payload under a fresh UUID.
LEMMA SubmitStep ==
    ASSUME TypeOK, TypeOK', RunnerInv, NEW f \in Ids, front <= f, f < next,
           f \notin expired, ~cmd[f].done, ~MutatingSubmitted(cmd[f]),
           NEW u \in Uuids, u \notin InUse,
           NEW d \in CmdType, Sound(d), d.kind = cmd[f].kind, d.gen = cmd[f].gen,
           d.uuid = u, d.maybe,
           cmd' = [cmd EXCEPT ![f] = d], completion' = CallbackEffect(cmd[f], d),
           air' \in {air, air \cup {[id |-> f, att |-> u]}},
           \A s \in slots' : s.rid = d.req /\ s.uuid = u /\ d.req # 0,
           ctx'.kind \in {"Action", "Status"} => ctx'.id = f /\ ctx'.att = u,
           front' = f,
           UNCHANGED <<next, expired, generation, caller, result, wire, executed>>
    PROVE  RunnerInv'
  <1> DEFINE new == [id |-> f, att |-> u]
  <1>1. cmd'[f] = d /\ \A i \in Ids : i # f => cmd'[i] = cmd[i]
    BY DEF TypeOK
  <1>2. \A fr \in air : fr.att # u
    BY DEF InUse
  <1>3. \A r \in wire : r.att # u
    BY DEF InUse
  <1>4. \A i \in Ids : front <= i /\ i < next => cmd[i].uuid # u
    BY DEF InUse
  <1>5. \A fr \in air' : fr \in air \/ (fr = new /\ fr.id = f /\ fr.att = u)
    OBVIOUS
  <1>6. \A i \in Ids : front' <= i /\ i < next' => front <= i /\ i < next
    BY BoundsAssumption DEF TypeOK, Ids
  <1>7. Untouched'
    BY <1>5 DEF RunnerInv, Untouched
  <1>8. Evidence'
    <2> SUFFICES ASSUME NEW i \in Ids, Mutating(i)'
                 PROVE  /\ ~cmd'[i].maybe => executed'[i] = 0 /\ \A fr \in air' : fr.id # i
                        /\ cmd'[i].maybe => executed'[i] <= 1
                               /\ (cmd'[i].done \/ cmd'[i].state = "AwaitingResponse")
                        /\ \A fr \in air' : fr.id = i => fr.att = cmd'[i].uuid /\ executed'[i] = 0
      BY DEF Evidence
    <2>1. CASE i = f
      <3>1. Mutating(i) /\ ~cmd[i].maybe
        BY <1>1, <2>1 DEF Mutating, MutatingSubmitted
      <3>2. executed[i] = 0 /\ \A fr \in air : fr.id # i
        BY <3>1 DEF RunnerInv, Evidence
      <3>3. d.done \/ d.state = "AwaitingResponse"
        BY <1>1, <2>1 DEF Sound, Mutating
      <3>4. QED
        BY <1>1, <1>5, <2>1, <3>2, <3>3
    <2>2. CASE i # f
      BY <1>1, <1>5, <2>2 DEF RunnerInv, Evidence, Mutating
    <2>3. QED
      BY <2>1, <2>2
  <1>9. UniqueAttempts'
    <2>1. \A fr, other \in air' : fr.att = other.att => fr = other
      BY <1>2, <1>5 DEF RunnerInv, UniqueAttempts
    <2>2. \A fr \in air', i \in Ids :
              front' <= i /\ i < next' /\ cmd'[i].uuid = fr.att => fr.id = i
      BY <1>1, <1>2, <1>4, <1>5, <1>6 DEF RunnerInv, UniqueAttempts
    <2>3. QED
      BY <2>1, <2>2 DEF UniqueAttempts
  <1>10. Refutations'
    <2>1. \A r \in wire' : Refutes(r) => \A fr \in air' : fr.att # r.att
      BY <1>3, <1>5 DEF RunnerInv, Refutations
    <2>2. \A r \in wire', i \in Ids :
              Refutes(r) /\ front' <= i /\ i < next' /\ Mutating(i)' /\ cmd'[i].maybe
              /\ cmd'[i].uuid = r.att => executed'[i] = 0
      BY <1>1, <1>3, <1>6 DEF RunnerInv, Refutations, Mutating
    <2>3. QED
      BY <2>1, <2>2 DEF Refutations
  <1>11. Attempts'
    <2>1. \A i \in Ids : cmd'[i].done \/ cmd'[i].state # "AwaitingResponse" => cmd'[i].req = 0
      BY <1>1 DEF Sound, RunnerInv, Attempts
    <2>2. \A s \in slots' : (HasCommand /\ Current.req = s.rid /\ s.rid # 0
                             /\ s.uuid = Current.uuid)'
      BY <1>1 DEF HasCommand, Current
    <2>3. QED
      BY <1>1, <2>1, <2>2 DEF Attempts
  <1>12. Completion'
    BY CompletionStep
  <1>13. Definite'
    BY <1>1 DEF RunnerInv, Definite, Sound
  <1>14. QED
    BY <1>7, <1>8, <1>9, <1>10, <1>11, <1>12, <1>13 DEF RunnerInv

LEMMA PayloadStep ==
    ASSUME TypeOK, RunnerInv, NEW f \in Ids, f = DriveFront, f < next, front <= f,
           f \notin expired, ~cmd[f].done,
           slots = {}, NEW c \in CmdType, Sound(c), ~c.done, c.state = "Ready", c.req = 0,
           c.maybe = cmd[f].maybe, Evolves(cmd[f], c), ~MutatingSubmitted(c),
           Transmit(f, c, "Payload")
    PROVE  RunnerInv'
  <1>1. TypeOK'
    BY TransmitType DEF TxActions
  <1>2. UNCHANGED <<next, expired, generation, caller, result, wire, executed>> /\ front' = f
    BY DEF Transmit
  <1>3. CASE BuildFails(f, c)
    <2>1. Fail(c) \in CmdType /\ Evolves(c, Fail(c))
      BY FailType, EvolvesFail
    <2>2. Fail(c).maybe = c.maybe /\ cmd[f] \in CmdType
      BY DEF Fail, Finish, CmdType, TypeOK
    <2>3. Evolves(cmd[f], Fail(c))
      BY <2>1, <2>2, EvolvesTrans
    <2>4. QED
      BY <1>1, <1>2, <1>3, <2>1, <2>2, <2>3, PutStep DEF BuildFails, NoCtx
  <1>4. ASSUME NEW u \in Uuids, IsFresh(u),
               WriteFails(f, c, "Payload", u) \/ WriteSucceeds(f, c, "Payload", u)
        PROVE  RunnerInv'
    <2> DEFINE b == TxStarted(c, "Payload", u)
    <2>1. u \notin InUse /\ u # 0
      BY <1>4, UuidsAssumption DEF IsFresh
    <2>2. b \in CmdType /\ b.kind = c.kind /\ b.gen = c.gen /\ b.uuid = u /\ b.maybe
          /\ ~b.done /\ b.state = "Ready" /\ b.req = 0
      BY TxStartedType DEF TxStarted, CmdType, TxActions
    <2>3. c.kind = cmd[f].kind /\ c.gen = cmd[f].gen /\ ~MutatingSubmitted(cmd[f])
      BY DEF Evolves, MutatingSubmitted
    <2> HIDE DEF b
    <2>4. CASE WriteFails(f, c, "Payload", u)
      <3> DEFINE d == TxFailed(b)
      <3>1. d \in CmdType
        BY <2>2, TxFailedType
      <3>2. b.tries + 1 \in Nat
        BY <2>2 DEF CmdType
      <3>3. CASE MutatingSubmitted(b) \/ ~RetriesLeft(b)
        <4>1. d = Fail(b)
          BY <3>3 DEF TxFailed
        <4>2. Sound(d) /\ d.kind = b.kind /\ d.gen = b.gen /\ d.uuid = u /\ d.maybe /\ d.req = 0
          BY <2>2, <4>1 DEF Fail, Finish, Sound, CmdType
        <4>3. QED
          BY <1>1, <1>2, <2>1, <2>2, <2>3, <2>4, <3>1, <4>2, SubmitStep
             DEF WriteFails, Put, Submitted, NoCtx, b
      <3>4. CASE ~MutatingSubmitted(b) /\ RetriesLeft(b)
        <4>1. d = ScheduleRetry(b)
          BY <3>4 DEF TxFailed
        <4>2. Sound(d) /\ d.kind = b.kind /\ d.gen = b.gen /\ d.uuid = u /\ d.maybe /\ d.req = 0
          BY <2>2, <3>2, <3>4, <4>1 DEF ScheduleRetry, Sound, MutatingSubmitted, CmdType
        <4>3. QED
          BY <1>1, <1>2, <2>1, <2>2, <2>3, <2>4, <3>1, <4>2, SubmitStep
             DEF WriteFails, Put, Submitted, NoCtx, b
      <3>5. QED
        BY <3>3, <3>4
    <2>5. CASE WriteSucceeds(f, c, "Payload", u)
      <3> DEFINE d == TxComplete(b, "Payload", u)
      <3>1. d \in CmdType
        BY <2>2, TxCompleteType DEF TxActions
      <3>2. d.kind = b.kind /\ d.gen = b.gen /\ d.uuid = u /\ d.maybe
        BY <2>2 DEF TxComplete, Finish, CmdType
      <3>3. Sound(d)
        BY <2>2, <2>1 DEF TxComplete, Finish, Sound, CmdType
      <3> HIDE DEF d
      <3>4. \A s \in slots' : s.rid = d.req /\ s.uuid = u /\ d.req # 0
        BY <2>5, <3>2 DEF WriteSucceeds, b, d
      <3>5. ctx'.kind \in {"Action", "Status"} => ctx'.id = f /\ ctx'.att = u
        BY <2>5 DEF WriteSucceeds, NoCtx
      <3>6. cmd' = [cmd EXCEPT ![f] = d] /\ completion' = CallbackEffect(cmd[f], d)
            /\ air' = air \cup {[id |-> f, att |-> u]}
        BY <2>5 DEF WriteSucceeds, Submitted, b, d
      <3>7. QED
        BY <1>1, <1>2, <2>1, <2>2, <2>3, <3>1, <3>2, <3>3, <3>4, <3>5, <3>6, SubmitStep
    <2>6. QED
      BY <1>4, <2>4, <2>5
  <1>5. QED
    BY <1>3, <1>4 DEF Transmit

LEMMA DriveInv ==
    ASSUME TypeOK, RunnerInv, Drive
    PROVE  RunnerInv'
  <1>1. CASE DriveIdle
    <2>1. TypeOK'
      BY DriveTypeOK
    <2>2. front <= next /\ front' = next
      BY <1>1 DEF DriveIdle, TypeOK
    <2>3. slots = {}
      <3>1. CASE HasCommand
        <4>1. Current.done /\ front \in Ids
          BY <1>1, <3>1, BoundsAssumption DEF DriveIdle, DriveFront, HasCommand, TypeOK, Ids
        <4>2. QED
          BY <4>1 DEF RunnerInv, Attempts, Current
      <3>2. CASE ~HasCommand
        BY <3>2 DEF RunnerInv, Attempts
      <3>3. QED
        BY <3>1, <3>2
    <2>4. UNCHANGED <<cmd, next, expired, generation, caller, completion, result, slots, air,
                      wire, executed>>
      BY <1>1 DEF DriveIdle, callerVars, carVars
    <2>5. \A i \in Ids : Evolves(cmd[i], cmd'[i])
      BY <2>4, SoundCommands, EvolvesSelf DEF TypeOK
    <2>6. Evolution
      BY <1>1, <2>2, <2>3, <2>4, <2>5 DEF Evolution, DriveIdle, NoCtx
    <2>7. Completion'
      BY <2>4 DEF RunnerInv, Completion
    <2>8. QED
      BY <2>1, <2>6, <2>7, EvolveStep DEF RunnerInv
  <1>2. CASE DriveFront < next /\ ~DriveIdle
    <2> DEFINE f == DriveFront
    <2>1. f = DriveFront /\ f < next
      BY <1>2
    <2> HIDE DEF f
    <2>2. CASE \/ DriveCompleted(f) \/ DriveDeadline(f) \/ DriveOffline(f) \/ DriveBackoff(f)
               \/ DriveAwait(f) \/ DriveResponseTimeout(f) \/ DriveStepWait(f)
               \/ DriveStepTimeout(f) \/ DriveAsleep(f)
      BY <2>1, <2>2, DriveQuietInv
    <2>3. ASSUME NEW s \in StepWaits, NEW act \in TxActions \ {"Payload"}, Progresses(f),
                 Transmit(f, [Prepared(cmd[f]) EXCEPT !.state = s], act)
          PROVE  RunnerInv'
      <3> DEFINE c == [Prepared(cmd[f]) EXCEPT !.state = s]
      <3>1. s \in States \ {"AwaitingResponse"} /\ s # "Ready"
        BY DEF StepWaits, States, Waiting
      <3>2. /\ f \in Ids /\ front <= f /\ slots = {}
            /\ c \in CmdType /\ Sound(c) /\ ~c.done /\ c.state = s /\ c.req = 0
            /\ c.maybe = cmd[f].maybe /\ Evolves(cmd[f], c) /\ ~MutatingSubmitted(c)
        BY <2>1, <2>3, <3>1, BeforeTransmit
      <3> HIDE DEF c
      <3>3. Transmit(f, c, act)
        BY <2>3 DEF c
      <3>4. QED
        BY <2>1, <3>1, <3>2, <3>3, PrerequisiteStep
    <2>4. CASE DriveVcsecAuth(f) \/ DriveWake(f) \/ DriveInfoAuth(f)
      BY <2>3, <2>4 DEF DriveVcsecAuth, DriveWake, DriveInfoAuth, StepWaits, TxActions
    <2>5. CASE DrivePayload(f)
      <3> DEFINE c == [Prepared(cmd[f]) EXCEPT !.state = "Ready"]
      <3>1. Progresses(f) /\ Transmit(f, c, "Payload")
        BY <2>5 DEF DrivePayload
      <3>2. /\ f \in Ids /\ front <= f /\ slots = {} /\ f \notin expired /\ ~cmd[f].done
            /\ c \in CmdType /\ Sound(c) /\ ~c.done /\ c.state = "Ready" /\ c.req = 0
            /\ c.maybe = cmd[f].maybe /\ Evolves(cmd[f], c) /\ ~MutatingSubmitted(c)
        BY <2>1, <3>1, BeforeTransmit DEF States
      <3> HIDE DEF c
      <3>3. QED
        BY <2>1, <3>1, <3>2, PayloadStep
    <2>6. QED
      BY <1>2, <2>2, <2>4, <2>5 DEF Drive, f
  <1>3. QED
    BY <1>1, <1>2 DEF Drive

----------------------------------------------------------------------------
(* process_rx_frame_()                                                     *)

\* A refutation of the head's own attempt proves that nothing of the head happened.
LEMMA RefutedHead ==
    ASSUME TypeOK, RunnerInv, HasCommand, NEW r \in wire, Refutes(r),
           r.att = Current.uuid, Mutating(front), Current.maybe
    PROVE  front \in Ids /\ executed[front] = 0 /\ \A fr \in air : fr.id # front
  <1>1. front \in Ids /\ front <= front /\ front < next
    BY BoundsAssumption DEF HasCommand, TypeOK, Ids
  <1>2. executed[front] = 0 /\ \A fr \in air : fr.att # r.att
    BY <1>1 DEF RunnerInv, Refutations, Current
  <1>3. QED
    BY <1>1, <1>2 DEF RunnerInv, Evidence, Current

\* A reply admitted for the head's payload carries the UUID of the head's attempt.
LEMMA AdmittedAttempt ==
    ASSUME TypeOK, RunnerInv, NEW r \in wire, NEW empty \in BOOLEAN,
           \/ VcsecAdmitted(r, empty)
           \/ InfoAdmitted(r) /\ r.dom = "Info"
           \/ FaultAdmitted(r, empty) /\ PayloadRejection(r)
    PROVE  HasCommand /\ r.att = Current.uuid
  <1>1. HasCommand
    BY DEF VcsecAdmitted, InfoAdmitted, FaultAdmitted, Matches
  <1>2. \A s \in slots : s.uuid = Current.uuid
    BY DEF RunnerInv, Attempts
  <1>3. ASSUME Matches(r), r.dom = "Vcsec", ctx.kind \in {"Action", "Status"}
        PROVE  r.att = Current.uuid
    <2>1. r.att = ctx.att /\ ctx.id = front /\ ~Current.done
          /\ Current.state = "AwaitingResponse"
      BY <1>3 DEF Matches, CtxLive, ExpectedState
    <2>2. QED
      BY <1>3, <2>1 DEF RunnerInv, Attempts, Current
  <1>4. CASE VcsecAdmitted(r, empty)
    <2>1. CASE r.dom = "Vcsec"
      BY <1>1, <1>3, <1>4, <2>1 DEF VcsecAdmitted
    <2>2. CASE r.dom # "Vcsec"
      BY <1>1, <1>2, <1>4, <2>2 DEF VcsecAdmitted, RoutedToHead, Routes
    <2>3. QED
      BY <2>1, <2>2
  <1>5. CASE InfoAdmitted(r) /\ r.dom = "Info"
    BY <1>1, <1>2, <1>5 DEF InfoAdmitted, RoutedToHead, Routes
  <1>6. CASE FaultAdmitted(r, empty) /\ PayloadRejection(r)
    <2>1. CASE r.dom = "Vcsec"
      BY <1>1, <1>3, <1>6, <2>1 DEF FaultAdmitted, PayloadRejection
    <2>2. CASE r.dom # "Vcsec"
      BY <1>1, <1>2, <1>6, <2>2 DEF FaultAdmitted, PayloadRejection, Routes
    <2>3. QED
      BY <2>1, <2>2
  <1>7. QED
    BY <1>4, <1>5, <1>6

LEMMA FinishKeeps ==
    ASSUME NEW c \in CmdType, NEW success, NEW failure
    PROVE  Finish(c, success, failure).maybe = c.maybe
  BY DEF Finish, CmdType

LEMMA EvolvesRespond ==
    ASSUME NEW c \in CmdType, Sound(c), NEW r
    PROVE  /\ Evolves(c, Respond(c, r))
           /\ c.maybe /\ ~Respond(c, r).maybe => r.auth /\ r.body \in {"Error", "NoOp"}
  <1> DEFINE refuted == r.auth /\ r.body \in {"Error", "NoOp"}
             d == [c EXCEPT !.maybe = @ /\ ~refuted]
             s == Finish(d, TRUE, "DefinitelyFailed")
             n == [s EXCEPT !.noop = TRUE]
  <1>1. d \in CmdType /\ Evolves(c, d) /\ (c.maybe /\ ~d.maybe => refuted)
    BY EvolvesCleared DEF CmdType
  <1> HIDE DEF d
  <1>0. Sound(d)
    BY <1>1 DEF Evolves
  <1>2. s \in CmdType /\ Evolves(d, s) /\ s.maybe = d.maybe
    BY <1>0, <1>1, FinishType, EvolvesFinish, FinishKeeps DEF Failures
  <1>3. Fail(d) \in CmdType /\ Evolves(d, Fail(d)) /\ Fail(d).maybe = d.maybe
    BY <1>0, <1>1, FailType, EvolvesFail, FinishKeeps DEF Fail
  <1> HIDE DEF s
  <1>4. n \in CmdType /\ Evolves(s, n) /\ n.maybe = d.maybe
    BY <1>2 DEF Evolves, Sound, CmdType
  <1>5. Evolves(c, s) /\ Evolves(c, Fail(d)) /\ Evolves(c, n)
    BY <1>1, <1>2, <1>3, <1>4, EvolvesTrans
  <1>6. Respond(c, r) = CASE r.body = "NoOp" -> n
                          [] r.body = "Error" -> Fail(d)
                          [] OTHER -> s
    BY DEF Respond, d, s
  <1>7. Respond(c, r) \in {n, Fail(d), s}
    BY <1>6
  <1>8. QED
    BY <1>1, <1>2, <1>3, <1>4, <1>5, <1>7

LEMMA EvolvesFault ==
    ASSUME NEW c \in CmdType, Sound(c), ~c.done, NEW code, NEW rejected \in BOOLEAN
    PROVE  /\ Evolves(c, FaultEffect(c, code, rejected))
           /\ c.maybe /\ ~FaultEffect(c, code, rejected).maybe
              => rejected /\ known(code) /\ ~possible_success(code)
  <1> DEFINE cleared == rejected /\ known(code) /\ ~possible_success(code)
             d == [c EXCEPT !.maybe = @ /\ ~cleared]
             o == fault_outcome(code, rejected, c.maybe)
             retry == fault_allows_retry(code, rejected, c.maybe, c.kind.effect)
                      /\ RetriesLeft(c)
             e == Finish(d, FALSE, o)
  <1>1. d \in CmdType /\ Evolves(c, d) /\ ~d.done /\ (c.maybe /\ ~d.maybe => cleared)
    BY EvolvesCleared DEF CmdType
  <1>2. o \in Failures
    BY DEF fault_outcome, Failures
  <1>3. retry => ~MutatingSubmitted(d)
    BY DEF fault_allows_retry, MutatingSubmitted, CmdType
  <1> HIDE DEF d, o, retry
  <1>0. Sound(d)
    BY <1>1 DEF Evolves
  <1>4. e \in CmdType /\ Evolves(d, e) /\ e.maybe = d.maybe
    BY <1>0, <1>1, <1>2, FinishType, EvolvesFinish, FinishKeeps
  <1>5. ASSUME retry
        PROVE  ScheduleRetry(d) \in CmdType /\ Evolves(d, ScheduleRetry(d))
               /\ ScheduleRetry(d).maybe = d.maybe
    BY <1>1, <1>3, <1>5, ScheduleRetryType, EvolvesRetry DEF Evolves, ScheduleRetry, CmdType
  <1> HIDE DEF e
  <1>6. FaultEffect(c, code, rejected) = IF retry THEN ScheduleRetry(d) ELSE e
    BY DEF FaultEffect, d, o, retry, e
  <1>7. QED
    BY <1>1, <1>4, <1>5, <1>6, EvolvesTrans

LEMMA RxInv ==
    ASSUME TypeOK, RunnerInv, Rx
    PROVE  RunnerInv'
  <1> DEFINE Same == UNCHANGED <<front, next, expired, generation, caller, result, air, wire,
                                 executed>>
             CtxOK == ctx'.kind \in {"Action", "Status"} => ctx' = ctx
  <1>1. TypeOK'
    BY RxTypeOK
  <1>2. HasCommand => front \in Ids /\ Current \in CmdType /\ Sound(Current)
    BY BoundsAssumption, SoundCommands DEF TypeOK, HasCommand, Current, Ids
  <1>3. ASSUME HasCommand, NEW d \in CmdType, Evolves(Current, d), Put(front, d), Same, CtxOK,
               Mutating(front) /\ Current.maybe /\ ~d.maybe
                   => executed[front] = 0 /\ \A fr \in air : fr.id # front
        PROVE  RunnerInv'
    <2>1. front \in Ids /\ front <= front /\ front < next
      BY <1>2, <1>3 DEF HasCommand, TypeOK
    <2>2. QED
      BY <1>1, <1>3, <2>1, PutStep DEF Current
  <1>4. RxUnchanged => Same
    BY DEF RxUnchanged, carVars
  <1>5. ASSUME UNCHANGED <<cmd, completion, slots>>, Same, CtxOK
        PROVE  RunnerInv'
    <2>1. \A i \in Ids : Evolves(cmd[i], cmd'[i])
      BY <1>5, SoundCommands, EvolvesSelf DEF TypeOK
    <2>2. slots # {} => Current.req # 0
      BY DEF RunnerInv, Attempts
    <2>3. Evolution
      BY <1>5, <2>1, <2>2 DEF Evolution, Current, TypeOK
    <2>4. Completion'
      BY <1>5 DEF RunnerInv, Completion
    <2>5. QED
      BY <1>1, <2>3, <2>4, EvolveStep DEF RunnerInv
  <1>6. ASSUME NEW r \in wire, RxSession(r)
        PROVE  RunnerInv'
    <2> DEFINE c == IF AwaitsAuth(r.dom) THEN [Current EXCEPT !.state = "Idle"] ELSE Current
    <2>1. HasCommand /\ Put(front, c) /\ Same /\ CtxOK
      BY <1>4, <1>6 DEF RxSession, Matches
    <2>2. c \in CmdType /\ c.maybe = Current.maybe
      BY <1>2, <2>1 DEF CmdType, States
    <2>3. Evolves(Current, c)
      BY <1>2, <2>1, EvolvesSelf, EvolvesState DEF AwaitsAuth, States
    <2>4. QED
      BY <1>3, <2>1, <2>2, <2>3
  <1>7. ASSUME NEW r \in wire, RxSessionBad(r)
        PROVE  RunnerInv'
    <2>1. HasCommand /\ Put(front, Fail(Current)) /\ Same /\ CtxOK
      BY <1>4, <1>7 DEF RxSessionBad, Matches
    <2>2. Fail(Current) \in CmdType /\ Evolves(Current, Fail(Current))
          /\ Fail(Current).maybe = Current.maybe
      BY <1>2, <2>1, FailType, EvolvesFail, FinishKeeps DEF Fail
    <2>3. QED
      BY <1>3, <2>1, <2>2
  <1>8. ASSUME NEW r \in wire, NEW empty \in BOOLEAN, RxFault(r, empty)
        PROVE  RunnerInv'
    <2> DEFINE rejected == PayloadRejection(r)
               d == FaultEffect(Current, r.code, rejected)
    <2>1. HasCommand /\ ~Current.done /\ FaultAdmitted(r, empty)
      BY <1>8 DEF RxFault, FaultAdmitted, Matches, CtxLive
    <2>2. Put(front, d) /\ Same /\ CtxOK
      BY <1>8 DEF RxFault, NoCtx, carVars
    <2>3. rejected \in BOOLEAN
      BY DEF PayloadRejection
    <2> HIDE DEF rejected
    <2>4. d \in CmdType /\ Evolves(Current, d)
          /\ (Current.maybe /\ ~d.maybe => rejected /\ known(r.code) /\ ~possible_success(r.code))
      BY <1>2, <2>1, <2>3, FaultEffectType, EvolvesFault
    <2>5. ASSUME Mutating(front), Current.maybe, ~d.maybe
          PROVE  executed[front] = 0 /\ \A fr \in air : fr.id # front
      <3>1. Refutes(r)
        BY <1>8, <2>4, <2>5 DEF RxFault, Receives, Refutes, PayloadRejection, rejected
      <3>2. r.att = Current.uuid
        BY <2>1, <2>4, <2>5, AdmittedAttempt DEF rejected
      <3>3. QED
        BY <2>1, <2>5, <3>1, <3>2, RefutedHead
    <2>6. QED
      BY <1>3, <2>1, <2>2, <2>4, <2>5
  <1>9. ASSUME NEW r \in wire, NEW empty \in BOOLEAN,
               VcsecAdmitted(r, empty) \/ (InfoAdmitted(r) /\ r.dom = "Info"),
               Put(front, Respond(Current, r)), Same, CtxOK
        PROVE  RunnerInv'
    <2> DEFINE d == Respond(Current, r)
    <2>1. HasCommand /\ r.att = Current.uuid
      BY <1>9, AdmittedAttempt
    <2>2. d \in CmdType /\ Evolves(Current, d)
          /\ (Current.maybe /\ ~d.maybe => r.auth /\ r.body \in {"Error", "NoOp"})
      BY <1>2, <2>1, RespondType, EvolvesRespond
    <2>3. ASSUME Mutating(front), Current.maybe, ~d.maybe
          PROVE  executed[front] = 0 /\ \A fr \in air : fr.id # front
      <3>1. Refutes(r)
        BY <2>2, <2>3 DEF Refutes
      <3>2. QED
        BY <2>1, <2>3, <3>1, RefutedHead
    <2>4. QED
      BY <1>3, <1>9, <2>1, <2>2, <2>3
  <1>10. ASSUME NEW r \in wire, NEW empty \in BOOLEAN,
                RxVcsecResult(r, empty) \/ RxInfoResult(r)
                \/ \E s \in {"Unknown", "Asleep", "Awake"} : RxVcsecStatus(r, empty, s)
         PROVE  RunnerInv'
    BY <1>4, <1>9, <1>10 DEF RxVcsecResult, RxInfoResult, RxVcsecStatus
  <1>11. CtxAsked.kind \in {"Action", "Status"} => CtxAsked = ctx
    BY DEF CtxAsked, NoCtx
  <1>12. ASSUME NEW r \in wire, NEW empty \in BOOLEAN, RxDrop(r, empty)
         PROVE  RunnerInv'
    BY <1>4, <1>5, <1>11, <1>12 DEF RxDrop, RxDropped
  <1>13. ASSUME NEW s \in {"Unknown", "Asleep", "Awake"}, NEW closures \in BOOLEAN,
                RxBroadcast(s, closures)
         PROVE  RunnerInv'
    <2>1. Same /\ CtxOK
      BY <1>4, <1>11, <1>13 DEF RxBroadcast
    <2>2. CASE HasCommand /\ (s = "Awake" \/ closures)
      <3>1. ConfirmWake(Current) \in CmdType /\ Evolves(Current, ConfirmWake(Current))
        BY <1>2, <2>2, ConfirmWakeType, EvolvesConfirmWake
      <3>2. ConfirmWake(Current).maybe = Current.maybe
        BY <1>2, <2>2 DEF ConfirmWake, CmdType
      <3>3. Put(front, ConfirmWake(Current))
        BY <1>13, <2>2 DEF RxBroadcast
      <3>4. QED
        BY <1>3, <2>1, <2>2, <3>1, <3>2, <3>3
    <2>3. CASE ~(HasCommand /\ (s = "Awake" \/ closures))
      BY <1>5, <1>13, <2>1, <2>3 DEF RxBroadcast
    <2>4. QED
      BY <2>2, <2>3
  <1>14. QED
    BY <1>6, <1>7, <1>8, <1>10, <1>12, <1>13 DEF Rx

----------------------------------------------------------------------------
(* The link, the callers and time                                          *)

LEMMA LinkInv ==
    ASSUME TypeOK, RunnerInv, Link
    PROVE  RunnerInv'
  <1>1. CASE LinkLoss \/ LinkUp
    BY <1>1 DEF LinkLoss, LinkUp, queueVars, callerVars, protoVars, carVars, RunnerInv,
                Untouched, Evidence, UniqueAttempts, Refutations, Attempts, Completion,
                Definite, Mutating, HasCommand, Current
  <1>2. CASE ApplyLinkDown
    <2>1. TypeOK'
      BY LinkTypeOK
    <2>2. UNCHANGED <<front, next, expired, generation, caller, result, air, wire, executed>>
          /\ slots' = {} /\ ctx' = NoCtx
      BY <1>2 DEF ApplyLinkDown, carVars
    <2>3. HasCommand => /\ front \in Ids /\ front < next /\ Current \in CmdType
                        /\ Fail(Current) \in CmdType /\ Evolves(Current, Fail(Current))
                        /\ Fail(Current).maybe = Current.maybe
      <3>1. HasCommand => front \in Ids /\ front < next /\ Current \in CmdType /\ Sound(Current)
        BY BoundsAssumption, SoundCommands DEF TypeOK, HasCommand, Current, Ids
      <3>2. QED
        BY <3>1, FailType, EvolvesFail, FinishKeeps DEF Fail
    <2>4. \A i \in Ids : Evolves(cmd[i], cmd'[i]) /\ cmd'[i].maybe = cmd[i].maybe
      <3>1. \A i \in Ids : cmd[i] \in CmdType /\ Evolves(cmd[i], cmd[i])
        BY SoundCommands, EvolvesSelf DEF TypeOK
      <3>2. CASE HasCommand
        BY <1>2, <2>3, <3>1, <3>2 DEF ApplyLinkDown, Current, TypeOK
      <3>3. CASE ~HasCommand
        BY <1>2, <3>1, <3>3 DEF ApplyLinkDown
      <3>4. QED
        BY <3>2, <3>3
    <2>5. Evolution
      BY <2>2, <2>4 DEF Evolution, NoCtx, TypeOK
    <2>6. Completion'
      <3>1. CASE HasCommand
        <4>1. cmd' = [cmd EXCEPT ![front] = Fail(Current)]
              /\ completion' = CallbackEffect(cmd[front], Fail(Current))
          BY <1>2, <3>1 DEF ApplyLinkDown, Current
        <4>2. QED
          BY <2>1, <2>2, <2>3, <3>1, <4>1, CompletionStep DEF Evolves, Current
      <3>2. CASE ~HasCommand
        BY <1>2, <2>2, <3>2 DEF ApplyLinkDown, RunnerInv, Completion
      <3>3. QED
        BY <3>1, <3>2
    <2>7. QED
      BY <2>1, <2>5, <2>6, EvolveStep DEF RunnerInv
  <1>3. QED
    BY <1>1, <1>2 DEF Link

\* A command enters the FIFO as the first id not yet given.
LEMMA EnqueueStep ==
    ASSUME TypeOK, TypeOK', RunnerInv, NEW k \in Kinds, NEW g \in Nat, next <= MaxCommands,
           Enqueue(k, g), UNCHANGED <<front, expired, result, slots, ctx, air, wire, executed>>
    PROVE  /\ Untouched' /\ Evidence' /\ UniqueAttempts'
           /\ Refutations' /\ Attempts' /\ Definite'
  <1> DEFINE n == NewCommand(k, g)
  <1>1. next \in Ids /\ next' = next + 1
    BY BoundsAssumption DEF Enqueue, TypeOK, Ids
  <1>2. cmd'[next] = n /\ \A i \in Ids : i # next => cmd'[i] = cmd[i]
    BY <1>1 DEF Enqueue, TypeOK
  <1>3. n.maybe = FALSE /\ n.done = FALSE /\ n.state = "Idle" /\ n.req = 0 /\ n.uuid = 0
    BY DEF NewCommand
  <1> HIDE DEF n
  <1>4. executed[next] = 0 /\ result[next] = "None" /\ \A fr \in air : fr.id # next
    BY <1>1 DEF RunnerInv, Untouched, TypeOK
  <1>5. \A i \in Ids : i < next' => i < next \/ i = next
    BY <1>1 DEF TypeOK, Ids
  <1>6. \A i \in Ids : i >= next' => i >= next /\ i # next
    BY <1>1 DEF TypeOK, Ids
  <1>7. \A fr \in air : fr.id \in Ids /\ fr.att # 0
    BY UuidsAssumption DEF TypeOK, FrameType
  <1>8. Untouched'
    <2>1. \A fr \in air : fr.id < next'
      BY <1>1, <1>7 DEF RunnerInv, Untouched, TypeOK, Ids
    <2>2. QED
      BY <1>6, <2>1 DEF RunnerInv, Untouched
  <1>9. Evidence'
    BY <1>2, <1>3, <1>4 DEF RunnerInv, Evidence, Mutating
  <1>10. UniqueAttempts'
    BY <1>2, <1>3, <1>5, <1>7 DEF RunnerInv, UniqueAttempts
  <1>11. Refutations'
    BY <1>2, <1>3, <1>5 DEF RunnerInv, Refutations, Mutating
  <1>12. Attempts'
    <2>1. \A i \in Ids : cmd'[i].done \/ cmd'[i].state # "AwaitingResponse" => cmd'[i].req = 0
      BY <1>2, <1>3 DEF RunnerInv, Attempts
    <2>2. ASSUME NEW s \in slots
          PROVE  (HasCommand /\ Current.req = s.rid /\ s.rid # 0 /\ s.uuid = Current.uuid)'
      <3>1. HasCommand /\ Current.req = s.rid /\ s.rid # 0 /\ s.uuid = Current.uuid
        BY DEF RunnerInv, Attempts
      <3>2. front \in Ids /\ front # next /\ front < next'
        BY <1>1, <3>1, BoundsAssumption DEF HasCommand, TypeOK, Ids
      <3>3. QED
        BY <1>2, <3>1, <3>2 DEF HasCommand, Current
    <2>3. ctx.kind \in {"Action", "Status"} =>
              /\ ctx.id \in Ids
              /\ ~cmd'[ctx.id].done /\ cmd'[ctx.id].state = "AwaitingResponse"
                 => ctx.att = cmd'[ctx.id].uuid
      BY <1>2, <1>3 DEF RunnerInv, Attempts
    <2>4. QED
      BY <2>1, <2>2, <2>3 DEF Attempts
  <1>13. Definite'
    BY <1>2, <1>3, <1>4 DEF RunnerInv, Definite
  <1>14. QED
    BY <1>8, <1>9, <1>10, <1>11, <1>12, <1>13

\* Steps that touch no command, frame, reply or slot keep everything but Completion.
LEMMA CallerOnlyStep ==
    ASSUME TypeOK, RunnerInv,
           UNCHANGED <<cmd, front, next, slots, ctx, air, wire, executed>>,
           expired \subseteq expired',
           \A i \in Ids : result'[i] # result[i] =>
               /\ i < next
               /\ result'[i] = "DefinitelyFailed"
                  => ~cmd[i].maybe /\ (cmd[i].done \/ i \in expired)
    PROVE  /\ Untouched' /\ Evidence' /\ UniqueAttempts'
           /\ Refutations' /\ Attempts' /\ Definite'
  <1>1. Evidence' /\ UniqueAttempts' /\ Refutations' /\ Attempts'
    BY DEF RunnerInv, Evidence, UniqueAttempts, Refutations, Attempts, Mutating, HasCommand,
           Current
  <1>2. \A i \in Ids : i >= next => ~(i < next)
    BY DEF TypeOK, Ids
  <1>3. Untouched'
    BY <1>2 DEF RunnerInv, Untouched
  <1>4. Definite'
    BY DEF RunnerInv, Definite
  <1>5. QED
    BY <1>1, <1>3, <1>4

LEMMA CallersInv ==
    ASSUME TypeOK, RunnerInv, Callers
    PROVE  RunnerInv'
  <1> USE DEF queueVars, callerVars, protoVars, carVars
  <1>1. TypeOK'
    BY CallersTypeOK
  <1>2. ASSUME NEW k \in Kinds, NEW g \in Nat, next <= MaxCommands, Enqueue(k, g)
        PROVE  /\ next \in Ids /\ next' = next + 1
               /\ cmd'[next].gen = g /\ cmd'[next].kind = k
               /\ \A i \in Ids : i # next => cmd'[i] = cmd[i]
               /\ \A i \in Ids : i < next' => i < next \/ i = next
               /\ \A i \in Ids : i < next => i < next' /\ i # next
    <2>1. next \in Ids /\ next' = next + 1
      BY <1>2, BoundsAssumption DEF Enqueue, TypeOK, Ids
    <2>2. QED
      BY <1>2, <2>1 DEF Enqueue, NewCommand, TypeOK, Ids
  <1>3. ASSUME NEW k \in Kinds, CallerEnqueue(k)
        PROVE  RunnerInv'
    <2>1. generation \in Nat /\ generation + 1 \in Nat /\ completion' = "None"
          /\ generation' = generation + 1 /\ caller.pc = "idle"
      BY <1>3 DEF CallerEnqueue, TypeOK
    <2>2. \A i \in Ids : cmd[i].gen \in Nat
      BY DEF TypeOK, CmdType
    <2>3. CASE IsFull
      <3>1. UNCHANGED <<cmd, front, next, expired, result, slots, ctx, air, wire, executed,
                        caller>>
        BY <1>3, <2>3 DEF CallerEnqueue
      <3>2. Completion'
        BY <2>1, <2>2, <3>1 DEF RunnerInv, Completion
      <3>3. QED
        BY <3>1, <3>2, CallerOnlyStep DEF RunnerInv
    <2>4. CASE ~IsFull
      <3>1. Enqueue(k, generation + 1) /\ next <= MaxCommands
            /\ UNCHANGED <<front, expired, result, slots, ctx, air, wire, executed>>
            /\ caller' = [pc |-> "waiting", id |-> next]
        BY <1>3, <2>4 DEF CallerEnqueue
      <3>2. /\ Untouched' /\ Evidence' /\ UniqueAttempts'
            /\ Refutations' /\ Attempts' /\ Definite'
        BY <1>1, <2>1, <3>1, EnqueueStep
      <3>3. /\ next \in Ids /\ next' = next + 1
            /\ cmd'[next].gen = generation + 1
            /\ \A i \in Ids : i # next => cmd'[i] = cmd[i]
            /\ \A i \in Ids : i < next' => i < next \/ i = next
        BY <1>2, <2>1, <3>1
      <3>4. \A i \in Ids : i < next /\ i # next => cmd'[i].gen <= generation
        BY <3>3 DEF RunnerInv, Completion
      <3>5. \A i \in Ids : i < next' => cmd'[i].gen <= generation + 1
                           /\ (cmd'[i].gen = generation + 1 => i = next)
        BY <2>1, <2>2, <3>3, <3>4
      <3>6. caller'.pc = "waiting" /\ caller'.id = next /\ next < next'
        BY <3>1, <3>3 DEF TypeOK
      <3>7. Completion'
        BY <2>1, <3>3, <3>5, <3>6 DEF Completion
      <3>8. QED
        BY <3>2, <3>7 DEF RunnerInv
    <2>5. QED
      BY <2>3, <2>4
  <1>4. ASSUME NEW k \in Kinds, PollEnqueue(k)
        PROVE  RunnerInv'
    <2>1. Enqueue(k, 0) /\ next <= MaxCommands /\ caller.pc = "idle"
          /\ UNCHANGED <<front, expired, result, slots, ctx, air, wire, executed, generation,
                         caller, completion>>
      BY <1>4 DEF PollEnqueue
    <2>2. /\ Untouched' /\ Evidence' /\ UniqueAttempts'
          /\ Refutations' /\ Attempts' /\ Definite'
      BY <1>1, <2>1, EnqueueStep
    <2>3. /\ cmd'[next].gen = 0
          /\ \A i \in Ids : i # next => cmd'[i] = cmd[i]
          /\ \A i \in Ids : i < next' => i < next \/ i = next
          /\ \A i \in Ids : i < next => i # next
      BY <1>2, <2>1
    <2>4. \A i \in Ids : i < next' => cmd'[i].gen <= generation
      BY <2>3 DEF RunnerInv, Completion, TypeOK
    <2>5. Completion'
      BY <2>1, <2>4 DEF RunnerInv, Completion
    <2>6. QED
      BY <2>2, <2>5 DEF RunnerInv
  <1>5. CASE CallerSignalled
    <2>1. caller.id \in Ids /\ caller.id < next /\ cmd[caller.id].done
          /\ completion = cmd[caller.id].outcome
      BY <1>5 DEF CallerSignalled, RunnerInv, Completion
    <2>2. completion = "DefinitelyFailed" => ~cmd[caller.id].maybe
      BY <2>1 DEF RunnerInv, Definite
    <2>3. \A i \in Ids : result'[i] # result[i] => i = caller.id /\ result'[i] = completion
      BY <1>5 DEF CallerSignalled, TypeOK
    <2>4. /\ Untouched' /\ Evidence' /\ UniqueAttempts'
          /\ Refutations' /\ Attempts' /\ Definite'
      BY <1>5, <2>1, <2>2, <2>3, CallerOnlyStep DEF CallerSignalled
    <2>5. caller'.pc = "popping" /\ caller'.id = caller.id
      BY <1>5 DEF CallerSignalled, TypeOK, CallerType
    <2>6. Completion'
      BY <1>5, <2>1, <2>5 DEF CallerSignalled, RunnerInv, Completion
    <2>7. QED
      BY <2>4, <2>6 DEF RunnerInv
  <1>6. CASE CallerTimesOut
    <2>1. /\ Untouched' /\ Evidence' /\ UniqueAttempts'
          /\ Refutations' /\ Attempts' /\ Definite'
      BY <1>6, CallerOnlyStep DEF CallerTimesOut
    <2>2. caller'.pc = "expired" /\ caller'.id = caller.id
      BY <1>6 DEF CallerTimesOut, TypeOK, CallerType
    <2>3. Completion'
      BY <1>6, <2>2 DEF CallerTimesOut, RunnerInv, Completion
    <2>4. QED
      BY <2>1, <2>3 DEF RunnerInv
  <1>7. CASE CallerSnapshot
    <2> DEFINE c == cmd[caller.id]
    <2>1. caller.id \in Ids /\ caller.id < next /\ caller.id \in expired
      BY <1>7 DEF CallerSnapshot, RunnerInv, Completion
    <2>2. c.maybe \in BOOLEAN
      BY <2>1 DEF TypeOK, CmdType
    <2>3. PendingFailure(caller.id) = "DefinitelyFailed" => ~c.maybe
      BY <2>1, <2>2 DEF PendingFailure, RunnerInv, Definite
    <2>4. \A i \in Ids : result'[i] # result[i] =>
              i = caller.id /\ result'[i] \in {PendingFailure(caller.id), "MayHaveSucceeded"}
      BY <1>7 DEF CallerSnapshot, TypeOK
    <2>5. /\ Untouched' /\ Evidence' /\ UniqueAttempts'
          /\ Refutations' /\ Attempts' /\ Definite'
      BY <1>7, <2>1, <2>3, <2>4, CallerOnlyStep DEF CallerSnapshot
    <2>6. caller'.pc = "flushing" /\ caller'.id = caller.id
      BY <1>7 DEF CallerSnapshot, TypeOK, CallerType
    <2>7. Completion'
      BY <1>7, <2>1, <2>6 DEF CallerSnapshot, RunnerInv, Completion
    <2>8. QED
      BY <2>5, <2>7 DEF RunnerInv
  <1>8. CASE CallerFlush
    <2>1. \A i \in Ids : cmd[i] \in CmdType /\ Sound(cmd[i])
      BY SoundCommands DEF TypeOK
    <2>2. \A i \in Ids : cmd'[i] \in {cmd[i], Fail(cmd[i])}
      BY <1>8 DEF CallerFlush
    <2>3. \A i \in Ids : Fail(cmd[i]).maybe = cmd[i].maybe
      BY <2>1, FinishKeeps DEF Fail
    <2>4. \A i \in Ids : Evolves(cmd[i], cmd'[i]) /\ cmd'[i].maybe = cmd[i].maybe
      BY <2>1, <2>2, <2>3, EvolvesSelf, EvolvesFail
    <2>5. UNCHANGED <<next, expired, result, air, wire, executed>> /\ slots' = {}
          /\ ctx' = NoCtx /\ front' = next /\ generation' = generation + 1
      BY <1>8 DEF CallerFlush
    <2>6. Evolution
      BY <2>4, <2>5 DEF Evolution, NoCtx, TypeOK
    <2>7. caller'.pc = "idle"
      BY <1>8 DEF CallerFlush, TypeOK, CallerType
    <2>8. \A i \in Ids : i < next => cmd'[i].gen <= generation + 1
      <3>1. \A i \in Ids : cmd[i].gen \in Nat /\ cmd'[i].gen = cmd[i].gen
        BY <2>1, <2>4 DEF Evolves, CmdType
      <3>2. QED
        BY <3>1 DEF RunnerInv, Completion, TypeOK
    <2>9. Completion'
      BY <2>5, <2>7, <2>8 DEF Completion
    <2>10. QED
      BY <1>1, <2>6, <2>9, EvolveStep DEF RunnerInv
  <1>9. CASE CallerPop
    <2>1. \A i \in Ids : Evolves(cmd[i], cmd[i])
      BY SoundCommands, EvolvesSelf DEF TypeOK
    <2>2. UNCHANGED <<cmd, next, expired, generation, completion, result, ctx, air, wire,
                      executed>>
      BY <1>9 DEF CallerPop
    <2>3. front <= front' /\ slots' \subseteq slots /\ (slots' # {} => front' = front)
      <3>1. \A s \in slots : s.rid = Current.req
        BY DEF RunnerInv, Attempts
      <3>2. QED
        BY <1>9, <3>1 DEF CallerPop, TypeOK
    <2>4. slots # {} => Current.req # 0
      BY DEF RunnerInv, Attempts
    <2>5. Evolution
      BY <2>1, <2>2, <2>3, <2>4 DEF Evolution, Current
    <2>6. caller'.pc = "idle"
      BY <1>9 DEF CallerPop, TypeOK, CallerType
    <2>7. Completion'
      BY <2>2, <2>6 DEF RunnerInv, Completion
    <2>8. QED
      BY <1>1, <2>5, <2>7, EvolveStep DEF RunnerInv
  <1>10. QED
    BY <1>3, <1>4, <1>5, <1>6, <1>7, <1>8, <1>9 DEF Callers, CallerStep

LEMMA TimeInv ==
    ASSUME TypeOK, RunnerInv, Time
    PROVE  RunnerInv'
  <1>1. /\ UNCHANGED <<cmd, front, next, slots, ctx, air, wire, executed, result, generation,
                       caller, completion>>
        /\ expired \subseteq expired'
    BY DEF Time, PhaseRunsOut, DeadlinePasses, callerVars, protoVars, carVars
  <1>2. /\ Untouched' /\ Evidence' /\ UniqueAttempts'
        /\ Refutations' /\ Attempts' /\ Definite'
    BY <1>1, CallerOnlyStep
  <1>3. Completion'
    BY <1>1 DEF RunnerInv, Completion
  <1>4. QED
    BY <1>2, <1>3 DEF RunnerInv

----------------------------------------------------------------------------
(* The vehicle                                                             *)

\* A step of the vehicle that executes nothing: frames leave the air, replies appear.
LEMMA AnswerStep ==
    ASSUME TypeOK, RunnerInv, CarUnchanged, executed' = executed, air' \subseteq air,
           \A r \in wire' \ wire : Refutes(r) =>
               \E fr \in air : fr.att = r.att /\ fr \notin air'
    PROVE  RunnerInv'
  <1>1. UNCHANGED <<cmd, front, next, slots, ctx, expired, result, generation, caller,
                    completion>>
    BY DEF CarUnchanged, queueVars, callerVars, protoVars
  <1>2. Untouched' /\ Evidence' /\ UniqueAttempts' /\ Attempts' /\ Completion' /\ Definite'
    BY <1>1 DEF RunnerInv, Untouched, Evidence, UniqueAttempts, Attempts, Completion, Definite,
                Mutating, HasCommand, Current
  <1>3. Refutations'
    <2> SUFFICES ASSUME NEW r \in wire', Refutes(r)
                 PROVE  /\ \A fr \in air' : fr.att # r.att
                        /\ \A i \in Ids : front <= i /\ i < next /\ Mutating(i) /\ cmd[i].maybe
                                          /\ cmd[i].uuid = r.att => executed[i] = 0
      BY <1>1 DEF Refutations, Mutating
    <2>1. CASE r \in wire
      BY <2>1 DEF RunnerInv, Refutations
    <2>2. CASE r \notin wire
      <3>1. PICK fr \in air : fr.att = r.att /\ fr \notin air'
        BY <2>2
      <3>2. \A other \in air' : other.att # r.att
        BY <3>1 DEF RunnerInv, UniqueAttempts
      <3>3. ASSUME NEW i \in Ids, front <= i, i < next, Mutating(i), cmd[i].uuid = r.att
            PROVE  executed[i] = 0
        <4>1. fr.id = i
          BY <3>1, <3>3 DEF RunnerInv, UniqueAttempts
        <4>2. QED
          BY <3>3, <4>1 DEF RunnerInv, Evidence
      <3>4. QED
        BY <3>2, <3>3
    <2>3. QED
      BY <2>1, <2>2
  <1>4. QED
    BY <1>2, <1>3 DEF RunnerInv

LEMMA CarInv ==
    ASSUME TypeOK, RunnerInv, Car
    PROVE  RunnerInv'
  <1>1. ASSUME NEW fr \in air, CarIgnores(fr)
        PROVE  RunnerInv'
    BY <1>1, AnswerStep DEF CarIgnores
  <1>2. ASSUME NEW fr \in air, CarRefuses(fr)
        PROVE  RunnerInv'
    <2>1. CarUnchanged /\ executed' = executed /\ air' = air \ {fr}
      BY <1>2 DEF CarRefuses
    <2>2. \A r \in wire' \ wire : r.att = fr.att
      BY <1>2 DEF CarRefuses, Answers, Reply
    <2>3. QED
      BY <2>1, <2>2, AnswerStep
  <1>3. ASSUME NEW d \in Domains, CarSession(d) \/ UnsignedError(d)
        PROVE  RunnerInv'
    <2>1. \A r \in wire' \ wire : ~Refutes(r)
      <3>1. CASE CarSession(d)
        BY <3>1 DEF CarSession, Refutes
      <3>2. CASE UnsignedError(d)
        BY <3>2 DEF UnsignedError, Refutes
      <3>3. QED
        BY <1>3, <3>1, <3>2
    <2>2. CarUnchanged /\ executed' = executed /\ air' \subseteq air
      BY <1>3 DEF CarSession, UnsignedError
    <2>3. QED
      BY <2>1, <2>2, AnswerStep
  <1>4. ASSUME NEW r \in wire, WireLoses(r)
        PROVE  RunnerInv'
    BY <1>4, AnswerStep DEF WireLoses
  <1>5. ASSUME NEW fr \in air, CarExecutes(fr)
        PROVE  RunnerInv'
    <2>1. UNCHANGED <<cmd, front, next, slots, ctx, expired, result, generation, caller,
                      completion>>
      BY <1>5 DEF CarExecutes, CarUnchanged, queueVars, callerVars, protoVars
    <2>2. air' = air \ {fr} /\ fr.id \in Ids
      BY <1>5 DEF CarExecutes, TypeOK, FrameType
    <2>3. executed'[fr.id] = executed[fr.id] + 1
          /\ \A i \in Ids : i # fr.id => executed'[i] = executed[i]
      BY <1>5, <2>2 DEF CarExecutes, TypeOK
    <2>4. \A r \in wire' : Refutes(r) => r \in wire
      BY <1>5 DEF CarExecutes, Answers, Reply, Refutes
    <2>5. Untouched'
      <3>1. fr.id < next
        BY DEF RunnerInv, Untouched
      <3>2. \A i \in Ids : i >= next => i # fr.id
        BY <2>2, <3>1 DEF TypeOK, Ids
      <3>3. QED
        BY <2>1, <2>2, <2>3, <3>2 DEF RunnerInv, Untouched
    <2>6. Evidence'
      <3> SUFFICES ASSUME NEW i \in Ids, Mutating(i)
                   PROVE  /\ ~cmd[i].maybe => executed'[i] = 0 /\ \A x \in air' : x.id # i
                          /\ cmd[i].maybe => executed'[i] <= 1
                                 /\ (cmd[i].done \/ cmd[i].state = "AwaitingResponse")
                          /\ \A x \in air' : x.id = i => x.att = cmd[i].uuid /\ executed'[i] = 0
        BY <2>1 DEF Evidence, Mutating
      <3>1. CASE i = fr.id
        <4>1. cmd[i].maybe /\ executed[i] = 0 /\ fr.att = cmd[i].uuid
              /\ (cmd[i].done \/ cmd[i].state = "AwaitingResponse")
          BY <3>1 DEF RunnerInv, Evidence
        <4>2. \A x \in air' : x.id # i
          BY <2>2, <3>1, <4>1 DEF RunnerInv, Evidence, UniqueAttempts
        <4>3. executed'[i] = 1
          BY <2>3, <3>1, <4>1
        <4>4. QED
          BY <4>1, <4>2, <4>3
      <3>2. CASE i # fr.id
        BY <2>2, <2>3, <3>2 DEF RunnerInv, Evidence
      <3>3. QED
        BY <3>1, <3>2
    <2>7. Refutations'
      <3> SUFFICES ASSUME NEW r \in wire', Refutes(r)
                   PROVE  /\ \A x \in air' : x.att # r.att
                          /\ \A i \in Ids : front <= i /\ i < next /\ Mutating(i) /\ cmd[i].maybe
                                            /\ cmd[i].uuid = r.att => executed'[i] = 0
        BY <2>1 DEF Refutations, Mutating
      <3>1. r \in wire /\ fr.att # r.att
        BY <2>4 DEF RunnerInv, Refutations
      <3>2. ASSUME NEW i \in Ids, front <= i, i < next, Mutating(i), cmd[i].maybe,
                   cmd[i].uuid = r.att
            PROVE  executed'[i] = 0
        <4>1. i # fr.id
          BY <3>1, <3>2 DEF RunnerInv, Evidence
        <4>2. QED
          BY <2>3, <3>1, <3>2, <4>1 DEF RunnerInv, Refutations
      <3>3. QED
        BY <2>2, <3>1, <3>2 DEF RunnerInv, Refutations
    <2>8. UniqueAttempts' /\ Attempts' /\ Completion' /\ Definite'
      BY <2>1, <2>2 DEF RunnerInv, UniqueAttempts, Attempts, Completion, Definite, HasCommand,
                        Current
    <2>9. QED
      BY <2>5, <2>6, <2>7, <2>8 DEF RunnerInv
  <1>6. QED
    BY <1>1, <1>2, <1>3, <1>4, <1>5 DEF Car

----------------------------------------------------------------------------
(* The answers.  Moves is to AnswerInv what Evolves is to RunnerInv;       *)
(* `earned' is whether the vehicle has carried the command out.            *)

\* How a command changes in any step but the transmission of its payload.
Moves(c, d, earned) ==
    /\ d.kind = c.kind /\ d.uuid = c.uuid
    /\ d.maybe => c.maybe
    /\ c.done => d.done /\ d.outcome = c.outcome /\ d.noop = c.noop
    /\ d.done /\ ~c.done /\ d.outcome = "Success" => c.kind.onTx \/ d.noop \/ earned
    /\ ~d.done /\ d.state = "AwaitingResponse"
       => ~c.done /\ c.state = "AwaitingResponse" /\ d.req = c.req

\* What a step keeps of command i, the transmission of its payload included.
Keeps(i) ==
    /\ cmd'[i].kind = cmd[i].kind
    /\ cmd'[i].uuid = cmd[i].uuid \/ \A r \in wire : r.att # cmd'[i].uuid
    /\ cmd[i].done => /\ cmd'[i].done
                      /\ cmd'[i].outcome = cmd[i].outcome /\ cmd'[i].noop = cmd[i].noop
    /\ cmd'[i].maybe => cmd[i].maybe \/ (~cmd[i].done /\ i \notin expired)
    /\ cmd'[i].done /\ ~cmd[i].done /\ cmd'[i].outcome = "Success"
       => cmd[i].kind.onTx \/ cmd'[i].noop \/ executed[i] > 0

\* A step in which no command is accepted, carried out or answered to its caller.
InnerStep ==
    /\ UNCHANGED <<next, result, executed>>
    /\ front <= front'
    /\ expired \subseteq expired' /\ \A i \in expired' : i < next
    /\ caller'.pc \in {"waiting", "expired"} => result[caller'.id] = "None"
    /\ \A i \in Ids : Keeps(i)
    /\ \A fr \in air' : fr \in air \/ \A r \in wire : r.att # fr.att
    /\ \A r \in wire' : r \in wire \/ ~Confirms(r)
    /\ Routable'

\* A command enters the FIFO as the first id not yet given.
AcceptStep(k, g) ==
    /\ next \in Ids
    /\ Enqueue(k, g)
    /\ UNCHANGED <<front, expired, result, slots, air, wire, executed>>
    /\ caller'.pc \in {"waiting", "expired"} => caller'.id = next

\* A caller learns the outcome of the command it waited for.
TellStep(answer) ==
    /\ caller.id \in Ids /\ caller.id < next /\ result[caller.id] = "None"
    /\ result' = [result EXCEPT ![caller.id] = answer]
    /\ answer = "Success"
       => cmd[caller.id].done /\ cmd[caller.id].outcome = "Success"
    /\ caller'.pc \notin {"waiting", "expired"}
    /\ UNCHANGED <<cmd, front, next, expired, slots, air, wire, executed>>

LEMMA MovesSelf ==
    ASSUME NEW c \in CmdType, NEW earned
    PROVE  Moves(c, c, earned)
  BY DEF Moves

LEMMA MovesTrans ==
    ASSUME NEW c \in CmdType, NEW d \in CmdType, NEW e \in CmdType, NEW earned,
           Moves(c, d, earned), Moves(d, e, earned)
    PROVE  Moves(c, e, earned)
  BY DEF Moves

LEMMA MovesFinish ==
    ASSUME NEW c \in CmdType, NEW failure \in Failures, NEW earned
    PROVE  Moves(c, Finish(c, FALSE, failure), earned)
  BY DEF Moves, Finish, CmdType, Failures

LEMMA MovesFail ==
    ASSUME NEW c \in CmdType, NEW earned
    PROVE  Moves(c, Fail(c), earned)
  BY MovesFinish DEF Fail, Failures

LEMMA MovesPrepared ==
    ASSUME NEW c \in CmdType, NEW earned
    PROVE  Moves(c, Prepared(c), earned)
  BY DEF Moves, Prepared, ConfirmWake, CmdType

LEMMA MovesConfirmWake ==
    ASSUME NEW c \in CmdType, NEW earned
    PROVE  Moves(c, ConfirmWake(c), earned)
  BY DEF Moves, ConfirmWake, CmdType

LEMMA MovesState ==
    ASSUME NEW c \in CmdType, NEW s \in States \ {"AwaitingResponse"}, NEW earned
    PROVE  Moves(c, [c EXCEPT !.state = s], earned)
  BY DEF Moves, CmdType

LEMMA MovesRetry ==
    ASSUME NEW c \in CmdType, NEW earned
    PROVE  Moves(c, ScheduleRetry(c), earned)
  BY DEF Moves, ScheduleRetry, CmdType

LEMMA MovesCleared ==
    ASSUME NEW c \in CmdType, NEW keep \in BOOLEAN, NEW earned
    PROVE  Moves(c, [c EXCEPT !.maybe = @ /\ keep], earned)
  BY DEF Moves, CmdType

LEMMA MovesFault ==
    ASSUME NEW c \in CmdType, ~c.done, NEW code, NEW rejected \in BOOLEAN, NEW earned
    PROVE  Moves(c, FaultEffect(c, code, rejected), earned)
  <1> DEFINE keep == ~(rejected /\ known(code) /\ ~possible_success(code))
             d == [c EXCEPT !.maybe = @ /\ keep]
             o == fault_outcome(code, rejected, c.maybe)
             e == Finish(d, FALSE, o)
             retry == fault_allows_retry(code, rejected, c.maybe, c.kind.effect)
                      /\ RetriesLeft(c)
  <1>1. d \in CmdType /\ Moves(c, d, earned) /\ ~d.done
    BY MovesCleared DEF CmdType
  <1>2. o \in Failures
    BY DEF fault_outcome, Failures
  <1> HIDE DEF d, o, retry
  <1>3. e \in CmdType /\ Moves(d, e, earned)
    BY <1>1, <1>2, FinishType, MovesFinish
  <1>4. retry => ScheduleRetry(d) \in CmdType /\ Moves(d, ScheduleRetry(d), earned)
    BY <1>1, ScheduleRetryType, MovesRetry
  <1> HIDE DEF e
  <1>5. FaultEffect(c, code, rejected) = IF retry THEN ScheduleRetry(d) ELSE e
    BY DEF FaultEffect, d, o, retry, e
  <1>6. QED
    BY <1>1, <1>3, <1>4, <1>5, MovesTrans

LEMMA MovesSuccess ==
    ASSUME NEW c \in CmdType, ~c.done, NEW earned
    PROVE  LET s == Finish(c, TRUE, "DefinitelyFailed")
           IN  (earned => Moves(c, s, earned)) /\ Moves(c, [s EXCEPT !.noop = TRUE], earned)
  <1> DEFINE s == Finish(c, TRUE, "DefinitelyFailed")
  <1>1. s = [c EXCEPT !.done = TRUE, !.outcome = "Success", !.state = "Completed", !.req = 0]
    BY DEF Finish
  <1>2. [s EXCEPT !.noop = TRUE].noop
    BY <1>1 DEF CmdType
  <1>3. QED
    BY <1>1, <1>2 DEF Moves, CmdType

\* Of the replies handle_response() takes, a plain success is one the vehicle earned.
LEMMA MovesRespond ==
    ASSUME NEW c \in CmdType, ~c.done, NEW r, NEW earned,
           r.body \notin {"NoOp", "Error"} => earned
    PROVE  Moves(c, Respond(c, r), earned)
  <1> DEFINE keep == ~(r.auth /\ r.body \in {"Error", "NoOp"})
             d == [c EXCEPT !.maybe = @ /\ keep]
             s == Finish(d, TRUE, "DefinitelyFailed")
             n == [s EXCEPT !.noop = TRUE]
  <1>1. d \in CmdType /\ Moves(c, d, earned) /\ ~d.done
    BY MovesCleared DEF CmdType
  <1> HIDE DEF d
  <1>2. Fail(d) \in CmdType /\ Moves(d, Fail(d), earned)
    BY <1>1, FailType, MovesFail
  <1>3. s \in CmdType /\ (earned => Moves(d, s, earned))
    BY <1>1, FinishType, MovesSuccess DEF Failures
  <1>4. n \in CmdType /\ Moves(d, n, earned)
    BY <1>1, <1>3, MovesSuccess DEF CmdType
  <1> HIDE DEF s, n
  <1>5. Respond(c, r) = CASE r.body = "NoOp" -> n
                          [] r.body = "Error" -> Fail(d)
                          [] OTHER -> s
    BY DEF Respond, d, s, n
  <1>6. \/ Respond(c, r) \in {n, Fail(d)}
        \/ Respond(c, r) = s /\ earned
    BY <1>5
  <1>7. QED
    BY <1>1, <1>2, <1>3, <1>4, <1>6, MovesTrans

----------------------------------------------------------------------------
(* Every step of the device but an enqueue and an answer is an InnerStep.  *)

\* A step that moves one command and runs its callback.
LEMMA PutInner ==
    ASSUME TypeOK, RunnerInv, AnswerInv, NEW i \in Ids, front <= i, i < next,
           i = front \/ slots = {},
           NEW d \in CmdType, Moves(cmd[i], d, executed[i] > 0),
           Put(i, d),
           front <= front', front' \in Int,
           ~d.done /\ d.state = "AwaitingResponse" => front' = i,
           UNCHANGED <<next, expired, caller, result, air, wire, executed>>
    PROVE  InnerStep
  <1>1. cmd' = [cmd EXCEPT ![i] = d]
        /\ slots' = {s \in slots : d.req # 0 \/ s.rid # cmd[i].req}
    BY DEF Put
  <1>2. cmd'[i] = d /\ \A j \in Ids : j # i => cmd'[j] = cmd[j]
    BY <1>1 DEF TypeOK
  <1>3. \A j \in Ids : Keeps(j)
    BY <1>2 DEF Keeps, Moves
  <1>4. Routable'
    <2> SUFFICES ASSUME NEW j \in Ids, front' <= j, j < next, ~cmd'[j].done,
                        cmd'[j].state = "AwaitingResponse"
                 PROVE  j = front'
                        /\ \E s \in slots' : s.rid = cmd'[j].req /\ s.uuid = cmd'[j].uuid
      BY DEF Routable
    <2>0. front <= j
      BY DEF TypeOK, Ids
    <2>1. CASE j = i
      <3>1. ~cmd[i].done /\ cmd[i].state = "AwaitingResponse" /\ d.req = cmd[i].req
            /\ d.uuid = cmd[i].uuid
        BY <1>2, <2>1 DEF Moves
      <3>2. PICK s \in slots : s.rid = cmd[i].req /\ s.uuid = cmd[i].uuid
        BY <3>1 DEF AnswerInv, Routable
      <3>3. s.rid # 0
        BY DEF RunnerInv, Attempts
      <3>4. s \in slots'
        BY <1>1, <3>1, <3>2, <3>3
      <3>5. QED
        BY <1>2, <2>1, <3>1, <3>2, <3>4
    <2>2. CASE j # i
      <3>1. j = front /\ slots # {}
        BY <1>2, <2>0, <2>2 DEF AnswerInv, Routable
      <3>2. QED
        BY <2>2, <3>1
    <2>3. QED
      BY <2>1, <2>2
  <1>5. QED
    BY <1>3, <1>4 DEF InnerStep, AnswerInv, Untold

\* A step that leaves the commands and the slots alone, but for pops.
LEMMA SameInner ==
    ASSUME TypeOK, RunnerInv, AnswerInv,
           UNCHANGED <<cmd, next, result, executed>>, air' \subseteq air,
           front <= front', front' \in Int, front' = front => slots' = slots,
           \A r \in wire' : r \in wire \/ ~Confirms(r),
           expired \subseteq expired' /\ \A i \in expired' : i < next,
           caller'.pc \in {"waiting", "expired"} => result[caller'.id] = "None"
    PROVE  InnerStep
  <1>1. \A i \in Ids : Keeps(i)
    BY DEF Keeps
  <1>2. Routable'
    BY DEF AnswerInv, Routable, TypeOK, Ids
  <1>3. QED
    BY <1>1, <1>2 DEF InnerStep

LEMMA QuietInner ==
    ASSUME TypeOK, RunnerInv, AnswerInv, NEW f \in Ids, f = DriveFront, f < next,
           NEW d \in CmdType, Moves(cmd[f], d, executed[f] > 0), Quiet(f, d)
    PROVE  InnerStep
  <1>1. front <= f /\ (f = front \/ slots = {})
    BY DriveFrontSlots
  <1>2. ~d.done => front' = f
    BY DEF Quiet
  <1>3. front <= front' /\ front' \in Int
    BY <1>1, BoundsAssumption DEF Quiet, TypeOK, Ids
  <1>4. Put(f, d) /\ UNCHANGED <<next, expired, caller, result, air, wire, executed>>
    BY DEF Quiet, carVars
  <1>5. QED
    BY <1>1, <1>2, <1>3, <1>4, PutInner

LEMMA DriveQuietInner ==
    ASSUME TypeOK, RunnerInv, AnswerInv, NEW f, f = DriveFront, f < next,
           \/ DriveCompleted(f) \/ DriveDeadline(f) \/ DriveOffline(f) \/ DriveBackoff(f)
           \/ DriveAwait(f) \/ DriveResponseTimeout(f) \/ DriveStepWait(f)
           \/ DriveStepTimeout(f) \/ DriveAsleep(f)
    PROVE  InnerStep
  <1> DEFINE c == cmd[f]
             p == Prepared(c)
             e == executed[f] > 0
  <1>1. f \in Ids /\ c \in CmdType
    BY DriveFrontSlots
  <1>2. p \in CmdType /\ Fail(c) \in CmdType /\ Fail(p) \in CmdType
    BY <1>1, PreparedType, FailType
  <1>3. Moves(c, c, e) /\ Moves(c, Fail(c), e) /\ Moves(c, p, e) /\ Moves(p, Fail(p), e)
    BY <1>1, <1>2, MovesSelf, MovesFail, MovesPrepared
  <1> HIDE DEF c, p, e
  <1>4. Moves(c, Fail(p), e)
    BY <1>1, <1>2, <1>3, MovesTrans
  <1>5. ASSUME NEW d \in CmdType, Moves(c, d, e), Quiet(f, d)
        PROVE  InnerStep
    BY <1>1, <1>5, QuietInner DEF c, e
  <1>6. CASE DriveCompleted(f) \/ DriveOffline(f) \/ DriveBackoff(f) \/ DriveAwait(f)
    BY <1>1, <1>3, <1>5, <1>6 DEF DriveCompleted, DriveOffline, DriveBackoff, DriveAwait, c
  <1>7. CASE DriveDeadline(f)
    BY <1>2, <1>3, <1>5, <1>7 DEF DriveDeadline, c
  <1>8. CASE DriveResponseTimeout(f)
    <2>1. CASE ~MutatingSubmitted(c) /\ RetriesLeft(c)
      <3> DEFINE d == [c EXCEPT !.tries = @ + 1, !.backoff = TRUE, !.state = "Ready",
                                !.req = 0]
      <3>1. c.tries + 1 \in Nat
        BY <1>1 DEF CmdType
      <3>2. d \in CmdType
        BY <1>1, <3>1 DEF CmdType, States
      <3>3. Moves(c, d, e)
        BY <1>1 DEF Moves, CmdType
      <3>4. Quiet(f, d)
        BY <1>8, <2>1 DEF DriveResponseTimeout, c
      <3>5. QED
        BY <1>5, <3>2, <3>3, <3>4
    <2>2. CASE ~(~MutatingSubmitted(c) /\ RetriesLeft(c))
      BY <1>2, <1>3, <1>5, <1>8, <2>2 DEF DriveResponseTimeout, c
    <2>3. QED
      BY <2>1, <2>2
  <1>9. CASE DriveStepWait(f)
    BY <1>2, <1>3, <1>5, <1>9 DEF DriveStepWait, c, p
  <1>10. CASE DriveStepTimeout(f)
    <2>1. CASE ~MutatingSubmitted(p) /\ RetriesLeft(p)
      <3> DEFINE d == [p EXCEPT !.tries = @ + 1, !.backoff = TRUE, !.awakeOk = FALSE,
                                !.state = "Idle"]
      <3>1. p.tries + 1 \in Nat
        BY <1>2 DEF CmdType
      <3>2. d \in CmdType
        BY <1>2, <3>1 DEF CmdType, States
      <3>3. Moves(p, d, e)
        BY <1>2 DEF Moves, CmdType
      <3>4. Quiet(f, d)
        BY <1>10, <2>1 DEF DriveStepTimeout, c, p
      <3>5. QED
        BY <1>1, <1>2, <1>3, <1>5, <3>2, <3>3, <3>4, MovesTrans
    <2>2. CASE ~(~MutatingSubmitted(p) /\ RetriesLeft(p))
      BY <1>2, <1>4, <1>5, <1>10, <2>2 DEF DriveStepTimeout, c, p
    <2>3. QED
      BY <2>1, <2>2
  <1>11. CASE DriveAsleep(f)
    <2> DEFINE s == IF p.kind.wake = "NoWakeSkip" THEN "Skipped" ELSE "Failed"
               d == [Fail(p) EXCEPT !.state = s]
    <2>1. s \in States \ {"AwaitingResponse"} /\ d \in CmdType
      BY <1>2 DEF CmdType, States, Waiting
    <2>2. Moves(Fail(p), d, e)
      BY <1>2, <2>1, MovesState
    <2>3. Quiet(f, d)
      BY <1>11 DEF DriveAsleep, c, p
    <2>4. QED
      BY <1>1, <1>2, <1>4, <1>5, <2>1, <2>2, <2>3, MovesTrans
  <1>12. QED
    BY <1>6, <1>7, <1>8, <1>9, <1>10, <1>11

LEMMA PrerequisiteInner ==
    ASSUME TypeOK, RunnerInv, AnswerInv, NEW f \in Ids, f = DriveFront, f < next, front <= f,
           slots = {}, NEW c \in CmdType, c.state # "Ready",
           Moves(cmd[f], c, executed[f] > 0),
           NEW act \in TxActions \ {"Payload"}, Transmit(f, c, act)
    PROVE  InnerStep
  <1> DEFINE e == executed[f] > 0
  <1>1. UNCHANGED <<next, expired, caller, result, wire, executed>> /\ front' = f
        /\ front' \in Int /\ cmd[f] \in CmdType
    BY DEF Transmit, TypeOK, Ids
  <1>2. ASSUME NEW d \in CmdType, Moves(c, d, e), Put(f, d), air' = air
        PROVE  InnerStep
    <2>1. Moves(cmd[f], d, e)
      BY <1>1, <1>2, MovesTrans
    <2>2. QED
      BY <1>1, <1>2, <2>1, PutInner
  <1> HIDE DEF e
  <1>3. CASE BuildFails(f, c)
    BY <1>2, <1>3, FailType, MovesFail DEF BuildFails
  <1>4. ASSUME NEW u \in Uuids, WriteFails(f, c, act, u)
        PROVE  InnerStep
    <2>1. TxStarted(c, act, u) = c /\ air' = air
      BY <1>4 DEF TxStarted, WriteFails, Submitted
    <2>2. TxFailed(c) \in CmdType /\ Moves(c, TxFailed(c), e)
      BY TxFailedType, MovesFail, MovesRetry DEF TxFailed
    <2>3. QED
      BY <1>2, <1>4, <2>1, <2>2 DEF WriteFails
  <1>5. ASSUME NEW u \in Uuids, WriteSucceeds(f, c, act, u)
        PROVE  InnerStep
    <2>1. TxComplete(TxStarted(c, act, u), act, u) = c
      BY DEF TxStarted, TxComplete
    <2>2. Put(f, c) /\ air' = air
      BY <1>5, <2>1 DEF WriteSucceeds, Put, Submitted
    <2>3. QED
      BY <1>2, <2>2, MovesSelf
  <1>6. QED
    BY <1>3, <1>4, <1>5 DEF Transmit

\* The transmission of a payload under a fresh UUID, that no reply under way carries.
LEMMA SubmitInner ==
    ASSUME TypeOK, RunnerInv, AnswerInv, NEW f \in Ids, front <= f, f < next,
           f \notin expired, ~cmd[f].done, slots = {},
           NEW u \in Uuids, u \notin InUse,
           NEW d \in CmdType, d.kind = cmd[f].kind, d.uuid = u,
           d.done /\ d.outcome = "Success" => d.kind.onTx,
           cmd' = [cmd EXCEPT ![f] = d],
           air' \in {air, air \cup {[id |-> f, att |-> u]}},
           ~d.done /\ d.state = "AwaitingResponse"
               => \E s \in slots' : s.rid = d.req /\ s.uuid = u,
           front' = f,
           UNCHANGED <<next, expired, caller, result, wire, executed>>
    PROVE  InnerStep
  <1>1. cmd'[f] = d /\ \A i \in Ids : i # f => cmd'[i] = cmd[i]
    BY DEF TypeOK
  <1>2. \A r \in wire : r.att # u
    BY DEF InUse
  <1>3. \A i \in Ids : Keeps(i)
    BY <1>1, <1>2 DEF Keeps
  <1>4. Routable'
    <2>1. ASSUME NEW j \in Ids, f <= j, j < next, j # f
          PROVE  cmd[j].done \/ cmd[j].state # "AwaitingResponse"
      BY <2>1 DEF AnswerInv, Routable, TypeOK, Ids
    <2>2. QED
      BY <1>1, <2>1 DEF Routable
  <1>5. \A fr \in air' : fr \in air \/ \A r \in wire : r.att # fr.att
    BY <1>2
  <1>6. QED
    BY <1>3, <1>4, <1>5 DEF InnerStep, AnswerInv, Untold

LEMMA PayloadInner ==
    ASSUME TypeOK, RunnerInv, AnswerInv, NEW f \in Ids, f = DriveFront, f < next, front <= f,
           f \notin expired, ~cmd[f].done,
           slots = {}, NEW c \in CmdType, ~c.done, c.state = "Ready", c.req = 0,
           Moves(cmd[f], c, executed[f] > 0),
           Transmit(f, c, "Payload")
    PROVE  InnerStep
  <1>1. UNCHANGED <<next, expired, caller, result, wire, executed>> /\ front' = f
        /\ front' \in Int /\ cmd[f] \in CmdType
    BY DEF Transmit, TypeOK, Ids
  <1>2. CASE BuildFails(f, c)
    <2>1. Fail(c) \in CmdType /\ Moves(cmd[f], Fail(c), executed[f] > 0)
      BY <1>1, FailType, MovesFail, MovesTrans
    <2>2. Put(f, Fail(c)) /\ air' = air
      BY <1>2 DEF BuildFails
    <2>3. QED
      BY <1>1, <2>1, <2>2, PutInner
  <1>3. ASSUME NEW u \in Uuids, IsFresh(u),
               WriteFails(f, c, "Payload", u) \/ WriteSucceeds(f, c, "Payload", u)
        PROVE  InnerStep
    <2> DEFINE b == TxStarted(c, "Payload", u)
    <2>1. u \notin InUse /\ u # 0
      BY <1>3, UuidsAssumption DEF IsFresh
    <2>2. b \in CmdType /\ b.kind = cmd[f].kind /\ b.uuid = u
          /\ ~b.done /\ b.state = "Ready" /\ b.req = 0
      BY TxStartedType DEF TxStarted, CmdType, TxActions, Moves
    <2> HIDE DEF b
    <2>3. CASE WriteFails(f, c, "Payload", u)
      <3> DEFINE d == TxFailed(b)
      <3>1. d \in CmdType
        BY <2>2, TxFailedType
      <3>2. d.kind = b.kind /\ d.uuid = u /\ (d.done => d.outcome # "Success")
            /\ d.state # "AwaitingResponse"
        BY <2>2 DEF TxFailed, Fail, Finish, ScheduleRetry, CmdType
      <3>3. cmd' = [cmd EXCEPT ![f] = d] /\ air' \in {air, air \cup {[id |-> f, att |-> u]}}
        BY <2>3 DEF WriteFails, Put, Submitted, b
      <3> HIDE DEF d
      <3>4. QED
        BY <1>1, <2>1, <2>2, <3>1, <3>2, <3>3, SubmitInner
    <2>4. CASE WriteSucceeds(f, c, "Payload", u)
      <3> DEFINE d == TxComplete(b, "Payload", u)
      <3>1. d \in CmdType
        BY <2>2, TxCompleteType DEF TxActions
      <3>2. d.kind = b.kind /\ d.uuid = u /\ (d.done => d.kind.onTx)
            /\ (~d.done => d.req = u)
        BY <2>2 DEF TxComplete, Finish, CmdType
      <3> HIDE DEF d
      <3>3. cmd' = [cmd EXCEPT ![f] = d] /\ air' = air \cup {[id |-> f, att |-> u]}
        BY <2>4 DEF WriteSucceeds, Submitted, b, d
      <3>4. d.req # 0 => slots' = slots \cup {[rid |-> d.req, dom |-> c.kind.dom,
                                               uuid |-> d.uuid]}
        BY <2>4 DEF WriteSucceeds, b, d
      <3>5. ASSUME ~d.done
            PROVE  \E s \in slots' : s.rid = d.req /\ s.uuid = u
        <4>1. [rid |-> d.req, dom |-> c.kind.dom, uuid |-> d.uuid] \in slots'
          BY <2>1, <3>2, <3>4, <3>5
        <4>2. QED
          BY <3>2, <4>1
      <3>6. QED
        BY <1>1, <2>1, <2>2, <3>1, <3>2, <3>3, <3>5, SubmitInner
    <2>5. QED
      BY <1>3, <2>3, <2>4
  <1>4. QED
    BY <1>2, <1>3 DEF Transmit

LEMMA DriveInner ==
    ASSUME TypeOK, RunnerInv, AnswerInv, Drive
    PROVE  InnerStep
  <1>1. CASE DriveIdle
    <2>1. front <= next /\ front' = next /\ next \in Int /\ front \in Int
      BY <1>1 DEF DriveIdle, TypeOK
    <2>2. QED
      BY <1>1, <2>1, SameInner DEF DriveIdle, callerVars, carVars, AnswerInv, Untold
  <1>2. CASE DriveFront < next /\ ~DriveIdle
    <2> DEFINE f == DriveFront
    <2>1. f = DriveFront /\ f < next
      BY <1>2
    <2> HIDE DEF f
    <2>2. CASE \/ DriveCompleted(f) \/ DriveDeadline(f) \/ DriveOffline(f) \/ DriveBackoff(f)
               \/ DriveAwait(f) \/ DriveResponseTimeout(f) \/ DriveStepWait(f)
               \/ DriveStepTimeout(f) \/ DriveAsleep(f)
      BY <2>1, <2>2, DriveQuietInner
    <2>3. ASSUME NEW s \in States \ {"AwaitingResponse"}, NEW c,
                 c = [Prepared(cmd[f]) EXCEPT !.state = s], Progresses(f)
          PROVE  /\ f \in Ids /\ front <= f /\ slots = {} /\ f \notin expired /\ ~cmd[f].done
                 /\ c \in CmdType /\ ~c.done /\ c.state = s /\ c.req = 0
                 /\ Moves(cmd[f], c, executed[f] > 0)
      <3> DEFINE p == Prepared(cmd[f])
                 e == executed[f] > 0
      <3>1. /\ f \in Ids /\ front <= f /\ slots = {} /\ f \notin expired /\ ~cmd[f].done
            /\ c \in CmdType /\ ~c.done /\ c.state = s /\ c.req = 0
        BY <2>1, <2>3, BeforeTransmit
      <3>2. cmd[f] \in CmdType /\ p \in CmdType
        BY <3>1, PreparedType DEF TypeOK
      <3>3. Moves(cmd[f], p, e)
        BY <3>2, MovesPrepared
      <3> HIDE DEF p, e
      <3>4. Moves(p, c, e)
        BY <2>3, <3>2, MovesState DEF p
      <3>5. QED
        BY <3>1, <3>2, <3>3, <3>4, MovesTrans DEF e
    <2>4. ASSUME NEW s \in StepWaits, NEW act \in TxActions \ {"Payload"}, Progresses(f),
                 Transmit(f, [Prepared(cmd[f]) EXCEPT !.state = s], act)
          PROVE  InnerStep
      <3>1. s \in States \ {"AwaitingResponse"} /\ s # "Ready"
        BY DEF StepWaits, States, Waiting
      <3>2. PICK c : c = [Prepared(cmd[f]) EXCEPT !.state = s]
        OBVIOUS
      <3>3. Transmit(f, c, act)
        BY <2>4, <3>2
      <3>4. QED
        BY <2>1, <2>3, <2>4, <3>1, <3>2, <3>3, PrerequisiteInner
    <2>5. CASE DriveVcsecAuth(f) \/ DriveWake(f) \/ DriveInfoAuth(f)
      BY <2>4, <2>5 DEF DriveVcsecAuth, DriveWake, DriveInfoAuth, StepWaits, TxActions
    <2>6. CASE DrivePayload(f)
      <3>1. PICK c : c = [Prepared(cmd[f]) EXCEPT !.state = "Ready"]
        OBVIOUS
      <3>2. Progresses(f) /\ Transmit(f, c, "Payload")
        BY <2>6, <3>1 DEF DrivePayload
      <3>3. "Ready" \in States \ {"AwaitingResponse"}
        BY DEF States
      <3>4. QED
        BY <2>1, <2>3, <3>1, <3>2, <3>3, PayloadInner
    <2>7. QED
      BY <1>2, <2>2, <2>5, <2>6 DEF Drive, f
  <1>3. QED
    BY <1>1, <1>2 DEF Drive

LEMMA RxInner ==
    ASSUME TypeOK, RunnerInv, AnswerInv, Rx
    PROVE  InnerStep
  <1> DEFINE Same == UNCHANGED <<front, next, expired, caller, result, air, wire, executed>>
             e == executed[front] > 0
  <1>1. HasCommand => front \in Ids /\ front < next /\ Current \in CmdType
    BY BoundsAssumption DEF TypeOK, HasCommand, Current, Ids
  <1>2. ASSUME HasCommand, NEW d \in CmdType, Moves(Current, d, e), Put(front, d), Same
        PROVE  InnerStep
    BY <1>1, <1>2, PutInner DEF Current, TypeOK
  <1>3. ASSUME UNCHANGED <<cmd, slots>>, Same
        PROVE  InnerStep
    BY <1>3, SameInner DEF AnswerInv, Untold, TypeOK
  <1> HIDE DEF e
  <1>4. RxUnchanged => Same
    BY DEF RxUnchanged, carVars
  <1>5. ASSUME NEW r \in wire, RxSession(r)
        PROVE  InnerStep
    <2> DEFINE c == IF AwaitsAuth(r.dom) THEN [Current EXCEPT !.state = "Idle"] ELSE Current
    <2>1. HasCommand /\ Put(front, c) /\ Same
      BY <1>4, <1>5 DEF RxSession, Matches
    <2>2. "Idle" \in States \ {"AwaitingResponse"}
      BY DEF States
    <2>3. c \in CmdType /\ Moves(Current, c, e)
      BY <1>1, <2>1, <2>2, MovesSelf, MovesState DEF CmdType
    <2>4. QED
      BY <1>2, <2>1, <2>3
  <1>6. ASSUME NEW r \in wire, RxSessionBad(r)
        PROVE  InnerStep
    <2>1. HasCommand /\ Put(front, Fail(Current)) /\ Same
      BY <1>4, <1>6 DEF RxSessionBad, Matches
    <2>2. QED
      BY <1>1, <1>2, <2>1, FailType, MovesFail
  <1>7. ASSUME NEW r \in wire, NEW empty \in BOOLEAN, RxFault(r, empty)
        PROVE  InnerStep
    <2> DEFINE rejected == PayloadRejection(r)
               d == FaultEffect(Current, r.code, rejected)
    <2>1. HasCommand /\ ~Current.done
      BY <1>7 DEF RxFault, FaultAdmitted, Matches, CtxLive
    <2>2. Put(front, d) /\ Same
      BY <1>7 DEF RxFault, carVars
    <2>3. rejected \in BOOLEAN
      BY DEF PayloadRejection
    <2> HIDE DEF rejected
    <2>4. d \in CmdType /\ Moves(Current, d, e)
      BY <1>1, <2>1, <2>3, FaultEffectType, MovesFault
    <2>5. QED
      BY <1>2, <2>1, <2>2, <2>4
  <1>8. ASSUME NEW r \in wire, HasCommand, r.att = Current.uuid, ~Current.done,
               Put(front, Respond(Current, r)), Same,
               Confirms(r) \/ r.body \in {"Error", "NoOp"}
        PROVE  InnerStep
    <2>1. r.body \notin {"NoOp", "Error"} => e
      BY <1>1, <1>8 DEF AnswerInv, Confirmations, Current, TypeOK, e
    <2>2. Respond(Current, r) \in CmdType /\ Moves(Current, Respond(Current, r), e)
      BY <1>1, <1>8, <2>1, RespondType, MovesRespond
    <2>3. QED
      BY <1>2, <1>8, <2>2
  <1>9. ASSUME NEW r \in wire, NEW empty \in BOOLEAN,
               RxVcsecResult(r, empty) \/ RxInfoResult(r)
               \/ \E s \in {"Unknown", "Asleep", "Awake"} : RxVcsecStatus(r, empty, s)
        PROVE  InnerStep
    <2>1. /\ Put(front, Respond(Current, r)) /\ Same
          /\ Confirms(r) \/ r.body \in {"Error", "NoOp"}
      BY <1>4, <1>9 DEF RxVcsecResult, RxInfoResult, RxVcsecStatus, Receives, Confirms
    <2>2. \/ r.dom = "Vcsec" /\ VcsecAdmitted(r, empty)
          \/ r.dom = "Info" /\ InfoAdmitted(r)
      BY <1>9 DEF RxVcsecResult, RxInfoResult, RxVcsecStatus
    <2>3. HasCommand /\ r.att = Current.uuid
      BY <2>2, AdmittedAttempt
    <2>4. ~Current.done
      <3>1. CASE r.dom = "Vcsec" /\ VcsecAdmitted(r, empty)
        BY <3>1 DEF VcsecAdmitted, Matches, CtxLive
      <3>2. CASE r.dom = "Info" /\ InfoAdmitted(r)
        <4>1. PICK s \in slots : s.rid = Current.req
          BY <3>2 DEF InfoAdmitted, RoutedToHead, Routes
        <4>2. Current.req # 0
          BY <4>1 DEF RunnerInv, Attempts
        <4>3. QED
          BY <1>1, <2>3, <4>2 DEF RunnerInv, Attempts, Current
      <3>3. QED
        BY <2>2, <3>1, <3>2
    <2>5. QED
      BY <1>8, <2>1, <2>3, <2>4
  <1>10. ASSUME NEW r \in wire, NEW empty \in BOOLEAN, RxDrop(r, empty)
         PROVE  InnerStep
    BY <1>3, <1>4, <1>10 DEF RxDrop, RxDropped
  <1>11. ASSUME NEW s \in {"Unknown", "Asleep", "Awake"}, NEW closures \in BOOLEAN,
                RxBroadcast(s, closures)
         PROVE  InnerStep
    <2>1. Same
      BY <1>4, <1>11 DEF RxBroadcast
    <2>2. CASE HasCommand /\ (s = "Awake" \/ closures)
      <3>1. ConfirmWake(Current) \in CmdType /\ Moves(Current, ConfirmWake(Current), e)
        BY <1>1, <2>2, ConfirmWakeType, MovesConfirmWake
      <3>2. Put(front, ConfirmWake(Current))
        BY <1>11, <2>2 DEF RxBroadcast
      <3>3. QED
        BY <1>2, <2>1, <2>2, <3>1, <3>2
    <2>3. CASE ~(HasCommand /\ (s = "Awake" \/ closures))
      BY <1>3, <1>11, <2>1, <2>3 DEF RxBroadcast
    <2>4. QED
      BY <2>2, <2>3
  <1>12. QED
    BY <1>5, <1>6, <1>7, <1>9, <1>10, <1>11 DEF Rx

LEMMA LinkInner ==
    ASSUME TypeOK, RunnerInv, AnswerInv, Link
    PROVE  InnerStep
  <1>1. CASE LinkLoss \/ LinkUp
    BY <1>1, SameInner DEF LinkLoss, LinkUp, queueVars, callerVars, protoVars, carVars,
                           AnswerInv, Untold, TypeOK
  <1>2. CASE ApplyLinkDown
    <2>1. UNCHANGED <<front, next, expired, caller, result, air, wire, executed>>
      BY <1>2 DEF ApplyLinkDown, carVars
    <2>2. HasCommand => front \in Ids /\ Current \in CmdType
      BY BoundsAssumption DEF TypeOK, HasCommand, Current, Ids
    <2>3. \A i \in Ids : Keeps(i) /\ (cmd'[i] = cmd[i] \/ (i = front /\ cmd'[i].done))
      <3>1. CASE HasCommand
        <4>1. Moves(Current, Fail(Current), FALSE) /\ Fail(Current).done
          BY <2>2, <3>1, MovesFail DEF Fail, Finish, CmdType
        <4>2. \A i \in Ids : cmd'[i] = IF i = front THEN Fail(Current) ELSE cmd[i]
          BY <1>2, <3>1 DEF ApplyLinkDown, TypeOK
        <4>3. QED
          BY <4>1, <4>2 DEF Keeps, Moves, Current
      <3>2. CASE ~HasCommand
        BY <1>2, <3>2 DEF ApplyLinkDown, Keeps
      <3>3. QED
        BY <3>1, <3>2
    <2>4. Routable'
      <3>1. \A i \in Ids : front <= i /\ i < next /\ ~cmd'[i].done
                           => cmd[i].state # "AwaitingResponse"
        <4> SUFFICES ASSUME NEW i \in Ids, front <= i, i < next, ~cmd'[i].done
                     PROVE  cmd[i].state # "AwaitingResponse"
          OBVIOUS
        <4>1. cmd'[i] = cmd[i]
          BY <2>3
        <4>2. CASE i = front
          <5>1. HasCommand
            BY <4>2 DEF HasCommand
          <5>2. cmd'[i] = Fail(Current) /\ Fail(Current).done
            BY <1>2, <2>2, <4>2, <5>1 DEF ApplyLinkDown, TypeOK, Fail, Finish, CmdType
          <5>3. QED
            BY <5>2
        <4>3. CASE i # front
          BY <4>1, <4>3 DEF AnswerInv, Routable
        <4>4. QED
          BY <4>2, <4>3
      <3>2. QED
        BY <2>1, <2>3, <3>1 DEF Routable
    <2>5. front <= front'
      BY <2>1 DEF TypeOK
    <2>6. QED
      BY <2>1, <2>3, <2>4, <2>5 DEF InnerStep, AnswerInv, Untold
  <1>3. QED
    BY <1>1, <1>2 DEF Link

LEMMA TimeInner ==
    ASSUME TypeOK, RunnerInv, AnswerInv, Time
    PROVE  InnerStep
  <1>1. /\ UNCHANGED <<cmd, front, next, slots, air, wire, executed, result, caller>>
        /\ expired \subseteq expired'
        /\ \A i \in expired' : i \in expired \/ i < next
    BY DEF Time, PhaseRunsOut, DeadlinePasses, callerVars, protoVars, carVars
  <1>2. QED
    BY <1>1, SameInner DEF AnswerInv, Untold, TypeOK

LEMMA CallersSteps ==
    ASSUME TypeOK, RunnerInv, AnswerInv, Callers
    PROVE  \/ InnerStep
           \/ \E k \in Kinds, g \in Nat : AcceptStep(k, g)
           \/ \E answer \in Outcomes : TellStep(answer)
  <1> USE DEF queueVars, callerVars, protoVars, carVars
  <1>1. ASSUME NEW k \in Kinds, CallerEnqueue(k)
        PROVE  InnerStep \/ \E g \in Nat : AcceptStep(k, g)
    <2>1. CASE IsFull
      BY <1>1, <2>1, SameInner DEF CallerEnqueue, AnswerInv, Untold, TypeOK
    <2>2. CASE ~IsFull
      <3>1. next \in Ids /\ generation + 1 \in Nat
        BY <1>1, BoundsAssumption DEF CallerEnqueue, TypeOK, Ids
      <3>2. AcceptStep(k, generation + 1)
        BY <1>1, <2>2, <3>1 DEF CallerEnqueue, AcceptStep
      <3>3. QED
        BY <3>1, <3>2
    <2>3. QED
      BY <2>1, <2>2
  <1>2. ASSUME NEW k \in Kinds, PollEnqueue(k)
        PROVE  AcceptStep(k, 0)
    <2>1. next \in Ids
      BY <1>2, BoundsAssumption DEF PollEnqueue, TypeOK, Ids
    <2>2. QED
      BY <1>2, <2>1 DEF PollEnqueue, AcceptStep
  <1>3. CASE CallerSignalled
    <2>1. caller.id \in Ids /\ caller.id < next /\ cmd[caller.id].done
          /\ completion = cmd[caller.id].outcome /\ result[caller.id] = "None"
      BY <1>3 DEF CallerSignalled, RunnerInv, Completion, AnswerInv, Untold
    <2>2. caller'.pc = "popping" /\ completion \in Outcomes
      BY <1>3 DEF CallerSignalled, TypeOK, CallerType
    <2>3. TellStep(completion)
      BY <1>3, <2>1, <2>2 DEF CallerSignalled, TellStep
    <2>4. QED
      BY <2>2, <2>3
  <1>4. CASE CallerTimesOut
    <2>1. caller'.id = caller.id
      BY <1>4 DEF CallerTimesOut, TypeOK, CallerType
    <2>2. QED
      BY <1>4, <2>1, SameInner DEF CallerTimesOut, AnswerInv, Untold, TypeOK
  <1>5. CASE CallerSnapshot
    <2>1. caller.id \in Ids /\ caller.id < next /\ result[caller.id] = "None"
      BY <1>5 DEF CallerSnapshot, RunnerInv, Completion, AnswerInv, Untold
    <2>2. caller'.pc = "flushing"
      BY <1>5 DEF CallerSnapshot, TypeOK, CallerType
    <2>3. PendingFailure(caller.id) \in Outcomes \ {"Success"}
      BY <2>1 DEF PendingFailure, TypeOK, CmdType, Outcomes, Failures
    <2>4. ASSUME NEW answer \in Outcomes \ {"Success"}, result' = [result EXCEPT ![caller.id] = answer]
          PROVE  TellStep(answer)
      BY <1>5, <2>1, <2>2, <2>4 DEF CallerSnapshot, TellStep
    <2>5. "MayHaveSucceeded" \in Outcomes \ {"Success"}
      BY DEF Outcomes, Failures
    <2>6. QED
      BY <1>5, <2>3, <2>4, <2>5 DEF CallerSnapshot
  <1>6. CASE CallerFlush
    <2>1. \A i \in Ids : cmd'[i] \in {cmd[i], Fail(cmd[i])} /\ cmd[i] \in CmdType
      BY <1>6 DEF CallerFlush, TypeOK
    <2>2. \A i \in Ids : Moves(cmd[i], cmd'[i], FALSE)
      BY <2>1, MovesSelf, MovesFail
    <2>3. \A i \in Ids : Keeps(i)
      BY <2>2 DEF Keeps, Moves
    <2>4. front' = next /\ front <= front' /\ \A i \in Ids : ~(next <= i /\ i < next)
      BY <1>6 DEF CallerFlush, TypeOK, Ids
    <2>5. caller'.pc = "idle"
      BY <1>6 DEF CallerFlush, TypeOK, CallerType
    <2>6. QED
      BY <1>6, <2>3, <2>4, <2>5 DEF CallerFlush, InnerStep, Routable, AnswerInv, Untold
  <1>7. CASE CallerPop
    <2>1. caller'.pc = "idle"
      BY <1>7 DEF CallerPop, TypeOK, CallerType
    <2>2. front <= front' /\ front' \in Int /\ (front' = front => slots' = slots)
      BY <1>7 DEF CallerPop, TypeOK
    <2>3. UNCHANGED <<cmd, next, expired, result, air, wire, executed>>
      BY <1>7 DEF CallerPop
    <2>4. QED
      BY <2>1, <2>2, <2>3, SameInner DEF AnswerInv, Untold
  <1>8. QED
    BY <1>1, <1>2, <1>3, <1>4, <1>5, <1>6, <1>7 DEF Callers, CallerStep

LEMMA CarSteps ==
    ASSUME TypeOK, RunnerInv, AnswerInv, Car
    PROVE  InnerStep \/ \E fr \in air : CarExecutes(fr)
  <1>1. ASSUME CarUnchanged, executed' = executed, air' \subseteq air,
               \A r \in wire' : r \in wire \/ ~Confirms(r)
        PROVE  InnerStep
    <2>1. UNCHANGED <<cmd, front, next, slots, expired, result, caller>>
      BY <1>1 DEF CarUnchanged, queueVars, callerVars, protoVars
    <2>2. QED
      BY <1>1, <2>1, SameInner DEF AnswerInv, Untold, TypeOK
  <1>2. ASSUME NEW fr \in air, CarIgnores(fr)
        PROVE  InnerStep
    BY <1>1, <1>2 DEF CarIgnores
  <1>3. ASSUME NEW fr \in air, CarRefuses(fr)
        PROVE  InnerStep
    <2>1. \A r \in wire' : r \in wire \/ ~Confirms(r)
      BY <1>3 DEF CarRefuses, Answers, Reply, Confirms
    <2>2. QED
      BY <1>1, <1>3, <2>1 DEF CarRefuses
  <1>4. ASSUME NEW d \in Domains, CarSession(d)
        PROVE  InnerStep
    <2>1. \A r \in wire' : r \in wire \/ ~Confirms(r)
      BY <1>4 DEF CarSession, Confirms
    <2>2. QED
      BY <1>1, <1>4, <2>1 DEF CarSession
  <1>5. ASSUME NEW d \in Domains, UnsignedError(d)
        PROVE  InnerStep
    <2>1. \A r \in wire' : r \in wire \/ ~Confirms(r)
      BY <1>5 DEF UnsignedError, Confirms
    <2>2. QED
      BY <1>1, <1>5, <2>1 DEF UnsignedError
  <1>6. ASSUME NEW r \in wire, WireLoses(r)
        PROVE  InnerStep
    BY <1>1, <1>6 DEF WireLoses
  <1>7. QED
    BY <1>2, <1>3, <1>4, <1>5, <1>6 DEF Car

----------------------------------------------------------------------------
(* AnswerInv is kept.                                                      *)

LEMMA InnerAnswer ==
    ASSUME TypeOK, TypeOK', AnswerInv, InnerStep
    PROVE  AnswerInv'
  <1>1. \A i \in Ids : Keeps(i)
    BY DEF InnerStep
  <1>2. Confirmations'
    <2> SUFFICES ASSUME NEW r \in wire', Confirms(r)
                 PROVE  /\ \A fr \in air' : fr.att # r.att
                        /\ \A i \in Ids : front' <= i /\ i < next' /\ cmd'[i].uuid = r.att
                                          => executed'[i] > 0
      BY DEF Confirmations
    <2>1. r \in wire
      BY DEF InnerStep
    <2>2. \A fr \in air' : fr.att # r.att
      BY <2>1 DEF InnerStep, AnswerInv, Confirmations
    <2>3. ASSUME NEW i \in Ids, front' <= i, i < next', cmd'[i].uuid = r.att
          PROVE  executed'[i] > 0
      <3>1. front <= i /\ i < next /\ executed'[i] = executed[i]
        BY <2>3 DEF InnerStep, TypeOK, Ids
      <3>2. cmd[i].uuid = r.att
        BY <1>1, <2>1, <2>3 DEF Keeps
      <3>3. QED
        BY <2>1, <3>1, <3>2 DEF AnswerInv, Confirmations
    <2>4. QED
      BY <2>2, <2>3
  <1>3. Earned'
    BY <1>1 DEF InnerStep, AnswerInv, Earned, Keeps
  <1>4. Untold'
    BY DEF InnerStep, Untold
  <1>5. QED
    BY <1>2, <1>3, <1>4 DEF InnerStep, AnswerInv

LEMMA AcceptAnswer ==
    ASSUME TypeOK, TypeOK', RunnerInv, AnswerInv,
           NEW k \in Kinds, NEW g \in Nat, AcceptStep(k, g)
    PROVE  AnswerInv'
  <1> DEFINE n == NewCommand(k, g)
  <1>1. next \in Ids /\ next' = next + 1 /\ cmd' = [cmd EXCEPT ![next] = n]
    BY DEF AcceptStep, Enqueue
  <1>2. cmd'[next] = n /\ \A i \in Ids : i # next => cmd'[i] = cmd[i]
    BY <1>1 DEF TypeOK
  <1>3. ~n.done /\ n.state = "Idle" /\ n.uuid = 0
    BY DEF NewCommand
  <1> HIDE DEF n
  <1>4. executed[next] = 0 /\ result[next] = "None"
    BY <1>1 DEF RunnerInv, Untouched, TypeOK
  <1>5. UNCHANGED <<front, expired, result, slots, air, wire, executed>>
    BY DEF AcceptStep
  <1>6. \A i \in Ids : i < next' => i < next \/ i = next
    BY <1>1 DEF TypeOK, Ids
  <1>7. Confirmations'
    <2>1. \A r \in wire : r.att # 0
      BY UuidsAssumption DEF TypeOK, ReplyType
    <2>2. QED
      BY <1>2, <1>3, <1>5, <1>6, <2>1 DEF AnswerInv, Confirmations
  <1>8. Earned'
    BY <1>2, <1>3, <1>4, <1>5 DEF AnswerInv, Earned
  <1>9. Routable'
    BY <1>2, <1>3, <1>5, <1>6 DEF AnswerInv, Routable
  <1>10. Untold'
    <2>1. \A i \in expired : i \in Ids /\ i < next + 1
      BY DEF AnswerInv, Untold, TypeOK, Ids
    <2>2. QED
      BY <1>1, <1>4, <1>5, <2>1 DEF Untold, AcceptStep
  <1>11. QED
    BY <1>7, <1>8, <1>9, <1>10 DEF AnswerInv

LEMMA TellAnswer ==
    ASSUME TypeOK, AnswerInv, NEW answer, TellStep(answer)
    PROVE  AnswerInv'
  <1>1. UNCHANGED <<cmd, front, next, expired, slots, air, wire, executed>>
    BY DEF TellStep
  <1>2. Confirmations' /\ Routable'
    BY <1>1 DEF AnswerInv, Confirmations, Routable
  <1>3. Earned'
    BY <1>1 DEF TellStep, AnswerInv, Earned, TypeOK
  <1>4. Untold'
    BY <1>1 DEF TellStep, AnswerInv, Untold
  <1>5. QED
    BY <1>2, <1>3, <1>4 DEF AnswerInv

LEMMA ExecuteAnswer ==
    ASSUME TypeOK, TypeOK', RunnerInv, AnswerInv, NEW fr \in air, CarExecutes(fr)
    PROVE  AnswerInv'
  <1>1. UNCHANGED <<cmd, front, next, slots, expired, result, caller>>
    BY DEF CarExecutes, CarUnchanged, queueVars, callerVars, protoVars
  <1>2. air' = air \ {fr} /\ fr.id \in Ids
    BY DEF CarExecutes, TypeOK, FrameType
  <1>3. executed'[fr.id] > 0 /\ \A i \in Ids : i # fr.id => executed'[i] = executed[i]
    BY <1>2 DEF CarExecutes, TypeOK
  <1>4. \A r \in wire' : r \in wire \/ r.att = fr.att
    BY DEF CarExecutes, Answers, Reply
  <1>5. \A i \in Ids : executed[i] > 0 => executed'[i] > 0
    BY <1>3
  <1>6. Confirmations'
    <2>1. \A other \in air' : other.att # fr.att
      BY <1>2 DEF RunnerInv, UniqueAttempts
    <2>2. \A i \in Ids : front <= i /\ i < next /\ cmd[i].uuid = fr.att => executed'[i] > 0
      BY <1>3 DEF RunnerInv, UniqueAttempts
    <2>3. QED
      BY <1>1, <1>2, <1>4, <1>5, <2>1, <2>2 DEF AnswerInv, Confirmations
  <1>7. Earned'
    BY <1>1, <1>5 DEF AnswerInv, Earned
  <1>8. Routable' /\ Untold'
    BY <1>1 DEF AnswerInv, Routable, Untold
  <1>9. QED
    BY <1>6, <1>7, <1>8 DEF AnswerInv

LEMMA NextSteps ==
    ASSUME TypeOK, RunnerInv, AnswerInv, Next
    PROVE  \/ InnerStep
           \/ \E k \in Kinds, g \in Nat : AcceptStep(k, g)
           \/ \E answer \in Outcomes : TellStep(answer)
           \/ \E fr \in air : CarExecutes(fr)
  <1>1. CASE Drive \/ Rx \/ Link \/ Time
    BY <1>1, DriveInner, RxInner, LinkInner, TimeInner
  <1>2. CASE Callers
    BY <1>2, CallersSteps
  <1>3. CASE Car
    BY <1>3, CarSteps
  <1>4. QED
    BY <1>1, <1>2, <1>3 DEF Next

----------------------------------------------------------------------------
(* The theorems                                                            *)

LEMMA InitInv == Init => RunnerInv
  <1> SUFFICES ASSUME Init PROVE RunnerInv
    OBVIOUS
  <1> DEFINE n == NewCommand(CHOOSE k \in Kinds : TRUE, 0)
  <1>1. \A i \in Ids : cmd[i] = n
    BY DEF Init
  <1>2. n.maybe = FALSE /\ n.done = FALSE /\ n.state = "Idle" /\ n.req = 0 /\ n.gen = 0
    BY DEF NewCommand
  <1> HIDE DEF n
  <1>3. Untouched /\ UniqueAttempts /\ Refutations
    BY DEF Init, Untouched, UniqueAttempts, Refutations
  <1>4. Evidence /\ Attempts /\ Completion /\ Definite
    BY <1>1, <1>2 DEF Init, Evidence, Attempts, Completion, Definite, NoCtx
  <1>5. QED
    BY <1>3, <1>4 DEF RunnerInv

\* What payload_maybe_sent, the dispatcher slots, the VCSEC context and the completion
\* generation say is true in every reachable state.
THEOREM RunnerInvariant == Spec => [](TypeOK /\ RunnerInv)
  <1>1. Init => TypeOK /\ RunnerInv
    BY InitTypeOK, InitInv
  <1>2. TypeOK /\ RunnerInv /\ [Next]_vars => (TypeOK /\ RunnerInv)'
    <2> SUFFICES ASSUME TypeOK, RunnerInv, [Next]_vars
                 PROVE  TypeOK' /\ RunnerInv'
      OBVIOUS
    <2>1. CASE Next
      <3>1. TypeOK'
        BY <2>1, DriveTypeOK, RxTypeOK, LinkTypeOK, CallersTypeOK, TimeTypeOK, CarTypeOK
           DEF Next
      <3>2. RunnerInv'
        BY <2>1, DriveInv, RxInv, LinkInv, CallersInv, TimeInv, CarInv DEF Next
      <3>3. QED
        BY <3>1, <3>2
    <2>2. CASE UNCHANGED vars
      <3>1. TypeOK'
        BY <2>2 DEF vars, queueVars, callerVars, protoVars, carVars, TypeOK
      <3>2. RunnerInv'
        BY <2>2 DEF vars, queueVars, callerVars, protoVars, carVars, RunnerInv, Untouched,
                    Evidence, UniqueAttempts, Refutations, Attempts, Completion, Definite,
                    Mutating, HasCommand, Current
      <3>3. QED
        BY <3>1, <3>2
    <2>3. QED
      BY <2>1, <2>2
  <1>3. QED
    BY <1>1, <1>2, PTL DEF Spec

\* No mutating command is carried out twice, whatever is lost, delayed, duplicated or
\* retried and however many commands, UUIDs, fault codes and replies there are.
THEOREM NeverTwice == Spec => []AtMostOnce
  <1>1. TypeOK /\ RunnerInv => AtMostOnce
    BY DEF RunnerInv, Evidence, AtMostOnce, TypeOK
  <1>2. QED
    BY <1>1, RunnerInvariant, PTL

\* A caller told "definitely failed" is never contradicted by the vehicle later.
THEOREM DefiniteFailureIsFinal == Spec => []HonestFailure
  <1>1. TypeOK /\ RunnerInv => HonestFailure
    BY DEF RunnerInv, Evidence, Definite, HonestFailure
  <1>2. QED
    BY <1>1, RunnerInvariant, PTL

\* What every confirmation, dispatcher slot and answer says is true in every reachable state.
THEOREM AnswerInvariant == Spec => []AnswerInv
  <1>1. Init => AnswerInv
    BY DEF Init, AnswerInv, Confirmations, Earned, Routable, Untold, NewCommand
  <1>2. TypeOK /\ TypeOK' /\ RunnerInv /\ AnswerInv /\ [Next]_vars => AnswerInv'
    <2> SUFFICES ASSUME TypeOK, TypeOK', RunnerInv, AnswerInv, [Next]_vars
                 PROVE  AnswerInv'
      OBVIOUS
    <2>1. CASE Next
      BY <2>1, NextSteps, InnerAnswer, AcceptAnswer, TellAnswer, ExecuteAnswer
    <2>2. CASE UNCHANGED vars
      BY <2>2 DEF vars, queueVars, callerVars, protoVars, carVars, AnswerInv, Confirmations,
                  Earned, Routable, Untold
    <2>3. QED
      BY <2>1, <2>2
  <1>3. QED
    BY <1>1, <1>2, RunnerInvariant, PTL DEF Spec

\* A caller told "success" was not answered by a reply to another request: the vehicle has
\* carried its command out, or the command asks no more than to be transmitted.
THEOREM SuccessIsEarned == Spec => []HonestSuccess
  <1>1. AnswerInv => HonestSuccess
    BY DEF AnswerInv, Earned, HonestSuccess
  <1>2. QED
    BY <1>1, AnswerInvariant, PTL

\* No dispatcher slot outlives the attempt it was registered for, and no attempt that awaits
\* its response is without one.
THEOREM SlotsFollowHead == Spec => []SlotDiscipline
  <1>1. TypeOK /\ RunnerInv /\ AnswerInv => SlotDiscipline
    <2> SUFFICES ASSUME TypeOK, RunnerInv, AnswerInv
                 PROVE  SlotDiscipline
      OBVIOUS
    <2>1. ASSUME NEW s \in slots
          PROVE  HasCommand /\ ~Current.done /\ Current.req = s.rid
      <3>1. HasCommand /\ Current.req = s.rid /\ s.rid # 0
        BY DEF RunnerInv, Attempts
      <3>2. front \in Ids
        BY <3>1, BoundsAssumption DEF HasCommand, TypeOK, Ids
      <3>3. QED
        BY <3>1, <3>2 DEF RunnerInv, Attempts, Current
    <2>2. QED
      BY <2>1 DEF SlotDiscipline, AnswerInv, Routable
  <1>2. QED
    BY <1>1, AnswerInvariant, RunnerInvariant, PTL

----------------------------------------------------------------------------
(* The command path implements CommandService.                             *)

Refines == Service!Next \/ UNCHANGED Service!vars

\* Some commands may be given up for good; nothing else shows.
LEMMA InnerRefines ==
    ASSUME TypeOK, TypeOK', RunnerInv, RunnerInv', AnswerInv, InnerStep
    PROVE  Refines
  <1> DEFINE S == {i \in Ids : Mode(i) = "open" /\ Mode(i)' = "void"}
  <1>1. \A i \in Ids : Keeps(i) /\ Mutating(i)' = Mutating(i)
    BY DEF InnerStep, Keeps, Mutating
  <1>2. UNCHANGED <<next, result, executed>> /\ expired \subseteq expired'
    BY DEF InnerStep
  <1>3. \A i \in Ids : Mode(i)' = IF i \in S THEN "void" ELSE Mode(i)
    BY <1>1, <1>2 DEF Mode, Keeps, TypeOK, CmdType
  <1>4. \A i \in Ids : Runs(i)' = Runs(i)
    BY <1>1, <1>2 DEF Runs
  <1>5. \A i \in Ids : Told(i)' = Told(i)
    BY <1>1, <1>2 DEF Told, Keeps, AnswerInv, Earned
  <1>6. \A i \in S : Runs(i) = 0
    <2> SUFFICES ASSUME NEW i \in Ids, Mode(i)' = "void"
                 PROVE  Runs(i) = 0
      OBVIOUS
    <2>1. Mutating(i)' /\ ~cmd'[i].maybe
      BY DEF Mode
    <2>2. executed'[i] = 0
      BY <2>1 DEF RunnerInv, Evidence
    <2>3. QED
      BY <1>2, <2>2 DEF Runs
  <1>7. S \in SUBSET Ids /\ \A i \in S : Mode(i) = "open"
    OBVIOUS
  <1> HIDE DEF S
  <1>8. Service!Abandon(S)
    BY <1>3, <1>4, <1>5, <1>6, <1>7 DEF Service!Abandon
  <1>9. QED
    BY <1>7, <1>8 DEF Refines, Service!Next

\* A mutating command is accepted; a read-only one does not show.
LEMMA AcceptRefines ==
    ASSUME TypeOK, RunnerInv, AnswerInv, NEW k \in Kinds, NEW g \in Nat, AcceptStep(k, g)
    PROVE  Refines
  <1>1. PICK n \in Ids : n = next
    BY DEF AcceptStep
  <1>2. next' = n + 1 /\ cmd' = [cmd EXCEPT ![n] = NewCommand(k, g)]
        /\ UNCHANGED <<expired, result, executed>>
    BY <1>1 DEF AcceptStep, Enqueue
  <1>3. cmd'[n].kind = k /\ ~cmd'[n].done /\ ~cmd'[n].maybe /\ ~cmd'[n].noop
    BY <1>2 DEF TypeOK, NewCommand
  <1>4. \A i \in Ids : i # n => cmd'[i] = cmd[i]
    BY <1>2 DEF TypeOK
  <1>5. executed[n] = 0 /\ result[n] = "None" /\ n \notin expired
    BY <1>1 DEF RunnerInv, Untouched, AnswerInv, Untold, TypeOK, Ids
  <1>6. \A i \in Ids : i # n => (i >= next' <=> i >= next) /\ (i < next' <=> i < next)
    BY <1>1, <1>2 DEF TypeOK, Ids
  <1>7. \A i \in Ids : i # n =>
            Mode(i)' = Mode(i) /\ Runs(i)' = Runs(i) /\ Told(i)' = Told(i)
    BY <1>2, <1>4, <1>6 DEF Mode, Runs, Told, Mutating
  <1>8. ~(n >= next') /\ n < next' /\ n >= next /\ ~(n < next)
    BY <1>1, <1>2 DEF Ids
  <1>9. Mode(n) = "new" /\ Runs(n) = 0 /\ Told(n) = "None"
    BY <1>8 DEF Mode, Runs, Told
  <1>10. Runs(n)' = 0 /\ Told(n)' = "None"
    BY <1>2, <1>5, <1>8 DEF Runs, Told
  <1>11. Mode(n)' = IF k.effect = "Mutating" THEN "open" ELSE "new"
    BY <1>2, <1>3, <1>5, <1>8 DEF Mode, Mutating
  <1>12. CASE k.effect = "Mutating"
    <2>1. Service!Accept(n)
      BY <1>7, <1>9, <1>10, <1>11, <1>12 DEF Service!Accept
    <2>2. QED
      BY <2>1 DEF Refines, Service!Next
  <1>13. CASE k.effect # "Mutating"
    <2>1. \A i \in Ids : Mode(i)' = Mode(i) /\ Runs(i)' = Runs(i) /\ Told(i)' = Told(i)
      BY <1>7, <1>9, <1>10, <1>11, <1>13
    <2>2. QED
      BY <2>1 DEF Refines, Service!vars
  <1>14. QED
    BY <1>12, <1>13

\* The vehicle carries out a frame: an execution the service allows, or a read-only command.
LEMMA ExecuteRefines ==
    ASSUME TypeOK, RunnerInv, NEW fr \in air, CarExecutes(fr)
    PROVE  Refines
  <1>1. PICK i \in Ids : i = fr.id
    BY DEF TypeOK, FrameType
  <1>2. UNCHANGED <<cmd, next, expired, result>>
    BY DEF CarExecutes, CarUnchanged, queueVars, callerVars
  <1>3. i < next /\ ~(i >= next)
    BY <1>1 DEF RunnerInv, Untouched, TypeOK, Ids
  <1>4. executed' = [executed EXCEPT ![i] = @ + 1]
    BY <1>1 DEF CarExecutes
  <1>5. \A j \in Ids : Mode(j)' = Mode(j) /\ Told(j)' = Told(j)
    BY <1>2 DEF Mode, Told, Mutating
  <1>6. \A j \in Ids : j # i => Runs(j)' = Runs(j)
    BY <1>2, <1>4 DEF Runs, Mutating, TypeOK
  <1>7. CASE Mutating(i)
    <2>1. executed[i] = 0
      BY <1>1, <1>7 DEF RunnerInv, Evidence
    <2>2. cmd[i].maybe
      <3>1. ~cmd[i].maybe => fr.id # i
        BY <1>7 DEF RunnerInv, Evidence
      <3>2. QED
        BY <1>1, <3>1
    <2>3. executed'[i] = 1
      BY <1>4, <2>1 DEF TypeOK
    <2>4. Mode(i) = "open"
      BY <1>3, <1>7, <2>2 DEF Mode
    <2>5. Runs(i) = 0 /\ Runs(i)' = 1
      BY <1>2, <1>3, <1>7, <2>1, <2>3 DEF Runs, Mutating
    <2>6. Service!Execute(i)
      BY <1>5, <1>6, <2>4, <2>5 DEF Service!Execute
    <2>7. QED
      BY <2>6 DEF Refines, Service!Next
  <1>8. CASE ~Mutating(i)
    <2>1. Runs(i)' = Runs(i)
      BY <1>2, <1>8 DEF Runs, Mutating
    <2>2. QED
      BY <1>5, <1>6, <2>1 DEF Refines, Service!vars
  <1>9. QED
    BY <1>7, <1>8

\* What a caller is told is an answer the service allows.
LEMMA TellRefines ==
    ASSUME TypeOK, RunnerInv, RunnerInv', AnswerInv, AtMostOnce,
           NEW answer \in Outcomes, TellStep(answer)
    PROVE  Refines
  <1>1. PICK i \in Ids : i = caller.id
    BY DEF TellStep
  <1>2. i < next /\ ~(i >= next) /\ result[i] = "None"
    BY <1>1 DEF TellStep, TypeOK, Ids
  <1>3. UNCHANGED <<cmd, next, expired, executed>>
    BY DEF TellStep
  <1>4. result' = [result EXCEPT ![i] = answer]
    BY <1>1 DEF TellStep
  <1>5. result'[i] = answer /\ \A j \in Ids : j # i => result'[j] = result[j]
    BY <1>4 DEF TypeOK
  <1>6. \A j \in Ids : Mode(j)' = Mode(j) /\ Runs(j)' = Runs(j)
                       /\ (j # i => Told(j)' = Told(j))
    BY <1>3, <1>5 DEF Mode, Runs, Told, Mutating
  <1>7. CASE Mutating(i)
    <2> DEFINE a == IF answer = "Success" /\ (cmd[i].kind.onTx \/ cmd[i].noop) THEN "NoOp"
                    ELSE answer
    <2>1. Told(i) = "None" /\ Mode(i) # "new"
      BY <1>2, <1>7 DEF Told, Mode
    <2>2. Told(i)' = a
      BY <1>2, <1>3, <1>5, <1>7 DEF Told, Mutating
    <2>3. a = "DefinitelyFailed" => Mode(i) = "void"
      <3>1. answer = "DefinitelyFailed" => ~cmd'[i].maybe /\ (cmd'[i].done \/ i \in expired')
        BY <1>5 DEF RunnerInv, Definite
      <3>2. QED
        BY <1>2, <1>3, <1>7, <3>1 DEF Mode
    <2>4. a = "Success" => Runs(i) = 1
      <3>1. a = "Success" => cmd[i].done /\ cmd[i].outcome = "Success" /\ ~cmd[i].kind.onTx
                             /\ ~cmd[i].noop
        BY <1>1 DEF TellStep
      <3>2. a = "Success" => executed[i] > 0
        BY <3>1 DEF AnswerInv, Earned
      <3>3. executed[i] <= 1 /\ executed[i] \in Nat
        BY <1>7 DEF AtMostOnce, TypeOK
      <3>4. QED
        BY <1>2, <1>7, <3>2, <3>3 DEF Runs
    <2>5. a \in Service!Answers
      BY DEF Outcomes, Failures, Service!Answers
    <2> HIDE DEF a
    <2>6. Service!Tell(i, a)
      BY <1>6, <2>1, <2>2, <2>3, <2>4 DEF Service!Tell
    <2>7. QED
      BY <2>5, <2>6 DEF Refines, Service!Next
  <1>8. CASE ~Mutating(i)
    <2>1. Told(i)' = Told(i)
      BY <1>3, <1>8 DEF Told, Mutating
    <2>2. QED
      BY <1>6, <2>1 DEF Refines, Service!vars
  <1>9. QED
    BY <1>7, <1>8

\* Whatever queue, sessions, link and time do, a caller sees the service CommandService
\* promises: at most one execution, and an answer that is true and stays true.
THEOREM RunnerImplementsService == Spec => ImplementsService
  <1>1. Init => Service!Init
    <2> SUFFICES ASSUME Init PROVE Service!Init
      OBVIOUS
    <2>1. \A i \in Ids : i >= next /\ ~(i < next)
      BY DEF Init, Ids
    <2>2. \A i \in Ids : Mode(i) = "new" /\ Runs(i) = 0 /\ Told(i) = "None"
      BY <2>1 DEF Mode, Runs, Told
    <2>3. QED
      BY <2>2 DEF Service!Init
  <1>2. /\ TypeOK /\ RunnerInv /\ AnswerInv /\ AtMostOnce
        /\ (TypeOK /\ RunnerInv /\ AnswerInv)' /\ [Next]_vars
        => [Service!Next]_(Service!vars)
    <2> SUFFICES ASSUME TypeOK, RunnerInv, AnswerInv, AtMostOnce,
                        TypeOK', RunnerInv', AnswerInv', [Next]_vars
                 PROVE  Refines
      BY DEF Refines
    <2>1. CASE Next
      BY <2>1, NextSteps, InnerRefines, AcceptRefines, ExecuteRefines, TellRefines
    <2>2. CASE UNCHANGED vars
      BY <2>2 DEF vars, queueVars, callerVars, protoVars, carVars, Refines, Service!vars,
                  Mode, Runs, Told, Mutating
    <2>3. QED
      BY <2>1, <2>2
  <1>3. QED
    BY <1>1, <1>2, RunnerInvariant, AnswerInvariant, NeverTwice, PTL
       DEF Spec, ImplementsService, Service!Spec

=============================================================================
