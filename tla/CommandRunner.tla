---------------------------- MODULE CommandRunner ----------------------------
(***************************************************************************)
(* The command path of the firmware: tk::CommandRunner with its BLE        *)
(* dispatcher and session trackers (main/logic/command_runner.hpp,         *)
(* ble_dispatcher.hpp, session_state.hpp), the VehicleController shell     *)
(* that drives it from vehicle_loop (vehicle_telemetry.cpp), and the       *)
(* callers that wait for a result (vehicle_commands.cpp), composed with a  *)
(* vehicle and a BLE link that delay, lose, duplicate and reorder.         *)
(*                                                                         *)
(* Every action is one critical section of vehicle_mutex_, so the BLE      *)
(* write inside drive_command_runner_ belongs to the action; what a caller *)
(* does without the mutex is an action of its own.                         *)
(*                                                                         *)
(* Clock values are abstracted to what the code asks of them.  `due' is    *)
(* whether the time counted from phase_started_at_ms (last_tx_ms while a   *)
(* response is awaited) has reached the bound the head command waits for:  *)
(* the retry delay while it backs off, the step or response timeout while  *)
(* it waits.  `expired' holds the commands whose overall deadline passed.  *)
(***************************************************************************)
EXTENDS MessageFault, FiniteSets

CONSTANTS
    Kinds,        \* the shapes of command the callers enqueue
    Codes,        \* the fault numbers the vehicle may send
    QueueSize,    \* kMaxQueueSize
    Uuids,        \* request UUIDs and reply addresses, as numbers
    MaxCommands,  \* bound: commands enqueued in one behaviour
    MaxWire       \* bound: replies under way at once

Domains == {"Vcsec", "Info"}

WakePolicies == {"NoWakeSkip", "NoWakeFail", "WakeIfNeeded"}

\* What an enqueue() fixes for the life of a command: domain, wake policy, effect,
\* completes_on_transmit, whether it has an on_complete callback (background polls have
\* none), whether it is "Whitelist Add Key", the VCSEC reply kind and max_retries.
KindType == [dom : Domains, wake : WakePolicies, effect : Effects, onTx : BOOLEAN,
             cb : BOOLEAN, bypass : BOOLEAN, reply : {"Action", "Status"}, retries : Nat]

ASSUME KindsAssumption == Kinds \subseteq KindType /\ Kinds # {}
ASSUME CodesAssumption == Codes \subseteq Nat
ASSUME UuidsAssumption == Uuids \subseteq Nat \ {0}
ASSUME BoundsAssumption ==
    /\ QueueSize \in Nat \ {0}
    /\ MaxCommands \in Nat
    /\ MaxWire \in Nat

VARIABLES
    cmd,         \* the CommandRequest of every command id
    front,       \* id of the head of the FIFO; the FIFO is front .. next-1
    next,        \* next_cmd_id_
    due,         \* the head's current wait has run out
    expired,     \* ids whose overall deadline has passed
    session,     \* SessionTracker::is_authenticated() per domain
    slots,       \* active BleDispatcher slots
    ctx,         \* vcsec_reply_context_, transmitted
    infoReq,     \* the client's last infotainment request UUID
    sleep,       \* vcsec_sleep_state_
    link,        \* BLE link: up, lost (LinkDown not applied yet), down
    generation,  \* command_generation_
    caller,      \* the task that holds command_mutex_
    completion,  \* the CommandCompletion of the current generation
    result,      \* what the caller of each command was told
    air,         \* command payloads on their way to the vehicle
    wire,        \* replies on their way to the device
    executed     \* per command, how often the vehicle carried it out

queueVars == <<cmd, front, next, due, expired>>
callerVars == <<generation, caller, completion, result>>
protoVars == <<session, slots, ctx, infoReq, sleep>>
carVars == <<air, wire, executed>>
vars == <<queueVars, callerVars, protoVars, carVars, link>>

Ids == 1..MaxCommands

----------------------------------------------------------------------------
(* Types                                                                   *)

Waiting == {"WaitingVcsecAuth", "WaitingWake", "WaitingInfoAuth", "AwaitingResponse"}

States == Waiting \cup {"Idle", "Ready", "Completed", "Failed", "Skipped"}

Outcomes == Failures \cup {"None", "Success"}

CmdType == [kind : Kinds, gen : Nat, state : States, maybe : BOOLEAN, tries : Nat,
            backoff : BOOLEAN, awakeOk : BOOLEAN, done : BOOLEAN, noop : BOOLEAN,
            outcome : Outcomes, req : Nat, uuid : Nat]

TxActions == {"SessionInfo", "Wake", "InfoSession", "Payload"}

FrameType == [id : Ids, att : Uuids]

Bodies == {"Session", "SessionBad", "Ok", "Status", "Error", "NoOp", "Fault"}

ReplyType == [dom : Domains, att : Uuids, body : Bodies, auth : BOOLEAN,
              code : Codes \cup {0}, info : BOOLEAN]

CtxKinds == {"None", "Action", "Status", "SessionInfo", "WakePrerequisite"}

CtxType == [kind : CtxKinds, id : Nat, att : Uuids \cup {0}, gen : Nat]

SlotType == [rid : Nat, dom : Domains, uuid : Nat]

CallerType == [pc : {"idle", "waiting", "expired", "flushing", "popping"}, id : Nat]

TypeOK ==
    /\ cmd \in [Ids -> CmdType]
    /\ front \in 1..(MaxCommands + 1)
    /\ next \in 1..(MaxCommands + 1)
    /\ front <= next
    /\ due \in BOOLEAN
    /\ expired \subseteq Ids
    /\ session \in [Domains -> BOOLEAN]
    /\ slots \subseteq SlotType
    /\ ctx \in CtxType
    /\ infoReq \in Uuids \cup {0}
    /\ sleep \in {"Unknown", "Asleep", "Awake"}
    /\ link \in {"up", "lost", "down"}
    /\ generation \in Nat
    /\ caller \in CallerType
    /\ completion \in Outcomes
    /\ result \in [Ids -> Outcomes]
    /\ air \subseteq FrameType
    /\ wire \subseteq ReplyType
    /\ executed \in [Ids -> Nat]

----------------------------------------------------------------------------
(* A command and its FIFO                                                  *)

\* enqueue(): the freshly initialised CommandRequest.
NewCommand(k, g) ==
    [kind |-> k, gen |-> g, state |-> "Idle", maybe |-> FALSE, tries |-> 0,
     backoff |-> FALSE, awakeOk |-> FALSE, done |-> FALSE, noop |-> FALSE,
     outcome |-> "None", req |-> 0, uuid |-> 0]

NoCtx == [kind |-> "None", id |-> 0, att |-> 0, gen |-> 0]

HasCommand == front < next

Current == cmd[front]

IsFull == next - front >= QueueSize

MutatingSubmitted(c) == c.kind.effect = "Mutating" /\ c.maybe

RetriesLeft(c) == c.tries < c.kind.retries

\* finish_command_(): once only; a failure after possible submission is never definite.
Finish(c, success, failure) ==
    IF c.done THEN c
    ELSE [c EXCEPT !.done = TRUE,
                   !.outcome = IF success THEN "Success"
                               ELSE IF c.maybe THEN "MayHaveSucceeded" ELSE failure,
                   !.state = IF success THEN "Completed" ELSE "Failed",
                   !.req = 0]

Fail(c) == Finish(c, FALSE, "DefinitelyFailed")

\* Mutant: the retry counter runs the wrong way.
ScheduleRetryCountsDown(c) ==
    [c EXCEPT !.tries = @ - 1, !.backoff = TRUE, !.awakeOk = FALSE,
              !.state = "Idle", !.req = 0]

\* schedule_retry_()
ScheduleRetry(c) ==
    [c EXCEPT !.tries = @ + 1, !.backoff = TRUE, !.awakeOk = FALSE,
              !.state = "Idle", !.req = 0]

\* notify_vehicle_awake(true), and step 4 of tick() when the vehicle is known awake.
ConfirmWake(c) ==
    IF c.state = "WaitingWake" THEN [c EXCEPT !.awakeOk = TRUE, !.state = "Idle"] ELSE c

\* The result callback of c runs when c finishes; a stale generation makes it do nothing.
CallbackEffect(c, d) ==
    IF d.done /\ ~c.done /\ c.kind.cb /\ c.gen = generation THEN d.outcome ELSE completion

\* Mutant: the dispatcher slot of a finished command stays registered.
PutLeaksSlot(i, c) ==
    /\ cmd' = [cmd EXCEPT ![i] = c]
    /\ completion' = CallbackEffect(cmd[i], c)
    /\ slots' = slots

\* Command i becomes c: its result callback and the release of its dispatcher slot.
Put(i, c) ==
    /\ cmd' = [cmd EXCEPT ![i] = c]
    /\ completion' = CallbackEffect(cmd[i], c)
    /\ slots' = {s \in slots : c.req # 0 \/ s.rid # cmd[i].req}

\* retire_vcsec_contexts_() as drive_command_runner_ applies it after tick().
ExpectedState(kind) ==
    CASE kind = "SessionInfo" -> "WaitingVcsecAuth"
      [] kind = "WakePrerequisite" -> "WaitingWake"
      [] OTHER -> "AwaitingResponse"

KeepsCtx(c) == link = "up" /\ ~c.done /\ c.state = ExpectedState(ctx.kind)

----------------------------------------------------------------------------
(* drive_command_runner_(): one iteration of vehicle_loop                  *)

\* A completed command nobody waits for is popped before anything else.
DriveFront ==
    IF HasCommand /\ Current.done /\ ~Current.kind.cb THEN front + 1 ELSE front

\* tick() returned None and left command f as c: contexts that no longer fit are retired
\* and a command that finished without a callback is popped at once.
Quiet(f, c) ==
    /\ Put(f, c)
    /\ front' = IF c.done /\ ~c.kind.cb THEN f + 1 ELSE f
    /\ ctx' = IF KeepsCtx(c) THEN ctx ELSE NoCtx
    /\ due' = (due /\ f = front /\ c = cmd[f])
    /\ UNCHANGED <<next, expired, generation, caller, result, session, infoReq, sleep,
                   carVars, link>>

DriveIdle ==
    /\ DriveFront = next
    /\ front' = DriveFront
    /\ ctx' = NoCtx
    /\ due' = FALSE
    /\ UNCHANGED <<cmd, next, expired, callerVars, session, slots, infoReq, sleep,
                   carVars, link>>

\* Awaiting the caller to pop or read the outcome.
DriveCompleted(f) == cmd[f].done /\ Quiet(f, cmd[f])

DriveDeadline(f) ==
    /\ ~cmd[f].done /\ f \in expired
    /\ Quiet(f, Fail(cmd[f]))

\* Mutant: the overall deadline does not stop a command.
RunnablePastDeadline(f) == ~cmd[f].done

Runnable(f) == ~cmd[f].done /\ f \notin expired

DriveOffline(f) == Runnable(f) /\ link # "up" /\ Quiet(f, cmd[f])

BacksOff(c) == c.backoff /\ c.state # "AwaitingResponse" /\ ~due

DriveBackoff(f) == Runnable(f) /\ link = "up" /\ BacksOff(cmd[f]) /\ Quiet(f, cmd[f])

Ticks(f) == Runnable(f) /\ link = "up" /\ ~BacksOff(cmd[f])

\* Step 3 of tick(): the response timeout.
DriveAwait(f) ==
    /\ Ticks(f) /\ cmd[f].state = "AwaitingResponse" /\ ~due
    /\ Quiet(f, cmd[f])

DriveResponseTimeout(f) ==
    LET c == cmd[f] IN
    /\ Ticks(f) /\ c.state = "AwaitingResponse" /\ due
    /\ IF ~MutatingSubmitted(c) /\ RetriesLeft(c)
       THEN Quiet(f, [c EXCEPT !.tries = @ + 1, !.backoff = TRUE, !.state = "Ready",
                               !.req = 0])
       ELSE Quiet(f, Fail(c))

\* What steps 2b and 4 of tick() leave before the step timeouts are looked at.
Prepared(c) ==
    LET d == [c EXCEPT !.backoff = FALSE]
    IN  IF sleep = "Awake" THEN ConfirmWake(d) ELSE d

StepWaits == {"WaitingVcsecAuth", "WaitingWake", "WaitingInfoAuth"}

\* Step 5 of tick(): the authentication and wake timeouts.
DriveStepWait(f) ==
    /\ Ticks(f) /\ Prepared(cmd[f]).state \in StepWaits /\ ~due
    /\ Quiet(f, Prepared(cmd[f]))

DriveStepTimeout(f) ==
    LET c == Prepared(cmd[f]) IN
    /\ Ticks(f) /\ c.state \in StepWaits /\ due
    /\ IF ~MutatingSubmitted(c) /\ RetriesLeft(c)
       THEN Quiet(f, [c EXCEPT !.tries = @ + 1, !.backoff = TRUE, !.awakeOk = FALSE,
                               !.state = "Idle"])
       ELSE Quiet(f, Fail(c))

----------------------------------------------------------------------------
(* Transmission of one frame, still inside drive_command_runner_()         *)

\* The UUIDs that something still refers to.  A build draws 16 random bytes: a fresh UUID.
InUse ==
    {fr.att : fr \in air} \cup {r.att : r \in wire} \cup {s.uuid : s \in slots}
    \cup {infoReq, ctx.att} \cup {cmd[i].uuid : i \in {j \in Ids : front <= j /\ j < next}}

IsFresh(u) == u \notin InUse /\ \A v \in Uuids \ InUse : u <= v

CtxKind(c, act) ==
    CASE act = "SessionInfo" -> "SessionInfo"
      [] act = "Wake" -> "WakePrerequisite"
      [] act = "Payload" /\ c.kind.dom = "Vcsec" /\ ~c.kind.bypass -> c.kind.reply
      [] OTHER -> "None"

IsInfoRequest(c, act) == act = "InfoSession" \/ (act = "Payload" /\ c.kind.dom = "Info")

\* notify_tx_started(), and the UUID the build stored in the request.
TxStarted(c, act, u) ==
    IF act = "Payload" THEN [c EXCEPT !.maybe = TRUE, !.uuid = u] ELSE c

\* notify_tx_complete()
TxComplete(c, act, u) ==
    IF c.kind.onTx
    THEN IF act = "Payload" THEN Finish(c, TRUE, "DefinitelyFailed") ELSE c
    ELSE IF c.state = "Ready"
         THEN [c EXCEPT !.state = "AwaitingResponse", !.req = IF @ = 0 THEN u ELSE @]
         ELSE c

\* Mutant: a failed write is always taken for an unsent payload.
TxFailedAlwaysRetries(c) == IF ~RetriesLeft(c) THEN Fail(c) ELSE ScheduleRetry(c)

\* notify_tx_failed() after a write that may have submitted the final chunk.
TxFailed(c) ==
    IF MutatingSubmitted(c) \/ ~RetriesLeft(c) THEN Fail(c) ELSE ScheduleRetry(c)

\* Only payloads are followed to the vehicle; a prerequisite shows in infoReq and ctx.
Submitted(f, act, u) == IF act = "Payload" THEN air \cup {[id |-> f, att |-> u]} ELSE air

BuildFails(f, c) ==
    /\ Put(f, Fail(c))
    /\ ctx' = NoCtx
    /\ UNCHANGED <<infoReq, air>>

WriteFails(f, c, act, u) ==
    /\ Put(f, TxFailed(TxStarted(c, act, u)))
    /\ infoReq' = IF IsInfoRequest(c, act) THEN u ELSE infoReq
    /\ ctx' = NoCtx
    /\ air' \in {air, Submitted(f, act, u)}

WriteSucceeds(f, c, act, u) ==
    LET d == TxComplete(TxStarted(c, act, u), act, u) IN
    /\ cmd' = [cmd EXCEPT ![f] = d]
    /\ completion' = CallbackEffect(cmd[f], d)
    /\ slots' = IF d.req # 0 /\ c.req = 0
                THEN slots \cup {[rid |-> d.req, dom |-> c.kind.dom, uuid |-> d.uuid]}
                ELSE slots
    /\ infoReq' = IF IsInfoRequest(c, act) THEN u ELSE infoReq
    /\ ctx' = IF d.done \/ CtxKind(c, act) = "None" THEN NoCtx
              ELSE [kind |-> CtxKind(c, act), id |-> f, att |-> u, gen |-> generation]
    /\ air' = Submitted(f, act, u)

Transmit(f, c, act) ==
    /\ \/ BuildFails(f, c)
       \/ \E u \in Uuids : /\ IsFresh(u)
                           /\ WriteFails(f, c, act, u) \/ WriteSucceeds(f, c, act, u)
    /\ front' = f
    /\ due' = FALSE
    /\ UNCHANGED <<next, expired, generation, caller, result, session, sleep,
                   wire, executed, link>>

----------------------------------------------------------------------------
(* Step 6 of tick(): prerequisites and the payload                         *)

Progresses(f) ==
    /\ Ticks(f)
    /\ cmd[f].state # "AwaitingResponse"
    /\ Prepared(cmd[f]).state \notin StepWaits

NeedsVcsec(c) == ~session["Vcsec"] /\ ~(c.kind.dom = "Vcsec" /\ c.kind.bypass)

NeedsWake(c) ==
    /\ c.kind.dom = "Info" /\ ~c.awakeOk
    /\ \/ sleep = "Asleep"
       \/ sleep = "Unknown" /\ c.kind.wake = "WakeIfNeeded"

NeedsInfo(c) == c.kind.dom = "Info" /\ ~session["Info"]

DriveVcsecAuth(f) ==
    LET c == Prepared(cmd[f]) IN
    /\ Progresses(f) /\ NeedsVcsec(c)
    /\ Transmit(f, [c EXCEPT !.state = "WaitingVcsecAuth"], "SessionInfo")

DriveAsleep(f) ==
    LET c == Prepared(cmd[f]) IN
    /\ Progresses(f) /\ ~NeedsVcsec(c) /\ NeedsWake(c) /\ c.kind.wake # "WakeIfNeeded"
    /\ Quiet(f, [Fail(c) EXCEPT !.state = IF c.kind.wake = "NoWakeSkip" THEN "Skipped"
                                          ELSE "Failed"])

DriveWake(f) ==
    LET c == Prepared(cmd[f]) IN
    /\ Progresses(f) /\ ~NeedsVcsec(c) /\ NeedsWake(c) /\ c.kind.wake = "WakeIfNeeded"
    /\ Transmit(f, [c EXCEPT !.state = "WaitingWake"], "Wake")

DriveInfoAuth(f) ==
    LET c == Prepared(cmd[f]) IN
    /\ Progresses(f) /\ ~NeedsVcsec(c) /\ ~NeedsWake(c) /\ NeedsInfo(c)
    /\ Transmit(f, [c EXCEPT !.state = "WaitingInfoAuth"], "InfoSession")

DrivePayload(f) ==
    LET c == Prepared(cmd[f]) IN
    /\ Progresses(f) /\ ~NeedsVcsec(c) /\ ~NeedsWake(c) /\ ~NeedsInfo(c)
    /\ Transmit(f, [c EXCEPT !.state = "Ready"], "Payload")

Drive ==
    \/ DriveIdle
    \/ /\ DriveFront < next
       /\ \/ DriveCompleted(DriveFront)
          \/ DriveDeadline(DriveFront)
          \/ DriveOffline(DriveFront)
          \/ DriveBackoff(DriveFront)
          \/ DriveAwait(DriveFront)
          \/ DriveResponseTimeout(DriveFront)
          \/ DriveStepWait(DriveFront)
          \/ DriveStepTimeout(DriveFront)
          \/ DriveVcsecAuth(DriveFront)
          \/ DriveAsleep(DriveFront)
          \/ DriveWake(DriveFront)
          \/ DriveInfoAuth(DriveFront)
          \/ DrivePayload(DriveFront)

----------------------------------------------------------------------------
(* process_rx_frame_(): admission of a reply                               *)

\* VcsecReplyContext::matches() without the address and UUID of the reply.
CtxLive ==
    /\ ctx.kind # "None" /\ HasCommand
    /\ ctx.gen = generation /\ ctx.id = front
    /\ ~Current.done /\ Current.state = ExpectedState(ctx.kind)
    /\ front \notin expired /\ ~due

\* Asking whether a reply matches retires a context that is no longer live.
CtxAsked == IF CtxLive THEN ctx ELSE NoCtx

\* match_slot_(): the exact UUID in its domain, or an empty UUID from VCSEC.
Routes(r, empty) ==
    {s \in slots : s.dom = r.dom /\ (s.uuid = r.att \/ (empty /\ r.dom = "Vcsec"))}

\* handle_response() accepts a routed reply only for the head's own request.
RoutedToHead(r, empty) == \E s \in Routes(r, empty) : s.rid = Current.req

\* Mutant: a VCSEC reply is taken whatever attempt it answers.
MatchesAnyAttempt(r) ==
    /\ HasCommand
    /\ IF r.dom = "Vcsec" THEN CtxLive
       ELSE /\ ~Current.done /\ Current.kind.dom = "Info"
            /\ front \notin expired /\ ~due
            /\ r.att = infoReq
            /\ \/ Current.state = "WaitingInfoAuth"
               \/ Current.state = "AwaitingResponse" /\ Routes(r, FALSE) # {}

\* response_matches_current_(): session info and faults of the current request.
Matches(r) ==
    /\ HasCommand
    /\ IF r.dom = "Vcsec" THEN CtxLive /\ r.att = ctx.att
       ELSE /\ ~Current.done /\ Current.kind.dom = "Info"
            /\ front \notin expired /\ ~due
            /\ r.att = infoReq
            /\ \/ Current.state = "WaitingInfoAuth"
               \/ Current.state = "AwaitingResponse" /\ Routes(r, FALSE) # {}

\* is_command_awaiting_session_auth()
AwaitsAuth(dom) ==
    /\ ~Current.done
    /\ Current.state = IF dom = "Vcsec" THEN "WaitingVcsecAuth" ELSE "WaitingInfoAuth"

Receives(r, bodies) == link = "up" /\ r \in wire /\ r.body \in bodies

RxUnchanged == UNCHANGED <<front, next, due, expired, generation, caller, result,
                           infoReq, carVars, link>>

\* A reply that is not admitted has no effect but the retirement of a dead context.
RxDropped(r) ==
    /\ ctx' = IF r.dom = "Vcsec" THEN CtxAsked ELSE ctx
    /\ UNCHANGED <<cmd, completion, slots, session, sleep>>
    /\ RxUnchanged

\* handle_session_info_frame_() for a verified SessionInfo.
RxSession(r) ==
    /\ Receives(r, {"Session"}) /\ Matches(r)
    /\ session' = [session EXCEPT ![r.dom] = TRUE]
    /\ Put(front, IF AwaitsAuth(r.dom) THEN [Current EXCEPT !.state = "Idle"] ELSE Current)
    /\ UNCHANGED <<ctx, sleep>>
    /\ RxUnchanged

\* A SessionInfo whose tag, HMAC or status is refused fails a command that waits for it.
RxSessionBad(r) ==
    /\ Receives(r, {"SessionBad"}) /\ Matches(r) /\ AwaitsAuth(r.dom)
    /\ Put(front, Fail(Current))
    /\ UNCHANGED <<ctx, sleep, session>>
    /\ RxUnchanged

\* Mutant: an unsigned fault is believed like a signed one.
FaultEffectTrustsUnsigned(c, code, rejected) ==
    LET d == [c EXCEPT !.maybe = @ /\ (possible_success(code) \/ ~known(code))]
    IN  IF fault_allows_retry(code, TRUE, c.maybe, c.kind.effect) /\ RetriesLeft(c)
        THEN ScheduleRetry(d)
        ELSE Finish(d, FALSE, fault_outcome(code, TRUE, c.maybe))

\* notify_message_fault()
FaultEffect(c, code, rejected) ==
    LET cleared == rejected /\ known(code) /\ ~possible_success(code)
        d == [c EXCEPT !.maybe = @ /\ ~cleared]
    IN  IF fault_allows_retry(code, rejected, c.maybe, c.kind.effect) /\ RetriesLeft(c)
        THEN ScheduleRetry(d)
        ELSE Finish(d, FALSE, fault_outcome(code, rejected, c.maybe))

\* authenticate_fault_reply_(): a signed fault needs a session and, for a payload, its slot.
FaultAdmitted(r, empty) ==
    /\ Matches(r)
    /\ r.auth => /\ session[r.dom]
                 /\ Current.state = "AwaitingResponse" => Routes(r, empty) # {}

\* A valid tag on a prerequisite proves nothing about an earlier payload.
PayloadRejection(r) ==
    /\ r.auth /\ Current.state = "AwaitingResponse" /\ Current.kind.dom = r.dom
    /\ r.dom = "Vcsec" => ctx.kind \in {"Action", "Status"}

RxFault(r, empty) ==
    /\ Receives(r, {"Fault"}) /\ FaultAdmitted(r, empty)
    /\ session' = [session EXCEPT ![r.dom] =
                     r.info \/ (@ /\ ~(r.auth /\ repair_session(r.code)))]
    /\ Put(front, FaultEffect(Current, r.code, PayloadRejection(r)))
    /\ ctx' = NoCtx
    /\ due' = FALSE
    /\ UNCHANGED <<front, next, expired, generation, caller, result, infoReq, sleep,
                   carVars, link>>

\* The outcome half of handle_response() for the head command.
Respond(c, r) ==
    LET d == [c EXCEPT !.maybe = @ /\ ~(r.auth /\ r.body \in {"Error", "NoOp"})]
    IN  CASE r.body = "NoOp" -> [Finish(d, TRUE, "DefinitelyFailed") EXCEPT !.noop = TRUE]
          [] r.body = "Error" -> Fail(d)
          [] OTHER -> Finish(d, TRUE, "DefinitelyFailed")

\* What completes an attempt: only a VehicleStatus answers a status poll.
Completes(kind) ==
    IF kind = "Status" THEN {"Status", "Error"} ELSE {"Ok", "Status", "Error"}

VcsecAdmitted(r, empty) ==
    /\ Matches(r) /\ ctx.kind \in {"Action", "Status"}
    /\ r.body \in Completes(ctx.kind)
    /\ r.auth => session["Vcsec"]
    /\ RoutedToHead(r, empty)

\* handle_vcsec_frame_() and deliver_vcsec_response_().
RxVcsecResult(r, empty) ==
    /\ Receives(r, {"Ok", "Error"}) /\ r.dom = "Vcsec" /\ VcsecAdmitted(r, empty)
    /\ Put(front, Respond(Current, r))
    /\ UNCHANGED <<ctx, sleep, session>>
    /\ RxUnchanged

RxVcsecStatus(r, empty, reported) ==
    /\ Receives(r, {"Status"}) /\ r.dom = "Vcsec" /\ VcsecAdmitted(r, empty)
    /\ Put(front, Respond(Current, r))
    /\ sleep' = reported
    /\ UNCHANGED <<ctx, session>>
    /\ RxUnchanged

\* handle_carserver_frame_()
InfoAdmitted(r) ==
    HasCommand /\ RoutedToHead(r, FALSE) /\ (r.auth => session["Info"])

RxInfoResult(r) ==
    /\ Receives(r, {"Ok", "Error", "NoOp"}) /\ r.dom = "Info" /\ InfoAdmitted(r)
    /\ Put(front, Respond(Current, r))
    /\ UNCHANGED <<ctx, sleep, session>>
    /\ RxUnchanged

Admitted(r, empty) ==
    CASE r.body = "Session" -> Matches(r)
      [] r.body = "SessionBad" -> Matches(r) /\ AwaitsAuth(r.dom)
      [] r.body = "Fault" -> FaultAdmitted(r, empty)
      [] r.dom = "Vcsec" -> VcsecAdmitted(r, empty)
      [] OTHER -> InfoAdmitted(r)

RxDrop(r, empty) == Receives(r, Bodies) /\ ~Admitted(r, empty) /\ RxDropped(r)

\* An unsolicited VehicleStatus: it reports the sleep state and may confirm a wake.
RxBroadcast(reported, closures) ==
    /\ link = "up"
    /\ sleep' = reported
    /\ ctx' = IF ctx.kind \in {"Action", "Status"} THEN CtxAsked ELSE ctx
    /\ IF HasCommand /\ (reported = "Awake" \/ closures)
       THEN Put(front, ConfirmWake(Current))
       ELSE UNCHANGED <<cmd, completion, slots>>
    /\ UNCHANGED session
    /\ RxUnchanged

Rx ==
    \/ \E r \in wire, empty \in BOOLEAN :
          \/ RxSession(r)
          \/ RxSessionBad(r)
          \/ RxFault(r, empty)
          \/ RxVcsecResult(r, empty)
          \/ \E s \in {"Unknown", "Asleep", "Awake"} : RxVcsecStatus(r, empty, s)
          \/ RxInfoResult(r)
          \/ RxDrop(r, empty)
    \/ \E s \in {"Unknown", "Asleep", "Awake"}, closures \in BOOLEAN : RxBroadcast(s, closures)

----------------------------------------------------------------------------
(* apply_ble_link_state_() and the link                                    *)

LinkLoss ==
    /\ link = "up"
    /\ link' = "lost"
    /\ UNCHANGED <<queueVars, callerVars, protoVars, carVars>>

\* apply_ble_link_state_(false): the head fails, everything tied to the link is forgotten.
ApplyLinkDown ==
    /\ link = "lost"
    /\ link' = "down"
    /\ IF HasCommand
       THEN /\ cmd' = [cmd EXCEPT ![front] = Fail(Current)]
            /\ completion' = CallbackEffect(Current, Fail(Current))
       ELSE UNCHANGED <<cmd, completion>>
    /\ slots' = {}
    /\ session' = [d \in Domains |-> FALSE]
    /\ ctx' = NoCtx
    /\ sleep' = "Unknown"
    /\ UNCHANGED <<front, next, due, expired, generation, caller, result, infoReq,
                   carVars>>

LinkUp ==
    /\ link = "down"
    /\ link' = "up"
    /\ UNCHANGED <<queueVars, callerVars, protoVars, carVars>>

Link == LinkLoss \/ ApplyLinkDown \/ LinkUp

----------------------------------------------------------------------------
(* The callers.  command_mutex_ admits one at a time, so one variable holds *)
(* the progress of the task that owns it.                                  *)

Enqueue(k, g) ==
    /\ cmd' = [cmd EXCEPT ![next] = NewCommand(k, g)]
    /\ next' = next + 1

\* send_vcsec_locked_ / send_infotainment_locked_: begin_completion_() and the enqueue.
CallerEnqueue(k) ==
    /\ caller.pc = "idle" /\ k.cb /\ link = "up" /\ next <= MaxCommands
    /\ generation' = generation + 1
    /\ completion' = "None"
    /\ IF IsFull
       THEN UNCHANGED <<cmd, next, caller>>
       ELSE /\ Enqueue(k, generation + 1)
            /\ caller' = [pc |-> "waiting", id |-> next]
    /\ UNCHANGED <<front, due, expired, result, protoVars, carVars, link>>

\* enqueue_background_poll_: refused while a foreground transaction is in flight.
PollEnqueue(k) ==
    /\ caller.pc = "idle" /\ ~k.cb /\ next <= MaxCommands /\ ~IsFull
    /\ Enqueue(k, 0)
    /\ UNCHANGED <<front, due, expired, callerVars, protoVars, carVars, link>>

\* await_completion_: the semaphore was given for this generation.
CallerSignalled ==
    /\ caller.pc = "waiting" /\ completion # "None"
    /\ result' = [result EXCEPT ![caller.id] = completion]
    /\ caller' = [caller EXCEPT !.pc = "popping"]
    /\ UNCHANGED <<queueVars, generation, completion, protoVars, carVars, link>>

\* The wait ends at the same deadline the enqueue handed to the runner.
CallerTimesOut ==
    /\ caller.pc = "waiting" /\ completion = "None" /\ caller.id \in expired
    /\ caller' = [caller EXCEPT !.pc = "expired"]
    /\ UNCHANGED <<queueVars, generation, completion, result, protoVars, carVars, link>>

\* pending_failure_info()
PendingFailure(i) ==
    IF ~(front <= i /\ i < next) THEN "MayHaveSucceeded"
    ELSE IF cmd[i].done
         THEN IF cmd[i].outcome = "Success" THEN "MayHaveSucceeded" ELSE cmd[i].outcome
         ELSE IF cmd[i].maybe THEN "MayHaveSucceeded" ELSE "DefinitelyFailed"

\* The evidence is copied under the lock, or not at all when the lock is not had in time.
CallerSnapshot ==
    /\ caller.pc = "expired"
    /\ \E f \in {PendingFailure(caller.id), "MayHaveSucceeded"} :
          result' = [result EXCEPT ![caller.id] = f]
    /\ caller' = [caller EXCEPT !.pc = "flushing"]
    /\ UNCHANGED <<queueVars, generation, completion, protoVars, carVars, link>>

\* invalidate_and_flush_: the generation moves first, so the cancelled callbacks are stale.
CallerFlush ==
    /\ caller.pc = "flushing"
    /\ generation' = generation + 1
    /\ cmd' = [i \in Ids |-> IF front <= i /\ i < next THEN Fail(cmd[i]) ELSE cmd[i]]
    /\ front' = next
    /\ due' = FALSE
    /\ slots' = {}
    /\ ctx' = NoCtx
    /\ sleep' = "Unknown"
    /\ link' = IF link = "up" THEN "lost" ELSE link
    /\ caller' = [caller EXCEPT !.pc = "idle"]
    /\ UNCHANGED <<next, expired, completion, result, session, infoReq, carVars>>

\* The caller pops its own command, if it is still the head.
CallerPop ==
    /\ caller.pc = "popping"
    /\ IF HasCommand /\ front = caller.id
       THEN /\ front' = front + 1
            /\ slots' = {s \in slots : s.rid # Current.req}
            /\ due' = FALSE
       ELSE UNCHANGED <<front, slots, due>>
    /\ caller' = [caller EXCEPT !.pc = "idle"]
    /\ UNCHANGED <<cmd, next, expired, generation, completion, result, session, ctx,
                   infoReq, sleep, carVars, link>>

CallerStep == CallerSignalled \/ CallerTimesOut \/ CallerSnapshot \/ CallerFlush \/ CallerPop

Callers == CallerStep \/ \E k \in Kinds : CallerEnqueue(k) \/ PollEnqueue(k)

----------------------------------------------------------------------------
(* Time                                                                    *)

PhaseRunsOut ==
    /\ HasCommand /\ ~due /\ ~Current.done
    /\ Current.state \in Waiting \/ Current.backoff
    /\ due' = TRUE
    /\ UNCHANGED <<cmd, front, next, expired, callerVars, protoVars, carVars, link>>

DeadlinePasses(i) ==
    /\ front <= i /\ i < next /\ i \notin expired /\ ~cmd[i].done
    /\ expired' = expired \cup {i}
    /\ UNCHANGED <<cmd, front, next, due, callerVars, protoVars, carVars, link>>

Time == PhaseRunsOut \/ \E i \in Ids : DeadlinePasses(i)

----------------------------------------------------------------------------
(* The vehicle (not part of the repository): it answers a frame at most    *)
(* once, any time after the write, and an authenticated known fault without *)
(* the possible-success flag, an authenticated error and a no-op mean it   *)
(* did not act on the frame.                                               *)

FrameDomain(fr) == cmd[fr.id].kind.dom

Reply(fr, body, auth, code, info) ==
    [dom |-> FrameDomain(fr), att |-> fr.att, body |-> body, auth |-> auth,
     code |-> code, info |-> info]

HasRoom == Cardinality(wire) < MaxWire

\* The reply r is under way, or was lost at once.
Answers(r) == wire' \in {wire} \cup (IF HasRoom THEN {wire \cup {r}} ELSE {})

CarUnchanged == UNCHANGED <<queueVars, callerVars, protoVars, link>>

\* The request of a domain that can still be answered.
Latest(dom) == IF dom = "Vcsec" THEN ctx.att ELSE infoReq

\* The vehicle describes its session to the latest request of a domain.
CarSession(dom) ==
    /\ Latest(dom) # 0 /\ HasRoom
    /\ \E body \in {"Session", "SessionBad"} :
          wire' = wire \cup {[dom |-> dom, att |-> Latest(dom), body |-> body,
                              auth |-> TRUE, code |-> 0, info |-> FALSE]}
    /\ UNCHANGED <<air, executed>>
    /\ CarUnchanged

CarIgnores(fr) ==
    /\ air' = air \ {fr}
    /\ UNCHANGED <<wire, executed>>
    /\ CarUnchanged

CarExecutes(fr) ==
    /\ air' = air \ {fr}
    /\ executed' = [executed EXCEPT ![fr.id] = @ + 1]
    /\ \/ \E body \in {"Ok", "Status"}, auth \in BOOLEAN :
             /\ body = "Status" => FrameDomain(fr) = "Vcsec"
             /\ Answers(Reply(fr, body, auth, 0, FALSE))
       \/ \E code \in {x \in Codes : possible_success(x)} :
             Answers(Reply(fr, "Fault", TRUE, code, FALSE))
    /\ CarUnchanged

CarRefuses(fr) ==
    /\ air' = air \ {fr}
    /\ \/ Answers(Reply(fr, "Error", TRUE, 0, FALSE))
       \/ FrameDomain(fr) = "Info" /\ Answers(Reply(fr, "NoOp", TRUE, 0, FALSE))
       \/ \E code \in {x \in Codes : ~possible_success(x)}, info \in BOOLEAN :
             Answers(Reply(fr, "Fault", TRUE, code, info))
    /\ UNCHANGED executed
    /\ CarUnchanged

\* Anything unauthenticated says nothing about what the vehicle did.
UnsignedError(dom) ==
    /\ Latest(dom) # 0 /\ HasRoom
    /\ \E body \in {"Error", "Fault"}, code \in Codes :
          wire' = wire \cup {[dom |-> dom, att |-> Latest(dom), body |-> body,
                              auth |-> FALSE, code |-> IF body = "Fault" THEN code ELSE 0,
                              info |-> FALSE]}
    /\ UNCHANGED <<air, executed>>
    /\ CarUnchanged

\* Until it is lost a reply can be delivered again.
WireLoses(r) ==
    /\ wire' = wire \ {r}
    /\ UNCHANGED <<air, executed>>
    /\ CarUnchanged

Car ==
    \/ \E fr \in air : CarIgnores(fr) \/ CarExecutes(fr) \/ CarRefuses(fr)
    \/ \E d \in Domains : CarSession(d) \/ UnsignedError(d)
    \/ \E r \in wire : WireLoses(r)

----------------------------------------------------------------------------
Init ==
    /\ cmd = [i \in Ids |-> NewCommand(CHOOSE k \in Kinds : TRUE, 0)]
    /\ front = 1 /\ next = 1
    /\ due = FALSE /\ expired = {}
    /\ session = [d \in Domains |-> FALSE]
    /\ slots = {} /\ ctx = NoCtx
    /\ infoReq = 0
    /\ sleep = "Unknown" /\ link = "down"
    /\ generation = 0
    /\ caller = [pc |-> "idle", id |-> 0]
    /\ completion = "None"
    /\ result = [i \in Ids |-> "None"]
    /\ air = {} /\ wire = {}
    /\ executed = [i \in Ids |-> 0]

Next == Drive \/ Rx \/ Link \/ Callers \/ Time \/ Car

Spec == Init /\ [][Next]_vars

----------------------------------------------------------------------------
(* Properties                                                              *)

Mutating(i) == cmd[i].kind.effect = "Mutating"

\* Whatever is lost, delayed, duplicated or retried, the vehicle carries out a mutating
\* command at most once: tick(), notify_tx_failed() and notify_message_fault() never send a
\* payload again that may have been submitted (command_runner.hpp "payload_maybe_sent").
AtMostOnce == \A i \in Ids : Mutating(i) => executed[i] <= 1

\* A caller told that its command definitely failed was told the truth, for good: the
\* vehicle has not carried it out and never will, not even after the timeout path copied
\* pending_failure_info() and before it flushed the FIFO.
HonestFailure ==
    \A i \in Ids : Mutating(i) /\ result[i] = "DefinitelyFailed" => executed[i] = 0

\* A caller told that its command succeeded was not answered by a reply to another request:
\* the vehicle carried it out (wake and whitelist commands, which complete on transmission,
\* and no-ops excepted).
HonestSuccess ==
    \A i \in Ids : result[i] = "Success" /\ ~cmd[i].kind.onTx /\ ~cmd[i].noop
                   => executed[i] > 0

\* A dispatcher slot belongs to the head command and dies with it, and a command that awaits
\* its response owns one: no slot leaks and no response is unroutable.
SlotDiscipline ==
    /\ \A s \in slots : HasCommand /\ ~Current.done /\ Current.req = s.rid
    /\ \A i \in Ids : front <= i /\ i < next /\ ~cmd[i].done /\ cmd[i].state = "AwaitingResponse"
                      => \E s \in slots : s.rid = cmd[i].req /\ s.uuid = cmd[i].uuid

\* A command is void once it is over, or its deadline has passed, and nothing of it may have
\* been submitted.  Only mutating commands are of interest.
Mode(i) ==
    IF i >= next \/ ~Mutating(i) THEN "new"
    ELSE IF ~cmd[i].maybe /\ (cmd[i].done \/ i \in expired) THEN "void"
    ELSE "open"

Runs(i) == IF i < next /\ Mutating(i) THEN executed[i] ELSE 0

Told(i) ==
    IF i >= next \/ ~Mutating(i) THEN "None"
    ELSE IF result[i] = "Success" /\ (cmd[i].kind.onTx \/ cmd[i].noop) THEN "NoOp"
    ELSE result[i]

\* The command path implements CommandService for its mutating commands.
Service ==
    INSTANCE CommandService WITH
        mode <- [i \in Ids |-> Mode(i)],
        runs <- [i \in Ids |-> Runs(i)],
        told <- [i \in Ids |-> Told(i)]

\* Every behaviour of the command path is one the abstract service allows.
ImplementsService == Service!Spec

----------------------------------------------------------------------------
(* The inductive invariant behind AtMostOnce and HonestFailure.            *)

\* A reply that proves the vehicle did not act on the frame it answers.
Refutes(r) ==
    /\ r.auth
    /\ r.body \in {"Error", "NoOp"} \/ (r.body = "Fault" /\ known(r.code) /\ ~possible_success(r.code))

\* The ids are handed out in order: nothing has happened to one not yet given.
Untouched ==
    /\ \A i \in Ids : i >= next => executed[i] = 0 /\ result[i] = "None"
    /\ \A fr \in air : fr.id < next

\* What payload_maybe_sent says about a mutating command is the truth: unset, no frame of
\* it exists; set, there is one attempt, and the command waits for its answer or is over.
Evidence ==
    \A i \in Ids : Mutating(i) =>
        /\ ~cmd[i].maybe => executed[i] = 0 /\ \A fr \in air : fr.id # i
        /\ cmd[i].maybe => /\ executed[i] <= 1
                           /\ cmd[i].done \/ cmd[i].state = "AwaitingResponse"
        /\ \A fr \in air : fr.id = i => fr.att = cmd[i].uuid /\ executed[i] = 0

\* A UUID names one frame and one live command.
UniqueAttempts ==
    /\ \A fr, other \in air : fr.att = other.att => fr = other
    /\ \A fr \in air, i \in Ids : front <= i /\ i < next /\ cmd[i].uuid = fr.att => fr.id = i

\* A refutation is about an attempt that left the air without being carried out.
Refutations ==
    \A r \in wire : Refutes(r) =>
        /\ \A fr \in air : fr.att # r.att
        /\ \A i \in Ids : front <= i /\ i < next /\ Mutating(i) /\ cmd[i].maybe
                          /\ cmd[i].uuid = r.att => executed[i] = 0

\* Slots and the VCSEC context stand for the attempt whose response the head awaits.
Attempts ==
    /\ \A i \in Ids : cmd[i].done \/ cmd[i].state # "AwaitingResponse" => cmd[i].req = 0
    /\ \A s \in slots : /\ HasCommand /\ Current.req = s.rid
                        /\ s.rid # 0 /\ s.uuid = Current.uuid
    /\ ctx.kind \in {"Action", "Status"} =>
          /\ ctx.id \in Ids
          /\ ~cmd[ctx.id].done /\ cmd[ctx.id].state = "AwaitingResponse"
             => ctx.att = cmd[ctx.id].uuid

\* The completion of the current generation is the outcome of the command waited for.
Completion ==
    /\ \A i \in Ids : i < next => cmd[i].gen <= generation
    /\ caller.pc # "idle" => caller.id \in Ids /\ caller.id < next
    /\ caller.pc = "waiting" =>
          /\ \A i \in Ids : i < next /\ cmd[i].kind.cb /\ cmd[i].gen = generation => i = caller.id
          /\ completion = "None"
             \/ (cmd[caller.id].done /\ completion = cmd[caller.id].outcome)
    /\ caller.pc = "expired" => caller.id \in expired

\* A definite failure, recorded or told, is one for good.
Definite ==
    /\ \A i \in Ids : cmd[i].done /\ cmd[i].outcome = "DefinitelyFailed" => ~cmd[i].maybe
    /\ \A i \in Ids : result[i] = "DefinitelyFailed" =>
          ~cmd[i].maybe /\ (cmd[i].done \/ i \in expired)

RunnerInv ==
    /\ Untouched
    /\ Evidence
    /\ UniqueAttempts
    /\ Refutations
    /\ Attempts
    /\ Completion
    /\ Definite

----------------------------------------------------------------------------
(* What HonestSuccess, SlotDiscipline and the refinement need besides.     *)

\* A reply that says the vehicle acted on the frame it answers.
Confirms(r) == r.body \in {"Ok", "Status"}

\* A confirmation is about an attempt that left the air by being carried out.
Confirmations ==
    \A r \in wire : Confirms(r) =>
        /\ \A fr \in air : fr.att # r.att
        /\ \A i \in Ids : front <= i /\ i < next /\ cmd[i].uuid = r.att => executed[i] > 0

\* A success, recorded or told, is that of a finished command the vehicle carried out.
Earned ==
    \A i \in Ids :
        /\ cmd[i].done /\ cmd[i].outcome = "Success" /\ ~cmd[i].kind.onTx /\ ~cmd[i].noop
           => executed[i] > 0
        /\ result[i] = "Success" => cmd[i].done /\ cmd[i].outcome = "Success"

\* Only the head awaits a response, and the dispatcher has the slot of its attempt.
Routable ==
    \A i \in Ids : front <= i /\ i < next /\ ~cmd[i].done /\ cmd[i].state = "AwaitingResponse"
                   => i = front /\ \E s \in slots : s.rid = cmd[i].req /\ s.uuid = cmd[i].uuid

\* A caller that still waits has been told nothing, and only accepted commands run late.
Untold ==
    /\ \A i \in expired : i < next
    /\ caller.pc \in {"waiting", "expired"} => result[caller.id] = "None"

AnswerInv ==
    /\ Confirmations
    /\ Earned
    /\ Routable
    /\ Untold

----------------------------------------------------------------------------
(* Liveness.  vehicle_loop iterates every 50 ms, the tick count advances,  *)
(* a task that waits with a timeout is woken and a LinkDown is processed.  *)

FairSpec ==
    /\ Spec
    /\ WF_vars(Drive)
    /\ WF_vars(PhaseRunsOut)
    /\ \A i \in Ids : WF_vars(DeadlinePasses(i))
    /\ WF_vars(CallerStep)
    /\ WF_vars(ApplyLinkDown)

\* No command is stranded in the FIFO, not behind a silent vehicle, not behind a completed
\* head, not after a link loss: drive_command_runner_ or its caller pops it in the end.
EveryCommandLeaves == \A i \in Ids : (front <= i /\ i < next) ~> (front > i)

=============================================================================
