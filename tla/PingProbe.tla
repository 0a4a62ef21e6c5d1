----------------------------- MODULE PingProbe -----------------------------
(***************************************************************************)
(* One asynchronous esp_ping session after another under a single          *)
(* persistent control block: the calling task (ping_probe_run()) and the   *)
(* SDK's ping tasks, whose on_ping_end callback may come long after the    *)
(* caller stopped waiting (ping_probe.hpp, logic/ping_probe.hpp).          *)
(*                                                                         *)
(* All sessions share one callback argument, so a callback is attributed   *)
(* to the generation the argument holds when it runs.                      *)
(***************************************************************************)
EXTENDS Naturals

CONSTANTS MaxProbes,    \* bound on generations
          MaxRefusals   \* bound on SDK calls that fail

ASSUME PingAssumption == MaxProbes \in Nat /\ MaxRefusals \in Nat

VARIABLES
    caller,   \* idle, wait, stopped, and the generation it waits for
    ping,     \* PingProbeGeneration: next, active, ended and the measurement
    session,  \* the retained handle: its generation and whether it started
    args,     \* callback_args.generation
    semaphore,
    task,     \* the SDK's task of each generation
    truth,    \* what that task measured
    answer,   \* what the last call returned, and for which generation
    refusals

pingVars == <<caller, ping, session, args, semaphore, task, truth, answer,
              refusals>>

Probes == 1..MaxProbes
Measurements == {"Reply", "NoReply", "invalid"}
NoSession == [of |-> 0, started |-> FALSE]
CallerIdle == [at |-> "idle", gen |-> 0]
Answer(r, g) == [result |-> r, of |-> g]

CallRefused == refusals < MaxRefusals /\ refusals' = refusals + 1

Ended(g) == g # 0 /\ ping.ended = g /\ ping.active = g

\* ping_probe_cleanup_completed(): whether the retained handle may go.
MayDelete == ~session.started \/ Ended(session.of)

\* esp_ping_delete_session() of an SDK session.
Deleted(g) == [task EXCEPT ![g] = IF @ \in {"running", "calling"} THEN @
                                  ELSE "deleted"]

\* The handle is deleted and its generation given up.
Cleaned(p) == [p EXCEPT !.active = 0]

----------------------------------------------------------------------------
(* The calling task.                                                       *)

\* A session that owes its callback, or one that cannot be deleted, blocks
\* every new one.
StillPending ==
    /\ caller = CallerIdle
    /\ session # NoSession
    /\ \/ ~MayDelete /\ UNCHANGED refusals
       \/ MayDelete /\ CallRefused
    /\ answer' = Answer("PendingEnd", 0)
    /\ UNCHANGED <<caller, ping, session, args, semaphore, task, truth>>

\* What is left of the last session, then a new generation with its session.
ProbeBegins ==
    LET g == ping.next + 1
    IN /\ caller = CallerIdle
       /\ session = NoSession \/ MayDelete
       /\ g \in Probes
       /\ LET old == IF session = NoSession THEN task ELSE Deleted(session.of)
          IN \/ \* no session could be made, or none that starts
                /\ CallRefused
                /\ ping' = [ping EXCEPT !.next = g, !.active = 0, !.ended = 0]
                /\ session' = NoSession
                /\ args' = 0
                /\ task' = old
                /\ answer' = Answer("Unavailable", 0)
                /\ UNCHANGED caller
             \/ \* it did not start and cannot be deleted either
                /\ CallRefused
                /\ ping' = [ping EXCEPT !.next = g, !.active = g, !.ended = 0]
                /\ session' = [of |-> g, started |-> FALSE]
                /\ args' = g
                /\ task' = old
                /\ answer' = Answer("Unavailable", 0)
                /\ UNCHANGED caller
             \/ \* it runs
                /\ ping' = [ping EXCEPT !.next = g, !.active = g, !.ended = 0]
                /\ session' = [of |-> g, started |-> TRUE]
                /\ args' = g
                /\ task' = [old EXCEPT ![g] = "running"]
                /\ caller' = [at |-> "wait", gen |-> g]
                /\ UNCHANGED <<answer, refusals>>
    /\ semaphore' = FALSE
    /\ UNCHANGED truth

\* A wake-up that is not this generation's end is waited past.
SpuriousWake ==
    /\ caller # CallerIdle
    /\ semaphore
    /\ ~Ended(caller.gen)
    /\ semaphore' = FALSE
    /\ UNCHANGED <<caller, ping, session, args, task, truth, answer, refusals>>

\* The exact generation has ended: its result is read and it is cleaned up.
TakeResult ==
    /\ caller # CallerIdle
    /\ Ended(caller.gen)
    /\ caller' = CallerIdle
    /\ semaphore' \in {semaphore, FALSE}
    /\ \/ /\ answer' = Answer(IF ping.measured = "invalid" THEN "Unavailable"
                              ELSE ping.measured, caller.gen)
          /\ ping' = Cleaned(ping)
          /\ session' = NoSession
          /\ args' = 0
          /\ task' = Deleted(session.of)
          /\ UNCHANGED refusals
       \/ /\ CallRefused
          /\ answer' = Answer("PendingEnd", 0)
          /\ UNCHANGED <<ping, session, args, task>>
    /\ UNCHANGED truth

WaitForgets ==
    /\ caller # CallerIdle
    /\ ~Ended(caller.gen)
    /\ IF caller.at = "wait"
       THEN /\ caller' = [caller EXCEPT !.at = "stopped"]
            /\ UNCHANGED <<answer, ping, session>>
       ELSE /\ caller' = CallerIdle
            /\ answer' = Answer("PendingEnd", 0)
            /\ ping' = Cleaned(ping)
            /\ session' = NoSession
    /\ UNCHANGED <<args, semaphore, task, truth, refusals>>

\* The first wait asks the session to stop; after the second the handle, the
\* argument and the generation are kept for a later call.
WaitTimesOut ==
    /\ caller # CallerIdle
    /\ ~Ended(caller.gen)
    /\ IF caller.at = "wait"
       THEN caller' = [caller EXCEPT !.at = "stopped"] /\ UNCHANGED answer
       ELSE caller' = CallerIdle /\ answer' = Answer("PendingEnd", 0)
    /\ UNCHANGED <<ping, session, args, semaphore, task, truth, refusals>>

----------------------------------------------------------------------------
(* The ping task of generation g: ping_probe_on_end().                     *)

\* complete(): the measurement goes to the generation the argument names.
complete(m) == [ping EXCEPT !.measured = m, !.ended = args]

OnEnd(g) ==
    /\ task[g] = "running"
    /\ \E m \in Measurements :
          /\ truth' = [truth EXCEPT ![g] = m]
          /\ IF args # 0 /\ ping.active = args
             THEN /\ ping' = complete(m)
                  /\ task' = [task EXCEPT ![g] = "calling"]
             ELSE /\ UNCHANGED ping
                  /\ task' = [task EXCEPT ![g] = "over"]
    /\ UNCHANGED <<caller, session, args, semaphore, answer, refusals>>

\* xSemaphoreGive(), possibly after the caller has moved on.
GiveDone(g) ==
    /\ task[g] = "calling"
    /\ semaphore' = TRUE
    /\ task' = [task EXCEPT ![g] = "over"]
    /\ UNCHANGED <<caller, ping, session, args, truth, answer, refusals>>

----------------------------------------------------------------------------
PingInit ==
    /\ caller = CallerIdle
    /\ ping = [next |-> 0, active |-> 0, ended |-> 0, measured |-> "invalid"]
    /\ session = NoSession
    /\ args = 0
    /\ semaphore = FALSE
    /\ task = [g \in Probes |-> "none"]
    /\ truth = [g \in Probes |-> "invalid"]
    /\ answer = Answer("none", 0)
    /\ refusals = 0

PingTask == \E g \in Probes : OnEnd(g) \/ GiveDone(g)
CallerSteps == StillPending \/ ProbeBegins \/ SpuriousWake \/ TakeResult \/ WaitTimesOut
PingNext == CallerSteps \/ PingTask

PingSpec == PingInit /\ [][PingNext]_pingVars

\* A verdict about the gateway is the measurement of the very session this
\* call started, never one of a session given up earlier.
VerdictIsOwn ==
    answer.of # 0 =>
        answer.result = (IF truth[answer.of] = "invalid" THEN "Unavailable"
                         ELSE truth[answer.of])

\* No session is lost: a ping task that has still to call back is the one the
\* control block holds on to.
PendingIsRetained ==
    \A g \in Probes : task[g] = "running" =>
        session = [of |-> g, started |-> TRUE] /\ args = g

\* Two probes never share a session: a late callback finds its own block
\* (ping_probe.hpp:51), and a caller is told the result of its own session.
ProbesAreSeparate == PendingIsRetained /\ VerdictIsOwn

=============================================================================
