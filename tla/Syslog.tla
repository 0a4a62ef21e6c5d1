------------------------------- MODULE Syslog -------------------------------
(***************************************************************************)
(* The UDP log forwarder of syslog.cpp: startup with its gate between      *)
(* app_main() and the new task, the log hook that any task calls, and the  *)
(* forwarding loop with its resolve throttle and its failure latch.        *)
(*                                                                         *)
(* A line is its kind: text, or blank (nothing left once trimmed).  The    *)
(* advisory reachability probe only informs /status and is not a state     *)
(* here.  The module's own diagnostics never enter the queue.              *)
(***************************************************************************)
EXTENDS Naturals, Sequences

CONSTANTS
    kQueueDepth,
    MaxLines,      \* bound: lines the log hook is called with
    MaxLogFaults   \* bound: outages, failed look-ups and sends, exceptions

ASSUME SyslogAssumption ==
    kQueueDepth \in Nat \ {0} /\ MaxLines \in Nat /\ MaxLogFaults \in Nat

VARIABLES
    starter,     \* where syslog_start() is
    memory,      \* the queue: none, owned by the start, live, freed
    slGate,      \* SyslogStartGate
    s_queue,     \* the publication that syslog_send() reads
    hooks,       \* calls of syslog_send() that hold the handle
    slAt,        \* where the task is
    slInHand,    \* the line it took from the queue
    lines,       \* the queue's content
    netUp,
    resolved, have_checked, checkDue, replayed, send_failing,
    count,       \* offered, delivered and blank lines, and s_dropped_lines
    reprobes,    \* look-ups outside the cadence since a line last got through;
                 \* the first one of the boot is due
    slBudget

slTask == <<slAt, slInHand>>
slFlags == <<resolved, have_checked, checkDue, replayed, send_failing>>
slStart == <<starter, memory, slGate, s_queue>>
syslogVars == <<slStart, hooks, slTask, lines, netUp, slFlags, count,
                reprobes, slBudget>>

LineKinds == {"text", "blank"}
NoLine == "none"

Bump(field) == [count EXCEPT ![field] = @ + 1]
SlFault == slBudget > 0 /\ slBudget' = slBudget - 1

-----------------------------------------------------------------------------
\* syslog_start_impl, step by step

AllocateResources ==
    /\ starter = "alloc"
    /\ \/ starter' = "begin" /\ memory' = "owned"
       \/ starter' = "off" /\ memory' = "freed"      \* partial: unwound
    /\ UNCHANGED <<slGate, s_queue, slAt>>

BeginGate ==
    /\ starter = "begin" /\ slGate = "Idle"
    /\ slGate' = "Waiting"
    /\ starter' = "create"
    /\ UNCHANGED <<memory, s_queue, slAt>>

\* The new task may run before xTaskCreate() returns.
CreateTask ==
    /\ starter = "create"
    /\ \/ slAt' = "gate" /\ starter' = "publish" /\ UNCHANGED slGate
       \/ slGate' = "Cancelled" /\ starter' = "unwind" /\ UNCHANGED slAt
    /\ UNCHANGED <<memory, s_queue>>

\* ~SyslogStartResources
Unwind ==
    /\ starter = "unwind"
    /\ memory' = "freed"
    /\ starter' = "off"
    /\ UNCHANGED <<slGate, s_queue, slAt>>

PublishQueue ==
    /\ starter = "publish"
    /\ memory' = "live"          \* resources.release()
    /\ s_queue' = TRUE
    /\ starter' = "commit"
    /\ UNCHANGED <<slGate, slAt>>

CommitGate ==
    /\ starter = "commit" /\ slGate = "Waiting"
    /\ slGate' = "Running"
    /\ starter' = "up"
    /\ UNCHANGED <<memory, s_queue, slAt>>

Starter ==
    /\ \/ AllocateResources \/ BeginGate \/ CreateTask \/ Unwind
       \/ PublishQueue \/ CommitGate
    /\ UNCHANGED <<hooks, slInHand, lines, netUp, slFlags, count, reprobes,
                   slBudget>>

-----------------------------------------------------------------------------
\* syslog_send: the handle is loaded, and used later

HookLoads ==
    /\ s_queue /\ count.offered < MaxLines
    /\ hooks' = hooks + 1
    /\ count' = Bump("offered")
    /\ UNCHANGED <<slStart, slTask, lines, netUp, slFlags, reprobes, slBudget>>

HookSends ==
    /\ hooks > 0
    /\ hooks' = hooks - 1
    /\ \/ /\ Len(lines) < kQueueDepth
          /\ \E k \in LineKinds : lines' = Append(lines, k)
          /\ UNCHANGED count
       \/ /\ Len(lines) >= kQueueDepth
          /\ count' = Bump("dropped")
          /\ UNCHANGED lines
    /\ UNCHANGED <<slStart, slTask, netUp, slFlags, reprobes, slBudget>>

-----------------------------------------------------------------------------
\* syslog_task

\* Run, and the task takes start->queue; it waits while the gate does.
GateOpens ==
    /\ slAt = "gate" /\ slGate = "Running"
    /\ slAt' = "top"
    /\ UNCHANGED <<slStart, hooks, slInHand, lines, netUp, slFlags, count,
                   reprobes, slBudget>>

Contained == slAt' = "top"      \* the iteration's catch clauses

NetIsDown ==
    /\ slAt = "top" /\ ~netUp
    /\ resolved' = FALSE
    /\ UNCHANGED <<slStart, hooks, slTask, lines, netUp, have_checked,
                   checkDue, replayed, send_failing, count, reprobes, slBudget>>

CheckNow == ~have_checked \/ checkDue

Throttle ==
    /\ slAt = "top" /\ netUp
    /\ IF CheckNow
         THEN /\ slAt' = "resolve"
              /\ have_checked' = TRUE /\ checkDue' = FALSE
              /\ reprobes' = IF ~checkDue THEN reprobes + 1 ELSE reprobes
         ELSE slAt' = "receive"
              /\ UNCHANGED <<have_checked, checkDue, reprobes>>
    /\ UNCHANGED <<slStart, hooks, slInHand, lines, netUp, resolved, replayed,
                   send_failing, count, slBudget>>

\* getaddrinfo, then set_status(), which may throw.
Resolve ==
    /\ slAt = "resolve"
    /\ \/ /\ resolved' = TRUE
          /\ \/ slAt' = "replay" /\ UNCHANGED slBudget
             \/ Contained /\ SlFault
       \/ /\ resolved' = FALSE /\ SlFault
          /\ slAt' \in {"receive", "top"}
    /\ UNCHANGED <<slStart, hooks, slInHand, lines, netUp, have_checked,
                   checkDue, replayed, send_failing, count, reprobes>>

\* syslog_replay_boot: the flag is set before anything can throw; a record
\* that is not sent is counted and never sent again.
ReplayBoot ==
    /\ slAt = "replay"
    /\ replayed' = TRUE
    /\ \/ /\ slAt' = "receive"
          /\ UNCHANGED <<count, slBudget>>
       \/ /\ ~replayed /\ SlFault
          /\ \/ slAt' = "receive"
                /\ count' = [count EXCEPT !.dropped = @ + 1, !.records = @ + 1]
             \/ Contained /\ UNCHANGED count
    /\ UNCHANGED <<slStart, hooks, slInHand, lines, netUp, resolved,
                   have_checked, checkDue, send_failing, reprobes>>

Receive ==
    /\ slAt = "receive"
    /\ IF lines = <<>>
         THEN slAt' = "top" /\ UNCHANGED <<lines, slInHand, count>>
         ELSE /\ lines' = Tail(lines)
              /\ IF resolved
                   THEN /\ slAt' = "send" /\ slInHand' = Head(lines)
                        /\ UNCHANGED count
                   ELSE /\ slAt' = "top" /\ UNCHANGED slInHand
                        /\ count' = Bump("dropped")
    /\ UNCHANGED <<slStart, hooks, netUp, slFlags, reprobes, slBudget>>

reprobe_once(hard, already_failing) == hard /\ ~already_failing

\* handle_send_failure after set_status().
SendFailure(hard) ==
    /\ resolved' = (resolved /\ ~hard)
    /\ have_checked' = (have_checked /\ ~reprobe_once(hard, send_failing))
    /\ send_failing' = TRUE

LetGo == slAt' = "top" /\ slInHand' = NoLine

SendOk ==
    /\ slAt = "send" /\ LetGo
    /\ IF slInHand = "blank"
         THEN /\ count' = Bump("blank")
              /\ UNCHANGED <<send_failing, reprobes>>
         ELSE /\ count' = Bump("delivered")
              /\ send_failing' = FALSE /\ reprobes' = 0
    /\ UNCHANGED <<slStart, hooks, lines, netUp, resolved, have_checked,
                   checkDue, replayed, slBudget>>

\* A bug: the line is counted only once the failure has been handled.
SendFailsCountsLate ==
    /\ slAt = "send" /\ slInHand = "text" /\ SlFault /\ LetGo
    /\ \/ \E hard \in BOOLEAN : SendFailure(hard) /\ count' = Bump("dropped")
       \/ UNCHANGED <<resolved, have_checked, send_failing, count>>
    /\ UNCHANGED <<slStart, hooks, lines, netUp, checkDue, replayed, reprobes>>

\* The line is counted first; then the failure is handled, or set_status()
\* throws and leaves everything else as it was, as an encoding failure does.
SendFails ==
    /\ slAt = "send" /\ slInHand = "text" /\ SlFault /\ LetGo
    /\ count' = Bump("dropped")
    /\ \/ \E hard \in BOOLEAN : SendFailure(hard)
       \/ UNCHANGED <<resolved, have_checked, send_failing>>
    /\ UNCHANGED <<slStart, hooks, lines, netUp, checkDue, replayed, reprobes>>

SyslogTask == GateOpens \/ NetIsDown \/ Throttle \/ Resolve \/ ReplayBoot
              \/ Receive \/ SendOk \/ SendFails

-----------------------------------------------------------------------------
\* The environment

CadencePasses ==
    /\ have_checked /\ ~checkDue
    /\ checkDue' = TRUE
    /\ UNCHANGED <<slStart, hooks, slTask, lines, netUp, resolved,
                   have_checked, replayed, send_failing, count, reprobes,
                   slBudget>>

NetChanges ==
    /\ netUp' = ~netUp
    /\ IF netUp THEN SlFault ELSE UNCHANGED slBudget
    /\ UNCHANGED <<slStart, hooks, slTask, lines, slFlags, count, reprobes>>

SyslogInit ==
    /\ starter = "alloc" /\ memory = "none" /\ slGate = "Idle"
    /\ s_queue = FALSE /\ hooks = 0
    /\ slAt = "none" /\ slInHand = NoLine /\ lines = <<>>
    /\ netUp \in BOOLEAN
    /\ resolved = FALSE /\ have_checked = FALSE /\ checkDue = TRUE
    /\ replayed = FALSE /\ send_failing = FALSE
    /\ count = [offered |-> 0, delivered |-> 0, blank |-> 0, dropped |-> 0,
                records |-> 0]
    /\ reprobes = 0
    /\ slBudget = MaxLogFaults

SyslogNext == Starter \/ HookLoads \/ HookSends \/ SyslogTask
              \/ CadencePasses \/ NetChanges

SyslogSpec == SyslogInit /\ [][SyslogNext]_syslogVars

\* Each task runs, the tick count advances, and an outage ends.
SyslogFairness ==
    /\ WF_syslogVars(Starter) /\ WF_syslogVars(HookSends)
    /\ WF_syslogVars(SyslogTask) /\ WF_syslogVars(CadencePasses)
    /\ WF_syslogVars(~netUp /\ NetChanges)

-----------------------------------------------------------------------------
(* The type of every variable, and the order startup keeps: the gate is     *)
(* open only on a published queue.                                          *)
SyslogTypeOK ==
    /\ starter \in {"alloc", "begin", "create", "publish", "commit", "unwind",
                    "up", "off"}
    /\ memory \in {"none", "owned", "live", "freed"}
    /\ slGate \in {"Idle", "Waiting", "Running", "Cancelled"}
    /\ s_queue \in BOOLEAN /\ hooks \in 0 .. MaxLines
    /\ slAt \in {"none", "gate", "top", "resolve", "replay", "receive", "send"}
    /\ slInHand \in LineKinds \cup {NoLine}
    /\ (slInHand # NoLine) <=> (slAt = "send")
    /\ lines \in Seq(LineKinds) /\ Len(lines) <= kQueueDepth
    /\ netUp \in BOOLEAN /\ resolved \in BOOLEAN /\ have_checked \in BOOLEAN
    /\ checkDue \in BOOLEAN /\ replayed \in BOOLEAN /\ send_failing \in BOOLEAN
    /\ count \in [{"offered", "delivered", "blank", "dropped", "records"}
                    -> Nat]
    /\ reprobes \in Nat /\ slBudget \in 0 .. MaxLogFaults
    /\ slGate = "Running" => s_queue

(* syslog_send() may hold the queue's handle for any time, and the task has *)
(* it once the gate opens: a queue that a failed start deletes must never   *)
(* have been visible to either.                                             *)
QueueOutlivesItsUsers ==
    hooks > 0 \/ slAt \notin {"none", "gate"} => memory = "live"

(* s_dropped_lines accounts for what forwarding loses: every line the hook  *)
(* was given is waiting, in hand, delivered, empty, or counted as dropped,  *)
(* whatever failed or threw on the way.                                     *)
EveryLineIsCounted ==
    count.offered + count.records =
        count.delivered + count.blank + count.dropped + Len(lines) + hooks
        + (IF slInHand = NoLine THEN 0 ELSE 1)

(* "At most ONCE per outage": until a line gets through again there is no   *)
(* more than one look-up outside the cadence, however many sends fail hard. *)
OneReprobePerOutage == reprobes <= 1

(* Once outages and failures end, a forwarder that started holds a resolved *)
(* destination again, has replayed the boot record and drains its queue.    *)
ForwardingRecovers ==
    <>[](starter = "up" => resolved /\ replayed /\ lines = <<>>)

\* What holds of the log forwarder whatever step of it fails: the queue
\* outlives its senders, every line is accounted for, and an outage costs one
\* re-probe.
SyslogSafe ==
    /\ SyslogTypeOK
    /\ QueueOutlivesItsUsers
    /\ EveryLineIsCounted
    /\ OneReprobePerOutage

=============================================================================
