------------------------------ MODULE WakePoll ------------------------------
(***************************************************************************)
(* When vehicle_loop asks the car for its charge state, and when it lets   *)
(* go of the link so that a parked car can fall asleep                     *)
(* (vehicle_telemetry.cpp, logic/wake_poll.hpp, logic/active_window.hpp).  *)
(*                                                                         *)
(* Asking keeps the car awake, so the loop asks at its cadence only inside *)
(* the active window (a recent command, or a charging car that answers),   *)
(* and outside it once per awake episode: after a proven sleep, or when a  *)
(* new connection finds a stale reading.  The loop shares the FIFO with    *)
(* commands and with the supervisor's health probe, which may begin        *)
(* between any two of its steps.  Ages and timers are abstracted to the    *)
(* side of their threshold they are on, each timer passing at any moment.  *)
(***************************************************************************)
EXTENDS Naturals

CONSTANTS MaxLost,    \* bound: replies, readings and opportunities lost
          MaxFalls    \* bound: times the car falls asleep

ASSUME WakeAssumption == MaxLost \in Nat /\ MaxFalls \in Nat

VARIABLES
    car,          \* the car's truth: "asleep", "awake"
    connected,    \* ble_connected()
    dialing,      \* a connect() whose link is not up yet
    flag,         \* vcsec_sleep_state_, "Stable" once ASLEEP held the debounce
    charge,       \* last_known_charge_: younger than kChargeFreshS, and its state
    contact,      \* last_contact_ticks_ is younger than kAwakeMaxAgeS
    recent,       \* command_is_recent()
    owner,        \* holder of command_mutex_, or "none"; the probe is "probe",
                  \* "answered" with its frame queued, "heard" once that is read
    wake_poll,    \* WakePollState; due stands for next_bootstrap_retry_s
    loopAt,       \* next step of vehicle_loop
    window,       \* the iteration's `window'; FALSE outside of it
    prev,         \* prev_window
    pollDue,      \* last_poll_ticks is more than 10 s ago
    reply,        \* the charge poll: "none", "asked", "mail" (mailbox)
    refreshed,    \* ghost: the cache was fresh at a sample of this episode
    extra,        \* ghost: one-shots fired in this episode after that
    lost, falls   \* used up of MaxLost, MaxFalls

wakeEnv == <<car, dialing, recent, owner, lost, falls>>
wakeCache == <<flag, charge, contact, reply>>
wakeLoop == <<wake_poll, loopAt, window, prev, pollDue>>
wakeGhosts == <<refreshed, extra>>
wakeVars == <<wakeEnv, connected, wakeCache, wakeLoop, wakeGhosts>>

ChargeReading == [fresh : BOOLEAN, charging : BOOLEAN]
WakePollState == [armed : BOOLEAN, pending : BOOLEAN, dispatched : BOOLEAN,
                  fresh : BOOLEAN, due : BOOLEAN]

NewWake == [armed |-> FALSE, pending |-> FALSE, dispatched |-> FALSE,
            fresh |-> FALSE, due |-> TRUE]

WakeInit ==
    /\ car \in {"asleep", "awake"}
    /\ connected = FALSE /\ dialing = FALSE
    /\ flag = "Unknown"
    /\ charge = [fresh |-> FALSE, charging |-> FALSE]
    /\ contact = FALSE
    /\ recent \in BOOLEAN                \* boot_activity_seed_allowed()
    /\ owner = "none"
    /\ wake_poll = NewWake
    /\ loopAt = "top" /\ window = FALSE /\ prev = FALSE /\ pollDue = TRUE
    /\ reply = "none"
    /\ refreshed = FALSE /\ extra = 0
    /\ lost = 0
    /\ falls = IF car = "asleep" THEN MaxFalls ELSE 0   \* it has fallen asleep

IterationEnds == loopAt' = "top" /\ window' = FALSE

InFlight == owner \in {"command", "probe", "answered", "heard"}  \* cmd_in_flight_
charge_cache_fresh(c) == c.fresh
active_window_open(c, live) == recent \/ (c.charging /\ live)
active_window_now == active_window_open(charge, contact)

-----------------------------------------------------------------------------
(* WakePollState                                                            *)

note_bootstrap(w, cache_fresh) ==
    CASE cache_fresh -> [w EXCEPT !.fresh = TRUE, !.due = TRUE]
      [] ~cache_fresh /\ w.fresh -> w
      [] ~cache_fresh /\ ~w.fresh /\ ~w.dispatched ->
            [w EXCEPT !.dispatched = TRUE, !.armed = TRUE, !.due = FALSE]
      [] ~cache_fresh /\ ~w.fresh /\ w.dispatched ->
            IF w.due /\ ~w.armed /\ ~w.pending
            THEN [w EXCEPT !.armed = TRUE, !.due = FALSE] ELSE w

note_asleep(w) == [NewWake EXCEPT !.armed = TRUE]

note_awake(w) ==
    IF w.armed THEN [w EXCEPT !.armed = FALSE, !.pending = TRUE] ELSE w

take_pending(w) ==
    IF w.pending THEN [w EXCEPT !.pending = FALSE, !.due = FALSE] ELSE w

wake_poll_update(w, cache_fresh, sample) ==
    LET b == note_bootstrap(w, cache_fresh)
    IN CASE ~connected -> NewWake
         [] connected /\ sample = "Stable" -> note_asleep(b)
         [] connected /\ sample = "Awake" -> note_awake(b)
         [] connected /\ sample \in {"Asleep", "Unknown"} -> b

-----------------------------------------------------------------------------
(* vehicle_loop                                                             *)

\* What a VCSEC frame reports of the car.
Reports == IF car = "awake" THEN "Awake"
           ELSE IF flag = "Stable" THEN "Stable" ELSE "Asleep"

\* The top of an iteration: drain the frames of the transaction under way,
\* publish what the mailbox holds, sample the sleep flag and the cache, and
\* look at the window.
Sample ==
    /\ loopAt = "top" /\ loopAt' = "drop"
    /\ IF reply = "mail"
       THEN /\ \E on \in BOOLEAN : charge' = [fresh |-> TRUE, charging |-> on]
            /\ contact' = TRUE /\ reply' = "none"
       ELSE UNCHANGED <<charge, contact, reply>>
    /\ flag' = IF owner = "answered" /\ connected THEN Reports ELSE flag
    /\ wake_poll' = wake_poll_update(wake_poll, charge_cache_fresh(charge'), flag')
    /\ window' = active_window_open(charge', contact')
    /\ IF ~connected \/ flag' = "Stable"
       THEN refreshed' = FALSE /\ extra' = 0
       ELSE /\ refreshed' = (refreshed \/ charge_cache_fresh(charge'))
            /\ UNCHANGED extra
    /\ owner' = IF owner = "answered" THEN "heard" ELSE owner
    /\ UNCHANGED <<car, dialing, recent, lost, falls, connected, prev, pollDue>>

Falling == prev /\ ~window /\ connected

\* The edges of the window, when there is no link to drop.
Edges ==
    /\ loopAt = "drop" /\ ~Falling
    /\ loopAt' = "poll"
    /\ prev' = window
    /\ pollDue' = (pollDue \/ (window /\ ~prev))
    /\ dialing' = (dialing \/ (window /\ ~connected))
    /\ UNCHANGED <<car, recent, owner, lost, falls, connected, wakeCache,
                   wake_poll, window, wakeGhosts>>

\* The window has closed, but a command or the probe holds the mutex: the
\* edge is kept for the next iteration.
Defer ==
    /\ loopAt = "drop" /\ Falling /\ owner # "none"
    /\ loopAt' = "poll"
    /\ prev' = TRUE
    /\ UNCHANGED <<wakeEnv, connected, wakeCache, wake_poll, window, pollDue,
                   wakeGhosts>>

LockForDrop ==
    /\ loopAt = "drop" /\ Falling /\ owner = "none"
    /\ owner' = "loop" /\ loopAt' = "recheck"
    /\ UNCHANGED <<car, dialing, recent, lost, falls, connected, wakeCache,
                   wake_poll, window, prev, pollDue, wakeGhosts>>

RecheckTrustsSample ==
    /\ loopAt = "recheck" /\ loopAt' = "disconnect"
    /\ UNCHANGED <<wakeEnv, connected, wakeCache, wake_poll, window, prev, pollDue,
                   wakeGhosts>>

\* Under the mutex, a command that has ended meanwhile is seen.
Recheck ==
    /\ loopAt = "recheck"
    /\ window' = active_window_now
    /\ IF window'
       THEN loopAt' = "poll" /\ prev' = TRUE /\ owner' = "none"
       ELSE loopAt' = "disconnect" /\ UNCHANGED <<prev, owner>>
    /\ dialing' = (dialing \/ (window' /\ ~connected))
    /\ UNCHANGED <<car, recent, lost, falls, connected, wakeCache, wake_poll,
                   pollDue, wakeGhosts>>

\* The link goes, and with it the poll under way and the car's last report; a
\* reading that has arrived may be published all the same.
Unlink ==
    /\ connected' = FALSE /\ flag' = "Unknown"
    /\ reply' \in {"none", reply} \ {"asked"}

IdleDrop ==
    /\ loopAt = "disconnect"
    /\ Unlink /\ dialing' = FALSE
    /\ loopAt' = "poll" /\ prev' = FALSE /\ owner' = "none"
    /\ UNCHANGED <<car, recent, lost, falls, charge, contact, wake_poll, window,
                   pollDue, wakeGhosts>>

poll_cadence == window /\ pollDue

charge_poll_should_fire ==
    (poll_cadence \/ wake_poll.pending) /\ connected /\ ~InFlight

\* The request is taken before enqueue_background_poll_() looks at
\* cmd_in_flight_ again: a transaction that has begun since, a full FIFO or the
\* allocation of a name costs the poll its opportunity.
PollFires ==
    /\ loopAt = "poll" /\ charge_poll_should_fire
    /\ IterationEnds
    /\ wake_poll' = take_pending(wake_poll)
    /\ pollDue' = (pollDue /\ ~window)
    /\ extra' = IF ~poll_cadence /\ refreshed THEN extra + 1 ELSE extra
    /\ \/ reply' = (IF reply = "mail" THEN reply ELSE "asked") /\ UNCHANGED lost
       \/ lost < MaxLost /\ lost' = lost + 1 /\ UNCHANGED reply
    /\ UNCHANGED <<car, dialing, recent, owner, falls, connected, flag, charge,
                   contact, prev, refreshed>>

PollRests ==
    /\ loopAt = "poll" /\ ~charge_poll_should_fire
    /\ IterationEnds
    /\ UNCHANGED <<wakeEnv, connected, wakeCache, wake_poll, prev, pollDue,
                   wakeGhosts>>

\* An allocation fails: while the mailbox is parsed, where the reading taken
\* from it is lost, or in the warm-up connect.  The next iteration goes on from
\* what is written.
Throws ==
    /\ loopAt \in {"top", "poll"} /\ lost < MaxLost
    /\ lost' = lost + 1
    /\ IterationEnds
    /\ reply' = IF loopAt = "top" /\ reply = "mail" THEN "none" ELSE reply
    /\ UNCHANGED <<car, dialing, recent, owner, falls, connected, flag, charge,
                   contact, wake_poll, prev, pollDue, wakeGhosts>>

LoopRound ==
    \/ Sample \/ Edges \/ Defer \/ LockForDrop \/ Recheck \/ IdleDrop
    \/ PollFires \/ PollRests

-----------------------------------------------------------------------------
(* Commands and the health probe, the two other owners of the mutex         *)

\* send_infotainment_() and the foreground send_vcsec_(): stamp, then connect.
CommandBegins ==
    /\ owner = "none"
    /\ owner' = "command" /\ recent' = TRUE
    /\ dialing' = (dialing \/ ~connected)
    /\ UNCHANGED <<car, lost, falls, connected, wakeCache, wakeLoop, wakeGhosts>>

CommandEnds ==
    /\ owner = "command" /\ owner' = "none"
    /\ UNCHANGED <<car, dialing, recent, lost, falls, connected, wakeCache,
                   wakeLoop, wakeGhosts>>

\* The supervisor's VCSEC status poll: no stamp.
ProbeBegins ==
    /\ owner = "none" /\ owner' = "probe"
    /\ dialing' = (dialing \/ ~connected)
    /\ UNCHANGED <<car, recent, lost, falls, connected, wakeCache, wakeLoop,
                   wakeGhosts>>

\* The answer waits in the queue of vehicle_loop; its caller wakes up after it
\* has been handled.
ProbeAnswered ==
    /\ owner = "probe" /\ connected /\ owner' = "answered"
    /\ UNCHANGED <<car, dialing, recent, lost, falls, connected, wakeCache,
                   wakeLoop, wakeGhosts>>
ProbeEnds ==
    /\ owner = "heard" /\ owner' = "none"
    /\ UNCHANGED <<car, dialing, recent, lost, falls, connected, wakeCache,
                   wakeLoop, wakeGhosts>>

\* A command's exchange reports the car's state too.
FlagArrives ==
    /\ loopAt = "top" /\ connected /\ owner = "command"
    /\ flag' = Reports
    /\ UNCHANGED <<wakeEnv, connected, charge, contact, reply, wakeLoop, wakeGhosts>>

\* A probe that is not answered ends at its deadline.
ProbeFails ==
    /\ owner = "probe" /\ owner' = "none"
    /\ \/ ~connected /\ UNCHANGED lost
       \/ connected /\ lost < MaxLost /\ lost' = lost + 1
    /\ UNCHANGED <<car, dialing, recent, falls, connected, wakeCache, wakeLoop,
                   wakeGhosts>>

-----------------------------------------------------------------------------
(* The car, the radio and time                                              *)

CarFallsAsleep ==
    /\ car = "awake" /\ falls < MaxFalls
    /\ car' = "asleep" /\ falls' = falls + 1
    /\ UNCHANGED <<dialing, recent, owner, lost, connected, wakeCache, wakeLoop,
                   wakeGhosts>>
CarWakes ==
    /\ car = "asleep" /\ car' = "awake"
    /\ UNCHANGED <<dialing, recent, owner, lost, falls, connected, wakeCache,
                   wakeLoop, wakeGhosts>>

LinkUp ==
    /\ dialing /\ connected' = TRUE /\ dialing' = FALSE
    /\ UNCHANGED <<car, recent, owner, lost, falls, wakeCache, wakeLoop, wakeGhosts>>
LinkLost ==
    /\ connected /\ Unlink
    /\ UNCHANGED <<wakeEnv, charge, contact, wakeLoop, wakeGhosts>>

\* NO_WAKE_SKIP: only a car that is awake answers.
PollAnswered ==
    /\ reply = "asked" /\ car = "awake" /\ reply' = "mail"
    /\ UNCHANGED <<wakeEnv, connected, flag, charge, contact, wakeLoop, wakeGhosts>>
PollUnanswered ==
    /\ reply = "asked" /\ reply' = "none"
    /\ \/ car = "asleep" /\ UNCHANGED lost
       \/ car = "awake" /\ lost < MaxLost /\ lost' = lost + 1
    /\ UNCHANGED <<car, dialing, recent, owner, falls, connected, flag, charge,
                   contact, wakeLoop, wakeGhosts>>

\* Another telemetry domain of the active window answers (TelemetryCache).
OtherDataArrives ==
    /\ loopAt = "top" /\ connected /\ car = "awake" /\ prev
    /\ contact' = TRUE
    /\ UNCHANGED <<wakeEnv, connected, flag, charge, reply, wakeLoop, wakeGhosts>>

\* Both clocks have the threshold of 60 s, and every charge reading is contact.
ChargeAges ==
    /\ charge.fresh /\ charge' = [charge EXCEPT !.fresh = FALSE]
    /\ UNCHANGED <<wakeEnv, connected, flag, contact, reply, wakeLoop, wakeGhosts>>
ContactAges ==
    /\ contact /\ ~charge_cache_fresh(charge) /\ contact' = FALSE
    /\ UNCHANGED <<wakeEnv, connected, flag, charge, reply, wakeLoop, wakeGhosts>>
CommandAges ==
    /\ recent /\ owner # "command" /\ recent' = FALSE
    /\ UNCHANGED <<car, dialing, owner, lost, falls, connected, wakeCache,
                   wakeLoop, wakeGhosts>>
SleepIsProven ==
    /\ loopAt = "top" /\ flag = "Asleep" /\ flag' = "Stable"
    /\ UNCHANGED <<wakeEnv, connected, charge, contact, reply, wakeLoop, wakeGhosts>>
CadencePasses ==
    /\ ~pollDue /\ pollDue' = TRUE
    /\ UNCHANGED <<wakeEnv, connected, wakeCache, wake_poll, loopAt, window, prev,
                   wakeGhosts>>
RetryPasses ==
    /\ ~wake_poll.due /\ wake_poll' = [wake_poll EXCEPT !.due = TRUE]
    /\ UNCHANGED <<wakeEnv, connected, wakeCache, loopAt, window, prev, pollDue,
                   wakeGhosts>>

ProbeStep == ProbeAnswered \/ ProbeEnds \/ ProbeFails
PollReturns == PollAnswered \/ PollUnanswered

WakeNext ==
    \/ LoopRound \/ Throws
    \/ CommandBegins \/ CommandEnds \/ FlagArrives
    \/ ProbeBegins \/ ProbeStep
    \/ CarFallsAsleep \/ CarWakes \/ LinkUp \/ LinkLost
    \/ PollReturns \/ OtherDataArrives
    \/ ChargeAges \/ ContactAges \/ CommandAges \/ SleepIsProven
    \/ CadencePasses \/ RetryPasses

WakeSpec == WakeInit /\ [][WakeNext]_wakeVars

-----------------------------------------------------------------------------
WakeTypeOK ==
    /\ car \in {"asleep", "awake"}
    /\ connected \in BOOLEAN /\ dialing \in BOOLEAN /\ recent \in BOOLEAN
    /\ contact \in BOOLEAN /\ refreshed \in BOOLEAN
    /\ window \in BOOLEAN /\ prev \in BOOLEAN /\ pollDue \in BOOLEAN
    /\ flag \in {"Unknown", "Awake", "Asleep", "Stable"}
    /\ charge \in ChargeReading
    /\ owner \in {"none", "command", "loop", "probe", "answered", "heard"}
    /\ wake_poll \in WakePollState
    /\ loopAt \in {"top", "drop", "recheck", "disconnect", "poll"}
    /\ reply \in {"none", "asked", "mail"}
    /\ extra \in Nat
    /\ lost \in 0 .. MaxLost /\ falls \in 0 .. MaxFalls

\* The link that is dropped so that the car can sleep is never the link of a
\* command: none runs, and none ended within the window, however the command
\* and the falling edge interleave.
DropSparesCommands ==
    loopAt = "disconnect" => owner = "loop" /\ ~recent

\* Outside the window the car is not asked again and again: once the cache
\* has been fresh in an awake episode, one request that was already under way
\* may still go out, and no second.
OneShotPerEpisode == extra <= 1

\* A request latched while the car was awake does not wait until the car
\* sleeps and then wake it.
NoPollIntoProvenSleep ==
    loopAt # "top" => ~(wake_poll.pending /\ flag = "Stable")

\* The idle drop of vehicle_loop and its one-shot polls together
\* (vehicle_telemetry.cpp:1763, wake_poll.hpp:101): commands keep their link,
\* and a parked car can fall asleep and is not woken by a request left over.
WakeSafe ==
    /\ WakeTypeOK
    /\ DropSparesCommands
    /\ OneShotPerEpisode
    /\ NoPollIntoProvenSleep

=============================================================================
