----------------------------- MODULE LinkProofs ------------------------------
(***************************************************************************)
(* The polling loop of the link, the replay window of its replies and the  *)
(* Bluetooth link itself, for all of their constants.                      *)
(***************************************************************************)
EXTENDS WakePoll, AntiReplay, BleLink, TLAPS

-----------------------------------------------------------------------------
(***************************************************************************)
(* The polling loop is safe for every number of lost replies and of falls  *)
(* asleep.  DropSparesCommands rests on who holds command_mutex_;          *)
(* OneShotPerEpisode on an account of the requests: in an episode whose    *)
(* cache has been fresh, what has fired, is latched and is armed is one    *)
(* at most, because note_bootstrap() arms only where nothing is under way. *)
(***************************************************************************)

\* Between LockForDrop and the end of the drop the loop holds the mutex, and
\* after Recheck no command has ended within the window.
DropHoldsMutex ==
    /\ loopAt \in {"recheck", "disconnect"} => owner = "loop"
    /\ loopAt = "disconnect" => ~recent

\* A latched request that no bootstrap has dispatched finds the cache fresh.
RequestsAreOne ==
    /\ ~(wake_poll.armed /\ wake_poll.pending)
    /\ wake_poll.pending /\ ~wake_poll.dispatched => wake_poll.fresh

\* The ghosts: an extra request belongs to a refreshed episode, and leaves
\* nothing armed or latched.
ExtraIsLast ==
    /\ refreshed => wake_poll.fresh
    /\ ~refreshed => extra = 0
    /\ extra <= 1
    /\ extra = 1 => ~wake_poll.armed /\ ~wake_poll.pending

WakeInv ==
    /\ WakeTypeOK
    /\ DropHoldsMutex
    /\ RequestsAreOne
    /\ ExtraIsLast
    /\ NoPollIntoProvenSleep

-----------------------------------------------------------------------------
(* One sample updates the WakePollState: it stays well typed, at most one   *)
(* request is open, a car that is proven asleep has none latched, and in a  *)
(* connected episode `fresh' is kept and nothing is armed once it holds     *)
(* (wake_poll_update(), wake_poll.hpp:176).                                 *)
LEMMA UpdateKeeps ==
    ASSUME NEW w \in WakePollState, NEW cache \in BOOLEAN, NEW sample,
           sample \in {"Unknown", "Awake", "Asleep", "Stable"},
           connected \in BOOLEAN,
           ~(w.armed /\ w.pending),
           w.pending /\ ~w.dispatched => w.fresh
    PROVE  LET u == wake_poll_update(w, cache, sample)
           IN /\ u \in WakePollState
              /\ ~(u.armed /\ u.pending)
              /\ u.pending /\ ~u.dispatched => u.fresh
              /\ sample = "Stable" => ~u.pending
              /\ connected /\ sample # "Stable" =>
                    /\ cache \/ w.fresh => u.fresh
                    /\ w.fresh /\ ~w.armed /\ ~w.pending
                          => ~u.armed /\ ~u.pending
  <1> DEFINE b == note_bootstrap(w, cache)
  <1>1. /\ b \in WakePollState
        /\ ~(b.armed /\ b.pending)
        /\ b.dispatched \/ b.fresh
        /\ cache \/ w.fresh => b.fresh
        /\ w.fresh => b.armed = w.armed /\ b.pending = w.pending
    BY DEF note_bootstrap, WakePollState
  <1>2. CASE ~connected \/ sample = "Stable"
    BY <1>1, <1>2 DEF wake_poll_update, note_asleep, NewWake, WakePollState
  <1>3. CASE connected /\ sample = "Awake"
    <2>1. wake_poll_update(w, cache, sample) = note_awake(b)
      BY <1>3 DEF wake_poll_update
    <2> QED BY <1>1, <1>3, <2>1 DEF note_awake, WakePollState
  <1>4. CASE connected /\ sample \in {"Asleep", "Unknown"}
    <2>1. wake_poll_update(w, cache, sample) = b
      BY <1>4 DEF wake_poll_update
    <2> QED BY <1>1, <1>4, <2>1
  <1> QED BY <1>2, <1>3, <1>4

-----------------------------------------------------------------------------
\* (WakePoll::WakeInit)
LEMMA WakeInitKeeps == WakeInit => WakeInv
  <1> SUFFICES ASSUME WakeInit PROVE WakeInv OBVIOUS
  <1>1. wake_poll \in WakePollState /\ charge \in ChargeReading
    BY DEF WakeInit, NewWake, WakePollState, ChargeReading
  <1>2. lost \in 0 .. MaxLost /\ falls \in 0 .. MaxFalls /\ extra \in Nat
    BY WakeAssumption DEF WakeInit
  <1>3. WakeTypeOK
    BY <1>1, <1>2 DEF WakeInit, WakeTypeOK
  <1>4. DropHoldsMutex
    BY DEF WakeInit, DropHoldsMutex
  <1>5. RequestsAreOne /\ ExtraIsLast /\ NoPollIntoProvenSleep
    BY DEF WakeInit, NewWake, RequestsAreOne, ExtraIsLast, NoPollIntoProvenSleep
  <1> QED BY <1>3, <1>4, <1>5 DEF WakeInv

\* The top of an iteration, where the requests are accounted for
\* (loop_task_fn_).
LEMMA SampleKeeps == WakeInv /\ Sample => WakeInv'
  <1> SUFFICES ASSUME WakeInv, Sample PROVE WakeInv' OBVIOUS
  <1> USE DEF WakeInv
  <1>1. /\ charge' \in ChargeReading
        /\ contact' \in BOOLEAN /\ reply' \in {"none", "asked", "mail"}
    <2>1. CASE reply = "mail"
      <3>1. PICK on \in BOOLEAN : charge' = [fresh |-> TRUE, charging |-> on]
        BY <2>1 DEF Sample
      <3>2. contact' = TRUE /\ reply' = "none"
        BY <2>1 DEF Sample
      <3> QED BY <3>1, <3>2 DEF ChargeReading
    <2>2. CASE reply # "mail"
      BY <2>2 DEF Sample, WakeTypeOK
    <2> QED BY <2>1, <2>2
  <1>2. flag' \in {"Unknown", "Awake", "Asleep", "Stable"}
    BY DEF Sample, WakeTypeOK, Reports
  <1> DEFINE cache == charge_cache_fresh(charge')
             u == wake_poll_update(wake_poll, cache, flag')
  <1>3. cache \in BOOLEAN
    BY <1>1 DEF charge_cache_fresh, ChargeReading
  <1>4. /\ u \in WakePollState
        /\ ~(u.armed /\ u.pending)
        /\ u.pending /\ ~u.dispatched => u.fresh
        /\ flag' = "Stable" => ~u.pending
        /\ connected /\ flag' # "Stable" =>
              /\ cache \/ wake_poll.fresh => u.fresh
              /\ wake_poll.fresh /\ ~wake_poll.armed /\ ~wake_poll.pending
                    => ~u.armed /\ ~u.pending
    BY <1>2, <1>3, UpdateKeeps DEF WakeTypeOK, RequestsAreOne
  <1>5. wake_poll' = u
    BY DEF Sample
  <1>6. WakeTypeOK'
    <2>1. window' \in BOOLEAN
      <3>1. window' = active_window_open(charge', contact') BY DEF Sample
      <3> QED BY <3>1, Zenon DEF active_window_open
    <2>2. refreshed' \in BOOLEAN
      <3>1. refreshed' = FALSE \/ refreshed' = (refreshed \/ cache)
        BY Zenon DEF Sample
      <3> QED BY <3>1, Zenon
    <2>3. extra' \in Nat
      BY DEF Sample, WakeTypeOK
    <2>4. owner' \in {"none", "command", "loop", "probe", "answered", "heard"}
      BY DEF Sample, WakeTypeOK
    <2> QED BY <1>1, <1>2, <1>4, <1>5, <2>1, <2>2, <2>3, <2>4
            DEF Sample, WakeTypeOK
  <1>7. DropHoldsMutex' BY DEF Sample, DropHoldsMutex
  <1>8. RequestsAreOne' BY <1>4, <1>5 DEF RequestsAreOne
  <1>9. ExtraIsLast'
    <2>1. CASE ~connected \/ flag' = "Stable"
      BY <2>1 DEF Sample, ExtraIsLast
    <2>2. CASE connected /\ flag' # "Stable"
      <3>1. refreshed' = (refreshed \/ cache) /\ extra' = extra
        BY <2>2 DEF Sample
      <3> QED BY <1>3, <1>4, <1>5, <2>2, <3>1 DEF ExtraIsLast, WakeTypeOK
    <2> QED BY <2>1, <2>2
  <1>10. NoPollIntoProvenSleep'
    BY <1>4, <1>5 DEF NoPollIntoProvenSleep
  <1> QED BY <1>6, <1>7, <1>8, <1>9, <1>10

\* Firing takes the request, and outside the cadence it is the only one
\* (charge_poll_should_fire()).
LEMMA PollFiresKeeps == WakeInv /\ PollFires => WakeInv'
  <1> SUFFICES ASSUME WakeInv, PollFires PROVE WakeInv' OBVIOUS
  <1> USE DEF WakeInv
  <1>1. /\ wake_poll' \in WakePollState
        /\ ~wake_poll'.pending
        /\ wake_poll'.fresh = wake_poll.fresh
        /\ wake_poll'.armed = wake_poll.armed
    BY DEF PollFires, take_pending, WakeTypeOK, WakePollState
  <1>2. WakeTypeOK'
    <2>1. extra' \in Nat
      BY DEF PollFires, WakeTypeOK
    <2>3. window' \in BOOLEAN
      BY DEF PollFires, IterationEnds
    <2>4. pollDue' \in BOOLEAN
      <3>1. pollDue' = (pollDue /\ ~window) BY DEF PollFires
      <3> QED BY <3>1, Zenon
    <2>2. lost' \in 0 .. MaxLost /\ reply' \in {"none", "asked", "mail"}
      BY WakeAssumption DEF PollFires, WakeTypeOK
    <2> QED BY <1>1, <2>1, <2>2, <2>3, <2>4
            DEF PollFires, IterationEnds, WakeTypeOK
  <1>3. ExtraIsLast'
    <2>1. CASE ~poll_cadence /\ refreshed
      <3>1. wake_poll.pending
        BY <2>1 DEF PollFires, charge_poll_should_fire
      <3>2. extra = 0 /\ ~wake_poll.armed
        BY <3>1 DEF ExtraIsLast, RequestsAreOne, WakeTypeOK
      <3> QED BY <1>1, <2>1, <3>2 DEF PollFires, ExtraIsLast
    <2>2. CASE ~(~poll_cadence /\ refreshed)
      BY <1>1, <2>2 DEF PollFires, ExtraIsLast
    <2> QED BY <2>1, <2>2
  <1> QED BY <1>1, <1>2, <1>3
          DEF PollFires, IterationEnds, DropHoldsMutex, RequestsAreOne,
              NoPollIntoProvenSleep

-----------------------------------------------------------------------------
(* The other steps leave the account of the requests alone.  One lemma per  *)
(* part of the invariant, one step per action.                              *)

Driving == Edges \/ Defer \/ LockForDrop \/ Recheck \/ IdleDrop \/ PollRests \/ Throws

Owning == CommandBegins \/ CommandEnds \/ FlagArrives \/ ProbeBegins \/ ProbeStep

World ==
    \/ CarFallsAsleep \/ CarWakes \/ LinkUp \/ LinkLost
    \/ PollReturns \/ OtherDataArrives
    \/ ChargeAges \/ ContactAges \/ CommandAges \/ SleepIsProven
    \/ CadencePasses \/ RetryPasses

\* (WakeTypeOK, for the steps of vehicle_loop)
LEMMA DrivingTypes == ASSUME WakeTypeOK, Driving PROVE WakeTypeOK'
  <1> USE DEF WakeTypeOK, wakeEnv, wakeCache, wakeLoop, wakeGhosts
  <1>1. CASE Edges
    <2>1. prev' \in BOOLEAN BY <1>1 DEF Edges
    <2>2. pollDue' \in BOOLEAN
      <3>1. pollDue' = (pollDue \/ (window /\ ~prev)) BY <1>1, Zenon DEF Edges
      <3> QED BY <3>1, Zenon
    <2>3. dialing' \in BOOLEAN
      <3>1. dialing' = (dialing \/ (window /\ ~connected)) BY <1>1, Zenon DEF Edges
      <3> QED BY <3>1, Zenon
    <2> QED BY <1>1, <2>1, <2>2, <2>3 DEF Edges
  <1>2. CASE Defer BY <1>2 DEF Defer
  <1>3. CASE LockForDrop BY <1>3 DEF LockForDrop
  <1>4. CASE Recheck
    <2>1. window' \in BOOLEAN
      <3>1. window' = active_window_now BY <1>4, Zenon DEF Recheck
      <3> QED BY <3>1, Zenon DEF active_window_now, active_window_open
    <2>2. dialing' \in BOOLEAN
      <3>1. dialing' = (dialing \/ (window' /\ ~connected))
        BY <1>4, Zenon DEF Recheck
      <3> QED BY <3>1, Zenon
    <2>3. prev' \in BOOLEAN
      <3>1. prev' = TRUE \/ prev' = prev BY <1>4, Zenon DEF Recheck
      <3> QED BY <3>1, Zenon
    <2>4. /\ loopAt' \in {"poll", "disconnect"}
          /\ owner' \in {"none", owner}
      BY <1>4 DEF Recheck
    <2>5. UNCHANGED <<car, recent, lost, falls, connected, wakeCache, wake_poll,
                      pollDue, wakeGhosts>>
      BY <1>4 DEF Recheck
    <2> QED BY <2>1, <2>2, <2>3, <2>4, <2>5
  <1>5. CASE IdleDrop
    <2>1. /\ connected' \in BOOLEAN /\ dialing' \in BOOLEAN /\ prev' \in BOOLEAN
          /\ flag' = "Unknown" /\ reply' \in {"none", "mail", reply}
      BY <1>5 DEF IdleDrop, Unlink
    <2>2. loopAt' = "poll" /\ owner' = "none"
      BY <1>5 DEF IdleDrop
    <2>3. UNCHANGED <<car, recent, lost, falls, charge, contact, wake_poll, window,
                      pollDue, wakeGhosts>>
      BY <1>5 DEF IdleDrop
    <2> QED BY <2>1, <2>2, <2>3
  <1>6. CASE PollRests
    <2>1. window' \in BOOLEAN /\ loopAt' = "top"
      BY <1>6 DEF PollRests, IterationEnds
    <2>2. UNCHANGED <<wakeEnv, connected, wakeCache, wake_poll, prev, pollDue,
                      wakeGhosts>>
      BY <1>6 DEF PollRests
    <2> QED BY <2>1, <2>2
  <1>7. CASE Throws
    <2>1. window' \in BOOLEAN /\ loopAt' = "top" /\ reply' \in {"none", reply}
      BY <1>7 DEF Throws, IterationEnds
    <2>2. lost' \in 0 .. MaxLost
      BY <1>7, WakeAssumption DEF Throws
    <2>3. UNCHANGED <<car, dialing, recent, owner, falls, connected, flag, charge,
                      contact, wake_poll, prev, pollDue, wakeGhosts>>
      BY <1>7 DEF Throws
    <2> QED BY <2>1, <2>2, <2>3
  <1> QED BY <1>1, <1>2, <1>3, <1>4, <1>5, <1>6, <1>7 DEF Driving

\* (WakeTypeOK, for commands and the probe)
LEMMA OwningTypes == ASSUME WakeTypeOK, Owning PROVE WakeTypeOK'
  <1> USE WakeAssumption DEF WakeTypeOK, wakeEnv, wakeCache, wakeLoop, wakeGhosts
  <1>1. CASE CommandBegins BY <1>1 DEF CommandBegins
  <1>2. CASE CommandEnds BY <1>2 DEF CommandEnds
  <1>3. CASE FlagArrives BY <1>3 DEF FlagArrives, Reports
  <1>4. CASE ProbeBegins BY <1>4 DEF ProbeBegins
  <1>5. CASE ProbeAnswered BY <1>5 DEF ProbeAnswered
  <1>6. CASE ProbeEnds BY <1>6 DEF ProbeEnds
  <1>7. CASE ProbeFails BY <1>7 DEF ProbeFails
  <1> QED BY <1>1, <1>2, <1>3, <1>4, <1>5, <1>6, <1>7 DEF Owning, ProbeStep

\* (WakeTypeOK, for the car, the radio and time)
LEMMA WorldTypes == ASSUME WakeTypeOK, World PROVE WakeTypeOK'
  <1> USE WakeAssumption DEF WakeTypeOK, wakeEnv, wakeCache, wakeLoop, wakeGhosts
  <1>1. CASE CarFallsAsleep BY <1>1 DEF CarFallsAsleep
  <1>2. CASE CarWakes BY <1>2 DEF CarWakes
  <1>3. CASE LinkUp
    <2>1. connected' \in BOOLEAN /\ dialing' \in BOOLEAN
      BY <1>3 DEF LinkUp
    <2>2. UNCHANGED <<car, recent, owner, lost, falls, wakeCache, wakeLoop, wakeGhosts>>
      BY <1>3 DEF LinkUp
    <2> QED BY <2>1, <2>2
  <1>4. CASE LinkLost
    <2>1. /\ connected' \in BOOLEAN
          /\ flag' = "Unknown" /\ reply' \in {"none", "mail", reply}
      BY <1>4 DEF LinkLost, Unlink
    <2>2. UNCHANGED <<wakeEnv, charge, contact, wakeLoop, wakeGhosts>>
      BY <1>4 DEF LinkLost
    <2> QED BY <2>1, <2>2
  <1>5. CASE PollAnswered BY <1>5 DEF PollAnswered
  <1>6. CASE PollUnanswered BY <1>6 DEF PollUnanswered
  <1>7. CASE OtherDataArrives BY <1>7 DEF OtherDataArrives
  <1>8. CASE ChargeAges
    <2>1. charge' \in ChargeReading BY <1>8 DEF ChargeAges, ChargeReading
    <2>2. UNCHANGED <<wakeEnv, connected, flag, contact, reply, wakeLoop, wakeGhosts>>
      BY <1>8 DEF ChargeAges
    <2> QED BY <2>1, <2>2
  <1>9. CASE ContactAges
    <2>1. contact' \in BOOLEAN BY <1>9 DEF ContactAges
    <2>2. UNCHANGED <<wakeEnv, connected, flag, charge, reply, wakeLoop, wakeGhosts>>
      BY <1>9 DEF ContactAges
    <2> QED BY <2>1, <2>2
  <1>10. CASE CommandAges
    <2>1. recent' \in BOOLEAN BY <1>10 DEF CommandAges
    <2>2. UNCHANGED <<car, dialing, owner, lost, falls, connected, wakeCache,
                      wakeLoop, wakeGhosts>>
      BY <1>10 DEF CommandAges
    <2> QED BY <2>1, <2>2
  <1>11. CASE SleepIsProven BY <1>11 DEF SleepIsProven
  <1>12. CASE CadencePasses BY <1>12 DEF CadencePasses
  <1>13. CASE RetryPasses
    <2>1. wake_poll' \in WakePollState BY <1>13 DEF RetryPasses, WakePollState
    <2>2. UNCHANGED <<wakeEnv, connected, wakeCache, loopAt, window, prev, pollDue,
                      wakeGhosts>>
      BY <1>13 DEF RetryPasses
    <2> QED BY <2>1, <2>2
  <1> QED BY <1>1, <1>2, <1>3, <1>4, <1>5, <1>6, <1>7, <1>8, <1>9, <1>10,
             <1>11, <1>12, <1>13 DEF World, PollReturns

\* Whoever takes command_mutex_ finds it free, and the loop looks at the window
\* again once it holds it (vehicle_telemetry.cpp:1766).
LEMMA MutexKept ==
    ASSUME WakeTypeOK, DropHoldsMutex, Driving \/ Owning \/ World
    PROVE  DropHoldsMutex'
  <1> USE DEF DropHoldsMutex, wakeEnv, wakeCache, wakeLoop, wakeGhosts
  <1>1. CASE Recheck
    <2>1. loopAt' = "disconnect" => ~active_window_now /\ owner' = owner
      BY <1>1 DEF Recheck
    <2>2. loopAt' \in {"poll", "disconnect"} /\ owner = "loop" /\ recent' = recent
      BY <1>1 DEF Recheck
    <2> QED BY <2>1, <2>2 DEF active_window_now, active_window_open
  <1>2. CASE Edges \/ Defer \/ LockForDrop \/ IdleDrop \/ PollRests \/ Throws
    BY <1>2 DEF Edges, Defer, LockForDrop, IdleDrop, PollRests, Throws, IterationEnds
  <1>3. CASE Owning
    BY <1>3 DEF Owning, ProbeStep, CommandBegins, CommandEnds, FlagArrives,
                ProbeBegins, ProbeAnswered, ProbeEnds, ProbeFails
  <1>4. CASE World
    BY <1>4 DEF World, PollReturns, CarFallsAsleep, CarWakes, LinkUp, LinkLost,
                PollAnswered, PollUnanswered, OtherDataArrives, ChargeAges,
                ContactAges, CommandAges, SleepIsProven, CadencePasses, RetryPasses
  <1> QED BY <1>1, <1>2, <1>3, <1>4 DEF Driving

\* (only RetryPasses touches the WakePollState, and of it only the time)
LEMMA AccountKept ==
    ASSUME WakeTypeOK, RequestsAreOne, ExtraIsLast, Driving \/ Owning \/ World
    PROVE  /\ RequestsAreOne' /\ ExtraIsLast'
           /\ wake_poll'.pending = wake_poll.pending
  <1> DEFINE Same == /\ wake_poll'.pending = wake_poll.pending
                     /\ wake_poll'.armed = wake_poll.armed
                     /\ wake_poll'.fresh = wake_poll.fresh
                     /\ wake_poll'.dispatched = wake_poll.dispatched
                     /\ UNCHANGED <<refreshed, extra>>
  <1>1. Same
    <2> USE DEF wakeEnv, wakeCache, wakeLoop, wakeGhosts
    <2>1. CASE Driving
      BY <2>1 DEF Driving, Edges, Defer, LockForDrop, Recheck, IdleDrop, PollRests,
                  Throws
    <2>2. CASE Owning
      BY <2>2 DEF Owning, ProbeStep, CommandBegins, CommandEnds, FlagArrives,
                  ProbeBegins, ProbeAnswered, ProbeEnds, ProbeFails
    <2>3. CASE RetryPasses
      BY <2>3 DEF RetryPasses, WakeTypeOK, WakePollState
    <2>4. CASE World /\ ~RetryPasses
      BY <2>4 DEF World, PollReturns, CarFallsAsleep, CarWakes, LinkUp, LinkLost,
                  PollAnswered, PollUnanswered, OtherDataArrives, ChargeAges,
                  ContactAges, CommandAges, SleepIsProven, CadencePasses
    <2> QED BY <2>1, <2>2, <2>3, <2>4
  <1> QED BY <1>1 DEF RequestsAreOne, ExtraIsLast

\* The sleep flag moves only at the top of an iteration, or to "Unknown" with
\* the link (vehicle_telemetry.cpp:1286, :502).
LEMMA SleepKept ==
    ASSUME NoPollIntoProvenSleep, wake_poll'.pending = wake_poll.pending,
           Driving \/ Owning \/ World
    PROVE  NoPollIntoProvenSleep'
  <1> USE DEF NoPollIntoProvenSleep, wakeEnv, wakeCache, wakeLoop, wakeGhosts
  <1>1. CASE Driving
    BY <1>1 DEF Driving, Edges, Defer, LockForDrop, Recheck, IdleDrop, PollRests,
                Throws, IterationEnds, Unlink
  <1>2. CASE Owning
    BY <1>2 DEF Owning, ProbeStep, CommandBegins, CommandEnds, FlagArrives,
                ProbeBegins, ProbeAnswered, ProbeEnds, ProbeFails
  <1>3. CASE World
    BY <1>3 DEF World, PollReturns, CarFallsAsleep, CarWakes, LinkUp, LinkLost,
                PollAnswered, PollUnanswered, OtherDataArrives, ChargeAges,
                ContactAges, CommandAges, SleepIsProven, CadencePasses, RetryPasses,
                Unlink
  <1> QED BY <1>1, <1>2, <1>3

-----------------------------------------------------------------------------
\* Type correctness with the account of the requests: the inductive invariant
\* of vehicle_loop's polling (vehicle_telemetry.cpp:1609).
THEOREM PollingInvariant == WakeSpec => []WakeInv
  <1>1. WakeInv /\ [WakeNext]_wakeVars => WakeInv'
    <2> SUFFICES ASSUME WakeInv, [WakeNext]_wakeVars PROVE WakeInv' OBVIOUS
    <2>1. CASE Sample BY <2>1, SampleKeeps
    <2>2. CASE PollFires BY <2>2, PollFiresKeeps
    <2>3. CASE UNCHANGED wakeVars
      BY <2>3 DEF wakeVars, wakeEnv, wakeCache, wakeLoop, wakeGhosts, WakeInv,
                  WakeTypeOK, DropHoldsMutex, RequestsAreOne, ExtraIsLast,
                  NoPollIntoProvenSleep
    <2>4. CASE Driving \/ Owning \/ World
      <3>1. WakeTypeOK' BY <2>4, DrivingTypes, OwningTypes, WorldTypes DEF WakeInv
      <3>2. DropHoldsMutex' BY <2>4, MutexKept DEF WakeInv
      <3>3. RequestsAreOne' /\ ExtraIsLast' /\ NoPollIntoProvenSleep'
        BY <2>4, AccountKept, SleepKept DEF WakeInv
      <3> QED BY <3>1, <3>2, <3>3 DEF WakeInv
    <2> QED BY <2>1, <2>2, <2>3, <2>4
            DEF WakeNext, LoopRound, Driving, Owning, World
  <1> QED BY <1>1, WakeInitKeeps, PTL DEF WakeSpec

\* The link is not dropped under a command, a parked car is asked once in an
\* awake episode, and no request outlasts the car's sleep, for every number of
\* losses (vehicle_telemetry.cpp:1763, wake_poll.hpp:101).
THEOREM PollingIsSafe == WakeSpec => []WakeSafe
  <1>1. WakeInv => WakeSafe
    BY DEF WakeInv, WakeSafe, DropHoldsMutex, DropSparesCommands, ExtraIsLast,
           OneShotPerEpisode
  <1> QED BY <1>1, PollingInvariant, PTL

-----------------------------------------------------------------------------
(***************************************************************************)
(* The anti-replay window is exact for every width of the bitmap and of    *)
(* the counter.  The invariant behind it says what the bitmap means: bit o *)
(* is set exactly when the counter highest_counter_ - o has been admitted, *)
(* and highest_counter_ is the highest of these.                           *)
(***************************************************************************)

\* highest_counter_ is one of the admitted counters and none is above it.
HighestIsMaximum ==
    /\ used_ <=> admitted # {}
    /\ used_ => /\ highest_counter_ \in admitted
                /\ \A a \in admitted : a <= highest_counter_

\* The bitmap is the admitted counters, as far as it reaches.
BitsAreAdmitted ==
    \A o \in Offsets : o \in window_ <=> highest_counter_ - o \in admitted

ReplayInv ==
    /\ ReplayTypeOK
    /\ HighestIsMaximum
    /\ BitsAreAdmitted
    /\ ~misjudged

-----------------------------------------------------------------------------
\* is_valid() decides what the history would decide (ble_dispatcher.hpp:63).
LEMMA ValidIsAdmissible ==
    ASSUME ReplayTypeOK, HighestIsMaximum, BitsAreAdmitted, NEW n \in Counters
    PROVE  is_valid(n) <=> Admissible(n)
  <1> USE ReplayAssumption
  <1>1. CASE ~used_
    BY <1>1 DEF HighestIsMaximum, is_valid, Admissible
  <1>2. CASE used_ /\ n > highest_counter_
    <2>1. \A a \in admitted : a \in Int /\ a <= highest_counter_
      BY <1>2 DEF HighestIsMaximum, ReplayTypeOK, Counters
    <2>2. \A a \in admitted : a - n < kWindowSize /\ a # n
      BY <1>2, <2>1 DEF ReplayTypeOK, Counters
    <2> QED BY <1>2, <2>2 DEF is_valid, Admissible
  <1>3. CASE used_ /\ n <= highest_counter_
    <2> DEFINE o == highest_counter_ - n
    <2>1. o \in Nat /\ highest_counter_ - o = n
      BY <1>3 DEF ReplayTypeOK, Counters
    <2>2. CASE o >= kWindowSize
      BY <1>3, <2>1, <2>2
         DEF is_valid, Admissible, HighestIsMaximum, ReplayTypeOK, Counters
    <2>3. CASE o < kWindowSize
      <3>1. o \in Offsets BY <2>1, <2>3 DEF Offsets
      <3>2. o \in window_ <=> n \in admitted
        BY <2>1, <3>1 DEF BitsAreAdmitted
      <3>3. \A a \in admitted : a - n < kWindowSize
        BY <1>3, <2>3 DEF HighestIsMaximum, ReplayTypeOK, Counters
      <3> QED BY <1>3, <2>3, <3>2, <3>3 DEF is_valid, Admissible, ReplayTypeOK, Counters
    <2> QED BY <2>1, <2>2, <2>3
  <1> QED BY <1>1, <1>2, <1>3 DEF ReplayTypeOK, Counters

\* What add() admits, is_valid() calls valid, and what it refuses is not.
LEMMA AddIsValid ==
    ASSUME ReplayTypeOK, NEW n \in Counters
    PROVE  /\ First(n) \/ Ahead(n) \/ Late(n) => is_valid(n)
           /\ Refused(n) => ~is_valid(n)
  BY ReplayAssumption
     DEF First, Ahead, Late, Refused, is_valid, ReplayTypeOK, Counters

\* After add() has admitted a counter the bitmap means the new history.
LEMMA AdmittedKeeps ==
    ASSUME ReplayInv, NEW n \in Counters, First(n) \/ Ahead(n) \/ Late(n),
           admitted' = admitted \cup {n}
    PROVE  HighestIsMaximum' /\ BitsAreAdmitted' /\ window_' \subseteq Offsets
           /\ used_' = TRUE /\ highest_counter_' \in Counters
  <1> USE ReplayAssumption DEF ReplayInv
  <1>1. CASE First(n)
    <2>1. admitted = {} BY <1>1 DEF First, HighestIsMaximum
    <2>2. used_' = TRUE /\ highest_counter_' = n /\ window_' = {0} /\ admitted' = {n}
      BY <1>1, <2>1 DEF First
    <2>3. \A o \in Offsets : o \in window_' <=> n - o \in {n}
      BY <2>2 DEF Offsets, Counters
    <2> QED BY <2>2, <2>3 DEF HighestIsMaximum, BitsAreAdmitted, Counters, Offsets
  <1>2. CASE Ahead(n)
    <2> DEFINE s == n - highest_counter_
    <2>1. used_ /\ used_' = TRUE /\ highest_counter_' = n /\ window_' = Shifted(s)
      BY <1>2 DEF Ahead, ReplayTypeOK
    <2>2. s \in Nat \ {0} /\ n \in Nat /\ highest_counter_ \in Nat
      BY <1>2 DEF Ahead, ReplayTypeOK, Counters
    <2>3. \A a \in admitted : a \in Nat /\ a <= highest_counter_
      BY <2>1 DEF HighestIsMaximum, ReplayTypeOK, Counters
    <2>4. HighestIsMaximum'
      BY <2>1, <2>2, <2>3 DEF HighestIsMaximum
    <2>5. ASSUME NEW o \in Offsets
          PROVE  o \in Shifted(s) <=> n - o \in admitted'
      <3>1. o \in Nat /\ o < kWindowSize BY DEF Offsets
      <3>2. CASE o = 0
        BY <2>2, <3>2 DEF Shifted
      <3>3. CASE o # 0 /\ o < s
        <4>1. n - o > highest_counter_ /\ n - o # n BY <2>2, <3>1, <3>3
        <4>2. n - o \notin admitted' BY <2>2, <2>3, <3>1, <4>1
        <4>3. \A p \in window_ : p \in Nat /\ p + s # o
          BY <2>2, <3>1, <3>3 DEF ReplayTypeOK, Offsets
        <4>4. o \notin Shifted(s)
          BY <3>3, <4>3 DEF Shifted
        <4> QED BY <4>2, <4>4
      <3>4. CASE o # 0 /\ o >= s
        <4>1. o - s \in Offsets /\ highest_counter_ - (o - s) = n - o /\ n - o # n
          BY <2>2, <3>1, <3>4 DEF Offsets
        <4>2. s < kWindowSize BY <2>2, <3>1, <3>4
        <4>3. o \in Shifted(s) <=> o - s \in window_
          BY <2>2, <3>1, <3>4, <4>2 DEF Shifted, ReplayTypeOK, Offsets
        <4> QED BY <4>1, <4>3 DEF BitsAreAdmitted
      <3> QED BY <2>2, <3>1, <3>2, <3>3, <3>4
    <2>6. Shifted(s) \subseteq Offsets
      BY <2>2 DEF Shifted, ReplayTypeOK, Offsets
    <2> QED BY <2>1, <2>4, <2>5, <2>6 DEF BitsAreAdmitted
  <1>3. CASE Late(n)
    <2> DEFINE d == highest_counter_ - n
    <2>1. /\ used_' = TRUE /\ highest_counter_' = highest_counter_
          /\ window_' = window_ \cup {d}
      BY <1>3 DEF Late, ReplayTypeOK
    <2>2. d \in Offsets /\ n <= highest_counter_ /\ used_
      BY <1>3 DEF Late, ReplayTypeOK, Counters, Offsets
    <2>3. HighestIsMaximum'
      BY <2>1, <2>2 DEF HighestIsMaximum
    <2>4. \A o \in Offsets : o = d <=> highest_counter_ - o = n
      BY DEF Offsets, ReplayTypeOK, Counters
    <2> QED BY <2>1, <2>2, <2>3, <2>4 DEF BitsAreAdmitted, ReplayTypeOK
  <1> QED BY <1>1, <1>2, <1>3

\* (dispatch())
LEMMA CountedKeeps ==
    ASSUME ReplayInv, NEW n \in Counters, Counted(n)
    PROVE  ReplayInv'
  <1>1. is_valid(n) <=> Admissible(n)
    BY ValidIsAdmissible DEF ReplayInv
  <1>2. CASE First(n) \/ Ahead(n) \/ Late(n)
    <2>1. is_valid(n) /\ ~Refused(n) BY <1>2, AddIsValid DEF ReplayInv
    <2>2. admitted' = admitted \cup {n} /\ plaintext_count' = plaintext_count
      BY <2>1 DEF Counted
    <2>3. misjudged' = FALSE
      <3>1. misjudged' = (misjudged \/ ~Admissible(n)) BY <2>1 DEF Counted
      <3> QED BY <1>1, <2>1, <3>1 DEF ReplayInv
    <2> QED BY <1>2, <2>2, <2>3, AdmittedKeeps DEF ReplayInv, ReplayTypeOK
  <1>3. CASE ~(First(n) \/ Ahead(n) \/ Late(n))
    <2>1. Refused(n) /\ admitted' = admitted /\ plaintext_count' = plaintext_count
      BY <1>3 DEF Counted
    <2>2. misjudged' = FALSE
      <3>1. misjudged' = (misjudged \/ Admissible(n)) BY <1>3 DEF Counted
      <3> QED BY <1>1, <2>1, <3>1, AddIsValid DEF ReplayInv
    <2> QED BY <2>1, <2>2
            DEF Refused, ReplayInv, ReplayTypeOK, HighestIsMaximum, BitsAreAdmitted
  <1> QED BY <1>2, <1>3

\* The bitmap is the history it stands for, in every reachable state
\* (AntiReplayWindow).
THEOREM BitmapIsHistory == ReplaySpec => []ReplayInv
  <1>0. 0 \in Counters BY ReplayAssumption DEF Counters
  <1>1. ReplayInit => ReplayInv
    <2> SUFFICES ASSUME ReplayInit PROVE ReplayInv OBVIOUS
    <2>1. ReplayTypeOK
      <3>1. used_ \in BOOLEAN /\ misjudged \in BOOLEAN BY Zenon DEF ReplayInit
      <3>2. plaintext_count \in 0 .. 1 BY DEF ReplayInit
      <3> QED BY <1>0, <3>1, <3>2, Zenon DEF ReplayInit, ReplayTypeOK
    <2>2. HighestIsMaximum BY DEF ReplayInit, HighestIsMaximum
    <2>3. BitsAreAdmitted BY DEF ReplayInit, BitsAreAdmitted
    <2> QED BY <2>1, <2>2, <2>3 DEF ReplayInv, ReplayInit
  <1>2. ReplayInv /\ [ReplayNext]_replayVars => ReplayInv'
    <2> SUFFICES ASSUME ReplayInv, [ReplayNext]_replayVars PROVE ReplayInv' OBVIOUS
    <2>1. ASSUME NEW n \in Counters, Counted(n) PROVE ReplayInv'
      BY <2>1, CountedKeeps
    <2>2. CASE Plaintext
      BY <2>2 DEF Plaintext, ReplayInv, ReplayTypeOK, HighestIsMaximum, BitsAreAdmitted
    <2>3. CASE Registered
      <3>1. misjudged' \in BOOLEAN /\ ~misjudged'
        BY <2>3, Zenon DEF Registered, ReplayInv, ReplayTypeOK
      <3>2. /\ used_' = FALSE /\ highest_counter_' = 0 /\ window_' = {}
            /\ plaintext_count' = 0 /\ admitted' = {}
        BY <2>3 DEF Registered
      <3>3. ReplayTypeOK'
        <4>1. used_' \in BOOLEAN BY <3>2, Zenon
        <4>2. plaintext_count' \in 0 .. 1 BY <3>2
        <4> QED BY <1>0, <3>1, <3>2, <4>1, <4>2, Zenon DEF ReplayTypeOK
      <3>4. HighestIsMaximum' /\ BitsAreAdmitted'
        BY <3>2 DEF HighestIsMaximum, BitsAreAdmitted
      <3> QED BY <3>1, <3>3, <3>4 DEF ReplayInv
    <2>4. CASE UNCHANGED replayVars
      BY <2>4 DEF replayVars, ReplayInv, ReplayTypeOK, HighestIsMaximum,
                  BitsAreAdmitted
    <2> QED BY <2>1, <2>2, <2>3, <2>4 DEF ReplayNext
  <1> QED BY <1>1, <1>2, PTL DEF ReplaySpec

\* No reply is routed twice and none that is new and recent is refused, for
\* every width of bitmap and counter (ble_dispatcher.hpp:58).
THEOREM ReplaysAreExact == ReplaySpec => []WindowIsExact
  <1>1. ReplayInv => WindowIsExact
    BY ValidIsAdmissible DEF ReplayInv, WindowIsExact
  <1> QED BY <1>1, BitmapIsHistory, PTL

-----------------------------------------------------------------------------
(***************************************************************************)
(* The Bluetooth link is sound for every queue depth, cell size and number *)
(* of generations and faults.                                              *)
(***************************************************************************)

\* A cell's read offset stays on its notifications, and a cell is of a stable generation.
Sliced(q) ==
    \A k \in 1 .. Len(q) :
        /\ ~Odd(q[k].gen)
        /\ q[k].kind = "Rx" => q[k].from \in 1 .. q[k].at /\ q[k].at <= q[k].to
        /\ q[k].kind # "Rx" => q[k].at = 0
Slices ==
    /\ Sliced(queue)
    /\ ev.kind = "Rx" => ev.i # 0
    /\ ev.kind # "none" => ev.gen # NoGen

Returns == {"idle", "wait", "scan", "terminate", "scanPending", "drive", "pop", "service"}
Publishing == task["loop"].at \in {"publish", "recheck"}

\* Who holds intent_mutex_.  The host retires a link without it, but never publishes one.
Locking ==
    /\ \A t \in Tasks : task[t].next \in Returns /\ task[t].back \in Returns
    /\ \A t \in Tasks : lock = t <=> At(t, "release") \/ (t = "loop" /\ Publishing)
    /\ lock = "host" => host.at \in {"publish", "retire"}
    /\ host.at = "publish" => lock = "host"
    /\ task["cmd"].at \notin {"publish", "recheck"}

\* The generation is odd while the host publishes or retires, and the bound leaves it room.
Generations ==
    /\ Odd(c.gen) <=> host.at \in {"publish", "retire"}
    /\ host.at = "publish" => c.gen + 3 <= MaxGen /\ c.handle
    /\ host.at = "retire" => c.gen + 1 <= MaxGen /\ c.discon
    /\ host.at \in {"retire", "linkDown"} => ~c.handle /\ link.st = "none"
    /\ link.st # "none" => Odd(c.gen) \/ c.gen + 2 <= MaxGen

\* One procedure or one link, and a published handle is the link of its generation.
Radio ==
    /\ ScanStateIsTrue
    /\ gap = "connect" => c.connecting /\ ~c.handle
    /\ link.st # "none" => gap = "idle" /\ (c.handle \/ c.connecting)
    /\ c.handle => link.st # "none" /\ link.gen = Settled(c.gen)
    /\ host.at = "publish" => ~link.sub

\* The popped event is there as long as vehicle_loop works on it.
Places ==
    /\ task["loop"].at \in {"complete", "publish", "recheck", "unwind"} =>
          ev.kind = "LinkUp" /\ app = ev.gen /\ framer = << >>
    /\ At("loop", "apply") => ev.kind # "none"
    /\ ev.kind # "none" =>
          task["loop"].at \in {"apply", "complete", "publish", "recheck", "unwind"}

\* A link is ready by a publication in progress, or as the link that was applied.
Wanted ==
    /\ c.want => intent
    /\ Publishing => intent
    /\ c.ready # NoGen =>
          /\ intent
          /\ \/ At("loop", "recheck") /\ c.ready = ev.gen
             \/ HasGapLink(c) /\ c.ready = c.gen /\ (app = c.gen \/ At("loop", "disconnect"))
    /\ ev.kind \in {"LinkUp", "Rx"} /\ task["loop"].at \in {"apply", "complete"}
          => (c.ready # NoGen => ev.gen = c.gen)

\* The last generation an event of which may have been queued.
Retiring == host.at \in {"retire", "linkDown"}
Latest == IF Retiring THEN c.gen - 1 ELSE c.gen

\* Events wait in the order of their generations, and a LinkDown is later than
\* everything of its link and of the links before.
Ordered(q, last) ==
    /\ \A k \in 1 .. Len(q) : q[k].gen <= last
    /\ \A j, k \in 1 .. Len(q) : j < k =>
          /\ q[j].gen <= q[k].gen
          /\ q[k].kind = "LinkDown" => q[j].gen < q[k].gen
Precedes(g, q) == \A k \in 1 .. Len(q) : q[k].kind = "LinkDown" => g < q[k].gen
Order ==
    /\ Ordered(queue, Latest)
    /\ app <= Latest /\ ev.gen <= Latest /\ peers <= Latest
    /\ Precedes(app, queue) /\ Precedes(ev.gen, queue)
    /\ ev.kind = "LinkDown" => app < ev.gen

\* Sessions of an earlier link always have a teardown ahead of them.
Barred(g, q) == \E k \in 1 .. Len(q) : q[k].kind = "LinkDown" /\ g < q[k].gen
Barrier ==
    /\ peers \notin {NoGen, c.gen} =>
          overflow \/ At("loop", "clear") \/ Retiring \/ ev.kind = "LinkDown"
          \/ Barred(peers, queue)
    /\ peers = c.gen => c.handle
    /\ peers # NoGen => ~Odd(peers)

\* The cells of one link follow each other without a gap.
Joined(q) ==
    \A k \in 2 .. Len(q) : q[k].kind = "Rx" =>
        /\ q[k].at = q[k].from
        /\ q[k - 1].kind \in {"LinkUp", "Rx"} /\ q[k - 1].gen = q[k].gen
        /\ q[k - 1].kind = "Rx" => q[k].at = q[k - 1].to + 1

\* Notification i of generation g continues what the framer holds.
Continues(f, g, i) == f # << >> => f[Len(f)] = [gen |-> g, i |-> i - 1]

Open == SnapshotMatches(c, c.gen) /\ link.sub

\* What vehicle_loop is about to add to the framer before the queue, if anything.
AheadOf(g, i) ==
    /\ ev.kind = "Rx" => ev.gen = g /\ i = ev.i + 1
    /\ ev.kind = "none" => Continues(framer, g, i)

Stream ==
    /\ FramerIsContiguous
    /\ Joined(queue)
    /\ ev.kind = "Rx" => Continues(framer, ev.gen, ev.i)
    /\ queue # << >> /\ queue[1].kind = "Rx" /\ queue[1].gen = c.gen => AheadOf(c.gen, queue[1].at)
    /\ Open /\ queue = << >> => AheadOf(c.gen, link.rx + 1)
    /\ Open /\ queue # << >> =>
          /\ queue[Len(queue)].gen = c.gen /\ queue[Len(queue)].kind \in {"LinkUp", "Rx"}
          /\ queue[Len(queue)].kind = "Rx" => queue[Len(queue)].to = link.rx

BleInv ==
    /\ Slices
    /\ Locking
    /\ Generations
    /\ Radio
    /\ Places
    /\ Wanted
    /\ Order
    /\ Barrier
    /\ Stream

-----------------------------------------------------------------------------
\* A generation is even when stable, odd when a publication is under way.
LEMMA Parity ==
    /\ \A g \in Nat : Odd(g + 1) <=> ~Odd(g)
    /\ \A g \in Nat : Settled(g) = IF Odd(g) THEN g + 1 ELSE g
    /\ Gens \subseteq Nat /\ NoGen \notin Nat /\ NoGen = -1 /\ ~Odd(0)
    /\ \A g \in Gens : g <= MaxGen
    /\ \A g \in Nat : g <= MaxGen => g \in Gens
  BY GenAssumption DEF Odd, Settled, Gens, NoGen

\* What the start or the end of a scan leaves of b: c' is b but for the scan, and a scan
\* only starts on an idle radio that nobody uses.
Quiet(b) == lock = "free" /\ ~b.discon /\ ~HasGapLink(b) /\ ~b.connecting
SameButScan(u, b) ==
    /\ u \in ClientType
    /\ u.want = b.want /\ u.connecting = b.connecting /\ u.synced = b.synced
    /\ u.gen = b.gen /\ u.handle = b.handle /\ u.write = b.write /\ u.ready = b.ready
    /\ u.discon = b.discon /\ u.term = b.term
ScanMoves(b, g) ==
    /\ SameButScan(c', b) /\ gap' \in GapType /\ faults' \in 0..MaxFaults
    /\ (b.scanning <=> g = "scan") => (c'.scanning <=> gap' = "scan")
    /\ \/ gap' = g
       \/ g = "scan" /\ gap' = "idle"
       \/ g = "idle" /\ gap' = "scan" /\ Quiet(b)

\* The two scan flags change and nothing else does.
LEMMA ScanTyped ==
    ASSUME NEW b \in ClientType, NEW x \in BOOLEAN
    PROVE  /\ SameButScan([b EXCEPT !.scanning = x], b)
           /\ SameButScan([b EXCEPT !.scanPend = x], b)
           /\ [b EXCEPT !.scanning = x].scanning = x
           /\ [b EXCEPT !.scanPend = x].scanning = b.scanning
  BY DEF ClientType, SameButScan

\* An outcome that leaves client and radio alone.
LEMMA NoMoves ==
    ASSUME NEW b \in ClientType, NEW g \in GapType, faults \in 0..MaxFaults,
           Take({Outcome(b, g, 0)})
    PROVE  ScanMoves(b, g)
  BY GenAssumption DEF Take, Outcome, ScanMoves, SameButScan

\* start_scan_locked_(): a started scan is published as one, a failed start as none.
LEMMA StartMoves ==
    ASSUME NEW b \in ClientType, NEW g \in GapType, faults \in 0..MaxFaults,
           lock = "free", ~HasGapLink(b), ~b.connecting, Take(StartScan(b, g))
    PROVE  ScanMoves(b, g)
  <1>1. PICK o \in StartScan(b, g) : c' = o.c /\ gap' = o.gap /\ faults' = faults + o.cost
    BY DEF Take
  <1>2. CASE o = Outcome(b, g, 0)
    BY <1>1, <1>2, GenAssumption DEF Outcome, ScanMoves, SameButScan
  <1>3. CASE o = Outcome([b EXCEPT !.scanning = TRUE], "scan", 0) /\ g # "connect" /\ ~b.discon
    <2>1. /\ c' = [b EXCEPT !.scanning = TRUE] /\ gap' = "scan" /\ faults' = faults + 0
      BY <1>1, <1>3 DEF Outcome
    <2>2. SameButScan(c', b) /\ c'.scanning = TRUE
      BY <2>1, ScanTyped, Zenon
    <2>3. QED
      BY <1>3, <2>1, <2>2, GenAssumption DEF ScanMoves, GapType, Quiet
  <1>4. CASE o = Outcome(b, g, 1) /\ CanFail("disc")
    BY <1>1, <1>4, GenAssumption DEF Outcome, ScanMoves, SameButScan, CanFail
  <1>5. QED
    BY <1>1, <1>2, <1>3, <1>4 DEF StartScan

\* cancel_scan_locked_(): only a cancel that succeeded leaves an idle radio.
LEMMA CancelMoves ==
    ASSUME NEW b \in ClientType, NEW g \in GapType, faults \in 0..MaxFaults,
           Take(CancelScan(b, g))
    PROVE  ScanMoves(b, g) /\ gap' \in {g, "idle"}
  <1>1. PICK o \in CancelScan(b, g) : c' = o.c /\ gap' = o.gap /\ faults' = faults + o.cost
    BY DEF Take
  <1>2. CASE o = Outcome(b, g, 0)
    BY <1>1, <1>2, GenAssumption DEF Outcome, ScanMoves, SameButScan
  <1>3. CASE o = Outcome([b EXCEPT !.scanning = FALSE], IF g = "scan" THEN "idle" ELSE g, 0)
    <2>1. /\ c' = [b EXCEPT !.scanning = FALSE] /\ gap' = (IF g = "scan" THEN "idle" ELSE g)
          /\ faults' = faults + 0
      BY <1>1, <1>3 DEF Outcome
    <2>2. SameButScan(c', b) /\ c'.scanning = FALSE
      BY <2>1, ScanTyped, Zenon
    <2>3. QED
      BY <1>3, <2>1, <2>2, GenAssumption DEF ScanMoves, GapType
  <1>4. CASE o = Outcome(b, g, 1) /\ CanFail("cancel")
    BY <1>1, <1>4, GenAssumption DEF Outcome, ScanMoves, SameButScan, CanFail
  <1>5. QED
    BY <1>1, <1>2, <1>3, <1>4 DEF CancelScan

\* ensure_scanning_locked_(), with the mutex.
LEMMA EnsureMoves ==
    ASSUME NEW b \in ClientType, NEW g \in GapType, faults \in 0..MaxFaults,
           lock = "free", Take(EnsureScanning(b, g))
    PROVE  ScanMoves(b, g)
  BY NoMoves, StartMoves DEF EnsureScanning

\* ensure_scanning_(), with the mutex or without it.
LEMMA TryMoves ==
    ASSUME NEW b \in ClientType, NEW g \in GapType, faults \in 0..MaxFaults,
           NEW cond \in BOOLEAN, Take(TryEnsureScanning(cond, b, g))
    PROVE  ScanMoves(b, g)
  <1>1. CASE Take({Outcome(b, g, 0)})
    BY <1>1, NoMoves
  <1>2. CASE lock = "free" /\ Take(EnsureScanning(b, g))
    BY <1>2, EnsureMoves
  <1>3. CASE Take({Outcome([b EXCEPT !.scanPend = TRUE], g, 0)})
    <2>1. c' = [b EXCEPT !.scanPend = TRUE] /\ gap' = g /\ faults' = faults + 0
      BY <1>3 DEF Take, Outcome
    <2>2. SameButScan(c', b) /\ c'.scanning = b.scanning
      BY <2>1, ScanTyped, Zenon
    <2>3. QED
      BY <2>1, <2>2, GenAssumption DEF ScanMoves
  <1>4. QED
    BY <1>1, <1>2, <1>3 DEF TryEnsureScanning

\* What HostAdvert leaves: a scan, an attempt, or an idle radio.
Advertised ==
    /\ gap = "scan" /\ c.want /\ ~c.connecting /\ lock = "free"
    /\ c' \in ClientType /\ gap' \in GapType /\ faults' \in 0..MaxFaults
    /\ c'.want = c.want /\ c'.synced = c.synced /\ c'.gen = c.gen /\ c'.handle = c.handle
    /\ c'.write = c.write /\ c'.ready \in {c.ready, NoGen} /\ c'.discon = c.discon
    /\ c'.term = c.term
    /\ c'.scanning <=> gap' = "scan"
    /\ gap' = "connect" => c'.connecting

\* terminate_published_link_() changes the request and a flag that no link needs, or ends the
\* link of the generation it was asked for.
KeepsButTerm(b) ==
    /\ c'.want = b.want /\ c'.connecting = b.connecting /\ c'.scanning = b.scanning
    /\ c'.synced = b.synced /\ c'.gen = b.gen /\ c'.handle = b.handle /\ c'.write = b.write
    /\ c'.ready = b.ready
    /\ c'.discon = b.discon \/ (~c'.discon /\ ~b.handle)

\* terminate_published_link_(), its second half.
LEMMA TerminateMoves ==
    ASSUME NEW b \in ClientType, NEW g \in Gens, TerminateLocked(b, g), link \in LinkType,
           faults \in 0..MaxFaults
    PROVE  /\ KeepsButTerm(b) /\ c' \in ClientType
           /\ link' \in LinkType /\ faults' \in 0..MaxFaults
           /\ \/ link' = link
              \/ /\ b.gen = g /\ b.handle /\ link.st = "up" /\ c'.discon = b.discon
                 /\ link'.st = "ending" /\ link'.gen = link.gen /\ link'.sub = link.sub
                 /\ link'.rx = link.rx
  <1>1. Unpend(b, g) \in ClientType
    BY DEF Unpend, ClientType
  <1>2. LET u == Unpend(b, g)
        IN /\ u.want = b.want /\ u.connecting = b.connecting /\ u.scanning = b.scanning
           /\ u.synced = b.synced /\ u.gen = b.gen /\ u.handle = b.handle
           /\ u.write = b.write /\ u.ready = b.ready /\ u.discon = b.discon
    BY DEF Unpend, ClientType
  <1>3. PICK u \in ClientType : u = Unpend(b, g)
    BY <1>1
  <1>4. \A x \in BOOLEAN : LET v == [u EXCEPT !.discon = x]
        IN /\ v \in ClientType
           /\ v.want = u.want /\ v.connecting = u.connecting /\ v.scanning = u.scanning
           /\ v.synced = u.synced /\ v.gen = u.gen /\ v.handle = u.handle
           /\ v.write = u.write /\ v.ready = u.ready /\ v.discon = x
    BY DEF ClientType
  <1>5. CASE /\ b.gen # g
             /\ c' = [u EXCEPT !.discon = @ /\ b.handle]
             /\ UNCHANGED <<link, faults>>
    <2>1. PICK x \in BOOLEAN : x = (u.discon /\ b.handle)
      OBVIOUS
    <2>2. c' = [u EXCEPT !.discon = x]
      BY <1>5, <2>1
    <2>3. x = b.discon \/ (~x /\ ~b.handle)
      <3>1. u.discon = b.discon /\ b.discon \in BOOLEAN /\ b.handle \in BOOLEAN
        BY <1>2, <1>3 DEF ClientType
      <3>2. QED
        BY <2>1, <3>1
    <2>4. QED
      BY <1>2, <1>3, <1>4, <1>5, <2>2, <2>3 DEF KeepsButTerm
  <1>6. CASE /\ b.gen = g /\ ~b.handle
             /\ c' = [u EXCEPT !.discon = FALSE]
             /\ UNCHANGED <<link, faults>>
    BY <1>2, <1>3, <1>4, <1>6 DEF KeepsButTerm
  <1>7. CASE /\ b.gen = g /\ b.handle /\ link.st = "up"
             /\ link' = [link EXCEPT !.st = "ending"]
             /\ c' = u
             /\ UNCHANGED faults
    <2>1. /\ link' \in LinkType /\ link'.st = "ending" /\ link'.gen = link.gen
          /\ link'.sub = link.sub /\ link'.rx = link.rx
      BY <1>7 DEF LinkType
    <2>2. QED
      BY <1>2, <1>3, <1>7, <2>1 DEF KeepsButTerm
  <1>8. CASE /\ b.gen = g /\ b.handle
             /\ IF link.st = "up" THEN Charge("terminate") ELSE UNCHANGED faults
             /\ c' = b
             /\ UNCHANGED link
    <2>1. faults' \in 0..MaxFaults
      BY <1>8, GenAssumption DEF Charge, CanFail
    <2>2. link' = link /\ c' = b
      BY <1>8
    <2>3. QED
      BY <2>1, <2>2 DEF KeepsButTerm
  <1>9. QED
    BY <1>3, <1>5, <1>6, <1>7, <1>8 DEF TerminateLocked

\* The steps of a task.
LEMMA TaskTyped ==
    ASSUME task \in [Tasks -> TaskType], NEW t \in Tasks, NEW r \in TaskType,
           task' = [task EXCEPT ![t] = r]
    PROVE  /\ task' \in [Tasks -> TaskType] /\ task'[t] = r
           /\ \A u \in Tasks : u # t => task'[u] = task[u]
  OBVIOUS

\* ... at a step it rests at,
LEMMA RestingTyped ==
    ASSUME NEW at \in Steps, 0 \in Gens
    PROVE  /\ Resting(at) \in TaskType
           /\ Resting(at).at = at /\ Resting(at).next = "idle" /\ Resting(at).back = "idle"
  BY DEF Resting, TaskType, Steps

\* ... at a step it comes back from,
LEMMA BackTyped ==
    ASSUME NEW at \in Steps, NEW back \in Steps, 0 \in Gens
    PROVE  LET r == [Resting(at) EXCEPT !.back = back]
           IN r \in TaskType /\ r.at = at /\ r.next = "idle" /\ r.back = back
  BY DEF Resting, TaskType, Steps

\* ... at the end of a critical section,
LEMMA NextTyped ==
    ASSUME NEW at \in Steps, NEW next \in Steps, 0 \in Gens
    PROVE  LET r == [Resting(at) EXCEPT !.next = next]
           IN r \in TaskType /\ r.at = at /\ r.next = next /\ r.back = "idle"
  BY DEF Resting, TaskType, Steps

\* ... and at the end of one that another follows.
LEMMA NextBackTyped ==
    ASSUME NEW at \in Steps, NEW next \in Steps, NEW back \in Steps, 0 \in Gens
    PROVE  LET r == [Resting(at) EXCEPT !.next = next, !.back = back]
           IN r \in TaskType /\ r.at = at /\ r.next = next /\ r.back = back
  <1>1. PICK q : q = Resting(at)
    OBVIOUS
  <1>2. q \in TaskType /\ q.at = at
    BY <1>1, RestingTyped
  <1>3. LET r == [q EXCEPT !.next = next, !.back = back]
        IN r \in TaskType /\ r.at = at /\ r.next = next /\ r.back = back
    BY <1>2 DEF TaskType
  <1>4. QED
    BY <1>1, <1>3

\* The link's record and its changes.
LEMMA LinkTyped ==
    ASSUME NEW l \in LinkType, NEW s \in {"none", "up", "ending", "down"}, NEW m,
           m = [l EXCEPT !.st = s]
    PROVE  m \in LinkType /\ m.st = s /\ m.gen = l.gen /\ m.sub = l.sub /\ m.rx = l.rx
  BY DEF LinkType

\* No link is a link record, too.
LEMMA NoLinkTyped ==
    /\ NoLink \in LinkType /\ NoLink.st = "none" /\ NoLink.gen = NoGen
    /\ NoLink.sub = FALSE /\ NoLink.rx = 0
  BY GenAssumption DEF NoLink, LinkType

\* A fault is charged as long as the bound leaves room for it.
LEMMA Charged ==
    ASSUME faults \in 0..MaxFaults, NEW kind, CanFail(kind)
    PROVE  faults + 1 \in 0..MaxFaults
  BY GenAssumption DEF CanFail

-----------------------------------------------------------------------------
\* The ranges of the counters.
Ranges ==
    /\ c \in ClientType /\ host \in HostType /\ task \in [Tasks -> TaskType]
    /\ link \in LinkType /\ ev \in EventType /\ gap \in GapType /\ faults \in 0..MaxFaults
    /\ c.gen \in Nat /\ c.gen \in Gens /\ c.gen <= MaxGen /\ MaxGen \in Nat
    /\ 0 \in Gens /\ (c.gen < MaxGen => c.gen + 1 \in Gens)
    /\ (c.gen + 2 <= MaxGen => c.gen + 2 \in Gens)
    /\ Odd(c.gen + 1) <=> ~Odd(c.gen)
    /\ Settled(c.gen) = (IF Odd(c.gen) THEN c.gen + 1 ELSE c.gen)
    /\ Settled(c.gen + 1) = (IF Odd(c.gen) THEN c.gen + 1 ELSE c.gen + 2)
    /\ app \in Int /\ -1 <= app /\ peers \in Int /\ -1 <= peers
    /\ ev.gen \in Int /\ -1 <= ev.gen /\ ev.i \in Nat
    /\ (ev.gen # NoGen => 0 <= ev.gen) /\ (peers # NoGen => 0 <= peers)
    /\ Latest \in Int /\ -1 <= Latest /\ Latest <= c.gen /\ c.gen <= Latest + 1
    /\ link.rx \in Nat
    /\ Len(queue) \in Nat /\ (queue # << >> => 1 \in 1 .. Len(queue))

\* The ranges of the numbers of a state that the proofs calculate with.
LEMMA Numbers ==
    ASSUME TypeOK
    PROVE  /\ Ranges
           /\ \A k \in 1 .. Len(queue) :
                 /\ queue[k] \in Cells /\ queue[k].gen \in Nat /\ queue[k].from \in Nat
                 /\ queue[k].to \in Nat /\ queue[k].at \in Nat
  <1>1. c.gen \in 0..MaxGen
    BY DEF TypeOK, ClientType, Gens
  <1>2. /\ app \in 0..MaxGen \cup {-1} /\ peers \in 0..MaxGen \cup {-1}
        /\ ev.gen \in 0..MaxGen \cup {-1} /\ ev.i \in 0..MaxRx /\ link.rx \in 0..MaxRx
    BY DEF TypeOK, EventType, LinkType, Gens, NoGen
  <1>3. queue \in Seq(Cells)
    BY DEF TypeOK
  <1>4. \A q \in Cells : q.gen \in Nat /\ q.from \in Nat /\ q.to \in Nat /\ q.at \in Nat
    BY GenAssumption DEF Cells, Gens
  <1>5. Latest = c.gen \/ Latest = c.gen - 1
    BY DEF Latest
  <1>6. /\ Odd(c.gen + 1) <=> ~Odd(c.gen)
        /\ Settled(c.gen) = (IF Odd(c.gen) THEN c.gen + 1 ELSE c.gen)
        /\ Settled(c.gen + 1) = (IF Odd(c.gen) THEN c.gen + 1 ELSE c.gen + 2)
    BY <1>1, Parity
  <1>7. /\ c.gen \in Nat /\ c.gen \in Gens /\ c.gen <= MaxGen /\ MaxGen \in Nat
        /\ 0 \in Gens /\ (c.gen < MaxGen => c.gen + 1 \in Gens)
        /\ (c.gen + 2 <= MaxGen => c.gen + 2 \in Gens)
    BY <1>1, GenAssumption DEF Gens
  <1>8. /\ app \in Int /\ -1 <= app /\ peers \in Int /\ -1 <= peers
        /\ ev.gen \in Int /\ -1 <= ev.gen /\ ev.i \in Nat
        /\ (ev.gen # NoGen => 0 <= ev.gen) /\ (peers # NoGen => 0 <= peers)
        /\ link.rx \in Nat
    BY <1>2, GenAssumption DEF NoGen
  <1>9. Latest \in Int /\ -1 <= Latest /\ Latest <= c.gen /\ c.gen <= Latest + 1
    BY <1>1, <1>5
  <1>10. /\ Len(queue) \in Nat /\ (queue # << >> => 1 \in 1 .. Len(queue))
         /\ \A k \in 1 .. Len(queue) : queue[k] \in Cells
    BY <1>3
  <1>11. Ranges
    BY <1>6, <1>7, <1>8, <1>9, <1>10 DEF Ranges, TypeOK
  <1>12. QED
    BY <1>4, <1>10, <1>11

\* What does not touch the queue keeps its order ...
LEMMA OrderStays ==
    ASSUME TypeOK, TypeOK', Slices, Order, queue' = queue, Latest <= Latest',
           app' \in {app, NoGen}, peers' \in {peers, NoGen}, ev' \in {ev, NoEvent}
    PROVE  Order'
  <1>1. \A k \in 1 .. Len(queue) : queue[k].gen \in Nat
    BY Numbers DEF Ranges
  <1>2. /\ Latest \in Int /\ Latest' \in Int /\ -1 <= Latest'
        /\ app \in Int /\ peers \in Int /\ ev.gen \in Int /\ -1 <= ev.gen
    <2>1. Latest' \in Int /\ -1 <= Latest'
      <3>1. c'.gen \in 0..MaxGen
        BY DEF TypeOK, ClientType, Gens
      <3>2. QED
        BY <3>1, GenAssumption DEF Latest
    <2>2. QED
      BY <2>1, Numbers DEF Ranges
  <1>3. Ordered(queue, Latest')
    <2>1. Ordered(queue, Latest) /\ Latest \in Int
      BY <1>2 DEF Order
    <2>2. \A k \in 1 .. Len(queue) : queue[k].gen <= Latest'
      BY <1>1, <1>2, <2>1 DEF Ordered
    <2>3. QED
      BY <2>1, <2>2 DEF Ordered
  <1>4. Precedes(NoGen, queue) /\ NoGen <= Latest'
    BY <1>1, <1>2 DEF Precedes, NoGen
  <1>5. ev.kind # "none" => NoGen < ev.gen
    BY <1>2 DEF Slices, NoGen
  <1>6. NoEvent.kind = "none" /\ NoEvent.gen = NoGen
    BY DEF NoEvent
  <1>7. app' <= Latest' /\ peers' <= Latest' /\ ev'.gen <= Latest'
    BY <1>2, <1>4, <1>6 DEF Order
  <1>8. Precedes(app', queue) /\ Precedes(ev'.gen, queue)
    BY <1>4, <1>6 DEF Order
  <1>9. ev'.kind = "LinkDown" => app' < ev'.gen
    BY <1>5, <1>6 DEF Order
  <1>10. QED
    BY <1>3, <1>7, <1>8, <1>9 DEF Order

\* ... and what touches neither the queue nor the framer nor the event keeps the stream, when
\* no generation opens and no notification comes.
LEMMA StreamStays ==
    ASSUME TypeOK, Order, Stream, queue' = queue, framer' = framer, ev' = ev,
           Open' => Open /\ link'.rx = link.rx,
           c'.gen = c.gen \/ (c'.gen = c.gen + 1 /\ ~Open')
    PROVE  Stream'
  <1>1. queue # << >> => queue[1].gen <= c.gen /\ queue[1].gen \in Nat
    BY Numbers DEF Ranges, Order, Ordered
  <1>2. c.gen \in Nat
    BY Numbers DEF Ranges
  <1>3. queue # << >> /\ queue[1].gen = c'.gen => c'.gen = c.gen
    BY <1>1, <1>2
  <1>4. ASSUME NEW g, NEW i, AheadOf(g, i)
        PROVE  /\ ev'.kind = "Rx" => ev'.gen = g /\ i = ev'.i + 1
               /\ ev'.kind = "none" => Continues(framer', g, i)
    BY <1>4 DEF AheadOf
  <1>5. FramerIsContiguous'
    BY DEF Stream, FramerIsContiguous
  <1>6. queue # << >> /\ queue[1].kind = "Rx" /\ queue[1].gen = c'.gen
            => /\ ev'.kind = "Rx" => ev'.gen = c'.gen /\ queue[1].at = ev'.i + 1
               /\ ev'.kind = "none" => Continues(framer', c'.gen, queue[1].at)
    BY <1>3, <1>4 DEF Stream
  <1>7. Open' => c'.gen = c.gen /\ Open /\ link'.rx = link.rx
    BY <1>2
  <1>8. Open' /\ queue = << >> =>
              /\ ev'.kind = "Rx" => ev'.gen = c'.gen /\ link'.rx + 1 = ev'.i + 1
              /\ ev'.kind = "none" => Continues(framer', c'.gen, link'.rx + 1)
    BY <1>4, <1>7 DEF Stream
  <1>9. Open' /\ queue # << >> =>
              /\ queue[Len(queue)].gen = c'.gen /\ queue[Len(queue)].kind \in {"LinkUp", "Rx"}
              /\ queue[Len(queue)].kind = "Rx" => queue[Len(queue)].to = link'.rx
    BY <1>7 DEF Stream
  <1>10. Joined(queue') /\ (ev'.kind = "Rx" => Continues(framer', ev'.gen, ev'.i))
    BY DEF Stream
  <1>11. QED
    BY <1>5, <1>6, <1>8, <1>9, <1>10 DEF Stream, AheadOf

\* An empty framer continues with any notification.
LEMMA StreamEmpty ==
    ASSUME Stream, queue' = queue, framer' = << >>, ev'.kind # "Rx",
           Open' => Open /\ c'.gen = c.gen /\ link'.rx = link.rx
    PROVE  Stream'
  <1>1. \A g, i : Continues(framer', g, i)
    BY DEF Continues
  <1>2. \A g, i : (ev'.kind = "Rx" => ev'.gen = g /\ i = ev'.i + 1)
                  /\ (ev'.kind = "none" => Continues(framer', g, i))
    BY <1>1
  <1>3. FramerIsContiguous'
    <2>1. Len(framer') = 0
      OBVIOUS
    <2>2. QED
      BY <2>1 DEF FramerIsContiguous
  <1>4. Joined(queue')
    BY DEF Stream
  <1>5. Open' /\ queue # << >> =>
              /\ queue[Len(queue)].gen = c'.gen /\ queue[Len(queue)].kind \in {"LinkUp", "Rx"}
              /\ queue[Len(queue)].kind = "Rx" => queue[Len(queue)].to = link'.rx
    BY DEF Stream
  <1>6. QED
    BY <1>2, <1>3, <1>4, <1>5 DEF Stream, AheadOf

\* A task goes on at another step.
LEMMA GoTyped ==
    ASSUME Ranges, NEW t \in Tasks, NEW at \in Steps, Go(t, at)
    PROVE  task' \in [Tasks -> TaskType]
  <1>1. PICK r : r = Resting(at)
    OBVIOUS
  <1>2. r \in TaskType /\ task \in [Tasks -> TaskType]
    BY <1>1, RestingTyped DEF Ranges
  <1>3. task' = [task EXCEPT ![t] = r]
    BY <1>1 DEF Go
  <1>4. QED
    BY <1>2, <1>3, TaskTyped

\* No event is an event record, too.
LEMMA NoEventTyped == NoEvent \in EventType
  BY GenAssumption DEF NoEvent, EventType, NoGen

\* The last generation of the queue grows with the published one, and a retirement starts
\* with a new one.
LEMMA LatestGrows ==
    ASSUME c.gen \in Nat, c'.gen \in Nat, c.gen <= c'.gen,
           Retiring' => Retiring \/ c.gen < c'.gen
    PROVE  Latest <= Latest'
  BY DEF Latest

\* A step of a task outside its critical sections leaves the mutex to its holder.
LEMMA LockStays ==
    ASSUME Locking, lock' = lock, host' = host, NEW t \in Tasks,
           \A u \in Tasks : u # t => task'[u] = task[u],
           task[t].at \notin {"release", "publish", "recheck"},
           task'[t].at \notin {"release", "publish", "recheck"},
           task'[t].next \in Returns, task'[t].back \in Returns
    PROVE  Locking'
  BY DEF Locking, Publishing, At, Tasks

-----------------------------------------------------------------------------
\* What the deferred queue keeps when a cell is added, grows, is read or is freed.
Good(q, last) == q \in Seq(Cells) /\ Sliced(q) /\ Ordered(q, last) /\ Joined(q)

\* The event e may follow the cells of q.
Follows(e, q) ==
    /\ \A k \in 1 .. Len(q) : q[k].gen <= e.gen /\ (e.kind = "LinkDown" => q[k].gen < e.gen)
    /\ e.kind = "Rx" /\ q # << >> =>
          /\ e.at = e.from
          /\ q[Len(q)].kind \in {"LinkUp", "Rx"} /\ q[Len(q)].gen = e.gen
          /\ q[Len(q)].kind = "Rx" => e.at = q[Len(q)].to + 1
    /\ ~Odd(e.gen)
    /\ e.kind = "Rx" => e.from \in 1 .. e.at /\ e.at <= e.to
    /\ e.kind # "Rx" => e.at = 0

\* The numbers of a queue's cells.
LEMMA CellNumbers ==
    ASSUME NEW q \in Seq(Cells)
    PROVE  /\ Len(q) \in Nat
           /\ \A k \in 1 .. Len(q) :
                 /\ q[k] \in Cells /\ q[k].gen \in Nat /\ q[k].from \in Nat
                 /\ q[k].to \in Nat /\ q[k].at \in Nat
                 /\ q[k].kind \in {"LinkUp", "LinkDown", "Rx"}
  <1>1. \A e \in Cells : /\ e.gen \in Nat /\ e.from \in Nat /\ e.to \in Nat /\ e.at \in Nat
                         /\ e.kind \in {"LinkUp", "LinkDown", "Rx"}
    BY GenAssumption DEF Cells, Gens
  <1>2. \A k \in 1 .. Len(q) : q[k] \in Cells
    OBVIOUS
  <1>3. QED
    BY <1>1, <1>2

\* What q is after e was added to it.
Added(q, e, r) ==
    /\ Good(r, e.gen) /\ Len(r) = Len(q) + 1 /\ r # << >> /\ r[Len(r)] = e
    /\ r[1] = IF q = << >> THEN e ELSE q[1]
    /\ \A g : Barred(g, q) \/ (e.kind = "LinkDown" /\ g < e.gen) => Barred(g, r)
    /\ \A g : Precedes(g, q) /\ (e.kind = "LinkDown" => g < e.gen) => Precedes(g, r)

\* A cell is added at the end (push()).
LEMMA AppendKeeps ==
    ASSUME NEW q \in Seq(Cells), NEW e \in Cells, NEW last, Good(q, last), Follows(e, q),
           NEW r, r = Append(q, e)
    PROVE  Added(q, e, r)
  <1>1. /\ r \in Seq(Cells) /\ Len(r) = Len(q) + 1 /\ r[Len(q) + 1] = e
        /\ \A k \in 1 .. Len(q) : r[k] = q[k]
    OBVIOUS
  <1>2. \A k \in 1 .. Len(r) : k \in 1 .. Len(q) \/ k = Len(q) + 1
    BY <1>1
  <1>3. /\ Len(q) \in Nat /\ e.gen \in Nat /\ e.at \in Nat
        /\ \A k \in 1 .. Len(q) : q[k].gen \in Nat /\ q[k].to \in Nat
    <2>1. e.gen \in Nat /\ e.at \in Nat
      BY GenAssumption DEF Cells, Gens
    <2>2. QED
      BY <2>1, CellNumbers
  <1>4. Sliced(r)
    BY <1>1, <1>2 DEF Good, Sliced, Follows
  <1>5. Ordered(r, e.gen)
    <2>1. \A k \in 1 .. Len(r) : r[k].gen <= e.gen
      BY <1>1, <1>2, <1>3 DEF Follows
    <2>2. ASSUME NEW j \in 1 .. Len(r), NEW k \in 1 .. Len(r), j < k
          PROVE  r[j].gen <= r[k].gen /\ (r[k].kind = "LinkDown" => r[j].gen < r[k].gen)
      <3>1. j \in 1 .. Len(q)
        BY <1>1, <1>3, <2>2
      <3>2. CASE k \in 1 .. Len(q)
        BY <1>1, <2>2, <3>1, <3>2 DEF Good, Ordered
      <3>3. CASE k = Len(q) + 1
        BY <1>1, <3>1, <3>3 DEF Follows
      <3>4. QED
        BY <1>2, <3>2, <3>3
    <2>3. QED
      BY <2>1, <2>2 DEF Ordered
  <1>6. Joined(r)
    <2>1. SUFFICES ASSUME NEW k \in 2 .. Len(r), r[k].kind = "Rx"
                   PROVE  /\ r[k].at = r[k].from
                          /\ r[k - 1].kind \in {"LinkUp", "Rx"} /\ r[k - 1].gen = r[k].gen
                          /\ r[k - 1].kind = "Rx" => r[k].at = r[k - 1].to + 1
      BY DEF Joined
    <2>2. CASE k \in 2 .. Len(q)
      <3>1. r[k] = q[k] /\ r[k - 1] = q[k - 1]
        BY <1>1, <1>3, <2>2
      <3>2. QED
        BY <2>1, <2>2, <3>1 DEF Good, Joined
    <2>3. CASE k = Len(q) + 1
      <3>1. r[k] = e /\ r[k - 1] = q[Len(q)] /\ q # << >>
        BY <1>1, <1>3, <2>3
      <3>2. QED
        BY <2>1, <3>1 DEF Follows
    <2>4. QED
      BY <1>1, <1>3, <2>2, <2>3
  <1>7. /\ \A g : Barred(g, q) \/ (e.kind = "LinkDown" /\ g < e.gen) => Barred(g, r)
        /\ \A g : Precedes(g, q) /\ (e.kind = "LinkDown" => g < e.gen) => Precedes(g, r)
    <2>1. Len(q) + 1 \in 1 .. Len(r) /\ \A k \in 1 .. Len(q) : k \in 1 .. Len(r)
      BY <1>1, <1>3
    <2>2. QED
      BY <1>1, <1>2, <2>1 DEF Barred, Precedes
  <1>8. r[1] = (IF q = << >> THEN e ELSE q[1])
    <2>1. q # << >> => 1 \in 1 .. Len(q)
      BY <1>3
    <2>2. QED
      BY <1>1, <2>1
  <1>9. QED
    BY <1>1, <1>4, <1>5, <1>6, <1>7, <1>8 DEF Good, Added

\* Two queues whose cells are of the same kinds and generations.
SameShape(q, r) ==
    /\ Len(r) = Len(q)
    /\ \A k \in 1 .. Len(q) : r[k].kind = q[k].kind /\ r[k].gen = q[k].gen

\* What only the kinds and generations of the cells decide.
LEMMA ShapeKeeps ==
    ASSUME NEW q, NEW r, SameShape(q, r)
    PROVE  /\ \A last : Ordered(q, last) => Ordered(r, last)
           /\ \A g : (Barred(g, q) <=> Barred(g, r)) /\ (Precedes(g, q) <=> Precedes(g, r))
  BY DEF SameShape, Ordered, Barred, Precedes

\* A notification joins the last cell.
LEMMA JoinKeeps ==
    ASSUME NEW q \in Seq(Cells), NEW last, Good(q, last), q # << >>, q[Len(q)].kind = "Rx",
           NEW i \in 0..MaxRx, q[Len(q)].to < i,
           NEW r, r = [q EXCEPT ![Len(q)].to = i]
    PROVE  /\ Good(r, last) /\ Len(r) = Len(q) /\ r # << >> /\ r[Len(r)].to = i
           /\ SameShape(q, r) /\ r[1].at = q[1].at
  <1>1. Len(q) \in Nat /\ Len(q) \in 1 .. Len(q) /\ q[Len(q)] \in Cells
    BY CellNumbers
  <1>2. PICK e : e = [q[Len(q)] EXCEPT !.to = i]
    OBVIOUS
  <1>3. /\ e \in Cells /\ e.kind = q[Len(q)].kind /\ e.gen = q[Len(q)].gen
        /\ e.from = q[Len(q)].from /\ e.at = q[Len(q)].at /\ e.to = i
    BY <1>1, <1>2 DEF Cells
  <1>4. r = [q EXCEPT ![Len(q)] = e]
    BY <1>1, <1>2
  <1>5. /\ r \in Seq(Cells) /\ Len(r) = Len(q) /\ r[Len(q)] = e
        /\ \A k \in 1 .. Len(q) : k # Len(q) => r[k] = q[k]
    BY <1>1, <1>3, <1>4
  <1>6. \A k \in 1 .. Len(q) : /\ r[k].kind = q[k].kind /\ r[k].gen = q[k].gen
                               /\ r[k].from = q[k].from /\ r[k].at = q[k].at
                               /\ q[k].to <= r[k].to
    <2>1. q[Len(q)].to <= i /\ \A k \in 1 .. Len(q) : q[k].to \in Nat
      BY CellNumbers, GenAssumption
    <2>2. QED
      BY <1>3, <1>5, <2>1
  <1>7. SameShape(q, r)
    BY <1>5, <1>6 DEF SameShape
  <1>8. Sliced(r)
    <2>1. \A k \in 1 .. Len(q) : /\ q[k].to \in Nat /\ r[k].to \in Nat /\ q[k].at \in Nat
                                 /\ q[k].from \in Nat
      BY <1>5, CellNumbers
    <2>2. QED
      BY <1>5, <1>6, <2>1 DEF Good, Sliced
  <1>9. Joined(r)
    <2>1. \A k \in 2 .. Len(q) : r[k - 1] = q[k - 1] /\ k \in 1 .. Len(q)
      BY <1>1, <1>5
    <2>2. QED
      BY <1>5, <1>6, <2>1 DEF Good, Joined
  <1>10. Ordered(r, last)
    BY <1>7, ShapeKeeps DEF Good
  <1>11. r # << >> /\ r[1].at = q[1].at
    BY <1>1, <1>5, <1>6
  <1>12. QED
    BY <1>3, <1>5, <1>7, <1>8, <1>9, <1>10, <1>11 DEF Good

\* A slice of the first cell is read.
LEMMA SliceKeeps ==
    ASSUME NEW q \in Seq(Cells), NEW last, Good(q, last), q # << >>, q[1].kind = "Rx",
           q[1].at < q[1].to, NEW r, r = [q EXCEPT ![1].at = @ + 1]
    PROVE  /\ Good(r, last) /\ Len(r) = Len(q) /\ r # << >> /\ SameShape(q, r)
           /\ r[1].at = q[1].at + 1 /\ r[Len(r)].to = q[Len(q)].to
  <1>1. /\ Len(q) \in Nat /\ 1 \in 1 .. Len(q) /\ q[1] \in Cells /\ q[1].at \in Nat
        /\ q[1].to \in 0..MaxRx /\ q[1].from \in Nat
    <2>1. Len(q) \in Nat /\ 1 \in 1 .. Len(q)
      BY CellNumbers
    <2>2. q[1] \in Cells
      BY <2>1
    <2>3. QED
      BY <2>1, <2>2, CellNumbers DEF Cells
  <1>2. PICK e : e = [q[1] EXCEPT !.at = q[1].at + 1]
    OBVIOUS
  <1>3. q[1].at + 1 \in 0..MaxRx + 1
    BY <1>1, GenAssumption
  <1>4. /\ e \in Cells /\ e.kind = q[1].kind /\ e.gen = q[1].gen /\ e.from = q[1].from
        /\ e.to = q[1].to /\ e.at = q[1].at + 1
    BY <1>1, <1>2, <1>3 DEF Cells
  <1>5. r = [q EXCEPT ![1] = e]
    BY <1>1, <1>2
  <1>6. /\ r \in Seq(Cells) /\ Len(r) = Len(q) /\ r[1] = e
        /\ \A k \in 1 .. Len(q) : k # 1 => r[k] = q[k]
    BY <1>1, <1>4, <1>5
  <1>7. \A k \in 1 .. Len(q) : /\ r[k].kind = q[k].kind /\ r[k].gen = q[k].gen
                               /\ r[k].from = q[k].from /\ r[k].to = q[k].to
    BY <1>4, <1>6
  <1>8. SameShape(q, r)
    BY <1>6, <1>7 DEF SameShape
  <1>9. Sliced(r)
    <2>1. q[1].from \in 1 .. q[1].at
      BY <1>1 DEF Good, Sliced
    <2>2. e.from \in 1 .. e.at /\ e.at <= e.to
      BY <1>1, <1>4, <2>1
    <2>3. ~Odd(e.gen) /\ e.kind = "Rx"
      BY <1>1, <1>4 DEF Good, Sliced
    <2>4. QED
      BY <1>6, <2>2, <2>3 DEF Good, Sliced
  <1>10. Joined(r)
    <2>1. \A k \in 2 .. Len(q) : r[k] = q[k] /\ k - 1 \in 1 .. Len(q)
      BY <1>1, <1>6
    <2>2. QED
      BY <1>6, <1>7, <2>1 DEF Good, Joined
  <1>11. Ordered(r, last)
    BY <1>8, ShapeKeeps DEF Good
  <1>12. r # << >> /\ r[Len(r)].to = q[Len(q)].to
    BY <1>1, <1>6, <1>7
  <1>13. QED
    BY <1>4, <1>6, <1>8, <1>9, <1>10, <1>11, <1>12 DEF Good

\* The first cell is freed.
LEMMA TailKeeps ==
    ASSUME NEW q \in Seq(Cells), NEW last, Good(q, last), q # << >>, NEW r, r = Tail(q)
    PROVE  /\ Good(r, last) /\ Len(r) + 1 = Len(q)
           /\ r # << >> => 2 \in 2 .. Len(q) /\ r[1] = q[2] /\ r[Len(r)] = q[Len(q)]
           /\ \A g : Precedes(g, q) => Precedes(g, r)
           /\ \A g : Barred(g, q) => Barred(g, r) \/ (q[1].kind = "LinkDown" /\ g < q[1].gen)
           /\ Precedes(q[1].gen, r)
  <1>1. Len(q) \in Nat /\ 1 \in 1 .. Len(q)
    BY CellNumbers
  <1>2. r \in Seq(Cells) /\ Len(r) = Len(q) - 1 /\ Len(r) \in Nat
    BY <1>1
  <1>3. \A k \in 1 .. Len(r) : r[k] = q[k + 1] /\ k + 1 \in 1 .. Len(q)
    BY <1>1, <1>2
  <1>4. Sliced(r)
    BY <1>3 DEF Good, Sliced
  <1>5. Ordered(r, last)
    BY <1>2, <1>3 DEF Good, Ordered
  <1>6. Joined(r)
    <2>1. \A k \in 2 .. Len(r) : /\ r[k] = q[k + 1] /\ r[k - 1] = q[k] /\ k + 1 \in 2 .. Len(q)
                                 /\ q[(k + 1) - 1] = q[k]
      BY <1>2, <1>3
    <2>2. QED
      BY <2>1 DEF Good, Joined
  <1>7. r # << >> => 2 \in 2 .. Len(q) /\ r[1] = q[2] /\ r[Len(r)] = q[Len(q)]
    BY <1>1, <1>2, <1>3
  <1>8. \A g : Precedes(g, q) => Precedes(g, r)
    BY <1>3 DEF Precedes
  <1>9. \A g : Barred(g, q) => Barred(g, r) \/ (q[1].kind = "LinkDown" /\ g < q[1].gen)
    <2>1. \A k \in 1 .. Len(q) : k = 1 \/ (k - 1 \in 1 .. Len(r) /\ r[k - 1] = q[k])
      BY <1>1, <1>2, <1>3
    <2>2. QED
      BY <2>1 DEF Barred
  <1>10. Precedes(q[1].gen, r)
    <2>1. \A k \in 1 .. Len(r) : 1 < k + 1
      BY <1>2
    <2>2. QED
      BY <1>1, <1>3, <2>1 DEF Precedes, Good, Ordered
  <1>11. QED
    BY <1>1, <1>2, <1>4, <1>5, <1>6, <1>7, <1>8, <1>9, <1>10 DEF Good

\* The cells of a queue are no newer than a later generation.
LEMMA GoodLater ==
    ASSUME NEW q, NEW a \in Int, NEW b \in Int, Good(q, a), a <= b
    PROVE  Good(q, b)
  BY CellNumbers DEF Good, Ordered

\* The queue of a state is in order, and so are the parts of the invariant about it.
LEMMA QueueIsGood ==
    ASSUME TypeOK, BleInv
    PROVE  Good(queue, Latest) /\ queue \in Seq(Cells) /\ Len(queue) <= Depth
  BY DEF TypeOK, BleInv, Slices, Order, Stream, Good

\* A good queue and a well-formed event are the first part of the invariant.
LEMMA QueueParts ==
    ASSUME Good(queue', Latest'), ev'.kind = "Rx" => ev'.i # 0,
           ev'.kind # "none" => ev'.gen # NoGen
    PROVE  Slices'
  BY DEF Good, Slices

\* A link event of generation g is queued, or the queue overflows.
LEMMA PushLinkKeeps ==
    ASSUME TypeOK, NEW kind \in {"LinkUp", "LinkDown"}, NEW g \in Gens, NEW last \in Int,
           Good(queue, last), last <= g, kind = "LinkDown" => last < g, ~Odd(g),
           PushLink(kind, g)
    PROVE  /\ queue' \in Seq(Cells) /\ Len(queue') <= Depth /\ overflow' \in BOOLEAN
           /\ Good(queue', g)
           /\ \/ Len(queue) < Depth /\ overflow' = overflow
              \/ Len(queue) >= Depth /\ queue' = queue /\ overflow' = TRUE
           /\ \A n : Precedes(n, queue) /\ (kind = "LinkDown" => n < g) => Precedes(n, queue')
           /\ \A n : Barred(n, queue) => Barred(n, queue')
           /\ kind = "LinkDown" => overflow' \/ \A n : n < g => Barred(n, queue')
           /\ queue' # << >> /\ queue'[1].kind = "Rx" => queue # << >> /\ queue'[1] = queue[1]
           /\ Len(queue) < Depth => /\ queue' # << >> /\ queue'[Len(queue')].gen = g
                                    /\ queue'[Len(queue')].kind = kind
  <1>1. PICK e : e = LinkCell(kind, g)
    OBVIOUS
  <1>2. /\ e \in Cells /\ e.kind = kind /\ e.gen = g /\ e.at = 0
    <2>1. e = [kind |-> kind, gen |-> g, from |-> 0, to |-> 0, at |-> 0]
      BY <1>1 DEF LinkCell
    <2>2. 0 \in 0..MaxRx /\ 0 \in 0..MaxRx + 1
      BY GenAssumption
    <2>3. QED
      BY <2>1, <2>2 DEF Cells
  <1>3. g \in Int /\ Len(queue) \in Nat /\ Depth \in Nat /\ queue \in Seq(Cells)
    BY GenAssumption, QueueAssumption DEF TypeOK, Gens
  <1>4. Follows(e, queue)
    <2>1. \A k \in 1 .. Len(queue) : queue[k].gen <= last /\ queue[k].gen \in Nat
      BY <1>3, CellNumbers DEF Good, Ordered
    <2>2. e.kind # "Rx"
      BY <1>2
    <2>3. QED
      BY <1>2, <1>3, <2>1, <2>2 DEF Follows
  <1>5. CASE Len(queue) < Depth /\ queue' = Append(queue, e) /\ overflow' = overflow
    <2>1. /\ Good(queue', e.gen) /\ Len(queue') = Len(queue) + 1 /\ queue' # << >>
          /\ queue'[Len(queue')] = e
          /\ queue'[1] = IF queue = << >> THEN e ELSE queue[1]
          /\ \A n : Barred(n, queue) \/ (e.kind = "LinkDown" /\ n < e.gen) => Barred(n, queue')
          /\ \A n : Precedes(n, queue) /\ (e.kind = "LinkDown" => n < e.gen) => Precedes(n, queue')
      <3>1. /\ queue \in Seq(Cells) /\ e \in Cells /\ Good(queue, last) /\ Follows(e, queue)
            /\ queue' = Append(queue, e)
        BY <1>2, <1>3, <1>4, <1>5
      <3>2. Added(queue, e, queue')
        BY <3>1, AppendKeeps
      <3>3. QED
        BY <3>2 DEF Added
    <2>2. queue' \in Seq(Cells) /\ Len(queue') <= Depth
      BY <1>3, <1>5, <2>1 DEF Good
    <2>3. queue'[1].kind = "Rx" => queue # << >> /\ queue'[1] = queue[1]
      BY <1>2, <2>1
    <2>4. overflow' \in BOOLEAN
      BY <1>5 DEF TypeOK
    <2>5. QED
      BY <1>2, <1>5, <2>1, <2>2, <2>3, <2>4
  <1>6. CASE Len(queue) >= Depth /\ queue' = queue /\ overflow' = TRUE
    <2>1. Good(queue', g)
      BY <1>3, <1>6, GoodLater
    <2>2. queue' \in Seq(Cells) /\ Len(queue') <= Depth /\ overflow' \in BOOLEAN
      BY <1>6 DEF TypeOK
    <2>3. ~(Len(queue) < Depth)
      BY <1>3, <1>6
    <2>4. QED
      BY <1>6, <2>1, <2>2, <2>3, Zenon
  <1>7. \/ Len(queue) < Depth /\ queue' = Append(queue, e) /\ overflow' = overflow
        \/ Len(queue) >= Depth /\ queue' = queue /\ overflow' = TRUE
    BY <1>1, <1>3 DEF PushLink
  <1>8. QED
    BY <1>5, <1>6, <1>7

-----------------------------------------------------------------------------
(* The callbacks of the NimBLE host and the controller.                     *)

\* The second half of a publication: the link is stable, and discovery starts or the link of a
\* canceled request is doomed (on_gap_event(), CONNECT).
LEMMA HostPublishedKeeps ==
    ASSUME TypeOK, Ranges, BleInv, HostPublished
    PROVE  TypeOK' /\ BleInv'
  <1>1. host.at = "publish" /\ lock' = "free" /\ c.gen + 1 \in Gens /\ c.handle
    BY DEF HostPublished, BleInv, Generations, Ranges
  <1>2. PICK b : b = [c EXCEPT !.gen = @ + 1]
    OBVIOUS
  <1>3. /\ b \in ClientType /\ b.want = c.want /\ b.connecting = c.connecting
        /\ b.scanning = c.scanning /\ b.synced = c.synced /\ b.gen = c.gen + 1
        /\ b.handle = c.handle /\ b.write = c.write /\ b.ready = c.ready
        /\ b.discon = c.discon /\ b.term = c.term
    BY <1>1, <1>2 DEF Ranges, ClientType
  <1>4. PICK d : d = Closed(b)
    OBVIOUS
  <1>5. /\ d \in ClientType /\ ~d.want /\ ~d.connecting /\ d.scanning = c.scanning
        /\ d.synced = c.synced /\ d.gen = c.gen + 1 /\ d.handle = c.handle /\ d.write = c.write
        /\ d.ready = NoGen /\ d.discon /\ d.term = c.term
    BY <1>3, <1>4 DEF ClientType, Closed
  <1>6. PICK e : e = [b EXCEPT !.discon = TRUE, !.ready = NoGen]
    OBVIOUS
  <1>7. /\ e \in ClientType /\ e.want = c.want /\ e.connecting = c.connecting
        /\ e.scanning = c.scanning /\ e.synced = c.synced /\ e.gen = c.gen + 1
        /\ e.handle = c.handle /\ e.write = c.write /\ e.ready = NoGen /\ e.discon
        /\ e.term = c.term
    BY <1>3, <1>6 DEF ClientType
  <1>8. \/ /\ c.want /\ c' = b /\ host' = [at |-> "idle", gen |-> 0, again |-> FALSE]
           /\ proc' = proc \cup {[gen |-> b.gen, stage |-> "discover"]} /\ UNCHANGED faults
        \/ /\ c' = d /\ host' = [at |-> "terminate", gen |-> b.gen, again |-> FALSE]
           /\ Charge("gatt") /\ UNCHANGED proc
        \/ /\ ~c.want /\ c' = e /\ host' = [at |-> "terminate", gen |-> b.gen, again |-> FALSE]
           /\ UNCHANGED <<proc, faults>>
    BY <1>2, <1>4, <1>6 DEF HostPublished, HostGoes
  <1>9. faults' \in 0..MaxFaults
    BY <1>8, Charged DEF Charge, Ranges
  <1>10. /\ c' \in {b, d, e} /\ c' \in ClientType /\ host' \in HostType
         /\ host'.at \in {"idle", "terminate"}
         /\ proc' \subseteq [gen : Gens, stage : {"discover", "subscribe"}]
    <2>1. b.gen \in Gens /\ 0 \in Gens
      BY <1>1, <1>3 DEF Ranges
    <2>2. /\ [at |-> "idle", gen |-> 0, again |-> FALSE] \in HostType
          /\ [at |-> "terminate", gen |-> b.gen, again |-> FALSE] \in HostType
      BY <2>1 DEF HostType
    <2>3. /\ [at |-> "idle", gen |-> 0, again |-> FALSE].at = "idle"
          /\ [at |-> "terminate", gen |-> b.gen, again |-> FALSE].at = "terminate"
      OBVIOUS
    <2>4. host' \in HostType /\ host'.at \in {"idle", "terminate"}
      BY <1>8, <2>2, <2>3
    <2>5. proc' \subseteq [gen : Gens, stage : {"discover", "subscribe"}]
      BY <1>8, <2>1 DEF TypeOK
    <2>6. QED
      BY <1>3, <1>5, <1>7, <1>8, <2>4, <2>5
  <1>11. UNCHANGED <<task, timer, gap, link, queue, overflow, ev, app, peers, framer, fault,
                     intent>>
    BY DEF HostPublished, mailbox, vehicle
  <1>12. /\ c'.gen = c.gen + 1 /\ c'.handle /\ c'.scanning = c.scanning
         /\ c'.ready \in {c.ready, NoGen} /\ (c'.want => c.want)
    BY <1>1, <1>3, <1>5, <1>7, <1>10
  <1>13. TypeOK'
    <2>1. faults' \in 0..MaxFaults
      BY <1>9
    <2>2. QED
      BY <2>1, <1>1, <1>9, <1>10, <1>11, <1>12 DEF TypeOK
  <1>14. Slices'
    BY <1>11 DEF Slices, BleInv
  <1>15. Locking'
    BY <1>1, <1>10, <1>11 DEF Locking, Publishing, BleInv, At, Tasks
  <1>16. Generations'
    <2>1. Odd(c.gen) /\ c.gen + 3 <= MaxGen
      BY <1>1 DEF BleInv, Generations
    <2>2. ~Odd(c.gen + 1) /\ c.gen + 1 + 2 <= MaxGen
      BY <2>1 DEF Ranges
    <2>3. QED
      BY <1>10, <1>12, <2>2 DEF Generations
  <1>17. Radio'
    <2>1. Settled(c.gen + 1) = Settled(c.gen)
      BY <1>1 DEF BleInv, Generations, Ranges
    <2>2. UNCHANGED <<gap, link>> /\ host'.at # "publish"
      BY <1>10, <1>11
    <2>3. QED
      BY <1>1, <1>12, <2>1, <2>2 DEF BleInv, Radio, ScanStateIsTrue
  <1>18. Places'
    BY <1>11, <1>12 DEF Places, BleInv, At
  <1>19. Wanted'
    <2>1. ~Publishing /\ ~HasGapLink(c)
      BY <1>1 DEF BleInv, Generations, Locking, Tasks, HasGapLink
    <2>2. c.ready = NoGen
      BY <2>1 DEF BleInv, Wanted, Publishing, At
    <2>3. c'.ready = NoGen /\ (c'.want => intent')
      BY <1>11, <1>12, <2>2 DEF BleInv, Wanted
    <2>4. ~Publishing'
      BY <1>11, <2>1 DEF Publishing
    <2>5. QED
      BY <2>3, <2>4 DEF Wanted
  <1>20. Order'
    <2>1. Latest <= Latest'
      <3>1. c'.gen = c.gen + 1 /\ c.gen \in Nat
        BY <1>3, <1>5, <1>7, <1>10 DEF Ranges
      <3>2. ~Retiring'
        BY <1>10 DEF Retiring
      <3>3. QED
        BY <3>1, <3>2, LatestGrows
    <2>2. queue' = queue /\ app' \in {app, NoGen} /\ peers' \in {peers, NoGen}
          /\ ev' \in {ev, NoEvent}
      BY <1>11
    <2>3. QED
      BY <1>13, <2>1, <2>2, OrderStays DEF BleInv
  <1>21. Barrier'
    <2>1. Odd(c.gen) /\ ~Retiring
      BY <1>1 DEF BleInv, Generations, Retiring
    <2>2. UNCHANGED <<task, queue, overflow, ev, peers>>
      BY <1>11
    <2>3. peers # NoGen => peers # c.gen
      BY <2>1 DEF BleInv, Barrier
    <2>4. QED
      BY <1>12, <2>1, <2>2, <2>3 DEF BleInv, Barrier, At
  <1>22. Stream'
    <2>1. ~link.sub /\ link' = link
      BY <1>1, <1>11 DEF BleInv, Radio
    <2>2. c'.gen = c.gen + 1 /\ ~Open'
      BY <1>3, <1>5, <1>7, <1>10, <2>1 DEF Open
    <2>3. queue' = queue /\ framer' = framer /\ ev' = ev
      BY <1>11
    <2>4. QED
      BY <2>2, <2>3, StreamStays DEF BleInv
  <1>23. QED
    BY <1>13, <1>14, <1>15, <1>16, <1>17, <1>18, <1>19, <1>20, <1>21, <1>22 DEF BleInv

\* terminate_published_link_() at the end of a callback: the link stays published until the
\* controller reports its end.
LEMMA HostTerminateKeeps ==
    ASSUME TypeOK, Ranges, BleInv, HostTerminate
    PROVE  TypeOK' /\ BleInv'
  <1>1. /\ host.at = "terminate" /\ host.gen \in Gens /\ host'.at = "idle" /\ host' \in HostType
    BY DEF HostTerminate, HostGoes, HostType, Ranges
  <1>2. PICK b : b = [c EXCEPT !.term = host.gen]
    OBVIOUS
  <1>3. /\ b \in ClientType
        /\ b.want = c.want /\ b.connecting = c.connecting /\ b.scanning = c.scanning
        /\ b.synced = c.synced /\ b.gen = c.gen /\ b.handle = c.handle /\ b.write = c.write
        /\ b.ready = c.ready /\ b.discon = c.discon
    BY <1>1, <1>2 DEF Ranges, ClientType
  <1>4. \/ c' \in {c, b} /\ UNCHANGED <<link, faults>>
        \/ TerminateLocked(b, host.gen)
    BY <1>2 DEF HostTerminate
  <1>5. /\ c' = c \/ KeepsButTerm(b)
        /\ c' \in ClientType /\ link' \in LinkType /\ faults' \in 0..MaxFaults
        /\ \/ link' = link
           \/ /\ c.gen = host.gen /\ c.handle /\ link.st = "up"
              /\ link'.st = "ending" /\ link'.gen = link.gen /\ link'.sub = link.sub
              /\ link'.rx = link.rx
    <2>1. CASE c' \in {c, b} /\ UNCHANGED <<link, faults>>
      BY <1>3, <2>1 DEF KeepsButTerm, TypeOK
    <2>2. CASE TerminateLocked(b, host.gen)
      BY <1>1, <1>3, <2>2, TerminateMoves DEF TypeOK
    <2>3. QED
      BY <1>4, <2>1, <2>2
  <1>6. /\ c'.want = c.want /\ c'.connecting = c.connecting /\ c'.scanning = c.scanning
        /\ c'.synced = c.synced /\ c'.gen = c.gen /\ c'.handle = c.handle
        /\ c'.write = c.write /\ c'.ready = c.ready
        /\ c'.discon = c.discon \/ (~c'.discon /\ ~c.handle)
    BY <1>3, <1>5 DEF KeepsButTerm
  <1>7. /\ link'.st = "none" <=> link.st = "none"
        /\ link'.gen = link.gen /\ link'.sub = link.sub /\ link'.rx = link.rx
    BY <1>5
  <1>8. UNCHANGED <<lock, task, timer, gap, proc, queue, overflow, ev, app, peers, framer,
                    fault, intent>>
    BY DEF HostTerminate, mailbox, vehicle
  <1>9. TypeOK'
    <2>1. QED
      BY <1>1, <1>2, <1>3, <1>4, <1>5, <1>6, <1>7, <1>8 DEF TypeOK
  <1>10. Slices'
    BY <1>8 DEF Slices, BleInv
  <1>11. Locking'
    BY <1>1, <1>8 DEF Locking, Publishing, BleInv, At
  <1>12. Generations'
    <2>1. host.at = "terminate" /\ host'.at = "idle"
      BY <1>1
    <2>2. QED
      BY <1>6, <1>7, <2>1 DEF BleInv, Generations
  <1>13. Radio'
    <2>1. host'.at = "idle"
      BY <1>1
    <2>2. QED
      BY <1>6, <1>7, <1>8, <2>1 DEF BleInv, Radio, ScanStateIsTrue
  <1>14. Places'
    BY <1>8 DEF Places, BleInv, At
  <1>15. Wanted'
    BY <1>6, <1>8 DEF Wanted, Publishing, HasGapLink, BleInv, At
  <1>16. Order'
    <2>1. Latest <= Latest'
      <3>1. c'.gen = c.gen /\ c.gen \in Nat
        BY <1>6 DEF Ranges
      <3>2. ~Retiring'
        BY <1>1 DEF Retiring
      <3>3. QED
        BY <3>1, <3>2, LatestGrows
    <2>2. queue' = queue /\ app' \in {app, NoGen} /\ peers' \in {peers, NoGen}
          /\ ev' \in {ev, NoEvent}
      BY <1>8
    <2>3. QED
      BY <1>9, <2>1, <2>2, OrderStays DEF BleInv
  <1>17. Barrier'
    BY <1>1, <1>6, <1>8 DEF Barrier, Retiring, BleInv, At
  <1>18. Stream'
    <2>1. Open' => Open /\ link'.rx = link.rx
      BY <1>6, <1>7 DEF Open, SnapshotMatches
    <2>2. queue' = queue /\ framer' = framer /\ ev' = ev /\ c'.gen = c.gen
      BY <1>6, <1>8
    <2>3. QED
      BY <2>1, <2>2, StreamStays DEF BleInv
  <1>19. QED
    BY <1>9, <1>10, <1>11, <1>12, <1>13, <1>14, <1>15, <1>16, <1>17, <1>18 DEF BleInv

\* The second half of a retirement: the generation is stable again, without a handle
\* (on_gap_event(), DISCONNECT; on_reset()).
LEMMA HostRetiredKeeps ==
    ASSUME TypeOK, Ranges, BleInv, HostRetired
    PROVE  TypeOK' /\ BleInv'
  <1>1. host.at = "retire" /\ c.gen + 1 \in Gens /\ c.gen + 1 <= MaxGen /\ ~c.handle
        /\ link.st = "none"
    BY DEF HostRetired, BleInv, Generations, Ranges
  <1>2. /\ c'.want = c.want /\ c'.connecting = c.connecting /\ c'.scanning = c.scanning
        /\ c'.synced = c.synced /\ c'.gen = c.gen + 1 /\ c'.handle = c.handle
        /\ c'.write = c.write /\ c'.ready = c.ready /\ c'.discon = FALSE /\ c'.term = c.term
        /\ host'.at = "linkDown"
    BY DEF HostRetired, HostGoes
  <1>3. c' \in ClientType /\ host' \in HostType
    BY <1>1 DEF HostRetired, HostGoes, HostType, Ranges, ClientType
  <1>4. /\ lock' = (IF lock = "host" THEN "free" ELSE lock)
        /\ UNCHANGED <<task, timer, gap, link, proc, queue, overflow, ev, app, peers, framer,
                       fault, intent, faults>>
    BY DEF HostRetired, radio, mailbox, vehicle
  <1>5. TypeOK'
    <2>1. QED
      BY <1>3, <1>4 DEF TypeOK
  <1>6. Slices'
    BY <1>4 DEF Slices, BleInv
  <1>7. Locking'
    BY <1>2, <1>4 DEF Locking, Publishing, BleInv, At, Tasks
  <1>8. Generations'
    BY <1>1, <1>2, <1>3, <1>4 DEF Generations, BleInv, Ranges
  <1>9. Radio'
    BY <1>1, <1>2, <1>3, <1>4 DEF Radio, ScanStateIsTrue, BleInv
  <1>10. Places'
    BY <1>4 DEF Places, BleInv, At
  <1>11. Wanted'
    BY <1>1, <1>2, <1>4 DEF Wanted, Publishing, HasGapLink, BleInv, At
  <1>12. Order'
    <2>1. Latest <= Latest'
      BY <1>2, <1>4 DEF Ranges, Latest, Retiring
    <2>2. queue' = queue /\ app' \in {app, NoGen} /\ peers' \in {peers, NoGen}
          /\ ev' \in {ev, NoEvent}
      BY <1>4
    <2>3. QED
      BY <1>5, <2>1, <2>2, OrderStays DEF BleInv
  <1>13. Barrier'
    BY <1>2, <1>4 DEF Order, Retiring, Barrier, BleInv, Ranges, At
  <1>14. Stream'
    <2>1. Open' => Open /\ link'.rx = link.rx
      BY <1>1, <1>2, <1>3 DEF Open, SnapshotMatches
    <2>2. c'.gen = c.gen \/ (c'.gen = c.gen + 1 /\ ~Open')
      BY <1>1, <1>2 DEF Open, SnapshotMatches
    <2>3. QED
      BY <1>4, <2>1, <2>2, StreamStays DEF BleInv
  <1>15. QED
    BY <1>5, <1>6, <1>7, <1>8, <1>9, <1>10, <1>11, <1>12, <1>13, <1>14 DEF BleInv

\* The end of a retirement: its LinkDown is queued behind everything of the link that went, or
\* the queue overflows (push_link()).
LEMMA HostLinkDownKeeps ==
    ASSUME TypeOK, Ranges, BleInv, HostLinkDown
    PROVE  TypeOK' /\ BleInv'
  <1>1. /\ host.at = "linkDown" /\ PushLink("LinkDown", c.gen) /\ HostGoes("idle", 0, FALSE)
        /\ UNCHANGED <<lock, task, timer, link, proc, ev, app, peers, framer, fault, intent>>
    BY DEF HostLinkDown, vehicle
  <1>2. /\ c' \in ClientType /\ gap' \in GapType /\ faults' \in 0..MaxFaults
        /\ c'.want = c.want /\ c'.connecting = c.connecting
        /\ c'.gen = c.gen /\ c'.handle = c.handle /\ c'.ready = c.ready /\ c'.discon = c.discon
        /\ c'.scanning <=> gap' = "scan"
        /\ gap' # gap =>
              \/ gap' = "idle"
              \/ gap' = "scan" /\ lock = "free" /\ ~c.connecting
    <2>1. c \in ClientType /\ gap \in GapType /\ faults \in 0..MaxFaults /\ host.again \in BOOLEAN
      BY DEF Ranges, HostType
    <2>2. ScanMoves(c, gap)
      BY <2>1, TryMoves DEF HostLinkDown
    <2>3. QED
      BY <2>2 DEF ScanMoves, SameButScan, Quiet, BleInv, Radio, ScanStateIsTrue
  <1>3. /\ ~c.handle /\ link.st = "none" /\ ~Odd(c.gen) /\ Retiring
    BY <1>1 DEF BleInv, Generations, Retiring
  <1>4. host' \in HostType /\ host'.at = "idle"
    BY <1>1 DEF HostGoes, HostType, Ranges
  <1>5. /\ Latest = c.gen - 1 /\ Latest' = c.gen /\ ~Retiring' /\ c.gen \in Nat /\ c.gen \in Gens
        /\ app \in Int /\ peers \in Int /\ ev.gen \in Int
    BY <1>1, <1>2, <1>3, <1>4 DEF Latest, Retiring, Ranges
  <1>6. /\ queue' \in Seq(Cells) /\ Len(queue') <= Depth /\ overflow' \in BOOLEAN
        /\ Good(queue', c.gen)
        /\ \/ overflow' = overflow
           \/ overflow' = TRUE
        /\ \A n : Precedes(n, queue) /\ n < c.gen => Precedes(n, queue')
        /\ overflow' \/ \A n : n < c.gen => Barred(n, queue')
        /\ queue' # << >> /\ queue'[1].kind = "Rx" => queue # << >> /\ queue'[1] = queue[1]
    <2>1. Good(queue, c.gen - 1)
      BY <1>5, QueueIsGood
    <2>2. c.gen - 1 \in Int /\ c.gen - 1 < c.gen /\ c.gen - 1 <= c.gen
      BY <1>5
    <2>3. QED
      BY <1>1, <1>3, <1>5, <2>1, <2>2, PushLinkKeeps
  <1>7. TypeOK'
    BY <1>1, <1>2, <1>4, <1>6 DEF TypeOK
  <1>8. Slices'
    BY <1>1, <1>5, <1>6, QueueParts DEF BleInv, Slices
  <1>9. Locking'
    BY <1>1, <1>4 DEF BleInv, Locking, Publishing, At
  <1>10. Generations'
    BY <1>1, <1>2, <1>3, <1>4 DEF BleInv, Generations
  <1>11. Radio'
    BY <1>1, <1>2, <1>3, <1>4 DEF BleInv, Radio, ScanStateIsTrue
  <1>12. Places'
    BY <1>1 DEF BleInv, Places, At
  <1>13. Wanted'
    BY <1>1, <1>2 DEF BleInv, Wanted, Publishing, At, HasGapLink
  <1>14. Order'
    <2>1. app < c.gen /\ ev.gen < c.gen /\ peers < c.gen
      BY <1>5 DEF BleInv, Order
    <2>2. Ordered(queue', Latest')
      BY <1>5, <1>6 DEF Good
    <2>3. Precedes(app, queue') /\ Precedes(ev.gen, queue')
      BY <1>6, <2>1 DEF BleInv, Order
    <2>4. app <= Latest' /\ ev.gen <= Latest' /\ peers <= Latest'
      BY <1>5, <2>1
    <2>5. QED
      BY <1>1, <2>2, <2>3, <2>4 DEF BleInv, Order
  <1>15. Barrier'
    <2>1. peers < c.gen
      BY <1>5 DEF BleInv, Order
    <2>2. overflow' \/ Barred(peers, queue')
      BY <1>6, <2>1
    <2>3. peers' = peers /\ c'.gen = c.gen /\ peers # c.gen
      BY <1>1, <1>2, <1>5, <2>1
    <2>4. QED
      BY <2>2, <2>3 DEF BleInv, Barrier
  <1>16. Stream'
    <2>1. ~Open'
      BY <1>2, <1>3 DEF Open, SnapshotMatches
    <2>2. Joined(queue')
      BY <1>6 DEF Good
    <2>3. queue' # << >> /\ queue'[1].kind = "Rx" /\ queue'[1].gen = c.gen
             => AheadOf(c.gen, queue'[1].at)
      BY <1>6 DEF BleInv, Stream
    <2>4. \A g, i : AheadOf(g, i) => AheadOf(g, i)'
      BY <1>1 DEF AheadOf
    <2>5. QED
      BY <1>1, <1>2, <2>1, <2>2, <2>3, <2>4 DEF BleInv, Stream, FramerIsContiguous
  <1>17. QED
    BY <1>7, <1>8, <1>9, <1>10, <1>11, <1>12, <1>13, <1>14, <1>15, <1>16 DEF BleInv

\* on_sync(): a scan starts when a link is wanted and the mutex is free, and is left to
\* vehicle_loop otherwise.
LEMMA HostSyncKeeps ==
    ASSUME TypeOK, Ranges, BleInv, HostSync
    PROVE  TypeOK' /\ BleInv'
  <1>1. PICK b : b = [c EXCEPT !.synced = TRUE]
    OBVIOUS
  <1>2. /\ b \in ClientType /\ b.scanning = c.scanning
        /\ b.want = c.want /\ b.connecting = c.connecting /\ b.synced = TRUE
        /\ b.gen = c.gen /\ b.handle = c.handle /\ b.write = c.write
        /\ b.ready = c.ready /\ b.discon = c.discon /\ b.term = c.term
    BY <1>1 DEF Ranges, ClientType
  <1>3. Take(TryEnsureScanning(c.want, b, gap))
    BY <1>1 DEF HostSync
  <1>4. gap \in GapType /\ faults \in 0..MaxFaults /\ "idle" \in GapType /\ c.want \in BOOLEAN
    BY DEF Ranges, GapType, ClientType
  <1>5. ScanMoves(b, gap)
    BY <1>2, <1>3, <1>4, TryMoves
  <1>6. /\ c' \in ClientType /\ gap' \in GapType /\ faults' \in 0..MaxFaults
        /\ c'.want = c.want /\ c'.connecting = c.connecting /\ c'.synced = TRUE
        /\ c'.gen = c.gen /\ c'.handle = c.handle /\ c'.write = c.write
        /\ c'.ready = c.ready /\ c'.discon = c.discon /\ c'.term = c.term
        /\ c'.scanning <=> gap' = "scan"
        /\ gap' # gap =>
              \/ gap' = "idle"
              \/ gap' = "scan" /\ lock = "free" /\ ~c.discon /\ ~c.connecting
                 /\ (Odd(c.gen) \/ ~c.handle)
    BY <1>2, <1>5 DEF ScanMoves, SameButScan, Quiet, HasGapLink, BleInv, Radio,
       ScanStateIsTrue
  <1>7. HostIdle
        /\ UNCHANGED <<lock, host, task, timer, link, proc, queue, overflow, ev, app, peers,
                               framer, fault, intent>>
    BY DEF HostSync, host_vars, mailbox, vehicle
  <1>8. TypeOK'
    <2>1. QED
      BY <1>6, <1>7 DEF TypeOK
  <1>9. Slices'
    BY <1>7 DEF Slices, BleInv
  <1>10. Locking'
    BY <1>7 DEF Locking, Publishing, BleInv, At
  <1>11. Generations'
    BY <1>6, <1>7 DEF Generations, BleInv
  <1>12. Radio'
    BY <1>6, <1>7 DEF Radio, ScanStateIsTrue, Locking, Generations, BleInv
  <1>13. Places'
    BY <1>7 DEF Places, BleInv, At
  <1>14. Wanted'
    BY <1>6, <1>7 DEF Wanted, Publishing, HasGapLink, BleInv, At
  <1>15. Order'
    <2>1. Latest <= Latest'
      BY <1>6, <1>7 DEF Ranges, Latest, Retiring
    <2>2. queue' = queue /\ app' \in {app, NoGen} /\ peers' \in {peers, NoGen}
          /\ ev' \in {ev, NoEvent}
      BY <1>7
    <2>3. QED
      BY <1>8, <2>1, <2>2, OrderStays DEF BleInv
  <1>16. Barrier'
    BY <1>6, <1>7 DEF Barrier, Retiring, BleInv, At
  <1>17. Stream'
    <2>1. Open' => Open /\ link'.rx = link.rx
      BY <1>6, <1>7 DEF Open, SnapshotMatches
    <2>2. c'.gen = c.gen \/ (c'.gen = c.gen + 1 /\ ~Open')
      BY <1>6
    <2>3. QED
      BY <1>7, <2>1, <2>2, StreamStays DEF BleInv
  <1>18. QED
    BY <1>8, <1>9, <1>10, <1>11, <1>12, <1>13, <1>14, <1>15, <1>16, <1>17 DEF BleInv

\* The advertisement of the configured vehicle: the scan ends before the attempt starts, and an
\* attempt that failed leaves the radio to the scan (on_gap_event(), DISC).
LEMMA HostAdvertKeeps ==
    ASSUME TypeOK, Ranges, BleInv, HostAdvert
    PROVE  TypeOK' /\ BleInv'
  <1>1. gap = "scan" /\ c.scanning /\ c.want /\ ~c.connecting /\ lock = "free" /\ HostIdle
    BY DEF HostAdvert, BleInv, Radio, ScanStateIsTrue
  <1>2. PICK b : b = [c EXCEPT !.connecting = TRUE]
    OBVIOUS
  <1>3. /\ b \in ClientType /\ b.scanning /\ b.connecting
        /\ b.want = c.want /\ b.synced = c.synced /\ b.gen = c.gen
        /\ b.handle = c.handle /\ b.write = c.write /\ b.ready = c.ready
        /\ b.discon = c.discon /\ b.term = c.term
    BY <1>1, <1>2 DEF Ranges, ClientType
  <1>4. PICK s \in CancelScan(b, gap) :
            \/ /\ s.gap = "scan"
               /\ c' = [s.c EXCEPT !.connecting = FALSE]
               /\ gap' = gap /\ faults' = faults + s.cost
            \/ /\ s.gap = "idle"
               /\ gap' = "connect" /\ c' = s.c /\ UNCHANGED faults
            \/ /\ s.gap = "idle" /\ CanFail("connect")
               /\ \E o \in EnsureScanning([s.c EXCEPT !.ready = NoGen, !.connecting = FALSE],
                                          s.gap) :
                    /\ c' = o.c /\ gap' = o.gap
                    /\ faults' = faults + 1 + o.cost
                    /\ faults' <= MaxFaults
    BY <1>2 DEF HostAdvert
  <1>5. \/ s = Outcome([b EXCEPT !.scanning = FALSE], "idle", 0)
        \/ s = Outcome(b, "scan", 1) /\ CanFail("cancel")
    BY <1>1, <1>3 DEF CancelScan
  <1>6. PICK d : d = [b EXCEPT !.scanning = FALSE]
    OBVIOUS
  <1>7. \/ s.c = d /\ s.gap = "idle"
        \/ s.c = b /\ s.gap = "scan" /\ s.cost = 1 /\ CanFail("cancel")
    <2>1. \/ s = Outcome(d, "idle", 0)
          \/ s = Outcome(b, "scan", 1) /\ CanFail("cancel")
      BY <1>5, <1>6
    <2>2. QED
      BY <2>1 DEF Outcome
  <1>8. /\ d \in ClientType /\ ~d.scanning /\ d.connecting
        /\ d.want = c.want /\ d.synced = c.synced /\ d.gen = c.gen
        /\ d.handle = c.handle /\ d.write = c.write /\ d.ready = c.ready
        /\ d.discon = c.discon /\ d.term = c.term
    BY <1>3, <1>6 DEF ClientType
  <1>9. Advertised
    <2>1. CASE s.gap = "scan"
      <3>1. c' = [b EXCEPT !.connecting = FALSE] /\ gap' = "scan" /\ faults' = faults + 1
        BY <1>1, <1>4, <1>7, <2>1
      <3>2. /\ c' \in ClientType /\ c'.scanning
            /\ c'.want = c.want /\ c'.synced = c.synced /\ c'.gen = c.gen
            /\ c'.handle = c.handle /\ c'.write = c.write /\ c'.ready = c.ready
            /\ c'.discon = c.discon /\ c'.term = c.term
        BY <1>3, <3>1 DEF ClientType
      <3>3. faults' \in 0..MaxFaults
        <4>1. CanFail("cancel")
          BY <1>7, <2>1
        <4>2. QED
          BY <3>1, <4>1, Charged DEF Ranges
      <3>4. QED
        BY <1>1, <3>1, <3>2, <3>3 DEF Advertised, GapType
    <2>2. CASE s.gap = "idle" /\ gap' = "connect" /\ c' = s.c /\ UNCHANGED faults
      <3>1. c' = d
        BY <1>7, <2>2
      <3>2. QED
        BY <1>1, <1>8, <2>2, <3>1 DEF Advertised, Ranges, GapType
    <2>3. CASE /\ s.gap = "idle" /\ CanFail("connect")
               /\ \E o \in EnsureScanning([s.c EXCEPT !.ready = NoGen, !.connecting = FALSE],
                                          s.gap) :
                    /\ c' = o.c /\ gap' = o.gap
                    /\ faults' = faults + 1 + o.cost
                    /\ faults' <= MaxFaults
      <3>1. PICK e : e = [d EXCEPT !.ready = NoGen, !.connecting = FALSE]
        OBVIOUS
      <3>2. PICK o \in EnsureScanning(e, "idle") :
                c' = o.c /\ gap' = o.gap /\ faults' = faults + 1 + o.cost
                   /\ faults' <= MaxFaults
        BY <1>7, <2>3, <3>1
      <3>3. /\ e \in ClientType /\ ~e.scanning /\ ~e.connecting /\ e.ready = NoGen
            /\ e.want = c.want /\ e.synced = c.synced /\ e.gen = c.gen /\ e.handle = c.handle
            /\ e.write = c.write /\ e.discon = c.discon /\ e.term = c.term
        BY <1>8, <3>1 DEF ClientType
      <3>4. PICK x : x = [e EXCEPT !.scanning = TRUE]
        OBVIOUS
      <3>5. o \in {Outcome(e, "idle", 0), Outcome(x, "scan", 0), Outcome(e, "idle", 1)}
        BY <3>4 DEF EnsureScanning, StartScan
      <3>6. /\ \/ c' = e /\ gap' = "idle"
               \/ c' = x /\ gap' = "scan"
            /\ o.cost \in {0, 1}
        BY <3>2, <3>5 DEF Outcome
      <3>7. faults' \in 0..MaxFaults
        BY <3>2, <3>6, GenAssumption DEF Ranges
      <3>8. SameButScan(x, e) /\ x.scanning
        BY <3>3, <3>4, ScanTyped, Zenon
      <3>9. QED
        BY <1>1, <3>3, <3>6, <3>7, <3>8 DEF Advertised, SameButScan, GapType
    <2>4. QED
      BY <1>4, <2>1, <2>2, <2>3
  <1>10. /\ HostIdle
         /\ UNCHANGED <<lock, host, task, timer, link, proc, queue, overflow, ev, app, peers,
                        framer, fault, intent>>
    BY DEF HostAdvert, host_vars, mailbox, vehicle
  <1>11. TypeOK'
    <2>1. c' \in ClientType
      BY <1>9 DEF Advertised
    <2>2. gap' \in GapType
      BY <1>9 DEF Advertised
    <2>3. faults' \in 0..MaxFaults
      BY <1>9 DEF Advertised
    <2>4. QED
      BY <2>1, <2>2, <2>3, <1>8, <1>9, <1>10 DEF TypeOK
  <1>12. Slices'
    BY <1>10 DEF Slices, BleInv
  <1>13. Locking'
    BY <1>10 DEF Locking, Publishing, BleInv, At
  <1>14. Generations'
    BY <1>9, <1>10 DEF Generations, BleInv, Advertised
  <1>15. Radio'
    BY <1>9, <1>10 DEF Radio, ScanStateIsTrue, BleInv, Advertised
  <1>16. Places'
    BY <1>10 DEF Places, BleInv, At
  <1>17. Wanted'
    BY <1>9, <1>10 DEF Wanted, HasGapLink, ScanStateIsTrue, BleInv, Ranges, At, Tasks,
       Advertised, SnapshotMatches, NoEvent
  <1>18. Order'
    <2>1. Latest <= Latest'
      BY <1>9, <1>10 DEF Ranges, Latest, Retiring, Advertised
    <2>2. queue' = queue /\ app' \in {app, NoGen} /\ peers' \in {peers, NoGen}
          /\ ev' \in {ev, NoEvent}
      BY <1>10
    <2>3. QED
      BY <1>11, <2>1, <2>2, OrderStays DEF BleInv
  <1>19. Barrier'
    BY <1>9, <1>10 DEF Barrier, Retiring, BleInv, At, Advertised
  <1>20. Stream'
    <2>1. Open' => Open /\ link'.rx = link.rx
      BY <1>9, <1>10 DEF Open, SnapshotMatches, Advertised
    <2>2. c'.gen = c.gen \/ (c'.gen = c.gen + 1 /\ ~Open')
      BY <1>9 DEF Advertised
    <2>3. QED
      BY <1>10, <2>1, <2>2, StreamStays DEF BleInv
  <1>21. QED
    BY <1>11, <1>12, <1>13, <1>14, <1>15, <1>16, <1>17, <1>18, <1>19, <1>20 DEF BleInv

\* A failed attempt: nothing is published and the scan of a wanted link goes on (on_gap_event(),
\* CONNECT with an error status).
LEMMA HostConnectFailsKeeps ==
    ASSUME TypeOK, Ranges, BleInv, HostConnectFails
    PROVE  TypeOK' /\ BleInv'
  <1>1. PICK b : b = [c EXCEPT !.ready = NoGen, !.connecting = FALSE]
    OBVIOUS
  <1>2. /\ b \in ClientType /\ b.scanning = c.scanning
        /\ b.want = c.want /\ b.connecting = FALSE /\ b.synced = c.synced
        /\ b.gen = c.gen /\ b.handle = c.handle /\ b.write = c.write
        /\ b.ready = NoGen /\ b.discon = c.discon /\ b.term = c.term
    BY <1>1 DEF Ranges, ClientType
  <1>3. Take(TryEnsureScanning(c.want, b, "idle"))
    BY <1>1 DEF HostConnectFails
  <1>4. gap \in GapType /\ faults \in 0..MaxFaults /\ "idle" \in GapType /\ c.want \in BOOLEAN
    BY DEF Ranges, GapType, ClientType
  <1>5. ScanMoves(b, "idle")
    BY <1>2, <1>3, <1>4, TryMoves
  <1>6. /\ c' \in ClientType /\ gap' \in GapType /\ faults' \in 0..MaxFaults
        /\ c'.want = c.want /\ c'.connecting = FALSE /\ c'.synced = c.synced
        /\ c'.gen = c.gen /\ c'.handle = c.handle /\ c'.write = c.write
        /\ c'.ready = NoGen /\ c'.discon = c.discon /\ c'.term = c.term
        /\ c'.scanning <=> gap' = "scan"
        /\ gap' \in {"idle", "scan"}
    BY <1>2, <1>5 DEF ScanMoves, SameButScan, BleInv, Radio, ScanStateIsTrue,
       HostConnectFails
  <1>7. /\ HostIdle /\ gap = "connect"
        /\ UNCHANGED <<lock, host, task, timer, link, proc, queue, overflow, ev, app, peers,
                       framer, fault, intent>>
    BY DEF HostConnectFails, host_vars, mailbox, vehicle
  <1>8. TypeOK'
    <2>1. QED
      BY <1>6, <1>7 DEF TypeOK
  <1>9. Slices'
    BY <1>7 DEF Slices, BleInv
  <1>10. Locking'
    BY <1>7 DEF Locking, Publishing, BleInv, At
  <1>11. Generations'
    BY <1>6, <1>7 DEF Generations, BleInv
  <1>12. Radio'
    BY <1>6, <1>7 DEF Radio, ScanStateIsTrue, BleInv
  <1>13. Places'
    BY <1>7 DEF Places, BleInv, At
  <1>14. Wanted'
    BY <1>6, <1>7 DEF Wanted, Publishing, BleInv
  <1>15. Order'
    <2>1. Latest <= Latest'
      BY <1>6, <1>7 DEF Ranges, Latest, Retiring
    <2>2. queue' = queue /\ app' \in {app, NoGen} /\ peers' \in {peers, NoGen}
          /\ ev' \in {ev, NoEvent}
      BY <1>7
    <2>3. QED
      BY <1>8, <2>1, <2>2, OrderStays DEF BleInv
  <1>16. Barrier'
    BY <1>6, <1>7 DEF Barrier, Retiring, BleInv, At
  <1>17. Stream'
    <2>1. Open' => Open /\ link'.rx = link.rx
      BY <1>6, <1>7 DEF Open, SnapshotMatches
    <2>2. c'.gen = c.gen \/ (c'.gen = c.gen + 1 /\ ~Open')
      BY <1>6
    <2>3. QED
      BY <1>7, <2>1, <2>2, StreamStays DEF BleInv
  <1>18. QED
    BY <1>8, <1>9, <1>10, <1>11, <1>12, <1>13, <1>14, <1>15, <1>16, <1>17 DEF BleInv

\* The first half of a publication: the handle is there and the generation is odd, so no reader
\* takes the half-written link for a link (on_gap_event(), CONNECT).
LEMMA HostConnectedKeeps ==
    ASSUME TypeOK, Ranges, BleInv, HostConnected
    PROVE  TypeOK' /\ BleInv'
  <1>1. HostIdle /\ gap = "connect" /\ c.gen + 4 <= MaxGen /\ c.gen + 1 \in Gens
        /\ c.gen + 2 \in Gens
    BY DEF HostConnected, Ranges
  <1>2. PICK b : b = [c EXCEPT !.connecting = FALSE, !.gen = @ + 1, !.write = FALSE,
                         !.ready = NoGen, !.handle = TRUE, !.discon = FALSE]
    OBVIOUS
  <1>3. /\ b \in ClientType /\ b.want = c.want /\ b.connecting = FALSE
        /\ b.scanning = c.scanning /\ b.synced = c.synced /\ b.gen = c.gen + 1
        /\ b.handle = TRUE /\ b.write = FALSE /\ b.ready = NoGen /\ b.discon = FALSE
        /\ b.term = c.term
    BY <1>1, <1>2 DEF Ranges, ClientType
  <1>4. PICK up, ending, stray : /\ up = [NoLink EXCEPT !.st = "up", !.gen = c.gen + 2]
                                 /\ ending = [NoLink EXCEPT !.st = "ending"]
                                 /\ stray = [NoLink EXCEPT !.st = "up"]
    OBVIOUS
  <1>5. /\ up \in LinkType /\ up.st = "up" /\ up.gen = c.gen + 2 /\ ~up.sub
        /\ ending \in LinkType /\ ending.st = "ending" /\ ~ending.sub
        /\ stray \in LinkType /\ stray.st = "up" /\ ~stray.sub
    <2>1. c.gen + 2 \in Gens \cup {NoGen} /\ "up" \in {"none", "up", "ending", "down"}
          /\ "ending" \in {"none", "up", "ending", "down"}
      BY <1>1
    <2>2. /\ ending \in LinkType /\ ending.st = "ending" /\ ending.sub = NoLink.sub
          /\ stray \in LinkType /\ stray.st = "up" /\ stray.sub = NoLink.sub
      BY <1>4, NoLinkTyped, LinkTyped
    <2>3. PICK l \in LinkType : l = NoLink /\ l.sub = FALSE
      BY NoLinkTyped
    <2>4. up \in LinkType /\ up.st = "up" /\ up.gen = c.gen + 2 /\ up.sub = l.sub
      BY <1>4, <2>1, <2>3 DEF LinkType
    <2>5. QED
      BY <2>2, <2>3, <2>4
  <1>6. \/ /\ lock = "free" /\ lock' = "host" /\ c' = b /\ link' = up
           /\ host' = [at |-> "publish", gen |-> 0, again |-> FALSE] /\ faults' = faults
        \/ /\ lock # "free" /\ lock' = lock /\ c' = c /\ host' = host
           /\ \/ link' = ending /\ faults' = faults
              \/ link' = stray /\ CanFail("drop") /\ faults' = faults + 1
    BY <1>2, <1>4 DEF HostConnected, HostGoes, Charge
  <1>7. /\ c' \in ClientType /\ host' \in HostType /\ link' \in LinkType /\ ~link'.sub
        /\ faults' \in 0..MaxFaults
        /\ \/ /\ lock = "free" /\ lock' = "host" /\ c' = b
              /\ link'.st = "up" /\ link'.gen = c.gen + 2 /\ host'.at = "publish"
           \/ /\ lock # "free" /\ lock' = lock /\ c' = c /\ host' = host
              /\ link'.st \in {"ending", "up"}
    <2>1. faults' \in 0..MaxFaults
      BY <1>6, Charged DEF Ranges
    <2>2. CASE lock = "free"
      <3>1. host' = [at |-> "publish", gen |-> 0, again |-> FALSE] /\ 0 \in Gens
        BY <1>6, <2>2 DEF Ranges
      <3>2. host' \in HostType /\ host'.at = "publish"
        BY <3>1 DEF HostType
      <3>3. QED
        BY <1>3, <1>5, <1>6, <2>1, <2>2, <3>2
    <2>3. CASE lock # "free"
      BY <1>5, <1>6, <2>1, <2>3 DEF Ranges
    <2>4. QED
      BY <2>2, <2>3
  <1>8. gap' = "idle" /\ UNCHANGED <<task, timer, proc, queue, overflow, ev, app, peers,
                                     framer, fault, intent>>
    BY DEF HostConnected, mailbox, vehicle
  <1>9. TypeOK'
    <2>1. gap' \in GapType
      BY <1>8 DEF BleInv, GapType
    <2>2. link' \in LinkType
      BY <1>7
    <2>3. QED
      BY <2>1, <2>2, <1>6, <1>7, <1>8 DEF TypeOK
  <1>10. Slices'
    BY <1>8 DEF Slices, BleInv
  <1>11. Locking'
    BY <1>7, <1>8 DEF Locking, Publishing, BleInv, At, Tasks
  <1>12. Generations'
    <2>1. ~Odd(c.gen) /\ host.at = "idle"
      BY <1>1 DEF HostIdle, BleInv, Generations
    <2>2. CASE lock = "free"
      <3>1. /\ c'.gen = c.gen + 1 /\ c'.handle /\ host'.at = "publish"
        BY <1>3, <1>7, <2>2
      <3>2. Odd(c.gen + 1) /\ c.gen + 4 <= MaxGen /\ c.gen \in Nat /\ MaxGen \in Nat
        BY <1>1, <2>1 DEF Ranges
      <3>3. QED
        BY <3>1, <3>2 DEF Generations
    <2>3. CASE lock # "free"
      <3>1. c' = c /\ host' = host
        BY <1>7, <2>3
      <3>2. c.gen + 4 <= MaxGen /\ c.gen \in Nat /\ MaxGen \in Nat
        BY <1>1 DEF Ranges
      <3>3. QED
        BY <2>1, <3>1, <3>2 DEF Generations
    <2>4. QED
      BY <2>2, <2>3
  <1>13. Radio'
    <2>1. /\ ~Odd(c.gen) /\ ~c.scanning /\ c.connecting /\ ~c.handle
      BY <1>1 DEF HostIdle, BleInv, Generations, Radio, ScanStateIsTrue
    <2>2. gap' = "idle" /\ ~c'.scanning
      BY <1>3, <1>7, <1>8, <2>1
    <2>3. CASE lock = "free"
      <3>1. /\ c'.handle /\ c'.gen = c.gen + 1 /\ link'.st = "up" /\ link'.gen = c.gen + 2
            /\ ~link'.sub
        BY <1>3, <1>7, <2>3
      <3>2. Settled(c.gen + 1) = c.gen + 2
        BY <2>1 DEF Ranges
      <3>3. QED
        BY <2>2, <3>1, <3>2 DEF Radio, ScanStateIsTrue
    <2>4. CASE lock # "free"
      <3>1. c' = c /\ ~link'.sub
        BY <1>7, <2>4
      <3>2. QED
        BY <2>1, <2>2, <3>1 DEF Radio, ScanStateIsTrue
    <2>5. QED
      BY <2>3, <2>4
  <1>14. Places'
    BY <1>8 DEF Places, BleInv, At
  <1>15. Wanted'
    <2>1. UNCHANGED <<task, ev, app, intent>>
      BY <1>8
    <2>2. c' = c \/ (c'.ready = NoGen /\ c'.want = c.want)
      BY <1>3, <1>7
    <2>3. CASE c' = c
      BY <2>1, <2>3 DEF BleInv, Wanted, Publishing, At
    <2>4. CASE c'.ready = NoGen /\ c'.want = c.want
      BY <2>1, <2>4 DEF BleInv, Wanted, Publishing
    <2>5. QED
      BY <2>2, <2>3, <2>4
  <1>16. Order'
    <2>1. Latest <= Latest'
      <3>1. c'.gen \in {c.gen, c.gen + 1} /\ c.gen \in Nat
        BY <1>3, <1>7 DEF Ranges
      <3>2. ~Retiring'
        BY <1>1, <1>7 DEF HostIdle, Retiring
      <3>3. QED
        BY <3>1, <3>2, LatestGrows
    <2>2. queue' = queue /\ app' \in {app, NoGen} /\ peers' \in {peers, NoGen}
          /\ ev' \in {ev, NoEvent}
      BY <1>8
    <2>3. QED
      BY <1>9, <2>1, <2>2, OrderStays DEF BleInv
  <1>17. Barrier'
    <2>1. ~c.handle /\ ~Retiring
      BY <1>1 DEF HostIdle, BleInv, Radio, Retiring
    <2>2. UNCHANGED <<task, queue, overflow, ev, peers>> /\ c.gen # c.gen + 1
      BY <1>8 DEF Ranges
    <2>3. \/ c' = c
          \/ c'.gen = c.gen + 1 /\ c'.handle
      BY <1>3, <1>7
    <2>4. peers # c.gen
      BY <2>1 DEF BleInv, Barrier
    <2>5. QED
      BY <2>1, <2>2, <2>3, <2>4 DEF BleInv, Barrier, At
  <1>18. Stream'
    <2>1. Open' => Open /\ link'.rx = link.rx
      BY <1>7 DEF Open, SnapshotMatches
    <2>2. c'.gen = c.gen \/ (c'.gen = c.gen + 1 /\ ~Open')
      BY <1>1, <1>2, <1>3, <1>7, <1>8 DEF Open, BleInv
    <2>3. QED
      BY <1>8, <2>1, <2>2, StreamStays DEF BleInv
  <1>19. QED
    BY <1>9, <1>10, <1>11, <1>12, <1>13, <1>14, <1>15, <1>16, <1>17, <1>18 DEF BleInv

\* What a GATT callback leaves to the rest of the program.
GattFrame == HostIdle /\ UNCHANGED <<lock, task, timer, gap, vehicle, intent>>

\* A link that is closed from a callback: the publication stays, and the host is about to
\* terminate it.
Closes ==
    /\ c' \in ClientType /\ c'.gen = c.gen /\ c'.handle = c.handle
    /\ c'.connecting \in {c.connecting, FALSE} /\ c'.scanning = c.scanning
    /\ ~c'.want /\ c'.ready = NoGen /\ c'.discon
    /\ host' \in HostType /\ host'.at = "terminate"

\* What disconnect_from_callback_() leaves, and the host's next step.
LEMMA ClosesTyped ==
    ASSUME Ranges, c' \in {Closed(c), RxClosed(c)}, HostGoes("terminate", c.gen, FALSE)
    PROVE  Closes
  <1>1. c \in ClientType /\ c.gen \in Gens
    BY DEF Ranges
  <1>2. /\ c' \in ClientType /\ c'.gen = c.gen /\ c'.handle = c.handle
        /\ c'.connecting \in {c.connecting, FALSE} /\ c'.scanning = c.scanning
        /\ ~c'.want /\ c'.ready = NoGen /\ c'.discon
    <2>1. CASE c' = Closed(c)
      BY <1>1, <2>1 DEF Closed, ClientType
    <2>2. CASE c' = RxClosed(c)
      BY <1>1, <2>2 DEF RxClosed, ClientType
    <2>3. QED
      BY <2>1, <2>2
  <1>3. host' \in HostType /\ host'.at = "terminate"
    BY <1>1 DEF HostGoes, HostType
  <1>4. QED
    BY <1>2, <1>3 DEF Closes

\* Closing a link keeps everything, whatever becomes of its notifications.
LEMMA ClosesKeeps ==
    ASSUME TypeOK, Ranges, BleInv, GattFrame, Closes, queue' = queue,
           c.handle \/ (gap = "idle" /\ c'.connecting = c.connecting),
           overflow' \in {overflow, TRUE},
           link' \in LinkType, link'.st = link.st, link'.gen = link.gen,
           proc' \subseteq [gen : Gens, stage : {"discover", "subscribe"}],
           faults' \in 0..MaxFaults
    PROVE  TypeOK' /\ BleInv'
  <1>1. /\ host.at = "idle" /\ ~Retiring /\ ~Retiring' /\ Latest' = Latest
        /\ UNCHANGED <<lock, task, timer, gap, ev, app, peers, framer, fault, intent>>
    BY DEF GattFrame, HostIdle, Retiring, Latest, Closes, vehicle
  <1>2. TypeOK'
    BY <1>1 DEF TypeOK, Closes
  <1>3. Slices'
    BY <1>1 DEF BleInv, Slices
  <1>4. Locking'
    BY <1>1 DEF BleInv, Locking, Publishing, At, Closes
  <1>5. Generations'
    BY <1>1 DEF BleInv, Generations, Closes
  <1>6. Radio'
    <2>1. gap = "idle"
      BY DEF BleInv, Radio
    <2>2. link.st # "none" => c.handle \/ (c.connecting /\ c'.connecting = c.connecting)
      BY DEF BleInv, Radio
    <2>3. QED
      BY <1>1, <2>1, <2>2 DEF BleInv, Radio, ScanStateIsTrue, Closes
  <1>7. Places'
    BY <1>1 DEF BleInv, Places, At
  <1>8. Wanted'
    BY <1>1 DEF BleInv, Wanted, Publishing, Closes
  <1>9. Order'
    BY <1>1 DEF BleInv, Order
  <1>10. Barrier'
    BY <1>1 DEF BleInv, Barrier, At, Closes
  <1>11. Stream'
    <2>1. ~Open' /\ c'.gen = c.gen
      BY DEF Open, SnapshotMatches, Closes
    <2>2. QED
      BY <1>1, <1>2, <2>1, StreamStays DEF BleInv
  <1>12. QED
    BY <1>2, <1>3, <1>4, <1>5, <1>6, <1>7, <1>8, <1>9, <1>10, <1>11 DEF BleInv

\* A subscribed link hands its LinkUp to the queue.
LEMMA SubscribedKeeps ==
    ASSUME TypeOK, Ranges, BleInv, GattFrame, SnapshotMatches(c, c.gen),
           UNCHANGED <<c, host, faults>>, PushLink("LinkUp", c.gen), Len(queue) < Depth,
           link' \in LinkType, link'.st = link.st, link'.gen = link.gen, link'.rx = link.rx,
           proc' \subseteq [gen : Gens, stage : {"discover", "subscribe"}]
    PROVE  TypeOK' /\ BleInv'
  <1>1. /\ host.at = "idle" /\ ~Retiring /\ Latest = c.gen /\ Latest' = c.gen /\ ~Odd(c.gen)
        /\ c.gen \in Nat /\ c.gen \in Gens
        /\ UNCHANGED <<lock, task, timer, gap, ev, app, peers, framer, fault, intent>>
    BY DEF GattFrame, HostIdle, Retiring, Latest, SnapshotMatches, Ranges, vehicle
  <1>2. /\ queue' \in Seq(Cells) /\ Len(queue') <= Depth /\ overflow' = overflow
        /\ Good(queue', c.gen)
        /\ \A n : Precedes(n, queue) => Precedes(n, queue')
        /\ \A n : Barred(n, queue) => Barred(n, queue')
        /\ queue'[1].kind = "Rx" => queue # << >> /\ queue'[1] = queue[1]
        /\ queue' # << >> /\ queue'[Len(queue')].gen = c.gen
        /\ queue'[Len(queue')].kind = "LinkUp"
    <2>1. /\ Good(queue, c.gen) /\ c.gen \in Int /\ c.gen <= c.gen
          /\ Len(queue) \in Nat /\ Depth \in Nat
      BY <1>1, QueueIsGood, QueueAssumption DEF Ranges
    <2>2. ~(Len(queue) >= Depth)
      BY <2>1
    <2>3. QED
      BY <1>1, <2>1, <2>2, PushLinkKeeps
  <1>3. TypeOK'
    BY <1>1, <1>2 DEF TypeOK
  <1>4. Slices'
    BY <1>1, <1>2, QueueParts DEF BleInv, Slices
  <1>5. Locking'
    BY <1>1 DEF BleInv, Locking, Publishing, At
  <1>6. Generations'
    BY <1>1 DEF BleInv, Generations
  <1>7. Radio'
    BY <1>1 DEF BleInv, Radio, ScanStateIsTrue
  <1>8. Places'
    BY <1>1 DEF BleInv, Places, At
  <1>9. Wanted'
    BY <1>1 DEF BleInv, Wanted, Publishing, At
  <1>10. Order'
    BY <1>1, <1>2 DEF BleInv, Order, Good
  <1>11. Barrier'
    BY <1>1, <1>2 DEF BleInv, Barrier, At, Retiring
  <1>12. Stream'
    <2>1. queue'[1].kind = "Rx" /\ queue'[1].gen = c.gen => AheadOf(c.gen, queue'[1].at)
      BY <1>2 DEF BleInv, Stream
    <2>2. \A g, i : AheadOf(g, i) => AheadOf(g, i)'
      BY <1>1 DEF AheadOf
    <2>3. Joined(queue')
      BY <1>2 DEF Good
    <2>4. QED
      BY <1>1, <1>2, <2>1, <2>2, <2>3 DEF BleInv, Stream, FramerIsContiguous
  <1>13. QED
    BY <1>3, <1>4, <1>5, <1>6, <1>7, <1>8, <1>9, <1>10, <1>11, <1>12 DEF BleInv

\* A discovery goes on, or a procedure of another generation ends: the link stays as it is.
LEMMA GattGoesOnKeeps ==
    ASSUME TypeOK, Ranges, BleInv, GattFrame, UNCHANGED <<host, link, mailbox, faults>>,
           c' \in ClientType, c'.want = c.want, c'.connecting = c.connecting,
           c'.scanning = c.scanning, c'.gen = c.gen, c'.handle = c.handle,
           c'.ready = c.ready, c'.discon = c.discon,
           proc' \subseteq [gen : Gens, stage : {"discover", "subscribe"}]
    PROVE  TypeOK' /\ BleInv'
  <1>1. /\ Latest' = Latest
        /\ UNCHANGED <<lock, host, task, timer, gap, link, queue, overflow, ev, app, peers,
                       framer, fault, intent, faults>>
    BY DEF GattFrame, Latest, Retiring, vehicle, mailbox
  <1>2. TypeOK'
    BY <1>1 DEF TypeOK
  <1>3. Slices'
    BY <1>1 DEF BleInv, Slices
  <1>4. Locking'
    BY <1>1 DEF BleInv, Locking, Publishing, At
  <1>5. Generations'
    BY <1>1 DEF BleInv, Generations
  <1>6. Radio'
    BY <1>1 DEF BleInv, Radio, ScanStateIsTrue
  <1>7. Places'
    BY <1>1 DEF BleInv, Places, At
  <1>8. Wanted'
    BY <1>1 DEF BleInv, Wanted, Publishing, At, HasGapLink
  <1>9. Order'
    BY <1>1 DEF BleInv, Order
  <1>10. Barrier'
    BY <1>1 DEF BleInv, Barrier, At, Retiring
  <1>11. Stream'
    <2>1. Open' => Open /\ link'.rx = link.rx
      BY <1>1 DEF Open, SnapshotMatches
    <2>2. QED
      BY <1>1, <1>2, <2>1, StreamStays DEF BleInv
  <1>12. QED
    BY <1>2, <1>3, <1>4, <1>5, <1>6, <1>7, <1>8, <1>9, <1>10, <1>11 DEF BleInv

\* A GATT callback: of another generation it does nothing, of this one it goes on, closes the
\* link, or hands it to vehicle_loop (on_svc_disc() to on_subscribe_write()).
LEMMA HostGattKeeps ==
    ASSUME TypeOK, Ranges, BleInv, HostGatt
    PROVE  TypeOK' /\ BleInv'
  <1>1. GattFrame
    BY DEF HostGatt, GattFrame
  <1>2. PICK p \in proc :
           \/ /\ proc' = proc \ {p}
              /\ UNCHANGED <<c, host, link, mailbox, faults>>
           \/ /\ SnapshotMatches(c, p.gen)
              /\ HostDiscovers(p) \/ HostGattFails(p) \/ HostSubscribed(p)
    BY DEF HostGatt
  <1>3. /\ c \in ClientType /\ link \in LinkType /\ faults \in 0..MaxFaults
        /\ proc \subseteq [gen : Gens, stage : {"discover", "subscribe"}]
        /\ proc \ {p} \subseteq [gen : Gens, stage : {"discover", "subscribe"}]
    BY DEF Ranges, TypeOK
  <1>4. CASE proc' = proc \ {p} /\ UNCHANGED <<c, host, link, mailbox, faults>>
    BY <1>1, <1>3, <1>4, GattGoesOnKeeps
  <1>5. ASSUME SnapshotMatches(c, p.gen)
        PROVE  SnapshotMatches(c, c.gen) /\ c.handle
    BY <1>5 DEF SnapshotMatches
  <1>6. CASE HostDiscovers(p)
    <2>1. p \in [gen : Gens, stage : {"discover", "subscribe"}]
      BY <1>3
    <2>2. [p EXCEPT !.stage = "subscribe"] \in [gen : Gens, stage : {"discover", "subscribe"}]
      BY <2>1
    <2>3. proc' \subseteq [gen : Gens, stage : {"discover", "subscribe"}]
      BY <1>3, <1>6, <2>2 DEF HostDiscovers
    <2>4. /\ c' \in ClientType /\ c'.want = c.want /\ c'.connecting = c.connecting
          /\ c'.scanning = c.scanning /\ c'.gen = c.gen /\ c'.handle = c.handle
          /\ c'.ready = c.ready /\ c'.discon = c.discon
      BY <1>3, <1>6 DEF HostDiscovers, ClientType
    <2>5. UNCHANGED <<host, link, mailbox, faults>>
      BY <1>6 DEF HostDiscovers
    <2>6. QED
      BY <1>1, <2>3, <2>4, <2>5, GattGoesOnKeeps
  <1>7. CASE SnapshotMatches(c, p.gen) /\ HostGattFails(p)
    <2>1. /\ proc' = proc \ {p} /\ c' = Closed(c) /\ HostGoes("terminate", c.gen, FALSE)
          /\ Charge("gatt") \/ UNCHANGED faults
          /\ UNCHANGED <<link, mailbox>>
      BY <1>7 DEF HostGattFails
    <2>2. faults' \in 0..MaxFaults
      BY <1>3, <2>1, Charged DEF Charge
    <2>3. Closes
      BY <2>1, ClosesTyped
    <2>4. c.handle /\ queue' = queue /\ overflow' = overflow
      BY <1>5, <1>7, <2>1 DEF mailbox
    <2>5. QED
      BY <1>1, <1>3, <2>1, <2>2, <2>3, <2>4, ClosesKeeps
  <1>8. CASE SnapshotMatches(c, p.gen) /\ HostSubscribed(p)
    <2>1. proc' = proc \ {p} /\ link' = [link EXCEPT !.sub = TRUE] /\ UNCHANGED faults
      BY <1>8 DEF HostSubscribed
    <2>2. /\ link' \in LinkType /\ link'.st = link.st /\ link'.gen = link.gen
          /\ link'.rx = link.rx
      BY <1>3, <2>1 DEF LinkType
    <2>3. CASE lock = "free" /\ c.want /\ Len(queue) < Depth
      <3>1. UNCHANGED <<c, host, faults>> /\ PushLink("LinkUp", c.gen)
        BY <1>8, <2>3 DEF HostSubscribed
      <3>2. QED
        BY <1>1, <1>3, <1>5, <1>8, <2>1, <2>2, <2>3, <3>1, SubscribedKeeps
    <2>4. CASE ~(lock = "free" /\ c.want /\ Len(queue) < Depth)
      <3>1. c' = Closed(c) /\ HostGoes("terminate", c.gen, FALSE)
        BY <1>8, <2>4 DEF HostSubscribed
      <3>2. Closes
        BY <3>1, ClosesTyped
      <3>3. queue' = queue /\ overflow' \in {overflow, TRUE}
        BY <1>8, <2>4 DEF HostSubscribed, PushLink, mailbox
      <3>4. QED
        BY <1>1, <1>3, <1>5, <1>8, <2>1, <2>2, <3>2, <3>3, ClosesKeeps
    <2>5. QED
      BY <2>3, <2>4
  <1>9. QED
    BY <1>2, <1>4, <1>6, <1>7, <1>8

\* A notification is kept: it joins the last cell or gets one of its own.
LEMMA NotifiedKeeps ==
    ASSUME TypeOK, Ranges, BleInv, GattFrame, SnapshotMatches(c, c.gen), link.sub,
           UNCHANGED <<c, host, overflow, proc>>, faults' \in 0..MaxFaults,
           NEW near \in BOOLEAN, RxFits(near, c.gen), NEW i \in 1..MaxRx, i = link.rx + 1,
           queue' = PushedRx(near, c.gen, i),
           link' \in LinkType, link'.st = link.st, link'.gen = link.gen, link'.rx = i
    PROVE  TypeOK' /\ BleInv'
  <1>1. /\ host.at = "idle" /\ ~Retiring /\ Latest = c.gen /\ Latest' = c.gen /\ ~Odd(c.gen)
        /\ c.gen \in Nat /\ c.gen \in Gens
        /\ UNCHANGED <<lock, task, timer, gap, ev, app, peers, framer, fault, intent>>
    BY DEF GattFrame, HostIdle, Retiring, Latest, SnapshotMatches, Ranges, vehicle
  <1>2. /\ Good(queue, c.gen) /\ queue \in Seq(Cells) /\ Len(queue) <= Depth /\ Len(queue) \in Nat
        /\ Depth \in Nat
    BY <1>1, QueueIsGood, QueueAssumption DEF Ranges
  <1>3. /\ queue = << >> => AheadOf(c.gen, i)
        /\ queue # << >> => /\ queue[Len(queue)].gen = c.gen
                            /\ queue[Len(queue)].kind \in {"LinkUp", "Rx"}
                            /\ queue[Len(queue)].kind = "Rx" => queue[Len(queue)].to + 1 = i
    BY DEF BleInv, Stream, Open
  <1>4. /\ queue' \in Seq(Cells) /\ Len(queue') <= Depth /\ Good(queue', c.gen)
        /\ \A n : Precedes(n, queue) => Precedes(n, queue')
        /\ \A n : Barred(n, queue) => Barred(n, queue')
        /\ queue' # << >> /\ queue'[Len(queue')].gen = c.gen
        /\ queue'[Len(queue')].kind = "Rx" /\ queue'[Len(queue')].to = i
        /\ queue'[1].kind = "Rx" /\ queue'[1].gen = c.gen => AheadOf(c.gen, queue'[1].at)
    <2>1. CASE Joins(near, c.gen)
      <3>1. /\ queue # << >> /\ queue[Len(queue)].kind = "Rx" /\ queue[Len(queue)].to + 1 = i
            /\ queue' = [queue EXCEPT ![Len(queue)].to = i]
        BY <1>3, <2>1 DEF Joins, PushedRx
      <3>2. Len(queue) \in 1 .. Len(queue) /\ 1 \in 1 .. Len(queue) /\ i \in 0..MaxRx
        BY <1>2, <3>1, GenAssumption
      <3>3. queue[Len(queue)].to < i
        BY <1>2, <3>1, <3>2, CellNumbers
      <3>4. /\ Good(queue', c.gen) /\ Len(queue') = Len(queue) /\ queue' # << >>
            /\ queue'[Len(queue')].to = i /\ SameShape(queue, queue')
            /\ queue'[1].at = queue[1].at
        BY <1>2, <3>1, <3>2, <3>3, JoinKeeps
      <3>5. /\ queue'[1].kind = queue[1].kind /\ queue'[1].gen = queue[1].gen
            /\ queue'[Len(queue)].kind = "Rx" /\ queue'[Len(queue)].gen = c.gen
        BY <1>3, <3>1, <3>2, <3>4 DEF SameShape
      <3>6. queue[1].kind = "Rx" /\ queue[1].gen = c.gen => AheadOf(c.gen, queue[1].at)
        BY <3>1 DEF BleInv, Stream
      <3>7. /\ \A n : Precedes(n, queue) => Precedes(n, queue')
            /\ \A n : Barred(n, queue) => Barred(n, queue')
        BY <3>4, ShapeKeeps
      <3>8. QED
        BY <1>2, <3>4, <3>5, <3>6, <3>7 DEF Good
    <2>2. CASE ~Joins(near, c.gen)
      <3>1. PICK e : e = [kind |-> "Rx", gen |-> c.gen, from |-> i, to |-> i, at |-> i]
        OBVIOUS
      <3>2. i \in 0..MaxRx /\ i \in 0..MaxRx + 1 /\ i \in 1 .. i /\ i <= i
        BY GenAssumption
      <3>3. /\ e \in Cells /\ e.kind = "Rx" /\ e.gen = c.gen /\ e.from = i /\ e.to = i
            /\ e.at = i
        BY <1>1, <3>1, <3>2 DEF Cells
      <3>4. queue' = Append(queue, e) /\ Len(queue) < Depth
        BY <2>2, <3>1 DEF PushedRx, RxFits
      <3>5. Follows(e, queue)
        <4>1. \A k \in 1 .. Len(queue) : queue[k].gen <= c.gen
          BY <1>2 DEF Good, Ordered
        <4>2. QED
          BY <1>1, <1>3, <3>2, <3>3, <4>1 DEF Follows
      <3>6. Added(queue, e, queue')
        BY <1>2, <3>3, <3>4, <3>5, AppendKeeps
      <3>7. /\ Good(queue', c.gen) /\ Len(queue') = Len(queue) + 1 /\ queue' # << >>
            /\ queue'[Len(queue')] = e
            /\ queue'[1] = IF queue = << >> THEN e ELSE queue[1]
            /\ \A n : Precedes(n, queue) => Precedes(n, queue')
            /\ \A n : Barred(n, queue) => Barred(n, queue')
        BY <3>3, <3>6 DEF Added
      <3>8. queue # << >> /\ queue[1].kind = "Rx" /\ queue[1].gen = c.gen
               => AheadOf(c.gen, queue[1].at)
        BY DEF BleInv, Stream
      <3>9. queue'[1].kind = "Rx" /\ queue'[1].gen = c.gen => AheadOf(c.gen, queue'[1].at)
        BY <1>3, <3>3, <3>7, <3>8
      <3>10. Len(queue') <= Depth
        BY <1>2, <3>4, <3>7
      <3>11. QED
        BY <3>3, <3>7, <3>9, <3>10 DEF Good
    <2>3. QED
      BY <2>1, <2>2
  <1>5. TypeOK'
    BY <1>1, <1>4 DEF TypeOK
  <1>6. Slices'
    BY <1>1, <1>4, QueueParts DEF BleInv, Slices
  <1>7. Locking'
    BY <1>1 DEF BleInv, Locking, Publishing, At
  <1>8. Generations'
    BY <1>1 DEF BleInv, Generations
  <1>9. Radio'
    BY <1>1 DEF BleInv, Radio, ScanStateIsTrue
  <1>10. Places'
    BY <1>1 DEF BleInv, Places, At
  <1>11. Wanted'
    BY <1>1 DEF BleInv, Wanted, Publishing, At
  <1>12. Order'
    BY <1>1, <1>4 DEF BleInv, Order, Good
  <1>13. Barrier'
    BY <1>1, <1>4 DEF BleInv, Barrier, At, Retiring
  <1>14. Stream'
    <2>1. \A g, n : AheadOf(g, n) => AheadOf(g, n)'
      BY <1>1 DEF AheadOf
    <2>2. Joined(queue')
      BY <1>4 DEF Good
    <2>3. QED
      BY <1>1, <1>4, <2>1, <2>2 DEF BleInv, Stream, FramerIsContiguous
  <1>15. QED
    BY <1>5, <1>6, <1>7, <1>8, <1>9, <1>10, <1>11, <1>12, <1>13, <1>14 DEF BleInv

\* A notification: it joins the queue, or the link it cannot be kept for is closed, so that none
\* after it counts (on_gap_event(), NOTIFY_RX; push_rx()).
LEMMA HostNotifyKeeps ==
    ASSUME TypeOK, Ranges, BleInv, HostNotify
    PROVE  TypeOK' /\ BleInv'
  <1>1. /\ GattFrame /\ proc' = proc /\ link.st = "up" /\ link.sub /\ link.rx < MaxRx
        /\ link' = [link EXCEPT !.rx = @ + 1]
    BY DEF HostNotify, GattFrame
  <1>2. /\ c \in ClientType /\ link \in LinkType /\ faults \in 0..MaxFaults
        /\ proc' \subseteq [gen : Gens, stage : {"discover", "subscribe"}]
    BY <1>1 DEF Ranges, TypeOK
  <1>3. link.rx + 1 \in 1..MaxRx /\ link.rx + 1 \in 0..MaxRx
    <2>1. link.rx \in Nat /\ link.rx < MaxRx /\ MaxRx \in Nat
      BY <1>1, GenAssumption DEF Ranges
    <2>2. QED
      BY <2>1
  <1>4. /\ link' \in LinkType /\ link'.st = link.st /\ link'.gen = link.gen
        /\ link'.sub = link.sub /\ link'.rx = link.rx + 1
    BY <1>1, <1>2, <1>3 DEF LinkType
  <1>5. link.st # "none" => gap = "idle" /\ (c.handle \/ c.connecting)
    BY DEF BleInv, Radio
  <1>6. CASE ~SnapshotMatches(c, c.gen) /\ UNCHANGED <<c, host, mailbox, faults>>
    <2>1. /\ Latest' = Latest /\ ~Open'
          /\ UNCHANGED <<c, lock, host, task, timer, gap, queue, overflow, ev, app, peers,
                         framer, fault, intent, faults>>
      BY <1>1, <1>6 DEF GattFrame, Latest, Retiring, vehicle, mailbox, Open
    <2>2. TypeOK'
      BY <1>2, <1>4, <2>1 DEF TypeOK
    <2>3. Slices' /\ Locking' /\ Places'
      BY <2>1 DEF BleInv, Slices, Locking, Publishing, Places, At
    <2>4. Generations' /\ Radio'
      BY <1>4, <2>1 DEF BleInv, Generations, Radio, ScanStateIsTrue
    <2>5. Wanted' /\ Order' /\ Barrier'
      BY <2>1 DEF BleInv, Wanted, Order, Barrier, Publishing, At, Retiring
    <2>6. Stream'
      BY <2>1, <2>2, StreamStays DEF BleInv
    <2>7. QED
      BY <2>2, <2>3, <2>4, <2>5, <2>6 DEF BleInv
  <1>7. CASE /\ SnapshotMatches(c, c.gen) /\ UNCHANGED faults
             /\ \E near \in BOOLEAN :
                  /\ RxFits(near, c.gen)
                  /\ queue' = PushedRx(near, c.gen, link.rx + 1)
                  /\ UNCHANGED <<c, host, overflow>>
    <2>1. PICK i \in 1..MaxRx : i = link.rx + 1
      BY <1>3
    <2>2. PICK near \in BOOLEAN : /\ RxFits(near, c.gen)
                                  /\ queue' = PushedRx(near, c.gen, i)
                                  /\ UNCHANGED <<c, host, overflow>>
      BY <1>7, <2>1
    <2>3. UNCHANGED <<c, host, overflow, proc>> /\ faults' \in 0..MaxFaults /\ link'.rx = i
      BY <1>1, <1>2, <1>4, <1>7, <2>1, <2>2
    <2>4. QED
      BY <1>1, <1>4, <1>7, <2>1, <2>2, <2>3, NotifiedKeeps
  <1>8. CASE /\ SnapshotMatches(c, c.gen) /\ UNCHANGED faults
             /\ overflow' = TRUE /\ c' = RxClosed(c) /\ HostGoes("terminate", c.gen, FALSE)
             /\ UNCHANGED queue
    <2>1. Closes
      BY <1>8, ClosesTyped
    <2>2. c.handle /\ queue' = queue /\ overflow' \in {overflow, TRUE} /\ faults' \in 0..MaxFaults
      BY <1>2, <1>8 DEF SnapshotMatches
    <2>3. QED
      BY <1>1, <1>2, <1>4, <2>1, <2>2, ClosesKeeps
  <1>9. CASE /\ Charge("gatt") /\ c' = RxClosed(c) /\ HostGoes("terminate", c.gen, FALSE)
             /\ UNCHANGED mailbox
    <2>1. Closes
      BY <1>9, ClosesTyped
    <2>2. queue' = queue /\ overflow' \in {overflow, TRUE} /\ faults' \in 0..MaxFaults
      BY <1>2, <1>9, Charged DEF Charge, mailbox
    <2>3. gap = "idle" /\ c'.connecting = c.connecting
      BY <1>1, <1>2, <1>5, <1>9 DEF RxClosed, ClientType
    <2>4. QED
      BY <1>1, <1>2, <1>4, <2>1, <2>2, <2>3, ClosesKeeps
  <1>10. QED
    BY <1>6, <1>7, <1>8, <1>9 DEF HostNotify

\* The first half of a retirement: the link is not ready from here on, with or without the mutex
\* (on_gap_event(), DISCONNECT).
LEMMA HostRetireKeeps ==
    ASSUME TypeOK, Ranges, BleInv, HostRetire
    PROVE  TypeOK' /\ BleInv'
  <1>1. /\ HostIdle /\ link.st = "down" /\ c.gen + 2 <= MaxGen /\ c.gen + 1 \in Gens
           /\ gap = "idle"
        /\ gap' = gap
    BY DEF HostRetire, BleInv, Generations, Radio, Ranges
  <1>2. PICK b : b = Retired(c)
    OBVIOUS
  <1>3. /\ b \in ClientType /\ b.want = c.want /\ b.connecting = FALSE /\ b.scanning = FALSE
        /\ b.synced \in BOOLEAN /\ b.gen = c.gen + 1 /\ b.handle = FALSE /\ b.write = FALSE
        /\ b.ready = NoGen /\ b.discon = TRUE /\ b.term = c.term
    BY <1>1, <1>2 DEF Retired, Ranges, ClientType
  <1>4. PICK d : d = Retired([c EXCEPT !.want = FALSE])
    OBVIOUS
  <1>5. /\ d \in ClientType /\ ~d.want /\ ~d.connecting /\ ~d.scanning
        /\ d.gen = c.gen + 1 /\ ~d.handle /\ ~d.write /\ d.ready = NoGen /\ d.discon
        /\ d.term = c.term
    BY <1>1, <1>4 DEF Retired, Ranges, ClientType
  <1>6. \/ lock = "free" /\ lock' = "host" /\ c' = b
        \/ lock # "free" /\ lock' = lock /\ c' = d
    BY <1>2, <1>4 DEF HostRetire, Retire
  <1>7. /\ c' \in ClientType /\ host' \in HostType /\ host'.at = "retire"
        /\ link' \in LinkType /\ link'.st = "none" /\ ~link'.sub
    BY <1>3, <1>5, <1>6, GenAssumption DEF HostRetire, HostGoes, HostType, LinkType, NoLink,
       Ranges
  <1>8. faults' \in 0..MaxFaults
    BY DEF HostRetire, Ranges
  <1>9. UNCHANGED <<task, timer, gap, proc, queue, overflow, ev, app, peers, framer, fault,
                    intent>>
    BY DEF HostRetire, mailbox, vehicle
  <1>10. TypeOK'
    <2>1. QED
      BY <1>6, <1>7, <1>8, <1>9 DEF TypeOK
  <1>11. Slices'
    BY <1>9 DEF Slices, BleInv
  <1>12. Locking'
    BY <1>6, <1>7, <1>9 DEF Locking, Publishing, BleInv, At, Tasks
  <1>13. Generations'
    BY <1>1, <1>2, <1>3, <1>5, <1>6, <1>7 DEF Generations, BleInv, Ranges, At, ClientType,
       HostIdle
  <1>14. Radio'
    BY <1>1, <1>2, <1>3, <1>4, <1>5, <1>6, <1>7, <1>8, <1>9 DEF Radio, ScanStateIsTrue,
       BleInv
  <1>15. Places'
    BY <1>9 DEF Places, BleInv, At
  <1>16. Wanted'
    <2>1. c'.ready = NoGen /\ (c'.want => c.want)
      BY <1>3, <1>5, <1>6
    <2>2. Publishing' <=> Publishing
      BY <1>9 DEF Publishing
    <2>3. QED
      BY <1>9, <2>1, <2>2 DEF Wanted, BleInv
  <1>17. Order'
    <2>1. Latest <= Latest'
      BY <1>3, <1>5, <1>6, <1>7 DEF Ranges, Latest, Retiring
    <2>2. queue' = queue /\ app' \in {app, NoGen} /\ peers' \in {peers, NoGen}
          /\ ev' \in {ev, NoEvent}
      BY <1>9
    <2>3. QED
      BY <1>10, <2>1, <2>2, OrderStays DEF BleInv
  <1>18. Barrier'
    BY <1>1, <1>2, <1>3, <1>4, <1>5, <1>6, <1>7, <1>8, <1>9 DEF Slices, Locking, Publishing,
       Returns, Generations, Radio, ScanStateIsTrue, Places, Wanted, HasGapLink, Order, Ordered,
       Precedes, Latest, Retiring, Barrier, Barred, BleInv, Ranges, At, Cells, EventType,
       TypeOK, Tasks, TaskType, HostType, ClientType, LinkType, GapType, HostIdle, Go, Hold,
       HostGoes
  <1>19. Stream'
    <2>1. Open' => Open /\ link'.rx = link.rx
      BY <1>7 DEF Open, SnapshotMatches
    <2>2. c'.gen = c.gen \/ (c'.gen = c.gen + 1 /\ ~Open')
      BY <1>1, <1>2, <1>3, <1>4, <1>5, <1>6, <1>7, <1>8, <1>9 DEF Open, BleInv
    <2>3. QED
      BY <1>9, <2>1, <2>2, StreamStays DEF BleInv
  <1>20. QED
    BY <1>10, <1>11, <1>12, <1>13, <1>14, <1>15, <1>16, <1>17, <1>18, <1>19 DEF BleInv

\* on_reset(): the controller forgets its link, and the published one is retired.
LEMMA HostResetKeeps ==
    ASSUME TypeOK, Ranges, BleInv, HostReset
    PROVE  TypeOK' /\ BleInv'
  <1>1. HostIdle /\ c.gen + 2 <= MaxGen /\ c.gen + 1 \in Gens /\ gap' = "idle"
    BY DEF HostReset, Ranges
  <1>2. PICK b : b = Retired([c EXCEPT !.synced = FALSE])
    OBVIOUS
  <1>3. /\ b \in ClientType /\ b.want = c.want /\ b.connecting = FALSE /\ b.scanning = FALSE
        /\ b.synced \in BOOLEAN /\ b.gen = c.gen + 1 /\ b.handle = FALSE /\ b.write = FALSE
        /\ b.ready = NoGen /\ b.discon = TRUE /\ b.term = c.term
    BY <1>1, <1>2 DEF Retired, Ranges, ClientType
  <1>4. PICK d : d = Retired([[c EXCEPT !.synced = FALSE] EXCEPT !.want = FALSE])
    OBVIOUS
  <1>5. /\ d \in ClientType /\ ~d.want /\ ~d.connecting /\ ~d.scanning
        /\ d.gen = c.gen + 1 /\ ~d.handle /\ ~d.write /\ d.ready = NoGen /\ d.discon
        /\ d.term = c.term
    BY <1>1, <1>4 DEF Retired, Ranges, ClientType
  <1>6. \/ lock = "free" /\ lock' = "host" /\ c' = b
        \/ lock # "free" /\ lock' = lock /\ c' = d
    BY <1>2, <1>4 DEF HostReset, Retire
  <1>7. /\ c' \in ClientType /\ host' \in HostType /\ host'.at = "retire"
        /\ link' \in LinkType /\ link'.st = "none" /\ ~link'.sub
    BY <1>3, <1>5, <1>6, GenAssumption DEF HostReset, HostGoes, HostType, LinkType, NoLink,
       Ranges
  <1>8. faults' \in 0..MaxFaults
    BY Charged DEF HostReset, Charge, Ranges
  <1>9. UNCHANGED <<task, timer, proc, queue, overflow, ev, app, peers, framer, fault, intent>>
    BY DEF HostReset, mailbox, vehicle
  <1>10. TypeOK'
    <2>1. c' \in ClientType
      BY <1>7
    <2>2. lock' \in Tasks \cup {"free", "host"}
      BY <1>6 DEF TypeOK, BleInv, Tasks
    <2>3. host' \in HostType
      BY <1>7
    <2>4. gap' \in GapType
      BY <1>1, GenAssumption, QueueAssumption DEF BleInv, GapType
    <2>5. QED
      BY <2>1, <2>2, <2>3, <2>4, <1>7, <1>8, <1>9 DEF TypeOK
  <1>11. Slices'
    BY <1>9 DEF Slices, BleInv
  <1>12. Locking'
    BY <1>6, <1>7, <1>9 DEF Locking, Publishing, BleInv, At, Tasks
  <1>13. Generations'
    BY <1>1, <1>3, <1>5, <1>6, <1>7 DEF Generations, BleInv, Ranges, ClientType, HostIdle
  <1>14. Radio'
    BY <1>1, <1>2, <1>3, <1>4, <1>5, <1>6, <1>7, <1>8, <1>9 DEF Radio, ScanStateIsTrue,
       BleInv
  <1>15. Places'
    BY <1>9 DEF Places, BleInv, At
  <1>16. Wanted'
    <2>1. c'.ready = NoGen /\ (c'.want => c.want)
      BY <1>3, <1>5, <1>6
    <2>2. Publishing' <=> Publishing
      BY <1>9 DEF Publishing
    <2>3. QED
      BY <1>9, <2>1, <2>2 DEF Wanted, BleInv
  <1>17. Order'
    <2>1. Latest <= Latest'
      BY <1>3, <1>5, <1>6 DEF Ranges, Latest
    <2>2. queue' = queue /\ app' \in {app, NoGen} /\ peers' \in {peers, NoGen}
          /\ ev' \in {ev, NoEvent}
      BY <1>9
    <2>3. QED
      BY <1>10, <2>1, <2>2, OrderStays DEF BleInv
  <1>18. Barrier'
    BY <1>3, <1>4, <1>5, <1>6, <1>7, <1>8, <1>9 DEF Generations, Radio, Order, Ordered,
       Precedes, Latest, Retiring, Barrier, Barred, BleInv, Ranges
  <1>19. Stream'
    <2>1. Open' => Open /\ link'.rx = link.rx
      BY <1>7 DEF Open, SnapshotMatches
    <2>2. c'.gen = c.gen \/ (c'.gen = c.gen + 1 /\ ~Open')
      BY <1>1, <1>2, <1>3, <1>4, <1>5, <1>6, <1>7, <1>8, <1>9 DEF Open, BleInv
    <2>3. QED
      BY <1>9, <2>1, <2>2, StreamStays DEF BleInv
  <1>20. QED
    BY <1>10, <1>11, <1>12, <1>13, <1>14, <1>15, <1>16, <1>17, <1>18, <1>19 DEF BleInv

\* The controller ends a link it was told to end; what is published about it stays until the
\* callback.
LEMMA LinkEndsKeeps ==
    ASSUME TypeOK, Ranges, BleInv, LinkEnds
    PROVE  TypeOK' /\ BleInv'
  <1> USE DEF LinkEnds, host_vars, mailbox, vehicle
  <1>1. TypeOK'
    <2>1. link' \in LinkType
      BY DEF Ranges, LinkType, ClientType
    <2>2. QED
      BY <2>1 DEF TypeOK
  <1>2. Slices'
    BY DEF Slices, BleInv
  <1>3. Locking'
    BY DEF Locking, Publishing, BleInv, At, Tasks
  <1>4. Generations'
    BY DEF Generations, BleInv
  <1>5. Radio'
    BY DEF Radio, ScanStateIsTrue, BleInv
  <1>6. Places'
    BY DEF Places, BleInv, At
  <1>7. Wanted'
    BY DEF Wanted, Publishing, BleInv, Ranges, At, Tasks
  <1>8. Order'
    <2>1. Latest <= Latest'
      BY DEF Ranges, Latest, Retiring
    <2>2. QED
      BY <1>1, <2>1, OrderStays DEF BleInv
  <1>9. Barrier'
    BY DEF Barrier, Retiring, BleInv, At
  <1>10. Stream'
    <2>1. Open' => Open /\ link'.rx = link.rx
      BY DEF Open
    <2>2. QED
      BY <2>1, StreamStays DEF BleInv
  <1>11. QED
    BY <1>1, <1>2, <1>3, <1>4, <1>5, <1>6, <1>7, <1>8, <1>9, <1>10 DEF BleInv

\* The controller loses a link; what is published about it stays until the callback.
LEMMA LinkDropsKeeps ==
    ASSUME TypeOK, Ranges, BleInv, LinkDrops
    PROVE  TypeOK' /\ BleInv'
  <1> USE DEF LinkDrops, host_vars, mailbox, vehicle
  <1>1. TypeOK'
    <2>1. link' \in LinkType
      BY DEF Ranges, LinkType, ClientType
    <2>2. QED
      BY <2>1 DEF TypeOK
  <1>2. Slices'
    BY DEF Slices, BleInv
  <1>3. Locking'
    BY DEF Locking, Publishing, BleInv, At, Tasks
  <1>4. Generations'
    BY DEF Generations, BleInv
  <1>5. Radio'
    BY DEF Radio, ScanStateIsTrue, BleInv
  <1>6. Places'
    BY DEF Places, BleInv, At
  <1>7. Wanted'
    BY DEF Wanted, Publishing, BleInv, Ranges, At, Tasks
  <1>8. Order'
    <2>1. Latest <= Latest'
      BY DEF Ranges, Latest, Retiring
    <2>2. QED
      BY <1>1, <2>1, OrderStays DEF BleInv
  <1>9. Barrier'
    BY DEF Barrier, Retiring, BleInv, At
  <1>10. Stream'
    <2>1. Open' => Open /\ link'.rx = link.rx
      BY DEF Open
    <2>2. QED
      BY <2>1, StreamStays DEF BleInv
  <1>11. QED
    BY <1>1, <1>2, <1>3, <1>4, <1>5, <1>6, <1>7, <1>8, <1>9, <1>10 DEF BleInv

-----------------------------------------------------------------------------
(* The operations of the tasks and the scan timer.                          *)

\* connect(): the request stands from here on, and is the only thing that makes a link wanted.
LEMMA CmdConnectKeeps ==
    ASSUME TypeOK, Ranges, BleInv, CmdConnect
    PROVE  TypeOK' /\ BleInv'
  <1>1. Connect("cmd", "idle", "wait")
    BY DEF CmdConnect
  <1>2. At("cmd", "idle") /\ lock = "free"
    BY <1>1 DEF Connect
  <1>3. \/ task' = [task EXCEPT !["cmd"] = Resting("wait")] /\ UNCHANGED <<c, lock, intent>>
        \/ /\ c' = [c EXCEPT !.want = TRUE] /\ intent' = TRUE /\ lock' = "cmd"
           /\ \/ task' = [task EXCEPT !["cmd"] = [Resting("release") EXCEPT !.next = "wait"]]
              \/ task' = [task EXCEPT !["cmd"] = [Resting("release") EXCEPT !.next = "scan",
                                                  !.back = "wait"]]
    BY <1>1 DEF Connect, Go
  <1>4. /\ c' \in ClientType /\ task' \in [Tasks -> TaskType]
        /\ \/ lock' = lock /\ intent' = intent /\ c'.want = c.want /\ task'["cmd"].at = "wait"
           \/ lock' = "cmd" /\ intent' = TRUE /\ c'.want /\ task'["cmd"].at = "release"
        /\ task'["cmd"].next \in Returns /\ task'["cmd"].back \in Returns
        /\ \A u \in Tasks : u # "cmd" => task'[u] = task[u]
    <2>1. /\ "cmd" \in Tasks /\ "release" \in Steps /\ "scan" \in Steps /\ "wait" \in Steps
          /\ "idle" \in Steps /\ 0 \in Gens /\ task \in [Tasks -> TaskType]
          /\ {"idle", "scan", "wait"} \subseteq Returns
      BY DEF Tasks, Steps, Ranges, Returns
    <2>2. c \in ClientType /\ [c EXCEPT !.want = TRUE] \in ClientType
          /\ [c EXCEPT !.want = TRUE].want = TRUE
      BY DEF Ranges, ClientType
    <2>3. PICK r \in TaskType :
             /\ r.next \in Returns /\ r.back \in Returns /\ task' = [task EXCEPT !["cmd"] = r]
             /\ \/ r.at = "wait" /\ UNCHANGED <<c, lock, intent>>
                \/ r.at = "release" /\ c' = [c EXCEPT !.want = TRUE] /\ intent' = TRUE
                   /\ lock' = "cmd"
      <3>1. LET r == Resting("wait")
            IN r \in TaskType /\ r.at = "wait" /\ r.next \in Returns /\ r.back \in Returns
        BY <2>1, RestingTyped
      <3>2. LET r == [Resting("release") EXCEPT !.next = "wait"]
            IN r \in TaskType /\ r.at = "release" /\ r.next \in Returns /\ r.back \in Returns
        BY <2>1, NextTyped
      <3>3. LET r == [Resting("release") EXCEPT !.next = "scan", !.back = "wait"]
            IN r \in TaskType /\ r.at = "release" /\ r.next \in Returns /\ r.back \in Returns
        <4>1. PICK q : q = Resting("release")
          OBVIOUS
        <4>2. q \in TaskType /\ q.at = "release"
          BY <2>1, <4>1, RestingTyped
        <4>3. LET r == [q EXCEPT !.next = "scan", !.back = "wait"]
              IN r \in TaskType /\ r.at = "release" /\ r.next = "scan" /\ r.back = "wait"
          BY <2>1, <4>2 DEF TaskType
        <4>4. QED
          BY <2>1, <4>1, <4>3
      <3>4. QED
        BY <1>3, <3>1, <3>2, <3>3
    <2>4. task' \in [Tasks -> TaskType] /\ task'["cmd"] = r
          /\ \A u \in Tasks : u # "cmd" => task'[u] = task[u]
      BY <2>1, <2>3, TaskTyped
    <2>5. QED
      BY <2>2, <2>3, <2>4
  <1>5. /\ c'.connecting = c.connecting /\ c'.scanning = c.scanning
        /\ c'.synced = c.synced /\ c'.gen = c.gen /\ c'.handle = c.handle
        /\ c'.write = c.write /\ c'.ready = c.ready /\ c'.discon = c.discon
        /\ c'.term = c.term
    BY <1>3 DEF Ranges, ClientType
  <1>6. UNCHANGED <<host, timer, gap, link, proc, queue, overflow, ev, app, peers, framer,
                    fault, faults>>
    BY <1>1 DEF Connect, radio, mailbox, vehicle
  <1>7. TypeOK'
    <2>1. lock' \in Tasks \cup {"free", "host"}
      BY <1>4 DEF TypeOK, Tasks
    <2>2. QED
      BY <2>1, <1>4, <1>6 DEF TypeOK
  <1>8. Slices'
    BY <1>6 DEF Slices, BleInv
  <1>9. Locking'
    BY <1>2, <1>4, <1>6 DEF Locking, Publishing, BleInv, At, Tasks
  <1>10. Generations'
    BY <1>5, <1>6 DEF Generations, BleInv
  <1>11. Radio'
    BY <1>5, <1>6 DEF Radio, ScanStateIsTrue, BleInv
  <1>12. Places'
    BY <1>4, <1>6 DEF Places, BleInv, At, Tasks
  <1>13. Wanted'
    <2>1. Publishing' => Publishing
      BY <1>4 DEF Publishing, Tasks
    <2>2. ~Publishing
      BY <1>2 DEF BleInv, Locking, Tasks
    <2>3. c'.ready # NoGen => HasGapLink(c) /\ c.ready = c.gen /\ (app = c.gen \/ At("loop",
          "disconnect"))
      BY <1>5, <2>2 DEF BleInv, Wanted, Publishing, At
    <2>4. HasGapLink(c') <=> HasGapLink(c)
      BY <1>5 DEF HasGapLink
    <2>5. /\ (c'.want => intent') /\ (intent => intent')
      BY <1>4 DEF BleInv, Wanted
    <2>6. c'.ready # NoGen => app = c.gen \/ At("loop", "disconnect")'
      BY <1>4, <2>3 DEF At, Tasks
    <2>7. ev.kind # "none" => task'["loop"].at = task["loop"].at
      BY <1>4 DEF Tasks
    <2>8. QED
      BY <1>5, <1>6, <2>1, <2>3, <2>4, <2>5, <2>6, <2>7 DEF Wanted, BleInv, Slices
  <1>14. Order'
    <2>1. Latest <= Latest'
      BY <1>5, <1>6 DEF Ranges, Latest, Retiring
    <2>2. queue' = queue /\ app' \in {app, NoGen} /\ peers' \in {peers, NoGen}
          /\ ev' \in {ev, NoEvent}
      BY <1>6
    <2>3. QED
      BY <1>7, <2>1, <2>2, OrderStays DEF BleInv
  <1>15. Barrier'
    BY <1>4, <1>5, <1>6 DEF Barrier, Retiring, BleInv, At, Tasks
  <1>16. Stream'
    <2>1. Open' => Open /\ link'.rx = link.rx
      BY <1>5, <1>6 DEF Open, SnapshotMatches
    <2>2. c'.gen = c.gen \/ (c'.gen = c.gen + 1 /\ ~Open')
      BY <1>5
    <2>3. QED
      BY <1>6, <2>1, <2>2, StreamStays DEF BleInv
  <1>17. QED
    BY <1>7, <1>8, <1>9, <1>10, <1>11, <1>12, <1>13, <1>14, <1>15, <1>16 DEF BleInv

\* ensure_connected_until_(): the wait ends with a ready link.
LEMMA CmdLinkedKeeps ==
    ASSUME TypeOK, Ranges, BleInv, CmdLinked
    PROVE  TypeOK' /\ BleInv'
  <1> USE DEF CmdLinked, At, Go, Resting, IsConnected, HasGapLink, host_vars, radio, mailbox,
      vehicle
  <1>1. TypeOK'
    <2>1. task' \in [Tasks -> TaskType]
      BY DEF Ranges, TaskType, Steps
    <2>2. QED
      BY <2>1 DEF TypeOK
  <1>2. Slices'
    BY DEF Slices, BleInv
  <1>3. Locking'
    BY DEF Locking, Publishing, Returns, BleInv
  <1>4. Generations'
    BY DEF Generations, BleInv
  <1>5. Radio'
    BY DEF Radio, ScanStateIsTrue, BleInv
  <1>6. Places'
    BY DEF Places, BleInv
  <1>7. Wanted'
    BY DEF Wanted, Publishing, BleInv
  <1>8. Order'
    <2>1. Latest <= Latest'
      BY DEF Ranges, Latest, Retiring
    <2>2. QED
      BY <1>1, <2>1, OrderStays DEF BleInv
  <1>9. Barrier'
    BY DEF Barrier, Retiring, BleInv
  <1>10. Stream'
    <2>1. Open' => Open /\ link'.rx = link.rx
      BY DEF Open
    <2>2. QED
      BY <2>1, StreamStays DEF BleInv
  <1>11. QED
    BY <1>1, <1>2, <1>3, <1>4, <1>5, <1>6, <1>7, <1>8, <1>9, <1>10 DEF BleInv

\* ensure_connected_until_(): the wait ends at the deadline of the attempt.
LEMMA CmdDeadlineKeeps ==
    ASSUME TypeOK, Ranges, BleInv, CmdDeadline
    PROVE  TypeOK' /\ BleInv'
  <1> USE DEF CmdDeadline, At, Go, Resting, IsConnected, HasGapLink, host_vars, radio, mailbox,
      vehicle
  <1>1. TypeOK'
    <2>1. task' \in [Tasks -> TaskType]
      BY DEF Ranges, TaskType, Steps
    <2>2. QED
      BY <2>1 DEF TypeOK
  <1>2. Slices'
    BY DEF Slices, BleInv
  <1>3. Locking'
    BY DEF Locking, Publishing, Returns, BleInv
  <1>4. Generations'
    BY DEF Generations, BleInv
  <1>5. Radio'
    BY DEF Radio, ScanStateIsTrue, BleInv
  <1>6. Places'
    BY DEF Places, BleInv
  <1>7. Wanted'
    BY DEF Wanted, Publishing, BleInv
  <1>8. Order'
    <2>1. Latest <= Latest'
      BY DEF Ranges, Latest, Retiring
    <2>2. QED
      BY <1>1, <2>1, OrderStays DEF BleInv
  <1>9. Barrier'
    BY DEF Barrier, Retiring, BleInv
  <1>10. Stream'
    <2>1. Open' => Open /\ link'.rx = link.rx
      BY DEF Open
    <2>2. QED
      BY <2>1, StreamStays DEF BleInv
  <1>11. QED
    BY <1>1, <1>2, <1>3, <1>4, <1>5, <1>6, <1>7, <1>8, <1>9, <1>10 DEF BleInv

\* stop_connecting(): the request ends, the link that came for it is not ready any more, and a
\* scan for it is canceled.
LEMMA CmdStopKeeps ==
    ASSUME TypeOK, Ranges, BleInv, CmdStop
    PROVE  TypeOK' /\ BleInv'
  <1>1. PICK b : b = [c EXCEPT !.want = FALSE]
    OBVIOUS
  <1>2. /\ b \in ClientType /\ ~b.want /\ b.connecting = c.connecting /\ b.synced = c.synced
        /\ b.gen = c.gen /\ b.handle = c.handle /\ b.write = c.write /\ b.ready = c.ready
        /\ b.discon = c.discon /\ b.term = c.term /\ b.scanning = c.scanning
    BY <1>1 DEF Ranges, ClientType
  <1>3. \/ /\ HasGapLink(c)
           /\ c' = [c EXCEPT !.want = FALSE, !.discon = TRUE, !.ready = NoGen]
           /\ task' = [task EXCEPT !["cmd"] = [at |-> "release", next |-> "terminate",
                                               back |-> "idle", gen |-> c.gen]]
           /\ UNCHANGED <<gap, faults>>
        \/ /\ ~HasGapLink(c)
           /\ Take(CancelScan(b, gap))
           /\ task' = [task EXCEPT !["cmd"] = [Resting("release") EXCEPT !.next = "idle"]]
    BY <1>1 DEF CmdStop, StopConnecting
  <1>4. ~HasGapLink(c) => ScanMoves(b, gap) /\ gap' \in {gap, "idle"}
    <2>1. gap \in GapType /\ faults \in 0..MaxFaults
      BY DEF Ranges
    <2>2. QED
      BY <1>2, <1>3, <2>1, CancelMoves
  <1>5. /\ c' \in ClientType /\ gap' \in GapType /\ faults' \in 0..MaxFaults
        /\ ~c'.want /\ c'.connecting = c.connecting /\ c'.synced = c.synced
        /\ c'.gen = c.gen /\ c'.handle = c.handle /\ c'.write = c.write
        /\ c'.ready \in {c.ready, NoGen} /\ (HasGapLink(c) => c'.ready = NoGen)
        /\ (~c'.discon => ~c.discon) /\ c'.term = c.term
        /\ (~HasGapLink(c) => c'.discon = c.discon)
        /\ (c'.scanning <=> gap' = "scan") /\ gap' \in {gap, "idle"}
    <2>1. CASE HasGapLink(c)
      <3>1. /\ c' = [c EXCEPT !.want = FALSE, !.discon = TRUE, !.ready = NoGen]
            /\ gap' = gap /\ faults' = faults
        BY <1>3, <2>1
      <3>2. c \in ClientType /\ gap \in GapType /\ faults \in 0..MaxFaults
        BY DEF Ranges
      <3>3. c.scanning <=> gap = "scan"
        BY DEF BleInv, Radio, ScanStateIsTrue
      <3>4. /\ c' \in ClientType /\ ~c'.want /\ c'.discon /\ c'.ready = NoGen
            /\ c'.connecting = c.connecting /\ c'.scanning = c.scanning
            /\ c'.synced = c.synced /\ c'.gen = c.gen /\ c'.handle = c.handle
            /\ c'.write = c.write /\ c'.term = c.term
        BY <3>1, <3>2 DEF ClientType
      <3>5. QED
        BY <2>1, <3>1, <3>2, <3>3, <3>4
    <2>2. CASE ~HasGapLink(c)
      BY <1>2, <1>4, <2>2 DEF ScanMoves, SameButScan, BleInv, Radio, ScanStateIsTrue
    <2>3. QED
      BY <2>1, <2>2
  <1>6. /\ At("cmd", "stop") /\ lock = "free" /\ lock' = "cmd" /\ intent' = FALSE
        /\ UNCHANGED <<host, timer, link, proc, queue, overflow, ev, app, peers, framer, fault>>
    BY DEF CmdStop, StopConnecting, mailbox, vehicle
  <1>7. /\ task' \in [Tasks -> TaskType] /\ task'["cmd"].at = "release"
        /\ task'["cmd"].next \in Returns /\ task'["cmd"].back \in Returns
        /\ \A u \in Tasks : u # "cmd" => task'[u] = task[u]
    <2>1. PICK n, m : /\ n = [at |-> "release", next |-> "terminate", back |-> "idle",
                              gen |-> c.gen]
                      /\ m = [Resting("release") EXCEPT !.next = "idle"]
      OBVIOUS
    <2>2. /\ "release" \in Steps /\ "terminate" \in Steps /\ "idle" \in Steps
          /\ 0 \in Gens /\ c.gen \in Gens /\ task \in [Tasks -> TaskType] /\ "cmd" \in Tasks
          /\ "idle" \in Returns /\ "terminate" \in Returns
      BY DEF Ranges, Steps, Tasks, Returns
    <2>3. n \in TaskType /\ n.at = "release" /\ n.next = "terminate" /\ n.back = "idle"
      BY <2>1, <2>2 DEF TaskType
    <2>4. m \in TaskType /\ m.at = "release" /\ m.next = "idle" /\ m.back = "idle"
      BY <2>1, <2>2, NextTyped
    <2>5. PICK r \in {n, m} : task' = [task EXCEPT !["cmd"] = r]
      BY <1>3, <2>1
    <2>6. task' \in [Tasks -> TaskType] /\ task'["cmd"] = r
          /\ \A u \in Tasks : u # "cmd" => task'[u] = task[u]
      BY <2>2, <2>3, <2>4, <2>5, TaskTyped
    <2>7. QED
      BY <2>2, <2>3, <2>4, <2>5, <2>6
  <1>8. TypeOK'
    <2>1. c' \in ClientType
      BY <1>5
    <2>2. lock' \in Tasks \cup {"free", "host"}
      BY <1>6 DEF BleInv, Tasks
    <2>3. host' \in HostType
      BY <1>6, QueueAssumption DEF Ranges
    <2>4. QED
      BY <2>1, <2>2, <2>3, <1>2, <1>3, <1>4, <1>5, <1>6, <1>7 DEF TypeOK
  <1>9. Slices'
    BY <1>6 DEF Slices, BleInv
  <1>10. Locking'
    BY <1>6, <1>7 DEF Locking, Publishing, BleInv, At, Tasks
  <1>11. Generations'
    BY <1>5, <1>6 DEF Generations, BleInv
  <1>12. Radio'
    BY <1>5, <1>6, <1>7 DEF Radio, ScanStateIsTrue, BleInv
  <1>13. Places'
    BY <1>6, <1>7 DEF Places, BleInv, At, Tasks
  <1>14. Wanted'
    <2>1. ~Publishing /\ ~Publishing'
      BY <1>6, <1>7 DEF BleInv, Locking, Tasks, Publishing
    <2>2. c'.ready = NoGen /\ ~c'.want
      BY <1>5, <2>1 DEF BleInv, Wanted, Publishing, At
    <2>3. QED
      BY <2>1, <2>2 DEF Wanted
  <1>15. Order'
    <2>1. Latest <= Latest'
      BY <1>5, <1>6, <1>7 DEF Ranges, Latest, Retiring
    <2>2. queue' = queue /\ app' \in {app, NoGen} /\ peers' \in {peers, NoGen}
          /\ ev' \in {ev, NoEvent}
      BY <1>6
    <2>3. QED
      BY <1>8, <2>1, <2>2, OrderStays DEF BleInv
  <1>16. Barrier'
    BY <1>5, <1>6, <1>7 DEF Barrier, Retiring, BleInv, At, Tasks
  <1>17. Stream'
    <2>1. Open' => Open /\ link'.rx = link.rx
      BY <1>5, <1>6 DEF Open, SnapshotMatches
    <2>2. c'.gen = c.gen \/ (c'.gen = c.gen + 1 /\ ~Open')
      BY <1>5
    <2>3. QED
      BY <1>6, <1>7, <2>1, <2>2, StreamStays DEF BleInv
  <1>18. QED
    BY <1>8, <1>9, <1>10, <1>11, <1>12, <1>13, <1>14, <1>15, <1>16, <1>17 DEF BleInv

\* disconnect(): the link is not ready any more and its generation is the one to terminate.
LEMMA CmdDisconnectKeeps ==
    ASSUME TypeOK, Ranges, BleInv, CmdDisconnect
    PROVE  TypeOK' /\ BleInv'
  <1>1. Disconnect("cmd", "idle", "idle")
    BY DEF CmdDisconnect
  <1>2. At("cmd", "idle") /\ lock = "free" /\ lock' = "cmd" /\ intent' = FALSE
    BY <1>1 DEF Disconnect
  <1>3. /\ c' = [c EXCEPT !.discon = TRUE, !.ready = NoGen, !.want = FALSE]
        /\ task' = [task EXCEPT !["cmd"] = [at |-> "release", next |-> "terminate",
                                            back |-> "idle",
                                           gen |-> Settled(c.gen)]]
    BY <1>1 DEF Disconnect
  <1>4. Settled(c.gen) \in Gens
    BY DEF Ranges, BleInv, Generations
  <1>5. c' \in ClientType
    BY <1>3 DEF Ranges, ClientType
  <1>6. /\ c'.want = FALSE /\ c'.connecting = c.connecting /\ c'.scanning = c.scanning
        /\ c'.synced = c.synced /\ c'.gen = c.gen /\ c'.handle = c.handle
        /\ c'.write = c.write /\ c'.ready = NoGen /\ c'.discon = TRUE /\ c'.term = c.term
    BY <1>3 DEF Ranges, ClientType
  <1>7. /\ task'["cmd"].at = "release" /\ task'["cmd"].next \in Returns
        /\ task'["cmd"].back \in Returns
        /\ \A u \in Tasks : u # "cmd" => task'[u] = task[u]
    BY <1>3 DEF Ranges, Tasks, Returns
  <1>8. task' \in [Tasks -> TaskType]
    BY <1>3, <1>4 DEF Ranges, TaskType, Steps
  <1>9. UNCHANGED <<host, timer, gap, link, proc, queue, overflow, ev, app, peers, framer,
                    fault, faults>>
    BY <1>1 DEF Disconnect, radio, mailbox, vehicle
  <1>10. TypeOK'
    <2>1. intent' \in BOOLEAN
      BY <1>1, <1>2
    <2>2. QED
      BY <2>1, <1>2, <1>3, <1>5, <1>6, <1>7, <1>8, <1>9 DEF TypeOK
  <1>11. Slices'
    BY <1>9 DEF Slices, BleInv
  <1>12. Locking'
    BY <1>2, <1>7, <1>9 DEF Locking, Publishing, BleInv, At, Tasks
  <1>13. Generations'
    BY <1>6, <1>9 DEF Generations, BleInv
  <1>14. Radio'
    BY <1>6, <1>9 DEF Radio, ScanStateIsTrue, BleInv
  <1>15. Places'
    BY <1>3, <1>9 DEF Places, BleInv, At
  <1>16. Wanted'
    <2>1. ~Publishing'
      BY <1>2, <1>7 DEF BleInv, Locking, Tasks, Publishing
    <2>2. c'.ready = NoGen /\ ~c'.want
      BY <1>6
    <2>3. QED
      BY <2>1, <2>2 DEF Wanted
  <1>17. Order'
    <2>1. Latest <= Latest'
      BY <1>6, <1>9 DEF Ranges, Latest, Retiring
    <2>2. queue' = queue /\ app' \in {app, NoGen} /\ peers' \in {peers, NoGen}
          /\ ev' \in {ev, NoEvent}
      BY <1>9
    <2>3. QED
      BY <1>10, <2>1, <2>2, OrderStays DEF BleInv
  <1>18. Barrier'
    BY <1>3, <1>9 DEF Barrier, Retiring, BleInv, At
  <1>19. Stream'
    <2>1. Open' => Open /\ link'.rx = link.rx
      BY <1>6 DEF Open, SnapshotMatches
    <2>2. c'.gen = c.gen \/ (c'.gen = c.gen + 1 /\ ~Open')
      BY <1>3
    <2>3. QED
      BY <1>9, <2>1, <2>2, StreamStays DEF BleInv
  <1>20. QED
    BY <1>10, <1>11, <1>12, <1>13, <1>14, <1>15, <1>16, <1>17, <1>18, <1>19 DEF BleInv

\* start_discovery(): a manual scan, which no link and no attempt share the radio with.
LEMMA StartDiscoveryKeeps ==
    ASSUME TypeOK, Ranges, BleInv, StartDiscovery
    PROVE  TypeOK' /\ BleInv'
  <1>1. Take(StartScan(c, gap)) /\ timer' \in BOOLEAN
    BY DEF StartDiscovery, Take, TypeOK
  <1>2. ScanMoves(c, gap)
    <2>1. /\ c \in ClientType /\ gap \in GapType /\ faults \in 0..MaxFaults
          /\ lock = "free" /\ ~HasGapLink(c) /\ ~c.connecting
      BY DEF StartDiscovery, Ranges
    <2>2. QED
      BY <1>1, <2>1, StartMoves
  <1>3. /\ c' \in ClientType /\ gap' \in GapType /\ faults' \in 0..MaxFaults
        /\ c'.want = c.want /\ c'.connecting = c.connecting /\ c'.synced = c.synced
        /\ c'.gen = c.gen /\ c'.handle = c.handle /\ c'.write = c.write /\ c'.ready = c.ready
        /\ c'.discon = c.discon /\ c'.term = c.term
        /\ c'.scanning <=> gap' = "scan"
        /\ gap' # gap => gap' = "idle" \/ (gap' = "scan" /\ lock = "free" /\ ~c.discon
              /\ ~c.connecting
              /\ (Odd(c.gen) \/ ~c.handle))
    BY <1>2 DEF ScanMoves, SameButScan, Quiet, HasGapLink, BleInv, Radio, ScanStateIsTrue
  <1>4. /\ At("cmd", "idle") /\ lock = "free" /\ Hold("cmd", "idle")
        /\ UNCHANGED <<host, link, proc, queue, overflow, ev, app, peers, framer, fault,
                       intent>>
    BY DEF StartDiscovery, mailbox, vehicle
  <1>5. TypeOK'
    <2>1. lock' \in Tasks \cup {"free", "host"}
      BY <1>4 DEF Hold, Tasks
    <2>2. task' \in [Tasks -> TaskType]
      BY <1>4 DEF Ranges, TaskType, Tasks, Hold, Resting, Steps
    <2>3. timer' \in BOOLEAN
      BY <1>1
    <2>4. gap' \in GapType
      BY <1>3
    <2>5. QED
      BY <2>1, <2>2, <2>3, <2>4, <1>3, <1>4 DEF TypeOK
  <1>6. Slices'
    BY <1>4 DEF Slices, BleInv
  <1>7. Locking'
    BY <1>4 DEF Locking, Publishing, Returns, BleInv, Ranges, At, Tasks, TaskType, Hold,
       Resting, PushLink, LinkCell
  <1>8. Generations'
    BY <1>3, <1>4 DEF Generations, BleInv
  <1>9. Radio'
    BY <1>3, <1>4 DEF Radio, ScanStateIsTrue, Locking, Generations, BleInv
  <1>10. Places'
    BY <1>4 DEF Places, BleInv, At, Hold
  <1>11. Wanted'
    BY <1>3, <1>4 DEF Wanted, Publishing, HasGapLink, BleInv, At, Hold, HostGoes
  <1>12. Order'
    <2>1. Latest <= Latest'
      BY <1>3, <1>4 DEF Ranges, Latest, Retiring
    <2>2. queue' = queue /\ app' \in {app, NoGen} /\ peers' \in {peers, NoGen}
          /\ ev' \in {ev, NoEvent}
      BY <1>4
    <2>3. QED
      BY <1>5, <2>1, <2>2, OrderStays DEF BleInv
  <1>13. Barrier'
    BY <1>3, <1>4 DEF Barrier, Retiring, BleInv, At, Hold
  <1>14. Stream'
    <2>1. Open' => Open /\ link'.rx = link.rx
      BY <1>3, <1>4 DEF Open, SnapshotMatches
    <2>2. c'.gen = c.gen \/ (c'.gen = c.gen + 1 /\ ~Open')
      BY <1>3
    <2>3. QED
      BY <1>4, <2>1, <2>2, StreamStays DEF BleInv
  <1>15. QED
    BY <1>5, <1>6, <1>7, <1>8, <1>9, <1>10, <1>11, <1>12, <1>13, <1>14 DEF BleInv

\* on_scan_timeout(): the manual scan ends; a scan that a wanted link took over goes on.
LEMMA ScanTimeoutKeeps ==
    ASSUME TypeOK, Ranges, BleInv, ScanTimeout
    PROVE  TypeOK' /\ BleInv'
  <1>1. ScanMoves(c, gap) /\ gap' \in {gap, "idle"}
    <2>1. c \in ClientType /\ gap \in GapType /\ faults \in 0..MaxFaults
      BY DEF Ranges
    <2>2. CASE Take(CancelScan(c, gap))
      BY <2>1, <2>2, CancelMoves
    <2>3. CASE Take({Outcome(c, gap, 0)})
      <3>1. gap' = gap
        BY <2>3 DEF Take, Outcome
      <3>2. QED
        BY <2>1, <2>3, <3>1, NoMoves
    <2>4. QED
      BY <2>2, <2>3 DEF ScanTimeout
  <1>2. /\ c' \in ClientType /\ gap' \in GapType /\ faults' \in 0..MaxFaults
        /\ c'.want = c.want /\ c'.connecting = c.connecting /\ c'.synced = c.synced
        /\ c'.gen = c.gen /\ c'.handle = c.handle /\ c'.write = c.write /\ c'.ready = c.ready
        /\ c'.discon = c.discon /\ c'.term = c.term
        /\ c'.scanning <=> gap' = "scan"
    BY <1>1 DEF ScanMoves, SameButScan, BleInv, Radio, ScanStateIsTrue
  <1>3. /\ timer' = FALSE
        /\ UNCHANGED <<lock, host, task, link, proc, queue, overflow, ev, app, peers,
                       framer, fault, intent>>
    BY DEF ScanTimeout, host_vars, mailbox, vehicle
  <1>4. TypeOK'
    <2>1. QED
      BY <1>2, <1>3 DEF TypeOK
  <1>5. Slices'
    BY <1>3 DEF Slices, BleInv
  <1>6. Locking'
    BY <1>3 DEF Locking, Publishing, BleInv, At, Tasks
  <1>7. Generations'
    BY <1>2, <1>3 DEF Generations, BleInv
  <1>8. Radio'
    BY <1>1, <1>2, <1>3 DEF Radio, ScanStateIsTrue, BleInv
  <1>9. Places'
    BY <1>3 DEF Places, BleInv, At
  <1>10. Wanted'
    BY <1>2, <1>3 DEF Wanted, Publishing, HasGapLink, BleInv, At
  <1>11. Order'
    <2>1. Latest <= Latest'
      BY <1>2, <1>3 DEF Ranges, Latest, Retiring
    <2>2. queue' = queue /\ app' \in {app, NoGen} /\ peers' \in {peers, NoGen}
          /\ ev' \in {ev, NoEvent}
      BY <1>1, <1>2, <1>3
    <2>3. QED
      BY <1>4, <2>1, <2>2, OrderStays DEF BleInv
  <1>12. Barrier'
    BY <1>2, <1>3 DEF Barrier, Retiring, BleInv, At
  <1>13. Stream'
    <2>1. Open' => Open /\ link'.rx = link.rx
      BY <1>2, <1>3 DEF Open, SnapshotMatches
    <2>2. c'.gen = c.gen \/ (c'.gen = c.gen + 1 /\ ~Open')
      BY <1>1, <1>2
    <2>3. QED
      BY <1>3, <2>1, <2>2, StreamStays DEF BleInv
  <1>14. QED
    BY <1>4, <1>5, <1>6, <1>7, <1>8, <1>9, <1>10, <1>11, <1>12, <1>13 DEF BleInv

\* A critical section ends: its task held the mutex and nobody else does now (std::lock_guard).
LEMMA ReleaseKeeps ==
    ASSUME TypeOK, Ranges, BleInv, NEW t \in Tasks, Release(t)
    PROVE  TypeOK' /\ BleInv'
  <1>1. /\ At(t, "release") /\ lock' = "free" /\ task[t].next \in Returns
           /\ task[t].back \in Returns
    BY DEF Release, BleInv, Locking
  <1>2. task[t] \in TaskType /\ task \in [Tasks -> TaskType] /\ 0 \in Gens
        /\ task[t].next \in Steps
    BY DEF Ranges, TaskType
  <1>3. PICK r : r = (IF task[t].next \in {"scan", "terminate"}
                        THEN [task[t] EXCEPT !.at = task[t].next, !.next = "idle"]
                        ELSE Resting(task[t].next))
    OBVIOUS
  <1>4. /\ r \in TaskType /\ r.at = task[t].next /\ r.next \in Returns /\ r.back \in Returns
    <2>1. CASE r = Resting(task[t].next)
      BY <1>2, <2>1, RestingTyped DEF Returns
    <2>2. CASE r = [task[t] EXCEPT !.at = task[t].next, !.next = "idle"]
      BY <1>1, <1>2, <2>2 DEF TaskType, Steps, Returns
    <2>3. QED
      BY <1>3, <2>1, <2>2
  <1>5. task' = [task EXCEPT ![t] = r]
    BY <1>3 DEF Release
  <1>6. /\ task' \in [Tasks -> TaskType] /\ task'[t] = r
        /\ \A u \in Tasks : u # t => task'[u] = task[u]
    BY <1>2, <1>4, <1>5
  <1>7. UNCHANGED <<c, host, timer, gap, link, proc, queue, overflow, ev, app, peers, framer,
                    fault, intent, faults>>
    BY DEF Release, radio, mailbox, vehicle
  <1>8. TypeOK'
    <2>1. QED
      BY <1>1, <1>6, <1>7 DEF TypeOK
  <1>9. Slices'
    BY <1>7 DEF Slices, BleInv
  <1>10. Locking'
    BY <1>1, <1>4, <1>5, <1>6, <1>7 DEF Locking, Publishing, Returns, BleInv, At, Tasks,
       HostType, HostGoes, Resting, PushLink
  <1>11. Generations'
    BY <1>7 DEF Generations, BleInv
  <1>12. Radio'
    BY <1>7 DEF Radio, ScanStateIsTrue, BleInv
  <1>13. ~Publishing /\ ~Publishing'
    <2>1. ~Publishing
      BY <1>1 DEF BleInv, Locking, Publishing, At, Tasks
    <2>2. task'["loop"].at \in Returns \/ task'["loop"] = task["loop"]
      BY <1>1, <1>4, <1>6 DEF Tasks
    <2>3. QED
      BY <2>1, <2>2 DEF Publishing, Returns
  <1>14. \/ task'["loop"] = task["loop"]
         \/ task["loop"].at = "release" /\ task'["loop"].at \in Returns
    BY <1>1, <1>4, <1>6 DEF At, Tasks
  <1>15. Places'
    BY <1>7, <1>14 DEF Places, BleInv, At, Returns
  <1>16. Wanted'
    <2>1. /\ ~At("loop", "recheck")
          /\ task'["loop"].at \in {"apply", "complete"} => task'["loop"].at = task["loop"].at
          /\ At("loop", "disconnect") => At("loop", "disconnect")'
      BY <1>13, <1>14 DEF Publishing, At, Returns
    <2>2. QED
      BY <1>7, <1>13, <2>1 DEF BleInv, Wanted
  <1>17. Order'
    <2>1. Latest <= Latest'
      BY <1>7 DEF Ranges, Latest, Retiring
    <2>2. queue' = queue /\ app' \in {app, NoGen} /\ peers' \in {peers, NoGen}
          /\ ev' \in {ev, NoEvent}
      BY <1>7
    <2>3. QED
      BY <1>8, <2>1, <2>2, OrderStays DEF BleInv
  <1>18. Barrier'
    BY <1>1, <1>5, <1>7 DEF Barrier, Retiring, BleInv, At
  <1>19. Stream'
    <2>1. Open' => Open /\ link'.rx = link.rx
      BY <1>7 DEF Open
    <2>2. c'.gen = c.gen \/ (c'.gen = c.gen + 1 /\ ~Open')
      BY <1>7
    <2>3. QED
      BY <1>7, <2>1, <2>2, StreamStays DEF BleInv
  <1>20. QED
    BY <1>8, <1>9, <1>10, <1>11, <1>12, <1>15, <1>16, <1>17, <1>18, <1>19 DEF BleInv

\* ensure_scanning_() of connect(), after its first critical section: a link that came meanwhile
\* stays as it is.
LEMMA ConnectScansKeeps ==
    ASSUME TypeOK, Ranges, BleInv, NEW t \in Tasks, ConnectScans(t)
    PROVE  TypeOK' /\ BleInv'
  <1>1. PICK b : b = c
    OBVIOUS
  <1>2. /\ b \in ClientType /\ b.scanning = c.scanning
        /\ b.want = c.want /\ b.connecting = c.connecting /\ b.synced = c.synced
        /\ b.gen = c.gen /\ b.handle = c.handle /\ b.write = c.write
        /\ b.ready = c.ready /\ b.discon = c.discon /\ b.term = c.term
    BY <1>1 DEF Ranges, ClientType
  <1>3. Take(EnsureScanning(b, gap))
    BY <1>1 DEF ConnectScans
  <1>4. gap \in GapType /\ faults \in 0..MaxFaults /\ "idle" \in GapType /\ lock = "free"
    BY DEF Ranges, GapType, HostType, ConnectScans
  <1>5. ScanMoves(b, gap)
    BY <1>2, <1>3, <1>4, EnsureMoves
  <1>6. /\ c' \in ClientType /\ gap' \in GapType /\ faults' \in 0..MaxFaults
        /\ c'.want = c.want /\ c'.connecting = c.connecting /\ c'.synced = c.synced
        /\ c'.gen = c.gen /\ c'.handle = c.handle /\ c'.write = c.write
        /\ c'.ready = c.ready /\ c'.discon = c.discon /\ c'.term = c.term
        /\ c'.scanning <=> gap' = "scan"
        /\ gap' # gap =>
              \/ gap' = "idle"
              \/ gap' = "scan" /\ lock = "free" /\ ~c.discon /\ ~c.connecting
                 /\ (Odd(c.gen) \/ ~c.handle)
    BY <1>2, <1>5 DEF ScanMoves, SameButScan, Quiet, HasGapLink, BleInv, Radio,
       ScanStateIsTrue
  <1>7. /\ At(t, "scan") /\ lock = "free" /\ Go(t, task[t].back)
        /\ UNCHANGED <<lock, host, timer, link, proc, queue, overflow, ev, app, peers,
                       framer, fault, intent>>
    BY DEF ConnectScans, host_vars, mailbox, vehicle
  <1>8. TypeOK'
    <2>1. task' \in [Tasks -> TaskType]
      <3>1. PICK r : r = Resting(task[t].back)
        OBVIOUS
      <3>2. r \in TaskType
        BY <3>1, RestingTyped DEF Ranges, TaskType
      <3>3. task' = [task EXCEPT ![t] = r] /\ task \in [Tasks -> TaskType]
        BY <1>7, <3>1 DEF Ranges, Go
      <3>4. QED
        BY <3>2, <3>3, TaskTyped
    <2>2. gap' \in GapType
      BY <1>5, <1>6
    <2>3. QED
      BY <2>1, <2>2, <1>6, <1>7 DEF TypeOK
  <1>9. Slices'
    BY <1>7 DEF Slices, BleInv
  <1>10. Locking'
    BY <1>7 DEF Locking, Publishing, Returns, BleInv, At, Go, Resting
  <1>11. Generations'
    BY <1>6, <1>7 DEF Generations, BleInv
  <1>12. Radio'
    BY <1>6, <1>7 DEF Radio, ScanStateIsTrue, Locking, Generations, BleInv
  <1>13. Places'
    BY <1>7 DEF Places, Locking, Returns, BleInv, Ranges, At, Tasks, Go, Hold, Resting,
       PushLink
  <1>14. Wanted'
    <2>1. ~Publishing
      BY <1>4 DEF BleInv, Locking, Tasks
    <2>2. \/ task'["loop"] = task["loop"] /\ task["loop"].at \notin {"publish", "recheck"}
          \/ task["loop"].at = "scan" /\ task'["loop"].at \in Returns
      <3>1. \/ t # "loop" /\ task'["loop"] = task["loop"]
            \/ t = "loop" /\ task'["loop"].at = task["loop"].back
        BY <1>7 DEF Ranges, Go, Resting, Tasks
      <3>2. task["loop"].back \in Returns
        BY DEF BleInv, Locking, Tasks
      <3>3. QED
        BY <1>7, <2>1, <3>1, <3>2 DEF At, Publishing
    <2>3. /\ ~Publishing' /\ ~At("loop", "recheck")
          /\ task'["loop"].at \in {"apply", "complete"} => task'["loop"].at = task["loop"].at
          /\ At("loop", "disconnect") => At("loop", "disconnect")'
      BY <2>1, <2>2 DEF Publishing, At, Returns
    <2>4. c'.want = c.want /\ c'.ready = c.ready /\ c'.gen = c.gen
          /\ HasGapLink(c') = HasGapLink(c) /\ intent' = intent /\ app' = app /\ ev' = ev
      BY <1>6, <1>7 DEF HasGapLink
    <2>5. QED
      BY <2>3, <2>4 DEF BleInv, Wanted
  <1>15. Order'
    <2>1. Latest <= Latest'
      BY <1>6, <1>7 DEF Ranges, Latest, Retiring
    <2>2. queue' = queue /\ app' \in {app, NoGen} /\ peers' \in {peers, NoGen}
          /\ ev' \in {ev, NoEvent}
      BY <1>7
    <2>3. QED
      BY <1>8, <2>1, <2>2, OrderStays DEF BleInv
  <1>16. Barrier'
    BY <1>6, <1>7 DEF Barrier, Retiring, BleInv, At, Go
  <1>17. Stream'
    <2>1. Open' => Open /\ link'.rx = link.rx
      BY <1>6, <1>7 DEF Open, SnapshotMatches
    <2>2. c'.gen = c.gen \/ (c'.gen = c.gen + 1 /\ ~Open')
      BY <1>6
    <2>3. QED
      BY <1>7, <2>1, <2>2, StreamStays DEF BleInv
  <1>18. QED
    BY <1>8, <1>9, <1>10, <1>11, <1>12, <1>13, <1>14, <1>15, <1>16, <1>17 DEF BleInv

\* terminate_published_link_(), its first half: the request is announced for a link that is
\* still the published one.
LEMMA TerminateAnnounceKeeps ==
    ASSUME TypeOK, Ranges, BleInv, NEW t \in Tasks, TerminateAnnounce(t)
    PROVE  TypeOK' /\ BleInv'
  <1>1. At(t, "terminate") /\ task[t].gen \in Gens /\ task[t].back \in Steps
    BY DEF TerminateAnnounce, Ranges, TaskType
  <1>2. \/ task' = [task EXCEPT ![t].at = "tLock"]
        \/ task' = [task EXCEPT ![t] = Resting(task[t].back)]
    BY DEF TerminateAnnounce, Go
  <1>3. c' = c \/ c' = [c EXCEPT !.term = task[t].gen]
    BY DEF TerminateAnnounce
  <1>4. /\ c' \in ClientType
        /\ c'.want = c.want /\ c'.connecting = c.connecting /\ c'.scanning = c.scanning
        /\ c'.synced = c.synced /\ c'.gen = c.gen /\ c'.handle = c.handle
        /\ c'.write = c.write /\ c'.ready = c.ready /\ c'.discon = c.discon
    BY <1>1, <1>3 DEF Ranges, ClientType
  <1>5. UNCHANGED <<lock, host, timer, gap, link, proc, queue, overflow, ev, app, peers,
                    framer, fault, intent, faults>>
    BY DEF TerminateAnnounce, host_vars, radio, mailbox, vehicle
  <1>6. task' \in [Tasks -> TaskType]
    <2>1. CASE task' = [task EXCEPT ![t].at = "tLock"]
      <3>1. PICK r : r = [task[t] EXCEPT !.at = "tLock"]
        OBVIOUS
      <3>2. r \in TaskType
        BY <3>1 DEF Ranges, TaskType, Steps
      <3>3. task' = [task EXCEPT ![t] = r]
        BY <2>1, <3>1
      <3>4. QED
        BY <3>2, <3>3, TaskTyped DEF Ranges
    <2>2. CASE task' = [task EXCEPT ![t] = Resting(task[t].back)]
      <3>1. PICK r : r = Resting(task[t].back)
        OBVIOUS
      <3>2. r \in TaskType
        BY <1>1, <3>1, RestingTyped DEF Ranges
      <3>3. QED
        BY <2>2, <3>1, <3>2, TaskTyped DEF Ranges
    <2>3. QED
      BY <1>2, <2>1, <2>2
  <1>7. /\ task'[t].at \in Returns \cup {"tLock"} /\ task'[t].next \in Returns
        /\ task'[t].back \in Returns
        /\ \A u \in Tasks : u # t => task'[u] = task[u]
    BY <1>2 DEF Ranges, TaskType, Resting, BleInv, Locking, Returns
  <1>8. TypeOK'
    <2>1. QED
      BY <1>4, <1>5, <1>6, <1>7 DEF TypeOK
  <1>9. Slices'
    BY <1>5 DEF Slices, BleInv
  <1>10. Locking'
    BY <1>1, <1>2, <1>3, <1>4, <1>5, <1>6, <1>7 DEF Locking, Publishing, Returns, BleInv, At,
       Tasks, HostType, HostGoes, Resting, PushLink
  <1>11. Generations'
    BY <1>4, <1>5, <1>6, <1>7 DEF Generations, BleInv
  <1>12. Radio'
    BY <1>4, <1>5, <1>6, <1>7 DEF Radio, ScanStateIsTrue, BleInv
  <1>13. Places'
    BY <1>1, <1>5, <1>7 DEF Places, Locking, Returns, Generations, BleInv, Ranges, At, Tasks,
       TaskType
  <1>14. Wanted'
    <2>1. CASE task'["loop"] = task["loop"]
      BY <1>4, <1>5, <2>1 DEF Wanted, Publishing, HasGapLink, BleInv, At
    <2>2. CASE t = "loop"
      <3>1. /\ task["loop"].at = "terminate"
            /\ task'["loop"].at \notin {"publish", "recheck", "apply", "complete"}
        BY <1>7, <2>2 DEF TerminateAnnounce, At, Returns
      <3>2. QED
        BY <1>4, <1>5, <3>1 DEF Wanted, Publishing, HasGapLink, BleInv, At
    <2>3. QED
      BY <1>7, <2>1, <2>2 DEF Tasks
  <1>15. Order'
    <2>1. Latest <= Latest'
      BY <1>4, <1>5, <1>6, <1>7 DEF Ranges, Latest, Retiring
    <2>2. queue' = queue /\ app' \in {app, NoGen} /\ peers' \in {peers, NoGen}
          /\ ev' \in {ev, NoEvent}
      BY <1>4, <1>5
    <2>3. QED
      BY <1>8, <2>1, <2>2, OrderStays DEF BleInv
  <1>16. Barrier'
    BY <1>1, <1>4, <1>5, <1>7 DEF Barrier, Retiring, BleInv, At, Tasks
  <1>17. Stream'
    <2>1. Open' => Open /\ link'.rx = link.rx
      BY <1>4, <1>5, <1>6, <1>7 DEF Open, SnapshotMatches
    <2>2. c'.gen = c.gen \/ (c'.gen = c.gen + 1 /\ ~Open')
      BY <1>3, <1>4
    <2>3. QED
      BY <1>5, <1>6, <1>7, <2>1, <2>2, StreamStays DEF BleInv
  <1>18. QED
    BY <1>8, <1>9, <1>10, <1>11, <1>12, <1>13, <1>14, <1>15, <1>16, <1>17 DEF BleInv

\* terminate_published_link_() loses the mutex or meets a publication: the announced request
\* stays for vehicle_loop.
LEMMA TerminateGivesUpKeeps ==
    ASSUME TypeOK, Ranges, BleInv, NEW t \in Tasks, TerminateGivesUp(t)
    PROVE  TypeOK' /\ BleInv'
  <1> USE DEF TerminateGivesUp, At, Go, Resting, host_vars, radio, mailbox, vehicle
  <1>1. TypeOK'
    <2>1. task' \in [Tasks -> TaskType]
      BY DEF Ranges, BleInv, TaskType, Steps
    <2>2. QED
      BY <2>1 DEF TypeOK
  <1>2. Slices'
    BY DEF Slices, BleInv
  <1>3. Locking'
    BY DEF Locking, Publishing, Returns, BleInv, At
  <1>4. Generations'
    BY DEF Generations, BleInv
  <1>5. Radio'
    BY DEF Radio, ScanStateIsTrue, BleInv
  <1>6. Places'
    BY DEF Places, Locking, Publishing, Returns, Generations, BleInv
  <1>7. Wanted'
    BY DEF Wanted, Publishing, HasGapLink, Locking, Returns, Generations, BleInv
  <1>8. Order'
    <2>1. Latest <= Latest'
      BY DEF Ranges, Latest, Retiring
    <2>2. QED
      BY <1>1, <2>1, OrderStays DEF BleInv
  <1>9. Barrier'
    BY DEF Barrier, Retiring, BleInv
  <1>10. Stream'
    <2>1. Open' => Open /\ link'.rx = link.rx
      BY DEF Open
    <2>2. QED
      BY <2>1, StreamStays DEF BleInv
  <1>11. QED
    BY <1>1, <1>2, <1>3, <1>4, <1>5, <1>6, <1>7, <1>8, <1>9, <1>10 DEF BleInv

\* terminate_published_link_(), its second half: only the link of the generation asked for is
\* ended, and it stays published.
LEMMA TerminateKeeps ==
    ASSUME TypeOK, Ranges, BleInv, NEW t \in Tasks, Terminate(t)
    PROVE  TypeOK' /\ BleInv'
  <1>1. /\ At(t, "tLock") /\ lock = "free" /\ ~Odd(c.gen) /\ task[t].gen \in Gens
        /\ lock' = t /\ Hold(t, task[t].back)
    BY DEF Terminate, Hold, Ranges, TaskType
  <1>2. TerminateLocked(c, task[t].gen)
    BY DEF Terminate
  <1>3. /\ c' = c \/ KeepsButTerm(c)
        /\ c' \in ClientType /\ link' \in LinkType /\ faults' \in 0..MaxFaults
        /\ \/ link' = link
           \/ /\ c.gen = task[t].gen /\ c.handle /\ link.st = "up"
              /\ link'.st = "ending" /\ link'.gen = link.gen /\ link'.sub = link.sub
              /\ link'.rx = link.rx
    BY <1>1, <1>2, TerminateMoves DEF TypeOK
  <1>4. \/ c' = c
        \/ /\ c'.want = c.want /\ c'.connecting = c.connecting /\ c'.scanning = c.scanning
           /\ c'.synced = c.synced /\ c'.gen = c.gen /\ c'.handle = c.handle
           /\ c'.write = c.write /\ c'.ready = c.ready
           /\ c'.discon = c.discon \/ (~c'.discon /\ ~c.handle)
    BY <1>3 DEF KeepsButTerm
  <1>5. UNCHANGED <<host, timer, gap, proc, queue, overflow, ev, app, peers, framer, fault,
                    intent>>
    BY DEF Terminate, mailbox, vehicle
  <1>6. TypeOK'
    <2>1. task' \in [Tasks -> TaskType]
      <3>1. PICK r : r = [Resting("release") EXCEPT !.next = task[t].back]
        OBVIOUS
      <3>2. r \in TaskType
        BY <3>1 DEF Ranges, TaskType, Resting, Steps
      <3>3. task' = [task EXCEPT ![t] = r] /\ task \in [Tasks -> TaskType]
        BY <1>1, <3>1 DEF Ranges, Hold
      <3>4. QED
        BY <3>2, <3>3, TaskTyped
    <2>2. QED
      BY <2>1, <1>1, <1>2, <1>3, <1>4, <1>5 DEF TypeOK
  <1>7. Slices'
    BY <1>5 DEF Slices, BleInv
  <1>8. Locking'
    BY <1>1, <1>5 DEF Locking, Publishing, Returns, BleInv, Ranges, At, Tasks, Hold,
       HostGoes, Resting, PushLink, LinkCell
  <1>9. Generations'
    BY <1>1, <1>3, <1>4, <1>5 DEF Generations, BleInv
  <1>10. Radio'
    BY <1>3, <1>4, <1>5 DEF Radio, ScanStateIsTrue, BleInv
  <1>11. Places'
    BY <1>1, <1>4, <1>5 DEF Places, BleInv, Ranges, At, Tasks, TaskType, Hold, HostGoes,
       Resting, PushLink, LinkCell
  <1>12. Wanted'
    BY <1>1, <1>4, <1>5 DEF Wanted, Publishing, HasGapLink, BleInv, At, Tasks, Hold,
       HostGoes, Resting, PushLink
  <1>13. Order'
    <2>1. Latest <= Latest'
      BY <1>4, <1>5 DEF Ranges, Latest, Retiring, BleInv
    <2>2. queue' = queue /\ app' \in {app, NoGen} /\ peers' \in {peers, NoGen}
          /\ ev' \in {ev, NoEvent}
      BY <1>5
    <2>3. QED
      BY <1>6, <2>1, <2>2, OrderStays DEF BleInv
  <1>14. Barrier'
    BY <1>1, <1>4, <1>5 DEF Barrier, Retiring, Barred, BleInv, At, Go, Hold
  <1>15. Stream'
    <2>1. Open' => Open /\ link'.rx = link.rx
      BY <1>3, <1>4, <1>5 DEF Open, SnapshotMatches
    <2>2. c'.gen = c.gen \/ (c'.gen = c.gen + 1 /\ ~Open')
      BY <1>4
    <2>3. QED
      BY <1>5, <2>1, <2>2, StreamStays DEF BleInv
  <1>16. QED
    BY <1>6, <1>7, <1>8, <1>9, <1>10, <1>11, <1>12, <1>13, <1>14, <1>15 DEF BleInv

-----------------------------------------------------------------------------
(* vehicle_loop: service_pending(), the event drain and the drive.          *)

\* service_pending(): a termination that could not be issued is taken up.
LEMMA LoopServiceKeeps ==
    ASSUME TypeOK, Ranges, BleInv, LoopService
    PROVE  TypeOK' /\ BleInv'
  <1>1. /\ At("loop", "service")
        /\ \/ /\ c.term # NoGen
              /\ task' = [task EXCEPT !["loop"].at = "terminate", !["loop"].gen = c.term,
                                       !["loop"].back = "scanPending"]
              /\ c' = [c EXCEPT !.term = NoGen]
           \/ task' = [task EXCEPT !["loop"] = Resting("scanPending")] /\ c' = c
    BY DEF LoopService, Go
  <1>2. c' \in ClientType
    BY <1>1 DEF Ranges, ClientType
  <1>3. /\ c'.want = c.want /\ c'.connecting = c.connecting /\ c'.scanning = c.scanning
        /\ c'.synced = c.synced /\ c'.gen = c.gen /\ c'.handle = c.handle
        /\ c'.write = c.write /\ c'.ready = c.ready /\ c'.discon = c.discon
    BY <1>1 DEF Ranges, ClientType
  <1>4. task' \in [Tasks -> TaskType]
    <2>1. CASE task' = [task EXCEPT !["loop"].at = "terminate", !["loop"].gen = c.term,
                                    !["loop"].back = "scanPending"] /\ c.term # NoGen
      <3>1. c.term \in Gens /\ task \in [Tasks -> TaskType] /\ "loop" \in Tasks
        BY <2>1 DEF Ranges, ClientType, Tasks
      <3>2. PICK r : r = [task["loop"] EXCEPT !.at = "terminate", !.gen = c.term,
                                              !.back = "scanPending"]
        OBVIOUS
      <3>3. r \in TaskType
        BY <3>1, <3>2 DEF TaskType, Steps
      <3>4. task' = [task EXCEPT !["loop"] = r]
        BY <2>1, <3>1, <3>2
      <3>5. QED
        BY <3>1, <3>3, <3>4
    <2>2. CASE Go("loop", "scanPending")
      BY <2>2, GoTyped DEF Tasks, Steps
    <2>3. QED
      BY <1>1, <2>1, <2>2 DEF Go
  <1>5. /\ task'["loop"].at \in {"terminate", "scanPending"} /\ task'["loop"].next \in Returns
        /\ task'["loop"].back \in Returns
        /\ \A u \in Tasks : u # "loop" => task'[u] = task[u]
    BY <1>1 DEF Ranges, TaskType, Tasks, Returns, Resting, BleInv, Locking
  <1>6. UNCHANGED <<lock, host, timer, gap, link, proc, queue, overflow, ev, app, peers,
                    framer, fault, intent, faults>>
    BY DEF LoopService, host_vars, radio, mailbox, vehicle
  <1>7. TypeOK'
    <2>1. QED
      BY <1>2, <1>3, <1>4, <1>5, <1>6 DEF TypeOK
  <1>8. Slices'
    BY <1>6 DEF Slices, BleInv
  <1>9. Locking'
    BY <1>1, <1>5, <1>6 DEF Locking, Publishing, BleInv, At, Tasks
  <1>10. Generations'
    BY <1>3, <1>5, <1>6 DEF Generations, BleInv
  <1>11. Radio'
    BY <1>3, <1>5, <1>6 DEF Radio, ScanStateIsTrue, BleInv
  <1>12. Places'
    BY <1>1, <1>5, <1>6 DEF Places, BleInv, At
  <1>13. Wanted'
    BY <1>1, <1>3, <1>5, <1>6 DEF Wanted, Publishing, HasGapLink, BleInv, At
  <1>14. Order'
    <2>1. Latest <= Latest'
      BY <1>3, <1>5, <1>6 DEF Ranges, Latest, Retiring
    <2>2. queue' = queue /\ app' \in {app, NoGen} /\ peers' \in {peers, NoGen}
          /\ ev' \in {ev, NoEvent}
      BY <1>6
    <2>3. QED
      BY <1>7, <2>1, <2>2, OrderStays DEF BleInv
  <1>15. Barrier'
    BY <1>1, <1>3, <1>6 DEF Barrier, Retiring, BleInv, At
  <1>16. Stream'
    <2>1. Open' => Open /\ link'.rx = link.rx
      BY <1>3, <1>5, <1>6 DEF Open, SnapshotMatches
    <2>2. c'.gen = c.gen \/ (c'.gen = c.gen + 1 /\ ~Open')
      BY <1>3
    <2>3. QED
      BY <1>6, <2>1, <2>2, StreamStays DEF BleInv
  <1>17. QED
    BY <1>7, <1>8, <1>9, <1>10, <1>11, <1>12, <1>13, <1>14, <1>15, <1>16 DEF BleInv

\* service_pending(): a scan that a callback could not start is started.
LEMMA LoopScanKeeps ==
    ASSUME TypeOK, Ranges, BleInv, LoopScan
    PROVE  TypeOK' /\ BleInv'
  <1>1. PICK b : b = [c EXCEPT !.scanPend = FALSE]
    OBVIOUS
  <1>2. /\ b \in ClientType /\ b.scanning = c.scanning
        /\ b.want = c.want /\ b.connecting = c.connecting /\ b.synced = c.synced
        /\ b.gen = c.gen /\ b.handle = c.handle /\ b.write = c.write
        /\ b.ready = c.ready /\ b.discon = c.discon /\ b.term = c.term
    BY <1>1 DEF Ranges, ClientType
  <1>3. Take(TryEnsureScanning(c.scanPend /\ c.want, b, gap))
    BY <1>1 DEF LoopScan
  <1>4. gap \in GapType /\ faults \in 0..MaxFaults /\ "idle" \in GapType
        /\ (c.scanPend /\ c.want) \in BOOLEAN
    BY DEF Ranges, GapType
  <1>5. ScanMoves(b, gap)
    BY <1>2, <1>3, <1>4, TryMoves
  <1>6. /\ c' \in ClientType /\ gap' \in GapType /\ faults' \in 0..MaxFaults
        /\ c'.want = c.want /\ c'.connecting = c.connecting /\ c'.synced = c.synced
        /\ c'.gen = c.gen /\ c'.handle = c.handle /\ c'.write = c.write
        /\ c'.ready = c.ready /\ c'.discon = c.discon /\ c'.term = c.term
        /\ c'.scanning <=> gap' = "scan"
        /\ gap' # gap =>
              \/ gap' = "idle"
              \/ gap' = "scan" /\ lock = "free" /\ ~c.discon /\ ~c.connecting
                 /\ (Odd(c.gen) \/ ~c.handle)
    BY <1>2, <1>5 DEF ScanMoves, SameButScan, Quiet, HasGapLink, BleInv, Radio,
       ScanStateIsTrue
  <1>7. /\ At("loop", "scanPending") /\ Go("loop", "repair")
        /\ UNCHANGED <<lock, host, timer, link, proc, queue, overflow, ev, app, peers,
                       framer, fault, intent>>
    BY DEF LoopScan, host_vars, mailbox, vehicle
  <1>8. TypeOK'
    <2>1. task' \in [Tasks -> TaskType]
      <3>1. "repair" \in Steps /\ "loop" \in Tasks
        BY DEF Steps, Tasks
      <3>2. Go("loop", "repair")
        BY <1>7
      <3>3. QED
        BY <3>1, <3>2, GoTyped
    <2>2. gap' \in GapType
      BY <1>5, <1>6
    <2>3. QED
      BY <2>1, <2>2, <1>6, <1>7 DEF TypeOK
  <1>9. Slices'
    BY <1>7 DEF Slices, BleInv
  <1>10. Locking'
    BY <1>7 DEF Locking, Publishing, Returns, BleInv, At, Go, Resting
  <1>11. Generations'
    BY <1>6, <1>7 DEF Generations, BleInv
  <1>12. Radio'
    BY <1>6, <1>7 DEF Radio, ScanStateIsTrue, Locking, Generations, BleInv
  <1>13. Places'
    BY <1>7 DEF Places, BleInv, At, Go, Resting
  <1>14. Wanted'
    BY <1>6, <1>7 DEF Wanted, Publishing, HasGapLink, BleInv, Ranges, At, TaskType, Go,
       HostGoes, Resting, PushLink, LinkCell
  <1>15. Order'
    <2>1. Latest <= Latest'
      BY <1>6, <1>7 DEF Ranges, Latest, Retiring
    <2>2. queue' = queue /\ app' \in {app, NoGen} /\ peers' \in {peers, NoGen}
          /\ ev' \in {ev, NoEvent}
      BY <1>7
    <2>3. QED
      BY <1>8, <2>1, <2>2, OrderStays DEF BleInv
  <1>16. Barrier'
    BY <1>6, <1>7 DEF Barrier, Retiring, BleInv, At
  <1>17. Stream'
    <2>1. Open' => Open /\ link'.rx = link.rx
      BY <1>6, <1>7 DEF Open, SnapshotMatches
    <2>2. c'.gen = c.gen \/ (c'.gen = c.gen + 1 /\ ~Open')
      BY <1>6
    <2>3. QED
      BY <1>7, <2>1, <2>2, StreamStays DEF BleInv
  <1>18. QED
    BY <1>8, <1>9, <1>10, <1>11, <1>12, <1>13, <1>14, <1>15, <1>16, <1>17 DEF BleInv

\* service_pending(): a disconnecting flag without a link is taken back, which needs no LinkDown
\* of its own.
LEMMA LoopRepairKeeps ==
    ASSUME TypeOK, Ranges, BleInv, LoopRepair
    PROVE  TypeOK' /\ BleInv'
  <1>1. PICK b : b = [c EXCEPT !.discon = FALSE]
    OBVIOUS
  <1>2. /\ b \in ClientType /\ b.scanning = c.scanning
        /\ b.want = c.want /\ b.connecting = c.connecting /\ b.synced = c.synced
        /\ b.gen = c.gen /\ b.handle = c.handle /\ b.write = c.write /\ b.ready = c.ready
        /\ ~b.discon /\ b.term = c.term
    BY <1>1 DEF Ranges, ClientType
  <1>3. \/ c.discon /\ lock = "free" /\ ~Odd(c.gen) /\ ~c.handle /\ Take(EnsureScanning(b, gap))
        \/ Take({Outcome(c, gap, 0)})
    BY <1>1 DEF LoopRepair
  <1>4. \/ c.discon /\ lock = "free" /\ ~Odd(c.gen) /\ ~c.handle /\ ScanMoves(b, gap)
        \/ ScanMoves(c, gap)
    <2>1. c \in ClientType /\ gap \in GapType /\ faults \in 0..MaxFaults
      BY DEF Ranges
    <2>2. QED
      BY <1>2, <1>3, <2>1, EnsureMoves, NoMoves
  <1>5. /\ c' \in ClientType /\ gap' \in GapType /\ faults' \in 0..MaxFaults
        /\ c'.want = c.want /\ c'.connecting = c.connecting /\ c'.synced = c.synced
        /\ c'.gen = c.gen /\ c'.handle = c.handle /\ c'.write = c.write /\ c'.ready = c.ready
        /\ c'.discon = c.discon \/ (~c'.discon /\ ~c.handle /\ ~Odd(c.gen))
        /\ c'.term = c.term /\ (c'.scanning <=> gap' = "scan")
        /\ gap' # gap =>
              \/ gap' = "idle"
              \/ gap' = "scan" /\ lock = "free" /\ ~c.connecting /\ (Odd(c.gen) \/ ~c.handle)
    BY <1>2, <1>4 DEF ScanMoves, SameButScan, Quiet, HasGapLink, BleInv, Radio,
       ScanStateIsTrue
  <1>6. /\ At("loop", "repair") /\ Go("loop", "events")
        /\ UNCHANGED <<lock, host, timer, link, proc, queue, overflow, ev, app, peers,
                       framer, fault, intent>>
    BY DEF LoopRepair, host_vars, mailbox, vehicle
  <1>7. TypeOK'
    <2>1. task' \in [Tasks -> TaskType]
      <3>1. "events" \in Steps /\ "loop" \in Tasks
        BY DEF Steps, Tasks
      <3>2. Go("loop", "events")
        BY <1>6
      <3>3. QED
        BY <3>1, <3>2, GoTyped
    <2>2. QED
      BY <2>1, <1>5, <1>6 DEF TypeOK
  <1>8. Slices'
    BY <1>6 DEF Slices, BleInv
  <1>9. Locking'
    BY <1>6 DEF Locking, Publishing, Returns, BleInv, At, Go, Resting
  <1>10. Generations'
    BY <1>5, <1>6 DEF Generations, BleInv
  <1>11. Radio'
    BY <1>5, <1>6 DEF Radio, ScanStateIsTrue, Locking, Generations, BleInv
  <1>12. Places'
    BY <1>6 DEF Places, BleInv, At, Go, Resting
  <1>13. Wanted'
    BY <1>5, <1>6 DEF Wanted, Publishing, HasGapLink, BleInv, Ranges, At, Go, Resting,
       PushLink, LinkCell
  <1>14. Order'
    <2>1. Latest <= Latest'
      BY <1>5, <1>6 DEF Ranges, Latest, Retiring
    <2>2. queue' = queue /\ app' \in {app, NoGen} /\ peers' \in {peers, NoGen}
          /\ ev' \in {ev, NoEvent}
      BY <1>6
    <2>3. QED
      BY <1>7, <2>1, <2>2, OrderStays DEF BleInv
  <1>15. Barrier'
    BY <1>5, <1>6 DEF Barrier, Retiring, BleInv, At
  <1>16. Stream'
    <2>1. Open' => Open /\ link'.rx = link.rx
      BY <1>5, <1>6 DEF Open, SnapshotMatches
    <2>2. c'.gen = c.gen \/ (c'.gen = c.gen + 1 /\ ~Open')
      BY <1>5
    <2>3. QED
      BY <1>6, <2>1, <2>2, StreamStays DEF BleInv
  <1>17. QED
    BY <1>7, <1>8, <1>9, <1>10, <1>11, <1>12, <1>13, <1>14, <1>15, <1>16 DEF BleInv

\* process_ble_host_events_(): an overflow is taken before any event, so the link it belongs to
\* is torn down whatever is queued.
LEMMA LoopEventsKeeps ==
    ASSUME TypeOK, Ranges, BleInv, LoopEvents
    PROVE  TypeOK' /\ BleInv'
  <1> USE DEF LoopEvents, At, Go, Resting, host_vars, radio, vehicle
  <1>1. TypeOK'
    <2>1. task' \in [Tasks -> TaskType]
      <3>1. "clear" \in Steps /\ "pop" \in Steps /\ "loop" \in Tasks
        BY DEF Steps, Tasks
      <3>2. Go("loop", "clear") \/ Go("loop", "pop")
        BY DEF LoopEvents
      <3>3. QED
        BY <3>1, <3>2, GoTyped
    <2>2. overflow' \in BOOLEAN
      BY DEF TypeOK
    <2>3. QED
      BY <2>1, <2>2 DEF TypeOK
  <1>2. Slices'
    BY DEF Slices, BleInv
  <1>3. Locking'
    BY DEF Locking, Publishing, Returns, BleInv, At
  <1>4. Generations'
    BY DEF Generations, BleInv
  <1>5. Radio'
    BY DEF Radio, ScanStateIsTrue, BleInv
  <1>6. Places'
    BY DEF Places, BleInv
  <1>7. Wanted'
    BY DEF Wanted, Publishing, BleInv
  <1>8. Order'
    <2>1. Latest <= Latest'
      BY DEF Ranges, Latest, Retiring
    <2>2. QED
      BY <1>1, <2>1, OrderStays DEF BleInv
  <1>9. Barrier'
    BY DEF Barrier, Retiring, BleInv, Ranges, Tasks
  <1>10. Stream'
    <2>1. Open' => Open /\ link'.rx = link.rx
      BY DEF Open
    <2>2. QED
      BY <2>1, StreamStays DEF BleInv
  <1>11. QED
    BY <1>1, <1>2, <1>3, <1>4, <1>5, <1>6, <1>7, <1>8, <1>9, <1>10 DEF BleInv

\* The recovery from an overflow: with everything queued, the framer, the sessions and the
\* request slots go (apply_ble_link_state_(false)).
LEMMA LoopClearKeeps ==
    ASSUME TypeOK, Ranges, BleInv, LoopClear
    PROVE  TypeOK' /\ BleInv'
  <1> USE DEF LoopClear, At, LinkStateDown, Back, Resting, host_vars, radio
  <1>1. TypeOK'
    <2>1. task' \in [Tasks -> TaskType]
      BY DEF Ranges, BleInv, TaskType, Steps
    <2>2. queue' \in Seq(Cells) /\ Len(queue') <= Depth
      BY QueueAssumption
    <2>3. app' \in Gens \cup {NoGen}
      BY DEF BleInv
    <2>4. framer' \in Seq([gen : Gens, i : 1..MaxRx])
      BY DEF BleInv
    <2>5. QED
      BY <2>1, <2>2, <2>3, <2>4 DEF TypeOK
  <1>2. Slices'
    <2>1. QED
      BY DEF BleInv, Slices, Sliced
  <1>3. Locking'
    BY DEF Locking, Publishing, Returns, BleInv, At
  <1>4. Generations'
    BY DEF Generations, BleInv
  <1>5. Radio'
    BY DEF Radio, ScanStateIsTrue, BleInv
  <1>6. Places'
    BY DEF Places, BleInv
  <1>7. Wanted'
    BY DEF Wanted, Publishing, BleInv, Ranges, At, Tasks
  <1>8. Order'
    <2>1. /\ queue' = << >> /\ app' = NoGen /\ peers' = NoGen /\ UNCHANGED <<c, host, ev>>
          /\ ev.kind = "none"
      BY DEF BleInv, Places
    <2>2. Latest' = Latest /\ NoGen <= Latest /\ ev.gen <= Latest
      BY DEF Latest, Retiring, BleInv, Order, Ranges, NoGen
    <2>3. \A g, last : Ordered(queue', last) /\ Precedes(g, queue')
      <3>1. Len(queue') = 0
        BY <2>1
      <3>2. QED
        BY <3>1 DEF Ordered, Precedes
    <2>4. QED
      BY <2>1, <2>2, <2>3 DEF Order
  <1>9. Barrier'
    <2>1. peers' = NoGen /\ UNCHANGED c /\ NoGen # c.gen
      BY DEF Ranges, NoGen
    <2>2. QED
      BY <2>1 DEF Barrier
  <1>10. Stream'
    BY DEF Stream, AheadOf, Continues, Joined, FramerIsContiguous, Places, BleInv
  <1>11. QED
    BY <1>1, <1>2, <1>3, <1>4, <1>5, <1>6, <1>7, <1>8, <1>9, <1>10 DEF BleInv

\* disconnect() of vehicle_loop: after an overflow, an undone LinkUp, a fault or an idle time.
LEMMA LoopDisconnectKeeps ==
    ASSUME TypeOK, Ranges, BleInv, LoopDisconnect
    PROVE  TypeOK' /\ BleInv'
  <1>1. Disconnect("loop", "disconnect", task["loop"].back)
    BY DEF LoopDisconnect
  <1>2. At("loop", "disconnect") /\ lock = "free" /\ lock' = "loop" /\ intent' = FALSE
    BY <1>1 DEF Disconnect
  <1>3. /\ c' = [c EXCEPT !.discon = TRUE, !.ready = NoGen, !.want = FALSE]
        /\ task' = [task EXCEPT !["loop"] = [at |-> "release", next |-> "terminate",
                                             back |-> task["loop"].back,
                                           gen |-> Settled(c.gen)]]
    BY <1>1 DEF Disconnect
  <1>4. Settled(c.gen) \in Gens
    BY DEF Ranges, BleInv, Generations
  <1>5. c' \in ClientType
    BY <1>3 DEF Ranges, ClientType
  <1>6. /\ c'.want = FALSE /\ c'.connecting = c.connecting /\ c'.scanning = c.scanning
        /\ c'.synced = c.synced /\ c'.gen = c.gen /\ c'.handle = c.handle
        /\ c'.write = c.write /\ c'.ready = NoGen /\ c'.discon = TRUE /\ c'.term = c.term
    BY <1>3 DEF Ranges, ClientType
  <1>7. /\ task'["loop"].at = "release" /\ task'["loop"].next \in Returns
        /\ task'["loop"].back \in Returns
        /\ \A u \in Tasks : u # "loop" => task'[u] = task[u]
    BY <1>3 DEF Ranges, TaskType, Tasks, Returns, BleInv, Locking
  <1>8. task' \in [Tasks -> TaskType]
    BY <1>3, <1>4 DEF Ranges, TaskType, Tasks, Steps
  <1>9. UNCHANGED <<host, timer, gap, link, proc, queue, overflow, ev, app, peers, framer,
                    fault, faults>>
    BY <1>1 DEF Disconnect, radio, mailbox, vehicle
  <1>10. TypeOK'
    <2>1. fault' \in BOOLEAN
      BY <1>9, GenAssumption, QueueAssumption DEF TypeOK
    <2>2. intent' \in BOOLEAN
      BY <1>1, <1>2
    <2>3. faults' \in 0..MaxFaults
      BY <1>9, GenAssumption, QueueAssumption DEF TypeOK
    <2>4. QED
      BY <2>1, <2>2, <2>3, <1>1, <1>2, <1>3, <1>4, <1>5, <1>6, <1>7, <1>8, <1>9 DEF TypeOK
  <1>11. Slices'
    BY <1>9 DEF Slices, BleInv
  <1>12. Locking'
    BY <1>2, <1>7, <1>9 DEF Locking, BleInv, At, Tasks
  <1>13. Generations'
    BY <1>6, <1>9 DEF Generations, BleInv
  <1>14. Radio'
    BY <1>6, <1>7, <1>8, <1>9 DEF Radio, ScanStateIsTrue, BleInv
  <1>15. Places'
    BY <1>2, <1>3, <1>7, <1>8, <1>9 DEF Places, BleInv, At
  <1>16. Wanted'
    BY <1>6, <1>7, <1>8, <1>9 DEF Wanted, Publishing, BleInv
  <1>17. Order'
    <2>1. Latest <= Latest'
      BY <1>6, <1>7, <1>8, <1>9 DEF Ranges, Latest, Retiring
    <2>2. queue' = queue /\ app' \in {app, NoGen} /\ peers' \in {peers, NoGen}
          /\ ev' \in {ev, NoEvent}
      BY <1>9
    <2>3. QED
      BY <1>10, <2>1, <2>2, OrderStays DEF BleInv
  <1>18. Barrier'
    BY <1>2, <1>3, <1>9 DEF Barrier, Retiring, BleInv, At
  <1>19. Stream'
    <2>1. Open' => Open /\ link'.rx = link.rx
      BY <1>6 DEF Open, SnapshotMatches
    <2>2. c'.gen = c.gen \/ (c'.gen = c.gen + 1 /\ ~Open')
      BY <1>3
    <2>3. QED
      BY <1>9, <2>1, <2>2, StreamStays DEF BleInv
  <1>20. QED
    BY <1>10, <1>11, <1>12, <1>13, <1>14, <1>15, <1>16, <1>17, <1>18, <1>19 DEF BleInv

\* The queue after a pop: nothing gets lost but a head that is used up, and the next
\* notification is the one after the popped one.
LEMMA PoppedKeeps ==
    ASSUME TypeOK, BleInv, queue # << >>, queue' = Popped
    PROVE  /\ Good(queue', Latest) /\ queue' \in Seq(Cells) /\ Len(queue') <= Depth
           /\ \A g : Precedes(g, queue) => Precedes(g, queue')
           /\ Precedes(queue[1].gen, queue')
           /\ \A g : Barred(g, queue)
                  => Barred(g, queue') \/ (queue[1].kind = "LinkDown" /\ g < queue[1].gen)
           /\ queue' # << >> /\ queue'[1].kind = "Rx" =>
                 /\ queue'[1].gen = queue[1].gen /\ queue[1].kind \in {"LinkUp", "Rx"}
                 /\ queue[1].kind = "Rx" => queue'[1].at = queue[1].at + 1
           /\ queue' # << >> =>
                 /\ queue'[Len(queue')].gen = queue[Len(queue)].gen
                 /\ queue'[Len(queue')].kind = queue[Len(queue)].kind
                 /\ queue'[Len(queue')].to = queue[Len(queue)].to
           /\ queue' = << >> =>
                 Len(queue) = 1 /\ (queue[1].kind = "Rx" => queue[1].at = queue[1].to)
  <1>1. /\ Good(queue, Latest) /\ queue \in Seq(Cells) /\ Len(queue) <= Depth
        /\ Len(queue) \in Nat /\ 1 \in 1 .. Len(queue) /\ Len(queue) \in 1 .. Len(queue)
        /\ Depth \in Nat /\ Head(queue) = queue[1]
        /\ queue[1].at \in Nat /\ queue[1].to \in Nat
    <2>1. Good(queue, Latest) /\ queue \in Seq(Cells) /\ Len(queue) <= Depth
      BY QueueIsGood
    <2>2. /\ Len(queue) \in Nat /\ 1 \in 1 .. Len(queue) /\ Len(queue) \in 1 .. Len(queue)
          /\ Head(queue) = queue[1]
      BY <2>1
    <2>3. QED
      BY <2>1, <2>2, CellNumbers, QueueAssumption
  <1>2. queue[1].kind = "Rx" => queue[1].at <= queue[1].to
    BY <1>1 DEF Good, Sliced
  <1>3. CASE queue[1].kind = "Rx" /\ queue[1].at < queue[1].to
    <2>1. queue' = [queue EXCEPT ![1].at = @ + 1]
      BY <1>1, <1>3 DEF Popped
    <2>2. /\ Good(queue', Latest) /\ Len(queue') = Len(queue) /\ queue' # << >>
          /\ SameShape(queue, queue')
          /\ queue'[1].at = queue[1].at + 1 /\ queue'[Len(queue')].to = queue[Len(queue)].to
      BY <1>1, <1>3, <2>1, SliceKeeps
    <2>3. /\ queue'[1].gen = queue[1].gen
          /\ queue'[Len(queue')].gen = queue[Len(queue)].gen
          /\ queue'[Len(queue')].kind = queue[Len(queue)].kind
      BY <1>1, <2>2 DEF SameShape
    <2>4. /\ \A g : Precedes(g, queue) => Precedes(g, queue')
          /\ \A g : Barred(g, queue) => Barred(g, queue')
          /\ Precedes(queue[1].gen, queue) => Precedes(queue[1].gen, queue')
      BY <2>2, ShapeKeeps
    <2>5. Precedes(queue[1].gen, queue)
      <3>1. \A k \in 1 .. Len(queue) : k # 1 => 1 < k
        OBVIOUS
      <3>2. QED
        BY <1>1, <1>3, <3>1 DEF Precedes, Good, Ordered
    <2>6. QED
      BY <1>1, <1>3, <2>2, <2>3, <2>4, <2>5 DEF Good
  <1>4. CASE ~(queue[1].kind = "Rx" /\ queue[1].at < queue[1].to)
    <2>1. queue' = Tail(queue)
      BY <1>1, <1>4 DEF Popped
    <2>2. /\ Good(queue', Latest) /\ Len(queue') + 1 = Len(queue)
          /\ queue' # << >> =>
                2 \in 2 .. Len(queue) /\ queue'[1] = queue[2]
                /\ queue'[Len(queue')] = queue[Len(queue)]
          /\ \A g : Precedes(g, queue) => Precedes(g, queue')
          /\ \A g : Barred(g, queue)
                => Barred(g, queue') \/ (queue[1].kind = "LinkDown" /\ g < queue[1].gen)
          /\ Precedes(queue[1].gen, queue')
      BY <1>1, <2>1, TailKeeps
    <2>3. queue[1].kind = "Rx" => queue[1].at = queue[1].to
      BY <1>1, <1>2, <1>4
    <2>4. ASSUME 2 \in 2 .. Len(queue), queue[2].kind = "Rx"
          PROVE  /\ queue[2].gen = queue[1].gen /\ queue[1].kind \in {"LinkUp", "Rx"}
                 /\ queue[1].kind = "Rx" => queue[2].at = queue[1].to + 1
      <3>1. 2 - 1 = 1
        OBVIOUS
      <3>2. QED
        BY <1>1, <2>4, <3>1 DEF Good, Joined
    <2>5. queue' \in Seq(Cells) /\ Len(queue') \in Nat
      BY <2>2 DEF Good
    <2>6. Len(queue') <= Depth /\ (queue' = << >> => Len(queue) = 1)
      BY <1>1, <2>2, <2>5
    <2>7. QED
      BY <2>2, <2>3, <2>4, <2>5, <2>6
  <1>5. QED
    BY <1>3, <1>4

\* pop(): the slice that leaves the queue is the event that is applied, or one that may not be
\* applied (ble_deferred_event_may_apply()).
LEMMA LoopPopKeeps ==
    ASSUME TypeOK, Ranges, BleInv, LoopPop
    PROVE  TypeOK' /\ BleInv'
  <1> DEFINE h == queue[1]
  <1>1. /\ At("loop", "pop") /\ queue # << >> /\ queue' = Popped /\ Head(queue) = h
        /\ UNCHANGED <<c, lock, host, timer, gap, link, proc, overflow, app, peers, framer,
                       fault, intent, faults>>
    BY DEF LoopPop, TypeOK, host_vars, radio
  <1>2. /\ Latest' = Latest /\ (Retiring' <=> Retiring) /\ (Open' <=> Open)
        /\ HasGapLink(c') = HasGapLink(c)
    BY <1>1 DEF Latest, Retiring, Open
  <1>3. /\ Good(queue', Latest) /\ queue' \in Seq(Cells) /\ Len(queue') <= Depth
        /\ \A g : Precedes(g, queue) => Precedes(g, queue')
        /\ Precedes(h.gen, queue')
        /\ \A g : Barred(g, queue)
               => Barred(g, queue') \/ (h.kind = "LinkDown" /\ g < h.gen)
        /\ queue' # << >> /\ queue'[1].kind = "Rx" =>
              /\ queue'[1].gen = h.gen /\ h.kind \in {"LinkUp", "Rx"}
              /\ h.kind = "Rx" => queue'[1].at = h.at + 1
        /\ queue' # << >> =>
              /\ queue'[Len(queue')].gen = queue[Len(queue)].gen
              /\ queue'[Len(queue')].kind = queue[Len(queue)].kind
              /\ queue'[Len(queue')].to = queue[Len(queue)].to
        /\ queue' = << >> =>
              Len(queue) = 1 /\ (h.kind = "Rx" => h.at = h.to)
    BY <1>1, PoppedKeeps
  <1>4. /\ h \in Cells /\ h.gen \in Nat /\ h.gen \in Gens /\ h.gen # NoGen /\ ~Odd(h.gen)
        /\ h.gen <= Latest /\ h.kind \in {"LinkUp", "LinkDown", "Rx"}
        /\ h.at \in 0..MaxRx /\ (h.kind = "Rx" => h.at # 0)
        /\ h.kind = "LinkDown" => app < h.gen
    <2>1. 1 \in 1 .. Len(queue)
      BY <1>1 DEF Ranges
    <2>2. /\ h \in Cells /\ h.gen \in Nat /\ h.from \in Nat /\ h.at \in Nat
          /\ h.kind \in {"LinkUp", "LinkDown", "Rx"} /\ h.gen \in Gens /\ h.to \in 0..MaxRx
      <3>1. queue \in Seq(Cells)
        BY DEF TypeOK
      <3>2. /\ h \in Cells /\ h.gen \in Nat /\ h.from \in Nat /\ h.at \in Nat
            /\ h.kind \in {"LinkUp", "LinkDown", "Rx"}
        BY <2>1, <3>1, CellNumbers
      <3>3. QED
        BY <3>2 DEF Cells
    <2>3. /\ ~Odd(h.gen)
          /\ h.kind = "Rx" => h.from \in 1 .. h.at /\ h.at <= h.to
          /\ h.kind # "Rx" => h.at = 0
      BY <2>1 DEF BleInv, Slices, Sliced
    <2>4. h.at \in 0..MaxRx /\ (h.kind = "Rx" => h.at # 0)
      BY <2>2, <2>3, GenAssumption
    <2>5. h.gen <= Latest /\ (h.kind = "LinkDown" => app < h.gen)
      BY <2>1 DEF BleInv, Order, Ordered, Precedes
    <2>6. h.gen # NoGen
      BY <2>2 DEF NoGen
    <2>7. QED
      BY <2>2, <2>3, <2>4, <2>5, <2>6
  <1>5. ev.kind = "none" /\ task["loop"].at = "pop"
    BY <1>1 DEF BleInv, Places, At
  <1>6. Generations' /\ Radio'
    BY <1>1 DEF BleInv, Generations, Radio, ScanStateIsTrue
  <1>7. FramerIsContiguous' /\ Joined(queue')
    BY <1>1, <1>3 DEF BleInv, Stream, FramerIsContiguous, Good
  <1>8. Open /\ queue' # << >> =>
              /\ queue'[Len(queue')].gen = c.gen /\ queue'[Len(queue')].kind \in {"LinkUp", "Rx"}
              /\ queue'[Len(queue')].kind = "Rx" => queue'[Len(queue')].to = link.rx
    BY <1>1, <1>3 DEF BleInv, Stream
  <1>9. Open /\ queue' = << >> => h.gen = c.gen /\ (h.kind = "Rx" => h.at = link.rx)
    <2>1. queue' = << >> => queue[Len(queue)] = h
      BY <1>3
    <2>2. QED
      BY <1>1, <1>3, <2>1 DEF BleInv, Stream
  <1>10. CASE MayApply(h.kind, h.gen)
    <2>1. /\ ev' = [kind |-> h.kind, gen |-> h.gen, i |-> h.at]
          /\ Go("loop", "apply")
      BY <1>1, <1>10 DEF LoopPop
    <2>2. ev' \in EventType /\ ev'.kind = h.kind /\ ev'.gen = h.gen /\ ev'.i = h.at
      BY <1>4, <2>1 DEF EventType
    <2>3. /\ task' \in [Tasks -> TaskType] /\ task'["loop"] = Resting("apply")
          /\ Resting("apply").at = "apply" /\ Resting("apply").next = "idle"
          /\ Resting("apply").back = "idle"
          /\ \A u \in Tasks : u # "loop" => task'[u] = task[u]
      <3>1. PICK r : r = Resting("apply")
        OBVIOUS
      <3>2. /\ r \in TaskType /\ task \in [Tasks -> TaskType] /\ "loop" \in Tasks
            /\ r.at = "apply" /\ r.next = "idle" /\ r.back = "idle"
        BY <3>1, RestingTyped DEF Ranges, Steps, Tasks
      <3>3. task' = [task EXCEPT !["loop"] = r]
        BY <2>1, <3>1 DEF Go
      <3>4. QED
        BY <3>1, <3>2, <3>3, TaskTyped
    <2>4. task'["loop"].at = "apply" /\ task'["loop"].next = "idle" /\ task'["loop"].back = "idle"
      BY <2>3
    <2>5. h.kind \in {"LinkUp", "Rx"} => h.gen = c.gen
      BY <1>10 DEF MayApply
    <2>6. TypeOK'
      BY <1>1, <1>3, <2>2, <2>3 DEF TypeOK
    <2>7. Slices'
      BY <1>2, <1>3, <1>4, <2>2, QueueParts
    <2>8. Locking'
      BY <1>1, <1>5, <2>3, <2>4, LockStays DEF BleInv, Returns, Tasks
    <2>9. Places'
      BY <1>4, <2>2, <2>4 DEF Places, At
    <2>10. Wanted'
      BY <1>1, <1>2, <1>5, <2>2, <2>4, <2>5 DEF BleInv, Wanted, Publishing, At
    <2>11. Order'
      BY <1>1, <1>2, <1>3, <1>4, <2>2 DEF BleInv, Order, Good
    <2>12. Barrier'
      BY <1>1, <1>2, <1>3, <1>5, <2>2 DEF BleInv, Barrier, At
    <2>13. Stream'
      <3>1. ev'.kind = "Rx" => Continues(framer', ev'.gen, ev'.i)
        BY <1>1, <1>5, <2>2, <2>5 DEF BleInv, Stream, AheadOf
      <3>2. queue' # << >> /\ queue'[1].kind = "Rx" /\ queue'[1].gen = c'.gen =>
                /\ ev'.kind = "Rx" => ev'.gen = c'.gen /\ queue'[1].at = ev'.i + 1
                /\ ev'.kind # "none"
        BY <1>1, <1>3, <1>4, <2>2
      <3>3. Open' /\ queue' = << >> =>
                /\ ev'.kind = "Rx" => ev'.gen = c'.gen /\ link'.rx + 1 = ev'.i + 1
                /\ ev'.kind # "none"
        BY <1>1, <1>2, <1>4, <1>9, <2>2
      <3>4. QED
        BY <1>1, <1>2, <1>7, <1>8, <3>1, <3>2, <3>3 DEF Stream, AheadOf
    <2>14. QED
      BY <1>6, <2>6, <2>7, <2>8, <2>9, <2>10, <2>11, <2>12, <2>13 DEF BleInv
  <1>11. CASE ~MayApply(h.kind, h.gen)
    <2>1. ev' = ev /\ task' = task /\ h.kind \in {"LinkUp", "Rx"} /\ h.gen # c.gen
      BY <1>1, <1>4, <1>11 DEF LoopPop, MayApply
    <2>2. TypeOK'
      BY <1>1, <1>3, <2>1 DEF TypeOK
    <2>3. Slices'
      BY <1>2, <1>3, <2>1, QueueParts DEF BleInv, Slices
    <2>4. Locking' /\ Places'
      BY <1>1, <2>1 DEF BleInv, Locking, Publishing, Places, At
    <2>5. Wanted'
      BY <1>1, <2>1 DEF BleInv, Wanted, Publishing, At
    <2>6. Order'
      BY <1>1, <1>2, <1>3, <2>1 DEF BleInv, Order, Good
    <2>7. Barrier'
      BY <1>1, <1>2, <1>3, <2>1 DEF BleInv, Barrier, At
    <2>8. Stream'
      <3>1. ~(queue' # << >> /\ queue'[1].kind = "Rx" /\ queue'[1].gen = c'.gen)
        BY <1>1, <1>3, <2>1
      <3>2. ~(Open' /\ queue' = << >>)
        BY <1>2, <1>9, <2>1
      <3>3. QED
        BY <1>1, <1>2, <1>5, <1>7, <1>8, <2>1, <3>1, <3>2 DEF Stream
    <2>9. QED
      BY <1>6, <2>2, <2>3, <2>4, <2>5, <2>6, <2>7, <2>8 DEF BleInv
  <1>12. QED
    BY <1>10, <1>11

\* The queue is empty; the framer stays or times out.
LEMMA LoopDrainedKeeps ==
    ASSUME TypeOK, Ranges, BleInv, LoopDrained
    PROVE  TypeOK' /\ BleInv'
  <1> USE DEF LoopDrained, At, Go, Resting, host_vars, radio, mailbox
  <1>1. TypeOK'
    <2>1. task' \in [Tasks -> TaskType]
      <3>1. "drive" \in Steps /\ "loop" \in Tasks
        BY DEF Steps, Tasks
      <3>2. Go("loop", "drive")
        BY DEF LoopDrained
      <3>3. QED
        BY <3>1, <3>2, GoTyped
    <2>2. framer' \in Seq([gen : Gens, i : 1..MaxRx])
      <3>1. << >> \in Seq([gen : Gens, i : 1..MaxRx])
        OBVIOUS
      <3>2. QED
        BY <3>1, Zenon DEF TypeOK
    <2>3. QED
      BY <2>1, <2>2 DEF TypeOK
  <1>2. Slices'
    BY DEF Slices, BleInv
  <1>3. Locking'
    BY DEF Locking, Publishing, Returns, BleInv, At
  <1>4. Generations'
    BY DEF Generations, BleInv
  <1>5. Radio'
    BY DEF Radio, ScanStateIsTrue, BleInv
  <1>6. Places'
    BY DEF Places, BleInv
  <1>7. Wanted'
    BY DEF Wanted, Publishing, BleInv
  <1>8. Order'
    <2>1. Latest <= Latest'
      BY DEF Ranges, Latest, Retiring
    <2>2. QED
      BY <1>1, <2>1, OrderStays DEF BleInv
  <1>9. Barrier'
    BY DEF Barrier, Retiring, BleInv
  <1>10. Stream'
    <2>1. /\ queue' = queue /\ framer' \in {framer, << >>} /\ UNCHANGED <<c, link, ev>>
          /\ ev.kind # "Rx"
      BY DEF BleInv, Places
    <2>2. Open' => Open
      BY <2>1 DEF Open
    <2>3. CASE framer' = framer
      BY <2>2, <2>3, StreamStays DEF BleInv
    <2>4. CASE framer' = << >>
      BY <2>1, <2>2, <2>4, StreamEmpty DEF BleInv
    <2>5. QED
      BY <2>1, <2>3, <2>4
  <1>11. QED
    BY <1>1, <1>2, <1>3, <1>4, <1>5, <1>6, <1>7, <1>8, <1>9, <1>10 DEF BleInv

\* LinkDown is applied: framer, sessions and request slots start over, whether or not failing
\* the commands of the link throws.
LEMMA LoopApplyDownKeeps ==
    ASSUME TypeOK, Ranges, BleInv, LoopApplyDown
    PROVE  TypeOK' /\ BleInv'
  <1> USE DEF LoopApplyDown, At, Go, Resting, Charge, CanFail, LinkStateDown, NoEvent,
      host_vars, radio, mailbox
  <1>1. TypeOK'
    <2>1. task' \in [Tasks -> TaskType]
      <3>1. "pop" \in Steps /\ "loop" \in Tasks
        BY DEF Steps, Tasks
      <3>2. Go("loop", "pop")
        BY DEF LoopApplyDown
      <3>3. QED
        BY <3>1, <3>2, GoTyped
    <2>2. ev' \in EventType
      BY NoEventTyped DEF LoopApplyDown
    <2>3. framer' \in Seq([gen : Gens, i : 1..MaxRx])
      BY DEF BleInv
    <2>4. fault' \in BOOLEAN
      BY DEF TypeOK
    <2>5. faults' \in 0..MaxFaults
      BY Charged DEF TypeOK
    <2>6. QED
      BY <2>1, <2>2, <2>3, <2>4, <2>5 DEF TypeOK
  <1>2. Slices'
    BY DEF Slices, BleInv
  <1>3. Locking'
    BY DEF Locking, Publishing, Returns, BleInv, At
  <1>4. Generations'
    BY DEF Generations, BleInv
  <1>5. Radio'
    BY DEF Radio, ScanStateIsTrue, BleInv
  <1>6. Places'
    BY DEF Places, Ranges, Tasks
  <1>7. Wanted'
    BY DEF Slices, Locking, Publishing, Returns, Generations, Radio, ScanStateIsTrue, Places,
       Wanted, HasGapLink, Order, Ordered, Precedes, Latest, Retiring, Barrier, Barred, BleInv,
       Ranges, Cells, EventType, Tasks, TaskType, LinkType, GapType
  <1>8. Order'
    <2>1. Latest <= Latest'
      BY DEF Ranges, Latest, Retiring
    <2>2. QED
      BY <1>1, <2>1, OrderStays DEF BleInv
  <1>9. Barrier'
    <2>1. peers' = NoGen /\ UNCHANGED c /\ NoGen # c.gen
      BY DEF Ranges, NoGen
    <2>2. QED
      BY <2>1 DEF Barrier
  <1>10. Stream'
    <2>1. queue' = queue /\ framer' = << >> /\ UNCHANGED <<c, link>>
      BY DEF radio
    <2>2. Open' => Open
      BY <2>1 DEF Open
    <2>3. QED
      BY <2>2, StreamEmpty DEF BleInv
  <1>11. QED
    BY <1>1, <1>2, <1>3, <1>4, <1>5, <1>6, <1>7, <1>8, <1>9, <1>10 DEF BleInv

\* LinkUp is applied: it is the newest link, and the framer starts over for it.
LEMMA LoopApplyUpKeeps ==
    ASSUME TypeOK, Ranges, BleInv, LoopApplyUp
    PROVE  TypeOK' /\ BleInv'
  <1> USE DEF LoopApplyUp, At, Go, Resting, host_vars, radio, mailbox
  <1>1. TypeOK'
    <2>1. task' \in [Tasks -> TaskType]
      <3>1. "complete" \in Steps /\ "loop" \in Tasks
        BY DEF Steps, Tasks
      <3>2. Go("loop", "complete")
        BY DEF LoopApplyUp
      <3>3. QED
        BY <3>1, <3>2, GoTyped
    <2>2. app' \in Gens \cup {NoGen}
      BY DEF Ranges, EventType
    <2>3. QED
      BY <2>1, <2>2 DEF TypeOK
  <1>2. Slices'
    BY DEF Slices, BleInv
  <1>3. Locking'
    BY DEF Locking, Publishing, Returns, BleInv, At
  <1>4. Generations'
    BY DEF Generations, BleInv
  <1>5. Radio'
    BY DEF Radio, ScanStateIsTrue, BleInv
  <1>6. Places'
    BY DEF Places
  <1>7. Wanted'
    BY DEF Wanted, Publishing, BleInv
  <1>8. Order'
    BY DEF Order, Latest, Retiring, BleInv
  <1>9. Barrier'
    BY DEF Barrier, Retiring, BleInv
  <1>10. Stream'
    <2>1. queue' = queue /\ framer' = << >> /\ UNCHANGED <<c, link>>
      BY DEF radio
    <2>2. Open' => Open
      BY <2>1 DEF Open
    <2>3. QED
      BY <2>2, StreamEmpty DEF BleInv
  <1>11. QED
    BY <1>1, <1>2, <1>3, <1>4, <1>5, <1>6, <1>7, <1>8, <1>9, <1>10 DEF BleInv

\* A notification is applied: it follows the one the framer ends with, or the framer is emptied.
LEMMA LoopApplyRxKeeps ==
    ASSUME TypeOK, Ranges, BleInv, LoopApplyRx
    PROVE  TypeOK' /\ BleInv'
  <1> USE DEF LoopApplyRx, At, Go, Resting, Charge, CanFail, NoEvent, host_vars, radio, mailbox
  <1>1. TypeOK'
    <2>1. task' \in [Tasks -> TaskType]
      <3>1. "drive" \in Steps /\ "pop" \in Steps /\ "loop" \in Tasks
        BY DEF Steps, Tasks
      <3>2. Go("loop", "drive") \/ Go("loop", "pop")
        BY DEF LoopApplyRx
      <3>3. QED
        BY <3>1, <3>2, GoTyped
    <2>2. ev' \in EventType
      BY NoEventTyped DEF LoopApplyRx
    <2>3. framer' \in Seq([gen : Gens, i : 1..MaxRx])
      <3>1. ev.gen \in Gens /\ ev.i \in 1..MaxRx
        <4>1. ev.kind = "Rx" /\ ev.gen # NoGen /\ ev.i # 0
          BY DEF LoopApplyRx, BleInv, Slices
        <4>2. ev.gen \in Gens \cup {NoGen} /\ ev.i \in 0..MaxRx
          BY DEF Ranges, EventType
        <4>3. QED
          BY <4>1, <4>2, GenAssumption
      <3>2. PICK e \in [gen : Gens, i : 1..MaxRx] : e = [gen |-> ev.gen, i |-> ev.i]
        BY <3>1
      <3>3. framer' = Append(framer, e) \/ framer' = << >>
        BY <3>2 DEF LoopApplyRx
      <3>4. CASE framer' = Append(framer, e)
        BY <3>2, <3>4 DEF TypeOK
      <3>5. CASE framer' = << >>
        BY <3>5
      <3>6. QED
        BY <3>3, <3>4, <3>5
    <2>4. faults' \in 0..MaxFaults
      BY Charged DEF TypeOK
    <2>5. QED
      BY <2>1, <2>2, <2>3, <2>4 DEF TypeOK
  <1>2. Slices'
    BY DEF Slices, BleInv
  <1>3. Locking'
    <2>1. /\ task'["loop"].at \in {"drive", "pop"} /\ task'["loop"].next = "idle"
          /\ task'["loop"].back = "idle" /\ task'["cmd"] = task["cmd"]
      <3>1. /\ task \in [Tasks -> TaskType] /\ Tasks = {"cmd", "loop"}
            /\ Go("loop", "drive") \/ Go("loop", "pop")
        BY DEF LoopApplyRx, Ranges, Tasks
      <3>2. QED
        BY <3>1 DEF Go, Resting
    <2>2. QED
      BY <2>1, LockStays DEF BleInv, Tasks, At, Returns
  <1>4. Generations'
    BY DEF Generations, BleInv
  <1>5. Radio'
    BY DEF Radio, ScanStateIsTrue, BleInv
  <1>6. Places'
    <2>1. task'["loop"].at \in {"drive", "pop"}
      <3>1. /\ task \in [Tasks -> TaskType] /\ Tasks = {"cmd", "loop"}
            /\ Go("loop", "drive") \/ Go("loop", "pop")
        BY DEF LoopApplyRx, Ranges, Tasks
      <3>2. QED
        BY <3>1 DEF Go, Back, Resting
    <2>2. ev'.kind = "none"
      BY DEF LoopApplyRx
    <2>3. QED
      BY <2>1, <2>2 DEF Places
  <1>7. Wanted'
    <2>1. task'["loop"].at \in {"drive", "pop"}
      <3>1. /\ task \in [Tasks -> TaskType] /\ Tasks = {"cmd", "loop"}
            /\ Go("loop", "drive") \/ Go("loop", "pop")
        BY DEF LoopApplyRx, Ranges, Tasks
      <3>2. QED
        BY <3>1 DEF Go, Resting
    <2>2. ~Publishing'
      BY <2>1 DEF Publishing
    <2>3. QED
      BY <2>2 DEF BleInv, Wanted
  <1>8. Order'
    <2>1. Latest <= Latest'
      BY DEF Ranges, Latest, Retiring
    <2>2. QED
      BY <1>1, <2>1, OrderStays DEF BleInv
  <1>9. Barrier'
    BY DEF Barrier, Retiring, BleInv
  <1>10. Stream'
    <2>1. /\ ev.kind = "Rx" /\ ev' = NoEvent /\ ev'.kind = "none"
          /\ UNCHANGED <<c, link, queue>>
          /\ framer' \in {Append(framer, [gen |-> ev.gen, i |-> ev.i]), << >>}
      BY DEF radio
    <2>2. CASE framer' = << >>
      <3>1. Open' => Open
        BY <2>1 DEF Open
      <3>2. QED
        BY <2>2, <3>1, StreamEmpty DEF BleInv
    <2>3. CASE framer' = Append(framer, [gen |-> ev.gen, i |-> ev.i])
      <3>1. PICK e : e = [gen |-> ev.gen, i |-> ev.i]
        OBVIOUS
      <3>2. /\ Len(framer) \in Nat /\ Len(framer') = Len(framer) + 1
            /\ framer'[Len(framer')] = e
            /\ \A k \in 1 .. Len(framer) : framer'[k] = framer[k]
        BY <2>3, <3>1 DEF TypeOK
      <3>3. ev.i \in Nat
        BY DEF Ranges
      <3>4. framer # << >> => framer[Len(framer)] = [gen |-> ev.gen, i |-> ev.i - 1]
        BY DEF BleInv, Stream, Continues
      <3>5. \A k \in 1 .. Len(framer) : framer'[k + 1] = [gen |-> framer'[k].gen,
                                                                          i |-> framer'[k].i + 1]
        <4>1. TAKE k \in 1 .. Len(framer)
        <4>2. CASE k \in 1 .. (Len(framer) - 1)
          <5>1. framer'[k] = framer[k] /\ framer'[k + 1] = framer[k + 1]
            BY <3>2, <4>2
          <5>2. QED
            BY <4>2, <5>1 DEF BleInv, Stream, FramerIsContiguous
        <4>3. CASE k = Len(framer)
          <5>1. framer'[k + 1] = e /\ framer'[k] = [gen |-> ev.gen, i |-> ev.i - 1]
            <6>1. framer # << >> /\ framer'[k] = framer[k] /\ k + 1 = Len(framer')
              BY <3>2, <4>3
            <6>2. QED
              BY <3>2, <3>4, <6>1
          <5>2. QED
            BY <3>1, <3>3, <5>1
        <4>4. QED
          BY <3>2, <4>2, <4>3
      <3>6. FramerIsContiguous'
        <4>1. Len(framer') - 1 = Len(framer)
          BY <3>2
        <4>2. QED
          BY <3>5, <4>1 DEF FramerIsContiguous
      <3>7. \A g : Continues(framer', g, ev.i + 1) <=> (g = ev.gen)
        <4>1. framer' # << >> /\ framer'[Len(framer')] = e /\ e.gen = ev.gen
          BY <3>1, <3>2
        <4>2. \A g : [gen |-> g, i |-> (ev.i + 1) - 1] = e <=> g = ev.gen
          BY <3>1, <3>3
        <4>3. QED
          BY <4>1, <4>2 DEF Continues
      <3>8. \A g, i : AheadOf(g, i) => Continues(framer', g, i)
        BY <2>1, <3>7 DEF AheadOf
      <3>9. \A g, i : Continues(framer', g, i) => AheadOf(g, i)'
        BY <2>1 DEF AheadOf
      <3>10. Open' <=> Open
        BY <2>1 DEF Open
      <3>11. QED
        BY <3>6, <3>8, <3>9, <3>10 DEF BleInv, Stream
    <2>4. QED
      BY <2>1, <2>2, <2>3
  <1>11. QED
    BY <1>1, <1>2, <1>3, <1>4, <1>5, <1>6, <1>7, <1>8, <1>9, <1>10 DEF BleInv

\* complete_ready() takes the mutex for a link that is still published and wanted, or undoes the
\* LinkUp.
LEMMA LoopCompleteKeeps ==
    ASSUME TypeOK, Ranges, BleInv, LoopComplete
    PROVE  TypeOK' /\ BleInv'
  <1> USE DEF LoopComplete, At, Go, Resting, SnapshotMatches, radio, mailbox, vehicle
  <1>1. TypeOK'
    <2>1. lock' \in Tasks \cup {"free", "host"}
      BY DEF TypeOK, Tasks
    <2>2. task' \in [Tasks -> TaskType]
      <3>1. "publish" \in Steps /\ "unwind" \in Steps /\ "loop" \in Tasks
        BY DEF Steps, Tasks
      <3>2. Go("loop", "publish") \/ Go("loop", "unwind")
        BY DEF LoopComplete
      <3>3. QED
        BY <3>1, <3>2, GoTyped
    <2>3. QED
      BY <2>1, <2>2 DEF TypeOK
  <1>2. Slices'
    BY DEF Slices, BleInv
  <1>3. Locking'
    BY DEF Locking, Publishing, Returns, BleInv, Ranges, Tasks, TaskType, HostType,
       ClientType, LinkType
  <1>4. Generations'
    BY DEF Generations, BleInv
  <1>5. Radio'
    BY DEF Radio, ScanStateIsTrue, BleInv
  <1>6. Places'
    BY DEF Places, BleInv, Ranges, TaskType, EventType
  <1>7. Wanted'
    BY DEF Wanted, Publishing, BleInv, Ranges, At, Tasks
  <1>8. Order'
    <2>1. Latest <= Latest'
      BY DEF Ranges, Latest, Retiring
    <2>2. QED
      BY <1>1, <2>1, OrderStays DEF BleInv
  <1>9. Barrier'
    BY DEF Barrier, Retiring, BleInv
  <1>10. Stream'
    <2>1. Open' => Open /\ link'.rx = link.rx
      BY DEF Open
    <2>2. QED
      BY <2>1, StreamStays DEF BleInv
  <1>11. QED
    BY <1>1, <1>2, <1>3, <1>4, <1>5, <1>6, <1>7, <1>8, <1>9, <1>10 DEF BleInv

\* complete_ready(): the generation of the LinkUp is ready; a request stands for it unless the
\* host retired it without the mutex.
LEMMA LoopPublishKeeps ==
    ASSUME TypeOK, Ranges, BleInv, LoopPublish
    PROVE  TypeOK' /\ BleInv'
  <1>1. /\ At("loop", "publish") /\ Go("loop", "recheck") /\ c' = [c EXCEPT !.ready = ev.gen]
        /\ UNCHANGED <<lock, host, timer, gap, link, proc, queue, overflow, ev, app, peers,
                       framer, fault, intent, faults>>
    BY DEF LoopPublish, host_vars, radio, mailbox, vehicle
  <1>2. ev.gen \in Gens \cup {NoGen}
    BY DEF Ranges, EventType
  <1>3. /\ c' \in ClientType
        /\ c'.want = c.want /\ c'.connecting = c.connecting /\ c'.scanning = c.scanning
        /\ c'.synced = c.synced /\ c'.gen = c.gen /\ c'.handle = c.handle
        /\ c'.write = c.write /\ c'.ready = ev.gen /\ c'.discon = c.discon
        /\ c'.term = c.term
    BY <1>1, <1>2 DEF Ranges, ClientType
  <1>4. TypeOK'
    <2>1. task' \in [Tasks -> TaskType]
      <3>1. "recheck" \in Steps /\ "loop" \in Tasks
        BY DEF Steps, Tasks
      <3>2. Go("loop", "recheck")
        BY <1>1
      <3>3. QED
        BY <3>1, <3>2, GoTyped
    <2>2. QED
      BY <2>1, <1>1, <1>3 DEF TypeOK
  <1>5. Slices'
    BY <1>1 DEF Slices, BleInv
  <1>6. Locking'
    BY <1>1 DEF Locking, Publishing, Returns, BleInv, At, Go, Resting
  <1>7. Generations'
    BY <1>1 DEF Generations, BleInv
  <1>8. Radio'
    BY <1>1 DEF Radio, ScanStateIsTrue, BleInv
  <1>9. Places'
    BY <1>1 DEF Places, BleInv, At, Go, Resting
  <1>10. Wanted'
    BY <1>1 DEF Wanted, Publishing, BleInv, Ranges, At, Tasks, Go, Resting
  <1>11. Order'
    <2>1. Latest <= Latest'
      BY <1>1 DEF Ranges, Latest, Retiring
    <2>2. queue' = queue /\ app' \in {app, NoGen} /\ peers' \in {peers, NoGen}
          /\ ev' \in {ev, NoEvent}
      BY <1>1
    <2>3. QED
      BY <1>4, <2>1, <2>2, OrderStays DEF BleInv
  <1>12. Barrier'
    BY <1>1 DEF Barrier, Retiring, BleInv, At
  <1>13. Stream'
    <2>1. Open' => Open /\ link'.rx = link.rx
      BY <1>1 DEF Open, SnapshotMatches
    <2>2. QED
      BY <1>1, <2>1, StreamStays DEF BleInv
  <1>14. QED
    BY <1>4, <1>5, <1>6, <1>7, <1>8, <1>9, <1>10, <1>11, <1>12, <1>13 DEF BleInv

\* complete_ready() looks again after publishing: a link that was retired meanwhile is not left
\* ready.
LEMMA LoopRecheckKeeps ==
    ASSUME TypeOK, Ranges, BleInv, LoopRecheck
    PROVE  TypeOK' /\ BleInv'
  <1>1. /\ At("loop", "recheck") /\ lock' = "free"
        /\ \/ /\ SnapshotMatches(c, ev.gen)
              /\ c' = [c EXCEPT !.connecting = FALSE, !.want = FALSE]
              /\ ev' = NoEvent /\ Go("loop", "pop")
           \/ /\ ~SnapshotMatches(c, ev.gen)
              /\ c' = [c EXCEPT !.ready = NoGen]
              /\ ev' = ev /\ Go("loop", "unwind")
    BY DEF LoopRecheck
  <1>2. UNCHANGED <<host, timer, gap, link, proc, queue, overflow, app, peers, framer, fault,
                    intent, faults>>
    BY DEF LoopRecheck, radio, mailbox
  <1>3. c' \in ClientType
    BY <1>1 DEF Ranges, ClientType
  <1>4. \/ /\ SnapshotMatches(c, ev.gen) /\ ev' = NoEvent /\ Go("loop", "pop")
           /\ c'.want = FALSE /\ c'.connecting = FALSE /\ c'.scanning = c.scanning
           /\ c'.synced = c.synced /\ c'.gen = c.gen /\ c'.handle = c.handle
           /\ c'.write = c.write /\ c'.ready = c.ready /\ c'.discon = c.discon
           /\ c'.term = c.term
        \/ /\ ~SnapshotMatches(c, ev.gen) /\ ev' = ev /\ Go("loop", "unwind")
           /\ c'.want = c.want /\ c'.connecting = c.connecting /\ c'.scanning = c.scanning
           /\ c'.synced = c.synced /\ c'.gen = c.gen /\ c'.handle = c.handle
           /\ c'.write = c.write /\ c'.ready = NoGen /\ c'.discon = c.discon
           /\ c'.term = c.term
    BY <1>1 DEF Ranges, ClientType
  <1>5. TypeOK'
    <2>1. task' \in [Tasks -> TaskType]
      <3>1. "pop" \in Steps /\ "unwind" \in Steps /\ "loop" \in Tasks
        BY DEF Steps, Tasks
      <3>2. Go("loop", "pop") \/ Go("loop", "unwind")
        BY <1>1
      <3>3. QED
        BY <3>1, <3>2, GoTyped
    <2>2. ev' \in EventType
      BY <1>1, NoEventTyped DEF Ranges
    <2>3. QED
      BY <2>1, <2>2, <1>1, <1>2, <1>3, <1>4 DEF TypeOK
  <1>6. Slices'
    BY <1>2, <1>3, <1>4 DEF Slices, BleInv, SnapshotMatches, NoEvent
  <1>7. Locking'
    <2>1. lock = "loop"
      BY <1>1 DEF BleInv, Locking, Publishing, At, Tasks
    <2>2. /\ task'["loop"].at \in {"pop", "unwind"} /\ task'["loop"].next = "idle"
          /\ task'["loop"].back = "idle" /\ task'["cmd"] = task["cmd"]
      <3>1. /\ task \in [Tasks -> TaskType] /\ Tasks = {"cmd", "loop"}
            /\ Go("loop", "pop") \/ Go("loop", "unwind")
        BY <1>1 DEF Ranges, Tasks
      <3>2. QED
        BY <3>1 DEF Go, Resting
    <2>3. ~At("cmd", "release") /\ host.at # "publish"
      BY <2>1 DEF BleInv, Locking, Tasks
    <2>4. /\ \A t \in Tasks : task'[t].next \in Returns /\ task'[t].back \in Returns
          /\ task'["cmd"].at \notin {"publish", "recheck"}
      BY <2>2 DEF BleInv, Locking, Tasks, Returns
    <2>5. \A t \in Tasks : task'[t].at # "release" /\ ~(t = "loop" /\ Publishing')
      BY <2>2, <2>3 DEF Tasks, At, Publishing
    <2>6. QED
      BY <1>1, <1>2, <2>3, <2>4, <2>5 DEF Locking, Tasks, At
  <1>8. Generations'
    BY <1>2, <1>4 DEF Generations, BleInv
  <1>9. Radio'
    BY <1>2, <1>4 DEF Radio, ScanStateIsTrue, BleInv, SnapshotMatches
  <1>10. Places'
    BY <1>1, <1>2, <1>3, <1>4 DEF Places, BleInv, Ranges, At, Tasks, TaskType, EventType,
       HostIdle, Go, Resting, SnapshotMatches, NoEvent
  <1>11. Wanted'
    <2>1. intent /\ intent' = intent
      BY <1>1, <1>2 DEF BleInv, Wanted, Publishing, At
    <2>2. CASE c'.ready = NoGen
      BY <2>1, <2>2 DEF Wanted
    <2>3. CASE /\ SnapshotMatches(c, ev.gen) /\ ev' = NoEvent /\ c'.discon = c.discon
               /\ c'.gen = c.gen /\ c'.handle = c.handle /\ c'.ready = c.ready
                  /\ c.ready # NoGen
      <3>1. c.gen = ev.gen /\ app = ev.gen /\ ev.kind = "LinkUp"
        BY <1>1, <2>3 DEF BleInv, Places, SnapshotMatches, At
      <3>2. c.ready = c.gen
        BY <2>3, <3>1 DEF BleInv, Wanted
      <3>3. HasGapLink(c')
        BY <2>3 DEF HasGapLink, SnapshotMatches
      <3>4. ev'.kind = "none"
        BY <2>3 DEF NoEvent
      <3>5. QED
        BY <1>2, <2>1, <2>3, <3>1, <3>2, <3>3, <3>4 DEF Wanted
    <2>4. QED
      BY <1>4, <2>2, <2>3
  <1>12. Order'
    <2>1. Latest <= Latest'
      BY <1>2, <1>4 DEF Ranges, Latest, Retiring
    <2>2. queue' = queue /\ app' \in {app, NoGen} /\ peers' \in {peers, NoGen}
          /\ ev' \in {ev, NoEvent}
      BY <1>1, <1>2
    <2>3. QED
      BY <1>5, <2>1, <2>2, OrderStays DEF BleInv
  <1>13. Barrier'
    BY <1>1, <1>2, <1>4 DEF Barrier, Retiring, Places, BleInv, At
  <1>14. Stream'
    <2>1. framer = << >> /\ ev.kind = "LinkUp" /\ NoEvent.kind = "none"
      BY <1>1 DEF BleInv, Places, At, NoEvent
    <2>2. ev'.kind # "Rx"
      BY <1>1, <2>1
    <2>3. Open' => Open /\ c'.gen = c.gen /\ link'.rx = link.rx
      BY <1>2, <1>4 DEF Open, SnapshotMatches
    <2>4. QED
      BY <1>2, <2>1, <2>2, <2>3, StreamEmpty DEF BleInv
  <1>15. QED
    BY <1>5, <1>6, <1>7, <1>8, <1>9, <1>10, <1>11, <1>12, <1>13, <1>14 DEF BleInv

\* A LinkUp that could not be completed is undone (apply_ble_link_state_(false)).
LEMMA LoopUnwindKeeps ==
    ASSUME TypeOK, Ranges, BleInv, LoopUnwind
    PROVE  TypeOK' /\ BleInv'
  <1> USE DEF LoopUnwind, At, LinkStateDown, Back, Resting, NoEvent, host_vars, radio, mailbox
  <1>1. TypeOK'
    <2>1. task' \in [Tasks -> TaskType]
      BY DEF Ranges, BleInv, TaskType, Steps
    <2>2. ev' \in EventType
      BY NoEventTyped DEF LoopUnwind
    <2>3. app' \in Gens \cup {NoGen}
      BY DEF BleInv
    <2>4. framer' \in Seq([gen : Gens, i : 1..MaxRx])
      BY DEF BleInv
    <2>5. QED
      BY <2>1, <2>2, <2>3, <2>4 DEF TypeOK
  <1>2. Slices'
    BY DEF Slices, BleInv
  <1>3. Locking'
    BY DEF Locking, Publishing, Returns, BleInv, At
  <1>4. Generations'
    BY DEF Generations, BleInv
  <1>5. Radio'
    BY DEF Radio, ScanStateIsTrue, BleInv
  <1>6. Places'
    BY DEF Places, Ranges, Tasks
  <1>7. Wanted'
    <2>1. /\ task'["loop"].at = "disconnect" /\ UNCHANGED <<c, intent>> /\ ev'.kind = "none"
          /\ At("loop", "unwind")
      <3>1. Back("loop", "disconnect", "pop") /\ task \in [Tasks -> TaskType]
            /\ "loop" \in Tasks
        BY DEF LoopUnwind, Ranges, Tasks
      <3>2. QED
        BY <3>1
    <2>2. ~Publishing' /\ At("loop", "disconnect")' /\ ~At("loop", "recheck")
      BY <2>1 DEF Publishing, At
    <2>3. QED
      BY <2>2 DEF Wanted, BleInv
  <1>8. Order'
    <2>1. Latest <= Latest'
      BY DEF Ranges, Latest, Retiring
    <2>2. QED
      BY <1>1, <2>1, OrderStays DEF BleInv
  <1>9. Barrier'
    <2>1. peers' = NoGen /\ UNCHANGED c /\ NoGen # c.gen
      BY DEF Ranges, NoGen
    <2>2. QED
      BY <2>1 DEF Barrier
  <1>10. Stream'
    <2>1. queue' = queue /\ framer' = << >> /\ UNCHANGED <<c, link>>
      BY DEF radio
    <2>2. Open' => Open
      BY <2>1 DEF Open
    <2>3. QED
      BY <2>2, StreamEmpty DEF BleInv
  <1>11. QED
    BY <1>1, <1>2, <1>3, <1>4, <1>5, <1>6, <1>7, <1>8, <1>9, <1>10 DEF BleInv

\* ble_fault_: a ready link is dropped and the next round starts.
LEMMA LoopFaultKeeps ==
    ASSUME TypeOK, Ranges, BleInv, LoopFault
    PROVE  TypeOK' /\ BleInv'
  <1> USE DEF LoopFault, At, Go, Resting, IsConnected, HasGapLink, Back, host_vars, radio,
      mailbox
  <1>1. TypeOK'
    <2>1. task' \in [Tasks -> TaskType]
      <3>1. CASE Go("loop", "service")
        BY <3>1, GoTyped DEF Tasks, Steps
      <3>2. CASE Back("loop", "disconnect", "service")
        <4>1. PICK r : r = [Resting("disconnect") EXCEPT !.back = "service"]
          OBVIOUS
        <4>2. r \in TaskType
          <5>1. "disconnect" \in Steps /\ "service" \in Steps /\ 0 \in Gens
            BY DEF Steps, Ranges
          <5>2. QED
            BY <4>1, <5>1, BackTyped
        <4>3. task' = [task EXCEPT !["loop"] = r]
          BY <3>2, <4>1 DEF Back
        <4>4. QED
          BY <4>2, <4>3 DEF Ranges, Tasks
      <3>3. QED
        BY <3>1, <3>2 DEF LoopFault
    <2>2. fault' \in BOOLEAN
      BY DEF TypeOK
    <2>3. QED
      BY <2>1, <2>2 DEF TypeOK
  <1>2. Slices'
    BY DEF Slices, BleInv
  <1>3. Locking'
    <2>1. /\ task'["loop"].at \in {"service", "disconnect"} /\ task'["loop"].next = "idle"
          /\ task'["loop"].back \in {"idle", "service"} /\ task'["cmd"] = task["cmd"]
      <3>1. /\ task \in [Tasks -> TaskType] /\ Tasks = {"cmd", "loop"}
            /\ Go("loop", "service") \/ Back("loop", "disconnect", "service")
        BY DEF LoopFault, Ranges, Tasks
      <3>2. QED
        BY <3>1
    <2>2. QED
      BY <2>1, LockStays DEF BleInv, Tasks, At, Returns
  <1>4. Generations'
    BY DEF Generations, BleInv
  <1>5. Radio'
    BY DEF Radio, ScanStateIsTrue, BleInv
  <1>6. Places'
    <2>1. task'["loop"].at \in {"service", "disconnect"}
      <3>1. /\ task \in [Tasks -> TaskType] /\ Tasks = {"cmd", "loop"}
            /\ Go("loop", "service") \/ Back("loop", "disconnect", "service")
        BY DEF LoopFault, Ranges, Tasks
      <3>2. QED
        BY <3>1 DEF Go, Back, Resting
    <2>2. task["loop"].at = "drive" /\ ev' = ev
      BY DEF LoopFault
    <2>3. QED
      BY <2>1, <2>2 DEF Places, BleInv
  <1>7. Wanted'
    <2>1. task'["loop"].at \in {"service", "disconnect"}
      <3>1. /\ task \in [Tasks -> TaskType] /\ Tasks = {"cmd", "loop"}
            /\ Go("loop", "service") \/ Back("loop", "disconnect", "service")
        BY DEF LoopFault, Ranges, Tasks
      <3>2. QED
        BY <3>1 DEF Go, Back, Resting
    <2>2. task["loop"].at = "drive" /\ UNCHANGED <<c, intent, app, ev>>
      BY DEF LoopFault
    <2>3. QED
      BY <2>1, <2>2 DEF Wanted, Publishing, BleInv
  <1>8. Order'
    <2>1. Latest <= Latest'
      BY DEF Ranges, Latest, Retiring
    <2>2. QED
      BY <1>1, <2>1, OrderStays DEF BleInv
  <1>9. Barrier'
    BY DEF Barrier, Retiring, BleInv
  <1>10. Stream'
    <2>1. Open' => Open /\ link'.rx = link.rx
      BY DEF Open
    <2>2. QED
      BY <2>1, StreamStays DEF BleInv
  <1>11. QED
    BY <1>1, <1>2, <1>3, <1>4, <1>5, <1>6, <1>7, <1>8, <1>9, <1>10 DEF BleInv

\* drive_command_runner_(): sessions and request slots are those of the ready link.
LEMMA LoopDriveKeeps ==
    ASSUME TypeOK, Ranges, BleInv, LoopDrive
    PROVE  TypeOK' /\ BleInv'
  <1> USE DEF LoopDrive, At, Go, Resting, IsConnected, HasGapLink, host_vars, radio, mailbox
  <1>1. TypeOK'
    <2>1. task' \in [Tasks -> TaskType]
      <3>1. "tail" \in Steps /\ "service" \in Steps /\ "loop" \in Tasks
        BY DEF Steps, Tasks
      <3>2. Go("loop", "tail") \/ Go("loop", "service")
        BY DEF LoopDrive
      <3>3. QED
        BY <3>1, <3>2, GoTyped
    <2>2. peers' \in Gens \cup {NoGen}
      BY DEF TypeOK, Ranges
    <2>3. QED
      BY <2>1, <2>2 DEF TypeOK
  <1>2. Slices'
    BY DEF Slices, BleInv
  <1>3. Locking'
    BY DEF Locking, Publishing, Returns, BleInv, At
  <1>4. Generations'
    BY DEF Generations, BleInv
  <1>5. Radio'
    BY DEF Radio, ScanStateIsTrue, BleInv
  <1>6. Places'
    BY DEF Places, BleInv
  <1>7. Wanted'
    BY DEF Wanted, Publishing, BleInv
  <1>8. Order'
    BY DEF Order, Latest, Retiring, Generations, BleInv, Ranges
  <1>9. Barrier'
    BY DEF Barrier, Retiring, BleInv
  <1>10. Stream'
    <2>1. Open' => Open /\ link'.rx = link.rx
      BY DEF Open
    <2>2. QED
      BY <2>1, StreamStays DEF BleInv
  <1>11. QED
    BY <1>1, <1>2, <1>3, <1>4, <1>5, <1>6, <1>7, <1>8, <1>9, <1>10 DEF BleInv

\* A round that ends with a warm-up connect().
LEMMA LoopWarmUpKeeps ==
    ASSUME TypeOK, Ranges, BleInv, LoopWarmUp
    PROVE  TypeOK' /\ BleInv'
  <1>1. Connect("loop", "tail", "service")
    BY DEF LoopWarmUp
  <1>2. At("loop", "tail") /\ lock = "free"
    BY <1>1 DEF Connect
  <1>3. \/ task' = [task EXCEPT !["loop"] = Resting("service")] /\ UNCHANGED <<c, lock, intent>>
        \/ /\ c' = [c EXCEPT !.want = TRUE] /\ intent' = TRUE /\ lock' = "loop"
           /\ \/ task' = [task EXCEPT !["loop"] = [Resting("release") EXCEPT !.next = "service"]]
              \/ task' = [task EXCEPT !["loop"] = [Resting("release") EXCEPT !.next = "scan",
                                                   !.back = "service"]]
    BY <1>1 DEF Connect, Go
  <1>4. /\ c' \in ClientType /\ task' \in [Tasks -> TaskType]
        /\ \/ lock' = lock /\ intent' = intent /\ c'.want = c.want
              /\ task'["loop"].at = "service"
           \/ lock' = "loop" /\ intent' = TRUE /\ c'.want /\ task'["loop"].at = "release"
        /\ task'["loop"].next \in Returns /\ task'["loop"].back \in Returns
        /\ \A u \in Tasks : u # "loop" => task'[u] = task[u]
    <2>1. /\ "loop" \in Tasks /\ "release" \in Steps /\ "scan" \in Steps /\ "service" \in Steps
          /\ "idle" \in Steps /\ 0 \in Gens /\ task \in [Tasks -> TaskType]
          /\ {"idle", "scan", "service"} \subseteq Returns
      BY DEF Tasks, Steps, Ranges, Returns
    <2>2. c \in ClientType /\ [c EXCEPT !.want = TRUE] \in ClientType
          /\ [c EXCEPT !.want = TRUE].want = TRUE
      BY DEF Ranges, ClientType
    <2>3. PICK r \in TaskType :
             /\ r.next \in Returns /\ r.back \in Returns /\ task' = [task EXCEPT !["loop"] = r]
             /\ \/ r.at = "service" /\ UNCHANGED <<c, lock, intent>>
                \/ r.at = "release" /\ c' = [c EXCEPT !.want = TRUE] /\ intent' = TRUE
                   /\ lock' = "loop"
      <3>1. LET r == Resting("service")
            IN r \in TaskType /\ r.at = "service" /\ r.next \in Returns /\ r.back \in Returns
        BY <2>1, RestingTyped
      <3>2. LET r == [Resting("release") EXCEPT !.next = "service"]
            IN r \in TaskType /\ r.at = "release" /\ r.next \in Returns /\ r.back \in Returns
        BY <2>1, NextTyped
      <3>3. LET r == [Resting("release") EXCEPT !.next = "scan", !.back = "service"]
            IN r \in TaskType /\ r.at = "release" /\ r.next \in Returns /\ r.back \in Returns
        <4>1. PICK q : q = Resting("release")
          OBVIOUS
        <4>2. q \in TaskType /\ q.at = "release"
          BY <2>1, <4>1, RestingTyped
        <4>3. LET r == [q EXCEPT !.next = "scan", !.back = "service"]
              IN r \in TaskType /\ r.at = "release" /\ r.next = "scan" /\ r.back = "service"
          BY <2>1, <4>2 DEF TaskType
        <4>4. QED
          BY <2>1, <4>1, <4>3
      <3>4. QED
        BY <1>3, <3>1, <3>2, <3>3
    <2>4. task' \in [Tasks -> TaskType] /\ task'["loop"] = r
          /\ \A u \in Tasks : u # "loop" => task'[u] = task[u]
      BY <2>1, <2>3, TaskTyped
    <2>5. QED
      BY <2>2, <2>3, <2>4
  <1>5. /\ c'.connecting = c.connecting /\ c'.scanning = c.scanning
        /\ c'.synced = c.synced /\ c'.gen = c.gen /\ c'.handle = c.handle
        /\ c'.write = c.write /\ c'.ready = c.ready /\ c'.discon = c.discon
        /\ c'.term = c.term
    BY <1>3 DEF Ranges, ClientType
  <1>6. UNCHANGED <<host, timer, gap, link, proc, queue, overflow, ev, app, peers, framer,
                    fault, faults>>
    BY <1>1 DEF Connect, radio, mailbox, vehicle
  <1>7. TypeOK'
    <2>1. c' \in ClientType
      BY <1>4
    <2>2. lock' \in Tasks \cup {"free", "host"}
      BY <1>4 DEF TypeOK, BleInv, Tasks
    <2>3. host' \in HostType
      BY <1>6, QueueAssumption DEF Ranges
    <2>4. QED
      BY <2>1, <2>2, <2>3, <1>2, <1>3, <1>4, <1>5, <1>6 DEF TypeOK
  <1>8. Slices'
    BY <1>6 DEF Slices, BleInv
  <1>9. Locking'
    BY <1>2, <1>4, <1>6 DEF Locking, Publishing, BleInv, At, Tasks
  <1>10. Generations'
    BY <1>5, <1>6 DEF Generations, BleInv
  <1>11. Radio'
    BY <1>5, <1>6 DEF Radio, ScanStateIsTrue, BleInv
  <1>12. Places'
    BY <1>2, <1>3, <1>4, <1>5, <1>6 DEF Places, BleInv, At
  <1>13. Wanted'
    <2>1. Publishing' => Publishing
      BY <1>4 DEF Publishing
    <2>2. ~Publishing
      BY <1>2 DEF BleInv, Locking, Tasks
    <2>3. c'.ready # NoGen => HasGapLink(c) /\ c.ready = c.gen /\ (app = c.gen \/ At("loop",
          "disconnect"))
      BY <1>5, <2>2 DEF BleInv, Wanted, Publishing, At
    <2>4. HasGapLink(c') <=> HasGapLink(c)
      BY <1>5 DEF HasGapLink
    <2>5. /\ (c'.want => intent') /\ (intent => intent')
      BY <1>4 DEF BleInv, Wanted
    <2>6. c'.ready # NoGen => app = c.gen \/ At("loop", "disconnect")'
      BY <1>2, <2>3 DEF At
    <2>7. ev.kind # "none" => task'["loop"].at = task["loop"].at
      BY <1>2 DEF BleInv, Places, At
    <2>8. QED
      BY <1>5, <1>6, <2>1, <2>2, <2>3, <2>4, <2>5, <2>6, <2>7 DEF Wanted, BleInv, Slices
  <1>14. Order'
    <2>1. Latest <= Latest'
      BY <1>5, <1>6 DEF Ranges, Latest, Retiring
    <2>2. queue' = queue /\ app' \in {app, NoGen} /\ peers' \in {peers, NoGen}
          /\ ev' \in {ev, NoEvent}
      BY <1>6
    <2>3. QED
      BY <1>7, <2>1, <2>2, OrderStays DEF BleInv
  <1>15. Barrier'
    BY <1>2, <1>5, <1>6 DEF Barrier, Retiring, BleInv, At
  <1>16. Stream'
    <2>1. Open' => Open /\ link'.rx = link.rx
      BY <1>5, <1>6 DEF Open, SnapshotMatches
    <2>2. c'.gen = c.gen \/ (c'.gen = c.gen + 1 /\ ~Open')
      BY <1>5
    <2>3. QED
      BY <1>6, <2>1, <2>2, StreamStays DEF BleInv
  <1>17. QED
    BY <1>7, <1>8, <1>9, <1>10, <1>11, <1>12, <1>13, <1>14, <1>15, <1>16 DEF BleInv

\* A round that ends with an idle drop of the ready link.
LEMMA LoopIdleDropKeeps ==
    ASSUME TypeOK, Ranges, BleInv, LoopIdleDrop
    PROVE  TypeOK' /\ BleInv'
  <1>1. Disconnect("loop", "tail", "service")
    BY DEF LoopIdleDrop
  <1>2. At("loop", "tail") /\ lock = "free" /\ lock' = "loop" /\ intent' = FALSE
    BY <1>1 DEF Disconnect
  <1>3. /\ c' = [c EXCEPT !.discon = TRUE, !.ready = NoGen, !.want = FALSE]
        /\ task' = [task EXCEPT !["loop"] = [at |-> "release", next |-> "terminate",
                                             back |-> "service",
                                           gen |-> Settled(c.gen)]]
    BY <1>1 DEF Disconnect
  <1>4. Settled(c.gen) \in Gens
    BY DEF Ranges, BleInv, Generations
  <1>5. c' \in ClientType
    BY <1>3 DEF Ranges, ClientType
  <1>6. /\ c'.want = FALSE /\ c'.connecting = c.connecting /\ c'.scanning = c.scanning
        /\ c'.synced = c.synced /\ c'.gen = c.gen /\ c'.handle = c.handle
        /\ c'.write = c.write /\ c'.ready = NoGen /\ c'.discon = TRUE /\ c'.term = c.term
    BY <1>3 DEF Ranges, ClientType
  <1>7. /\ task'["loop"].at = "release" /\ task'["loop"].next \in Returns
        /\ task'["loop"].back \in Returns
        /\ \A u \in Tasks : u # "loop" => task'[u] = task[u]
    BY <1>3 DEF Ranges, TaskType, Tasks, Returns
  <1>8. task' \in [Tasks -> TaskType]
    BY <1>3, <1>4 DEF Ranges, TaskType, Tasks, Steps
  <1>9. UNCHANGED <<host, timer, gap, link, proc, queue, overflow, ev, app, peers, framer,
                    fault, faults>>
    BY <1>1 DEF Disconnect, radio, mailbox, vehicle
  <1>10. TypeOK'
    <2>1. fault' \in BOOLEAN
      BY <1>9, GenAssumption, QueueAssumption DEF TypeOK
    <2>2. intent' \in BOOLEAN
      BY <1>1, <1>2
    <2>3. faults' \in 0..MaxFaults
      BY <1>9, GenAssumption, QueueAssumption DEF TypeOK
    <2>4. QED
      BY <2>1, <2>2, <2>3, <1>1, <1>2, <1>3, <1>4, <1>5, <1>6, <1>7, <1>8, <1>9 DEF TypeOK
  <1>11. Slices'
    BY <1>9 DEF Slices, BleInv
  <1>12. Locking'
    BY <1>2, <1>7, <1>9 DEF Locking, BleInv, At, Tasks
  <1>13. Generations'
    BY <1>6, <1>9 DEF Generations, BleInv
  <1>14. Radio'
    BY <1>6, <1>7, <1>8, <1>9 DEF Radio, ScanStateIsTrue, BleInv
  <1>15. Places'
    BY <1>2, <1>3, <1>7, <1>8, <1>9 DEF Places, BleInv, At
  <1>16. Wanted'
    BY <1>6, <1>7, <1>8, <1>9 DEF Wanted, Publishing, BleInv
  <1>17. Order'
    <2>1. Latest <= Latest'
      BY <1>6, <1>7, <1>8, <1>9 DEF Ranges, Latest, Retiring
    <2>2. queue' = queue /\ app' \in {app, NoGen} /\ peers' \in {peers, NoGen}
          /\ ev' \in {ev, NoEvent}
      BY <1>9
    <2>3. QED
      BY <1>10, <2>1, <2>2, OrderStays DEF BleInv
  <1>18. Barrier'
    BY <1>2, <1>3, <1>9 DEF Barrier, Retiring, BleInv, At
  <1>19. Stream'
    <2>1. Open' => Open /\ link'.rx = link.rx
      BY <1>6 DEF Open, SnapshotMatches
    <2>2. c'.gen = c.gen \/ (c'.gen = c.gen + 1 /\ ~Open')
      BY <1>3
    <2>3. QED
      BY <1>9, <2>1, <2>2, StreamStays DEF BleInv
  <1>20. QED
    BY <1>10, <1>11, <1>12, <1>13, <1>14, <1>15, <1>16, <1>17, <1>18, <1>19 DEF BleInv

-----------------------------------------------------------------------------
\* The first state: no link, nothing queued, nobody waiting.
LEMMA InitKeeps == Init => TypeOK /\ BleInv
  <1> SUFFICES ASSUME Init PROVE TypeOK /\ BleInv
    OBVIOUS
  <1>1. 0 \in Gens /\ 0 \in 0..MaxRx /\ 0 \in 0..MaxFaults /\ ~Odd(0) /\ 0 # NoGen
    BY GenAssumption, Parity DEF Gens, NoGen
  <1>2. /\ c \in ClientType /\ ~c.want /\ ~c.connecting /\ ~c.scanning /\ c.gen = 0
        /\ ~c.handle /\ c.ready = NoGen /\ ~c.discon
    BY <1>1 DEF Init, ClientType
  <1>3. host \in HostType /\ host.at = "idle" /\ lock = "free"
    BY <1>1 DEF Init, HostType
  <1>4. /\ task \in [Tasks -> TaskType]
        /\ task["cmd"].at = "idle" /\ task["loop"].at = "service"
        /\ \A t \in Tasks : task[t].next = "idle" /\ task[t].back = "idle"
    <2>1. \A s \in {"idle", "service"} :
             [at |-> s, next |-> "idle", back |-> "idle", gen |-> 0] \in TaskType
      BY <1>1 DEF TaskType, Steps
    <2>2. QED
      BY <2>1 DEF Init, Tasks
  <1>5. link \in LinkType /\ link.st = "none" /\ ~link.sub /\ gap = "idle" /\ proc = {}
    BY NoLinkTyped DEF Init
  <1>6. /\ ev \in EventType /\ ev.kind = "none" /\ ev.gen = NoGen
        /\ app = NoGen /\ peers = NoGen /\ queue = << >> /\ framer = << >>
        /\ timer = FALSE /\ overflow = FALSE /\ fault = FALSE
        /\ intent = FALSE /\ faults = 0
    BY NoEventTyped DEF Init, NoEvent
  <1>7. TypeOK
    <2>1. queue \in Seq(Cells) /\ Len(queue) <= Depth
      BY <1>6, QueueAssumption
    <2>2. framer \in Seq([gen : Gens, i : 1..MaxRx])
      BY <1>6
    <2>3. lock \in Tasks \cup {"free", "host"} /\ gap \in GapType
      BY <1>3, <1>5 DEF GapType
    <2>4. QED
      BY <1>1, <1>2, <1>3, <1>4, <1>5, <1>6, <2>1, <2>2, <2>3 DEF TypeOK
  <1>8. Len(queue) = 0 /\ Len(framer) = 0
    BY <1>6
  <1>9. Slices
    BY <1>6, <1>8 DEF Slices, Sliced
  <1>10. Locking
    BY <1>3, <1>4 DEF Locking, Publishing, At, Returns, Tasks
  <1>11. Generations /\ Radio
    BY <1>1, <1>2, <1>3, <1>5 DEF Generations, Radio, ScanStateIsTrue
  <1>12. Places
    BY <1>4, <1>6 DEF Places, At
  <1>13. Wanted
    BY <1>2, <1>4, <1>6 DEF Wanted, Publishing
  <1>14. Order
    <2>1. Latest = 0 /\ NoGen <= 0
      BY <1>2, <1>3 DEF Latest, Retiring, NoGen
    <2>2. QED
      BY <1>6, <1>8, <2>1 DEF Order, Ordered, Precedes
  <1>15. Barrier
    BY <1>1, <1>2, <1>6 DEF Barrier
  <1>16. Stream
    BY <1>2, <1>6, <1>8 DEF Stream, FramerIsContiguous, Joined, Open, SnapshotMatches
  <1>17. QED
    BY <1>7, <1>9, <1>10, <1>11, <1>12, <1>13, <1>14, <1>15, <1>16 DEF BleInv

\* Every step of the host, of a task and of the timer keeps the invariant.
LEMMA HostKeeps ==
    ASSUME TypeOK, Ranges, BleInv, HostStep
    PROVE  TypeOK' /\ BleInv'
  BY HostPublishedKeeps, HostTerminateKeeps, HostRetiredKeeps, HostLinkDownKeeps,
     HostSyncKeeps, HostAdvertKeeps, HostConnectFailsKeeps, HostConnectedKeeps, HostGattKeeps,
     HostNotifyKeeps, HostRetireKeeps, HostResetKeeps, LinkEndsKeeps, LinkDropsKeeps
     DEF HostStep, HostContinues

\* Every step of the task that sends a command keeps it,
LEMMA CmdKeeps ==
    ASSUME TypeOK, Ranges, BleInv, CmdStep
    PROVE  TypeOK' /\ BleInv'
  BY CmdConnectKeeps, CmdLinkedKeeps, CmdDeadlineKeeps, CmdStopKeeps, CmdDisconnectKeeps,
     StartDiscoveryKeeps DEF CmdStep

\* ... every step of vehicle_loop,
LEMMA LoopKeeps ==
    ASSUME TypeOK, Ranges, BleInv, LoopStep
    PROVE  TypeOK' /\ BleInv'
  BY LoopServiceKeeps, LoopScanKeeps, LoopRepairKeeps, LoopEventsKeeps, LoopClearKeeps,
     LoopDisconnectKeeps, LoopPopKeeps, LoopDrainedKeeps, LoopApplyDownKeeps,
     LoopApplyUpKeeps, LoopApplyRxKeeps, LoopCompleteKeeps, LoopPublishKeeps,
     LoopRecheckKeeps, LoopUnwindKeeps, LoopFaultKeeps, LoopDriveKeeps, LoopWarmUpKeeps,
     LoopIdleDropKeeps DEF LoopStep

\* ... the steps that all tasks share,
LEMMA TaskKeeps ==
    ASSUME TypeOK, Ranges, BleInv, NEW t \in Tasks, TaskStep(t)
    PROVE  TypeOK' /\ BleInv'
  BY ReleaseKeeps, ConnectScansKeeps, TerminateAnnounceKeeps, TerminateGivesUpKeeps,
     TerminateKeeps DEF TaskStep

\* ... and a step that changes nothing.
LEMMA IdleKeeps ==
    ASSUME TypeOK, BleInv, UNCHANGED vars
    PROVE  TypeOK' /\ BleInv'
  <1>1. UNCHANGED <<c, lock, host, task, timer, gap, link, proc, queue, overflow, ev, app,
                    peers, framer, fault, intent, faults>>
    BY DEF vars, host_vars, radio, mailbox, vehicle
  <1>2. TypeOK'
    BY <1>1 DEF TypeOK
  <1>3. Slices' /\ Locking' /\ Generations' /\ Radio' /\ Places'
    BY <1>1 DEF BleInv, Slices, Locking, Publishing, Generations, Radio, ScanStateIsTrue,
                Places, At
  <1>4. Wanted' /\ Order' /\ Barrier'
    BY <1>1 DEF BleInv, Wanted, Publishing, Order, Latest, Barrier, Retiring, At
  <1>5. Stream'
    BY <1>1 DEF BleInv, Stream, FramerIsContiguous, Open, AheadOf
  <1>6. QED
    BY <1>2, <1>3, <1>4, <1>5 DEF BleInv

\* TypeOK and BleInv hold in every state (BleClient, BleDeferredQueue and vehicle_loop).
THEOREM LinkInvariant == Spec => [](TypeOK /\ BleInv)
  <1>1. TypeOK /\ BleInv /\ [Next]_vars => (TypeOK /\ BleInv)'
    <2>1. SUFFICES ASSUME TypeOK, BleInv, [Next]_vars PROVE TypeOK' /\ BleInv'
      OBVIOUS
    <2>2. Ranges
      BY <2>1, Numbers
    <2>3. CASE HostStep
      BY <2>1, <2>2, <2>3, HostKeeps
    <2>4. CASE CmdStep
      BY <2>1, <2>2, <2>4, CmdKeeps
    <2>5. CASE LoopStep
      BY <2>1, <2>2, <2>5, LoopKeeps
    <2>6. CASE ScanTimeout
      BY <2>1, <2>2, <2>6, ScanTimeoutKeeps
    <2>7. CASE \E t \in Tasks : TaskStep(t)
      BY <2>1, <2>2, <2>7, TaskKeeps
    <2>8. CASE UNCHANGED vars
      BY <2>1, <2>8, IdleKeeps
    <2>9. QED
      BY <2>1, <2>3, <2>4, <2>5, <2>6, <2>7, <2>8 DEF Next
  <1>2. QED
    BY InitKeeps, <1>1, PTL DEF Spec

\* What BleClient believes of the host is true and its state is well typed: a failed cancel is
\* not an idle radio (scan_running_after_cancel()), and the queue stays within its cells.
THEOREM LinkStateHolds == Spec => []LinkStateIsTrue
  <1>1. TypeOK /\ BleInv => LinkStateIsTrue
    BY DEF BleInv, Radio, LinkStateIsTrue
  <1>2. QED
    BY LinkInvariant, <1>1, PTL

\* A ready link has had exactly its own LinkUp applied, no session of an earlier link is left
\* over, and the request it was made for stands (process_ble_host_events_(),
\* complete_ready(), stop_connecting(), disconnect()).
THEOREM ReadyLinksAreSound == Spec => []ReadyLinkIsSound
  <1>1. ASSUME TypeOK, BleInv PROVE ReadyLinkIsSound
    <2>1. ReadyLinkIsWanted
      <3>1. c.gen # NoGen
        BY <1>1, Numbers, Parity DEF Ranges
      <3>2. QED
        BY <1>1, <3>1 DEF BleInv, Wanted, ReadyLinkIsWanted, IsConnected
    <2>2. ASSUME At("loop", "drive"), ~fault, ~overflow, IsConnected(c)
          PROVE  app = c.gen /\ peers \in {NoGen, c.gen}
      <3>1. c.gen # NoGen /\ c.ready = c.gen /\ HasGapLink(c)
        BY <1>1, <2>2, Numbers, Parity DEF Ranges, IsConnected
      <3>2. app = c.gen
        BY <1>1, <2>2, <3>1 DEF BleInv, Wanted, At
      <3>3. ev.kind = "none"
        BY <1>1, <2>2 DEF BleInv, Places, At
      <3>4. ~Retiring
        BY <1>1, <3>1 DEF BleInv, Generations, Retiring, HasGapLink
      <3>5. ~Barred(peers, queue)
        \* A LinkDown in the queue would be later than the applied link, which is the newest.
        <4>1. \A k \in 1 .. Len(queue) : queue[k].gen <= Latest /\ queue[k].gen \in Nat
          BY <1>1, Numbers DEF BleInv, Order, Ordered
        <4>2. \A k \in 1 .. Len(queue) : queue[k].kind = "LinkDown" => app < queue[k].gen
          BY <1>1 DEF BleInv, Order, Precedes
        <4>3. Latest = c.gen /\ c.gen \in Nat
          BY <1>1, <3>4, Numbers DEF Latest, Ranges
        <4>4. \A k \in 1 .. Len(queue) : queue[k].kind # "LinkDown"
          BY <3>2, <4>1, <4>2, <4>3
        <4>5. QED
          BY <4>4 DEF Barred
      <3>6. QED
        BY <1>1, <2>2, <3>2, <3>3, <3>4, <3>5 DEF BleInv, Barrier, At
    <2>3. QED
      BY <2>1, <2>2 DEF ReadyLinkIsSound, ReadyLinkIsFresh
  <1>2. QED
    BY LinkInvariant, <1>1, PTL

\* The RX framer only ever holds consecutive notifications of one link (BleDeferredQueue,
\* on_gap_event()).
THEOREM FramerStaysContiguous == Spec => []FramerIsContiguous
  <1>1. TypeOK /\ BleInv => FramerIsContiguous
    BY DEF BleInv, Stream
  <1>2. QED
    BY LinkInvariant, <1>1, PTL

\* What terminate_published_link_() may do to a link: only a request for its own generation
\* ends it.
OwnEnd ==
    link.st = "up" /\ link'.st = "ending" =>
        \/ host.at = "terminate" /\ host.gen = link.gen
        \/ \E t \in Tasks : At(t, "tLock") /\ task[t].gen = link.gen /\ lock' = t

\* The link of a stable published generation g is the link of g.
LEMMA PublishedLink ==
    ASSUME TypeOK, BleInv, NEW g, c.gen = g, c.handle, ~Odd(g)
    PROVE  link.gen = g
  BY Numbers DEF Ranges, BleInv, Radio

\* A task ends the link its request was made for,
LEMMA TerminateEndsItsOwn ==
    ASSUME TypeOK, BleInv, NEW t \in Tasks, Terminate(t)
    PROVE  OwnEnd
  <1>1. /\ At(t, "tLock") /\ ~Odd(c.gen) /\ lock' = t
        /\ TerminateLocked(c, task[t].gen)
    BY DEF Terminate, Hold
  <1>2. task[t].gen \in Gens
    BY DEF TypeOK, TaskType
  <1>3. \/ link' = link
        \/ c.gen = task[t].gen /\ c.handle
    BY <1>1, <1>2, TerminateMoves DEF TypeOK
  <1>4. CASE link' = link
    BY <1>4 DEF OwnEnd
  <1>5. CASE c.gen = task[t].gen /\ c.handle
    BY <1>1, <1>5, PublishedLink DEF OwnEnd
  <1>6. QED
    BY <1>3, <1>4, <1>5

\* ... and so does a callback of the host.
LEMMA HostTerminateEndsItsOwn ==
    ASSUME TypeOK, BleInv, HostTerminate
    PROVE  OwnEnd
  <1>1. host.at = "terminate" /\ host.gen \in Gens
    BY DEF HostTerminate, TypeOK, HostType
  <1>2. PICK b : b = [c EXCEPT !.term = host.gen]
    OBVIOUS
  <1>3. b \in ClientType /\ b.gen = c.gen /\ b.handle = c.handle
    BY <1>1, <1>2 DEF TypeOK, ClientType
  <1>4. \/ link' = link
        \/ Announced(host.gen) /\ TerminateLocked(b, host.gen)
    BY <1>2 DEF HostTerminate
  <1>5. CASE link' = link
    BY <1>5 DEF OwnEnd
  <1>6. CASE Announced(host.gen) /\ TerminateLocked(b, host.gen)
    <2>1. \/ link' = link
          \/ c.gen = host.gen /\ c.handle
      BY <1>1, <1>3, <1>6, TerminateMoves DEF TypeOK
    <2>2. Settled(c.gen) = host.gen
      BY <1>6 DEF Announced
    <2>3. c.handle => link.gen = host.gen
      BY <2>2 DEF BleInv, Radio
    <2>4. QED
      BY <1>1, <2>1, <2>3 DEF OwnEnd
  <1>7. QED
    BY <1>4, <1>5, <1>6

\* No other step ends a link that is up.
LEMMA OthersEndNothing ==
    ASSUME TypeOK, BleInv, Next, ~HostTerminate, \A t \in Tasks : ~Terminate(t)
    PROVE  OwnEnd
  <1>1. ASSUME link' = link \/ link.st # "up" \/ link'.st # "ending" PROVE OwnEnd
    BY <1>1 DEF OwnEnd
  <1>2. CASE HostStep
    <2>1. CASE HostPublished \/ HostRetired \/ HostLinkDown \/ HostSync \/ HostAdvert
               \/ HostConnectFails
      BY <1>1, <2>1 DEF HostPublished, HostRetired, HostLinkDown, HostSync, HostAdvert,
                        HostConnectFails, radio
    <2>2. CASE HostConnected
      <3>1. link.st = "none"
        BY <2>2 DEF HostConnected, BleInv, Radio, TypeOK, LinkType
      <3>2. QED
        BY <1>1, <3>1
    <2>3. CASE HostGatt
      <3>1. link' = link \/ link' = [link EXCEPT !.sub = TRUE]
        BY <2>3 DEF HostGatt, HostDiscovers, HostGattFails, HostSubscribed
      <3>2. [link EXCEPT !.sub = TRUE].st = link.st
        BY DEF TypeOK, LinkType
      <3>3. QED
        BY <1>1, <3>1, <3>2
    <2>4. CASE HostNotify
      <3>1. link' = [link EXCEPT !.rx = link.rx + 1]
        BY <2>4 DEF HostNotify
      <3>2. link'.st = link.st
        BY <3>1 DEF TypeOK, LinkType
      <3>3. QED
        BY <1>1, <3>2
    <2>5. CASE HostRetire \/ HostReset
      <3>1. link' = NoLink
        BY <2>5 DEF HostRetire, HostReset
      <3>2. QED
        BY <1>1, <3>1, NoLinkTyped
    <2>6. CASE LinkEnds \/ LinkDrops
      <3>1. link' = [link EXCEPT !.st = "down"]
        BY <2>6 DEF LinkEnds, LinkDrops
      <3>2. link'.st = "down"
        BY <3>1 DEF TypeOK, LinkType
      <3>3. QED
        BY <1>1, <3>2
    <2>7. QED
      BY <1>2, <2>1, <2>2, <2>3, <2>4, <2>5, <2>6 DEF HostStep, HostContinues
  <1>3. CASE CmdStep
    BY <1>1, <1>3 DEF CmdStep, CmdConnect, Connect, CmdLinked, CmdDeadline, CmdStop,
                      StopConnecting, CmdDisconnect, Disconnect, StartDiscovery, radio
  <1>4. CASE LoopStep
    <2>1. CASE LoopService \/ LoopScan \/ LoopRepair \/ LoopEvents \/ LoopClear
               \/ LoopDisconnect \/ LoopPop \/ LoopDrained \/ LoopApplyDown \/ LoopApplyUp
      BY <1>1, <2>1 DEF LoopService, LoopScan, LoopRepair, LoopEvents, LoopClear,
           LoopDisconnect, Disconnect, LoopPop, LoopDrained, LoopApplyDown, LoopApplyUp, radio
    <2>2. CASE LoopApplyRx \/ LoopComplete \/ LoopPublish \/ LoopRecheck \/ LoopUnwind
               \/ LoopFault \/ LoopDrive \/ LoopWarmUp \/ LoopIdleDrop
      BY <1>1, <2>2 DEF LoopApplyRx, LoopComplete, LoopPublish, LoopRecheck, LoopUnwind,
           LoopFault, LoopDrive, LoopWarmUp, Connect, LoopIdleDrop, Disconnect, radio
    <2>3. QED
      BY <1>4, <2>1, <2>2 DEF LoopStep
  <1>5. CASE ScanTimeout
    BY <1>1, <1>5 DEF ScanTimeout
  <1>6. CASE \E t \in Tasks : TaskStep(t)
    BY <1>1, <1>6 DEF TaskStep, Release, ConnectScans, TerminateAnnounce, TerminateGivesUp,
                      radio
  <1>7. QED
    BY <1>2, <1>3, <1>4, <1>5, <1>6 DEF Next

\* A termination ends the link it was requested for, never the link of a newer command
\* (terminate_published_link_()).
THEOREM TerminationsAreTheirOwn == Spec => TerminatesItsOwnLink
  <1>1. TypeOK /\ BleInv /\ [Next]_vars => [OwnEnd]_vars
    <2>1. SUFFICES ASSUME TypeOK, BleInv, Next PROVE OwnEnd
      OBVIOUS
    <2>2. QED
      BY <2>1, TerminateEndsItsOwn, HostTerminateEndsItsOwn, OthersEndNothing
  <1>2. [][OwnEnd]_vars => TerminatesItsOwnLink
    BY PTL DEF OwnEnd, TerminatesItsOwnLink
  <1>3. QED
    BY LinkInvariant, <1>1, <1>2, PTL DEF Spec

=============================================================================
