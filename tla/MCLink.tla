------------------------------- MODULE MCLink -------------------------------
(***************************************************************************)
(* The link to the car, the loop that decides when to use it and when to   *)
(* let it go, and the replay window of a request, for TLC.  Each behaviour *)
(* moves one of them, named by `part', and leaves the others at an initial *)
(* state.                                                                  *)
(***************************************************************************)
EXTENDS BleLink, WakePoll, AntiReplay

VARIABLE part

LinkInit ==
    /\ part \in {"link", "wake", "replay"}
    /\ Init /\ WakeInit /\ ReplayInit
    /\ part # "wake" => car = "awake" /\ ~recent

LinkStep ==
    part = "link" /\ Next /\ UNCHANGED <<part, wakeVars, replayVars>>
WakeStep ==
    part = "wake" /\ WakeNext /\ UNCHANGED <<part, vars, replayVars>>
ReplayStep ==
    part = "replay" /\ ReplayNext /\ UNCHANGED <<part, vars, wakeVars>>

LinkNext == LinkStep \/ WakeStep \/ ReplayStep

LinkSpec == LinkInit /\ [][LinkNext]_<<part, vars, wakeVars, replayVars>>

=============================================================================
