--------------------------- MODULE CommandService ---------------------------
(***************************************************************************)
(* What the command path promises the callers of a mutating command,       *)
(* without queue, session, BLE or time: the vehicle carries the command    *)
(* out at most once, and what the caller is told is true and stays true.   *)
(***************************************************************************)
EXTENDS Naturals

CONSTANT Ids

VARIABLES
    mode,  \* new: not accepted; open: may still be carried out; void: never will be
    runs,  \* how often the vehicle carried the command out
    told   \* what the caller was told

vars == <<mode, runs, told>>

Answers == {"None", "Success", "NoOp", "DefinitelyFailed", "MayHaveSucceeded"}

Init ==
    /\ mode = [i \in Ids |-> "new"]
    /\ runs = [i \in Ids |-> 0]
    /\ told = [i \in Ids |-> "None"]

Accept(i) ==
    /\ mode[i] = "new"
    /\ mode' = [mode EXCEPT ![i] = "open"]
    /\ UNCHANGED <<runs, told>>

Execute(i) ==
    /\ mode[i] = "open" /\ runs[i] = 0
    /\ runs' = [runs EXCEPT ![i] = 1]
    /\ UNCHANGED <<mode, told>>

\* Some commands are given up for good before the vehicle acted on them.
Abandon(S) ==
    /\ \A i \in S : mode[i] = "open" /\ runs[i] = 0
    /\ mode' = [i \in Ids |-> IF i \in S THEN "void" ELSE mode[i]]
    /\ UNCHANGED <<runs, told>>

Tell(i, answer) ==
    /\ told[i] = "None" /\ mode[i] # "new"
    /\ answer = "DefinitelyFailed" => mode[i] = "void"
    /\ answer = "Success" => runs[i] = 1
    /\ told' = [told EXCEPT ![i] = answer]
    /\ UNCHANGED <<mode, runs>>

Next ==
    \/ \E i \in Ids : Accept(i) \/ Execute(i) \/ \E answer \in Answers : Tell(i, answer)
    \/ \E S \in SUBSET Ids : Abandon(S)

Spec == Init /\ [][Next]_vars

=============================================================================
