---------------------------- MODULE MessageFault ----------------------------
(***************************************************************************)
(* The pure fault decisions of main/logic/command_fault.hpp.  A fault is   *)
(* the number the vehicle puts in signed_message_fault; the reason text is *)
(* left out.  Numbers 1..28 are known, everything else (0 included) is not.*)
(***************************************************************************)
EXTENDS Integers

Effects == {"Mutating", "ReadOnly"}

\* The two values of CommandError::Outcome that the runner produces.
Failures == {"DefinitelyFailed", "MayHaveSucceeded"}

----------------------------------------------------------------------------
(* classify_message_fault(code): the four flags of MessageFaultDecision.   *)

known(code) == code \in 1..28

temporary(code) == code \in {1, 2, 5, 6, 11, 15, 17, 20}

possible_success(code) == code = 25 \/ ~known(code)

repair_session(code) == code \in {5, 6, 15, 17, 20}

----------------------------------------------------------------------------
fault_allows_retry(code, authenticated, maybe_sent, effect) ==
    /\ known(code) /\ temporary(code) /\ ~possible_success(code)
    /\ authenticated \/ ~maybe_sent \/ effect = "ReadOnly"

\* The outcome half of fault_failure_info.
fault_outcome(code, authenticated, maybe_sent) ==
    IF possible_success(code) \/ (maybe_sent /\ ~authenticated)
    THEN "MayHaveSucceeded" ELSE "DefinitelyFailed"

=============================================================================
