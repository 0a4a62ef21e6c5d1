--------------------------- MODULE MCCommandRunner ---------------------------
(* TLC instances of CommandRunner: the shapes of command that               *)
(* vehicle_commands.cpp, vehicle_pairing.cpp and vehicle_telemetry.cpp      *)
(* enqueue, with one retry instead of three (none where the code has none). *)
EXTENDS CommandRunner

Kind(dom, wake, effect, onTx, cb, bypass, reply, retries) ==
    [dom |-> dom, wake |-> wake, effect |-> effect, onTx |-> onTx, cb |-> cb,
     bypass |-> bypass, reply |-> reply, retries |-> retries]

Lock == Kind("Vcsec", "WakeIfNeeded", "Mutating", FALSE, TRUE, FALSE, "Action", 1)
LockOnce == [Lock EXCEPT !.retries = 0]
Wake == Kind("Vcsec", "NoWakeFail", "Mutating", TRUE, TRUE, FALSE, "Action", 1)
Whitelist == Kind("Vcsec", "NoWakeFail", "Mutating", TRUE, TRUE, TRUE, "Action", 0)
StatusPoll == Kind("Vcsec", "NoWakeSkip", "ReadOnly", FALSE, TRUE, FALSE, "Status", 1)
Climate == Kind("Info", "WakeIfNeeded", "Mutating", FALSE, TRUE, FALSE, "Action", 1)
ChargePoll == Kind("Info", "NoWakeSkip", "ReadOnly", FALSE, FALSE, FALSE, "Action", 0)

OneKinds == {Lock, Wake, Whitelist, StatusPoll, Climate}
FifoKinds == {LockOnce, ChargePoll}

=============================================================================
