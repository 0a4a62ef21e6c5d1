----------------------------- MODULE MCNetwork -----------------------------
(***************************************************************************)
(* The network parts for TLC: the Wi-Fi trial, the links with their portal *)
(* and watchdog, the Ethernet start, the ping probe and the log forwarder. *)
(* They share no variable, so each behaviour moves one of them, named by   *)
(* `part', and leaves the others at one of their initial states: every     *)
(* step of every part is explored, and none of their products.  A liveness *)
(* property and a fairness assumption speak of the part that moves.        *)
(***************************************************************************)
EXTENDS WifiTrial, NetLink, EthStart, PingProbe, Syslog

VARIABLE part

Parts == {"trial", "net", "eth", "ping", "syslog"}
networkVars == <<part, trialVars, netVars, ethVars, pingVars, syslogVars>>

\* A part that does not move rests in one initial state.
NetworkInit ==
    /\ part \in Parts
    /\ TrialInit /\ NetInit /\ EthInit /\ PingInit /\ SyslogInit
    /\ part # "trial" => good = NoPair
    /\ part # "net" => cable = "down"
    /\ part # "syslog" => netUp

TrialStep ==
    /\ part = "trial" /\ TrialNext
    /\ UNCHANGED <<part, netVars, ethVars, pingVars, syslogVars>>
NetStep ==
    /\ part = "net" /\ NetNext
    /\ UNCHANGED <<part, trialVars, ethVars, pingVars, syslogVars>>
EthStep ==
    /\ part = "eth" /\ EthNext
    /\ UNCHANGED <<part, trialVars, netVars, pingVars, syslogVars>>
PingStep ==
    /\ part = "ping" /\ PingNext
    /\ UNCHANGED <<part, trialVars, netVars, ethVars, syslogVars>>
SyslogStep ==
    /\ part = "syslog" /\ SyslogNext
    /\ UNCHANGED <<part, trialVars, netVars, ethVars, pingVars>>

NetworkNext == TrialStep \/ NetStep \/ EthStep \/ PingStep \/ SyslogStep

\* The fairness of each module, for the part that moves.
TrialFair ==
    /\ WF_trialVars(part = "trial" /\ BootSteps)
    /\ WF_trialVars(part = "trial" /\ Station)
NetFair ==
    /\ WF_netVars(part = "net" /\ EventTask)
    /\ WF_netVars(part = "net" /\ (WireWait \/ WindowEnds \/ LastLook))
    /\ WF_netVars(part = "net" /\ PortalTask)
    /\ WF_netVars(part = "net" /\ PortalTime)
    /\ WF_netVars(part = "net" /\ StationJoins)
    /\ WF_netVars(part = "net" /\ CableLeases)
    /\ WF_netVars(part = "net" /\ WdRestart)

SyslogFair ==
    /\ WF_syslogVars(part = "syslog" /\ Starter)
    /\ WF_syslogVars(part = "syslog" /\ HookSends)
    /\ WF_syslogVars(part = "syslog" /\ SyslogTask)
    /\ WF_syslogVars(part = "syslog" /\ CadencePasses)
    /\ WF_syslogVars(part = "syslog" /\ ~netUp /\ NetChanges)

NetworkSpec ==
    /\ NetworkInit /\ [][NetworkNext]_networkVars
    /\ TrialFair /\ NetFair /\ SyslogFair

-----------------------------------------------------------------------------
(* WifiTrial's BootsEnd, for the part that moves.                           *)
TrialBootsEnd == part = "trial" => BootsEnd

(* NetLink's BackOnline, for the part that moves.                           *)
NetBackOnline == part = "net" => BackOnline

(* Syslog's ForwardingRecovers, for the part that moves.                    *)
SyslogForwardingRecovers == part = "syslog" => ForwardingRecovers

(* Every part comes back by itself: trials end with a working pair, the     *)
(* device is online again (net.cpp:229), and forwarding resumes             *)
(* (syslog.cpp:450).                                                        *)
NetworkRecovers == TrialBootsEnd /\ NetBackOnline /\ SyslogForwardingRecovers

=============================================================================
