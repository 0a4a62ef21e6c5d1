------------------------------ MODULE NetLink ------------------------------
(***************************************************************************)
(* The network underneath the device: the Wi-Fi station and the Ethernet   *)
(* driver, the event task that turns their events into leases, the boot    *)
(* window and the retrying setup portal, and the watchdog task that pings  *)
(* the gateway (net.cpp, provisioning.cpp, logic/net_link.hpp,             *)
(* logic/setup_portal.hpp).                                                *)
(*                                                                         *)
(* The event task advances the generation of a lease before it publishes   *)
(* the lease, and the reads of a probe are steps of their own, so that a   *)
(* takeover may happen inside a probe.  The stores of recompute_link() are *)
(* one step: the event task outranks the tasks that read them.             *)
(* What goes wrong draws on two budgets, MaxTrouble and MaxSilent.         *)
(***************************************************************************)
EXTENDS Naturals, Sequences

CONSTANTS Gateways,     \* addresses a gateway may have
          BootRetries,  \* MAX_RETRY: 10
          MaxTrouble,   \* failures, drops, cables in and out
          MaxSilent,    \* pings without a reply
          MaxInbox      \* events waiting for the event task

NoAddress == "0.0.0.0"

ASSUME NetAssumption ==
    /\ NoAddress \notin Gateways
    /\ {BootRetries, MaxTrouble, MaxSilent, MaxInbox} \subseteq Nat

kWatchFailsToRecover == 2
Transports == {"Wifi", "Eth"}

VARIABLES
    station,    \* the driver: off, idle, connecting, up
    cable,      \* the Ethernet driver: down, link, up, stopped
    gw,         \* the gateway each netif has
    inbox,      \* events posted and not yet taken
    handler,    \* the event task: the event it handles, and how far it is
    gen,        \* s_lease_generations
    lease,      \* s_wifi_lease and s_eth_lease
    link,       \* s_kind, and the netif that belongs to it
    wifiProven, \* s_wifi_ever_up, set together with WIFI_CONNECTED_BIT
    wireBit,    \* ETH_GOT_IP_BIT
    attempts,   \* s_retry_num
    mainAt,     \* wire, window, lastlook, portal, running
    portal,     \* the setup portal's access point and its timers
    wd,         \* the watchdog's position and the sample it is taking
    streak,     \* LinkWatch::fails with the identity they belong to
    base,       \* GatewayBaseline of each transport
    proof,      \* what pings have shown since each lease's generation began
    trouble,    \* what is left of MaxTrouble
    silent      \* what is left of MaxSilent

drivers == <<station, cable, gw, inbox>>
links == <<handler, gen, lease, link, wifiProven, wireBit, attempts>>
watchdog == <<wd, streak, base, proof>>
netVars == <<station, cable, gw, inbox, handler, gen, lease, link,
             wifiProven, wireBit, attempts, mainAt, portal, wd, streak, base, proof,
             trouble, silent>>
budgets == <<trouble, silent>>

Identity(t, g, a) == [transport |-> t, gen |-> g, address |-> a]
NoIdentity == Identity("None", 0, NoAddress)
NoProof == [replied |-> {}, of |-> NoAddress, fails |-> 0]
IdleWd == [at |-> "idle", sample |-> NoIdentity, result |-> "none"]
NoPortal == [ap |-> FALSE, client |-> FALSE, capped |-> FALSE, due |-> FALSE,
             closeDue |-> TRUE]

Post(e) == Len(inbox) < MaxInbox /\ inbox' = Append(inbox, e)
Trouble == trouble > 0 /\ trouble' = trouble - 1 /\ UNCHANGED silent

----------------------------------------------------------------------------
(* The drivers.  A netif has its address before the event is handled.      *)

StationJoins ==
    /\ station = "connecting"
    /\ \E a \in Gateways : gw' = [gw EXCEPT !["Wifi"] = a]
    /\ station' = "up"
    /\ Post("StaGotIp")
    /\ UNCHANGED <<cable, links, mainAt, portal, watchdog, budgets>>

\* An attempt fails, or an association is lost.
StationDrops ==
    /\ station \in {"connecting", "up"}
    /\ Trouble
    /\ station' = "idle"
    /\ gw' = [gw EXCEPT !["Wifi"] = NoAddress]
    /\ Post("StaDisconnected")
    /\ UNCHANGED <<cable, links, mainAt, portal, watchdog>>

\* DHCP answers a renewal with another router.
GatewayMoves ==
    /\ station = "up"
    /\ Trouble
    /\ \E a \in Gateways \ {gw["Wifi"]} : gw' = [gw EXCEPT !["Wifi"] = a]
    /\ Post("StaGotIp")
    /\ UNCHANGED <<station, cable, links, mainAt, portal, watchdog>>

\* A stopped driver looks for no cable.
CableIn ==
    /\ cable = "down"
    /\ wd.at # "restart"
    /\ Trouble
    /\ cable' = "link"
    /\ UNCHANGED <<station, gw, inbox, links, mainAt, portal, watchdog>>

CableLeases ==
    /\ cable = "link"
    /\ \E a \in Gateways : gw' = [gw EXCEPT !["Eth"] = a]
    /\ cable' = "up"
    /\ Post("EthGotIp")
    /\ UNCHANGED <<station, links, mainAt, portal, watchdog, budgets>>

CableOut ==
    /\ cable \in {"link", "up"}
    /\ Trouble
    /\ cable' = "down"
    /\ gw' = [gw EXCEPT !["Eth"] = NoAddress]
    /\ Post("EthDisconnected")
    /\ UNCHANGED <<station, links, mainAt, portal, watchdog>>

----------------------------------------------------------------------------
(* The event task: wifi_event_handler() and eth_event_handler().           *)

TransportOf(e) == IF e \in {"StaGotIp", "StaDisconnected"} THEN "Wifi"
                  ELSE "Eth"
IsUp(e) == e \in {"StaGotIp", "EthGotIp"}

\* Ethernet wins whenever it holds a lease.
net_link_active(l) == IF l["Eth"] THEN "Eth"
                      ELSE IF l["Wifi"] THEN "Wifi" ELSE "None"

\* esp_wifi_connect(); a running attempt or association is left alone.
Connect == station' = IF station = "idle" THEN "connecting" ELSE station

\* The next event is taken; a gain and a loss both start a new generation
\* (advance_lease_generation()).  No ping can be evidence for it yet.
AdvanceGeneration ==
    /\ handler.at = "idle"
    /\ inbox # <<>>
    /\ LET t == TransportOf(Head(inbox))
       IN /\ gen' = [gen EXCEPT ![t] = @ + 1]
          /\ proof' = [proof EXCEPT ![t] = NoProof]
    /\ handler' = [event |-> Head(inbox), at |-> "lease"]
    /\ inbox' = Tail(inbox)
    /\ UNCHANGED <<station, cable, gw, lease, link, wifiProven, wireBit,
                   attempts, mainAt, portal, wd, streak, base, budgets>>

\* wifi_retry_action() after a disconnect.
RetryAfterWifi ==
    IF lease["Eth"] THEN UNCHANGED <<station, attempts>>
    ELSE IF ~wifiProven /\ attempts >= BootRetries
    THEN UNCHANGED <<station, attempts>>
    ELSE /\ Connect
         /\ attempts' = IF attempts < BootRetries THEN attempts + 1
                        ELSE attempts

\* link_up() and link_down(), and the end of the handler: a lost station
\* retries unless Ethernet carries the link or the boot's budget is spent; a
\* lost cable re-arms the station.
Publish ==
    /\ handler.at = "lease"
    /\ lease' = [lease EXCEPT ![TransportOf(handler.event)] =
                                 IsUp(handler.event)]
    /\ wifiProven' = (wifiProven \/ handler.event = "StaGotIp")
    /\ wireBit' = (wireBit \/ handler.event = "EthGotIp")
    /\ link' = net_link_active(lease')
    /\ CASE handler.event = "StaDisconnected" -> RetryAfterWifi
         [] handler.event = "StaGotIp" -> attempts' = 0 /\ UNCHANGED station
         [] handler.event = "EthDisconnected" /\ ~lease["Wifi"] ->
               Connect /\ UNCHANGED attempts
         [] OTHER -> UNCHANGED <<station, attempts>>
    /\ handler' = [event |-> "none", at |-> "idle"]
    /\ UNCHANGED <<cable, gw, inbox, gen, mainAt, portal, watchdog, budgets>>

----------------------------------------------------------------------------
(* app_main(): the wire, the radio's window, the portal.                   *)

\* net_start_eth(): TRUE once the lease bit was set, FALSE when its grace for
\* a link or its cap for a lease is over.
WireWait ==
    /\ mainAt = "wire"
    /\ \/ wireBit /\ mainAt' = "running" /\ UNCHANGED station
       \/ ~wireBit /\ mainAt' = "window" /\ station' = "connecting"
    /\ UNCHANGED <<cable, gw, inbox, links, portal, watchdog, budgets>>

\* net_start_wifi() without a trial: joined, or out of attempts or time.
WindowEnds ==
    /\ mainAt = "window"
    /\ mainAt' = IF wifiProven THEN "running" ELSE "lastlook"
    /\ UNCHANGED <<drivers, links, portal, watchdog, budgets>>

\* One last look at the link, then the portal that retries.
LastLook ==
    /\ mainAt = "lastlook"
    /\ IF link # "None"
       THEN mainAt' = "running" /\ UNCHANGED portal
       ELSE mainAt' = "portal" /\ portal' = [NoPortal EXCEPT !.ap = TRUE]
    /\ UNCHANGED <<drivers, links, watchdog, budgets>>

\* portal_close_ap(): the server and the access point; each may refuse, and
\* the close is then due again only after its backoff.
CloseFails == portal' = [portal EXCEPT !.closeDue = FALSE] /\ Trouble
CloseAp ==
    \/ portal' = [portal EXCEPT !.ap = FALSE, !.client = FALSE]
       /\ UNCHANGED budgets
    \/ CloseFails

PortalLeaveAnyway ==
    /\ mainAt = "portal"
    /\ link # "None"
    /\ ~portal.ap \/ portal.closeDue
    /\ \/ portal' = NoPortal /\ UNCHANGED budgets
       \/ portal' = [NoPortal EXCEPT !.ap = TRUE] /\ Trouble
    /\ mainAt' = "running"
    /\ UNCHANGED <<drivers, links, watchdog>>

\* portal_step() answers Leave: the boot goes on only with the AP down.
PortalLeave ==
    /\ mainAt = "portal"
    /\ link # "None"
    /\ ~portal.ap \/ portal.closeDue
    /\ \/ portal' = NoPortal /\ mainAt' = "running" /\ UNCHANGED budgets
       \/ portal.ap /\ CloseFails /\ UNCHANGED mainAt
    /\ UNCHANGED <<drivers, links, watchdog>>

\* CloseAp: the cap, or no client for the idle time.
PortalClose ==
    /\ mainAt = "portal"
    /\ link = "None"
    /\ portal.ap
    /\ portal.closeDue
    /\ portal.capped \/ ~portal.client
    /\ CloseAp
    /\ UNCHANGED <<drivers, links, mainAt, watchdog>>

PortalAttemptWhileOpen ==
    /\ mainAt = "portal"
    /\ link = "None"
    /\ portal.ap
    /\ ~portal.client \/ portal.capped
    /\ portal.due
    /\ Connect
    /\ portal' = [portal EXCEPT !.due = FALSE]
    /\ UNCHANGED <<cable, gw, inbox, links, mainAt, watchdog, budgets>>

\* AttemptStation: not under a client before the cap.
PortalAttempt ==
    /\ mainAt = "portal"
    /\ link = "None"
    /\ ~portal.client \/ portal.capped
    /\ portal.due
    /\ Connect
    /\ portal' = [portal EXCEPT !.due = FALSE]
    /\ UNCHANGED <<cable, gw, inbox, links, mainAt, watchdog, budgets>>

PortalTime ==
    /\ mainAt = "portal"
    /\ \E timer \in {"due", "closeDue", "capped"} :
          ~portal[timer] /\ portal' = [portal EXCEPT ![timer] = TRUE]
    /\ UNCHANGED <<drivers, links, mainAt, watchdog, budgets>>

\* A phone joins or leaves the setup network.
PortalClient ==
    /\ mainAt = "portal"
    /\ portal.ap
    /\ portal' = [portal EXCEPT !.client = ~@]
    /\ UNCHANGED <<drivers, links, mainAt, watchdog, budgets>>

----------------------------------------------------------------------------
(* The watchdog task.                                                      *)

WdKeeps == UNCHANGED <<drivers, links, mainAt, portal>>

Unusable ==
    /\ wd' = IdleWd
    /\ streak' = [of |-> NoIdentity, fails |-> 0]
    /\ proof' = [t \in Transports |-> [proof[t] EXCEPT !.fails = 0]]
    /\ UNCHANGED base

\* The transport and the generation of its lease.
WdSnapshot ==
    /\ wd.at = "idle"
    /\ mainAt = "running"
    /\ IF link = "None" THEN Unusable
       ELSE /\ wd' = [IdleWd EXCEPT !.at = "address",
                        !.sample.transport = link, !.sample.gen = gen[link]]
            /\ UNCHANGED <<streak, base, proof>>
    /\ UNCHANGED budgets
    /\ WdKeeps

\* GatewayBaseline::observe(): proof of one lease and one gateway only.
Observe(b, id, replied) ==
    [of |-> id,
     ever |-> (b.of = id /\ b.ever) \/ (replied /\ id.address # NoAddress)]

\* The streak of this identity, its baseline, and watch_step().
Judge(id, result) ==
    LET t == id.transport
        fails == IF streak.of = id THEN streak.fails ELSE 0
        failed == result = "NoReply"
        b == Observe(base[t], id, result = "Reply")
        full == failed /\ fails + 1 >= kWatchFailsToRecover
    IN /\ base' = [base EXCEPT ![t] = b]
       /\ streak' = [of |-> id,
                     fails |-> IF failed /\ ~full THEN fails + 1 ELSE 0]
       /\ wd' = IF full /\ b.ever
                THEN [IdleWd EXCEPT !.at = "recheck", !.sample = id]
                ELSE IdleWd

\* The gateway's address, the generation a second time; the ping starts.
WdAddress ==
    /\ wd.at = "address"
    /\ LET t == wd.sample.transport
       IN \/ gw[t] = NoAddress /\ Judge(wd.sample, "NoReply") /\ UNCHANGED proof
          \/ gw[t] # NoAddress /\ gen[t] # wd.sample.gen /\ Unusable
          \/ /\ gw[t] # NoAddress
             /\ gen[t] = wd.sample.gen
             /\ wd' = [wd EXCEPT !.at = "ping", !.sample.address = gw[t]]
             /\ UNCHANGED <<streak, base, proof>>
    /\ UNCHANGED budgets
    /\ WdKeeps

\* What a ping under a generation that lasts has shown: who has answered so
\* far, and how often the gateway asked last has now been silent in a row.
Evidence(result) ==
    LET id == wd.sample
        old == proof[id.transport]
        again == old.of = id.address /\ old.fails > 0
        new == [replied |-> old.replied \cup
                               (IF result = "Reply" THEN {id.address} ELSE {}),
                of |-> id.address,
                fails |-> IF result # "NoReply" THEN 0
                          ELSE IF again THEN kWatchFailsToRecover ELSE 1]
    IN [u \in Transports |->
          IF u = id.transport /\ gen[u] = id.gen THEN new
          ELSE [proof[u] EXCEPT !.fails = 0]]

\* Reply, silence, or no measurement.
WdPinged ==
    /\ wd.at = "ping"
    /\ \E r \in {"Reply", "NoReply", "Unavailable"} :
          /\ wd' = [wd EXCEPT !.at = "verify", !.result = r]
          /\ proof' = Evidence(r)
          /\ IF r = "NoReply" THEN silent > 0 /\ silent' = silent - 1
             ELSE UNCHANGED silent
    /\ UNCHANGED <<streak, base, trouble>>
    /\ WdKeeps

\* The verdict holds only for the route and the lease that are still there.
WdVerify ==
    /\ wd.at = "verify"
    /\ IF \/ link # wd.sample.transport
          \/ gen[wd.sample.transport] # wd.sample.gen
          \/ gw[wd.sample.transport] # wd.sample.address
       THEN Unusable
       ELSE Judge(wd.sample, wd.result) /\ UNCHANGED proof
    /\ UNCHANGED budgets
    /\ WdKeeps

\* net_recover(): the route and the gateway once more.
WdRecheck ==
    /\ wd.at = "recheck"
    /\ wd' = IF /\ link = wd.sample.transport
                /\ gw[link] = wd.sample.address
             THEN [wd EXCEPT !.at = "compare"] ELSE IdleWd
    /\ UNCHANGED <<streak, base, proof, budgets>>
    /\ WdKeeps

WdCompareSkipped ==
    /\ wd.at = "compare"
    /\ wd' = [wd EXCEPT !.at = "reset"]
    /\ UNCHANGED <<streak, base, proof, budgets>>
    /\ WdKeeps

\* The generation last: this look decides.  No lock is held from here on.
WdCompare ==
    /\ wd.at = "compare"
    /\ wd' = IF gen[wd.sample.transport] = wd.sample.gen
             THEN [wd EXCEPT !.at = "reset"] ELSE IdleWd
    /\ UNCHANGED <<streak, base, proof, budgets>>
    /\ WdKeeps

\* The transport is forced to start over, whatever the event task has handled
\* since the last look: an attempt or an association ends, or the Ethernet
\* driver stops.
WdReset ==
    /\ wd.at = "reset"
    /\ \/ /\ wd.sample.transport = "Wifi"
          /\ wd' = IdleWd
          /\ IF station \in {"connecting", "up"}
             THEN /\ station' = "idle"
                  /\ gw' = [gw EXCEPT !["Wifi"] = NoAddress]
                  /\ Post("StaDisconnected")
             ELSE UNCHANGED <<station, gw, inbox>>
          /\ UNCHANGED cable
       \/ /\ wd.sample.transport = "Eth"
          /\ wd' = [wd EXCEPT !.at = "restart"]
          /\ IF cable # "down"
             THEN /\ cable' = "stopped"
                  /\ gw' = [gw EXCEPT !["Eth"] = NoAddress]
                  /\ Post("EthDisconnected")
             ELSE UNCHANGED <<cable, gw, inbox>>
          /\ UNCHANGED station
    /\ UNCHANGED <<links, mainAt, portal, streak, base, proof, budgets>>

\* The Ethernet driver is started again after 200 ms.
WdRestart ==
    /\ wd.at = "restart"
    /\ wd' = IdleWd
    /\ cable' = IF cable = "stopped" THEN "link" ELSE cable
    /\ UNCHANGED <<station, gw, inbox, links, mainAt, portal, streak, base, proof,
                   budgets>>

\* An iteration that throws drops its evidence with every baseline.
WdFault ==
    /\ wd.at \notin {"idle", "ping", "restart"}
    /\ wd' = IdleWd
    /\ streak' = [of |-> NoIdentity, fails |-> 0]
    /\ base' = [t \in Transports |-> [of |-> NoIdentity, ever |-> FALSE]]
    /\ UNCHANGED <<proof, budgets>>
    /\ WdKeeps

----------------------------------------------------------------------------
NetInit ==
    /\ station = "off"
    /\ cable \in {"down", "link"}
    /\ gw = [t \in Transports |-> NoAddress]
    /\ inbox = <<>>
    /\ handler = [event |-> "none", at |-> "idle"]
    /\ gen = [t \in Transports |-> 0]
    /\ lease = [t \in Transports |-> FALSE]
    /\ link = "None"
    /\ wifiProven = FALSE
    /\ wireBit = FALSE
    /\ attempts = 0
    /\ mainAt = "wire"
    /\ portal = NoPortal
    /\ wd = IdleWd
    /\ streak = [of |-> NoIdentity, fails |-> 0]
    /\ base = [t \in Transports |-> [of |-> NoIdentity, ever |-> FALSE]]
    /\ proof = [t \in Transports |-> NoProof]
    /\ trouble = MaxTrouble
    /\ silent = MaxSilent

EventTask == AdvanceGeneration \/ Publish
PortalTask == PortalLeave \/ PortalClose \/ PortalAttempt
Watchdog == \/ WdSnapshot \/ WdAddress \/ WdPinged \/ WdVerify \/ WdRecheck
            \/ WdCompare \/ WdReset \/ WdRestart \/ WdFault
Drivers == StationJoins \/ CableLeases

NetNext ==
    \/ Drivers \/ StationDrops \/ GatewayMoves \/ CableIn \/ CableOut
    \/ EventTask \/ WireWait \/ WindowEnds \/ LastLook
    \/ PortalTask \/ PortalTime \/ PortalClient
    \/ Watchdog

NetSpec == NetInit /\ [][NetNext]_netVars

\* The tasks run; a network that is there is joined; timers expire.  Of the
\* watchdog only the end of a delay is needed.
NetFairness ==
    /\ WF_netVars(EventTask)
    /\ WF_netVars(WireWait \/ WindowEnds \/ LastLook)
    /\ WF_netVars(PortalTask)
    /\ WF_netVars(PortalTime)
    /\ WF_netVars(StationJoins)
    /\ WF_netVars(CableLeases)
    /\ WF_netVars(WdRestart)

----------------------------------------------------------------------------
Events == {"StaGotIp", "StaDisconnected", "EthGotIp", "EthDisconnected"}
Addresses == Gateways \cup {NoAddress}
Identities == [transport : Transports \cup {"None"}, gen : Nat,
               address : Addresses]
PortalType == [ap : BOOLEAN, client : BOOLEAN, capped : BOOLEAN,
               due : BOOLEAN, closeDue : BOOLEAN]
WdType == [at : {"idle", "address", "ping", "verify", "recheck", "compare", "reset",
                  "restart"},
           sample : Identities,
           result : {"none", "Reply", "NoReply", "Unavailable"}]
ProofType == [replied : SUBSET Gateways, of : Addresses,
              fails : 0..kWatchFailsToRecover]

NetTypeOK ==
    /\ station \in {"off", "idle", "connecting", "up"}
    /\ cable \in {"down", "link", "up", "stopped"}
    /\ gw \in [Transports -> Addresses]
    /\ inbox \in Seq(Events) /\ Len(inbox) <= MaxInbox
    /\ handler \in [event : Events \cup {"none"}, at : {"idle", "lease"}]
    /\ gen \in [Transports -> Nat]
    /\ lease \in [Transports -> BOOLEAN]
    /\ link \in Transports \cup {"None"}
    /\ wifiProven \in BOOLEAN /\ wireBit \in BOOLEAN
    /\ attempts \in 0..BootRetries
    /\ mainAt \in {"wire", "window", "lastlook", "portal", "running"}
    /\ portal \in PortalType
    /\ wd \in WdType
    /\ streak \in [of : Identities, fails : 0..kWatchFailsToRecover - 1]
    /\ base \in [Transports -> [of : Identities, ever : BOOLEAN]]
    /\ proof \in [Transports -> ProofType]
    /\ trouble \in 0..MaxTrouble /\ silent \in 0..MaxSilent

Quiet == handler.at = "idle" /\ inbox = <<>>

\* Between events the route the device reports is the one its leases give,
\* and once every event is handled the leases are those the drivers hold:
\* losing one transport never takes down the other (recompute_link()).
LinkFollowsLeases ==
    /\ handler.at = "idle" =>
          \/ link = "Eth" /\ lease["Eth"]
          \/ link = "Wifi" /\ lease["Wifi"] /\ ~lease["Eth"]
          \/ link = "None" /\ ~lease["Wifi"] /\ ~lease["Eth"]
    /\ Quiet => /\ lease["Wifi"] = (station = "up")
                /\ lease["Eth"] = (cable = "up")

\* A started station that is not trying has a reason: Ethernet carries the
\* link, or it was never online and its boot budget is spent.
StationIsPursued ==
    Quiet /\ station = "idle" =>
        lease["Eth"] \/ (~wifiProven /\ attempts >= BootRetries)

\* Normal boot never goes on beside the open setup access point.
PortalFailsClosed == mainAt = "running" => ~portal.ap

\* The watchdog decides to reset a transport only on evidence of the lease that
\* is current at its last look: the judged gateway answered in that lease's
\* generation and then stayed silent twice without an interruption
\* (net_recover()).  `proof' starts afresh with each generation.  It is no
\* promise about the driver call that follows: the event task may publish a
\* newer lease before it, and the code does not look again.
RecoverIsEarned ==
    [][/\ wd.at = "compare"
       /\ wd'.at = "reset"
       => LET t == wd.sample.transport
          IN /\ wd.sample.address \in proof[t].replied
             /\ proof[t].of = wd.sample.address
             /\ proof[t].fails >= kWatchFailsToRecover]_netVars

\* When the trouble ends the device is online for good, through a spent boot
\* budget, failed portal closes, a cable that came and went.  Left out are a
\* boot that never started the radio, and a radio that never joined before
\* its budget was spent and the boot went on.
BackOnline ==
    <>[]\/ link # "None"
        \/ station = "off"
        \/ ~wifiProven /\ attempts >= BootRetries /\ mainAt = "running"

\* What holds of the two links at every instant: the published link has a
\* lease behind it, a station without an address is pursued, and boot never
\* goes on beside an open access point.
LinkSafe ==
    /\ NetTypeOK
    /\ LinkFollowsLeases
    /\ StationIsPursued
    /\ PortalFailsClosed

=============================================================================
