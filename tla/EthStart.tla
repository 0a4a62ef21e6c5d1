----------------------------- MODULE EthStart ------------------------------
(***************************************************************************)
(* Bringing up the wired controller at boot: the probe for a W5500 on the  *)
(* candidate pins, the chain of driver objects net_start_eth() builds, and *)
(* the teardown of what was built when a step fails (net.cpp).             *)
(*                                                                         *)
(* Once the driver has been told to start, its receive task and the event  *)
(* task may use every object of the chain until the next reboot, whatever  *)
(* the start returned.                                                     *)
(***************************************************************************)
EXTENDS Naturals, Sequences

CONSTANT Candidates   \* number of pin sets the board may use

\* Objects in the order they are acquired; "published" stands for the four
\* globals the callbacks and the watchdog read.
Chain == <<"spi", "events", "netif", "mac", "phy", "driver", "glue", "attach",
           "ethHandler", "ipHandler", "published", "started">>
Objects == {Chain[i] : i \in 1..Len(Chain)}
Fallible == Objects \ {"published"}

\* A failure of one of these parks the boot; of the others, Wi-Fi takes over.
Fatal == {"events", "netif", "ethHandler", "ipHandler", "started"}

\* What a teardown step gives back, last first, and which of them can fail.
Teardown == <<"ipHandler", "ethHandler", "published", "glue", "driver", "mac",
              "phy", "netif", "events", "spi">>
MayRefuse == {"ipHandler", "ethHandler", "glue", "driver", "mac", "phy", "spi"}

VARIABLES
    ethAt,      \* probe, build, undo, wait, or how the call ended
    candidate,  \* pin sets probed so far
    have,       \* objects that exist
    activated,  \* start_attempted: esp_eth_start() has been called
    verdict     \* fallback or fatal, what the teardown leads to

ethVars == <<ethAt, candidate, have, activated, verdict>>

NextObject == Chain[CHOOSE i \in 1..Len(Chain) :
                       /\ Chain[i] \notin have
                       /\ \A j \in 1..i - 1 : Chain[j] \in have]

\* net_eth_probe(): a bus that cannot be claimed and one without a controller
\* are passed over, the latter given back first.
ProbeCandidate ==
    /\ ethAt = "probe"
    /\ candidate < Candidates
    /\ candidate' = candidate + 1
    /\ \/ UNCHANGED <<ethAt, have>>
       \/ ethAt' = "build" /\ have' = {"spi"}
       \/ ethAt' = "parked" /\ have' = {"spi"}
    /\ UNCHANGED <<activated, verdict>>

ProbeOver ==
    /\ ethAt = "probe"
    /\ candidate = Candidates
    /\ ethAt' = "wifi"
    /\ UNCHANGED <<candidate, have, activated, verdict>>

\* The next object of the chain is there.
Acquire ==
    /\ ethAt = "build"
    /\ have' = have \cup {NextObject}
    /\ activated' = (activated \/ NextObject = "started")
    /\ ethAt' = IF NextObject = "started" THEN "wait" ELSE "build"
    /\ UNCHANGED <<candidate, verdict>>

\* It could not be made.  The PHY is tried even if there is no MAC; a start
\* that failed may have enabled the receive task before it did.
AcquireFails ==
    /\ ethAt = "build"
    /\ NextObject \in Fallible
    /\ verdict' = IF NextObject \in Fatal THEN "fatal" ELSE "fallback"
    /\ activated' = (NextObject = "started")
    /\ \/ have' = have
       \/ NextObject = "mac" /\ have' = have \cup {"phy"}
    /\ ethAt' = "undo"
    /\ UNCHANGED candidate

HeldTail == {i \in 1..Len(Teardown) : Teardown[i] \in have}

UndoStepAfterStart ==
    /\ ethAt = "undo"
    /\ HeldTail # {}
    /\ LET o == Teardown[CHOOSE i \in HeldTail : \A j \in HeldTail : i <= j]
       IN \/ have' = have \ ({o} \cup IF o = "glue" THEN {"attach"} ELSE {})
             /\ UNCHANGED ethAt
          \/ o \in MayRefuse /\ ethAt' = "parked" /\ UNCHANGED have
    /\ UNCHANGED <<candidate, activated, verdict>>

\* eth_cleanup_startup(): one object after the other, the last built first;
\* the first that cannot be given back keeps the rest and parks the boot.
UndoStep ==
    /\ ethAt = "undo"
    /\ ~activated
    /\ HeldTail # {}
    /\ LET o == Teardown[CHOOSE i \in HeldTail : \A j \in HeldTail : i <= j]
       IN \/ have' = have \ ({o} \cup IF o = "glue" THEN {"attach"} ELSE {})
             /\ UNCHANGED ethAt
          \/ o \in MayRefuse /\ ethAt' = "parked" /\ UNCHANGED have
    /\ UNCHANGED <<candidate, activated, verdict>>

\* Nothing is given back after activation.
UndoOver ==
    /\ ethAt = "undo"
    /\ activated \/ HeldTail = {}
    /\ ethAt' = IF activated \/ verdict = "fatal" THEN "parked" ELSE "wifi"
    /\ UNCHANGED <<candidate, have, activated, verdict>>

\* A lease in time, or Wi-Fi beside a driver that keeps running.
LeaseWait ==
    /\ ethAt = "wait"
    /\ ethAt' \in {"wired", "wifi"}
    /\ UNCHANGED <<candidate, have, activated, verdict>>

EthInit ==
    /\ ethAt = "probe"
    /\ candidate = 0
    /\ have = {}
    /\ activated = FALSE
    /\ verdict = "none"

EthNext == \/ ProbeCandidate \/ ProbeOver \/ Acquire \/ AcquireFails
           \/ UndoStep \/ UndoOver \/ LeaseWait

EthSpec == EthInit /\ [][EthNext]_ethVars

\* What the receive task and the event handlers may touch.
UsedByCallbacks == Objects \ {"started"}

\* Nothing a callback may still touch is ever freed, and no object outlives
\* one it is built on: the SPI bus stays until the last of its users is gone.
NothingFreedInUse ==
    /\ activated => UsedByCallbacks \subseteq have
    /\ "driver" \in have => {"mac", "phy", "netif", "spi"} \subseteq have
    /\ "mac" \in have \/ "phy" \in have => {"netif", "events", "spi"} \subseteq have
    /\ "published" \in have => {"events", "netif", "driver", "glue"} \subseteq have
    /\ "ethHandler" \in have => {"glue", "driver", "netif", "events"} \subseteq have

\* Wi-Fi takes over with the whole chain alive or with none of it: pins and
\* memory of a half-built driver are never left behind.
FallbackIsClean ==
    ethAt = "wifi" => have = {} \/ (activated /\ have = Objects)

\* What a failed Ethernet start leaves (net.cpp:619): nothing a callback uses
\* is freed, and Wi-Fi starts only over released pins.
UnwindIsSafe == NothingFreedInUse /\ FallbackIsClean

=============================================================================
