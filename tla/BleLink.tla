-------------------------------- MODULE BleLink --------------------------------
(***************************************************************************)
(* The Bluetooth link to the vehicle: BleClient (main/ble_client.cpp), the *)
(* bounded queue through which the NimBLE host hands events to             *)
(* vehicle_loop (main/logic/ble_deferred_queue.hpp), and the part of       *)
(* vehicle_loop that applies them (main/vehicle_telemetry.cpp).            *)
(*                                                                         *)
(* Three threads share BleClient's atomics.  Tasks ("cmd", a command or    *)
(* request in progress, and "loop", vehicle_loop) wait for intent_mutex_;  *)
(* the NimBLE host only tries it and acts even when it loses.  A task's    *)
(* critical section is two steps, its body and the release, so that the    *)
(* host can lose the mutex; a publication of the host is two steps, with   *)
(* an odd generation between them.  The controller keeps at most one link  *)
(* and reuses one connection handle for every link.                        *)
(***************************************************************************)
EXTENDS Integers, Sequences, FiniteSets

CONSTANTS
    Depth,       \* BleDeferredQueue::kDepth
    CellChunks,  \* notifications one queue cell can hold
    MaxGen,      \* bound: the last connection generation
    MaxRx,       \* bound: notifications of one link
    Requests,    \* what the command task may ask for besides a link
    FaultKinds,  \* NimBLE calls that may fail, and host resets
    MaxFaults    \* bound: faults in one behaviour

ASSUME QueueAssumption == Depth \in Nat \ {0} /\ CellChunks \in Nat \ {0}
ASSUME GenAssumption == MaxGen \in Nat /\ MaxRx \in Nat /\ MaxFaults \in Nat
ASSUME FaultAssumption ==
    FaultKinds \subseteq
        {"disc", "cancel", "connect", "gatt", "terminate", "drop", "task", "reset"}
ASSUME RequestsAssumption == Requests \subseteq {"discover", "disconnect"}

VARIABLES
    c,         \* the atomics of BleClient
    lock,      \* holder of intent_mutex_
    host,      \* the NimBLE host task: the callback it is in
    task,      \* the two tasks: where they are
    timer,     \* scan_timer_ is armed
    gap,       \* the controller's GAP procedure
    link,      \* the controller's link
    proc,      \* GATT procedures whose callback is outstanding
    queue,     \* BleDeferredQueue
    overflow,  \* ble_events_.overflow
    ev,        \* the event vehicle_loop popped
    app,       \* generation whose LinkUp vehicle_loop applied, NoGen after a LinkDown
    peers,     \* generation the runner's sessions and request slots come from
    framer,    \* notifications in the RX framer
    fault,     \* ble_fault_
    intent,    \* history: connect() was called and not canceled since
    faults

host_vars == <<lock, host>>
radio == <<gap, link, proc>>
mailbox == <<queue, overflow>>
vehicle == <<ev, app, peers, framer, fault>>
vars == <<c, host_vars, task, timer, radio, mailbox, vehicle, intent, faults>>

Tasks == {"cmd", "loop"}
NoGen == -1
Gens == 0..MaxGen
NoLink == [st |-> "none", gen |-> NoGen, sub |-> FALSE, rx |-> 0]
NoEvent == [kind |-> "none", gen |-> NoGen, i |-> 0]

Steps == {"idle", "wait", "stop", "service", "scanPending", "repair", "events", "clear", "pop", "apply",
          "complete", "publish", "recheck", "unwind", "drive", "tail", "scan", "terminate",
          "tLock", "release", "disconnect"}

Cells == [kind : {"LinkUp", "LinkDown", "Rx"}, gen : Gens, from : 0..MaxRx,
          to : 0..MaxRx, at : 0..MaxRx + 1]

ClientType ==
    [want : BOOLEAN, connecting : BOOLEAN, scanning : BOOLEAN, synced : BOOLEAN, gen : Gens,
     handle : BOOLEAN, write : BOOLEAN, ready : Gens \cup {NoGen}, discon : BOOLEAN,
     term : Gens \cup {NoGen}, scanPend : BOOLEAN]

HostType ==
    [at : {"idle", "publish", "retire", "linkDown", "terminate"}, gen : Gens, again : BOOLEAN]

TaskType == [at : Steps, next : Steps, back : Steps, gen : Gens]

GapType == {"idle", "scan", "connect"}

LinkType ==
    [st : {"none", "up", "ending", "down"}, gen : Gens \cup {NoGen}, sub : BOOLEAN,
     rx : 0..MaxRx]

EventType ==
    [kind : {"none", "LinkUp", "LinkDown", "Rx"}, gen : Gens \cup {NoGen}, i : 0..MaxRx]

TypeOK ==
    /\ c \in ClientType
    /\ lock \in Tasks \cup {"free", "host"}
    /\ host \in HostType
    /\ task \in [Tasks -> TaskType]
    /\ timer \in BOOLEAN
    /\ gap \in GapType
    /\ link \in LinkType
    /\ proc \subseteq [gen : Gens, stage : {"discover", "subscribe"}]
    /\ queue \in Seq(Cells) /\ Len(queue) <= Depth
    /\ overflow \in BOOLEAN
    /\ ev \in EventType
    /\ app \in Gens \cup {NoGen}
    /\ peers \in Gens \cup {NoGen}
    /\ framer \in Seq([gen : Gens, i : 1..MaxRx])
    /\ fault \in BOOLEAN /\ intent \in BOOLEAN
    /\ faults \in 0..MaxFaults

Init ==
    /\ c = [want |-> FALSE, connecting |-> FALSE, scanning |-> FALSE, synced |-> FALSE,
            gen |-> 0, handle |-> FALSE, write |-> FALSE, ready |-> NoGen, discon |-> FALSE,
            term |-> NoGen, scanPend |-> FALSE]
    /\ lock = "free"
    /\ host = [at |-> "idle", gen |-> 0, again |-> FALSE]
    /\ task = [t \in Tasks |->
                 [at |-> IF t = "cmd" THEN "idle" ELSE "service", next |-> "idle",
                  back |-> "idle", gen |-> 0]]
    /\ timer = FALSE
    /\ gap = "idle" /\ link = NoLink /\ proc = {}
    /\ queue = << >> /\ overflow = FALSE
    /\ ev = NoEvent /\ app = NoGen /\ peers = NoGen /\ framer = << >> /\ fault = FALSE
    /\ intent = FALSE
    /\ faults = 0

----------------------------------------------------------------------------
(* Snapshots and predicates                                                *)

Odd(g) == g % 2 = 1

\* The stable generation that a publication in progress will end with.
Settled(g) == g + (g % 2)

\* has_gap_link_(): a stable published link that nobody is closing.
HasGapLink(b) == ~b.discon /\ ~Odd(b.gen) /\ b.handle

\* is_connected(): command readiness.
IsConnected(b) == HasGapLink(b) /\ b.write /\ b.ready = b.gen

\* connection_snapshot_matches_(): every link has the same handle.
SnapshotMatches(b, g) == ~Odd(g) /\ ~b.discon /\ b.gen = g /\ b.handle

CanFail(kind) == kind \in FaultKinds /\ faults < MaxFaults

\* What a call that starts or stops a GAP procedure can leave behind.
Outcome(b, g, cost) == [c |-> b, gap |-> g, cost |-> cost]

\* start_scan_locked_().
StartScan(b, g) ==
    IF b.scanning \/ ~b.synced \/ b.discon \/ g = "connect"
      THEN {Outcome(b, g, 0)}
      ELSE {Outcome([b EXCEPT !.scanning = TRUE], "scan", 0)}
           \cup (IF g # "scan" /\ CanFail("disc") THEN {Outcome(b, g, 1)} ELSE {})

\* A slip: a cancel that failed is published as an idle radio.
CancelPublishesIdle(b, g) ==
    {Outcome([b EXCEPT !.scanning = FALSE], IF g = "scan" THEN "idle" ELSE g, 0)}
    \cup (IF b.scanning /\ CanFail("cancel")
            THEN {Outcome([b EXCEPT !.scanning = FALSE], g, 1)} ELSE {})

\* cancel_scan_locked_().
CancelScan(b, g) ==
    IF ~b.scanning
      THEN {Outcome(b, g, 0)}
      ELSE {Outcome([b EXCEPT !.scanning = FALSE], IF g = "scan" THEN "idle" ELSE g, 0)}
           \cup (IF CanFail("cancel") THEN {Outcome(b, g, 1)} ELSE {})

\* ensure_scanning_locked_().
EnsureScanning(b, g) ==
    IF b.want /\ ~b.discon /\ ~HasGapLink(b) /\ ~b.connecting /\ ~b.scanning
      THEN StartScan(b, g)
      ELSE {Outcome(b, g, 0)}

\* ensure_scanning_(0), under its caller's condition: a caller that loses the mutex leaves
\* the scan to service_pending().
TryEnsureScanning(cond, b, g) ==
    IF ~cond THEN {Outcome(b, g, 0)}
    ELSE IF lock = "free" THEN EnsureScanning(b, g)
    ELSE {Outcome([b EXCEPT !.scanPend = TRUE], g, 0)}

Take(outcomes) ==
    \E o \in outcomes : c' = o.c /\ gap' = o.gap /\ faults' = faults + o.cost

Charge(kind) == CanFail(kind) /\ faults' = faults + 1

\* A retired or replaced publication; the fields every publication resets.
Retired(b) ==
    [b EXCEPT !.discon = TRUE, !.gen = @ + 1, !.handle = FALSE, !.write = FALSE,
              !.ready = NoGen, !.connecting = FALSE, !.scanning = FALSE]

Unpend(b, g) == [b EXCEPT !.term = IF @ = g THEN NoGen ELSE @]

----------------------------------------------------------------------------
(* terminate_published_link_()                                             *)

\* Its first half: announce the request unless the link it is for is already gone.
Announced(g) == Settled(c.gen) = g

\* A slip: the generation is not compared with the one the request was made for.
TerminateAnyLink(b, g) ==
    \/ /\ ~b.handle
       /\ c' = [Unpend(b, g) EXCEPT !.discon = FALSE]
       /\ UNCHANGED <<link, faults>>
    \/ /\ b.handle
       /\ link' = [link EXCEPT !.st = IF @ = "up" THEN "ending" ELSE @]
       /\ c' = Unpend(b, g)
       /\ UNCHANGED faults

\* Its second half, under the mutex, for a stable generation; b is what the first half left.
TerminateLocked(b, g) ==
    \/ /\ b.gen # g
       /\ c' = [Unpend(b, g) EXCEPT !.discon = @ /\ b.handle]
       /\ UNCHANGED <<link, faults>>
    \/ /\ b.gen = g /\ ~b.handle
       /\ c' = [Unpend(b, g) EXCEPT !.discon = FALSE]
       /\ UNCHANGED <<link, faults>>
    \/ /\ b.gen = g /\ b.handle /\ link.st = "up"
       /\ link' = [link EXCEPT !.st = "ending"]
       /\ c' = Unpend(b, g)
       /\ UNCHANGED faults
    \/ /\ b.gen = g /\ b.handle
       /\ IF link.st = "up" THEN Charge("terminate") ELSE UNCHANGED faults
       /\ c' = b
       /\ UNCHANGED link

----------------------------------------------------------------------------
(* Task operations: connect(), stop_connecting(), disconnect(), discovery  *)

At(t, at) == task[t].at = at

Resting(at) == [at |-> at, next |-> "idle", back |-> "idle", gen |-> 0]

Go(t, at) == task' = [task EXCEPT ![t] = Resting(at)]

\* The end of a critical section's body; Release leaves it.
Hold(t, next) ==
    /\ lock' = t
    /\ task' = [task EXCEPT ![t] = [Resting("release") EXCEPT !.next = next]]

Release(t) ==
    /\ At(t, "release")
    /\ lock' = "free"
    /\ task' = [task EXCEPT ![t] =
                  IF @.next \in {"scan", "terminate"}
                    THEN [@ EXCEPT !.at = task[t].next, !.next = "idle"]
                    ELSE Resting(@.next)]
    /\ UNCHANGED <<c, host, timer, radio, mailbox, vehicle, intent, faults>>

\* connect(), called at `at', going on at `back'.
Connect(t, at, back) ==
    /\ At(t, at)
    /\ lock = "free"
    /\ IF IsConnected(c)
         THEN Go(t, back) /\ UNCHANGED <<c, lock, intent>>
         ELSE /\ c' = [c EXCEPT !.want = TRUE]
              /\ intent' = TRUE
              /\ lock' = t
              /\ task' = [task EXCEPT ![t] =
                            IF HasGapLink(c) THEN [Resting("release") EXCEPT !.next = back]
                            ELSE [Resting("release") EXCEPT !.next = "scan", !.back = back]]
    /\ UNCHANGED <<host, timer, radio, mailbox, vehicle, faults>>

\* ensure_scanning_() of connect().
ConnectScans(t) ==
    /\ At(t, "scan")
    /\ lock = "free"
    /\ Take(EnsureScanning(c, gap))
    /\ Go(t, task[t].back)
    /\ UNCHANGED <<host_vars, timer, link, proc, mailbox, vehicle, intent>>

\* stop_connecting(): the deadline of a connect attempt passed.
StopConnecting(t, at, back) ==
    /\ At(t, at)
    /\ lock = "free"
    /\ lock' = t
    /\ intent' = FALSE
    /\ \/ /\ HasGapLink(c)
          /\ c' = [c EXCEPT !.want = FALSE, !.discon = TRUE, !.ready = NoGen]
          /\ task' = [task EXCEPT ![t] = [at |-> "release", next |-> "terminate",
                                          back |-> back, gen |-> c.gen]]
          /\ UNCHANGED <<gap, faults>>
       \/ /\ ~HasGapLink(c)
          /\ Take(CancelScan([c EXCEPT !.want = FALSE], gap))
          /\ task' = [task EXCEPT ![t] = [Resting("release") EXCEPT !.next = back]]
    /\ UNCHANGED <<host, timer, link, proc, mailbox, vehicle>>

\* disconnect().
Disconnect(t, at, back) ==
    /\ At(t, at)
    /\ lock = "free"
    /\ lock' = t
    /\ intent' = FALSE
    /\ c' = [c EXCEPT !.discon = TRUE, !.ready = NoGen, !.want = FALSE]
    /\ task' = [task EXCEPT ![t] = [at |-> "release", next |-> "terminate", back |-> back,
                                    gen |-> Settled(c.gen)]]
    /\ UNCHANGED <<host, timer, radio, mailbox, vehicle, faults>>

TerminateAnnounce(t) ==
    /\ At(t, "terminate")
    /\ IF Announced(task[t].gen)
         THEN /\ c' = [c EXCEPT !.term = task[t].gen]
              /\ task' = [task EXCEPT ![t].at = "tLock"]
         ELSE UNCHANGED c /\ Go(t, task[t].back)
    /\ UNCHANGED <<host_vars, timer, radio, mailbox, vehicle, intent, faults>>

\* The mutex is taken, or the generation stays odd for eight looks: vehicle_loop retries.
TerminateGivesUp(t) ==
    /\ At(t, "tLock")
    /\ lock # "free" \/ Odd(c.gen)
    /\ Go(t, task[t].back)
    /\ UNCHANGED <<c, host_vars, timer, radio, mailbox, vehicle, intent, faults>>

Terminate(t) ==
    /\ At(t, "tLock")
    /\ lock = "free" /\ ~Odd(c.gen)
    /\ TerminateLocked(c, task[t].gen)
    /\ Hold(t, task[t].back)
    /\ UNCHANGED <<host, timer, gap, proc, mailbox, vehicle, intent>>

\* start_discovery(): a manual scan, never while a link is wanted or there.
StartDiscovery ==
    /\ "discover" \in Requests
    /\ At("cmd", "idle")
    /\ lock = "free"
    /\ ~c.discon /\ ~c.want /\ ~HasGapLink(c) /\ ~c.connecting
    /\ \E o \in StartScan(c, gap) :
         /\ c' = o.c /\ gap' = o.gap /\ faults' = faults + o.cost
         /\ timer' = (timer \/ o.c.scanning)
    /\ Hold("cmd", "idle")
    /\ UNCHANGED <<host, link, proc, mailbox, vehicle, intent>>

\* on_scan_timeout(); it stays armed when it loses the mutex.
ScanTimeout ==
    /\ timer
    /\ lock = "free"
    /\ timer' = FALSE
    /\ Take(IF c.scanning /\ ~c.want /\ ~c.connecting /\ ~HasGapLink(c)
              THEN CancelScan(c, gap) ELSE {Outcome(c, gap, 0)})
    /\ UNCHANGED <<host_vars, task, link, proc, mailbox, vehicle, intent>>

\* ensure_connected_until_(): a caller waits for readiness until its deadline.
CmdConnect == Connect("cmd", "idle", "wait")

CmdLinked ==
    /\ At("cmd", "wait")
    /\ IsConnected(c)
    /\ Go("cmd", "idle")
    /\ UNCHANGED <<c, host_vars, timer, radio, mailbox, vehicle, intent, faults>>

CmdDeadline ==
    /\ At("cmd", "wait")
    /\ ~IsConnected(c)
    /\ Go("cmd", "stop")
    /\ UNCHANGED <<c, host_vars, timer, radio, mailbox, vehicle, intent, faults>>

CmdStop == StopConnecting("cmd", "stop", "idle")

\* invalidate_and_flush_() and clear_session_and_cache_() drop the link.
CmdDisconnect == "disconnect" \in Requests /\ Disconnect("cmd", "idle", "idle")

TaskStep(t) ==
    Release(t) \/ ConnectScans(t) \/ TerminateAnnounce(t) \/ TerminateGivesUp(t) \/ Terminate(t)

CmdStep ==
    CmdConnect \/ CmdLinked \/ CmdDeadline \/ CmdStop \/ CmdDisconnect \/ StartDiscovery

----------------------------------------------------------------------------
(* The deferred queue                                                      *)

LinkCell(kind, g) == [kind |-> kind, gen |-> g, from |-> 0, to |-> 0, at |-> 0]

\* push_link().
PushLink(kind, g) ==
    IF Len(queue) < Depth
      THEN queue' = Append(queue, LinkCell(kind, g)) /\ UNCHANGED overflow
      ELSE overflow' = TRUE /\ UNCHANGED queue

\* push_rx(): a notification joins the last cell when it comes in time and fits.
Joins(near, g) ==
    /\ near
    /\ queue # << >>
    /\ LET tail == queue[Len(queue)]
       IN tail.kind = "Rx" /\ tail.gen = g /\ tail.to - tail.from + 1 < CellChunks

RxFits(near, g) == Joins(near, g) \/ Len(queue) < Depth

PushedRx(near, g, i) ==
    IF Joins(near, g)
      THEN [queue EXCEPT ![Len(queue)].to = i]
      ELSE Append(queue, [kind |-> "Rx", gen |-> g, from |-> i, to |-> i, at |-> i])

\* A slip: the read offset of a cell is not advanced.
PoppedStays ==
    IF Head(queue).kind = "Rx" /\ Head(queue).at < Head(queue).to THEN queue ELSE Tail(queue)

\* pop(): one slice of the head; a link event or the last slice frees the cell.
Popped ==
    IF Head(queue).kind = "Rx" /\ Head(queue).at < Head(queue).to
      THEN [queue EXCEPT ![1].at = @ + 1]
      ELSE Tail(queue)

----------------------------------------------------------------------------
(* NimBLE host callbacks                                                   *)

HostIdle == host.at = "idle"

HostGoes(at, g, again) == host' = [at |-> at, gen |-> g, again |-> again]

\* disconnect_from_callback_(): fail closed without the mutex, then terminate.
Closed(b) ==
    [b EXCEPT !.ready = NoGen, !.discon = TRUE, !.want = FALSE, !.connecting = FALSE]

\* on_sync().
HostSync ==
    /\ HostIdle
    /\ ~c.synced
    /\ Take(TryEnsureScanning(c.want, [c EXCEPT !.synced = TRUE], gap))
    /\ UNCHANGED <<host_vars, task, timer, link, proc, mailbox, vehicle, intent>>

\* BLE_GAP_EVENT_DISC of the configured vehicle while a link is wanted.
HostAdvert ==
    /\ HostIdle
    /\ gap = "scan"
    /\ c.want /\ ~c.connecting
    /\ lock = "free"
    /\ \E s \in CancelScan([c EXCEPT !.connecting = TRUE], gap) :
         \/ /\ s.gap = "scan"
            /\ c' = [s.c EXCEPT !.connecting = FALSE]
            /\ gap' = gap /\ faults' = faults + s.cost
         \/ /\ s.gap = "idle"
            /\ gap' = "connect" /\ c' = s.c /\ UNCHANGED faults
         \/ /\ s.gap = "idle" /\ CanFail("connect")
            /\ \E o \in EnsureScanning([s.c EXCEPT !.ready = NoGen, !.connecting = FALSE],
                                       s.gap) :
                 /\ c' = o.c /\ gap' = o.gap
                 /\ faults' = faults + 1 + o.cost
                 /\ faults' <= MaxFaults
    /\ UNCHANGED <<host_vars, task, timer, link, proc, mailbox, vehicle, intent>>

\* BLE_GAP_EVENT_CONNECT with an error status.
HostConnectFails ==
    /\ HostIdle
    /\ gap = "connect"
    /\ Take(TryEnsureScanning(c.want, [c EXCEPT !.ready = NoGen, !.connecting = FALSE], "idle"))
    /\ UNCHANGED <<host_vars, task, timer, link, proc, mailbox, vehicle, intent>>

\* BLE_GAP_EVENT_CONNECT: publish the handle under an odd generation; a callback that loses
\* the mutex terminates the handle instead and publishes nothing.
HostConnected ==
    /\ HostIdle
    /\ gap = "connect"
    /\ c.gen + 4 <= MaxGen
    /\ gap' = "idle"
    /\ \/ /\ lock = "free"
          /\ lock' = "host"
          /\ c' = [c EXCEPT !.connecting = FALSE, !.gen = @ + 1, !.write = FALSE,
                            !.ready = NoGen, !.handle = TRUE, !.discon = FALSE]
          /\ link' = [NoLink EXCEPT !.st = "up", !.gen = c.gen + 2]
          /\ HostGoes("publish", 0, FALSE)
          /\ UNCHANGED faults
       \/ /\ lock # "free"
          /\ \/ link' = [NoLink EXCEPT !.st = "ending"] /\ UNCHANGED faults
             \/ link' = [NoLink EXCEPT !.st = "up"] /\ Charge("drop")
          /\ UNCHANGED <<c, lock, host>>
    /\ UNCHANGED <<task, timer, proc, mailbox, vehicle, intent>>

\* The second half: start service discovery, or doom the link of a canceled intent.
HostPublished ==
    /\ host.at = "publish"
    /\ lock' = "free"
    /\ LET b == [c EXCEPT !.gen = @ + 1]
       IN \/ /\ b.want
             /\ c' = b
             /\ proc' = proc \cup {[gen |-> b.gen, stage |-> "discover"]}
             /\ HostGoes("idle", 0, FALSE)
             /\ UNCHANGED faults
          \/ /\ b.want /\ Charge("gatt")
             /\ c' = Closed(b)
             /\ HostGoes("terminate", b.gen, FALSE)
             /\ UNCHANGED proc
          \/ /\ ~b.want
             /\ c' = [b EXCEPT !.discon = TRUE, !.ready = NoGen]
             /\ HostGoes("terminate", b.gen, FALSE)
             /\ UNCHANGED <<proc, faults>>
    /\ UNCHANGED <<task, timer, gap, link, mailbox, vehicle, intent>>

\* terminate_published_link_() at the end of a callback.
HostTerminate ==
    /\ host.at = "terminate"
    /\ HostGoes("idle", 0, FALSE)
    /\ LET b == [c EXCEPT !.term = host.gen]
       IN \/ ~Announced(host.gen) /\ UNCHANGED <<c, link, faults>>
          \/ Announced(host.gen) /\ lock # "free" /\ c' = b /\ UNCHANGED <<link, faults>>
          \/ Announced(host.gen) /\ lock = "free" /\ TerminateLocked(b, host.gen)
    /\ UNCHANGED <<lock, task, timer, gap, proc, mailbox, vehicle, intent>>

\* on_svc_disc(), on_chr_disc(), on_dsc_disc(): one discovery starts the next and the last
\* one the subscription; their gates are the same and they stand as one procedure here.
HostDiscovers(p) ==
    /\ p.stage = "discover"
    /\ link.st = "up"
    /\ proc' = (proc \ {p}) \cup {[p EXCEPT !.stage = "subscribe"]}
    /\ c' = [c EXCEPT !.write = TRUE]
    /\ UNCHANGED <<host, link, mailbox, faults>>

\* Discovery or subscription failed, or nothing usable was found.
HostGattFails(p) ==
    /\ proc' = proc \ {p}
    /\ c' = Closed(c)
    /\ HostGoes("terminate", c.gen, FALSE)
    /\ IF link.st = "up" THEN Charge("gatt") ELSE UNCHANGED faults
    /\ UNCHANGED <<link, mailbox>>

\* on_subscribe_write(): hand the link to vehicle_loop unless the attempt was canceled.
HostSubscribed(p) ==
    /\ p.stage = "subscribe"
    /\ link.st = "up"
    /\ proc' = proc \ {p}
    /\ link' = [link EXCEPT !.sub = TRUE]
    /\ IF lock = "free" /\ c.want THEN PushLink("LinkUp", c.gen) ELSE UNCHANGED mailbox
    /\ IF lock = "free" /\ c.want /\ Len(queue) < Depth
         THEN UNCHANGED <<c, host>>
         ELSE c' = Closed(c) /\ HostGoes("terminate", c.gen, FALSE)
    /\ UNCHANGED faults

\* A GATT callback: one that belongs to another generation does nothing.
HostGatt ==
    /\ HostIdle
    /\ \E p \in proc :
         \/ /\ ~SnapshotMatches(c, p.gen)
            /\ proc' = proc \ {p}
            /\ UNCHANGED <<c, host, link, mailbox, faults>>
         \/ /\ SnapshotMatches(c, p.gen)
            /\ HostDiscovers(p) \/ HostGattFails(p) \/ HostSubscribed(p)
    /\ UNCHANGED <<lock, task, timer, gap, vehicle, intent>>

\* A notification that cannot be kept closes the link.
RxClosed(b) == [b EXCEPT !.ready = NoGen, !.want = FALSE, !.discon = TRUE]

\* BLE_GAP_EVENT_NOTIFY_RX.
HostNotify ==
    /\ HostIdle
    /\ link.st = "up" /\ link.sub /\ link.rx < MaxRx
    /\ link' = [link EXCEPT !.rx = @ + 1]
    /\ \/ /\ ~SnapshotMatches(c, c.gen)
          /\ UNCHANGED <<c, host, mailbox, faults>>
       \/ /\ SnapshotMatches(c, c.gen)
          /\ \E near \in BOOLEAN :
               \/ /\ RxFits(near, c.gen)
                  /\ queue' = PushedRx(near, c.gen, link.rx + 1)
                  /\ UNCHANGED <<c, host, overflow>>
               \/ /\ ~RxFits(near, c.gen)
                  /\ overflow' = TRUE
                  /\ c' = RxClosed(c)
                  /\ HostGoes("terminate", c.gen, FALSE)
                  /\ UNCHANGED queue
          /\ UNCHANGED faults
       \/ /\ Charge("gatt")
          /\ c' = RxClosed(c)
          /\ HostGoes("terminate", c.gen, FALSE)
          /\ UNCHANGED mailbox
    /\ UNCHANGED <<lock, task, timer, gap, proc, vehicle, intent>>

\* The first half of a retirement: the mutex is tried, never waited for.
Retire(b) ==
    /\ \/ lock = "free" /\ lock' = "host" /\ c' = Retired(b)
       \/ lock # "free" /\ UNCHANGED lock /\ c' = Retired([b EXCEPT !.want = FALSE])

\* BLE_GAP_EVENT_DISCONNECT.
HostRetire ==
    /\ HostIdle
    /\ link.st = "down"
    /\ link' = NoLink
    /\ Retire(c)
    /\ HostGoes("retire", 0, lock = "free" /\ c.want)
    /\ UNCHANGED <<task, timer, gap, proc, mailbox, vehicle, intent, faults>>

\* on_reset(): the controller forgets its procedures and its link.
HostReset ==
    /\ HostIdle
    /\ c.synced
    /\ c.gen + 2 <= MaxGen
    /\ Charge("reset")
    /\ link' = NoLink /\ gap' = "idle"
    /\ Retire([c EXCEPT !.synced = FALSE])
    /\ HostGoes("retire", 0, FALSE)
    /\ UNCHANGED <<task, timer, proc, mailbox, vehicle, intent>>

\* The second half of a retirement: the disconnected snapshot is stable.
HostRetired ==
    /\ host.at = "retire"
    /\ c' = [c EXCEPT !.discon = FALSE, !.gen = @ + 1]
    /\ lock' = IF lock = "host" THEN "free" ELSE lock
    /\ HostGoes("linkDown", 0, host.again)
    /\ UNCHANGED <<task, timer, radio, mailbox, vehicle, intent, faults>>

\* Its end: LinkDown for vehicle_loop, and the scan of a fresh intent.
HostLinkDown ==
    /\ host.at = "linkDown"
    /\ PushLink("LinkDown", c.gen)
    /\ Take(TryEnsureScanning(host.again, c, gap))
    /\ HostGoes("idle", 0, FALSE)
    /\ UNCHANGED <<lock, task, timer, link, proc, vehicle, intent>>

\* The controller ends a link it was told to end, or loses one.
LinkEnds ==
    /\ link.st = "ending"
    /\ link' = [link EXCEPT !.st = "down"]
    /\ UNCHANGED <<c, host_vars, task, timer, gap, proc, mailbox, vehicle, intent, faults>>

LinkDrops ==
    /\ link.st = "up"
    /\ link' = [link EXCEPT !.st = "down"]
    /\ UNCHANGED <<c, host_vars, task, timer, gap, proc, mailbox, vehicle, intent, faults>>

HostContinues == HostPublished \/ HostTerminate \/ HostRetired \/ HostLinkDown

HostStep ==
    \/ HostContinues \/ HostSync \/ HostAdvert \/ HostConnectFails \/ HostConnected
    \/ HostGatt \/ HostNotify \/ HostRetire \/ HostReset \/ LinkEnds \/ LinkDrops

----------------------------------------------------------------------------
(* vehicle_loop                                                            *)

\* A slip: the pending termination is taken and not issued again.
ServiceForgets ==
    /\ At("loop", "service")
    /\ c' = [c EXCEPT !.term = NoGen]
    /\ Go("loop", "scanPending")
    /\ UNCHANGED <<host_vars, timer, radio, mailbox, vehicle, intent, faults>>

\* service_pending(): a termination that could not be issued.
LoopService ==
    /\ At("loop", "service")
    /\ IF c.term # NoGen
         THEN /\ task' = [task EXCEPT !["loop"].at = "terminate", !["loop"].gen = c.term,
                                      !["loop"].back = "scanPending"]
              /\ c' = [c EXCEPT !.term = NoGen]
         ELSE Go("loop", "scanPending") /\ UNCHANGED c
    /\ UNCHANGED <<host_vars, timer, radio, mailbox, vehicle, intent, faults>>

\* service_pending(): a scan that a callback could not start.
LoopScan ==
    /\ At("loop", "scanPending")
    /\ Take(TryEnsureScanning(c.scanPend /\ c.want, [c EXCEPT !.scanPend = FALSE], gap))
    /\ Go("loop", "repair")
    /\ UNCHANGED <<host_vars, timer, link, proc, mailbox, vehicle, intent>>

\* service_pending(): a disconnecting flag without a link.
LoopRepair ==
    /\ At("loop", "repair")
    /\ Take(IF c.discon /\ lock = "free" /\ ~Odd(c.gen) /\ ~c.handle
              THEN EnsureScanning([c EXCEPT !.discon = FALSE], gap)
              ELSE {Outcome(c, gap, 0)})
    /\ Go("loop", "events")
    /\ UNCHANGED <<host_vars, timer, link, proc, mailbox, vehicle, intent>>

\* process_ble_host_events_(): an overflow is taken before any event.
LoopEvents ==
    /\ At("loop", "events")
    /\ overflow' = FALSE
    /\ Go("loop", IF overflow THEN "clear" ELSE "pop")
    /\ UNCHANGED <<c, host_vars, timer, radio, queue, vehicle, intent, faults>>

\* apply_ble_link_state_(false): framer, sessions and request slots start over.
LinkStateDown == framer' = << >> /\ app' = NoGen /\ peers' = NoGen

Back(t, at, back) == task' = [task EXCEPT ![t] = [Resting(at) EXCEPT !.back = back]]

\* Everything queued is dropped and the link is torn down.
LoopClear ==
    /\ At("loop", "clear")
    /\ queue' = << >>
    /\ LinkStateDown
    /\ Back("loop", "disconnect", "drive")
    /\ UNCHANGED <<c, host_vars, timer, radio, overflow, ev, fault, intent, faults>>

LoopDisconnect == Disconnect("loop", "disconnect", task["loop"].back)

\* A slip: a LinkDown of an earlier generation is dropped like the other events.
MayApplyCurrent(kind, g) == ~Odd(g) /\ g = c.gen

\* ble_deferred_event_may_apply(): LinkDown is a barrier, the others belong to one generation.
MayApply(kind, g) == kind = "LinkDown" \/ (~Odd(g) /\ g = c.gen)

LoopPop ==
    /\ At("loop", "pop")
    /\ queue # << >>
    /\ queue' = Popped
    /\ IF MayApply(Head(queue).kind, Head(queue).gen)
         THEN /\ ev' = [kind |-> Head(queue).kind, gen |-> Head(queue).gen,
                        i |-> Head(queue).at]
              /\ Go("loop", "apply")
         ELSE UNCHANGED <<ev, task>>
    /\ UNCHANGED <<c, host_vars, timer, radio, overflow, app, peers, framer, fault, intent,
                   faults>>

\* The queue is empty; stale bytes of the framer may have timed out.
LoopDrained ==
    /\ At("loop", "pop")
    /\ queue = << >>
    /\ framer' \in {framer, << >>}
    /\ Go("loop", "drive")
    /\ UNCHANGED <<c, host_vars, timer, radio, mailbox, ev, app, peers, fault, intent, faults>>

\* LinkDown; failing the commands of the link may throw, after the sessions are reset.
LoopApplyDown ==
    /\ At("loop", "apply") /\ ev.kind = "LinkDown"
    /\ LinkStateDown
    /\ ev' = NoEvent
    /\ Go("loop", "pop")
    /\ \/ UNCHANGED <<fault, faults>>
       \/ fault' = TRUE /\ Charge("task")
    /\ UNCHANGED <<c, host_vars, timer, radio, mailbox, intent>>

\* LinkUp: the framer starts over; sessions were reset by the LinkDown before.
LoopApplyUp ==
    /\ At("loop", "apply") /\ ev.kind = "LinkUp"
    /\ framer' = << >>
    /\ app' = ev.gen
    /\ Go("loop", "complete")
    /\ UNCHANGED <<c, host_vars, timer, radio, mailbox, ev, peers, fault, intent, faults>>

\* Rx: bytes join the framer; a finished frame or a timeout empties it, a frame whose
\* processing throws ends the drain.
LoopApplyRx ==
    /\ At("loop", "apply") /\ ev.kind = "Rx"
    /\ \/ /\ framer' \in {Append(framer, [gen |-> ev.gen, i |-> ev.i]), << >>}
          /\ Go("loop", IF fault THEN "drive" ELSE "pop")
          /\ UNCHANGED <<fault, faults>>
       \/ /\ framer' = << >> /\ fault' = TRUE /\ Charge("task")
          /\ Go("loop", "drive")
    /\ ev' = NoEvent
    /\ UNCHANGED <<c, host_vars, timer, radio, mailbox, app, peers, intent>>

\* complete_ready(): the link must still be the one of the event, and wanted.
LoopComplete ==
    /\ At("loop", "complete")
    /\ IF lock = "free" /\ c.want /\ SnapshotMatches(c, ev.gen)
         THEN lock' = "loop" /\ Go("loop", "publish")
         ELSE UNCHANGED lock /\ Go("loop", "unwind")
    /\ UNCHANGED <<c, host, timer, radio, mailbox, vehicle, intent, faults>>

LoopPublish ==
    /\ At("loop", "publish")
    /\ c' = [c EXCEPT !.ready = ev.gen]
    /\ Go("loop", "recheck")
    /\ UNCHANGED <<host_vars, timer, radio, mailbox, vehicle, intent, faults>>

\* The host may have retired the link without the mutex meanwhile.
LoopRecheck ==
    /\ At("loop", "recheck")
    /\ lock' = "free"
    /\ IF SnapshotMatches(c, ev.gen)
         THEN /\ c' = [c EXCEPT !.connecting = FALSE, !.want = FALSE]
              /\ ev' = NoEvent
              /\ Go("loop", "pop")
         ELSE c' = [c EXCEPT !.ready = NoGen] /\ UNCHANGED ev /\ Go("loop", "unwind")
    /\ UNCHANGED <<host, timer, radio, mailbox, app, peers, framer, fault, intent, faults>>

\* The link was canceled or replaced: undo the LinkUp and disconnect.
LoopUnwind ==
    /\ At("loop", "unwind")
    /\ LinkStateDown
    /\ ev' = NoEvent
    /\ Back("loop", "disconnect", "pop")
    /\ UNCHANGED <<c, host_vars, timer, radio, mailbox, fault, intent, faults>>

\* ble_fault_: drop a ready link and start the next round.
LoopFault ==
    /\ At("loop", "drive")
    /\ fault
    /\ fault' = FALSE
    /\ IF IsConnected(c) THEN Back("loop", "disconnect", "service") ELSE Go("loop", "service")
    /\ UNCHANGED <<c, host_vars, timer, radio, mailbox, ev, app, peers, framer, intent, faults>>

\* drive_command_runner_(): sessions and request slots on a ready link.
LoopDrive ==
    /\ At("loop", "drive")
    /\ ~fault
    /\ peers' \in IF IsConnected(c) THEN {peers, c.gen} ELSE {peers}
    /\ \E at \in {"tail", "service"} : Go("loop", at)
    /\ UNCHANGED <<c, host_vars, timer, radio, mailbox, ev, app, framer, fault, intent, faults>>

\* A round may end with a warm-up connect, or with an idle drop of the link.
LoopWarmUp == ~IsConnected(c) /\ Connect("loop", "tail", "service")

LoopIdleDrop == IsConnected(c) /\ Disconnect("loop", "tail", "service")

LoopStep ==
    \/ LoopService \/ LoopScan \/ LoopRepair \/ LoopEvents \/ LoopClear \/ LoopDisconnect
    \/ LoopPop \/ LoopDrained \/ LoopApplyDown \/ LoopApplyUp \/ LoopApplyRx
    \/ LoopComplete \/ LoopPublish \/ LoopRecheck \/ LoopUnwind
    \/ LoopFault \/ LoopDrive \/ LoopWarmUp \/ LoopIdleDrop

----------------------------------------------------------------------------

Next ==
    \/ HostStep \/ CmdStep \/ LoopStep \/ ScanTimeout
    \/ \E t \in Tasks : TaskStep(t)

Spec == Init /\ [][Next]_vars

\* The tasks run, and a mutex that is always given back is eventually got: FreeRTOS wakes the
\* waiter of highest priority.  Of the zero-wait attempts of vehicle_loop, one a round, not
\* all meet a critical section of another thread, which lasts microseconds.  The controller
\* ends links and connection attempts, and the host delivers its events.
Fairness ==
    /\ SF_vars(LoopStep \/ TaskStep("loop"))
    /\ SF_vars(CmdStop \/ TaskStep("cmd")) /\ WF_vars(CmdLinked \/ CmdDeadline)
    /\ []<><<TerminateGivesUp("loop")>>_vars => []<><<Terminate("loop")>>_vars
    /\ []<><<LoopScan /\ c.scanPend /\ lock # "free">>_vars
         => []<><<LoopScan /\ c.scanPend /\ lock = "free">>_vars
    /\ WF_vars(HostContinues) /\ WF_vars(HostSync) /\ WF_vars(HostRetire) /\ WF_vars(LinkEnds)
    /\ WF_vars(HostConnected \/ HostConnectFails)

FairSpec == Spec /\ Fairness

----------------------------------------------------------------------------
(* Safety                                                                  *)

\* When vehicle_loop drives the command runner over a ready link, it has applied the LinkUp
\* of exactly that link, and no session or request slot of an earlier link is left over
\* (process_ble_host_events_(), complete_ready()); an overflow not yet taken is the one
\* exception, and tears the link down in the next round.
ReadyLinkIsFresh ==
    At("loop", "drive") /\ ~fault /\ ~overflow /\ IsConnected(c)
        => app = c.gen /\ peers \in {NoGen, c.gen}

\* The RX framer only ever holds consecutive notifications of one link: none of an old link,
\* and none after one that the queue could not keep (BleDeferredQueue, on_gap_event()).
FramerIsContiguous ==
    \A k \in 1..(Len(framer) - 1) :
        framer[k + 1] = [gen |-> framer[k].gen, i |-> framer[k].i + 1]

\* A link is ready for commands only while the request it was made for stands: after
\* stop_connecting() or disconnect() no late callback makes a link ready again.
ReadyLinkIsWanted == IsConnected(c) => intent

\* What a ready link promises to whoever sends over it (process_ble_host_events_(),
\* stop_connecting()): nothing of an earlier link is left, and the request that wanted it
\* stands.
ReadyLinkIsSound == ReadyLinkIsFresh /\ ReadyLinkIsWanted

\* A termination ends the link it was requested for, never the link of a newer command
\* (terminate_published_link_()).
TerminatesItsOwnLink ==
    [][link.st = "up" /\ link'.st = "ending" =>
         \/ host.at = "terminate" /\ host.gen = link.gen
         \/ \E t \in Tasks : At(t, "tLock") /\ task[t].gen = link.gen /\ lock' = t]_vars

\* scanning_ says whether the controller scans: a failed cancel is not an idle radio, and a
\* scan that is already running is not a failed start (scan_running_after_cancel()).
ScanStateIsTrue == c.scanning <=> gap = "scan"

----------------------------------------------------------------------------
(* Liveness                                                                *)

\* No link stays in retirement: a termination that failed, or lost the mutex, is issued
\* again until the link is gone (service_pending()).
DisconnectEnds == c.discon ~> ~c.discon

\* Every connection attempt ends, so that the next one can start (connecting_).
ConnectingEnds == c.connecting ~> ~c.connecting

\* What the client believes of the host under every host fault: the queue
\* stays within its cells and overflows instead of losing a barrier, and
\* `scanning_' is what the host does.
LinkStateIsTrue == TypeOK /\ ScanStateIsTrue

\* Neither a retirement nor an attempt stays open under failing host calls
\* (ble_client.cpp:774): the next command can have a link.
LinkWorkEnds == DisconnectEnds /\ ConnectingEnds

=============================================================================
