-------------------------------- MODULE Mqtt --------------------------------
(***************************************************************************)
(* The Home Assistant bridge of mqtt_ha.cpp: the event handler that the    *)
(* MQTT client calls, the publisher task that owns every publish, and what *)
(* the broker retains.  A publish that succeeds has only been accepted by  *)
(* the client's outbox; the outbox delivers in order while the connection  *)
(* lasts and may lose its oldest messages while it does not.  The three    *)
(* atomics s_connected, s_need_discovery and s_reset_domain_state are the  *)
(* whole protocol between the two tasks, and each access to one of them is *)
(* a step of its own.                                                      *)
(*                                                                         *)
(* A payload is the reading it carries; the rows of the discovery registry *)
(* are numbers; a builder, a printer and the client that refuses a message *)
(* are one kind of failure, since the code treats them alike.              *)
(***************************************************************************)
EXTENDS Naturals, Sequences

CONSTANTS
    Rows,          \* number of discovery entries
    Gated,         \* number of state domains that have a cache
    Readings,      \* what a valid cache can hold
    OutboxSize,    \* messages the client's heap has room for
    MaxDrops,      \* bound: connections lost
    MaxRejections,   \* bound: publishes refused with room in the outbox
    MaxCaches      \* bound: changes of the caches

ASSUME MqttAssumption ==
    /\ Rows \in Nat \ {0} /\ Gated \in Nat \ {0}
    /\ OutboxSize \in Nat /\ OutboxSize >= Rows + Gated + 2  \* one round
    /\ MaxDrops \in Nat /\ MaxRejections \in Nat /\ MaxCaches \in Nat

VARIABLES
    bridge,      \* off, client, running, failed: how far mqtt_ha_start() is
    broker,      \* what is retained: config rows, availability, state topics
    mqUp,        \* the client has a connection
    event,       \* stores the CONNECTED handler still has to do
    s_connected, s_need_discovery, s_reset_domain_state,
    s_domain_state,
    cache,       \* what the vehicle controller holds for each domain
    outbox,
    pub,         \* the publisher task: where it is and what it has in hand
    stateDue,    \* the publish interval has passed
    expiredRows, \* rows the outbox lost since they were last delivered
    mqBudget

shared == <<s_connected, s_need_discovery, s_reset_domain_state>>
mqttVars == <<bridge, broker, mqUp, event, shared, s_domain_state, cache,
              outbox, pub, stateDue, expiredRows, mqBudget>>

Domains == 1 .. Gated + 1      \* the last one is Device, which has no cache
Device == Gated + 1
Invalid == "invalid"
Empty == "empty"
Old == "old"
DomainPublishState == {"Unknown", "Published", "Cleared"}

Row(r) == [topic |-> "row", of |-> r, value |-> "config"]
Online == [topic |-> "avail", of |-> 0, value |-> "online"]
State(d, v) == [topic |-> "state", of |-> d, value |-> v]
Messages == {Row(r) : r \in 1 .. Rows} \cup {Online}
            \cup {State(d, v) : d \in Domains, v \in Readings \cup {Empty}}

IdlePub == [at |-> "idle", n |-> 0, plan |-> "none", value |-> Empty]

-----------------------------------------------------------------------------
\* Retained-state lifecycle

domain_after_reconnect(previous) ==
    IF previous = "Published" THEN previous ELSE "Unknown"

\* A valid cache is always published, an invalid one is cleared once.
decide_domain_publish(valid, previous) ==
    CASE valid -> [action |-> "Publish", next |-> "Published"]
      [] ~valid /\ previous = "Cleared" ->
            [action |-> "Skip", next |-> "Cleared"]
      [] OTHER -> [action |-> "PublishClear", next |-> "Cleared"]

-----------------------------------------------------------------------------
\* The client library and the broker

Retain(m) ==
    CASE m.topic = "row"   -> [broker EXCEPT !.rows = @ \cup {m.of}]
      [] m.topic = "avail" -> [broker EXCEPT !.avail = m.value]
      [] m.topic = "state" -> [broker EXCEPT !.state[m.of] = m.value]

Deliver ==
    /\ mqUp /\ outbox # <<>>
    /\ broker' = Retain(Head(outbox))
    /\ outbox' = Tail(outbox)
    /\ expiredRows' = IF Head(outbox).topic = "row"
                        THEN expiredRows \ {Head(outbox).of} ELSE expiredRows
    /\ UNCHANGED <<bridge, mqUp, event, shared, s_domain_state, cache, pub,
                   stateDue, mqBudget>>

\* The oldest message of a client without a connection expires.
OutboxExpires ==
    /\ ~mqUp /\ outbox # <<>>
    /\ outbox' = Tail(outbox)
    /\ expiredRows' = IF Head(outbox).topic = "row"
                        THEN expiredRows \cup {Head(outbox).of}
                        ELSE expiredRows
    /\ UNCHANGED <<bridge, broker, mqUp, event, shared, s_domain_state,
                   cache, pub, stateDue, mqBudget>>

\* MQTT_EVENT_CONNECTED stores s_connected first and the two requests of the
\* publisher after it; the publisher may run between any two of the stores.
Connected ==
    /\ bridge \in {"client", "running"} /\ ~mqUp /\ event = "none"
    /\ mqUp' = TRUE
    /\ s_connected' = TRUE
    /\ event' = "need"
    /\ UNCHANGED <<bridge, broker, s_need_discovery, s_reset_domain_state,
                   s_domain_state, cache, outbox, pub, stateDue, expiredRows,
                   mqBudget>>

HandlerStores ==
    \/ /\ event = "need"
       /\ s_need_discovery' = TRUE
       /\ event' = "reset"
       /\ UNCHANGED s_reset_domain_state
    \/ /\ event = "reset"
       /\ s_reset_domain_state' = TRUE
       /\ event' = "none"
       /\ UNCHANGED s_need_discovery
HandlerFinishes ==
    /\ HandlerStores
    /\ UNCHANGED <<bridge, broker, mqUp, s_connected, s_domain_state, cache,
                   outbox, pub, stateDue, expiredRows, mqBudget>>

\* The broker publishes the last will; the client dispatches DISCONNECTED.
Disconnected ==
    /\ mqUp /\ event = "none" /\ mqBudget.drops > 0
    /\ mqBudget' = [mqBudget EXCEPT !.drops = @ - 1]
    /\ mqUp' = FALSE
    /\ s_connected' = FALSE
    /\ broker' = [broker EXCEPT !.avail = "offline"]
    /\ UNCHANGED <<bridge, event, s_need_discovery, s_reset_domain_state,
                   s_domain_state, cache, outbox, pub, stateDue, expiredRows>>

-----------------------------------------------------------------------------
\* mqtt_ha_start: the client runs, and may connect, before the task exists

StartClient ==
    /\ bridge = "off"
    /\ bridge' \in {"client", "failed"}
    /\ UNCHANGED <<broker, mqUp, event, shared, s_domain_state, cache, outbox,
                   pub, stateDue, expiredRows, mqBudget>>

StartPublisher ==
    /\ bridge = "client"
    /\ bridge' = "running"
    /\ UNCHANGED <<broker, mqUp, event, shared, s_domain_state, cache, outbox,
                   pub, stateDue, expiredRows, mqBudget>>

\* mqtt_ha_cleanup_start_failure() stops the client first, which waits for
\* the handler that runs.
StartFails ==
    /\ bridge = "client" /\ event = "none"
    /\ bridge' = "failed"
    /\ mqUp' = FALSE
    /\ s_connected' = FALSE
    /\ s_need_discovery' = FALSE
    /\ UNCHANGED <<broker, event, s_reset_domain_state, s_domain_state, cache,
                   outbox, pub, stateDue, expiredRows, mqBudget>>

-----------------------------------------------------------------------------
\* The publisher task

PublisherIdle == bridge = "running" /\ pub.at = "idle"

\* The head of an iteration: connected, and the exchange of the reset flag.
PublisherWakes ==
    /\ PublisherIdle /\ s_connected
    /\ s_reset_domain_state' = FALSE
    /\ s_domain_state' = IF s_reset_domain_state
         THEN [d \in Domains |-> domain_after_reconnect(s_domain_state[d])]
         ELSE s_domain_state
    /\ pub' = [pub EXCEPT !.at = "choose"]
    /\ UNCHANGED <<bridge, broker, mqUp, event, s_connected,
                   s_need_discovery, cache, outbox, stateDue, expiredRows,
                   mqBudget>>

StartRound ==
    pub' = CASE s_need_discovery -> [pub EXCEPT !.at = "row", !.n = 1]
             [] ~s_need_discovery /\ stateDue ->
                   [pub EXCEPT !.at = "plan", !.n = 1]
             [] OTHER -> IdlePub

\* The request is taken before the round, so that one made during the round
\* is seen by the next iteration.
PublisherChooses ==
    /\ pub.at = "choose"
    /\ StartRound
    /\ s_need_discovery' = FALSE
    /\ UNCHANGED <<bridge, broker, mqUp, event, s_connected,
                   s_reset_domain_state, s_domain_state, cache, outbox,
                   stateDue, expiredRows, mqBudget>>

Accepts(m) == Len(outbox) < OutboxSize /\ outbox' = Append(outbox, m)

\* A builder, a print or an enqueue fails, or the round throws: the rest of
\* the round is skipped, discovery is armed again, and the task sleeps 5 s.
Rearm ==
    /\ pub' = [IdlePub EXCEPT !.at = "pause"]
    /\ s_need_discovery' = TRUE

\* Five seconds are enough for a live connection to drain the outbox.
PauseEnds ==
    /\ pub.at = "pause" /\ (mqUp => outbox = <<>>)
    /\ pub' = IdlePub
    /\ UNCHANGED <<bridge, broker, mqUp, event, shared, s_domain_state, cache,
                   outbox, stateDue, expiredRows, mqBudget>>

Refused ==
    /\ UNCHANGED outbox
    /\ \/ Len(outbox) >= OutboxSize /\ UNCHANGED mqBudget
       \/ /\ mqBudget.refusals > 0
          /\ mqBudget' = [mqBudget EXCEPT !.refusals = @ - 1]

\* publish_discovery_rows: one row.
AfterRow ==
    IF pub.n < Rows THEN [pub EXCEPT !.n = @ + 1]
                    ELSE [pub EXCEPT !.at = "online", !.n = 0]

\* A bug: a row that is refused does not stop the round.
PublishRowAnyway ==
    /\ pub.at = "row"
    /\ pub' = AfterRow
    /\ \/ Accepts(Row(pub.n)) /\ UNCHANGED <<mqBudget, s_need_discovery>>
       \/ Refused /\ s_need_discovery' = TRUE
    /\ UNCHANGED <<bridge, broker, mqUp, event, s_connected, cache,
                   s_reset_domain_state, s_domain_state, stateDue,
                   expiredRows>>

PublishRow ==
    /\ pub.at = "row"
    /\ \/ /\ Accepts(Row(pub.n))
          /\ pub' = AfterRow
          /\ UNCHANGED <<mqBudget, s_need_discovery>>
       \/ Refused /\ Rearm
    /\ UNCHANGED <<bridge, broker, mqUp, event, s_connected, cache,
                   s_reset_domain_state, s_domain_state, stateDue,
                   expiredRows>>

PublishOnline ==
    /\ pub.at = "online"
    /\ \/ /\ Accepts(Online)
          /\ pub' = [pub EXCEPT !.at = "plan", !.n = 1]
          /\ UNCHANGED <<mqBudget, s_need_discovery>>
       \/ Refused /\ Rearm
    /\ UNCHANGED <<bridge, broker, mqUp, event, s_connected, cache,
                   s_reset_domain_state, s_domain_state, stateDue,
                   expiredRows>>

\* publish_state: the cache of a domain is copied and its step planned.
PlanDomain ==
    /\ pub.at = "plan" /\ pub.n \in Domains
    /\ LET valid == cache[pub.n] # Invalid
           step == decide_domain_publish(valid, s_domain_state[pub.n])
       IN pub' = [pub EXCEPT !.at = "send", !.plan = step.action,
                    !.value = IF valid THEN cache[pub.n] ELSE Empty]
    /\ UNCHANGED <<bridge, broker, mqUp, event, shared, s_domain_state, cache,
                   outbox, stateDue, expiredRows, mqBudget>>

commit_domain(d, valid) ==
    s_domain_state' =
        IF d = Device THEN s_domain_state
        ELSE [s_domain_state EXCEPT
                ![d] = decide_domain_publish(valid, @).next]

NextDomain == [pub EXCEPT !.at = "plan", !.n = @ + 1, !.plan = "none",
                          !.value = Empty]

\* The planned state is adopted once the message was accepted, or skipped.
SendDomain ==
    /\ pub.at = "send"
    /\ \/ /\ \/ pub.plan # "Skip" /\ Accepts(State(pub.n, pub.value))
             \/ pub.plan = "Skip" /\ UNCHANGED outbox
          /\ commit_domain(pub.n, pub.plan = "Publish")
          /\ pub' = NextDomain
          /\ UNCHANGED <<mqBudget, s_need_discovery>>
       \/ /\ pub.plan # "Skip" /\ Refused /\ Rearm
          /\ UNCHANGED s_domain_state
    /\ UNCHANGED <<bridge, broker, mqUp, event, s_connected, cache,
                   s_reset_domain_state, stateDue, expiredRows>>

\* A bug: the request is withdrawn again when the round has succeeded.
RoundWithdraws ==
    /\ pub.at = "plan" /\ pub.n \notin Domains
    /\ pub' = IdlePub
    /\ stateDue' = FALSE
    /\ s_need_discovery' = FALSE
    /\ UNCHANGED <<bridge, broker, mqUp, event, s_connected, cache,
                   s_reset_domain_state, s_domain_state, outbox, expiredRows,
                   mqBudget>>

RoundSucceeds ==
    /\ pub.at = "plan" /\ pub.n \notin Domains
    /\ pub' = IdlePub
    /\ stateDue' = FALSE
    /\ UNCHANGED <<bridge, broker, mqUp, event, shared, s_domain_state, cache,
                   outbox, expiredRows, mqBudget>>

Publisher == PublisherWakes \/ PublisherChooses \/ PublishRow \/ PublishOnline
             \/ PlanDomain \/ SendDomain \/ RoundSucceeds \/ PauseEnds

-----------------------------------------------------------------------------
\* The environment

IntervalPasses ==
    /\ bridge = "running" /\ ~stateDue
    /\ stateDue' = TRUE
    /\ UNCHANGED <<bridge, broker, mqUp, event, shared, s_domain_state, cache,
                   outbox, pub, expiredRows, mqBudget>>

\* Telemetry arrives, or pairing resets the cache; Device is always built.
CacheChanges ==
    \E d \in Domains, v \in Readings \cup {Invalid} :
        /\ v # cache[d] /\ (d = Device => v # Invalid)
        /\ mqBudget.caches > 0
        /\ mqBudget' = [mqBudget EXCEPT !.caches = @ - 1]
        /\ cache' = [cache EXCEPT ![d] = v]
        /\ UNCHANGED <<bridge, broker, mqUp, event, shared, s_domain_state,
                       outbox, pub, stateDue, expiredRows>>

\* The broker retains readings of an earlier boot and has none of the configs
\* of this firmware; the last will has marked the bridge offline.
MqttInit ==
    /\ bridge = "off" /\ mqUp = FALSE /\ event = "none"
    /\ broker = [rows |-> {}, avail |-> "offline",
                  state |-> [d \in Domains |-> Old]]
    /\ s_connected = FALSE /\ s_need_discovery = FALSE
    /\ s_reset_domain_state = FALSE
    /\ s_domain_state = [d \in Domains |-> "Unknown"]
    /\ cache \in [Domains -> Readings \cup {Invalid}]
    /\ cache[Device] # Invalid
    /\ outbox = <<>>
    /\ pub = IdlePub
    /\ stateDue = TRUE
    /\ expiredRows = {}
    /\ mqBudget \in [drops : 0 .. MaxDrops, refusals : 0 .. MaxRejections,
                     caches : 0 .. MaxCaches]

Client == Deliver \/ Connected \/ HandlerFinishes

MqttNext ==
    \/ StartClient \/ StartPublisher \/ StartFails
    \/ Client \/ Disconnected \/ OutboxExpires
    \/ Publisher
    \/ IntervalPasses \/ CacheChanges

MqttSpec == MqttInit /\ [][MqttNext]_mqttVars

\* mqtt_pub has a time slice and a bounded delay in each loop, the client
\* reconnects by itself and sends what it holds, the tick count advances.
MqttFairness ==
    /\ WF_mqttVars(StartPublisher) /\ WF_mqttVars(Publisher)
    /\ WF_mqttVars(Deliver) /\ WF_mqttVars(Connected)
    /\ WF_mqttVars(HandlerFinishes) /\ WF_mqttVars(IntervalPasses)

-----------------------------------------------------------------------------
BrokerType == [rows : SUBSET (1 .. Rows), avail : {"online", "offline"},
               state : [Domains -> Readings \cup {Empty, Old}]]
PubType == [at : {"idle", "pause", "choose", "row", "online", "plan", "send"},
            n : 0 .. Rows + Gated + 2,
            plan : {"none", "Publish", "PublishClear", "Skip"},
            value : Readings \cup {Empty}]
BudgetType == [drops : 0 .. MaxDrops, refusals : 0 .. MaxRejections,
               caches : 0 .. MaxCaches]

(* The type of every variable; the publisher's plan is one of the actions   *)
(* that decide_domain_publish() can return, and there is a publisher only   *)
(* in a bridge that runs.                                                   *)
MqttTypeOK ==
    /\ bridge \in {"off", "client", "running", "failed"}
    /\ broker \in BrokerType
    /\ mqUp \in BOOLEAN /\ event \in {"none", "need", "reset"}
    /\ s_connected \in BOOLEAN /\ s_need_discovery \in BOOLEAN
    /\ s_reset_domain_state \in BOOLEAN /\ stateDue \in BOOLEAN
    /\ s_domain_state \in [Domains -> DomainPublishState]
    /\ cache \in [Domains -> Readings \cup {Invalid}]
    /\ outbox \in Seq(Messages) /\ Len(outbox) <= OutboxSize
    /\ pub \in PubType
    /\ expiredRows \subseteq 1 .. Rows
    /\ mqBudget \in BudgetType
    /\ pub.at # "idle" => bridge = "running"

Sent(i) == {outbox[j].of : j \in {k \in 1 .. i - 1 : outbox[k].topic = "row"}}

(* mqtt_run_discovery_round() reports "online" only after every discovery   *)
(* config was accepted: wherever an online message is, in the outbox or     *)
(* retained by the broker, every config precedes it, unless the client      *)
(* itself let that config expire.                                           *)
OnlineFollowsEveryRow ==
    /\ \A i \in DOMAIN outbox : outbox[i] = Online =>
          1 .. Rows \subseteq broker.rows \cup Sent(i) \cup expiredRows
    /\ broker.avail = "online" =>
          1 .. Rows \subseteq broker.rows \cup expiredRows

\* The state messages of a domain in the outbox, and whether the empty object
\* is what the broker holds for it once the outbox is delivered.
Writes(d) == {i \in DOMAIN outbox : outbox[i].topic = "state" /\ outbox[i].of = d}
EndsEmpty(d) ==
    /\ Writes(d) = {} => broker.state[d] = Empty
    /\ \A i \in Writes(d) : outbox[i].value = Empty \/ \E j \in Writes(d) : j > i

(* decide_domain_publish() skips an invalid domain that is Cleared.  That   *)
(* is sound only while the empty object is, or will be, what the broker     *)
(* retains: a connection lost with the clear still in the outbox must take  *)
(* the state back to Unknown before the next skip.                          *)
ClearedIsEmpty ==
    \A d \in Domains :
        s_domain_state[d] = "Cleared" /\ mqUp /\ event = "none"
                                      /\ ~s_reset_domain_state
            => EndsEmpty(d)

Settled ==
    /\ broker.avail = "online" /\ broker.rows = 1 .. Rows
    /\ \A d \in Domains : broker.state[d] =
          IF cache[d] = Invalid THEN Empty ELSE cache[d]

(* Once connections hold and messages are accepted, a bridge that started   *)
(* leaves the broker with every config, "online", and for each domain the   *)
(* reading of its cache or the empty object: nothing that was lost, refused *)
(* or overtaken by a reconnect in the middle of a round stays that way.     *)
BrokerSettles == <>[](bridge = "running" => Settled)

\* What the broker retains (mqtt_ha.cpp:553, mqtt_state_lifecycle.hpp:37):
\* `online' only behind every discovery row, retained of this connection or of
\* an earlier one, and a domain marked cleared has nothing retained.
BrokerSafe == MqttTypeOK /\ OnlineFollowsEveryRow /\ ClearedIsEmpty

=============================================================================
