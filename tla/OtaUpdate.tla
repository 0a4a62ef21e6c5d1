----------------------------- MODULE OtaUpdate -----------------------------
(***************************************************************************)
(* The update service above OtaTransfer: the operation gate that lets one  *)
(* irreversible activity run at a time, the update channel, the offer a    *)
(* check publishes and an install must name, the deferred check of the web *)
(* interface, the coordinator task as far as status and lease go, and the  *)
(* images the bootloader picks: probation, confirmation and rollback       *)
(* (ota_update.cpp, health_gate.hpp, ota_contract.hpp, http_ota.cpp and    *)
(* ota_health_gate_task of main.cpp).                                      *)
(*                                                                         *)
(* An exchange with the update server is one step here; OtaTransfer shows  *)
(* how the lease behaves inside it.                                        *)
(***************************************************************************)
EXTENDS Integers, FiniteSets

CONSTANTS Images,      \* firmware images; the factory image is 0
          MaxSerial,   \* offer generations of one boot before exhaustion
          MaxRevision, \* channel revisions of one boot before exhaustion
          MaxBoots,
          ArmingBoots, \* bound: the boots that arm an identity journal
          MaxNews      \* bound: how far the two channels advance together

ASSUME ImagesAssumption == Images \subseteq Nat \ {0} /\ Images # {}
ASSUME BoundsAssumption ==
    /\ {MaxSerial, MaxRevision, MaxBoots, MaxNews} \subseteq Nat \ {0}
    /\ ArmingBoots \subseteq 1..MaxBoots

VARIABLES
    gate,      \* OtaIdentityOperationGate
    channel,   \* s_ota_channel: channel, revision and the exhausted bit
    serial,    \* s_offer_serial
    status,    \* s_status
    notes,     \* the image the stored changelog describes, or None
    updating,  \* s_updating
    op,        \* the published OtaOperation and its coordinator, or NoOp
    ticket,    \* s_deferred_check: the reserved check of the web handler
    work,      \* callbacks queued to the HTTP server task
    feed,      \* what the update server announces on each channel
    running,   \* the image that runs
    previous,  \* the image a rollback returns to
    pending,   \* the running image is on probation (ESP_OTA_IMG_PENDING_VERIFY)
    selected,  \* the image the boot selector names for the next boot, or None
    journal,   \* the boot that armed the open identity journal, 0 without one
    boot,      \* boots so far; stands for the random boot nonce
    sealed,    \* the gate belongs to a restart that will happen
    seen,      \* the offer a client remembers: identity and image
    started,   \* offers of this boot that started an install
    announced  \* images announced on the configured channel since it was set

gateVars == <<gate, updating, sealed>>
offerVars == <<channel, serial, status, notes>>
imageVars == <<running, previous, pending, selected, journal, boot>>
ghostVars == <<seen, started, announced>>
vars == <<gate, channel, serial, status, notes, updating, op, ticket, work, feed,
          running, previous, pending, selected, journal, boot, sealed, seen, started,
          announced>>

Channels == {"Release", "Dev"}
Owners == {"Idle", "Ota", "IdentityMutation", "FaultRestart", "HealthCommit",
           "ConfigRestart"}
None == -1
AnyImage == Images \cup {0}
MaybeImage == AnyImage \cup {None}
OfferId == [boot : 1..MaxBoots, gen : 1..MaxSerial]
NoOffer == [boot |-> 0, gen |-> 0]
States == {"Idle", "Checking", "Downloading", "Done", "Error"}
Words == [channel : Channels, revision : 0..MaxRevision, exhausted : BOOLEAN]
ZeroWord == [channel |-> "Release", revision |-> 0, exhausted |-> FALSE]

\* set_check_error() publishes a value-initialised status: generation zero,
\* channel word zero, no offer. The channel word and the image of a status
\* are kept only for an offer, the one status they are read from.
Blank(st) == [state |-> st, available |-> FALSE, gen |-> 0, word |-> ZeroWord,
              image |-> None]

OpPlaces == {"made", "run", "judge", "report", "image", "chunk", "final",
             "failed", "complete", "parked", "rebooting", "ended", "lost"}
NoOp == [kind |-> "none", gen |-> 0, word |-> ZeroWord, expected |-> None,
         found |-> None, offer |-> NoOffer, at |-> "ended", lease |-> FALSE,
         done |-> TRUE, acked |-> TRUE]

----------------------------------------------------------------------------
(* Small shared pieces.                                                    *)

\* ota_changed_channel_state(): a change moves the revision, so a channel
\* that comes back is not the one an older offer was captured for.
Changed(w, c) ==
    IF w.channel = c THEN w
    ELSE IF w.exhausted \/ w.revision = MaxRevision
         THEN [w EXCEPT !.channel = c, !.exhausted = TRUE]
         ELSE [w EXCEPT !.channel = c, !.revision = @ + 1]

\* ota_next_offer_generation(): MaxSerial stands for UINT32_MAX, which is
\* never a valid generation.
NextSerial == IF serial >= MaxSerial - 1 THEN MaxSerial ELSE serial + 1

\* ota_offer_current() together with the generation test of its callers.
OfferCurrent ==
    /\ status.available
    /\ status.gen # 0
    /\ status.gen # MaxSerial
    /\ ~channel.exhausted
    /\ status.word = channel
    /\ status.gen = serial

OfferOf(gen) == [boot |-> boot, gen |-> gen]

\* The old coordinator made its last access and gave the lease back, and its
\* worker acknowledged: its memory may go.
Reclaimable == op.done /\ ~op.lease /\ op.acked

\* OtaLease::release_owned(): the flags first, then the gate.
ReleaseOwned ==
    /\ UNCHANGED sealed
    /\ updating' = FALSE
    /\ gate' = IF gate = "Ota" THEN "Idle" ELSE gate

SetCheckError ==
    /\ status' = Blank("Error")
    /\ notes' = None

\* ota_verification_state() of the running image; the query may fail.
Stable == ~pending

----------------------------------------------------------------------------
(* Channel, server and clients.                                            *)

ota_set_channel ==
    /\ \E c \in Channels : channel' = Changed(channel, c)
    /\ channel' # channel
    /\ announced' = {feed[channel'.channel]}
    /\ UNCHANGED <<gateVars, serial, status, notes, op, ticket, work, feed,
                   imageVars, seen, started>>

\* The publisher releases a newer image on a channel.
Publish ==
    /\ \E c \in Channels, i \in Images :
          i > feed[c] /\ feed' = [feed EXCEPT ![c] = i]
    /\ feed'["Release"] + feed'["Dev"] <= MaxNews
    /\ announced' = announced \cup {feed'[channel.channel]}
    /\ UNCHANGED <<gateVars, offerVars, op, ticket, work, imageVars, seen, started>>

\* ota_get_status(): a client sees the offer only while it is current.
ota_get_status ==
    /\ OfferCurrent
    /\ seen' = [id |-> OfferOf(status.gen), image |-> status.image]
    /\ seen' # seen
    /\ UNCHANGED <<gateVars, offerVars, op, ticket, work, feed, imageVars, started, announced>>

----------------------------------------------------------------------------
(* Starting an operation.                                                  *)

PrepareAndRelease(kind, gen, word, expected, offer) ==
    LET new(at, lease, done, acked) ==
            [kind |-> kind, gen |-> gen, word |-> word, expected |-> expected,
             found |-> None, offer |-> offer, at |-> at, lease |-> lease,
             done |-> done, acked |-> acked]
        begun == [Blank(IF kind = "check" THEN "Checking" ELSE "Downloading")
                     EXCEPT !.gen = gen]
    IN /\ UNCHANGED sealed
       /\ \/ /\ status' = begun
             /\ notes' = None
             /\ op' = new("made", TRUE, FALSE, FALSE)
             /\ gate' = "Ota"
             /\ updating' = (kind # "check")
          \/ /\ SetCheckError
             /\ gate' = "Idle"
             /\ updating' = FALSE
             /\ op' = NoOp
          \/ /\ SetCheckError
             /\ gate' = "Idle"
             /\ updating' = (kind # "check")
             /\ op' \in {new("made", TRUE, FALSE, FALSE),
                        new("lost", TRUE, FALSE, FALSE)}

\* prepare_owned_operation() and launch_coordinator(): refused for memory or
\* a lock before the object exists, created, refused by the scheduler, or of
\* unknown fate after an exception. The caller holds the gate.
PrepareAndLaunch(kind, gen, word, expected, offer) ==
    LET new(at, lease, done, acked) ==
            [kind |-> kind, gen |-> gen, word |-> word, expected |-> expected,
             found |-> None, offer |-> offer, at |-> at, lease |-> lease,
             done |-> done, acked |-> acked]
        begun == [Blank(IF kind = "check" THEN "Checking" ELSE "Downloading")
                     EXCEPT !.gen = gen]
    IN /\ UNCHANGED sealed
       /\ \/ /\ status' = begun
             /\ notes' = None
             /\ op' = new("made", TRUE, FALSE, FALSE)
             /\ gate' = "Ota"
             /\ updating' = (kind # "check")
          \/ /\ SetCheckError
             /\ gate' = "Idle"
             /\ updating' = FALSE
             /\ op' = NoOp
          \/ /\ SetCheckError
             /\ gate' = "Ota"
             /\ updating' = (kind # "check")
             /\ op' \in {new("made", TRUE, FALSE, FALSE),
                        new("lost", TRUE, FALSE, FALSE)}

\* reserve_operation() up to its success: the gate is free, the old operation
\* can be reclaimed and, for an image, the running one is known to be stable.
\* On refusal the gate is given straight back and nothing changes.
Reserve(image) ==
    /\ gate = "Idle"
    /\ Reclaimable
    /\ image => Stable

\* ota_check_start_after_http(): the handler reserves the gate and a
\* generation, and queues the rest behind its own reply. A refused queue
\* revokes the ticket and gives the gate back.
ota_check_start_after_http ==
    /\ ~updating
    /\ Reserve(FALSE)
    /\ op' = NoOp
    /\ serial' = NextSerial
    /\ IF channel.exhausted \/ serial' = MaxSerial
       THEN /\ SetCheckError
            /\ UNCHANGED <<gate, ticket, work>>
       ELSE \/ /\ status' = [Blank("Checking") EXCEPT !.gen = serial']
               /\ notes' = None
               /\ gate' = "Ota"
               /\ ticket' = [gen |-> serial', word |-> channel]
               /\ work' = work \cup {serial'}
            \/ /\ SetCheckError
               /\ work' \in {work, work \cup {serial'}}
               /\ UNCHANGED <<gate, ticket>>
    /\ UNCHANGED <<channel, updating, sealed, feed, imageVars, ghostVars>>

NoTicket == [gen |-> 0, word |-> ZeroWord]

ota_check_returns_early ==
    \E token \in work :
        /\ work' = work \ {token}
        /\ IF token # ticket.gen
           THEN UNCHANGED <<gateVars, status, notes, op, ticket>>
           ELSE \/ UNCHANGED <<gateVars, status, notes, op, ticket>>
                \/ /\ ticket' = NoTicket
                   /\ PrepareAndLaunch("check", ticket.gen, ticket.word, None,
                                       NoOffer)
        /\ UNCHANGED <<channel, serial, feed, imageVars, ghostVars>>

\* ota_check_after_http_work(): a callback whose token is not the current
\* ticket does nothing; a late or aborted one gives the gate back.
ota_check_after_http_work ==
    \E token \in work :
        /\ work' = work \ {token}
        /\ IF token # ticket.gen
           THEN UNCHANGED <<gateVars, status, notes, op, ticket>>
           ELSE /\ ticket' = NoTicket
                /\ \/ /\ SetCheckError
                      /\ ReleaseOwned
                      /\ UNCHANGED op
                   \/ PrepareAndLaunch("check", ticket.gen, ticket.word, None,
                                       NoOffer)
        /\ UNCHANGED <<channel, serial, feed, imageVars, ghostVars>>

ota_start_replays ==
    /\ Reserve(TRUE)
    /\ seen.id.boot = boot
    /\ serial' = NextSerial
    /\ IF serial' = MaxSerial
       THEN /\ SetCheckError
            /\ op' = NoOp
            /\ UNCHANGED gateVars
       ELSE PrepareAndLaunch("install", serial', channel, status.image, seen.id)
    /\ started' = started \cup {seen.id}
    /\ UNCHANGED <<channel, ticket, work, feed, imageVars, seen, announced>>

\* ota_start(): the client names the offer it remembers. The offer must be the
\* current one of the configured channel, and is consumed by the next
\* generation before anything can fail.
ota_start ==
    /\ Reserve(TRUE)
    /\ OfferCurrent
    /\ seen.id = OfferOf(status.gen)
    /\ serial' = NextSerial
    /\ IF serial' = MaxSerial
       THEN /\ SetCheckError
            /\ op' = NoOp
            /\ UNCHANGED gateVars
       ELSE PrepareAndLaunch("install", serial', channel, status.image, seen.id)
    /\ started' = started \cup {seen.id}
    /\ UNCHANGED <<channel, ticket, work, feed, imageVars, seen, announced>>

\* ota_upload_start(): only on the development channel; it withdraws a feed
\* offer too.
ota_upload_start ==
    /\ channel.channel = "Dev"
    /\ Reserve(TRUE)
    /\ serial' = NextSerial
    /\ PrepareAndLaunch("upload", serial', channel, None, NoOffer)
    /\ UNCHANGED <<channel, ticket, work, feed, imageVars, ghostVars>>

----------------------------------------------------------------------------
(* The coordinator task.                                                   *)

At(p) == op.at = p
GoTo(p) == op' = [op EXCEPT !.at = p]

\* The network task could not be started, or an exception ended the body: the
\* operation is cancelled, which gives the lease back.
OpCancelled ==
    /\ op.at \in {"made", "run", "judge"}
    /\ op' \in {[op EXCEPT !.at = "failed", !.lease = FALSE, !.acked = a] :
                  a \in {FALSE, op.at = "made"}}
    /\ ReleaseOwned
    /\ UNCHANGED <<offerVars, ticket, work, feed, imageVars, ghostVars>>

OpRuns ==
    /\ At("made")
    /\ GoTo(IF op.kind = "upload" THEN "chunk" ELSE "run")
    /\ UNCHANGED <<gateVars, offerVars, ticket, work, feed, imageVars, ghostVars>>

\* perform_check(): the manifest of the captured channel is read, and for a
\* check the release notes are stored while the generation is still current.
\* A failed exchange has already given the lease back.
perform_check ==
    /\ At("run")
    /\ \/ LET i == feed[op.word.channel]
          IN /\ op' = [op EXCEPT !.found = i, !.at = "judge"]
             /\ notes' \in {notes} \cup
                   (IF /\ op.kind = "check"
                       /\ i # running
                       /\ status.gen = op.gen
                       /\ op.word = channel
                    THEN {i} ELSE {})
             /\ UNCHANGED gateVars
       \/ /\ op' = [op EXCEPT !.at = "report", !.lease = FALSE]
          /\ ReleaseOwned
          /\ UNCHANGED notes
    /\ UNCHANGED <<channel, serial, status, ticket, work, feed, imageVars, ghostVars>>

\* finish_check(): the lease goes back before the result is published.
finish_check ==
    /\ At("judge")
    /\ op.kind = "check"
    /\ \E spent \in BOOLEAN :
          op' = [op EXCEPT !.at = "report", !.lease = FALSE,
                           !.found = IF spent THEN None ELSE @]
    /\ ReleaseOwned
    /\ UNCHANGED <<offerVars, ticket, work, feed, imageVars, ghostVars>>

\* set_check_done(): dropped if the generation moved, an error if the channel
\* did. Only a check leaves an offer.
CheckDone ==
    LET ok == op.found # None /\ op.word = channel
        offered == ok /\ op.kind = "check" /\ op.found # running
    IN IF status.gen # op.gen \/ op.gen # serial
       THEN [status |-> status, notes |-> notes]
       ELSE IF offered
       THEN [status |-> [state |-> "Idle", available |-> TRUE, gen |-> op.gen,
                         word |-> op.word, image |-> op.found],
             notes |-> notes]
       ELSE [status |-> [Blank(IF ok THEN "Idle" ELSE "Error") EXCEPT !.gen = op.gen],
             notes |-> None]

set_check_done ==
    /\ At("report")
    /\ status' = CheckDone.status
    /\ notes' = CheckDone.notes
    /\ GoTo("complete")
    /\ UNCHANGED <<gateVars, channel, serial, ticket, work, feed, imageVars, ghostVars>>

ota_task_trusts ==
    /\ At("judge")
    /\ op.kind = "install"
    /\ IF op.found = running
       THEN /\ status' = [CheckDone.status EXCEPT !.state = "Error"]
            /\ notes' = CheckDone.notes
            /\ GoTo("complete")
            /\ UNCHANGED gateVars
       ELSE IF op.word # channel
       THEN /\ op' = [op EXCEPT !.at = "failed", !.lease = FALSE]
            /\ ReleaseOwned
            /\ UNCHANGED <<status, notes>>
       ELSE /\ GoTo("image")
            /\ UNCHANGED <<gateVars, status, notes>>
    /\ UNCHANGED <<channel, serial, ticket, work, feed, imageVars, ghostVars>>

\* ota_task_impl() after its own check: nothing newer, a candidate that is
\* not the confirmed one, or on to the image.
ota_task_judge ==
    /\ At("judge")
    /\ op.kind = "install"
    /\ IF op.found = running
       THEN /\ status' = [CheckDone.status EXCEPT !.state = "Error"]
            /\ notes' = CheckDone.notes
            /\ GoTo("complete")
            /\ UNCHANGED gateVars
       ELSE IF op.word # channel \/ op.found # op.expected
       THEN /\ op' = [op EXCEPT !.at = "failed", !.lease = FALSE]
            /\ ReleaseOwned
            /\ UNCHANGED <<status, notes>>
       ELSE /\ GoTo("image")
            /\ UNCHANGED <<gateVars, status, notes>>
    /\ UNCHANGED <<channel, serial, ticket, work, feed, imageVars, ghostVars>>

\* ota_upload_impl(): the channel is tested before each chunk and before the
\* end; the image is whatever signed firmware the client sent.
ota_upload_impl ==
    /\ At("chunk")
    /\ IF channel.channel # "Dev"
       THEN /\ op' = [op EXCEPT !.at = "failed", !.lease = FALSE]
            /\ ReleaseOwned
       ELSE /\ \/ op.found = None /\ \E i \in Images : op' = [op EXCEPT !.found = i]
               \/ op.found # None /\ GoTo("image")
            /\ UNCHANGED gateVars
    /\ UNCHANGED <<offerVars, ticket, work, feed, imageVars, ghostVars>>

\* The transfer ends: failed and given back, uncertain and parked, or
\* committed to the boot selector.
ImageEnds ==
    /\ At("image")
    /\ \/ /\ op' = [op EXCEPT !.at = "failed", !.lease = FALSE]
          /\ ReleaseOwned
          /\ UNCHANGED <<selected, status, notes>>
       \/ /\ GoTo("parked")
          /\ SetCheckError
          /\ selected' \in {selected, op.found}
          /\ UNCHANGED gateVars
       \/ /\ GoTo("rebooting")
          /\ selected' = op.found
          /\ status' = [status EXCEPT !.state = "Done"]
          /\ UNCHANGED <<gateVars, notes>>
    /\ UNCHANGED <<channel, serial, ticket, work, feed, running, previous, pending,
                   journal, boot, ghostVars>>

\* A failed body reports before the completion guard runs.
OpReportsFailure ==
    /\ At("failed")
    /\ SetCheckError
    /\ GoTo("complete")
    /\ UNCHANGED <<gateVars, channel, serial, ticket, work, feed, imageVars, ghostVars>>

\* complete_operation(): the last access of the coordinator; what is left of
\* the object matters only for its worker's acknowledgement.
complete_operation ==
    /\ At("complete")
    /\ op' = [NoOp EXCEPT !.acked = op.acked]
    /\ IF op.lease THEN ReleaseOwned ELSE UNCHANGED gateVars
    /\ UNCHANGED <<offerVars, ticket, work, feed, imageVars, ghostVars>>

\* The TLS worker acknowledges some time after the lease went back, or never.
WorkerAck ==
    /\ ~op.lease
    /\ ~op.acked
    /\ op' = [op EXCEPT !.acked = TRUE]
    /\ UNCHANGED <<gateVars, offerVars, ticket, work, feed, imageVars, ghostVars>>

----------------------------------------------------------------------------
(* The other owners of the gate, and the bootloader.                       *)

Others == <<updating, offerVars, op, ticket, work, feed, ghostVars>>
images == <<running, previous, pending, selected, boot>>

IdentityBeginsBeside ==
    /\ gate # "IdentityMutation"
    /\ Stable
    /\ gate' = "IdentityMutation"
    /\ UNCHANGED <<Others, imageVars, sealed>>

\* OtaIdentityMutationGuard: a key or VIN change takes the gate, on an image
\* that is past probation only.
IdentityBegins ==
    /\ gate = "Idle"
    /\ Stable
    /\ gate' = "IdentityMutation"
    /\ UNCHANGED <<Others, imageVars, sealed>>

\* Under the guard key_rotate or vin_txn is written; a write that reports
\* failure may have armed it too.
JournalArmed ==
    /\ gate = "IdentityMutation"
    /\ boot \in ArmingBoots
    /\ journal # boot
    /\ journal' = boot
    /\ UNCHANGED <<Others, gate, images, sealed>>

\* finish_key_rotation_cleanup_(), by the request or by a retry of the
\* supervisor, which asks for no gate; the journal of an earlier boot is left to
\* boot recovery.
JournalRetired ==
    /\ journal = boot
    /\ journal' = 0
    /\ UNCHANGED <<Others, gate, images, sealed>>

\* The guard is destroyed with its request, which may leave the journal armed:
\* NotCommitted, CommitUnknown and CleanupPending all return.
IdentityEnds ==
    /\ gate = "IdentityMutation"
    /\ gate' = "Idle"
    /\ UNCHANGED <<Others, imageVars, sealed>>

\* ota_health_gate_task() and the heap supervisor's maintenance take the gate.
\* The commit needs the old operation gone and a second healthy sample under
\* the gate, and a failing SDK call may still have been durable.
HealthBegins ==
    /\ gate = "Idle"
    /\ gate' = "HealthCommit"
    /\ UNCHANGED <<Others, imageVars, sealed>>

HealthCommit ==
    /\ gate = "HealthCommit"
    /\ gate' = "Idle"
    /\ \/ /\ pending
          /\ Reclaimable
          /\ pending' \in BOOLEAN
       \/ UNCHANGED pending
    /\ UNCHANGED <<Others, running, previous, selected, journal, boot, sealed>>

\* A configuration save takes the gate. Once it is durable it may confirm the
\* image it ran on, and the restart keeps the gate; a failed save returns it.
ConfigBegins ==
    /\ gate = "Idle"
    /\ gate' = "ConfigRestart"
    /\ UNCHANGED <<Others, imageVars, sealed>>

ota_confirm_pending_image ==
    /\ gate = "ConfigRestart"
    /\ ~sealed
    /\ sealed' = TRUE
    /\ \/ /\ pending
          /\ Reclaimable
          /\ pending' \in BOOLEAN
       \/ UNCHANGED pending
    /\ UNCHANGED <<Others, gate, running, previous, selected, journal, boot>>

ConfigSaveFails ==
    /\ gate = "ConfigRestart"
    /\ ~sealed
    /\ gate' = "Idle"
    /\ UNCHANGED <<Others, imageVars, sealed>>

\* A fault restart (heap supervisor, fatal startup) claims the gate, and is
\* then sealed or finds no reason and cancels.
FaultRestart ==
    /\ \/ gate = "Idle" /\ gate' = "FaultRestart" /\ UNCHANGED sealed
       \/ gate = "FaultRestart" /\ ~sealed /\ gate' = "Idle" /\ UNCHANGED sealed
       \/ gate = "FaultRestart" /\ ~sealed /\ sealed' = TRUE /\ UNCHANGED gate
    /\ UNCHANGED <<Others, imageVars>>

\* Power loss, a panic or any restart. The bootloader starts the selected
\* image on probation, or rolls an unconfirmed one back; the channel is read
\* from the configuration. Whatever image boots finishes an open journal, or
\* fails to and stays in a halted start, or leaves it alone in safe mode.
Reboot ==
    /\ boot < MaxBoots
    /\ boot' = boot + 1
    /\ IF selected # None
       THEN running' = selected /\ previous' = running /\ pending' = TRUE
       ELSE IF pending
       THEN running' = previous /\ UNCHANGED previous /\ pending' = FALSE
       ELSE UNCHANGED <<running, previous, pending>>
    /\ selected' = None
    /\ journal' \in {0, journal}
    /\ gate' = "Idle"
    /\ updating' = FALSE
    /\ channel' = [ZeroWord EXCEPT !.channel = channel.channel]
    /\ serial' = 0
    /\ status' = Blank("Idle")
    /\ notes' = None
    /\ op' = NoOp
    /\ ticket' = NoTicket
    /\ work' = {}
    /\ sealed' = FALSE
    /\ announced' = {feed[channel.channel]}
    /\ started' = {}
    /\ UNCHANGED <<feed, seen>>

----------------------------------------------------------------------------
\* The first boot of a freshly updated image: probation, then whatever follows.
Init ==
    /\ gate = "Idle"
    /\ channel = ZeroWord
    /\ serial = 0
    /\ status = Blank("Idle")
    /\ notes = None
    /\ updating = FALSE
    /\ op = NoOp
    /\ ticket = NoTicket
    /\ work = {}
    /\ feed \in [Channels -> {CHOOSE i \in Images : TRUE}]
    /\ pending = TRUE
    /\ running = CHOOSE i \in Images : TRUE
    /\ previous = 0
    /\ selected = None
    /\ journal = 0
    /\ boot = 1
    /\ sealed = FALSE
    /\ seen = [id |-> NoOffer, image |-> None]
    /\ started = {}
    /\ announced = {feed[channel.channel]}

Task ==
    \/ OpCancelled \/ OpRuns \/ perform_check \/ finish_check \/ set_check_done
    \/ ota_task_judge \/ ota_upload_impl \/ ImageEnds \/ OpReportsFailure
    \/ complete_operation

Next ==
    \/ ota_set_channel \/ Publish \/ ota_get_status
    \/ ota_check_start_after_http \/ ota_check_after_http_work
    \/ ota_start \/ ota_upload_start
    \/ Task \/ WorkerAck
    \/ IdentityBegins \/ JournalArmed \/ JournalRetired \/ IdentityEnds
    \/ HealthBegins \/ HealthCommit
    \/ ConfigBegins \/ ota_confirm_pending_image \/ ConfigSaveFails
    \/ FaultRestart \/ Reboot

Spec == Init /\ [][Next]_vars

\* The HTTP server runs its queue, and a created task runs: every step of it
\* is bounded by the operation's time budget.
Fairness ==
    /\ WF_vars(ota_check_after_http_work)
    /\ WF_vars(Task)

FairSpec == Spec /\ Fairness

----------------------------------------------------------------------------
(* Properties.                                                             *)

StatusType == [state : States, available : BOOLEAN, gen : 0..MaxSerial,
               word : Words, image : MaybeImage]

OpType == [kind : {"none", "check", "install", "upload"}, gen : 0..MaxSerial,
           word : Words, expected : MaybeImage, found : MaybeImage,
           offer : OfferId \cup {NoOffer}, at : OpPlaces, lease : BOOLEAN,
           done : BOOLEAN, acked : BOOLEAN]

TicketType == [gen : 0..MaxSerial, word : Words]

SeenType == [id : OfferId \cup {NoOffer}, image : MaybeImage]

TypeOK ==
    /\ gate \in Owners
    /\ channel \in Words
    /\ serial \in 0..MaxSerial
    /\ status \in StatusType
    /\ notes \in MaybeImage
    /\ updating \in BOOLEAN
    /\ op \in OpType
    /\ ticket \in TicketType
    /\ work \subseteq 1..MaxSerial
    /\ feed \in [Channels -> Images]
    /\ {running, previous} \subseteq AnyImage
    /\ selected \in MaybeImage
    /\ journal \in 0..MaxBoots
    /\ {pending, sealed} \subseteq BOOLEAN
    /\ boot \in 1..MaxBoots
    /\ seen \in SeenType
    /\ started \subseteq OfferId
    /\ announced \subseteq Images

\* The boot selector is only ever pointed at the image a client was shown
\* under the very offer it confirmed, although the server may announce another
\* one, and the channel may change, at any moment in between.
InstallsWhatWasShown ==
    /\ op.kind = "install"
    /\ op.at = "rebooting"
    => seen = [id |-> op.offer, image |-> selected]

\* An offer a client can see, and the notes shown with it, describe an image
\* that was announced on the configured channel since that channel was
\* configured: no offer survives a change of channel and back.
OfferIsTruthful ==
    OfferCurrent => /\ status.image \in announced
                    /\ notes \in {None, status.image}

\* A status that says an operation is in progress belongs to an operation
\* that is in progress: a coordinator that gave its lease back early cannot
\* leave or overwrite the progress of its successor.
StatusHasAnOwner ==
    status.state \in {"Checking", "Downloading"} =>
        \/ gate = "Ota" /\ ticket.gen = status.gen
        \/ ~op.done /\ op.gen = status.gen

\* While an operation can still write, it holds the gate; nobody else's
\* cleanup can have returned it.
LeaseIsGate ==
    /\ op.lease => gate = "Ota"
    /\ updating => gate = "Ota"
    /\ ticket.gen # 0 => gate = "Ota"

\* The other partition holds the image a rollback needs: no image is written
\* or selected while the running one is on probation.
FallbackIsKept ==
    pending => /\ selected = None
               /\ op.kind \in {"install", "upload"} => ~op.lease

\* While an identity transaction holds the gate, a restart at any moment boots
\* the image that runs the transaction: neither an update nor a rollback can slip
\* between its steps (vehicle_pairing.cpp:384).
TransactionKeepsItsImage ==
    gate = "IdentityMutation" => ~pending /\ selected = None

\* Probation is a write barrier for the identity (health_gate.hpp:178): a journal
\* that is open while an image is on probation was armed by an earlier boot, so
\* what a rollback hands back the rolled-back image has not begun.
ProbationArmsNothing == pending => journal < boot

\* Probation ends without a restart only under the health or configuration
\* owner of the gate, with no update operation left that could still write;
\* never across a sealed fault restart.
CommitIsExclusive ==
    [][pending /\ ~pending' /\ boot' = boot =>
        /\ gate \in {"HealthCommit", "ConfigRestart"}
        /\ ~sealed
        /\ Reclaimable]_vars

\* An offer a client was shown is good for one install request, whatever
\* became of that install and whatever was checked or set since.
OfferStartsOnce == [][ota_start => seen.id \notin started]_vars

\* A check or a download a client is shown as in progress ends in a final
\* status.
StatusSettles ==
    status.state \in {"Checking", "Downloading"} ~>
        status.state \notin {"Checking", "Downloading"}

\* From the offer to the install (ota_update.cpp:1401): what is downloaded is
\* what the client confirmed, an offer describes a check of this feed, and a
\* running status has a task behind it.
OfferSafe ==
    /\ TypeOK
    /\ InstallsWhatWasShown
    /\ OfferIsTruthful
    /\ StatusHasAnOwner

\* What a rollback finds (health_gate.hpp:52): an image on probation has a
\* working image to fall back to, no change of image cuts into an identity
\* transaction, and an image on probation has begun none. A journal that its
\* request left armed may still meet another image: an update needs the gate
\* only (reserve_operation()).
RollbackIsSound ==
    /\ FallbackIsKept
    /\ TransactionKeepsItsImage
    /\ ProbationArmsNothing

\* The two starts that must not happen twice or beside each other
\* (ota_update.cpp:1401, health_gate.hpp:133): the end of probation and the
\* install of an offer.
StartsAreExclusive == CommitIsExclusive /\ OfferStartsOnce

============================================================================
