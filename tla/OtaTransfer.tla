---------------------------- MODULE OtaTransfer ----------------------------
(***************************************************************************)
(* One firmware operation of the over-the-air update: the coordinator task *)
(* that owns the flash writer and the process-wide operation gate, the     *)
(* TLS worker task that only fills a one-block mailbox, and the control    *)
(* word both share (ota_coordinator.cpp, ota_transport.cpp,                *)
(* ota_writer.cpp, and the task bodies of ota_update.cpp).                 *)
(*                                                                         *)
(* The worker may block for ever in an SDK call, so no step of the         *)
(* coordinator waits for it: retiring the job is one-sided, and the memory *)
(* of the operation is reclaimed only by a later reservation that finds    *)
(* both tasks finished.                                                    *)
(***************************************************************************)
EXTENDS Integers

CONSTANTS Blocks,       \* blocks of the image the manifest describes
          MaxRedirects  \* 10 in the code

ASSUME BlocksAssumption == Blocks \in Nat \ {0}
ASSUME RedirectAssumption == MaxRedirects \in Nat

VARIABLES
    kind,     \* what the operation is: a check, a confirmed install, an upload
    launch,   \* NetworkLaunch: what is known of the worker task
    job,      \* the control word of the Job: phase and the two sticky flags
    result,   \* the NetResult published with the block
    net,      \* where the worker task is
    leg,      \* the HTTP exchange the coordinator runs
    at,       \* where the coordinator task is
    outcome,  \* Outcome of the coordinator
    parse,    \* what the HTTP framing made of the borrowed block
    flags,    \* begun_, redirect_wait_, optional_metadata_, metadata_failed_
    redirects,
    expired,  \* the operation budget is spent, or a heap abort was requested
    writer,   \* RawWriter
    selected, \* the boot selector in flash
    tainted,  \* some received block is not the one the manifest hashed
    gate,     \* owner of the operation gate
    released, \* lease_released_
    done,     \* coordinator_done
    freed     \* the operation object was deleted

jobVars == <<launch, job, result, net>>
coordVars == <<leg, at, outcome, parse, flags, redirects>>
flashVars == <<writer, selected, tainted>>
leaseVars == <<gate, released, done, freed>>
vars == <<kind, launch, job, result, net, leg, at, outcome, parse, flags,
          redirects, expired, writer, selected, tainted, gate, released,
          done, freed>>

Kinds == {"check", "install", "upload"}
Phases == {"Idle", "Requested", "Reading", "Full", "Borrowed", "Closed",
           "Acked", "CleanupFailed"}
NetResults == {"Data", "Eof", "NetworkError", "NoMemory", "Deadline"}
NetStates == {"none", "idle", "sdk", "offered", "last", "destroy", "publish",
              "publishFailed", "gone"}
Outcomes == {"Idle", "Working", "MetadataReady", "Committed", "Deadline",
             "ProtocolError", "NetworkError", "NoMemory", "WriterError",
             "WriterUncertain", "InvalidState"}
Places == {"launch", "start", "poll", "use", "prefix", "begin", "write",
           "checked", "end", "select", "give", "complete", "parked",
           "rebooting", "ended"}
Legs == {"manifest", "notes", "image", "upload"}
Parses == {"More", "Redirect", "Complete", "Rejected"}

NoFlags == [begun |-> FALSE, redirectWait |-> FALSE, optional |-> FALSE,
            failed |-> FALSE]
FreshWriter == [hash |-> FALSE, handle |-> FALSE, uncertain |-> FALSE,
                validated |-> FALSE, received |-> 0]

Closing == job.retired \/ job.close

\* The budget is live and the job has not been retired.
alive == ~job.retired /\ ~expired

Quiescent(w) == ~w.handle /\ ~w.uncertain /\ ~w.hash

IsImage == leg \in {"image", "upload"}

\* borrowed_: a network leg holds the mailbox block while it uses it.
Borrowing == leg # "upload"

----------------------------------------------------------------------------
(* Leaving the working state.                                              *)

\* Writer states abort() can leave behind; TRUE when it reports success.
Abort(w) ==
    IF w.uncertain THEN {<<w, FALSE>>}
    ELSE {<<[w EXCEPT !.hash = FALSE, !.handle = FALSE], TRUE>>}
         \cup (IF w.hash \/ w.handle
               THEN {<<[w EXCEPT !.uncertain = TRUE], FALSE>>} ELSE {})

ReleaseAlways(out, w, borrowed) ==
    LET refused == \/ released
                   \/ borrowed
                   \/ ~Quiescent(w)
        owned == gate = "Ota"
    IN /\ released' = (released \/ (~refused /\ owned))
       /\ gate' = IF ~refused /\ owned THEN "Idle" ELSE gate
       /\ outcome' = IF ~refused /\ ~owned THEN "WriterUncertain" ELSE out

\* release_if_safe() for an outcome, a writer and a borrow flag.
ReleaseIfSafe(out, w, borrowed) ==
    LET refused == \/ released
                   \/ out \in {"Committed", "WriterUncertain"}
                   \/ borrowed
                   \/ ~Quiescent(w)
        owned == gate = "Ota"
    IN /\ released' = (released \/ (~refused /\ owned))
       /\ gate' = IF ~refused /\ owned THEN "Idle" ELSE gate
       /\ outcome' = IF ~refused /\ ~owned THEN "WriterUncertain" ELSE out

\* fail(): an optional metadata leg only closes its connection; anything else
\* retires the job, aborts a live writer and gives the lease back if it may.
Fail(reason, borrowed) ==
    IF outcome \in {"Committed", "WriterUncertain"}
    THEN UNCHANGED <<job, outcome, flags, writer, gate, released>>
    ELSE IF /\ flags.optional
            /\ ~IsImage
            /\ reason \in {"NetworkError", "ProtocolError"}
            /\ alive
    THEN /\ flags' = [flags EXCEPT !.failed = TRUE]
         /\ job' = [job EXCEPT !.close = TRUE]
         /\ outcome' = "MetadataReady"
         /\ UNCHANGED <<writer, gate, released>>
    ELSE /\ job' = [job EXCEPT !.retired = TRUE]
         /\ IF Quiescent(writer)
            THEN /\ writer' = writer
                 /\ ReleaseIfSafe(reason, writer, borrowed)
            ELSE \E a \in Abort(writer) :
                    /\ writer' = a[1]
                    /\ ReleaseIfSafe(IF a[2] THEN reason ELSE "WriterUncertain",
                                     a[1], borrowed)
         /\ UNCHANGED flags

----------------------------------------------------------------------------
(* The worker task: run_network_worker().                                  *)

\* The top of the loop: a retired job is acknowledged, a request is taken.
NetIdle ==
    /\ net = "idle"
    /\ \/ /\ job.retired
          /\ job.phase # "Borrowed"
          /\ job' = [job EXCEPT !.phase = "Acked"]
          /\ net' = "gone"
       \/ /\ job = [phase |-> "Requested", retired |-> FALSE, close |-> FALSE]
          /\ job' = [job EXCEPT !.phase = "Reading"]
          /\ net' = "sdk"
    /\ UNCHANGED <<kind, launch, result, coordVars, expired, flashVars,
                   leaseVars>>

NetReturnsBlindly ==
    /\ net = "sdk"
    /\ IF FALSE
       THEN /\ net' = "destroy"
            /\ UNCHANGED <<job, result>>
       ELSE \E r \in NetResults :
            /\ result' = r
            /\ job' = [job EXCEPT !.phase = "Full"]
            /\ net' = IF r = "Data" THEN "offered" ELSE "last"
    /\ UNCHANGED <<kind, launch, coordVars, expired, flashVars, leaseVars>>

\* transfer(): an SDK call returns. A closing or expired job ends the
\* transfer, a received piece is published by a compare-and-swap against the
\* exact word Reading, any other result is published once.
NetReturns ==
    /\ net = "sdk"
    /\ IF Closing
       THEN /\ net' = "destroy"
            /\ UNCHANGED <<job, result>>
       ELSE \E r \in NetResults :
            /\ result' = r
            /\ job' = [job EXCEPT !.phase = "Full"]
            /\ net' = IF r = "Data" THEN "offered" ELSE "last"
    /\ UNCHANGED <<kind, launch, coordVars, expired, flashVars, leaseVars>>

NetWaitsImpatient ==
    /\ net \in {"offered", "last"}
    /\ \/ job.phase = "Reading"
       \/ Closing
    /\ net' = IF net = "offered" /\ job.phase = "Reading" /\ ~Closing
              THEN "sdk" ELSE "destroy"
    /\ UNCHANGED <<kind, launch, job, result, coordVars, expired, flashVars,
                   leaseVars>>

\* publish() waits until the block is given back. A flag ends the wait unless
\* the coordinator holds the block.
NetWaits ==
    /\ net \in {"offered", "last"}
    /\ \/ job.phase = "Reading"
       \/ Closing /\ job.phase # "Borrowed"
    /\ net' = IF net = "offered" /\ job.phase = "Reading" /\ ~Closing
              THEN "sdk" ELSE "destroy"
    /\ UNCHANGED <<kind, launch, job, result, coordVars, expired, flashVars,
                   leaseVars>>

\* esp_tls_conn_destroy() returns; it may report a socket error.
NetDestroys ==
    /\ net = "destroy"
    /\ net' \in {"publish", "publishFailed"}
    /\ UNCHANGED <<kind, launch, job, result, coordVars, expired, flashVars,
                   leaseVars>>

\* The final publication keeps the flags of the word it replaces.
NetPublishes ==
    /\ net \in {"publish", "publishFailed"}
    /\ job.phase # "Borrowed"
    /\ LET next == IF net = "publishFailed" THEN "CleanupFailed"
                   ELSE IF job.retired THEN "Acked" ELSE "Closed"
       IN /\ job' = [job EXCEPT !.phase = next, !.close = TRUE]
          /\ net' = IF next = "Closed" THEN "idle" ELSE "gone"
    /\ UNCHANGED <<kind, launch, result, coordVars, expired, flashVars,
                   leaseVars>>

Worker == NetIdle \/ NetReturns \/ NetWaits \/ NetDestroys \/ NetPublishes

----------------------------------------------------------------------------
(* The coordinator task.                                                   *)

\* start_network_task(): the task is created, refused, or the budget is gone
\* before it was tried. A refused worker is acknowledged in its place; after
\* an exception nobody knows whether there is one.
LaunchWorker ==
    /\ at = "launch"
    /\ kind # "upload"
    /\ \/ /\ ~expired
          /\ launch' = "Started"
          /\ net' = "idle"
          /\ at' = "start"
          /\ UNCHANGED <<job, outcome, gate, released>>
       \/ /\ ~expired
          /\ launch' = "Unknown"
          /\ net' \in {"none", "idle"}
          /\ job' = [job EXCEPT !.retired = TRUE]
          /\ ReleaseIfSafe("NetworkError", writer, FALSE)
          /\ at' = "complete"
       \/ /\ \/ ~expired /\ launch' = "Refused"
             \/ expired /\ UNCHANGED launch
          /\ job' = [job EXCEPT !.phase = "Acked", !.retired = TRUE]
          /\ ReleaseIfSafe(IF expired THEN "Deadline" ELSE "NetworkError",
                           writer, FALSE)
          /\ at' = "complete"
          /\ UNCHANGED net
    /\ UNCHANGED <<kind, result, leg, parse, flags, redirects, expired,
                   flashVars, done, freed>>

\* Coordinator::start() for the next leg. A request that cannot be made
\* cancels the operation.
StartLeg ==
    /\ at = "start"
    /\ leg # "upload"
    /\ IF /\ alive
          /\ outcome \in {"Idle", "MetadataReady"}
          /\ job.phase \in {"Idle", "Closed"}
       THEN /\ job' = [phase |-> "Requested", retired |-> FALSE, close |-> FALSE]
            /\ outcome' = "Working"
            /\ flags' = [NoFlags EXCEPT !.optional = (leg = "notes")]
            /\ redirects' = 0
            /\ at' = "poll"
            /\ UNCHANGED <<writer, gate, released>>
       ELSE /\ Fail(IF expired THEN "Deadline" ELSE "ProtocolError", FALSE)
            /\ at' = "complete"
            /\ UNCHANGED redirects
    /\ UNCHANGED <<kind, launch, result, net, leg, parse, expired, selected,
                   tainted, done, freed>>

\* poll() ends the operation without a block: the budget is spent or the
\* worker's cleanup failed, which the optional leg does not excuse.
PollEnds ==
    /\ at = "poll"
    /\ outcome \notin {"Committed", "WriterUncertain"}
    /\ ~released
    /\ \/ ~alive
       \/ job.phase = "CleanupFailed"
    /\ job' = [job EXCEPT !.retired = TRUE]
    /\ flags' = [flags EXCEPT !.optional = FALSE]
    /\ \E a \in (IF Quiescent(writer) THEN {<<writer, TRUE>>} ELSE Abort(writer)) :
          /\ writer' = a[1]
          /\ ReleaseIfSafe(IF ~a[2] THEN "WriterUncertain"
                           ELSE IF alive THEN "NetworkError" ELSE "Deadline",
                           a[1], FALSE)
    /\ at' = "complete"
    /\ UNCHANGED <<kind, launch, result, net, leg, parse, redirects, expired,
                   selected, tainted, done, freed>>

\* poll() follows a redirect once the old connection is really closed.
PollRedirect ==
    /\ at = "poll"
    /\ alive
    /\ outcome = "Working"
    /\ flags.redirectWait
    /\ job.phase = "Closed"
    /\ job' = [phase |-> "Requested", retired |-> FALSE, close |-> FALSE]
    /\ flags' = [flags EXCEPT !.redirectWait = FALSE]
    /\ UNCHANGED <<kind, launch, result, net, leg, at, outcome, parse,
                   redirects, expired, flashVars, leaseVars>>

\* poll() borrows the published block: a compare-and-swap on the exact word.
PollBorrow ==
    /\ at = "poll"
    /\ alive
    /\ outcome = "Working"
    /\ ~flags.redirectWait
    /\ job = [phase |-> "Full", retired |-> FALSE, close |-> FALSE]
    /\ job' = [job EXCEPT !.phase = "Borrowed"]
    /\ at' = "use"
    /\ UNCHANGED <<kind, launch, result, net, leg, outcome, parse, flags,
                   redirects, expired, flashVars, leaseVars>>

\* Framing::eof(): the end of the stream completes a body without a declared
\* length and is an error anywhere else.
ParseEof == {"Complete", "Rejected"}

\* Framing::feed(): what a piece of the response can mean.
ParseOf(r) ==
    CASE r = "Data" -> Parses
      [] r = "Eof"  -> ParseEof
      [] OTHER      -> {"Rejected"}

\* The borrowed block is parsed. Body bytes of an image go to the writer
\* before the result of the parse is applied.
Use ==
    /\ at = "use"
    /\ IF ~alive \/ result \notin {"Data", "Eof"}
       THEN /\ Fail(IF ~alive \/ result = "Deadline" THEN "Deadline"
                    ELSE IF result = "NoMemory" THEN "NoMemory"
                    ELSE "NetworkError", TRUE)
            /\ at' = "give"
            /\ UNCHANGED <<parse, tainted>>
       ELSE /\ \E p \in ParseOf(result) : parse' = p
            /\ \/ /\ result = "Data"
                  /\ IsImage
                  /\ parse' \in {"More", "Complete"}
                  /\ at' = IF flags.begun THEN "write" ELSE "prefix"
                  /\ tainted' \in {tainted, TRUE}
               \/ /\ at' = "checked"
                  /\ UNCHANGED tainted
            /\ UNCHANGED <<job, outcome, flags, writer, gate, released>>
    /\ UNCHANGED <<kind, launch, result, net, leg, redirects, expired,
                   selected, done, freed>>

\* After a failed writer effect the block is given back, or, for an upload,
\* the task goes straight to its end.
AfterFailure == IF leg = "upload" THEN "complete" ELSE "give"

\* body(), first block: the prefix is collected, then the image header,
\* version and target partition are admitted or refused.
CheckPrefix ==
    /\ at = "prefix"
    /\ \/ /\ alive
          /\ at' = "begin"
          /\ UNCHANGED <<job, outcome, flags, writer, gate, released>>
       \/ /\ Fail(IF alive THEN "ProtocolError" ELSE "Deadline", Borrowing)
          /\ at' = AfterFailure
    /\ UNCHANGED <<kind, launch, result, net, leg, parse, redirects, expired,
                   selected, tainted, done, freed>>

\* begin(): the hash is live even if its setup failed, and a failing
\* esp_ota_begin() may already have published a handle.
BeginWriter(w, ok) ==
    {x \in [hash : BOOLEAN, handle : BOOLEAN, uncertain : BOOLEAN,
            validated : {FALSE}, received : {0}] :
        /\ x.hash = (kind # "upload")
        /\ ok => x.handle /\ ~x.uncertain
        /\ x.uncertain => ~x.handle}

Begin ==
    /\ at = "begin"
    /\ \/ /\ ~alive
          /\ Fail("Deadline", Borrowing)
          /\ at' = AfterFailure
       \/ /\ alive
          /\ writer' \in BeginWriter(writer, TRUE)
          /\ flags' = [flags EXCEPT !.begun = TRUE]
          /\ at' = "write"
          /\ UNCHANGED <<job, outcome, gate, released>>
       \/ /\ alive
          /\ \E w \in BeginWriter(writer, FALSE), why \in {"NoMemory", "WriterError"} :
             \E a \in (IF Quiescent(w) THEN {<<w, TRUE>>} ELSE Abort(w)) :
                /\ writer' = a[1]
                /\ ReleaseIfSafe(IF a[2] THEN why ELSE "WriterUncertain",
                                 a[1], Borrowing)
          /\ job' = [job EXCEPT !.retired = TRUE]
          /\ at' = AfterFailure
          /\ UNCHANGED flags
    /\ UNCHANGED <<kind, launch, result, net, leg, parse, redirects, expired,
                   selected, tainted, done, freed>>

\* write(): a manifest image is hashed and counted, and never exceeds the
\* announced size; an upload is counted by the coordinator the same way.
Write ==
    /\ at = "write"
    /\ \/ /\ alive
          /\ writer.received < Blocks
          /\ writer' = [writer EXCEPT !.received = @ + 1]
          /\ at' = "checked"
          /\ UNCHANGED <<job, outcome, flags, gate, released>>
       \/ /\ \E why \in {"NoMemory", "WriterError"} :
                Fail(IF alive THEN why ELSE "Deadline", Borrowing)
          /\ at' = AfterFailure
    /\ UNCHANGED <<kind, launch, result, net, leg, parse, redirects, expired,
                   selected, tainted, done, freed>>

\* resolve_redirect(): whether the Location the server sent is an https URL
\* that fits; the server decides.
resolve_redirect == BOOLEAN

\* The parse result is applied while the block is still borrowed.
Apply ==
    /\ at = "checked"
    /\ leg # "upload"
    /\ IF ~alive
       THEN Fail("Deadline", TRUE) /\ at' = "give" /\ UNCHANGED redirects
       ELSE CASE parse = "More" ->
                 /\ at' = "give"
                 /\ UNCHANGED <<job, outcome, flags, writer, gate, released,
                                redirects>>
              [] parse = "Redirect" /\ redirects < MaxRedirects ->
                 \/ /\ TRUE \in resolve_redirect
                    /\ redirects' = redirects + 1
                    /\ flags' = [flags EXCEPT !.redirectWait = TRUE]
                    /\ job' = [job EXCEPT !.close = TRUE]
                    /\ at' = "give"
                    /\ UNCHANGED <<outcome, writer, gate, released>>
                 \/ /\ FALSE \in resolve_redirect
                    /\ Fail("ProtocolError", TRUE)
                    /\ at' = "give"
                    /\ UNCHANGED redirects
              [] parse = "Complete" ->
                 /\ job' = [job EXCEPT !.close = TRUE]
                 /\ at' = IF IsImage THEN "end" ELSE "give"
                 /\ outcome' = IF IsImage THEN outcome ELSE "MetadataReady"
                 /\ UNCHANGED <<flags, writer, gate, released, redirects>>
              [] OTHER ->
                 /\ Fail("ProtocolError", TRUE)
                 /\ at' = "give"
                 /\ UNCHANGED redirects
    /\ UNCHANGED <<kind, launch, result, net, leg, parse, expired, selected,
                   tainted, done, freed>>

EndImageUnverified ==
    /\ at = "end"
    /\ \/ /\ flags.begun
          /\ alive
          /\ writer' = [writer EXCEPT !.hash = FALSE, !.handle = FALSE,
                                      !.validated = TRUE]
          /\ at' = "select"
          /\ UNCHANGED <<job, outcome, flags, gate, released>>
       \/ /\ \E why \in {"NoMemory", "WriterError"} :
                Fail(IF flags.begun /\ ~alive THEN "Deadline"
                     ELSE IF flags.begun THEN why ELSE "ProtocolError",
                     Borrowing)
          /\ at' = AfterFailure
    /\ UNCHANGED <<kind, launch, result, net, leg, parse, redirects, expired,
                   selected, tainted, done, freed>>

\* end(): size and hash are compared before the SDK consumes the handle and
\* verifies the signature.
EndImage ==
    /\ at = "end"
    /\ \/ /\ flags.begun
          /\ alive
          /\ kind = "install" => writer.received = Blocks /\ ~tainted
          /\ writer' = [writer EXCEPT !.hash = FALSE, !.handle = FALSE,
                                      !.validated = TRUE]
          /\ at' = "select"
          /\ UNCHANGED <<job, outcome, flags, gate, released>>
       \/ /\ \E why \in {"NoMemory", "WriterError"} :
                Fail(IF flags.begun /\ ~alive THEN "Deadline"
                     ELSE IF flags.begun THEN why ELSE "ProtocolError",
                     Borrowing)
          /\ at' = AfterFailure
    /\ UNCHANGED <<kind, launch, result, net, leg, parse, redirects, expired,
                   selected, tainted, done, freed>>

\* select(): the boot selector is written, may be written, or, only after a
\* validation failure, is known not to be.
Selections == {"yes", "maybe", "no"}

\* finish_image(): the one durable effect.
SelectBoot ==
    /\ at = "select"
    /\ IF ~alive
       THEN /\ Fail("Deadline", Borrowing)
            /\ UNCHANGED selected
       ELSE \E s \in Selections :
            /\ selected' = s
            /\ job' = [job EXCEPT !.retired = TRUE]
            /\ writer' = [writer EXCEPT !.uncertain = (s = "maybe")]
            /\ ReleaseIfSafe(CASE s = "yes" -> "Committed"
                               [] s = "maybe" -> "WriterUncertain"
                               [] OTHER -> "WriterError",
                             writer', Borrowing)
            /\ UNCHANGED flags
    /\ at' = AfterFailure
    /\ UNCHANGED <<kind, launch, result, net, leg, parse, redirects, expired,
                   tainted, done, freed>>

\* release() gives the block back; the lease follows when the outcome is
\* final and the writer idle.
Give ==
    /\ at = "give"
    /\ IF job.phase = "Borrowed"
       THEN /\ job' = [job EXCEPT !.phase = "Reading"]
            /\ IF outcome \in {"Working", "MetadataReady"}
               THEN UNCHANGED <<outcome, gate, released>>
               ELSE ReleaseIfSafe(outcome, writer, FALSE)
       ELSE /\ job' = [job EXCEPT !.retired = TRUE]
            /\ outcome' = "WriterUncertain"
            /\ UNCHANGED <<gate, released>>
    /\ at' = IF outcome' \in {"Working", "MetadataReady"} THEN "poll"
             ELSE "complete"
    /\ UNCHANGED <<kind, launch, result, net, leg, parse, flags, redirects,
                   expired, flashVars, done, freed>>

\* The manifest or the notes are complete and the connection is closed: the
\* task goes on to the next exchange, or ends here (up to date, a changed
\* candidate, a parse error, no memory).
NextLeg ==
    /\ at = "poll"
    /\ alive
    /\ outcome = "MetadataReady"
    /\ job.phase = "Closed"
    /\ \/ leg = "manifest" /\ leg' = "notes" /\ at' = "start"
       \/ kind = "install" /\ leg' = "image" /\ at' = "start"
       \/ at' = "complete" /\ UNCHANGED leg
    /\ UNCHANGED <<kind, jobVars, outcome, parse, flags, redirects, expired,
                   flashVars, leaseVars>>

\* The same point, left by cancel(): memory ran out, or the candidate is not
\* the confirmed one.
CancelLeg ==
    /\ at = "poll"
    /\ alive
    /\ outcome = "MetadataReady"
    /\ job.phase = "Closed"
    /\ \E why \in {"NoMemory", "ProtocolError"} : Fail(why, FALSE)
    /\ at' = "complete"
    /\ UNCHANGED <<kind, launch, result, net, leg, parse, redirects, expired,
                   selected, tainted, done, freed>>

\* ota_upload_impl(): refused, started, and then one received chunk at a time.
UploadStart ==
    /\ at = "launch"
    /\ kind = "upload"
    /\ IF alive
       THEN \/ outcome' = "Working" /\ at' = "poll"
            \/ UNCHANGED outcome /\ at' = "complete"
       ELSE UNCHANGED outcome /\ at' = "complete"
    /\ UNCHANGED <<kind, jobVars, leg, parse, flags, redirects, expired,
                   flashVars, leaseVars>>

UploadChunk ==
    /\ at \in {"poll", "checked"}
    /\ leg = "upload"
    /\ ~released
    /\ \/ /\ alive
          /\ writer.received < Blocks
          /\ at' = IF flags.begun THEN "write" ELSE "prefix"
          /\ UNCHANGED <<job, outcome, flags, writer, gate, released>>
       \/ /\ alive
          /\ writer.received = Blocks
          /\ at' = "end"
          /\ UNCHANGED <<job, outcome, flags, writer, gate, released>>
       \/ /\ Fail(IF alive THEN "NetworkError" ELSE "Deadline", FALSE)
          /\ at' = "complete"
    /\ UNCHANGED <<kind, launch, result, net, leg, parse, redirects, expired,
                   selected, tainted, done, freed>>

\* complete_operation() and the restart of a committed image. A job that
\* never had a worker is acknowledged first. What cannot be given back parks.
NoWorker == launch \in {"NotAttempted", "Refused"}

Complete ==
    /\ at = "complete"
    /\ LET j == IF NoWorker THEN [job EXCEPT !.phase = "Acked", !.retired = TRUE]
                ELSE job
       IN CASE ~released /\ outcome = "MetadataReady" ->
               /\ job' = [j EXCEPT !.retired = TRUE]
               /\ ReleaseIfSafe(IF alive THEN outcome ELSE "Deadline",
                                writer, FALSE)
            [] ~released /\ outcome \in {"Idle", "Working"} ->
               /\ job' = [j EXCEPT !.retired = TRUE]
               /\ ReleaseIfSafe("NetworkError", writer, FALSE)
            [] OTHER ->
               /\ job' = j
               /\ UNCHANGED <<outcome, gate, released>>
    /\ done' = released'
    /\ at' = IF released' THEN "ended"
             ELSE IF outcome' = "Committed" THEN "rebooting" ELSE "parked"
    /\ UNCHANGED <<kind, launch, result, net, leg, parse, flags, redirects,
                   expired, flashVars, freed>>

Coordinator ==
    \/ LaunchWorker \/ StartLeg \/ PollEnds \/ PollRedirect \/ PollBorrow
    \/ Use \/ CheckPrefix \/ Begin \/ Write \/ Apply \/ EndImage
    \/ SelectBoot \/ Give \/ NextLeg \/ CancelLeg \/ UploadStart \/ UploadChunk \/ Complete

----------------------------------------------------------------------------
(* The rest of the firmware.                                               *)

\* Budget::live() turns false, or the heap supervisor asks for an abort; both
\* are sticky for this operation and seen at the next check.
Expire ==
    /\ ~expired
    /\ expired' = TRUE
    /\ UNCHANGED <<kind, jobVars, coordVars, flashVars, leaseVars>>

\* reserve_operation() of a successor: under the gate it reclaims the old
\* operation, or finds that it may not and gives the gate back.
CanReclaim ==
    /\ done
    /\ released
    /\ job.phase = "Acked"
    /\ Quiescent(writer)

Reserve ==
    /\ gate = "Idle"
    /\ ~freed
    /\ gate' = "Successor"
    /\ freed' = CanReclaim
    /\ UNCHANGED <<kind, jobVars, coordVars, expired, flashVars, released, done>>

\* An identity change, a health commit or a restart takes the free gate; it
\* gives it back, as does the refused or finished successor.
OtherOwner ==
    /\ \/ gate = "Idle" /\ gate' = "Other"
       \/ gate \in {"Other", "Successor"} /\ gate' = "Idle"
    /\ UNCHANGED <<kind, jobVars, coordVars, expired, flashVars, released, done,
                   freed>>

----------------------------------------------------------------------------
Init ==
    /\ kind \in Kinds
    /\ launch = "NotAttempted"
    /\ job = [phase |-> "Idle", retired |-> FALSE, close |-> FALSE]
    /\ result = "NetworkError"
    /\ net = "none"
    /\ leg = IF kind = "upload" THEN "upload" ELSE "manifest"
    /\ at = "launch"
    /\ outcome = "Idle"
    /\ parse = "More"
    /\ flags = NoFlags
    /\ redirects = 0
    /\ expired = FALSE
    /\ writer = FreshWriter
    /\ selected = "no"
    /\ tainted = FALSE
    /\ gate = "Ota"
    /\ released = FALSE
    /\ done = FALSE
    /\ freed = FALSE

Next == Worker \/ Coordinator \/ Expire \/ Reserve \/ OtherOwner

\* The coordinator and time move on; the worker only between its SDK calls.
Fairness ==
    /\ WF_vars(Coordinator)
    /\ WF_vars(Expire)
    /\ WF_vars(NetIdle)
    /\ WF_vars(NetWaits)
    /\ WF_vars(NetPublishes)

Spec == Init /\ [][Next]_vars
FairSpec == Spec /\ Fairness

----------------------------------------------------------------------------
(* Properties.                                                             *)

TypeOK ==
    /\ kind \in Kinds
    /\ launch \in {"NotAttempted", "Unknown", "Started", "Refused"}
    /\ job \in [phase : Phases, retired : BOOLEAN, close : BOOLEAN]
    /\ result \in NetResults
    /\ net \in NetStates
    /\ leg \in Legs
    /\ at \in Places
    /\ outcome \in Outcomes
    /\ parse \in Parses
    /\ flags \in [begun : BOOLEAN, redirectWait : BOOLEAN, optional : BOOLEAN,
                  failed : BOOLEAN]
    /\ redirects \in 0..MaxRedirects
    /\ expired \in BOOLEAN
    /\ writer \in [hash : BOOLEAN, handle : BOOLEAN, uncertain : BOOLEAN,
                   validated : BOOLEAN, received : 0..Blocks]
    /\ selected \in {"no", "yes", "maybe"}
    /\ tainted \in BOOLEAN
    /\ gate \in {"Idle", "Ota", "Successor", "Other"}
    /\ released \in BOOLEAN
    /\ done \in BOOLEAN
    /\ freed \in BOOLEAN

\* The mailbox block has one user at a time: while the coordinator parses and
\* writes a borrowed block the worker waits in publish(), and the worker is
\* inside an SDK call only while the word says Reading, flags or not.
BlockHasOneUser ==
    /\ at \in {"use", "prefix", "begin", "write", "checked", "end", "select",
              "give"} /\ Borrowing
          => job.phase = "Borrowed" /\ net \in {"offered", "last"}
    /\ net = "sdk" => job.phase = "Reading"

\* Nothing else owns the operation gate while the flash writer holds a handle
\* or a hash, after a failed abort, or once the boot selector was or may have
\* been written: an identity journal, a health commit and a restart can never
\* cross an image write (release_if_safe, select_boot).
LeaseCoversEffects ==
    ~Quiescent(writer) \/ selected # "no" => gate = "Ota" /\ ~released

\* The memory of an operation is reclaimed only after both tasks made their
\* last access to it, also when the worker's creation was refused, threw, or
\* its TLS cleanup failed.
ReclaimedAfterBoth ==
    freed => net \in {"none", "gone"} /\ at = "ended"

\* A worker that may exist and has not acknowledged keeps the memory: an
\* uncertain launch or a failed cleanup is never taken for an acknowledgement.
NoFalseAck ==
    job.phase = "Acked" => net \in {"none", "gone"} /\ job.retired

\* The boot selector is only ever written for an image of exactly the
\* announced size and hash, received through one uninterrupted operation
\* whatever redirects, short reads and substituted blocks came before.
OnlyTheAnnouncedImage ==
    selected # "no" =>
        /\ writer.validated
        /\ writer.received = Blocks
        /\ kind = "install" => ~tainted
        /\ kind # "check"

\* A retired job is final: no block is published to the coordinator, nothing
\* more is written to flash, and the boot selector keeps its value.
RetiredIsFinal ==
    [][job.retired =>
        /\ job'.retired
        /\ job'.phase = "Full" => job.phase = "Full"
        /\ writer'.received = writer.received
        /\ selected' = selected]_vars

\* Whatever the network does, and although the worker may never return from
\* the SDK, the operation gives the gate back, reboots into the committed
\* image, or parks with an uncertain writer.
LeaseEnds == <>(released \/ at \in {"rebooting", "parked"})

\* Unless the SDK blocks for ever, a retired worker ends, so a later
\* reservation can reclaim the memory.
WorkerEnds ==
    <>[](net \in {"sdk", "destroy"}) \/ (job.retired ~> net \in {"none", "gone"})

\* What holds of the memory that TLS worker and coordinator share
\* (ota_transport.cpp:52, :195): one user of the block, no false
\* acknowledgement, and no access after the reclaim.
TransferSafe ==
    /\ TypeOK
    /\ BlockHasOneUser
    /\ ReclaimedAfterBoth
    /\ NoFalseAck

============================================================================
