--------------------------- MODULE ServicesProofs ----------------------------
(***************************************************************************)
(* The services of the device: the firmware transfer and the Home Assistant*)
(* bridge, each proved for all of its constants.                           *)
(***************************************************************************)
EXTENDS OtaTransfer, Mqtt, TLAPS

-----------------------------------------------------------------------------
(***************************************************************************)
(* For every image size and redirect limit: the coordinator and its worker *)
(* never share the mailbox block, the operation gate covers every flash    *)
(* effect, memory is reclaimed after both, only the announced image is     *)
(* ever selected, and a retired job is final.                              *)
(***************************************************************************)

Jobs == [phase : Phases, retired : BOOLEAN, close : BOOLEAN]
FlagSets == [begun : BOOLEAN, redirectWait : BOOLEAN, optional : BOOLEAN,
             failed : BOOLEAN]
Writers == [hash : BOOLEAN, handle : BOOLEAN, uncertain : BOOLEAN,
            validated : BOOLEAN, received : 0..Blocks]
Gates == {"Idle", "Ota", "Successor", "Other"}

\* Where the coordinator may hold the block, and where an operation is over.
Using == {"use", "prefix", "begin", "write", "checked", "end", "select", "give"}
Busy == {"launch", "start", "poll", "use", "prefix", "begin", "write",
         "checked", "end", "select"}
Final == {"Committed", "WriterUncertain"}
Reasons == {"Deadline", "ProtocolError", "NetworkError", "NoMemory",
            "WriterError"}

\* What the control word says about the worker.
MailboxPhase ==
    /\ net = "none" => job.phase \in {"Idle", "Acked"}
    /\ net = "idle" => job.phase \in {"Idle", "Requested", "Closed"}
    /\ net = "sdk" => job.phase = "Reading"
    /\ net \in {"offered", "last"} => job.phase \in {"Full", "Borrowed", "Reading"}
    /\ net \in {"destroy", "publish", "publishFailed"} =>
           job.phase \in {"Reading", "Full"}
    /\ net = "gone" => job.phase \in {"Acked", "CleanupFailed"}
    /\ job.phase = "Full" /\ ~Closing => net \in {"offered", "last"}
    /\ job.phase = "Acked" => job.retired

\* Which operations have a worker, and when the coordinator holds its block.
WorkerPlaces ==
    /\ at = "launch" => launch = "NotAttempted" /\ job.phase = "Idle"
    /\ NoWorker => net = "none"
    /\ at = "start" => net # "none"
    /\ kind = "upload" => launch = "NotAttempted"
    /\ leg = "upload" <=> kind = "upload"
    /\ leg = "image" => kind = "install"
    /\ at \in Using /\ leg # "upload" => job.phase = "Borrowed"
    /\ at \in {"use", "give"} => leg # "upload"

\* Who owns the gate, and until when.
LeaseInv ==
    /\ ~released => gate = "Ota"
    /\ released => /\ Quiescent(writer) /\ selected = "no"
                   /\ at \in {"complete", "ended"}
    /\ selected # "no" =>
          /\ outcome \in Final
          /\ at \in {"give", "complete", "parked", "rebooting"}
    /\ done => at = "ended" /\ released
    /\ freed => at = "ended" /\ job.phase = "Acked"

Announced ==
    /\ writer.validated /\ writer.received = Blocks
    /\ kind = "install" => ~tainted
    /\ kind # "check"

\* What the coordinator knows when it comes to select an image.
ImageInv ==
    /\ at = "select" \/ selected # "no" => Announced
    /\ at \in {"prefix", "begin", "write", "end", "select"} => IsImage
    /\ at = "end" /\ leg = "upload" => writer.received = Blocks

OtaInv == TypeOK /\ MailboxPhase /\ WorkerPlaces /\ LeaseInv /\ ImageInv

-----------------------------------------------------------------------------
(* The common ways out of the working state.                                *)

(* abort_() touches the writer and nothing else.                            *)
LEMMA AbortKeeps ==
    ASSUME NEW w \in Writers, NEW a \in Abort(w)
    PROVE  /\ a[1] \in Writers
           /\ a[1].received = w.received
           /\ a[1].validated = w.validated
<1> DEFINE idle == [w EXCEPT !.hash = FALSE, !.handle = FALSE]
           lost == [w EXCEPT !.uncertain = TRUE]
<1>1. \A x, y : <<x, y>>[1] = x
  OBVIOUS
<1>2. idle \in Writers /\ lost \in Writers
  BY DEF Writers
<1>3. /\ idle.received = w.received /\ lost.received = w.received
      /\ idle.validated = w.validated /\ lost.validated = w.validated
  BY DEF Writers
<1>4. a \in {<<w, FALSE>>, <<idle, TRUE>>, <<lost, FALSE>>}
  BY Zenon DEF Abort
<1> HIDE DEF idle, lost
<1>5. a[1] \in {w, idle, lost}
  BY <1>1, <1>4, Zenon
<1> QED
  BY <1>2, <1>3, <1>5

\* What release_if_safe() does to the lease: it is given back only by an
\* operation without a borrowed block, a busy writer or a final outcome.
ReleasePost(out, w, borrowed) ==
    /\ released' \in BOOLEAN /\ gate' \in Gates
    /\ outcome' \in {out, "WriterUncertain"}
    /\ released => released' /\ gate' = gate
    /\ ~released' => gate' = gate
    /\ ~released /\ released' =>
          ~borrowed /\ Quiescent(w) /\ out \notin Final /\ outcome' = out

(* What release_if_safe() leaves of the gate.                               *)
LEMMA ReleaseEffects ==
    ASSUME TypeOK, NEW out, NEW w, NEW b \in BOOLEAN, ReleaseIfSafe(out, w, b)
    PROVE  ReleasePost(out, w, b)
<1> DEFINE refused == released \/ out \in Final \/ b \/ ~Quiescent(w)
<1>1. /\ released' = (released \/ (~refused /\ gate = "Ota"))
      /\ gate' = IF ~refused /\ gate = "Ota" THEN "Idle" ELSE gate
      /\ outcome' = IF ~refused /\ gate # "Ota" THEN "WriterUncertain" ELSE out
  BY DEF ReleaseIfSafe, Final
<1>2. released \in BOOLEAN /\ gate \in Gates
  BY DEF TypeOK, Gates
<1>3. released' \in BOOLEAN
  BY <1>1, <1>2
<1> QED
  BY <1>1, <1>2, <1>3 DEF ReleasePost, Gates

\* A step that leaves the working state, as the lease and the mailbox see it.
Leaves(borrowed) ==
    /\ job' \in Jobs /\ outcome' \in Outcomes /\ flags' \in FlagSets
    /\ writer' \in Writers /\ gate' \in Gates /\ released' \in BOOLEAN
    /\ job'.phase = job.phase
    /\ job.retired => job'.retired
    /\ job.close => job'.close
    /\ ~released' => gate' = gate
    /\ ~released /\ released' => ~borrowed /\ Quiescent(writer')

(* fail() leaves the working state.                                         *)
LEMMA FailLeaves ==
    ASSUME TypeOK, NEW reason \in Reasons, NEW b \in BOOLEAN, Fail(reason, b)
    PROVE  /\ Leaves(b)
           /\ writer'.received = writer.received
<1>0. /\ job \in Jobs /\ flags \in FlagSets /\ writer \in Writers
      /\ gate \in Gates /\ released \in BOOLEAN /\ outcome \in Outcomes
  BY DEF TypeOK, Jobs, FlagSets, Writers, Gates
<1>1. CASE UNCHANGED <<job, outcome, flags, writer, gate, released>>
  BY <1>0, <1>1 DEF Leaves
<1>2. CASE /\ flags' = [flags EXCEPT !.failed = TRUE]
           /\ job' = [job EXCEPT !.close = TRUE]
           /\ outcome' = "MetadataReady"
           /\ UNCHANGED <<writer, gate, released>>
  BY <1>0, <1>2 DEF Leaves, Jobs, FlagSets, Outcomes
<1>3. ASSUME NEW w \in Writers, NEW out \in Reasons \cup {"WriterUncertain"},
             job' = [job EXCEPT !.retired = TRUE], flags' = flags,
             writer' = w, ReleaseIfSafe(out, w, b)
      PROVE  Leaves(b)
  <2>1. ReleasePost(out, w, b)
    BY <1>3, ReleaseEffects
  <2>2. /\ job' \in Jobs /\ job'.phase = job.phase /\ job'.retired
        /\ job'.close = job.close
    BY <1>0, <1>3 DEF Jobs
  <2> QED
    BY <1>0, <1>3, <2>1, <2>2 DEF Leaves, ReleasePost, Outcomes, Reasons
<1>4. CASE /\ job' = [job EXCEPT !.retired = TRUE]
           /\ IF Quiescent(writer)
              THEN /\ writer' = writer
                   /\ ReleaseIfSafe(reason, writer, b)
              ELSE \E a \in Abort(writer) :
                      /\ writer' = a[1]
                      /\ ReleaseIfSafe(IF a[2] THEN reason ELSE "WriterUncertain",
                                       a[1], b)
           /\ UNCHANGED flags
  <2>1. CASE Quiescent(writer)
    BY <1>0, <1>3, <1>4, <2>1
  <2>2. CASE ~Quiescent(writer)
    <3>1. PICK a \in Abort(writer) :
             /\ writer' = a[1]
             /\ ReleaseIfSafe(IF a[2] THEN reason ELSE "WriterUncertain",
                              a[1], b)
      BY <1>4, <2>2
    <3>2. a[1] \in Writers /\ a[1].received = writer.received
      BY <1>0, AbortKeeps
    <3> DEFINE out == IF a[2] THEN reason ELSE "WriterUncertain"
    <3>3. out \in Reasons \cup {"WriterUncertain"}
      OBVIOUS
    <3> HIDE DEF out
    <3>4. ReleaseIfSafe(out, a[1], b)
      BY <3>1 DEF out
    <3> QED
      BY <1>3, <1>4, <3>1, <3>2, <3>3, <3>4
  <2> QED
    BY <2>1, <2>2
<1> QED
  BY <1>1, <1>2, <1>4 DEF Fail

(* Leaving the working state keeps the invariant, whatever was going on.    *)
LEMMA LeaveStep ==
    ASSUME OtaInv, at \in Busy, NEW b \in BOOLEAN, Leaves(b),
           UNCHANGED <<kind, launch, result, net, leg, parse, expired,
                       redirects, selected, tainted, done, freed>>,
           \/ at' = "complete"
           \/ at' = "give" /\ b /\ leg # "upload" /\ job.phase = "Borrowed"
    PROVE  OtaInv'
<1>1. TypeOK'
  BY DEF OtaInv, TypeOK, Leaves, Jobs, FlagSets, Writers, Gates, Places
<1>2. MailboxPhase'
  BY DEF OtaInv, MailboxPhase, Leaves, Closing
<1>3. WorkerPlaces'
  BY DEF OtaInv, WorkerPlaces, Leaves, Using, NoWorker
<1>4. ~released /\ selected = "no" /\ ~done /\ ~freed
  BY DEF OtaInv, LeaseInv, Busy
<1>5. LeaseInv'
  BY <1>4 DEF OtaInv, LeaseInv, Leaves
<1>6. ImageInv'
  BY <1>4 DEF ImageInv
<1> QED
  BY <1>1, <1>2, <1>3, <1>5, <1>6 DEF OtaInv

\* The variables a failing step of the coordinator leaves alone.
Untouched == <<kind, launch, result, net, leg, parse, expired, redirects,
               selected, tainted, done, freed>>

(* fail() from any working place, with the block given back afterwards.     *)
LEMMA FailStep ==
    ASSUME OtaInv, at \in Busy, NEW reason \in Reasons, NEW b \in BOOLEAN,
           Fail(reason, b), UNCHANGED Untouched,
           \/ at' = "complete"
           \/ at' = "give" /\ b /\ leg # "upload" /\ job.phase = "Borrowed"
    PROVE  OtaInv'
<1>1. Leaves(b)
  BY FailLeaves DEF OtaInv
<1> QED
  BY <1>1, LeaveStep DEF Untouched

-----------------------------------------------------------------------------
(* The worker's steps touch the control word, its own place and the result. *)
LEMMA WorkerStep == OtaInv /\ Worker => OtaInv'
<1> SUFFICES ASSUME OtaInv, Worker
             PROVE  OtaInv'
  OBVIOUS
<1>1. UNCHANGED <<kind, launch, coordVars, expired, flashVars, leaseVars>>
  BY DEF Worker, NetIdle, NetReturns, NetWaits, NetDestroys, NetPublishes,
         jobVars
<1>2. job \in Jobs /\ net \in NetStates /\ result \in NetResults
  BY DEF OtaInv, TypeOK, Jobs
<1>3. /\ job' \in Jobs /\ net' \in NetStates /\ result' \in NetResults
      /\ job.retired => job'.retired
      /\ job.phase = "Borrowed" => job' = job
      /\ job.phase = "Acked" => job' = job
      /\ net # "none" /\ net' # "none"
      /\ job.phase # "Borrowed" => job'.phase # "Borrowed"
      /\ MailboxPhase'
  <2>1. CASE NetIdle
    BY <1>2, <2>1
       DEF NetIdle, Jobs, Phases, NetStates, OtaInv, MailboxPhase, Closing
  <2>2. CASE NetReturns
    BY <1>2, <2>2
       DEF NetReturns, Jobs, Phases, NetStates, OtaInv, MailboxPhase, Closing
  <2>3. CASE NetWaits
    BY <1>2, <2>3
       DEF NetWaits, Jobs, Phases, NetStates, OtaInv, MailboxPhase, Closing
  <2>4. CASE NetDestroys
    BY <1>2, <2>4
       DEF NetDestroys, Jobs, Phases, NetStates, OtaInv, MailboxPhase, Closing
  <2>5. CASE NetPublishes
    <3>1. job' \in Jobs
      BY <1>2, <2>5 DEF NetPublishes, Jobs, Phases
    <3>2. /\ job'.close /\ job'.retired = job.retired
          /\ \/ job'.phase = "CleanupFailed" /\ net' = "gone"
             \/ job'.phase = "Acked" /\ job.retired /\ net' = "gone"
             \/ job'.phase = "Closed" /\ net' = "idle"
      BY <1>2, <2>5 DEF NetPublishes, Jobs
    <3> QED
      BY <1>2, <2>5, <3>1, <3>2
         DEF NetPublishes, NetStates, OtaInv, MailboxPhase, Closing
  <2> QED
    BY <2>1, <2>2, <2>3, <2>4, <2>5 DEF Worker
<1>4. TypeOK'
  BY <1>1, <1>3 DEF OtaInv, TypeOK, coordVars, flashVars, leaseVars, Jobs
<1>5. WorkerPlaces'
  <2>1. ~NoWorker
    BY <1>3 DEF OtaInv, WorkerPlaces
  <2> QED
    BY <1>1, <1>3, <2>1
       DEF OtaInv, WorkerPlaces, coordVars, Using, NoWorker
<1>6. LeaseInv'
  BY <1>1, <1>3 DEF OtaInv, LeaseInv, coordVars, flashVars, leaseVars, Quiescent
<1>7. ImageInv'
  BY <1>1 DEF OtaInv, ImageInv, Announced, IsImage, coordVars, flashVars
<1> QED
  BY <1>3, <1>4, <1>5, <1>6, <1>7 DEF OtaInv

-----------------------------------------------------------------------------
(* The coordinator's steps.                                                 *)

(* The coordinator creates the worker, or has to do without.                *)
LEMMA LaunchStep == OtaInv /\ LaunchWorker => OtaInv'
<1> SUFFICES ASSUME OtaInv, LaunchWorker
             PROVE  OtaInv'
  OBVIOUS
<1>1. /\ UNCHANGED <<kind, result, leg, parse, flags, redirects, expired,
                     writer, selected, tainted, done, freed>>
      /\ at = "launch" /\ kind # "upload" /\ job \in Jobs
      /\ net = "none" /\ job.phase = "Idle" /\ launch = "NotAttempted"
  BY DEF LaunchWorker, flashVars, OtaInv, TypeOK, WorkerPlaces, Jobs, NoWorker
<1>2. ~released /\ selected = "no" /\ ~done /\ ~freed /\ gate = "Ota"
  BY <1>1 DEF OtaInv, LeaseInv
<1>3. CASE /\ launch' = "Started" /\ net' = "idle" /\ at' = "start"
           /\ UNCHANGED <<job, outcome, gate, released>>
  BY <1>1, <1>2, <1>3
     DEF OtaInv, TypeOK, MailboxPhase, WorkerPlaces, LeaseInv, ImageInv,
         NetStates, Places, Using, NoWorker, Closing
<1>4. ASSUME NEW out \in {"NetworkError", "Deadline"},
             ReleaseIfSafe(out, writer, FALSE),
             job' \in Jobs, job'.retired, at' = "complete",
             launch' \in {"NotAttempted", "Unknown", "Refused"},
             \/ launch' = "Unknown" /\ net' \in {"none", "idle"}
                /\ job'.phase = "Idle"
             \/ net' = "none" /\ job'.phase = "Acked"
      PROVE  OtaInv'
  <2>1. ReleasePost(out, writer, FALSE)
    BY <1>4, ReleaseEffects DEF OtaInv
  <2>2. TypeOK'
    BY <1>1, <1>4, <2>1
       DEF OtaInv, TypeOK, ReleasePost, Jobs, Outcomes, NetStates, Places, Gates
  <2>3. MailboxPhase' /\ WorkerPlaces'
    BY <1>1, <1>4
       DEF OtaInv, MailboxPhase, WorkerPlaces, Closing, NoWorker, Using
  <2>4. LeaseInv' /\ ImageInv'
    BY <1>1, <1>2, <1>4, <2>1
       DEF ReleasePost, LeaseInv, ImageInv, Quiescent
  <2> QED
    BY <2>2, <2>3, <2>4 DEF OtaInv
<1>5. CASE /\ launch' = "Unknown" /\ net' \in {"none", "idle"}
           /\ job' = [job EXCEPT !.retired = TRUE]
           /\ ReleaseIfSafe("NetworkError", writer, FALSE)
           /\ at' = "complete"
  <2>1. job' \in Jobs /\ job'.retired /\ job'.phase = "Idle"
    BY <1>1, <1>5 DEF Jobs
  <2> QED
    BY <1>4, <1>5, <2>1
<1>6. CASE /\ \/ launch' = "Refused"
              \/ UNCHANGED launch
           /\ job' = [job EXCEPT !.phase = "Acked", !.retired = TRUE]
           /\ ReleaseIfSafe(IF expired THEN "Deadline" ELSE "NetworkError",
                            writer, FALSE)
           /\ at' = "complete"
           /\ UNCHANGED net
  <2>1. job' \in Jobs /\ job'.retired /\ job'.phase = "Acked"
    BY <1>1, <1>6 DEF Jobs, Phases
  <2>2. PICK out \in {"NetworkError", "Deadline"} :
           ReleaseIfSafe(out, writer, FALSE)
    BY <1>6
  <2> QED
    BY <1>1, <1>4, <1>6, <2>1, <2>2
<1> QED
  BY <1>3, <1>5, <1>6 DEF LaunchWorker

(* An exchange is opened.                                                   *)
LEMMA StartLegStep == OtaInv /\ StartLeg => OtaInv'
<1> SUFFICES ASSUME OtaInv, StartLeg
             PROVE  OtaInv'
  OBVIOUS
<1>1. CASE /\ alive
           /\ job.phase \in {"Idle", "Closed"}
           /\ job' = [phase |-> "Requested", retired |-> FALSE, close |-> FALSE]
           /\ outcome' = "Working"
           /\ flags' = [NoFlags EXCEPT !.optional = (leg = "notes")]
           /\ redirects' = 0
           /\ at' = "poll"
           /\ UNCHANGED <<writer, gate, released>>
  <2>1. flags' \in FlagSets
    BY <1>1 DEF NoFlags, FlagSets
  <2>2. /\ UNCHANGED <<kind, launch, result, net, leg, parse, expired, selected,
                       tainted, done, freed>>
        /\ at = "start" /\ net \in NetStates
    BY DEF StartLeg, OtaInv, TypeOK
  <2>3. /\ job'.phase = "Requested" /\ ~job'.retired /\ ~job'.close
        /\ job' \in Jobs
    BY <1>1 DEF Jobs, Phases
  <2>4. TypeOK'
    BY <1>1, <2>1, <2>2, <2>3, RedirectAssumption
       DEF OtaInv, TypeOK, Jobs, FlagSets, Outcomes, Places
  <2>5. net = "idle"
    <3>1. net # "none"
      BY <2>2 DEF OtaInv, WorkerPlaces
    <3> QED
      BY <1>1, <2>2, <3>1 DEF OtaInv, MailboxPhase, NetStates
  <2>6. MailboxPhase'
    BY <2>2, <2>3, <2>5 DEF MailboxPhase
  <2>7. WorkerPlaces'
    BY <1>1, <2>2 DEF OtaInv, WorkerPlaces, NoWorker, Using
  <2>8. LeaseInv' /\ ImageInv'
    BY <1>1, <2>2 DEF OtaInv, LeaseInv, ImageInv, Quiescent
  <2> QED
    BY <2>4, <2>6, <2>7, <2>8 DEF OtaInv
<1>2. CASE /\ Fail(IF expired THEN "Deadline" ELSE "ProtocolError", FALSE)
           /\ at' = "complete"
           /\ UNCHANGED redirects
  <2>1. PICK why \in Reasons : Fail(why, FALSE)
    BY <1>2 DEF Reasons
  <2> QED
    BY <1>2, <2>1, FailStep DEF StartLeg, Untouched, Busy
<1> QED
  BY <1>1, <1>2 DEF StartLeg

(* The two ends of a poll without a block, and the steps between blocks.    *)
LEMMA PollStep == OtaInv /\ (PollEnds \/ PollRedirect \/ PollBorrow) => OtaInv'
<1> SUFFICES ASSUME OtaInv, PollEnds \/ PollRedirect \/ PollBorrow
             PROVE  OtaInv'
  OBVIOUS
<1>0. /\ at = "poll" /\ job \in Jobs /\ flags \in FlagSets
      /\ writer \in Writers /\ net \in NetStates
  BY DEF PollEnds, PollRedirect, PollBorrow, OtaInv, TypeOK, Jobs, FlagSets,
         Writers
<1>1. CASE PollEnds
  <2>1. PICK a \in (IF Quiescent(writer) THEN {<<writer, TRUE>>}
                    ELSE Abort(writer)) :
           /\ writer' = a[1]
           /\ ReleaseIfSafe(IF ~a[2] THEN "WriterUncertain"
                            ELSE IF alive THEN "NetworkError" ELSE "Deadline",
                            a[1], FALSE)
    BY <1>1 DEF PollEnds
  <2>2. writer' \in Writers
    <3>1. CASE Quiescent(writer)
      <4>1. a = <<writer, TRUE>>
        BY <2>1, <3>1
      <4>2. a[1] = writer
        BY <4>1
      <4> QED
        BY <1>0, <2>1, <4>2
    <3>2. CASE ~Quiescent(writer)
      BY <1>0, <2>1, <3>2, AbortKeeps
    <3> QED
      BY <3>1, <3>2
  <2>3. PICK out \in Reasons \cup {"WriterUncertain"} :
           ReleaseIfSafe(out, writer', FALSE)
    BY <2>1 DEF Reasons
  <2>4. ReleasePost(out, writer', FALSE)
    BY <2>3, ReleaseEffects DEF OtaInv
  <2>5. /\ job' \in Jobs /\ job'.phase = job.phase /\ job'.retired
        /\ job'.close = job.close
        /\ flags' \in FlagSets
    BY <1>0, <1>1 DEF PollEnds, Jobs, FlagSets
  <2>6. Leaves(FALSE)
    BY <2>2, <2>4, <2>5 DEF Leaves, ReleasePost, Outcomes, Reasons
  <2> QED
    BY <1>0, <1>1, <2>6, LeaveStep DEF PollEnds, Busy
<1>2. CASE PollRedirect
  <2>1. /\ job'.phase = "Requested" /\ ~job'.retired /\ ~job'.close
        /\ job' \in Jobs /\ flags' \in FlagSets
        /\ UNCHANGED <<kind, launch, result, net, leg, at, outcome, parse,
                       redirects, expired, flashVars, leaseVars>>
    BY <1>0, <1>2 DEF PollRedirect, Jobs, Phases, FlagSets
  <2>2. net = "idle"
    BY <1>0, <1>2 DEF PollRedirect, OtaInv, MailboxPhase, NetStates
  <2>3. TypeOK'
    BY <2>1 DEF OtaInv, TypeOK, Jobs, FlagSets, flashVars, leaseVars
  <2>4. MailboxPhase' /\ WorkerPlaces'
    BY <1>0, <2>1, <2>2
       DEF OtaInv, MailboxPhase, WorkerPlaces, NoWorker, Using
  <2>5. LeaseInv' /\ ImageInv'
    BY <1>0, <2>1
       DEF OtaInv, LeaseInv, ImageInv, Announced, IsImage, Quiescent,
           flashVars, leaseVars
  <2> QED
    BY <2>3, <2>4, <2>5 DEF OtaInv
<1>3. CASE PollBorrow
  <2>1. /\ job'.phase = "Borrowed" /\ job' \in Jobs /\ at' = "use"
        /\ ~Closing /\ job.phase = "Full"
        /\ UNCHANGED <<kind, launch, result, net, leg, outcome, parse, flags,
                       redirects, expired, flashVars, leaseVars>>
    BY <1>0, <1>3 DEF PollBorrow, Jobs, Phases, Closing
  <2>2. net \in {"offered", "last"}
    BY <2>1 DEF OtaInv, MailboxPhase
  <2>3. TypeOK'
    BY <2>1 DEF OtaInv, TypeOK, Jobs, Places, flashVars, leaseVars
  <2>4. leg # "upload"
    BY <2>2 DEF OtaInv, WorkerPlaces, NoWorker
  <2>5. MailboxPhase' /\ WorkerPlaces'
    BY <2>1, <2>2, <2>4 DEF OtaInv, MailboxPhase, WorkerPlaces, NoWorker
  <2>6. LeaseInv' /\ ImageInv'
    BY <1>0, <2>1
       DEF OtaInv, LeaseInv, ImageInv, Announced, Quiescent, flashVars,
           leaseVars
  <2> QED
    BY <2>3, <2>5, <2>6 DEF OtaInv
<1> QED
  BY <1>1, <1>2, <1>3

\* What every step inside the working state starts from.
LEMMA BusyFacts ==
    ASSUME OtaInv, at \in Busy
    PROVE  /\ ~released /\ selected = "no" /\ ~done /\ ~freed /\ gate = "Ota"
           /\ job \in Jobs /\ flags \in FlagSets /\ writer \in Writers
           /\ outcome \in Outcomes
           /\ at \in Using /\ leg # "upload" => job.phase = "Borrowed"
BY DEF OtaInv, TypeOK, LeaseInv, WorkerPlaces, Jobs, FlagSets, Writers, Busy

(* A step from one working place to another keeps lease and mailbox.        *)
LEMMA MoveStep ==
    ASSUME OtaInv, at \in Busy, at # "launch",
           UNCHANGED <<kind, launch, result, net, leg, expired, selected,
                       gate, released, done, freed>>,
           job' \in Jobs, job'.phase = job.phase, job'.retired = job.retired,
           job.close => job'.close,
           flags' \in FlagSets, writer' \in Writers, outcome' \in Outcomes,
           parse' \in Parses, tainted' \in BOOLEAN,
           redirects' \in 0..MaxRedirects,
           \/ at \in Using /\ at' \in Using
           \/ at' \in {"prefix", "write", "end", "poll", "checked"} /\ leg = "upload",
           at' \in {"use", "give"} => leg # "upload",
           ImageInv'
    PROVE  OtaInv'
<1>1. ~released /\ selected = "no" /\ ~done /\ ~freed /\ gate = "Ota"
  BY BusyFacts
<1>2. at' \in Places /\ at' # "launch" /\ at' # "start"
  BY DEF Places, Using
<1>3. TypeOK'
  BY <1>2 DEF OtaInv, TypeOK, Jobs, FlagSets, Writers
<1>4. MailboxPhase'
  BY DEF OtaInv, MailboxPhase, Closing
<1>5. WorkerPlaces'
  BY <1>2 DEF OtaInv, WorkerPlaces, NoWorker
<1>6. LeaseInv'
  BY <1>1 DEF LeaseInv
<1> QED
  BY <1>3, <1>4, <1>5, <1>6 DEF OtaInv

(* A failed effect of the writer.                                           *)
LEMMA FailAfter ==
    ASSUME OtaInv, at \in Busy \cap Using, NEW reason \in Reasons,
           Fail(reason, Borrowing), at' = AfterFailure, UNCHANGED Untouched
    PROVE  OtaInv'
<1>1. Borrowing \in BOOLEAN
  BY DEF Borrowing
<1>2. \/ at' = "complete"
      \/ at' = "give" /\ Borrowing /\ leg # "upload" /\ job.phase = "Borrowed"
  BY BusyFacts DEF AfterFailure, Borrowing
<1> QED
  BY <1>1, <1>2, FailStep

(* The borrowed block is parsed.                                            *)
LEMMA UseStep == OtaInv /\ Use => OtaInv'
<1> SUFFICES ASSUME OtaInv, Use
             PROVE  OtaInv'
  OBVIOUS
<1>1. at = "use" /\ leg # "upload" /\ job.phase = "Borrowed" /\ at \in Busy
  BY DEF Use, OtaInv, WorkerPlaces, Using, Busy
<1>2. CASE ~alive \/ result \notin {"Data", "Eof"}
  <2>1. PICK why \in Reasons : Fail(why, TRUE)
    BY <1>2 DEF Use, Reasons
  <2> QED
    BY <1>1, <1>2, <2>1, FailStep DEF Use, Untouched
<1>3. CASE alive /\ result \in {"Data", "Eof"}
  <2>1. /\ parse' \in ParseOf(result)
        /\ \/ IsImage /\ at' = (IF flags.begun THEN "write" ELSE "prefix")
              /\ tainted' \in {tainted, TRUE}
           \/ at' = "checked" /\ UNCHANGED tainted
        /\ UNCHANGED <<job, outcome, flags, writer, gate, released, kind,
                       launch, result, net, leg, redirects, expired, selected,
                       done, freed>>
    BY <1>3 DEF Use
  <2>2. parse' \in Parses
    BY <1>3, <2>1 DEF ParseOf, Parses, ParseEof
  <2>3. tainted' \in BOOLEAN /\ redirects' \in 0..MaxRedirects
    BY <2>1 DEF OtaInv, TypeOK
  <2>4. ImageInv'
    BY <1>1, <2>1, BusyFacts DEF ImageInv, IsImage
  <2> QED
    BY <1>1, <2>1, <2>2, <2>3, <2>4, BusyFacts, MoveStep DEF Using
<1> QED
  BY <1>2, <1>3

(* The prefix decides whether the image is the announced one.               *)
LEMMA CheckPrefixStep == OtaInv /\ CheckPrefix => OtaInv'
<1> SUFFICES ASSUME OtaInv, CheckPrefix
             PROVE  OtaInv'
  OBVIOUS
<1>1. at = "prefix" /\ at \in Busy \cap Using /\ IsImage
  BY DEF CheckPrefix, Busy, Using, OtaInv, ImageInv
<1>2. CASE at' = "begin" /\ UNCHANGED <<job, outcome, flags, writer, gate, released>>
  <2>1. /\ UNCHANGED Untouched
        /\ parse \in Parses /\ tainted \in BOOLEAN /\ redirects \in 0..MaxRedirects
    BY DEF CheckPrefix, OtaInv, TypeOK, Untouched
  <2>2. ImageInv'
    BY <1>1, <1>2, <2>1, BusyFacts DEF ImageInv, IsImage, Untouched
  <2> QED
    BY <1>1, <1>2, <2>1, <2>2, BusyFacts, MoveStep DEF Untouched, Using
<1>3. CASE /\ Fail(IF alive THEN "ProtocolError" ELSE "Deadline", Borrowing)
           /\ at' = AfterFailure
  <2>1. PICK why \in Reasons : Fail(why, Borrowing)
    BY <1>3 DEF Reasons
  <2> QED
    BY <1>1, <1>3, <2>1, FailAfter DEF CheckPrefix, Untouched
<1> QED
  BY <1>2, <1>3 DEF CheckPrefix

(* esp_ota_begin() opens the partition.                                     *)
LEMMA BeginStep == OtaInv /\ Begin => OtaInv'
<1> SUFFICES ASSUME OtaInv, Begin
             PROVE  OtaInv'
  OBVIOUS
<1>1. /\ at = "begin" /\ at \in Busy \cap Using /\ IsImage
      /\ UNCHANGED Untouched
      /\ parse \in Parses /\ tainted \in BOOLEAN /\ redirects \in 0..MaxRedirects
  BY DEF Begin, Busy, Using, OtaInv, ImageInv, Untouched, TypeOK
<1>2. \A w, ok : BeginWriter(w, ok) \subseteq Writers
  <2>1. {FALSE} \subseteq BOOLEAN /\ {0} \subseteq 0..Blocks
    BY BlocksAssumption
  <2>2. [hash : BOOLEAN, handle : BOOLEAN, uncertain : BOOLEAN,
         validated : {FALSE}, received : {0}] \subseteq Writers
    BY <2>1, Zenon DEF Writers
  <2> QED
    BY <2>2, Zenon DEF BeginWriter
<1>3. CASE Fail("Deadline", Borrowing) /\ at' = AfterFailure
  BY <1>1, <1>3, FailAfter DEF Reasons
<1>4. CASE /\ writer' \in BeginWriter(writer, TRUE)
           /\ flags' = [flags EXCEPT !.begun = TRUE]
           /\ at' = "write"
           /\ UNCHANGED <<job, outcome, gate, released>>
  <2>1. writer' \in Writers /\ flags' \in FlagSets
    BY <1>2, <1>4, BusyFacts, <1>1 DEF FlagSets
  <2>2. ImageInv'
    BY <1>1, <1>4, BusyFacts DEF ImageInv, IsImage, Untouched
  <2> QED
    BY <1>1, <1>4, <2>1, <2>2, BusyFacts, MoveStep DEF Untouched, Using
<1>5. CASE /\ \E w \in BeginWriter(writer, FALSE),
                 why \in {"NoMemory", "WriterError"} :
              \E a \in (IF Quiescent(w) THEN {<<w, TRUE>>} ELSE Abort(w)) :
                 /\ writer' = a[1]
                 /\ ReleaseIfSafe(IF a[2] THEN why ELSE "WriterUncertain",
                                  a[1], Borrowing)
           /\ job' = [job EXCEPT !.retired = TRUE]
           /\ at' = AfterFailure
           /\ UNCHANGED flags
  <2>0. PICK w \in BeginWriter(writer, FALSE),
             why \in {"NoMemory", "WriterError"} :
           \E a \in (IF Quiescent(w) THEN {<<w, TRUE>>} ELSE Abort(w)) :
              /\ writer' = a[1]
              /\ ReleaseIfSafe(IF a[2] THEN why ELSE "WriterUncertain",
                               a[1], Borrowing)
    BY <1>5
  <2>1. PICK a \in (IF Quiescent(w) THEN {<<w, TRUE>>} ELSE Abort(w)) :
           /\ writer' = a[1]
           /\ ReleaseIfSafe(IF a[2] THEN why ELSE "WriterUncertain",
                            a[1], Borrowing)
    BY <2>0
  <2>2. writer' \in Writers
    <3>1. CASE Quiescent(w)
      <4>1. a = <<w, TRUE>>
        BY <2>1, <3>1
      <4>2. a[1] = w
        BY <4>1
      <4> QED
        BY <1>2, <2>1, <4>2
    <3>2. CASE ~Quiescent(w)
      BY <1>2, <2>1, <3>2, AbortKeeps
    <3> QED
      BY <3>1, <3>2
  <2>3. PICK out \in Reasons \cup {"WriterUncertain"} :
           ReleaseIfSafe(out, writer', Borrowing)
    BY <2>1 DEF Reasons
  <2>4. Borrowing \in BOOLEAN
    BY DEF Borrowing
  <2>5. ReleasePost(out, writer', Borrowing)
    BY <2>3, <2>4, ReleaseEffects DEF OtaInv
  <2>6. /\ job' \in Jobs /\ job'.phase = job.phase /\ job'.retired
        /\ job'.close = job.close
    BY <1>1, <1>5, BusyFacts DEF Jobs
  <2>7. Leaves(Borrowing)
    BY <1>1, <1>5, <2>2, <2>5, <2>6, BusyFacts
       DEF Leaves, ReleasePost, Outcomes, Reasons
  <2>8. \/ at' = "complete"
        \/ at' = "give" /\ Borrowing /\ leg # "upload" /\ job.phase = "Borrowed"
    BY <1>1, <1>5, BusyFacts DEF AfterFailure, Borrowing
  <2> QED
    BY <1>1, <2>4, <2>7, <2>8, LeaveStep DEF Untouched
<1> QED
  BY <1>3, <1>4, <1>5 DEF Begin

(* A block goes to flash.                                                   *)
LEMMA WriteStep == OtaInv /\ Write => OtaInv'
<1> SUFFICES ASSUME OtaInv, Write
             PROVE  OtaInv'
  OBVIOUS
<1>1. /\ at = "write" /\ at \in Busy \cap Using /\ IsImage
      /\ UNCHANGED Untouched
      /\ parse \in Parses /\ tainted \in BOOLEAN /\ redirects \in 0..MaxRedirects
  BY DEF Write, Busy, Using, OtaInv, ImageInv, Untouched, TypeOK
<1>2. CASE /\ writer.received < Blocks
           /\ writer' = [writer EXCEPT !.received = @ + 1]
           /\ at' = "checked"
           /\ UNCHANGED <<job, outcome, flags, gate, released>>
  <2>1. writer' \in Writers
    BY <1>1, <1>2, BusyFacts, BlocksAssumption DEF Writers
  <2>2. ImageInv'
    BY <1>1, <1>2, BusyFacts DEF ImageInv, Untouched
  <2> QED
    BY <1>1, <1>2, <2>1, <2>2, BusyFacts, MoveStep DEF Untouched, Using
<1>3. CASE /\ \E why \in {"NoMemory", "WriterError"} :
                 Fail(IF alive THEN why ELSE "Deadline", Borrowing)
           /\ at' = AfterFailure
  <2>1. PICK why \in Reasons : Fail(why, Borrowing)
    BY <1>3 DEF Reasons
  <2> QED
    BY <1>1, <1>3, <2>1, FailAfter
<1> QED
  BY <1>2, <1>3 DEF Write

(* What was read is parsed or handed on.                                    *)
LEMMA ApplyStep == OtaInv /\ Apply => OtaInv'
<1> SUFFICES ASSUME OtaInv, Apply
             PROVE  OtaInv'
  OBVIOUS
<1>1. /\ at = "checked" /\ at \in Busy \cap Using /\ leg # "upload"
      /\ job.phase = "Borrowed"
      /\ UNCHANGED <<kind, launch, result, net, leg, parse, expired, selected,
                     tainted, done, freed>>
      /\ parse \in Parses /\ tainted \in BOOLEAN
      /\ redirects \in 0..MaxRedirects /\ selected = "no"
  BY BusyFacts DEF Apply, Busy, Using, OtaInv, TypeOK, WorkerPlaces
<1>2. ASSUME NEW why \in Reasons, Fail(why, TRUE), at' = "give",
             UNCHANGED redirects
      PROVE  OtaInv'
  BY <1>1, <1>2, FailStep DEF Untouched
<1>3. ASSUME at' \in {"give", "end"}, at' = "end" => IsImage,
             job' \in Jobs, job'.phase = job.phase,
             job'.retired = job.retired, job.close => job'.close,
             flags' \in FlagSets, outcome' \in Outcomes,
             redirects' \in 0..MaxRedirects,
             UNCHANGED <<writer, gate, released>>
      PROVE  OtaInv'
  <2>1. ImageInv'
    BY <1>1, <1>3 DEF ImageInv, IsImage
  <2> QED
    BY <1>1, <1>3, <2>1, BusyFacts, MoveStep DEF Using
<1>4. /\ [job EXCEPT !.close = TRUE] \in Jobs
      /\ [job EXCEPT !.close = TRUE].phase = job.phase
      /\ [job EXCEPT !.close = TRUE].retired = job.retired
      /\ [job EXCEPT !.close = TRUE].close
      /\ [flags EXCEPT !.redirectWait = TRUE] \in FlagSets
  BY <1>1, BusyFacts DEF Jobs, FlagSets
<1>5. CASE ~alive
  BY <1>2, <1>5 DEF Apply, Reasons
<1>6. CASE alive /\ parse = "More"
  <2>1. at' = "give" /\ UNCHANGED <<job, outcome, flags, writer, gate, released,
                                    redirects>>
    BY <1>6 DEF Apply
  <2> QED
    BY <1>1, <1>3, <2>1, BusyFacts
<1>7. CASE alive /\ parse = "Redirect" /\ redirects < MaxRedirects
  <2>1. CASE /\ redirects' = redirects + 1
             /\ flags' = [flags EXCEPT !.redirectWait = TRUE]
             /\ job' = [job EXCEPT !.close = TRUE]
             /\ at' = "give"
             /\ UNCHANGED <<outcome, writer, gate, released>>
    <3>1. redirects' \in 0..MaxRedirects
      BY <1>1, <1>7, <2>1, RedirectAssumption
    <3> QED
      BY <1>1, <1>3, <1>4, <2>1, <3>1, BusyFacts
  <2>2. CASE Fail("ProtocolError", TRUE) /\ at' = "give" /\ UNCHANGED redirects
    BY <1>2, <2>2 DEF Reasons
  <2> QED
    BY <1>7, <2>1, <2>2 DEF Apply
<1>8. CASE alive /\ parse = "Complete"
  <2>1. /\ job' = [job EXCEPT !.close = TRUE]
        /\ at' = (IF IsImage THEN "end" ELSE "give")
        /\ outcome' = (IF IsImage THEN outcome ELSE "MetadataReady")
        /\ UNCHANGED <<flags, writer, gate, released, redirects>>
    BY <1>8 DEF Apply
  <2>2. outcome' \in Outcomes
    BY <1>1, <2>1, BusyFacts DEF Outcomes
  <2> QED
    BY <1>1, <1>3, <1>4, <2>1, <2>2, BusyFacts
<1>9. CASE /\ alive /\ parse # "More" /\ parse # "Complete"
           /\ ~(parse = "Redirect" /\ redirects < MaxRedirects)
  <2>1. Fail("ProtocolError", TRUE) /\ at' = "give" /\ UNCHANGED redirects
    BY <1>9 DEF Apply
  <2> QED
    BY <1>2, <2>1 DEF Reasons
<1> QED
  BY <1>5, <1>6, <1>7, <1>8, <1>9

(* The image is closed and verified.                                        *)
LEMMA EndImageStep == OtaInv /\ EndImage => OtaInv'
<1> SUFFICES ASSUME OtaInv, EndImage
             PROVE  OtaInv'
  OBVIOUS
<1>1. /\ at = "end" /\ at \in Busy \cap Using /\ IsImage
      /\ UNCHANGED Untouched
      /\ parse \in Parses /\ tainted \in BOOLEAN /\ redirects \in 0..MaxRedirects
      /\ kind \in Kinds
  BY DEF EndImage, Busy, Using, OtaInv, ImageInv, Untouched, TypeOK
<1>2. CASE /\ kind = "install" => writer.received = Blocks /\ ~tainted
           /\ writer' = [writer EXCEPT !.hash = FALSE, !.handle = FALSE,
                                       !.validated = TRUE]
           /\ at' = "select"
           /\ UNCHANGED <<job, outcome, flags, gate, released>>
  <2>1. /\ writer' \in Writers /\ writer'.validated
        /\ writer'.received = writer.received
    BY <1>1, <1>2, BusyFacts DEF Writers
  <2>2. kind # "check" /\ (kind = "upload" => writer.received = Blocks)
    BY <1>1 DEF OtaInv, WorkerPlaces, ImageInv, IsImage
  <2>3. ImageInv'
    BY <1>1, <1>2, <2>1, <2>2 DEF ImageInv, IsImage, Announced, Untouched, Kinds
  <2> QED
    BY <1>1, <1>2, <2>1, <2>3, BusyFacts, MoveStep DEF Untouched, Using
<1>3. CASE /\ \E why \in {"NoMemory", "WriterError"} :
                 Fail(IF flags.begun /\ ~alive THEN "Deadline"
                      ELSE IF flags.begun THEN why ELSE "ProtocolError",
                      Borrowing)
           /\ at' = AfterFailure
  <2>1. PICK why \in Reasons : Fail(why, Borrowing)
    BY <1>3 DEF Reasons
  <2> QED
    BY <1>1, <1>3, <2>1, FailAfter
<1> QED
  BY <1>2, <1>3 DEF EndImage

(* The boot partition changes, does not, or may have.                       *)
LEMMA SelectBootStep == OtaInv /\ SelectBoot => OtaInv'
<1> SUFFICES ASSUME OtaInv, SelectBoot
             PROVE  OtaInv'
  OBVIOUS
<1>1. /\ at = "select" /\ at \in Busy \cap Using /\ IsImage
      /\ at' = AfterFailure
      /\ UNCHANGED <<kind, launch, result, net, leg, parse, redirects, expired,
                     tainted, done, freed>>
      /\ Announced
  BY DEF SelectBoot, Busy, Using, OtaInv, ImageInv
<1>2. CASE Fail("Deadline", Borrowing) /\ UNCHANGED selected
  BY <1>1, <1>2, FailAfter DEF Reasons, Untouched
<1>3. ASSUME NEW s \in Selections, selected' = s,
             job' = [job EXCEPT !.retired = TRUE],
             writer' = [writer EXCEPT !.uncertain = (s = "maybe")],
             ReleaseIfSafe(CASE s = "yes" -> "Committed"
                             [] s = "maybe" -> "WriterUncertain"
                             [] OTHER -> "WriterError",
                           writer', Borrowing),
             UNCHANGED flags
      PROVE  OtaInv'
  <2>1. /\ job' \in Jobs /\ job'.phase = job.phase /\ job'.retired
        /\ job'.close = job.close
    BY <1>1, <1>3, BusyFacts DEF Jobs
  <2>2. /\ writer' \in Writers /\ writer'.validated = writer.validated
        /\ writer'.received = writer.received
    BY <1>1, <1>3, BusyFacts DEF Writers
  <2>3. Borrowing \in BOOLEAN
    BY DEF Borrowing
  <2> DEFINE out == CASE s = "yes" -> "Committed"
                      [] s = "maybe" -> "WriterUncertain"
                      [] OTHER -> "WriterError"
  <2>4. out \in Outcomes /\ (s # "no" => out \in Final)
    BY <1>3 DEF Outcomes, Final, Selections
  <2>5. ReleaseIfSafe(out, writer', Borrowing)
    BY <1>3
  <2> HIDE DEF out
  <2>6. ReleasePost(out, writer', Borrowing)
    BY <2>3, <2>5, ReleaseEffects DEF OtaInv
  <2>7. \/ at' = "complete"
        \/ at' = "give" /\ Borrowing /\ leg # "upload" /\ job.phase = "Borrowed"
    BY <1>1, BusyFacts DEF AfterFailure, Borrowing
  <2>8. /\ outcome' \in Outcomes /\ gate' \in Gates /\ released' \in BOOLEAN
        /\ flags' \in FlagSets
        /\ s # "no" => outcome' \in Final /\ ~released'
    BY <1>1, <1>3, <2>4, <2>6, BusyFacts DEF ReleasePost, Outcomes, Final
  <2>9. selected' \in {"no", "yes", "maybe"} /\ at' \in Places
    BY <1>3, <2>7 DEF Selections, Places
  <2>10. TypeOK'
    BY <1>1, <2>1, <2>2, <2>8, <2>9
       DEF OtaInv, TypeOK, Jobs, Writers, FlagSets, Gates
  <2>11. MailboxPhase'
    BY <1>1, <2>1 DEF OtaInv, MailboxPhase, Closing
  <2>12. WorkerPlaces'
    BY <1>1, <2>1, <2>7 DEF OtaInv, WorkerPlaces, NoWorker, Using
  <2>13. LeaseInv'
    BY <1>1, <1>3, <2>6, <2>7, <2>8, BusyFacts
       DEF LeaseInv, ReleasePost, Quiescent
  <2>14. ImageInv'
    BY <1>1, <2>2, <2>7 DEF ImageInv, Announced
  <2> QED
    BY <2>10, <2>11, <2>12, <2>13, <2>14 DEF OtaInv
<1> QED
  BY <1>2, <1>3 DEF SelectBoot

(* The block is given back, and with a final outcome the lease.             *)
LEMMA GiveStep == OtaInv /\ Give => OtaInv'
<1> SUFFICES ASSUME OtaInv, Give
             PROVE  OtaInv'
  OBVIOUS
<1>1. /\ at = "give" /\ leg # "upload" /\ job.phase = "Borrowed"
      /\ UNCHANGED <<kind, launch, result, net, leg, parse, flags, redirects,
                     expired, writer, selected, tainted, done, freed>>
      /\ job' = [job EXCEPT !.phase = "Reading"]
      /\ ~released /\ ~done /\ ~freed
  BY DEF Give, OtaInv, WorkerPlaces, LeaseInv, Using, flashVars
<1>2. /\ job' \in Jobs /\ job'.phase = "Reading"
      /\ job'.retired = job.retired /\ job'.close = job.close
  BY <1>1 DEF OtaInv, TypeOK, Jobs, Phases
<1>3. net \in {"offered", "last"}
  BY <1>1 DEF OtaInv, TypeOK, MailboxPhase, NetStates
<1>4. CASE outcome \in {"Working", "MetadataReady"}
  <2>1. /\ UNCHANGED <<outcome, gate, released>> /\ at' = "poll"
        /\ selected = "no"
    BY <1>1, <1>4 DEF Give, OtaInv, LeaseInv, Final
  <2> QED
    BY <1>1, <1>2, <1>3, <2>1
       DEF OtaInv, TypeOK, MailboxPhase, WorkerPlaces, LeaseInv, ImageInv,
           Jobs, Places, Using, NoWorker
<1>5. CASE outcome \notin {"Working", "MetadataReady"}
  <2>1. ReleaseIfSafe(outcome, writer, FALSE)
    BY <1>1, <1>5 DEF Give
  <2>2. ReleasePost(outcome, writer, FALSE)
    BY <2>1, ReleaseEffects DEF OtaInv
  <2>3. at' = "complete" /\ outcome' \in Outcomes
    BY <1>1, <1>5, <2>2 DEF Give, ReleasePost, OtaInv, TypeOK, Outcomes
  <2>4. TypeOK'
    BY <1>1, <1>2, <2>2, <2>3
       DEF OtaInv, TypeOK, ReleasePost, Jobs, Places, Gates
  <2>5. MailboxPhase' /\ WorkerPlaces'
    BY <1>1, <1>2, <1>3, <2>3
       DEF OtaInv, MailboxPhase, WorkerPlaces, NoWorker, Using
  <2>6. LeaseInv'
    BY <1>1, <2>2, <2>3 DEF OtaInv, LeaseInv, ReleasePost, Quiescent, Final
  <2>7. ImageInv'
    BY <1>1, <2>3 DEF OtaInv, ImageInv, Announced
  <2> QED
    BY <2>4, <2>5, <2>6, <2>7 DEF OtaInv
<1> QED
  BY <1>4, <1>5

(* Between two exchanges, and an upload without one.                        *)
LEMMA NextLegStep == OtaInv /\ (NextLeg \/ CancelLeg \/ UploadStart) => OtaInv'
<1> SUFFICES ASSUME OtaInv, NextLeg \/ CancelLeg \/ UploadStart
             PROVE  OtaInv'
  OBVIOUS
<1>1. at \in Busy
  BY DEF NextLeg, CancelLeg, UploadStart, Busy
<1>2. CASE NextLeg
  <2>1. /\ UNCHANGED <<kind, jobVars, outcome, parse, flags, redirects, expired,
                       flashVars, leaseVars>>
        /\ at = "poll" /\ job.phase = "Closed"
        /\ at' \in {"start", "complete"}
        /\ \/ leg = "manifest" /\ leg' = "notes"
           \/ kind = "install" /\ leg' = "image"
           \/ leg' = leg
    BY <1>2 DEF NextLeg
  <2>2. net = "idle"
    BY <2>1 DEF OtaInv, TypeOK, MailboxPhase, NetStates
  <2>3. leg # "upload"
    BY <2>2 DEF OtaInv, WorkerPlaces, NoWorker
  <2>4. TypeOK'
    BY <2>1 DEF OtaInv, TypeOK, Legs, Places, jobVars, flashVars, leaseVars
  <2>5. MailboxPhase' /\ WorkerPlaces'
    BY <2>1, <2>2, <2>3
       DEF OtaInv, MailboxPhase, WorkerPlaces, Closing, NoWorker, Using, jobVars
  <2>6. LeaseInv' /\ ImageInv'
    BY <1>1, <2>1, BusyFacts
       DEF LeaseInv, ImageInv, Quiescent, flashVars, leaseVars
  <2> QED
    BY <2>4, <2>5, <2>6 DEF OtaInv
<1>3. CASE CancelLeg
  <2>1. PICK why \in Reasons : Fail(why, FALSE)
    BY <1>3 DEF CancelLeg, Reasons
  <2> QED
    BY <1>1, <1>3, <2>1, FailStep DEF CancelLeg, Untouched
<1>4. CASE UploadStart
  <2>1. /\ UNCHANGED <<kind, jobVars, leg, parse, flags, redirects, expired,
                       flashVars, leaseVars>>
        /\ at = "launch" /\ kind = "upload" /\ outcome' \in {outcome, "Working"}
        /\ at' \in {"poll", "complete"}
    BY <1>4 DEF UploadStart
  <2>2. TypeOK'
    BY <2>1 DEF OtaInv, TypeOK, Outcomes, Places, jobVars, flashVars, leaseVars
  <2>3. MailboxPhase' /\ WorkerPlaces'
    BY <2>1
       DEF OtaInv, MailboxPhase, WorkerPlaces, Closing, NoWorker, Using, jobVars
  <2>4. LeaseInv' /\ ImageInv'
    BY <1>1, <2>1, BusyFacts
       DEF LeaseInv, ImageInv, Quiescent, flashVars, leaseVars
  <2> QED
    BY <2>2, <2>3, <2>4 DEF OtaInv
<1> QED
  BY <1>2, <1>3, <1>4

(* A piece of an uploaded image.                                            *)
LEMMA UploadChunkStep == OtaInv /\ UploadChunk => OtaInv'
<1> SUFFICES ASSUME OtaInv, UploadChunk
             PROVE  OtaInv'
  OBVIOUS
<1>1. /\ at \in Busy /\ at # "launch" /\ leg = "upload" /\ UNCHANGED Untouched
      /\ parse \in Parses /\ tainted \in BOOLEAN /\ redirects \in 0..MaxRedirects
  BY DEF UploadChunk, Busy, Untouched, OtaInv, TypeOK
<1>2. CASE /\ \/ at' = (IF flags.begun THEN "write" ELSE "prefix")
              \/ at' = "end" /\ writer.received = Blocks
           /\ UNCHANGED <<job, outcome, flags, writer, gate, released>>
  <2>1. ImageInv'
    BY <1>1, <1>2, BusyFacts DEF ImageInv, IsImage, Untouched
  <2> QED
    BY <1>1, <1>2, <2>1, BusyFacts, MoveStep DEF Untouched
<1>3. CASE /\ Fail(IF alive THEN "NetworkError" ELSE "Deadline", FALSE)
           /\ at' = "complete"
  <2>1. PICK why \in Reasons : Fail(why, FALSE)
    BY <1>3 DEF Reasons
  <2> QED
    BY <1>1, <1>3, <2>1, FailStep
<1> QED
  BY <1>2, <1>3 DEF UploadChunk

(* complete_operation() gives back what it can.                             *)
LEMMA CompleteStep == OtaInv /\ Complete => OtaInv'
<1> SUFFICES ASSUME OtaInv, Complete
             PROVE  OtaInv'
  OBVIOUS
<1> DEFINE j == IF NoWorker THEN [job EXCEPT !.phase = "Acked", !.retired = TRUE]
                ELSE job
<1>1. /\ at = "complete"
      /\ UNCHANGED <<kind, launch, result, net, leg, parse, flags, redirects,
                     expired, writer, selected, tainted, freed>>
      /\ done' = released' /\ ~freed
      /\ at' = (IF released' THEN "ended"
                ELSE IF outcome' = "Committed" THEN "rebooting" ELSE "parked")
  BY DEF Complete, flashVars, OtaInv, LeaseInv
<1>2. /\ j \in Jobs
      /\ [j EXCEPT !.retired = TRUE] \in Jobs
      /\ [j EXCEPT !.retired = TRUE].phase = j.phase
      /\ [j EXCEPT !.retired = TRUE].retired
      /\ [j EXCEPT !.retired = TRUE].close = j.close
      /\ j.close = job.close
      /\ job.retired => j.retired
      /\ NoWorker => j.phase = "Acked" /\ j.retired
      /\ ~NoWorker => j = job
  BY DEF OtaInv, TypeOK, Jobs, Phases
<1>3. \/ job' = j /\ UNCHANGED <<outcome, gate, released>>
      \/ /\ job' = [j EXCEPT !.retired = TRUE]
         /\ ~released
         /\ outcome \in {"MetadataReady", "Idle", "Working"}
         /\ \E out \in Reasons \cup {"MetadataReady"} :
               ReleaseIfSafe(out, writer, FALSE)
  <2>1. CASE ~released /\ outcome = "MetadataReady"
    BY <2>1 DEF Complete, Reasons
  <2>2. CASE ~released /\ outcome \in {"Idle", "Working"}
    BY <2>2 DEF Complete, Reasons
  <2>3. CASE /\ ~(~released /\ outcome = "MetadataReady")
             /\ ~(~released /\ outcome \in {"Idle", "Working"})
    BY <2>3 DEF Complete
  <2> QED
    BY <2>1, <2>2, <2>3
<1> HIDE DEF j
<1>4. /\ job' \in Jobs /\ job'.close = job.close
      /\ job.retired => job'.retired
      /\ NoWorker => job'.phase = "Acked" /\ job'.retired
      /\ ~NoWorker => job'.phase = job.phase
  BY <1>2, <1>3
<1>5. /\ released' \in BOOLEAN /\ gate' \in Gates /\ outcome' \in Outcomes
      /\ released => released' /\ gate' = gate
      /\ ~released' => gate' = gate
      /\ released' => Quiescent(writer) /\ selected = "no"
      /\ outcome \in Final => outcome' = outcome
  <2>1. CASE UNCHANGED <<outcome, gate, released>>
    BY <2>1 DEF OtaInv, TypeOK, LeaseInv, Gates
  <2>2. ASSUME NEW out \in Reasons \cup {"MetadataReady"}, ~released,
               outcome \in {"MetadataReady", "Idle", "Working"},
               ReleaseIfSafe(out, writer, FALSE)
        PROVE  <1>5
    <3>1. ReleasePost(out, writer, FALSE)
      BY <2>2, ReleaseEffects DEF OtaInv
    <3> QED
      BY <2>2, <3>1
         DEF OtaInv, LeaseInv, ReleasePost, Outcomes, Reasons, Final
  <2> QED
    BY <1>3, <2>1, <2>2
<1>6. TypeOK'
  BY <1>1, <1>4, <1>5 DEF OtaInv, TypeOK, Jobs, Places, Gates
<1>7. MailboxPhase' /\ WorkerPlaces'
  BY <1>1, <1>4 DEF OtaInv, MailboxPhase, WorkerPlaces, Closing, NoWorker, Using
<1>8. LeaseInv'
  BY <1>1, <1>5 DEF OtaInv, LeaseInv, Quiescent
<1>9. ImageInv'
  BY <1>1 DEF OtaInv, ImageInv, Announced
<1> QED
  BY <1>6, <1>7, <1>8, <1>9 DEF OtaInv

-----------------------------------------------------------------------------
(* The other owners of the gate, and a successor that reclaims the memory.  *)
LEMMA OthersStep == OtaInv /\ (Expire \/ Reserve \/ OtherOwner) => OtaInv'
<1> SUFFICES ASSUME OtaInv, Expire \/ Reserve \/ OtherOwner
             PROVE  OtaInv'
  OBVIOUS
<1>1. UNCHANGED <<kind, jobVars, coordVars, flashVars, released, done>>
  BY DEF Expire, Reserve, OtherOwner, leaseVars
<1>2. CanReclaim \in BOOLEAN
  BY DEF CanReclaim
<1>3. /\ expired \in BOOLEAN /\ gate \in Gates /\ freed \in BOOLEAN
      /\ TRUE \in BOOLEAN
  BY DEF OtaInv, TypeOK, Gates
<1>4. /\ expired' \in BOOLEAN /\ gate' \in Gates
      /\ gate = "Ota" => gate' = "Ota"
      /\ freed' \in BOOLEAN
      /\ freed' => freed \/ CanReclaim
  <2>1. CASE Expire
    BY <1>3, <2>1 DEF Expire, leaseVars
  <2>2. CASE Reserve
    BY <1>2, <1>3, <2>2 DEF Reserve, Gates, coordVars
  <2>3. CASE OtherOwner
    BY <1>3, <2>3 DEF OtherOwner, Gates
  <2> QED
    BY <2>1, <2>2, <2>3
<1>5. TypeOK'
  BY <1>1, <1>4 DEF OtaInv, TypeOK, jobVars, coordVars, flashVars, Gates
<1>6. MailboxPhase' /\ WorkerPlaces' /\ ImageInv'
  BY <1>1
     DEF OtaInv, MailboxPhase, WorkerPlaces, ImageInv, Announced, IsImage,
         Closing, NoWorker, jobVars, coordVars, flashVars
<1>7. LeaseInv'
  BY <1>1, <1>4
     DEF OtaInv, LeaseInv, CanReclaim, Quiescent, jobVars, coordVars, flashVars
<1> QED
  BY <1>5, <1>6, <1>7 DEF OtaInv

(* A job accepted and nothing begun.                                        *)
LEMMA OtaInitially == Init => OtaInv
<1> SUFFICES ASSUME Init
             PROVE  OtaInv
  OBVIOUS
<1>1. writer \in Writers /\ flags \in FlagSets /\ job \in Jobs
  BY BlocksAssumption
     DEF Init, FreshWriter, NoFlags, Writers, FlagSets, Jobs, Phases
<1>2. TypeOK
  <2>1. /\ expired \in BOOLEAN /\ tainted \in BOOLEAN /\ released \in BOOLEAN
        /\ done \in BOOLEAN /\ freed \in BOOLEAN
    BY DEF Init
  <2>2. /\ kind \in Kinds /\ result \in NetResults /\ net \in NetStates
        /\ leg \in Legs /\ at \in Places /\ outcome \in Outcomes
        /\ parse \in Parses /\ redirects \in 0..MaxRedirects
    BY RedirectAssumption
       DEF Init, Kinds, NetResults, NetStates, Legs, Places, Outcomes, Parses
  <2>3. /\ launch = "NotAttempted" /\ selected = "no" /\ gate = "Ota"
    BY DEF Init
  <2> QED
    BY <1>1, <2>1, <2>2, <2>3 DEF TypeOK, Writers, FlagSets, Jobs
<1>3. MailboxPhase /\ WorkerPlaces
  BY DEF Init, MailboxPhase, WorkerPlaces, Using, NoWorker, Kinds
<1>4. LeaseInv /\ ImageInv
  BY DEF Init, LeaseInv, ImageInv
<1> QED
  BY <1>2, <1>3, <1>4 DEF OtaInv

(* Every step keeps the invariant.                                          *)
LEMMA OtaStep == OtaInv /\ [Next]_vars => OtaInv'
<1> SUFFICES ASSUME OtaInv, [Next]_vars
             PROVE  OtaInv'
  OBVIOUS
<1>1. CASE Worker
  BY <1>1, WorkerStep
<1>2. CASE Coordinator
  BY <1>2, LaunchStep, StartLegStep, PollStep, UseStep, CheckPrefixStep,
     BeginStep, WriteStep, ApplyStep, EndImageStep, SelectBootStep, GiveStep,
     NextLegStep, UploadChunkStep, CompleteStep
     DEF Coordinator
<1>3. CASE Expire \/ Reserve \/ OtherOwner
  BY <1>3, OthersStep
<1>4. CASE UNCHANGED vars
  BY <1>4
     DEF vars, OtaInv, TypeOK, MailboxPhase, WorkerPlaces, LeaseInv, ImageInv,
         Announced, IsImage, Closing, NoWorker, Quiescent
<1> QED
  BY <1>1, <1>2, <1>3, <1>4 DEF Next

(* The invariant of a transfer.                                             *)
LEMMA OtaInvariant == Spec => []OtaInv
BY OtaInitially, OtaStep, PTL DEF Spec

(* What a step may do once the job is retired.                              *)
LEMMA RetiredStep ==
    ASSUME OtaInv, [Next]_vars, job.retired
    PROVE  /\ job'.retired
           /\ job'.phase = "Full" => job.phase = "Full"
           /\ writer'.received = writer.received
           /\ selected' = selected
<1> DEFINE Kept == /\ job'.retired
                   /\ job'.phase = "Full" => job.phase = "Full"
                   /\ writer'.received = writer.received
                   /\ selected' = selected
<1>0. ~alive /\ Closing /\ job \in Jobs /\ writer \in Writers /\ TypeOK
  BY DEF alive, Closing, OtaInv, TypeOK, Jobs, Writers
<1>1. ASSUME NEW reason \in Reasons, NEW b \in BOOLEAN, Fail(reason, b),
             UNCHANGED selected
      PROVE  Kept
  BY <1>0, <1>1, FailLeaves DEF Leaves
<1>2. CASE Worker
  <2>1. UNCHANGED flashVars
    BY <1>2 DEF Worker, NetIdle, NetReturns, NetWaits, NetDestroys, NetPublishes
  <2>2. job'.retired /\ (job'.phase = "Full" => job.phase = "Full")
    BY <1>0, <1>2
       DEF Worker, NetIdle, NetReturns, NetWaits, NetDestroys, NetPublishes, Jobs
  <2> QED
    BY <2>1, <2>2 DEF flashVars
<1>3. CASE LaunchWorker \/ PollRedirect \/ PollBorrow \/ Give \/ NextLeg
           \/ UploadStart \/ Complete
  <2>1. UNCHANGED flashVars
    BY <1>3 DEF LaunchWorker, PollRedirect, PollBorrow, Give, NextLeg,
                UploadStart, Complete
  <2>2. job'.retired /\ (job'.phase = "Full" => job.phase = "Full")
    <3>1. CASE LaunchWorker
      BY <1>0, <3>1 DEF LaunchWorker, Jobs
    <3>2. CASE PollRedirect \/ PollBorrow \/ NextLeg
      BY <1>0, <3>2 DEF PollRedirect, PollBorrow, NextLeg
    <3>3. CASE Give
      BY <1>0, <3>3 DEF Give, Jobs
    <3>4. CASE UploadStart
      BY <1>0, <3>4 DEF UploadStart, jobVars
    <3>5. CASE Complete
      <4> DEFINE j == IF NoWorker
                      THEN [job EXCEPT !.phase = "Acked", !.retired = TRUE]
                      ELSE job
      <4>1. /\ j.retired /\ j \in Jobs
            /\ j.phase = "Full" => job.phase = "Full"
        BY <1>0 DEF Jobs, Phases
      <4>2. job' \in {j, [j EXCEPT !.retired = TRUE]}
        <5>1. CASE ~released /\ outcome = "MetadataReady"
          BY <3>5, <5>1 DEF Complete
        <5>2. CASE ~released /\ outcome \in {"Idle", "Working"}
          BY <3>5, <5>2 DEF Complete
        <5>3. CASE /\ ~(~released /\ outcome = "MetadataReady")
                   /\ ~(~released /\ outcome \in {"Idle", "Working"})
          BY <3>5, <5>3 DEF Complete
        <5> QED
          BY <5>1, <5>2, <5>3
      <4> HIDE DEF j
      <4> QED
        BY <4>1, <4>2 DEF Jobs
    <3> QED
      BY <1>3, <3>1, <3>2, <3>3, <3>4, <3>5
  <2> QED
    BY <2>1, <2>2 DEF flashVars
<1>4. CASE PollEnds
  <2>1. PICK a \in (IF Quiescent(writer) THEN {<<writer, TRUE>>}
                    ELSE Abort(writer)) : writer' = a[1]
    BY <1>4 DEF PollEnds
  <2>2. writer'.received = writer.received
    <3>1. CASE Quiescent(writer)
      <4>1. a = <<writer, TRUE>>
        BY <2>1, <3>1
      <4>2. a[1] = writer
        BY <4>1
      <4> QED
        BY <2>1, <4>2
    <3>2. CASE ~Quiescent(writer)
      BY <1>0, <2>1, <3>2, AbortKeeps
    <3> QED
      BY <3>1, <3>2
  <2> QED
    BY <1>0, <1>4, <2>2 DEF PollEnds, Jobs
<1>5. CASE StartLeg \/ CancelLeg \/ UploadChunk \/ SelectBoot
  <2>1. CASE StartLeg
    <3>1. PICK why \in Reasons : Fail(why, FALSE)
      BY <1>0, <2>1 DEF StartLeg, Reasons
    <3> QED
      BY <1>1, <2>1, <3>1 DEF StartLeg
  <2>2. CASE CancelLeg
    BY <1>0, <2>2 DEF CancelLeg
  <2>3. CASE UploadChunk
    <3>1. PICK why \in Reasons : Fail(why, FALSE)
      BY <1>0, <2>3 DEF UploadChunk, Reasons
    <3> QED
      BY <1>1, <2>3, <3>1 DEF UploadChunk
  <2>4. CASE SelectBoot
    <3>1. Fail("Deadline", Borrowing) /\ UNCHANGED selected
      BY <1>0, <2>4 DEF SelectBoot
    <3> QED
      BY <1>1, <3>1 DEF Reasons, Borrowing
  <2> QED
    BY <1>5, <2>1, <2>2, <2>3, <2>4
<1>6. CASE Use \/ CheckPrefix \/ Begin \/ Write \/ Apply \/ EndImage
  <2>1. PICK why \in Reasons, b \in BOOLEAN : Fail(why, b)
    <3>1. Borrowing \in BOOLEAN
      BY DEF Borrowing
    <3>2. CASE Use
      BY <1>0, <3>2 DEF Use, Reasons
    <3>3. CASE CheckPrefix
      BY <1>0, <3>1, <3>3 DEF CheckPrefix, Reasons
    <3>4. CASE Begin
      BY <1>0, <3>1, <3>4 DEF Begin, Reasons
    <3>5. CASE Write
      BY <1>0, <3>1, <3>5 DEF Write, Reasons
    <3>6. CASE Apply
      BY <1>0, <3>6 DEF Apply, Reasons
    <3>7. CASE EndImage
      BY <1>0, <3>1, <3>7 DEF EndImage, Reasons
    <3> QED
      BY <1>6, <3>2, <3>3, <3>4, <3>5, <3>6, <3>7
  <2>2. UNCHANGED selected
    BY <1>6 DEF Use, CheckPrefix, Begin, Write, Apply, EndImage
  <2> QED
    BY <1>1, <2>1, <2>2
<1>7. CASE Expire \/ Reserve \/ OtherOwner
  BY <1>7 DEF Expire, Reserve, OtherOwner, jobVars, flashVars
<1>8. CASE UNCHANGED vars
  BY <1>8 DEF vars
<1> QED
  BY <1>2, <1>3, <1>4, <1>5, <1>6, <1>7, <1>8 DEF Next, Coordinator

-----------------------------------------------------------------------------
(* Every reachable state of an update operation is well typed.              *)
THEOREM OtaTypeCorrect == Spec => []TypeOK
BY OtaInvariant, PTL DEF OtaInv

(* ota_transport: the one mailbox block has one user at a time, whatever    *)
(* the worker is told to do while the coordinator holds it.                 *)
THEOREM OneUserOfBlock == Spec => []BlockHasOneUser
<1>1. OtaInv => BlockHasOneUser
  BY DEF OtaInv, TypeOK, MailboxPhase, WorkerPlaces, BlockHasOneUser,
         Borrowing, Using, NetStates
<1> QED
  BY <1>1, OtaInvariant, PTL

(* release_if_safe(): the process-wide operation gate is held as long as    *)
(* the flash writer is busy or the boot selector may have been written.     *)
THEOREM LeaseCovers == Spec => []LeaseCoversEffects
<1>1. OtaInv => LeaseCoversEffects
  BY DEF OtaInv, LeaseInv, LeaseCoversEffects
<1> QED
  BY <1>1, OtaInvariant, PTL

(* The worker's acknowledgement is never assumed for a worker that may      *)
(* still run.                                                               *)
THEOREM AckIsTrue == Spec => []NoFalseAck
<1>1. OtaInv => NoFalseAck
  BY DEF OtaInv, TypeOK, MailboxPhase, NoFalseAck, NetStates
<1> QED
  BY <1>1, OtaInvariant, PTL

(* reserve_operation(): an operation's memory is reclaimed only after both  *)
(* of its tasks made their last access.                                     *)
THEOREM ReclaimIsLast == Spec => []ReclaimedAfterBoth
<1>1. OtaInv => ReclaimedAfterBoth
  BY DEF OtaInv, TypeOK, MailboxPhase, LeaseInv, ReclaimedAfterBoth, NetStates
<1> QED
  BY <1>1, OtaInvariant, PTL

(* finish_image(): only an image of the announced size and hash is ever     *)
(* selected for boot, and none by a mere check.                             *)
THEOREM AnnouncedImageOnly == Spec => []OnlyTheAnnouncedImage
<1>1. OtaInv => OnlyTheAnnouncedImage
  BY DEF OtaInv, ImageInv, Announced, OnlyTheAnnouncedImage
<1> QED
  BY <1>1, OtaInvariant, PTL

(* A retired job publishes no block, writes nothing more and selects no     *)
(* image.                                                                   *)
THEOREM RetiredForGood == Spec => RetiredIsFinal
<1>1. OtaInv /\ [Next]_vars =>
        [job.retired =>
            /\ job'.retired
            /\ job'.phase = "Full" => job.phase = "Full"
            /\ writer'.received = writer.received
            /\ selected' = selected]_vars
  BY RetiredStep
<1> QED
  BY <1>1, OtaInvariant, PTL DEF Spec, RetiredIsFinal

(* ota_transport: the memory the TLS worker and the coordinator share has   *)
(* one user at a time and is reclaimed after both.                          *)
THEOREM TransferIsSafe == Spec => []TransferSafe
BY OtaTypeCorrect, OneUserOfBlock, ReclaimIsLast, AckIsTrue, PTL
   DEF TransferSafe

-----------------------------------------------------------------------------
(***************************************************************************)
(* For every number of rows, domains and messages: "online" is behind every*)
(* discovery row, and a domain taken to be cleared ends empty.             *)
(***************************************************************************)

\* In the middle of its rows, the publisher has every earlier one behind it.
Behind(r, i) == r \in broker.rows \cup Sent(i) \cup expiredRows
RowsAreBehind ==
    /\ pub.at = "row" => pub.n \in 1 .. Rows
                         /\ \A r \in 1 .. pub.n - 1 : Behind(r, Len(outbox) + 1)
    /\ pub.at = "online" => \A r \in 1 .. Rows : Behind(r, Len(outbox) + 1)

\* What the publisher has in hand fits the state of its domain, which only
\* the publisher itself changes.
PlanIsSound ==
    /\ pub.at = "plan" => pub.n \in 1 .. Gated + 2
    /\ pub.at = "send" =>
          /\ pub.n \in Domains
          /\ pub.plan \in {"Publish", "PublishClear", "Skip"}
          /\ pub.plan = "PublishClear" => pub.value = Empty
          /\ pub.plan = "Skip" => s_domain_state[pub.n] = "Cleared"
          /\ pub.n = Device => pub.plan = "Publish"
    /\ cache[Device] # Invalid
    /\ s_domain_state[Device] = "Unknown"

MqttInv ==
    /\ OnlineFollowsEveryRow
    /\ RowsAreBehind
    /\ PlanIsSound
    /\ ClearedIsEmpty

----------------------------------------------------------------------------
(* Operators.  The two facts about the outbox, as operators of a queue.    *)

SentIn(q, i) == {q[j].of : j \in {k \in 1 .. i - 1 : q[k].topic = "row"}}
IsWrite(m, d) == m.topic = "state" /\ m.of = d
EmptyIn(v, q, d) ==
    /\ (\A i \in 1 .. Len(q) : ~IsWrite(q[i], d)) => v = Empty
    /\ \A i \in 1 .. Len(q) : IsWrite(q[i], d) =>
          q[i].value = Empty \/ \E j \in i + 1 .. Len(q) : IsWrite(q[j], d)

\* Sent, before and after a step.
LEMMA SentIsSentIn ==
    /\ \A i : Sent(i) = SentIn(outbox, i)
    /\ \A i : Sent(i)' = SentIn(outbox', i)
  BY DEF Sent, SentIn

\* EndsEmpty, before and after a step.
LEMMA EndsEmptyIs ==
    ASSUME NEW d, outbox \in Seq(Messages), outbox' \in Seq(Messages)
    PROVE  /\ EndsEmpty(d) <=> EmptyIn(broker.state[d], outbox, d)
           /\ EndsEmpty(d)' <=> EmptyIn(broker'.state[d], outbox', d)
  <1>1. /\ DOMAIN outbox = 1 .. Len(outbox) /\ DOMAIN outbox' = 1 .. Len(outbox')
        /\ Len(outbox) \in Nat /\ Len(outbox') \in Nat
    OBVIOUS
  <1>2. EndsEmpty(d) <=> EmptyIn(broker.state[d], outbox, d)
    BY <1>1 DEF EndsEmpty, Writes, EmptyIn, IsWrite
  <1>3. EndsEmpty(d)' <=> EmptyIn(broker'.state[d], outbox', d)
    BY <1>1 DEF EndsEmpty, Writes, EmptyIn, IsWrite
  <1>4. QED
    BY <1>2, <1>3

\* The kinds of messages.
LEMMA MessagesAre ==
    /\ \A r \in 1 .. Rows : Row(r) \in Messages /\ Row(r).topic = "row" /\ Row(r).of = r
                            /\ Row(r) # Online /\ \A d : ~IsWrite(Row(r), d)
    /\ Online \in Messages /\ Online.topic = "avail" /\ \A d : ~IsWrite(Online, d)
    /\ \A d \in Domains, v \in Readings \cup {Empty} :
          /\ State(d, v) \in Messages /\ State(d, v).topic = "state"
          /\ State(d, v).of = d /\ State(d, v).value = v /\ State(d, v) # Online
    /\ \A m \in Messages :
          /\ m.topic \in {"row", "avail", "state"}
          /\ m.topic = "row" => m.of \in 1 .. Rows
          /\ m.topic = "avail" => m = Online /\ m.value = "online"
          /\ m = Online => m.topic = "avail"
          /\ m.topic = "state" => m.of \in Domains /\ m.value \in Readings \cup {Empty}
  <1>1. \A r : Row(r).topic = "row" /\ Row(r).of = r
    BY DEF Row
  <1>2. Online.topic = "avail" /\ Online.value = "online"
    BY DEF Online
  <1>3. \A d, v : State(d, v).topic = "state" /\ State(d, v).of = d /\ State(d, v).value = v
    BY DEF State
  <1>4. \A m \in Messages : \/ \E r \in 1 .. Rows : m = Row(r)
                            \/ m = Online
                            \/ \E d \in Domains, v \in Readings \cup {Empty} : m = State(d, v)
    BY DEF Messages
  <1>5. /\ \A r \in 1 .. Rows : Row(r) \in Messages
        /\ Online \in Messages
        /\ \A d \in Domains, v \in Readings \cup {Empty} : State(d, v) \in Messages
    BY DEF Messages
  <1>6. QED
    BY <1>1, <1>2, <1>3, <1>4, <1>5 DEF IsWrite

\* A queue that loses its first message.
LEMMA FirstLeaves ==
    ASSUME NEW q \in Seq(Messages), q # << >>
    PROVE  /\ Head(q) = q[1] /\ q[1] \in Messages /\ Tail(q) \in Seq(Messages)
           /\ Len(q) \in Nat /\ Len(q) >= 1 /\ Len(Tail(q)) = Len(q) - 1
           /\ \A i \in 1 .. Len(q) - 1 : Tail(q)[i] = q[i + 1]
  OBVIOUS

\* The rows in front of a place move up by the one that left.
LEMMA SentAfterFirst ==
    ASSUME NEW q \in Seq(Messages), q # << >>, NEW i \in 1 .. Len(q)
    PROVE  SentIn(q, i + 1) =
              SentIn(Tail(q), i) \cup (IF q[1].topic = "row" THEN {q[1].of} ELSE {})
  <1>1. /\ Len(q) \in Nat /\ Len(q) >= 1
        /\ \A j \in 1 .. Len(q) - 1 : Tail(q)[j] = q[j + 1]
    BY FirstLeaves
  <1> DEFINE p == Tail(q)
  <1> HIDE DEF p
  <1>2. \A j \in 1 .. i - 1 : p[j] = q[j + 1] /\ j + 1 \in 1 .. (i + 1) - 1
    BY <1>1 DEF p
  <1>3. \A j \in 1 .. (i + 1) - 1 : j = 1 \/ (j - 1 \in 1 .. i - 1 /\ (j - 1) + 1 = j)
    BY <1>1
  <1>4. 1 \in 1 .. (i + 1) - 1
    BY <1>1
  <1>5. SentIn(q, i + 1) \subseteq
              SentIn(p, i) \cup (IF q[1].topic = "row" THEN {q[1].of} ELSE {})
    <2> SUFFICES ASSUME NEW j \in 1 .. (i + 1) - 1, q[j].topic = "row"
                 PROVE  q[j].of \in SentIn(p, i) \cup (IF q[1].topic = "row" THEN {q[1].of} ELSE {})
      BY DEF SentIn
    <2>1. CASE j = 1
      BY <2>1
    <2>2. CASE j # 1
      <3>1. j - 1 \in 1 .. i - 1 /\ p[j - 1] = q[j]
        BY <1>2, <1>3, <2>2
      <3>2. QED
        BY <3>1 DEF SentIn
    <2>3. QED
      BY <2>1, <2>2
  <1>6. SentIn(p, i) \subseteq SentIn(q, i + 1)
    <2> SUFFICES ASSUME NEW j \in 1 .. i - 1, p[j].topic = "row"
                 PROVE  p[j].of \in SentIn(q, i + 1)
      BY DEF SentIn
    <2>1. p[j] = q[j + 1] /\ j + 1 \in 1 .. (i + 1) - 1
      BY <1>2
    <2>2. QED
      BY <2>1 DEF SentIn
  <1>7. q[1].topic = "row" => q[1].of \in SentIn(q, i + 1)
    BY <1>4 DEF SentIn
  <1>8. QED
    BY <1>5, <1>6, <1>7 DEF p

\* A domain that ends empty still does once its first write was retained.
LEMMA EmptyAfterFirst ==
    ASSUME NEW q \in Seq(Messages), q # << >>, NEW d, NEW v, EmptyIn(v, q, d)
    PROVE  EmptyIn(IF IsWrite(q[1], d) THEN q[1].value ELSE v, Tail(q), d)
  <1> DEFINE p == Tail(q)
             w == IF IsWrite(q[1], d) THEN q[1].value ELSE v
  <1>1. /\ Len(q) \in Nat /\ Len(q) >= 1 /\ Len(p) = Len(q) - 1
        /\ \A j \in 1 .. Len(q) - 1 : p[j] = q[j + 1]
    BY FirstLeaves
  <1> HIDE DEF p
  <1>2. \A j \in 2 .. Len(q) : j - 1 \in 1 .. Len(p) /\ p[j - 1] = q[j]
    <2> TAKE j \in 2 .. Len(q)
    <2>1. j - 1 \in 1 .. Len(q) - 1 /\ (j - 1) + 1 = j
      BY <1>1
    <2>2. QED
      BY <1>1, <2>1
  <1>3. ASSUME NEW i \in 1 .. Len(p), IsWrite(p[i], d)
        PROVE  p[i].value = Empty \/ \E j \in i + 1 .. Len(p) : IsWrite(p[j], d)
    <2>1. i + 1 \in 1 .. Len(q) /\ p[i] = q[i + 1]
      BY <1>1
    <2>2. CASE q[i + 1].value = Empty
      BY <2>1, <2>2
    <2>3. CASE \E j \in (i + 1) + 1 .. Len(q) : IsWrite(q[j], d)
      <3>1. PICK j \in (i + 1) + 1 .. Len(q) : IsWrite(q[j], d)
        BY <2>3
      <3>2. j \in 2 .. Len(q) /\ j - 1 \in i + 1 .. Len(p)
        BY <1>1
      <3>3. QED
        BY <1>2, <3>1, <3>2
    <2>4. QED
      BY <1>3, <2>1, <2>2, <2>3 DEF EmptyIn
  <1>4. ASSUME \A i \in 1 .. Len(p) : ~IsWrite(p[i], d)
        PROVE  w = Empty
    <2>1. \A j \in 2 .. Len(q) : ~IsWrite(q[j], d)
      BY <1>2, <1>4
    <2>2. CASE IsWrite(q[1], d)
      <3>1. 1 \in 1 .. Len(q) /\ 1 + 1 = 2
        BY <1>1
      <3>2. q[1].value = Empty \/ \E j \in 2 .. Len(q) : IsWrite(q[j], d)
        BY <2>2, <3>1 DEF EmptyIn
      <3>3. QED
        BY <2>1, <2>2, <3>2
    <2>3. CASE ~IsWrite(q[1], d)
      <3>1. \A j \in 1 .. Len(q) : j = 1 \/ j \in 2 .. Len(q)
        BY <1>1
      <3>2. QED
        BY <2>1, <2>3, <3>1 DEF EmptyIn
    <2>4. QED
      BY <2>2, <2>3
  <1>5. QED
    BY <1>3, <1>4 DEF EmptyIn, p

\* A queue that gets one more message.
LEMMA LastEnters ==
    ASSUME NEW q \in Seq(Messages), NEW m \in Messages
    PROVE  /\ Append(q, m) \in Seq(Messages) /\ Len(Append(q, m)) = Len(q) + 1
           /\ Len(q) \in Nat
           /\ \A i \in 1 .. Len(q) : Append(q, m)[i] = q[i]
           /\ Append(q, m)[Len(q) + 1] = m
  OBVIOUS

\* A message at the end is behind every row in front of it.
LEMMA SentAfterLast ==
    ASSUME NEW q \in Seq(Messages), NEW m \in Messages
    PROVE  /\ \A i \in 1 .. Len(q) + 1 : SentIn(Append(q, m), i) = SentIn(q, i)
           /\ SentIn(q, Len(q) + 1) \subseteq SentIn(Append(q, m), Len(q) + 2)
           /\ m.topic = "row" => m.of \in SentIn(Append(q, m), Len(q) + 2)
  <1> DEFINE p == Append(q, m)
  <1>1. Len(q) \in Nat /\ (\A i \in 1 .. Len(q) : p[i] = q[i]) /\ p[Len(q) + 1] = m
    BY LastEnters
  <1> HIDE DEF p
  <1>2. ASSUME NEW i \in 1 .. Len(q) + 1 PROVE SentIn(p, i) = SentIn(q, i)
    <2>1. \A j \in 1 .. i - 1 : p[j] = q[j]
      BY <1>1
    <2>2. QED
      BY <2>1 DEF SentIn
  <1>3. SentIn(q, Len(q) + 1) \subseteq SentIn(p, Len(q) + 2)
    <2>1. \A j \in 1 .. (Len(q) + 1) - 1 : j \in 1 .. (Len(q) + 2) - 1 /\ p[j] = q[j]
      BY <1>1
    <2>2. QED
      BY <2>1 DEF SentIn
  <1>4. m.topic = "row" => m.of \in SentIn(p, Len(q) + 2)
    <2>1. Len(q) + 1 \in 1 .. (Len(q) + 2) - 1
      BY <1>1
    <2>2. QED
      BY <1>1, <2>1 DEF SentIn
  <1>5. QED
    BY <1>2, <1>3, <1>4 DEF p

\* A clear at the end empties its domain; another message changes nothing.
LEMMA EmptyAfterLast ==
    ASSUME NEW q \in Seq(Messages), NEW m \in Messages, NEW d, NEW v,
           \/ IsWrite(m, d) /\ m.value = Empty
           \/ ~IsWrite(m, d) /\ EmptyIn(v, q, d)
    PROVE  EmptyIn(v, Append(q, m), d)
  <1> DEFINE p == Append(q, m)
  <1>1. /\ Len(q) \in Nat /\ (\A i \in 1 .. Len(q) : p[i] = q[i]) /\ p[Len(q) + 1] = m
        /\ Len(p) = Len(q) + 1
    BY LastEnters
  <1> HIDE DEF p
  <1>2. \A i \in 1 .. Len(p) : i = Len(q) + 1 \/ i \in 1 .. Len(q)
    BY <1>1
  <1>3. CASE IsWrite(m, d) /\ m.value = Empty
    <2>1. Len(q) + 1 \in 1 .. Len(p) /\ \A i \in 1 .. Len(q) : Len(q) + 1 \in i + 1 .. Len(p)
      BY <1>1
    <2>2. QED
      BY <1>1, <1>2, <1>3, <2>1 DEF EmptyIn, p
  <1>4. CASE ~IsWrite(m, d) /\ EmptyIn(v, q, d)
    <2>1. \A i \in 1 .. Len(q) : i \in 1 .. Len(p) /\ \A j \in i + 1 .. Len(q) :
              j \in 1 .. Len(q) /\ j \in i + 1 .. Len(p)
      BY <1>1
    <2>2. (\A i \in 1 .. Len(p) : ~IsWrite(p[i], d)) => v = Empty
      BY <1>1, <1>4, <2>1 DEF EmptyIn
    <2>3. ASSUME NEW i \in 1 .. Len(p), IsWrite(p[i], d)
          PROVE  p[i].value = Empty \/ \E j \in i + 1 .. Len(p) : IsWrite(p[j], d)
      <3>1. i \in 1 .. Len(q) /\ p[i] = q[i]
        BY <1>1, <1>2, <1>4, <2>3
      <3>2. QED
        BY <1>1, <1>4, <2>1, <2>3, <3>1 DEF EmptyIn
    <2>4. QED
      BY <2>2, <2>3 DEF EmptyIn, p
  <1>5. QED
    BY <1>3, <1>4

----------------------------------------------------------------------------
(* What the outbox may lose and get.                                       *)

\* A first message that leaves, delivered or expired, is accounted for.
LEMMA RowsAfterFirst ==
    ASSUME MqttTypeOK, OnlineFollowsEveryRow, RowsAreBehind,
           outbox # << >>, outbox' = Tail(outbox), pub' = pub,
           broker.rows \cup expiredRows \cup
               (IF outbox[1].topic = "row" THEN {outbox[1].of} ELSE {})
                   \subseteq broker'.rows \cup expiredRows',
           broker'.avail = "online" => broker.avail = "online" \/ outbox[1] = Online
    PROVE  OnlineFollowsEveryRow' /\ RowsAreBehind'
  <1>1. /\ outbox \in Seq(Messages) /\ DOMAIN outbox = 1 .. Len(outbox)
        /\ DOMAIN outbox' = 1 .. Len(outbox')
        /\ Len(outbox) \in Nat /\ Len(outbox) >= 1 /\ Len(outbox') = Len(outbox) - 1
        /\ \A i \in 1 .. Len(outbox) - 1 : outbox'[i] = outbox[i + 1]
    BY FirstLeaves DEF MqttTypeOK
  <1>2. ASSUME NEW i \in 1 .. Len(outbox), NEW r,
               r \in broker.rows \cup SentIn(outbox, i + 1) \cup expiredRows
        PROVE  r \in broker'.rows \cup SentIn(outbox', i) \cup expiredRows'
    BY <1>1, <1>2, SentAfterFirst
  <1>3. ASSUME NEW i \in 1 .. Len(outbox'), outbox'[i] = Online
        PROVE  1 .. Rows \subseteq broker'.rows \cup SentIn(outbox', i) \cup expiredRows'
    <2>1. i + 1 \in 1 .. Len(outbox) /\ i \in 1 .. Len(outbox) /\ outbox[i + 1] = Online
      BY <1>1, <1>3
    <2>2. 1 .. Rows \subseteq broker.rows \cup SentIn(outbox, i + 1) \cup expiredRows
      BY <1>1, <2>1, SentIsSentIn DEF OnlineFollowsEveryRow
    <2>3. QED
      BY <1>2, <2>1, <2>2
  <1>4. ASSUME broker'.avail = "online"
        PROVE  1 .. Rows \subseteq broker'.rows \cup expiredRows'
    <2>1. CASE broker.avail = "online"
      BY <2>1 DEF OnlineFollowsEveryRow
    <2>2. CASE outbox[1] = Online
      <3>1. 1 \in DOMAIN outbox /\ \A j : j \notin 1 .. 1 - 1
        BY <1>1
      <3>2. Sent(1) = {}
        BY <3>1 DEF Sent
      <3>3. 1 .. Rows \subseteq broker.rows \cup expiredRows
        BY <2>2, <3>1, <3>2 DEF OnlineFollowsEveryRow
      <3>4. QED
        BY <3>3
    <2>3. QED
      BY <1>4, <2>1, <2>2
  <1>5. \A r : Behind(r, Len(outbox) + 1) =>
            r \in broker'.rows \cup SentIn(outbox', Len(outbox') + 1) \cup expiredRows'
    <2>1. Len(outbox) \in 1 .. Len(outbox) /\ Len(outbox') + 1 = Len(outbox)
      BY <1>1
    <2>2. QED
      BY <1>2, <2>1, SentIsSentIn DEF Behind
  <1>6. OnlineFollowsEveryRow'
    BY <1>1, <1>3, <1>4, SentIsSentIn DEF OnlineFollowsEveryRow
  <1>7. RowsAreBehind'
    BY <1>5, SentIsSentIn DEF RowsAreBehind, Behind
  <1>8. QED
    BY <1>6, <1>7

\* An accepted message is behind everything the outbox holds.
LEMMA RowsAfterLast ==
    ASSUME MqttTypeOK, OnlineFollowsEveryRow, NEW m \in Messages,
           outbox' = Append(outbox, m), UNCHANGED <<broker, expiredRows>>,
           m = Online => \A r \in 1 .. Rows : Behind(r, Len(outbox) + 1)
    PROVE  /\ OnlineFollowsEveryRow'
           /\ \A r : Behind(r, Len(outbox) + 1) \/ (m.topic = "row" /\ m.of = r) =>
                 r \in broker'.rows \cup SentIn(outbox', Len(outbox') + 1) \cup expiredRows'
  <1>1. /\ outbox \in Seq(Messages) /\ DOMAIN outbox = 1 .. Len(outbox)
        /\ DOMAIN outbox' = 1 .. Len(outbox')
        /\ Len(outbox) \in Nat /\ Len(outbox') = Len(outbox) + 1
        /\ \A i \in 1 .. Len(outbox) : outbox'[i] = outbox[i]
        /\ outbox'[Len(outbox) + 1] = m
    BY LastEnters DEF MqttTypeOK
  <1>2. /\ \A i \in 1 .. Len(outbox) + 1 : SentIn(outbox', i) = SentIn(outbox, i)
        /\ SentIn(outbox, Len(outbox) + 1) \subseteq SentIn(outbox', Len(outbox) + 2)
        /\ m.topic = "row" => m.of \in SentIn(outbox', Len(outbox) + 2)
    BY <1>1, SentAfterLast
  <1>3. ASSUME NEW i \in 1 .. Len(outbox'), outbox'[i] = Online
        PROVE  1 .. Rows \subseteq broker.rows \cup SentIn(outbox', i) \cup expiredRows
    <2>1. CASE i \in 1 .. Len(outbox)
      <3>1. outbox[i] = Online /\ SentIn(outbox', i) = SentIn(outbox, i)
        BY <1>1, <1>2, <1>3, <2>1
      <3>2. QED
        BY <1>1, <2>1, <3>1, SentIsSentIn DEF OnlineFollowsEveryRow
    <2>2. CASE i = Len(outbox) + 1
      BY <1>1, <1>2, <1>3, <2>2, SentIsSentIn DEF Behind
    <2>3. QED
      BY <1>1, <2>1, <2>2
  <1>4. OnlineFollowsEveryRow'
    BY <1>1, <1>3, SentIsSentIn DEF OnlineFollowsEveryRow
  <1>5. Len(outbox') + 1 = Len(outbox) + 2
    BY <1>1
  <1>6. QED
    BY <1>2, <1>4, <1>5, SentIsSentIn DEF Behind

\* The condition under which the publisher may rely on its own record.
Reliable == mqUp /\ event = "none" /\ ~s_reset_domain_state

\* A cleared domain stays so when the first message leaves the outbox.
LEMMA ClearedAfterFirst ==
    ASSUME MqttTypeOK, ClearedIsEmpty, outbox # << >>, outbox' = Tail(outbox),
           Reliable' => Reliable, UNCHANGED s_domain_state,
           Reliable => \A d \in Domains : broker'.state[d] =
               IF IsWrite(outbox[1], d) THEN outbox[1].value ELSE broker.state[d]
    PROVE  ClearedIsEmpty'
  <1>1. outbox \in Seq(Messages) /\ outbox' \in Seq(Messages)
    BY FirstLeaves DEF MqttTypeOK
  <1>2. ASSUME NEW d \in Domains, s_domain_state[d] = "Cleared", Reliable'
        PROVE  EndsEmpty(d)'
    <2>1. Reliable
      BY <1>2
    <2>2. EmptyIn(broker.state[d], outbox, d)
      BY <1>1, <1>2, <2>1, EndsEmptyIs DEF ClearedIsEmpty, Reliable
    <2>3. EmptyIn(broker'.state[d], outbox', d)
      BY <1>1, <2>1, <2>2, EmptyAfterFirst
    <2>4. QED
      BY <1>1, <2>3, EndsEmptyIs
  <1>3. QED
    BY <1>2 DEF ClearedIsEmpty, Reliable

\* A cleared domain stays so when the publisher adds a message.
LEMMA ClearedAfterLast ==
    ASSUME MqttTypeOK, ClearedIsEmpty, NEW m \in Messages, outbox' = Append(outbox, m),
           UNCHANGED <<broker, mqUp, event, s_reset_domain_state>>,
           \A d \in Domains : s_domain_state'[d] = "Cleared" =>
              \/ IsWrite(m, d) /\ m.value = Empty
              \/ ~IsWrite(m, d) /\ s_domain_state[d] = "Cleared"
    PROVE  ClearedIsEmpty'
  <1>1. outbox \in Seq(Messages) /\ outbox' \in Seq(Messages)
    BY LastEnters DEF MqttTypeOK
  <1>2. ASSUME NEW d \in Domains, s_domain_state'[d] = "Cleared", Reliable
        PROVE  EndsEmpty(d)'
    <2>1. s_domain_state[d] = "Cleared" => EmptyIn(broker.state[d], outbox, d)
      BY <1>1, <1>2, EndsEmptyIs DEF ClearedIsEmpty, Reliable
    <2>2. EmptyIn(broker'.state[d], outbox', d)
      BY <1>1, <1>2, <2>1, EmptyAfterLast
    <2>3. QED
      BY <1>1, <2>2, EndsEmptyIs
  <1>3. QED
    BY <1>2 DEF ClearedIsEmpty, Reliable

\* A publisher that rests, sleeps or chooses is well typed.
LEMMA RestingTyped ==
    /\ IdlePub \in PubType
    /\ [IdlePub EXCEPT !.at = "pause"] \in PubType
  <1>1. 0 \in 0 .. Rows + Gated + 2
    BY MqttAssumption
  <1>2. QED
    BY <1>1 DEF IdlePub, PubType


\* Nothing the broker retains and nothing in the outbox changes.
LEMMA StillOnline ==
    ASSUME OnlineFollowsEveryRow, UNCHANGED <<outbox, expiredRows>>,
           broker'.rows = broker.rows,
           broker'.avail = "online" => broker.avail = "online"
    PROVE  OnlineFollowsEveryRow'
  BY DEF OnlineFollowsEveryRow, Sent

\* The same for the domains the bridge takes to be cleared.
LEMMA StillCleared ==
    ASSUME ClearedIsEmpty, UNCHANGED outbox, broker'.state = broker.state,
           Reliable' => /\ Reliable
                        /\ \A d \in Domains : s_domain_state'[d] = "Cleared" =>
                                              s_domain_state[d] = "Cleared"
    PROVE  ClearedIsEmpty'
  BY DEF ClearedIsEmpty, Reliable, EndsEmpty, Writes

\* What the broker retains stays well typed.
LEMMA RetainTyped ==
    ASSUME broker \in BrokerType, NEW m \in Messages
    PROVE  Retain(m) \in BrokerType
  <1>1. /\ m.topic \in {"row", "avail", "state"}
        /\ m.topic = "row" => m.of \in 1 .. Rows
        /\ m.topic = "avail" => m.value = "online"
        /\ m.topic = "state" => m.value \in Readings \cup {Empty}
    BY MessagesAre
  <1>2. PICK rows \in SUBSET (1 .. Rows), avail \in {"online", "offline"},
             state \in [Domains -> Readings \cup {Empty, Old}] :
               broker = [rows |-> rows, avail |-> avail, state |-> state]
    BY DEF BrokerType
  <1>3. CASE m.topic = "row"
    <2>1. Retain(m) = [rows |-> rows \cup {m.of}, avail |-> avail, state |-> state]
      BY <1>2, <1>3 DEF Retain
    <2>2. rows \cup {m.of} \in SUBSET (1 .. Rows)
      BY <1>1, <1>3
    <2>3. QED
      BY <2>1, <2>2 DEF BrokerType
  <1>4. CASE m.topic = "avail"
    <2>1. Retain(m) = [rows |-> rows, avail |-> m.value, state |-> state]
      BY <1>2, <1>4 DEF Retain
    <2>2. QED
      BY <1>1, <1>4, <2>1 DEF BrokerType
  <1>5. CASE m.topic = "state"
    <2>1. Retain(m) = [rows |-> rows, avail |-> avail,
                       state |-> [state EXCEPT ![m.of] = m.value]]
      BY <1>2, <1>5 DEF Retain
    <2>2. [state EXCEPT ![m.of] = m.value] \in [Domains -> Readings \cup {Empty, Old}]
      BY <1>1, <1>5
    <2>3. QED
      BY <2>1, <2>2 DEF BrokerType
  <1>6. QED
    BY <1>1, <1>3, <1>4, <1>5

\* A bound that is used up by one stays within its range.
LEMMA BudgetFalls ==
    ASSUME mqBudget \in BudgetType
    PROVE  /\ mqBudget.drops > 0 => [mqBudget EXCEPT !.drops = @ - 1] \in BudgetType
           /\ mqBudget.refusals > 0 => [mqBudget EXCEPT !.refusals = @ - 1] \in BudgetType
           /\ mqBudget.caches > 0 => [mqBudget EXCEPT !.caches = @ - 1] \in BudgetType
  <1>1. PICK a \in 0 .. MaxDrops, b \in 0 .. MaxRejections, c \in 0 .. MaxCaches :
               mqBudget = [drops |-> a, refusals |-> b, caches |-> c]
    BY DEF BudgetType
  <1>2. /\ a > 0 => a - 1 \in 0 .. MaxDrops
        /\ b > 0 => b - 1 \in 0 .. MaxRejections
        /\ c > 0 => c - 1 \in 0 .. MaxCaches
    BY MqttAssumption
  <1>3. QED
    BY <1>1, <1>2 DEF BudgetType

\* StartClient keeps MqttInv.
LEMMA StartClientKeeps ==
    ASSUME MqttTypeOK, MqttInv, StartClient
    PROVE  MqttTypeOK' /\ MqttInv'
  <1> USE DEF MqttInv, MqttTypeOK, StartClient, shared
  <1>1. MqttTypeOK'
    <2>1. bridge' \in {"off", "client", "running", "failed"}
      BY RestingTyped, MqttAssumption
    <2>2. QED
      BY <2>1
  <1>2. OnlineFollowsEveryRow'
    BY StillOnline
  <1>3. RowsAreBehind'
    BY MqttAssumption DEF RowsAreBehind, Behind, Sent
  <1>4. PlanIsSound'
    BY MqttAssumption DEF PlanIsSound, Domains, Device, DomainPublishState
  <1>5. ClearedIsEmpty'
    BY StillCleared DEF Reliable
  <1>6. QED
    BY <1>1, <1>2, <1>3, <1>4, <1>5

\* StartPublisher keeps MqttInv.
LEMMA StartPublisherKeeps ==
    ASSUME MqttTypeOK, MqttInv, StartPublisher
    PROVE  MqttTypeOK' /\ MqttInv'
  <1> USE DEF MqttInv, MqttTypeOK, StartPublisher, shared
  <1>1. MqttTypeOK'
    <2>1. bridge' \in {"off", "client", "running", "failed"}
      BY RestingTyped, MqttAssumption
    <2>2. QED
      BY <2>1
  <1>2. OnlineFollowsEveryRow'
    BY StillOnline
  <1>3. RowsAreBehind'
    BY MqttAssumption DEF RowsAreBehind, Behind, Sent
  <1>4. PlanIsSound'
    BY MqttAssumption DEF PlanIsSound, Domains, Device, DomainPublishState
  <1>5. ClearedIsEmpty'
    BY StillCleared DEF Reliable
  <1>6. QED
    BY <1>1, <1>2, <1>3, <1>4, <1>5

\* StartFails keeps MqttInv.
LEMMA StartFailsKeeps ==
    ASSUME MqttTypeOK, MqttInv, StartFails
    PROVE  MqttTypeOK' /\ MqttInv'
  <1> USE DEF MqttInv, MqttTypeOK, StartFails
  <1>1. MqttTypeOK'
    <2>1. bridge' \in {"off", "client", "running", "failed"}
      BY RestingTyped, MqttAssumption
    <2>2. mqUp' \in BOOLEAN
      BY RestingTyped, MqttAssumption
    <2>3. s_connected' \in BOOLEAN
      BY RestingTyped, MqttAssumption
    <2>4. s_need_discovery' \in BOOLEAN
      BY RestingTyped, MqttAssumption
    <2>5. QED
      BY <2>1, <2>2, <2>3, <2>4
  <1>2. OnlineFollowsEveryRow'
    BY StillOnline
  <1>3. RowsAreBehind'
    BY MqttAssumption DEF RowsAreBehind, Behind, Sent
  <1>4. PlanIsSound'
    BY MqttAssumption DEF PlanIsSound, Domains, Device, DomainPublishState
  <1>5. ClearedIsEmpty'
    BY StillCleared DEF Reliable
  <1>6. QED
    BY <1>1, <1>2, <1>3, <1>4, <1>5

\* Deliver keeps MqttInv.
LEMMA DeliverKeeps ==
    ASSUME MqttTypeOK, MqttInv, Deliver
    PROVE  MqttTypeOK' /\ MqttInv'
  <1> USE DEF MqttInv, MqttTypeOK, Deliver, shared
  <1>1. MqttTypeOK'
    <2>1. broker' \in BrokerType
      <3>1. outbox[1] \in Messages /\ broker' = Retain(outbox[1])
        BY FirstLeaves
      <3>2. QED
        BY <3>1, RetainTyped
    <2>2. outbox' \in Seq(Messages) /\ Len(outbox') <= OutboxSize
      <3>1. /\ Tail(outbox) \in Seq(Messages) /\ Len(outbox) \in Nat
            /\ Len(Tail(outbox)) = Len(outbox) - 1
        BY FirstLeaves
      <3>2. QED
        BY <3>1, MqttAssumption
    <2>3. expiredRows' \in SUBSET (1 .. Rows)
      <3>1. outbox[1] \in Messages /\ Head(outbox) = outbox[1]
        BY FirstLeaves
      <3>2. outbox[1].topic = "row" => outbox[1].of \in 1 .. Rows
        BY <3>1, MessagesAre
      <3>3. QED
        BY <3>1, <3>2
    <2>4. QED
      BY <2>1, <2>2, <2>3
  <1>2. OnlineFollowsEveryRow'
    <2>1. outbox \in Seq(Messages) /\ Head(outbox) = outbox[1] /\ outbox[1] \in Messages
      BY FirstLeaves
    <2>2. broker.rows \cup expiredRows \cup
            (IF outbox[1].topic = "row" THEN {outbox[1].of} ELSE {})
              \subseteq broker'.rows \cup expiredRows'
      BY <2>1, MessagesAre DEF BrokerType, Retain
    <2>3. broker'.avail = "online" => broker.avail = "online" \/ outbox[1] = Online
      BY <2>1, MessagesAre DEF BrokerType, Retain
    <2>4. QED
      BY <2>2, <2>3, RowsAfterFirst
  <1>3. RowsAreBehind'
    <2>1. outbox \in Seq(Messages) /\ Head(outbox) = outbox[1] /\ outbox[1] \in Messages
      BY FirstLeaves
    <2>2. broker.rows \cup expiredRows \cup
            (IF outbox[1].topic = "row" THEN {outbox[1].of} ELSE {})
              \subseteq broker'.rows \cup expiredRows'
      BY <2>1, MessagesAre DEF BrokerType, Retain
    <2>3. broker'.avail = "online" => broker.avail = "online" \/ outbox[1] = Online
      BY <2>1, MessagesAre DEF BrokerType, Retain
    <2>4. QED
      BY <2>2, <2>3, RowsAfterFirst
  <1>4. PlanIsSound'
    BY MqttAssumption DEF PlanIsSound, Domains, Device, DomainPublishState
  <1>5. ClearedIsEmpty'
    <2>1. outbox[1] \in Messages /\ Head(outbox) = outbox[1]
      BY FirstLeaves
    <2>2. ASSUME NEW d \in Domains
          PROVE  broker'.state[d] =
                   IF IsWrite(outbox[1], d) THEN outbox[1].value ELSE broker.state[d]
      BY <2>1, MessagesAre DEF IsWrite, BrokerType, Retain
    <2>3. QED
      BY <2>2, ClearedAfterFirst DEF Reliable
  <1>6. QED
    BY <1>1, <1>2, <1>3, <1>4, <1>5

\* OutboxExpires keeps MqttInv.
LEMMA OutboxExpiresKeeps ==
    ASSUME MqttTypeOK, MqttInv, OutboxExpires
    PROVE  MqttTypeOK' /\ MqttInv'
  <1> USE DEF MqttInv, MqttTypeOK, OutboxExpires, shared
  <1>1. MqttTypeOK'
    <2>1. outbox' \in Seq(Messages) /\ Len(outbox') <= OutboxSize
      <3>1. /\ Tail(outbox) \in Seq(Messages) /\ Len(outbox) \in Nat
            /\ Len(Tail(outbox)) = Len(outbox) - 1
        BY FirstLeaves
      <3>2. QED
        BY <3>1, MqttAssumption
    <2>2. expiredRows' \in SUBSET (1 .. Rows)
      <3>1. outbox[1] \in Messages /\ Head(outbox) = outbox[1]
        BY FirstLeaves
      <3>2. outbox[1].topic = "row" => outbox[1].of \in 1 .. Rows
        BY <3>1, MessagesAre
      <3>3. QED
        BY <3>1, <3>2
    <2>3. QED
      BY <2>1, <2>2
  <1>2. OnlineFollowsEveryRow'
    <2>1. Head(outbox) = outbox[1]
      BY FirstLeaves
    <2>2. QED
      BY <2>1, RowsAfterFirst
  <1>3. RowsAreBehind'
    <2>1. Head(outbox) = outbox[1]
      BY FirstLeaves
    <2>2. QED
      BY <2>1, RowsAfterFirst
  <1>4. PlanIsSound'
    BY MqttAssumption DEF PlanIsSound, Domains, Device, DomainPublishState
  <1>5. ClearedIsEmpty'
    BY ClearedAfterFirst DEF Reliable
  <1>6. QED
    BY <1>1, <1>2, <1>3, <1>4, <1>5

\* Connected keeps MqttInv.
LEMMA ConnectedKeeps ==
    ASSUME MqttTypeOK, MqttInv, Connected
    PROVE  MqttTypeOK' /\ MqttInv'
  <1> USE DEF MqttInv, MqttTypeOK, Connected
  <1>1. MqttTypeOK'
    <2>1. mqUp' \in BOOLEAN
      BY RestingTyped, MqttAssumption
    <2>2. event' \in {"none", "need", "reset"}
      BY RestingTyped, MqttAssumption
    <2>3. s_connected' \in BOOLEAN
      BY RestingTyped, MqttAssumption
    <2>4. QED
      BY <2>1, <2>2, <2>3
  <1>2. OnlineFollowsEveryRow'
    BY StillOnline
  <1>3. RowsAreBehind'
    BY MqttAssumption DEF RowsAreBehind, Behind, Sent
  <1>4. PlanIsSound'
    BY MqttAssumption DEF PlanIsSound, Domains, Device, DomainPublishState
  <1>5. ClearedIsEmpty'
    BY StillCleared DEF Reliable
  <1>6. QED
    BY <1>1, <1>2, <1>3, <1>4, <1>5

\* HandlerFinishes keeps MqttInv.
LEMMA HandlerFinishesKeeps ==
    ASSUME MqttTypeOK, MqttInv, HandlerFinishes
    PROVE  MqttTypeOK' /\ MqttInv'
  <1> USE DEF MqttInv, MqttTypeOK, HandlerFinishes, HandlerStores
  <1>1. MqttTypeOK'
    <2>1. event' \in {"none", "need", "reset"}
      BY RestingTyped, MqttAssumption
    <2>2. s_need_discovery' \in BOOLEAN
      BY RestingTyped, MqttAssumption
    <2>3. s_reset_domain_state' \in BOOLEAN
      BY RestingTyped, MqttAssumption
    <2>4. QED
      BY <2>1, <2>2, <2>3
  <1>2. OnlineFollowsEveryRow'
    BY StillOnline
  <1>3. RowsAreBehind'
    BY MqttAssumption DEF RowsAreBehind, Behind, Sent
  <1>4. PlanIsSound'
    BY MqttAssumption DEF PlanIsSound, Domains, Device, DomainPublishState
  <1>5. ClearedIsEmpty'
    BY StillCleared DEF Reliable
  <1>6. QED
    BY <1>1, <1>2, <1>3, <1>4, <1>5

\* Disconnected keeps MqttInv.
LEMMA DisconnectedKeeps ==
    ASSUME MqttTypeOK, MqttInv, Disconnected
    PROVE  MqttTypeOK' /\ MqttInv'
  <1> USE DEF MqttInv, MqttTypeOK, Disconnected
  <1>1. MqttTypeOK'
    <2>1. broker' \in BrokerType
      BY RestingTyped, MqttAssumption DEF BrokerType
    <2>2. mqUp' \in BOOLEAN
      BY RestingTyped, MqttAssumption
    <2>3. s_connected' \in BOOLEAN
      BY RestingTyped, MqttAssumption
    <2>4. mqBudget' \in BudgetType
      BY BudgetFalls
    <2>5. QED
      BY <2>1, <2>2, <2>3, <2>4
  <1>2. OnlineFollowsEveryRow'
    BY StillOnline
  <1>3. RowsAreBehind'
    BY MqttAssumption DEF RowsAreBehind, Behind, Sent
  <1>4. PlanIsSound'
    BY MqttAssumption DEF PlanIsSound, Domains, Device, DomainPublishState
  <1>5. ClearedIsEmpty'
    BY StillCleared DEF Reliable
  <1>6. QED
    BY <1>1, <1>2, <1>3, <1>4, <1>5

\* PublisherWakes keeps MqttInv.
LEMMA PublisherWakesKeeps ==
    ASSUME MqttTypeOK, MqttInv, PublisherWakes
    PROVE  MqttTypeOK' /\ MqttInv'
  <1> USE DEF MqttInv, MqttTypeOK, PublisherWakes, PublisherIdle, domain_after_reconnect
  <1>1. MqttTypeOK'
    <2>1. s_reset_domain_state' \in BOOLEAN
      BY RestingTyped, MqttAssumption
    <2>2. s_domain_state' \in [Domains -> DomainPublishState]
      BY RestingTyped, MqttAssumption DEF DomainPublishState
    <2>3. pub' \in PubType
      BY RestingTyped, MqttAssumption DEF PubType
    <2>4. QED
      BY <2>1, <2>2, <2>3
  <1>2. OnlineFollowsEveryRow'
    BY StillOnline
  <1>3. RowsAreBehind'
    BY MqttAssumption DEF RowsAreBehind, Behind, Sent
  <1>4. PlanIsSound'
    BY MqttAssumption DEF OnlineFollowsEveryRow, Sent, RowsAreBehind, Behind, PlanIsSound,
       ClearedIsEmpty, EndsEmpty, Writes, Domains, Device, DomainPublishState
  <1>5. ClearedIsEmpty'
    <2>1. ~s_reset_domain_state' /\ mqUp' = mqUp /\ event' = event
      OBVIOUS
    <2>2. CASE s_reset_domain_state
      <3>1. \A d \in Domains : s_domain_state'[d] # "Cleared"
        BY <2>2
      <3>2. QED
        BY <3>1 DEF ClearedIsEmpty
    <2>3. CASE ~s_reset_domain_state
      BY <2>1, <2>3, StillCleared DEF Reliable
    <2>4. QED
      BY <2>2, <2>3
  <1>6. QED
    BY <1>1, <1>2, <1>3, <1>4, <1>5

\* PublisherChooses keeps MqttInv.
LEMMA PublisherChoosesKeeps ==
    ASSUME MqttTypeOK, MqttInv, PublisherChooses
    PROVE  MqttTypeOK' /\ MqttInv'
  <1> USE DEF MqttInv, MqttTypeOK, PublisherChooses, StartRound, IdlePub
  <1>1. MqttTypeOK'
    <2>1. s_need_discovery' \in BOOLEAN
      BY RestingTyped, MqttAssumption
    <2>2. pub' \in PubType
      <3>1. 1 \in 0 .. Rows + Gated + 2
        BY MqttAssumption
      <3>2. QED
        BY <3>1, RestingTyped DEF PubType
    <2>3. QED
      BY <2>1, <2>2
  <1>2. OnlineFollowsEveryRow'
    BY StillOnline
  <1>3. RowsAreBehind'
    BY MqttAssumption DEF OnlineFollowsEveryRow, Sent, RowsAreBehind, Behind, PlanIsSound,
       ClearedIsEmpty, EndsEmpty, Writes, Domains, Device, DomainPublishState
  <1>4. PlanIsSound'
    BY MqttAssumption DEF OnlineFollowsEveryRow, Sent, RowsAreBehind, Behind, PlanIsSound,
       ClearedIsEmpty, EndsEmpty, Writes, Domains, Device, DomainPublishState
  <1>5. ClearedIsEmpty'
    BY StillCleared DEF Reliable
  <1>6. QED
    BY <1>1, <1>2, <1>3, <1>4, <1>5

\* PauseEnds keeps MqttInv.
LEMMA PauseEndsKeeps ==
    ASSUME MqttTypeOK, MqttInv, PauseEnds
    PROVE  MqttTypeOK' /\ MqttInv'
  <1> USE DEF MqttInv, MqttTypeOK, PauseEnds, IdlePub, shared
  <1>1. MqttTypeOK'
    <2>1. pub' \in PubType
      BY RestingTyped, MqttAssumption DEF PubType
    <2>2. QED
      BY <2>1
  <1>2. OnlineFollowsEveryRow'
    BY StillOnline
  <1>3. RowsAreBehind'
    BY MqttAssumption DEF OnlineFollowsEveryRow, Sent, RowsAreBehind, Behind, PlanIsSound,
       ClearedIsEmpty, EndsEmpty, Writes, Domains, Device, DomainPublishState
  <1>4. PlanIsSound'
    BY MqttAssumption DEF OnlineFollowsEveryRow, Sent, RowsAreBehind, Behind, PlanIsSound,
       ClearedIsEmpty, EndsEmpty, Writes, Domains, Device, DomainPublishState
  <1>5. ClearedIsEmpty'
    BY StillCleared DEF Reliable
  <1>6. QED
    BY <1>1, <1>2, <1>3, <1>4, <1>5

\* PublishRow keeps MqttInv.
LEMMA PublishRowKeeps ==
    ASSUME MqttTypeOK, MqttInv, PublishRow
    PROVE  MqttTypeOK' /\ MqttInv'
  <1> USE DEF MqttInv, MqttTypeOK, PublishRow, Accepts, Rearm, IdlePub, Refused, AfterRow
  <1>1. MqttTypeOK'
    <2>1. s_need_discovery' \in BOOLEAN
      BY RestingTyped, MqttAssumption
    <2>2. outbox' \in Seq(Messages) /\ Len(outbox') <= OutboxSize
      <3>1. Row(pub.n) \in Messages
        BY MessagesAre DEF RowsAreBehind
      <3>2. CASE UNCHANGED outbox
        BY <3>2
      <3>3. CASE Accepts(Row(pub.n))
        BY <3>1, <3>3, LastEnters, MqttAssumption
      <3>4. QED
        BY <3>2, <3>3
    <2>3. pub' \in PubType
      <3>1. /\ pub.n < Rows => pub.n + 1 \in 0 .. Rows + Gated + 2
            /\ 0 \in 0 .. Rows + Gated + 2
        BY MqttAssumption DEF PubType
      <3>2. CASE Rearm
        BY <3>2, RestingTyped
      <3>3. CASE pub' = AfterRow
        BY <3>1, <3>3 DEF PubType
      <3>4. QED
        BY <3>2, <3>3
    <2>4. mqBudget' \in BudgetType
      BY BudgetFalls
    <2>5. QED
      BY <2>1, <2>2, <2>3, <2>4
  <1>2. OnlineFollowsEveryRow'
    <2>1. CASE Accepts(Row(pub.n))
      <3>1. Row(pub.n) \in Messages /\ Row(pub.n) # Online
        BY MessagesAre DEF RowsAreBehind
      <3>2. QED
        BY <2>1, <3>1, RowsAfterLast
    <2>2. CASE UNCHANGED outbox
      BY <2>2, StillOnline
    <2>3. QED
      BY <2>1, <2>2
  <1>3. RowsAreBehind'
    <2>1. CASE Accepts(Row(pub.n)) /\ pub' = AfterRow
      <3>1. /\ pub.n \in 1 .. Rows /\ Row(pub.n) \in Messages /\ Row(pub.n) # Online
            /\ Row(pub.n).topic = "row" /\ Row(pub.n).of = pub.n
        BY MessagesAre DEF RowsAreBehind
      <3>2. \A r : Behind(r, Len(outbox) + 1) \/ r = pub.n =>
              Behind(r, Len(outbox) + 1)'
        <4>1. \A r : Behind(r, Len(outbox) + 1) \/ r = pub.n =>
                r \in broker'.rows \cup SentIn(outbox', Len(outbox') + 1) \cup expiredRows'
          BY <2>1, <3>1, RowsAfterLast
        <4>2. QED
          BY <4>1, SentIsSentIn DEF Behind
      <3>3. \A r \in 1 .. pub.n : r \in 1 .. pub.n - 1 \/ r = pub.n
        BY <3>1
      <3>4. \A r \in 1 .. pub.n : Behind(r, Len(outbox) + 1)'
        BY <3>2, <3>3 DEF RowsAreBehind
      <3>5. CASE pub.n < Rows
        <4>1. /\ pub'.at = "row" /\ pub'.n = pub.n + 1 /\ pub.n + 1 \in 1 .. Rows
              /\ (pub.n + 1) - 1 = pub.n
          BY <2>1, <3>1, <3>5, MqttAssumption DEF PubType
        <4>2. QED
          BY <3>4, <4>1 DEF RowsAreBehind
      <3>6. CASE ~(pub.n < Rows)
        <4>1. pub'.at = "online" /\ pub.n = Rows
          BY <2>1, <3>1, <3>6, MqttAssumption DEF PubType
        <4>2. QED
          BY <3>4, <4>1 DEF RowsAreBehind
      <3>7. QED
        BY <3>5, <3>6
    <2>2. CASE Refused /\ Rearm
      BY <2>2 DEF RowsAreBehind
    <2>3. QED
      BY <2>1, <2>2
  <1>4. PlanIsSound'
    <2>1. pub'.at \in {"row", "online", "pause"}
      BY DEF PubType
    <2>2. QED
      BY <2>1 DEF PlanIsSound, Domains, Device
  <1>5. ClearedIsEmpty'
    <2>1. CASE Accepts(Row(pub.n))
      <3>1. Row(pub.n) \in Messages /\ \A d : ~IsWrite(Row(pub.n), d)
        BY MessagesAre DEF RowsAreBehind
      <3>2. QED
        BY <2>1, <3>1, ClearedAfterLast
    <2>2. CASE UNCHANGED outbox
      BY <2>2, StillCleared DEF Reliable
    <2>3. QED
      BY <2>1, <2>2
  <1>6. QED
    BY <1>1, <1>2, <1>3, <1>4, <1>5

\* PublishOnline keeps MqttInv.
LEMMA PublishOnlineKeeps ==
    ASSUME MqttTypeOK, MqttInv, PublishOnline
    PROVE  MqttTypeOK' /\ MqttInv'
  <1> USE DEF MqttInv, MqttTypeOK, PublishOnline, Accepts, Rearm, IdlePub, Refused
  <1>1. MqttTypeOK'
    <2>1. s_need_discovery' \in BOOLEAN
      BY RestingTyped, MqttAssumption
    <2>2. outbox' \in Seq(Messages) /\ Len(outbox') <= OutboxSize
      <3>1. CASE UNCHANGED outbox
        BY <3>1
      <3>2. CASE Accepts(Online)
        BY <3>2, LastEnters, MessagesAre, MqttAssumption
      <3>3. QED
        BY <3>1, <3>2
    <2>3. pub' \in PubType
      <3>1. 1 \in 0 .. Rows + Gated + 2
        BY MqttAssumption
      <3>2. QED
        BY <3>1, RestingTyped DEF PubType
    <2>4. mqBudget' \in BudgetType
      BY BudgetFalls
    <2>5. QED
      BY <2>1, <2>2, <2>3, <2>4
  <1>2. OnlineFollowsEveryRow'
    <2>1. CASE Accepts(Online)
      <3>1. \A r \in 1 .. Rows : Behind(r, Len(outbox) + 1)
        BY DEF RowsAreBehind
      <3>2. QED
        BY <2>1, <3>1, MessagesAre, RowsAfterLast
    <2>2. CASE UNCHANGED outbox
      BY <2>2, StillOnline
    <2>3. QED
      BY <2>1, <2>2
  <1>3. RowsAreBehind'
    BY DEF RowsAreBehind, PubType
  <1>4. PlanIsSound'
    <2>1. 1 \in 1 .. Gated + 2
      BY MqttAssumption
    <2>2. (pub'.at = "plan" /\ pub'.n = 1) \/ pub'.at = "pause"
      BY DEF PubType
    <2>3. QED
      BY <2>1, <2>2 DEF PlanIsSound, Domains, Device
  <1>5. ClearedIsEmpty'
    <2>1. CASE Accepts(Online)
      BY <2>1, MessagesAre, ClearedAfterLast
    <2>2. CASE UNCHANGED outbox
      BY <2>2, StillCleared DEF Reliable
    <2>3. QED
      BY <2>1, <2>2
  <1>6. QED
    BY <1>1, <1>2, <1>3, <1>4, <1>5

\* PlanDomain keeps MqttInv.
LEMMA PlanDomainKeeps ==
    ASSUME MqttTypeOK, MqttInv, PlanDomain
    PROVE  MqttTypeOK' /\ MqttInv'
  <1> USE DEF MqttInv, MqttTypeOK, PlanDomain, shared, decide_domain_publish
  <1>1. MqttTypeOK'
    <2>1. pub' \in PubType
      BY RestingTyped, MqttAssumption DEF PubType
    <2>2. QED
      BY <2>1
  <1>2. OnlineFollowsEveryRow'
    BY StillOnline
  <1>3. RowsAreBehind'
    BY MqttAssumption DEF RowsAreBehind, Behind, Sent
  <1>4. PlanIsSound'
    BY MqttAssumption DEF PlanIsSound, Domains, Device, DomainPublishState
  <1>5. ClearedIsEmpty'
    BY StillCleared DEF Reliable
  <1>6. QED
    BY <1>1, <1>2, <1>3, <1>4, <1>5

\* SendDomain keeps MqttInv.
LEMMA SendDomainKeeps ==
    ASSUME MqttTypeOK, MqttInv, SendDomain
    PROVE  MqttTypeOK' /\ MqttInv'
  <1> USE DEF MqttInv, MqttTypeOK, SendDomain, Accepts, Rearm, IdlePub, Refused, commit_domain,
      decide_domain_publish, NextDomain
  <1>1. MqttTypeOK'
    <2>1. s_need_discovery' \in BOOLEAN
      BY RestingTyped, MqttAssumption
    <2>2. s_domain_state' \in [Domains -> DomainPublishState]
      BY DEF DomainPublishState
    <2>3. outbox' \in Seq(Messages) /\ Len(outbox') <= OutboxSize
      <3>1. /\ pub.n \in Domains /\ pub.value \in Readings \cup {Empty}
            /\ State(pub.n, pub.value) \in Messages
        BY MessagesAre DEF PlanIsSound, PubType
      <3>2. CASE UNCHANGED outbox
        BY <3>2
      <3>3. CASE Accepts(State(pub.n, pub.value))
        BY <3>1, <3>3, LastEnters, MqttAssumption
      <3>4. QED
        BY <3>2, <3>3
    <2>4. pub' \in PubType
      <3>1. /\ pub.n + 1 \in 0 .. Rows + Gated + 2
        BY MqttAssumption DEF PlanIsSound, Domains
      <3>2. CASE Rearm
        BY <3>2, RestingTyped
      <3>3. CASE pub' = NextDomain
        BY <3>1, <3>3 DEF PubType
      <3>4. QED
        BY <3>2, <3>3
    <2>5. mqBudget' \in BudgetType
      BY BudgetFalls
    <2>6. QED
      BY <2>1, <2>2, <2>3, <2>4, <2>5
  <1>2. OnlineFollowsEveryRow'
    <2>1. CASE Accepts(State(pub.n, pub.value))
      <3>1. /\ State(pub.n, pub.value) \in Messages
            /\ State(pub.n, pub.value) # Online
        BY MessagesAre DEF PlanIsSound, PubType
      <3>2. QED
        BY <2>1, <3>1, RowsAfterLast
    <2>2. CASE UNCHANGED outbox
      BY <2>2, StillOnline
    <2>3. QED
      BY <2>1, <2>2
  <1>3. RowsAreBehind'
    BY DEF RowsAreBehind, PubType
  <1>4. PlanIsSound'
    <2>1. pub.n \in Domains /\ pub.n + 1 \in 1 .. Gated + 2
      BY MqttAssumption DEF PlanIsSound, Domains
    <2>2. s_domain_state'[Device] = "Unknown"
      BY MqttAssumption DEF PlanIsSound, Domains, Device
    <2>3. (pub'.at = "plan" /\ pub'.n = pub.n + 1) \/ pub'.at = "pause"
      BY DEF PubType
    <2>4. QED
      BY <2>1, <2>2, <2>3 DEF PlanIsSound
  <1>5. ClearedIsEmpty'
    <2>1. CASE Accepts(State(pub.n, pub.value)) /\ pub.plan # "Skip"
                                   /\ commit_domain(pub.n, pub.plan = "Publish")
      <3> DEFINE m == State(pub.n, pub.value)
      <3>1. /\ m \in Messages
            /\ \A d : IsWrite(m, d) <=> d = pub.n
            /\ m.value = pub.value
        BY MessagesAre DEF PlanIsSound, PubType, IsWrite
      <3>2. ASSUME NEW d \in Domains, s_domain_state'[d] = "Cleared"
            PROVE  \/ d = pub.n /\ pub.value = Empty
                   \/ d # pub.n /\ s_domain_state[d] = "Cleared"
        <4>1. pub.n # Device \/ s_domain_state' = s_domain_state
          BY <2>1
        <4>2. CASE d = pub.n
          <5>1. d # Device
            BY <2>1, <3>2, <4>2 DEF PlanIsSound
          <5>2. pub.plan # "Publish"
            BY <2>1, <3>2, <4>2, <5>1
          <5>3. QED
            BY <2>1, <4>2, <5>2 DEF PlanIsSound, PubType
        <4>3. CASE d # pub.n
          BY <2>1, <3>2, <4>3
        <4>4. QED
          BY <4>2, <4>3
      <3> HIDE DEF m
      <3>3. QED
        BY <2>1, <3>1, <3>2, ClearedAfterLast DEF m
    <2>2. CASE UNCHANGED outbox
      <3>1. \A d \in Domains : s_domain_state'[d] = "Cleared" => s_domain_state[d] = "Cleared"
        BY <2>2 DEF PlanIsSound
      <3>2. QED
        BY <2>2, <3>1, StillCleared DEF Reliable
    <2>3. QED
      BY <2>1, <2>2
  <1>6. QED
    BY <1>1, <1>2, <1>3, <1>4, <1>5

\* RoundSucceeds keeps MqttInv.
LEMMA RoundSucceedsKeeps ==
    ASSUME MqttTypeOK, MqttInv, RoundSucceeds
    PROVE  MqttTypeOK' /\ MqttInv'
  <1> USE DEF MqttInv, MqttTypeOK, RoundSucceeds, IdlePub, shared
  <1>1. MqttTypeOK'
    <2>1. stateDue' \in BOOLEAN
      BY RestingTyped, MqttAssumption
    <2>2. pub' \in PubType
      BY RestingTyped, MqttAssumption DEF PubType
    <2>3. QED
      BY <2>1, <2>2
  <1>2. OnlineFollowsEveryRow'
    BY StillOnline
  <1>3. RowsAreBehind'
    BY MqttAssumption DEF OnlineFollowsEveryRow, Sent, RowsAreBehind, Behind, PlanIsSound,
       ClearedIsEmpty, EndsEmpty, Writes, Domains, Device, DomainPublishState
  <1>4. PlanIsSound'
    BY MqttAssumption DEF OnlineFollowsEveryRow, Sent, RowsAreBehind, Behind, PlanIsSound,
       ClearedIsEmpty, EndsEmpty, Writes, Domains, Device, DomainPublishState
  <1>5. ClearedIsEmpty'
    BY StillCleared DEF Reliable
  <1>6. QED
    BY <1>1, <1>2, <1>3, <1>4, <1>5

\* IntervalPasses keeps MqttInv.
LEMMA IntervalPassesKeeps ==
    ASSUME MqttTypeOK, MqttInv, IntervalPasses
    PROVE  MqttTypeOK' /\ MqttInv'
  <1> USE DEF MqttInv, MqttTypeOK, IntervalPasses, shared
  <1>1. MqttTypeOK'
    <2>1. stateDue' \in BOOLEAN
      BY RestingTyped, MqttAssumption
    <2>2. QED
      BY <2>1
  <1>2. OnlineFollowsEveryRow'
    BY StillOnline
  <1>3. RowsAreBehind'
    BY MqttAssumption DEF RowsAreBehind, Behind, Sent
  <1>4. PlanIsSound'
    BY MqttAssumption DEF PlanIsSound, Domains, Device, DomainPublishState
  <1>5. ClearedIsEmpty'
    BY StillCleared DEF Reliable
  <1>6. QED
    BY <1>1, <1>2, <1>3, <1>4, <1>5

\* CacheChanges keeps MqttInv.
LEMMA CacheChangesKeeps ==
    ASSUME MqttTypeOK, MqttInv, CacheChanges
    PROVE  MqttTypeOK' /\ MqttInv'
  <1> USE DEF MqttInv, MqttTypeOK, CacheChanges, shared
  <1>1. MqttTypeOK'
    <2>1. bridge' \in {"off", "client", "running", "failed"}
      BY RestingTyped, MqttAssumption
    <2>2. broker' \in BrokerType
      BY RestingTyped, MqttAssumption DEF BrokerType
    <2>3. mqUp' \in BOOLEAN
      BY RestingTyped, MqttAssumption
    <2>4. event' \in {"none", "need", "reset"}
      BY RestingTyped, MqttAssumption
    <2>5. s_connected' \in BOOLEAN
      BY RestingTyped, MqttAssumption
    <2>6. s_need_discovery' \in BOOLEAN
      BY RestingTyped, MqttAssumption
    <2>7. s_reset_domain_state' \in BOOLEAN
      BY RestingTyped, MqttAssumption
    <2>8. stateDue' \in BOOLEAN
      BY RestingTyped, MqttAssumption
    <2>9. s_domain_state' \in [Domains -> DomainPublishState]
      BY RestingTyped, MqttAssumption DEF DomainPublishState
    <2>10. cache' \in [Domains -> Readings \cup {Invalid}]
      BY RestingTyped, MqttAssumption
    <2>11. outbox' \in Seq(Messages) /\ Len(outbox') <= OutboxSize
      BY RestingTyped, MqttAssumption
    <2>12. pub' \in PubType
      BY RestingTyped, MqttAssumption DEF PubType
    <2>13. expiredRows' \in SUBSET (1 .. Rows)
      BY RestingTyped, MqttAssumption
    <2>14. mqBudget' \in BudgetType
      BY BudgetFalls
    <2>15. QED
      BY <2>1, <2>2, <2>3, <2>4, <2>5, <2>6, <2>7, <2>8, <2>9, <2>10, <2>11, <2>12, <2>13, <2>14
  <1>2. OnlineFollowsEveryRow'
    BY StillOnline
  <1>3. RowsAreBehind'
    BY MqttAssumption DEF RowsAreBehind, Behind, Sent
  <1>4. PlanIsSound'
    BY MqttAssumption DEF PlanIsSound, Domains, Device, DomainPublishState
  <1>5. ClearedIsEmpty'
    BY StillCleared DEF Reliable
  <1>6. QED
    BY <1>1, <1>2, <1>3, <1>4, <1>5

----------------------------------------------------------------------------
(* The bridge as a whole.                                                  *)

\* The start of the bridge satisfies the invariant.
LEMMA MqttInitEstablishes ==
    ASSUME MqttInit
    PROVE  MqttTypeOK /\ MqttInv
  <1> USE DEF MqttInit
  <1>1. MqttTypeOK
    <2>1. broker \in BrokerType
      BY DEF BrokerType
    <2>2. pub \in PubType /\ pub.at = "idle"
      BY RestingTyped DEF IdlePub
    <2>3. s_domain_state \in [Domains -> DomainPublishState]
      BY DEF DomainPublishState
    <2>4. outbox \in Seq(Messages) /\ Len(outbox) <= OutboxSize
      BY MqttAssumption
    <2>5. QED
      BY <2>1, <2>2, <2>3, <2>4 DEF MqttTypeOK, BudgetType
  <1>2. OnlineFollowsEveryRow
    BY DEF OnlineFollowsEveryRow
  <1>3. RowsAreBehind
    BY DEF RowsAreBehind, IdlePub
  <1>4. PlanIsSound
    BY MqttAssumption DEF PlanIsSound, IdlePub, Domains, Device
  <1>5. ClearedIsEmpty
    BY DEF ClearedIsEmpty
  <1>6. QED
    BY <1>1, <1>2, <1>3, <1>4, <1>5 DEF MqttInv

\* Every step keeps the invariant.
LEMMA MqttNextKeeps ==
    ASSUME MqttTypeOK, MqttInv, MqttNext
    PROVE  MqttTypeOK' /\ MqttInv'
  <1>1. CASE StartClient
    BY <1>1, StartClientKeeps
  <1>2. CASE StartPublisher
    BY <1>2, StartPublisherKeeps
  <1>3. CASE StartFails
    BY <1>3, StartFailsKeeps
  <1>4. CASE Deliver
    BY <1>4, DeliverKeeps
  <1>5. CASE OutboxExpires
    BY <1>5, OutboxExpiresKeeps
  <1>6. CASE Connected
    BY <1>6, ConnectedKeeps
  <1>7. CASE HandlerFinishes
    BY <1>7, HandlerFinishesKeeps
  <1>8. CASE Disconnected
    BY <1>8, DisconnectedKeeps
  <1>9. CASE PublisherWakes
    BY <1>9, PublisherWakesKeeps
  <1>10. CASE PublisherChooses
    BY <1>10, PublisherChoosesKeeps
  <1>11. CASE PauseEnds
    BY <1>11, PauseEndsKeeps
  <1>12. CASE PublishRow
    BY <1>12, PublishRowKeeps
  <1>13. CASE PublishOnline
    BY <1>13, PublishOnlineKeeps
  <1>14. CASE PlanDomain
    BY <1>14, PlanDomainKeeps
  <1>15. CASE SendDomain
    BY <1>15, SendDomainKeeps
  <1>16. CASE RoundSucceeds
    BY <1>16, RoundSucceedsKeeps
  <1>17. CASE IntervalPasses
    BY <1>17, IntervalPassesKeeps
  <1>18. CASE CacheChanges
    BY <1>18, CacheChangesKeeps
  <1>19. QED
    BY <1>1, <1>2, <1>3, <1>4, <1>5, <1>6, <1>7, <1>8, <1>9, <1>10, <1>11, <1>12, <1>13, <1>14,
       <1>15, <1>16, <1>17, <1>18 DEF MqttNext, Client, Publisher

\* A step that changes nothing keeps the invariant.
LEMMA MqttStutters ==
    ASSUME MqttTypeOK, MqttInv, UNCHANGED mqttVars
    PROVE  MqttTypeOK' /\ MqttInv'
  <1> USE DEF mqttVars, shared
  <1>1. MqttTypeOK'
    BY DEF MqttTypeOK
  <1>2. OnlineFollowsEveryRow'
    BY StillOnline DEF MqttInv
  <1>3. RowsAreBehind'
    BY DEF MqttInv, RowsAreBehind, Behind, Sent
  <1>4. PlanIsSound'
    BY DEF MqttInv, PlanIsSound
  <1>5. ClearedIsEmpty'
    BY StillCleared DEF MqttInv, Reliable
  <1>6. QED
    BY <1>1, <1>2, <1>3, <1>4, <1>5 DEF MqttInv

(* The types, what the broker and the outbox hold, how far the publisher is *)
(* in its round and what it has in hand (mqtt_ha.cpp, whole protocol).      *)
THEOREM MqttInvariant == MqttSpec => [](MqttTypeOK /\ MqttInv)
  <1>1. MqttInit => MqttTypeOK /\ MqttInv
    BY MqttInitEstablishes
  <1>2. MqttTypeOK /\ MqttInv /\ [MqttNext]_mqttVars => (MqttTypeOK /\ MqttInv)'
    BY MqttNextKeeps, MqttStutters
  <1>3. QED
    BY <1>1, <1>2, PTL DEF MqttSpec

(* "online" is behind every discovery row, in the outbox and at the broker, *)
(* and a domain the bridge takes to be cleared is, or will be, the empty    *)
(* object, whatever is refused, expires or reconnects in between.           *)
THEOREM BrokerIsSafe == MqttSpec => []BrokerSafe
  <1>1. MqttTypeOK /\ MqttInv => BrokerSafe
    BY DEF MqttInv, BrokerSafe
  <1>2. QED
    BY <1>1, MqttInvariant, PTL
==============================================================================
