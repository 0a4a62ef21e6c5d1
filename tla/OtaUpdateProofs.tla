--------------------------- MODULE OtaUpdateProofs ---------------------------
(***************************************************************************)
(* The update service keeps its offers, its gate and its way back over     *)
(* every restart: the inductive invariant UpdateInv of module OtaUpdate,   *)
(* and from it the invariants and the action property the run checks, for  *)
(* every set of images and every bound.                                    *)
(***************************************************************************)
EXTENDS OtaUpdate, TLAPS

\* Where the coordinator still holds the lease.
Leased == {"made", "run", "judge", "image", "chunk", "parked", "rebooting", "lost"}

InProgress == status.state \in {"Checking", "Downloading"}

\* A published operation: only its end reclaims it, so no generation passes it meanwhile.
Operation ==
    /\ op.at \in Leased => op.lease
    /\ op.at \in {"report", "failed"} => ~op.lease
    /\ op.done <=> op.at = "ended"
    /\ op.done => ~op.lease
    /\ ~op.done => op.gen = serial /\ op.gen # 0
    /\ op.at \in {"image", "parked", "rebooting"} => op.kind \in {"install", "upload"}
    /\ op.at = "chunk" => op.kind = "upload"

\* The lease, the ticket of the web handler and a sealed restart exclude each other.
Gate ==
    /\ LeaseIsGate
    /\ ticket.gen # 0 => op = NoOp /\ ~updating /\ ticket.gen = serial
    /\ sealed => gate \in {"ConfigRestart", "FaultRestart"}

\* An image is selected only at the end of an install or upload, which probation and an identity
\* transaction both exclude; a journal met on probation is of an earlier boot.
Fallback ==
    /\ selected # None => op.at \in {"parked", "rebooting"}
    /\ pending => (op.lease => op.kind = "check")
    /\ gate = "IdentityMutation" => ~pending
    /\ journal <= boot
    /\ pending => journal < boot

\* A captured channel word is the current one, or will never again be one an offer counts for.
Spent(w) == w.exhausted \/ channel.exhausted \/ w.revision < channel.revision
Captured(w) == w = channel \/ Spent(w)
StillCurrent(w) == w = channel /\ ~channel.exhausted

\* While an operation or a reserved check is under way there is no offer.
UnderWay == ticket.gen # 0 \/ (~op.done /\ op.at # "complete")

Progress ==
    /\ UnderWay => ~status.available
    /\ op.at = "complete" => ~InProgress
    /\ StatusHasAnOwner
    /\ InProgress => status.gen # 0

\* From the server's answer to the offer.
Truth ==
    /\ feed[channel.channel] \in announced
    /\ ticket.gen # 0 => Captured(ticket.word)
    /\ op.kind = "check" /\ ~op.done => Captured(op.word)
    /\ op.kind = "check" /\ op.at \in {"judge", "report"} /\ op.found # None =>
          /\ StillCurrent(op.word) => op.found \in announced
          /\ notes \in {None, op.found}
    /\ op.kind = "check" /\ op.at \in {"made", "run"} => notes = None /\ op.found = None
    /\ status.available =>
          /\ Captured(status.word)
          /\ StillCurrent(status.word) => status.image \in announced
          /\ notes \in {None, status.image}

\* From the offer a client saw to the image it gets.
Confirmation ==
    /\ seen.id.boot <= boot
    /\ seen.id.boot = boot => /\ seen.id.gen <= serial /\ seen.id.gen < MaxSerial
                              /\ UnderWay => seen.id.gen < serial
    /\ status.available /\ seen.id = OfferOf(status.gen) => seen.image = status.image
    /\ op.kind = "install" /\ ~op.done /\ op.at # "complete" =>
          seen = [id |-> op.offer, image |-> op.expected]
    /\ op.kind = "install" /\ op.at \in {"image", "rebooting"} => op.found = op.expected
    /\ op.at = "rebooting" => selected = op.found
    /\ \A o \in started : o.boot = boot /\ o.gen < serial

UpdateInv ==
    /\ Operation
    /\ Gate
    /\ Fallback
    /\ Progress
    /\ Truth
    /\ Confirmation

\* A step of the operation leaves what it was started for.
SameWork ==
    /\ op'.kind = op.kind /\ op'.gen = op.gen /\ op'.word = op.word
    /\ op'.expected = op.expected /\ op'.offer = op.offer /\ op'.done = op.done

----------------------------------------------------------------------------
(* Operators                                                               *)

\* ota_next_offer_generation() moves past every generation a client can hold.
LEMMA NextSerialGrows ==
    ASSUME serial \in 0..MaxSerial
    PROVE  /\ NextSerial \in 1..MaxSerial
           /\ serial <= NextSerial
           /\ \A g \in 0..MaxSerial : g <= serial /\ g < MaxSerial => g < NextSerial
  BY BoundsAssumption DEF NextSerial

LEMMA Zeroes ==
    /\ ZeroWord \in Words /\ None \in MaybeImage /\ AnyImage \subseteq MaybeImage
    /\ 0 \in 0..MaxSerial /\ NoTicket \in TicketType
  BY BoundsAssumption DEF ZeroWord, Words, Channels, MaybeImage, NoTicket, TicketType

LEMMA SeenTyped ==
    ASSUME TypeOK
    PROVE  seen.id.boot \in Nat /\ seen.id.gen \in 0..MaxSerial
  BY BoundsAssumption DEF TypeOK, SeenType, OfferId, NoOffer

LEMMA NoOpTyped == NoOp \in OpType /\ [NoOp EXCEPT !.acked = FALSE] \in OpType
  BY Zeroes DEF NoOp, OpType, OpPlaces

\* A value-initialised status.
LEMMA BlankTyped ==
    ASSUME NEW st \in States
    PROVE  /\ Blank(st) \in StatusType
           /\ \A gen \in 0..MaxSerial : [Blank(st) EXCEPT !.gen = gen] \in StatusType
  <1>1. Blank(st) \in StatusType
    BY Zeroes DEF Blank, StatusType
  <1>2. QED
    BY <1>1 DEF StatusType

\* A changed channel word is a word; the words captured before are spent.
LEMMA ChangedTyped ==
    ASSUME NEW w \in Words, NEW d \in Channels
    PROVE  Changed(w, d) \in Words
  <1>1. CASE w.exhausted \/ w.revision = MaxRevision
    BY <1>1 DEF Changed, Words
  <1>2. CASE ~(w.exhausted \/ w.revision = MaxRevision)
    <2>1. w.revision + 1 \in 0..MaxRevision
      BY <1>2, BoundsAssumption DEF Words
    <2>2. QED
      BY <1>2, <2>1 DEF Changed, Words
  <1>3. QED
    BY <1>1, <1>2

\* A word that was captured before the channel changed never again stands for the current one.
LEMMA ChangeSpends ==
    ASSUME TypeOK, NEW c \in Channels, channel' = Changed(channel, c), channel' # channel,
           NEW w \in Words, Captured(w)
    PROVE  Captured(w)' /\ ~StillCurrent(w)'
  <1>1. \/ channel'.exhausted
        \/ ~channel.exhausted /\ channel'.revision = channel.revision + 1 /\ ~channel'.exhausted
    BY DEF Changed, TypeOK, Words
  <1>2. channel.revision \in Nat /\ w.revision \in Nat
    BY DEF TypeOK, Words
  <1>3. channel \in Words /\ channel' \in Words
    BY ChangedTyped DEF TypeOK
  <1>4. CASE channel'.exhausted
    BY <1>4 DEF Captured, Spent, StillCurrent
  <1>5. CASE ~channel.exhausted /\ channel'.revision = channel.revision + 1 /\ ~channel'.exhausted
    <2>1. w.exhausted \/ w.revision < channel'.revision
      BY <1>2, <1>5 DEF Captured, Spent
    <2>2. w # channel'
      BY <1>2, <1>5, <2>1
    <2>3. QED
      BY <2>1, <2>2 DEF Captured, Spent, StillCurrent
  <1>6. QED
    BY <1>1, <1>4, <1>5

\* What prepare_owned_operation() and launch_coordinator() leave: nothing, or a new operation that
\* holds the gate, whose status shows progress only under its own generation.
LEMMA LaunchOutcomes ==
    ASSUME NEW kind \in {"check", "install", "upload"}, NEW gen \in 0..MaxSerial,
           NEW word \in Words, NEW expected \in MaybeImage,
           NEW offer \in OfferId \cup {NoOffer},
           PrepareAndLaunch(kind, gen, word, expected, offer)
    PROVE  /\ sealed' = sealed /\ notes' = None /\ status' \in StatusType
           /\ ~status'.available
           /\ status'.state \in {"Checking", "Downloading"} => status'.gen = gen
           /\ \/ /\ op' = NoOp /\ gate' = "Idle" /\ updating' = FALSE
                 /\ status'.state = "Error"
              \/ /\ op' \in OpType
                 /\ op'.kind = kind /\ op'.gen = gen /\ op'.word = word
                 /\ op'.expected = expected /\ op'.found = None /\ op'.offer = offer
                 /\ op'.at \in {"made", "lost"} /\ op'.lease /\ ~op'.done
                 /\ gate' = "Ota" /\ updating' = (kind # "check")
  <1> DEFINE new(at) == [kind |-> kind, gen |-> gen, word |-> word, expected |-> expected,
                         found |-> None, offer |-> offer, at |-> at, lease |-> TRUE,
                         done |-> FALSE, acked |-> FALSE]
  <1>1. new("made") \in OpType /\ new("lost") \in OpType
    BY DEF OpType, OpPlaces, MaybeImage
  <1>2. Blank("Error") \in StatusType
        /\ \A st \in States : [Blank(st) EXCEPT !.gen = gen] \in StatusType
    BY BlankTyped DEF States
  <1>3. \/ /\ op' = NoOp /\ gate' = "Idle" /\ updating' = FALSE
           /\ status' = Blank("Error") /\ notes' = None
        \/ /\ op' = new("made") /\ gate' = "Ota" /\ updating' = (kind # "check")
           /\ status' = [Blank(IF kind = "check" THEN "Checking" ELSE "Downloading")
                            EXCEPT !.gen = gen] /\ notes' = None
        \/ /\ op' \in {new("made"), new("lost")} /\ gate' = "Ota"
           /\ updating' = (kind # "check")
           /\ status' = Blank("Error") /\ notes' = None
    BY DEF PrepareAndLaunch, SetCheckError
  <1>4. QED
    <2>1. sealed' = sealed /\ notes' = None
      BY <1>3 DEF PrepareAndLaunch
    <2>2. CASE op' = NoOp /\ status' = Blank("Error")
      BY <1>2, <1>3, <2>1, <2>2 DEF Blank, NoOp
    <2>3. CASE /\ op' = new("made") /\ gate' = "Ota" /\ updating' = (kind # "check")
               /\ status' = [Blank(IF kind = "check" THEN "Checking" ELSE "Downloading")
                                EXCEPT !.gen = gen]
      <3>1. PICK st \in States : status' = [Blank(st) EXCEPT !.gen = gen]
        BY <2>3 DEF States
      <3>2. status' \in StatusType /\ ~status'.available /\ status'.gen = gen
        BY <1>2, <3>1 DEF Blank
      <3>3. QED
        BY <1>1, <2>1, <2>3, <3>2
    <2>4. CASE /\ op' \in {new("made"), new("lost")} /\ gate' = "Ota"
               /\ updating' = (kind # "check") /\ status' = Blank("Error")
      <3>1. PICK at \in {"made", "lost"} : op' = new(at)
        BY <2>4
      <3>2. op'.at = at /\ op' \in OpType
        BY <1>1, <3>1
      <3>3. status'.state = "Error" /\ ~status'.available /\ status' \in StatusType
        BY <1>2, <2>4 DEF Blank
      <3>4. QED
        BY <2>1, <2>4, <3>1, <3>2, <3>3
    <2>5. QED
      BY <1>3, <2>2, <2>3, <2>4

\* set_check_done(): the status is kept, an offer of what was found, or final without one.
LEMMA CheckOutcomes ==
    ASSUME TypeOK
    PROVE  /\ CheckDone.status \in StatusType /\ CheckDone.notes \in MaybeImage
           /\ \/ /\ status.gen # op.gen \/ op.gen # serial
                 /\ CheckDone = [status |-> status, notes |-> notes]
              \/ /\ status.gen = op.gen /\ op.gen = serial
                 /\ op.kind = "check" /\ op.found # None /\ op.word = channel
                 /\ CheckDone.notes = notes
                 /\ CheckDone.status = [state |-> "Idle", available |-> TRUE, gen |-> op.gen,
                                        word |-> op.word, image |-> op.found]
              \/ /\ status.gen = op.gen /\ op.gen = serial
                 /\ CheckDone.notes = None /\ ~CheckDone.status.available
                 /\ CheckDone.status.state \in {"Idle", "Error"}
                 /\ CheckDone.status.gen = op.gen
  <1> DEFINE ok == op.found # None /\ op.word = channel
             offered == ok /\ op.kind = "check" /\ op.found # running
  <1>1. CASE status.gen # op.gen \/ op.gen # serial
    BY <1>1 DEF CheckDone, TypeOK
  <1>2. CASE status.gen = op.gen /\ op.gen = serial /\ offered
    <2>1. CheckDone = [status |-> [state |-> "Idle", available |-> TRUE, gen |-> op.gen,
                                   word |-> op.word, image |-> op.found],
                       notes |-> notes]
      BY <1>2 DEF CheckDone
    <2>2. QED
      BY <1>2, <2>1 DEF TypeOK, StatusType, States, OpType
  <1>3. CASE status.gen = op.gen /\ op.gen = serial /\ ~offered
    <2>1. PICK st \in {"Idle", "Error"} :
            CheckDone = [status |-> [Blank(st) EXCEPT !.gen = op.gen], notes |-> None]
      BY <1>3 DEF CheckDone
    <2>2. [Blank(st) EXCEPT !.gen = op.gen] \in StatusType
      BY BlankTyped DEF TypeOK, OpType, States
    <2>3. QED
      BY <1>3, <2>1, <2>2, Zeroes DEF Blank
  <1>4. QED
    BY <1>1, <1>2, <1>3

----------------------------------------------------------------------------
(* Every action keeps the invariant                                        *)

\* ota_set_channel keeps UpdateInv.
LEMMA ota_set_channelKeeps ==
    ASSUME TypeOK, UpdateInv, ota_set_channel
    PROVE  TypeOK' /\ UpdateInv'
  <1> USE DEF UpdateInv, TypeOK, ota_set_channel, Changed, gateVars, imageVars
  <1>1. TypeOK'
    <2>1. channel' \in Words
      BY ChangedTyped
    <2>2. announced' \in SUBSET Images
      BY BoundsAssumption, Zeroes, BlankTyped, NoOpTyped DEF Channels, Words
    <2>3. QED
      BY <2>1, <2>2
  <1>2. Operation'
    BY DEF Operation, Leased, OpType
  <1>3. Gate'
    BY DEF Gate, LeaseIsGate, NoOp, OpType
  <1>4. Fallback'
    BY DEF Fallback, OpType
  <1>5. Progress'
    BY DEF Progress, UnderWay, InProgress, StatusHasAnOwner, OpType, StatusType
  <1>6. Truth'
    <2>1. PICK c \in Channels : channel' = Changed(channel, c)
      OBVIOUS
    <2>2. channel'.channel = c /\ feed[channel'.channel] \in announced'
      BY <2>1 DEF Changed, Words
    <2>3. \A w \in Words : Captured(w) => Captured(w)' /\ ~StillCurrent(w)'
      BY <2>1, ChangeSpends
    <2>4. ticket.word \in Words /\ op.word \in Words /\ status.word \in Words
      BY DEF TicketType, OpType, StatusType
    <2>5. (ticket.gen # 0 => Captured(ticket.word))'
      BY <2>3, <2>4 DEF Truth, Captured, Spent
    <2>6. (op.kind = "check" /\ ~op.done => Captured(op.word))'
      BY <2>3, <2>4 DEF Truth, Captured, Spent
    <2>7. op.kind = "check" /\ op.at \in {"judge", "report"} /\ op.found # None =>
            ~StillCurrent(op.word)' /\ notes \in {None, op.found}
      <3>1. op.at \in {"judge", "report"} => ~op.done
        BY DEF Operation
      <3>2. QED
        BY <2>3, <2>4, <3>1 DEF Truth
    <2>8. status.available => /\ Captured(status.word)' /\ ~StillCurrent(status.word)'
                              /\ notes \in {None, status.image}
      BY <2>3, <2>4 DEF Truth
    <2>9. QED
      BY <2>2, <2>5, <2>6, <2>7, <2>8 DEF Truth, Captured, Spent, StillCurrent
  <1>7. Confirmation'
    BY DEF Confirmation, UnderWay, OfferOf, OpType, StatusType, SeenType
  <1>8. QED
    BY <1>1, <1>2, <1>3, <1>4, <1>5, <1>6, <1>7

\* Publish keeps UpdateInv.
LEMMA PublishKeeps ==
    ASSUME TypeOK, UpdateInv, Publish
    PROVE  TypeOK' /\ UpdateInv'
  <1> USE DEF UpdateInv, TypeOK, Publish, gateVars, offerVars, imageVars
  <1>1. TypeOK'
    <2>1. feed' \in [Channels -> Images]
      BY BoundsAssumption, Zeroes, BlankTyped, NoOpTyped DEF Channels
    <2>2. announced' \in SUBSET Images
      BY BoundsAssumption, Zeroes, BlankTyped, NoOpTyped DEF Channels, Words
    <2>3. QED
      BY <2>1, <2>2
  <1>2. Operation'
    BY DEF Operation, Leased, OpType
  <1>3. Gate'
    BY DEF Gate, LeaseIsGate, NoOp, OpType
  <1>4. Fallback'
    BY DEF Fallback, OpType
  <1>5. Progress'
    BY DEF Progress, UnderWay, InProgress, StatusHasAnOwner, OpType, StatusType
  <1>6. Truth'
    BY DEF Truth, Captured, Spent, StillCurrent, OpType, StatusType, Words
  <1>7. Confirmation'
    BY DEF Confirmation, UnderWay, OfferOf, OpType, StatusType, SeenType
  <1>8. QED
    BY <1>1, <1>2, <1>3, <1>4, <1>5, <1>6, <1>7

\* ota_get_status keeps UpdateInv.
LEMMA ota_get_statusKeeps ==
    ASSUME TypeOK, UpdateInv, ota_get_status
    PROVE  TypeOK' /\ UpdateInv'
  <1> USE DEF UpdateInv, TypeOK, ota_get_status, OfferCurrent, OfferOf, gateVars, offerVars,
      imageVars
  <1>1. TypeOK'
    <2>1. seen' \in SeenType
      <3>1. status.gen \in 1..MaxSerial
        BY DEF StatusType
      <3>2. OfferOf(status.gen) \in OfferId
        BY <3>1 DEF OfferId
      <3>3. QED
        BY <3>2 DEF SeenType, StatusType
    <2>2. QED
      BY <2>1
  <1>2. Operation'
    BY DEF Operation, Leased, OpType
  <1>3. Gate'
    BY DEF Gate, LeaseIsGate, NoOp, OpType
  <1>4. Fallback'
    BY DEF Fallback, OpType
  <1>5. Progress'
    BY DEF Progress, UnderWay, InProgress, StatusHasAnOwner, OpType, StatusType
  <1>6. Truth'
    BY DEF Truth, Captured, Spent, StillCurrent, OpType, StatusType, Words
  <1>7. Confirmation'
    <2>1. status.available /\ status.gen = serial /\ status.gen # MaxSerial /\ ~UnderWay
      BY DEF OfferCurrent, Progress
    <2>2. seen'.id.boot = boot /\ seen'.id.gen = serial /\ seen'.image = status.image
      BY <2>1 DEF OfferOf
    <2>3. serial < MaxSerial /\ boot \in Nat /\ serial \in Nat
      BY <2>1, BoundsAssumption
    <2>4. ~UnderWay'
      BY <2>1 DEF UnderWay
    <2>5. QED
      BY <2>1, <2>2, <2>3, <2>4 DEF Confirmation, UnderWay, OfferOf
  <1>8. QED
    BY <1>1, <1>2, <1>3, <1>4, <1>5, <1>6, <1>7

\* ota_check_start_after_http keeps UpdateInv.
LEMMA ota_check_start_after_httpKeeps ==
    ASSUME TypeOK, UpdateInv, ota_check_start_after_http
    PROVE  TypeOK' /\ UpdateInv'
  <1> USE DEF UpdateInv, TypeOK, ota_check_start_after_http, SetCheckError, Blank, Reserve,
      Reclaimable, Stable, NoOp, imageVars, ghostVars
  <1>1. TypeOK'
    <2>1. gate' \in Owners
      BY NextSerialGrows, BoundsAssumption, Zeroes, BlankTyped, NoOpTyped DEF Owners
    <2>2. serial' \in 0..MaxSerial
      BY NextSerialGrows, BoundsAssumption, Zeroes, BlankTyped, NoOpTyped
    <2>3. status' \in StatusType
      <3>1. status' \in {Blank("Error"), [Blank("Checking") EXCEPT !.gen = serial']}
        OBVIOUS
      <3>2. NextSerial \in 0..MaxSerial
        BY NextSerialGrows
      <3>3. QED
        BY <3>1, <3>2, BlankTyped DEF States
    <2>4. notes' \in MaybeImage
      BY NextSerialGrows, BoundsAssumption, Zeroes, BlankTyped, NoOpTyped DEF MaybeImage, None,
         AnyImage
    <2>5. op' \in OpType
      BY NextSerialGrows, BoundsAssumption, Zeroes, BlankTyped, NoOpTyped DEF OpType, OpPlaces,
         NoOffer, MaybeImage, AnyImage, None, Words, ZeroWord, Channels
    <2>6. ticket' \in TicketType
      BY NextSerialGrows, BoundsAssumption, Zeroes, BlankTyped, NoOpTyped DEF TicketType, Words,
         ZeroWord, Channels
    <2>7. work' \in SUBSET (1..MaxSerial)
      BY NextSerialGrows, BoundsAssumption, Zeroes, BlankTyped, NoOpTyped
    <2>8. QED
      BY <2>1, <2>2, <2>3, <2>4, <2>5, <2>6, <2>7
  <1>2. Operation'
    BY NextSerialGrows DEF Operation, Leased, OpType
  <1>3. Gate'
    BY NextSerialGrows DEF Gate, LeaseIsGate, OpType
  <1>4. Fallback'
    BY NextSerialGrows DEF Fallback, Operation, Leased, OpType
  <1>5. Progress'
    BY NextSerialGrows DEF Progress, UnderWay, InProgress, StatusHasAnOwner, OpType, StatusType
  <1>6. Truth'
    BY NextSerialGrows DEF Truth, Captured, Spent, StillCurrent, OpType, StatusType, Words
  <1>7. Confirmation'
    <2>1. /\ serial' \in 1..MaxSerial /\ serial <= serial'
          /\ \A g \in 0..MaxSerial : g <= serial /\ g < MaxSerial => g < serial'
      BY NextSerialGrows
    <2>2. seen.id.boot = boot => seen.id.gen <= serial' /\ seen.id.gen < MaxSerial
                                 /\ seen.id.gen < serial'
      <3>1. seen.id.boot = boot => seen.id.gen <= serial /\ seen.id.gen < MaxSerial
        BY DEF Confirmation
      <3>2. seen.id.gen \in 0..MaxSerial /\ serial \in Nat /\ serial' \in Nat
        BY <2>1, SeenTyped
      <3>3. QED
        BY <2>1, <3>1, <3>2
    <2>3. seen.id.boot <= boot
      BY DEF Confirmation
    <2>4. \A o \in started : o.boot = boot /\ o.gen < serial'
      BY <2>1, BoundsAssumption DEF Confirmation, OfferId
    <2>5. ~status'.available
      OBVIOUS
    <2>6. op'.kind # "install" /\ op'.at \notin {"image", "rebooting"}
      BY DEF NoOp
    <2>7. UNCHANGED <<seen, boot, started>>
      OBVIOUS
    <2>8. QED
      BY <2>2, <2>3, <2>4, <2>5, <2>6, <2>7 DEF Confirmation
  <1>8. QED
    BY <1>1, <1>2, <1>3, <1>4, <1>5, <1>6, <1>7

\* ota_check_after_http_work keeps UpdateInv.
LEMMA ota_check_after_http_workKeeps ==
    ASSUME TypeOK, UpdateInv, ota_check_after_http_work
    PROVE  TypeOK' /\ UpdateInv'
  <1> USE DEF UpdateInv, TypeOK
  <1>1. work' \subseteq work
    BY DEF ota_check_after_http_work
  <1>2. UNCHANGED <<channel, serial, feed, running, previous, pending, selected, journal, boot, seen,
                    started, announced>>
    BY DEF ota_check_after_http_work, imageVars, ghostVars
  <1>3. \/ UNCHANGED <<gate, updating, sealed, status, notes, op, ticket>>
        \/ /\ ticket.gen # 0 /\ ticket' = NoTicket /\ sealed' = sealed /\ notes' = None
           /\ status' \in StatusType /\ ~status'.available
           /\ status'.state \in {"Checking", "Downloading"} => status'.gen = ticket.gen
           /\ \/ /\ op' = op /\ gate' = "Idle" /\ updating' = FALSE /\ status'.state = "Error"
              \/ /\ op' = NoOp /\ gate' = "Idle" /\ updating' = FALSE
                 /\ status'.state = "Error"
              \/ /\ op' \in OpType
                 /\ op'.kind = "check" /\ op'.gen = ticket.gen /\ op'.word = ticket.word
                 /\ op'.expected = None /\ op'.found = None /\ op'.offer = NoOffer
                 /\ op'.at \in {"made", "lost"} /\ op'.lease /\ ~op'.done
                 /\ gate' = "Ota" /\ updating' = FALSE
    <2>1. PICK token \in work :
            IF token # ticket.gen
            THEN UNCHANGED <<gateVars, status, notes, op, ticket>>
            ELSE /\ ticket' = NoTicket
                 /\ \/ /\ SetCheckError
                       /\ ReleaseOwned
                       /\ UNCHANGED op
                    \/ PrepareAndLaunch("check", ticket.gen, ticket.word, None, NoOffer)
      BY DEF ota_check_after_http_work
    <2>2. CASE token # ticket.gen
      BY <2>1, <2>2 DEF gateVars
    <2>3. CASE token = ticket.gen
      <3>1. ticket.gen # 0 /\ ticket' = NoTicket
        BY <2>1, <2>3
      <3>2. CASE SetCheckError /\ ReleaseOwned /\ UNCHANGED op
        <4>1. gate = "Ota"
          BY <3>1 DEF Gate, LeaseIsGate
        <4>2. QED
          BY <3>1, <3>2, <4>1, BlankTyped DEF SetCheckError, ReleaseOwned, Blank, States
      <3>3. CASE PrepareAndLaunch("check", ticket.gen, ticket.word, None, NoOffer)
        <4>1. ticket.gen \in 0..MaxSerial /\ ticket.word \in Words
          BY DEF TicketType
        <4>2. QED
          BY <3>1, <3>3, <4>1, LaunchOutcomes, Zeroes
      <3>4. QED
        BY <2>1, <2>3, <3>2, <3>3
    <2>4. QED
      BY <2>2, <2>3
  <1>4. TypeOK'
    <2>1. gate' \in Owners
      BY <1>1, <1>2, <1>3, BoundsAssumption, Zeroes, BlankTyped, NoOpTyped DEF Owners
    <2>2. channel' \in Words
      BY <1>1, <1>2, <1>3, BoundsAssumption, Zeroes, BlankTyped, NoOpTyped DEF Words, ZeroWord,
         Channels
    <2>3. serial' \in 0..MaxSerial
      BY <1>1, <1>2, <1>3, BoundsAssumption, Zeroes, BlankTyped, NoOpTyped
    <2>4. status' \in StatusType
      BY <1>1, <1>2, <1>3, BoundsAssumption, Zeroes, BlankTyped, NoOpTyped DEF StatusType,
         States, Blank, MaybeImage, AnyImage, None, Words, ZeroWord, Channels
    <2>5. notes' \in MaybeImage
      BY <1>1, <1>2, <1>3, BoundsAssumption, Zeroes, BlankTyped, NoOpTyped DEF MaybeImage, None,
         AnyImage
    <2>6. updating' \in BOOLEAN
      BY <1>1, <1>2, <1>3, BoundsAssumption, Zeroes, BlankTyped, NoOpTyped
    <2>7. op' \in OpType
      BY <1>3, NoOpTyped
    <2>8. ticket' \in TicketType
      BY <1>3, Zeroes
    <2>9. work' \in SUBSET (1..MaxSerial)
      BY <1>1
    <2>10. feed' \in [Channels -> Images]
      BY <1>1, <1>2, <1>3, BoundsAssumption, Zeroes, BlankTyped, NoOpTyped DEF Channels
    <2>11. running' \in AnyImage
      BY <1>1, <1>2, <1>3, BoundsAssumption, Zeroes, BlankTyped, NoOpTyped DEF AnyImage,
         MaybeImage
    <2>12. previous' \in AnyImage
      BY <1>1, <1>2, <1>3, BoundsAssumption, Zeroes, BlankTyped, NoOpTyped DEF AnyImage
    <2>13. pending' \in BOOLEAN
      BY <1>1, <1>2, <1>3, BoundsAssumption, Zeroes, BlankTyped, NoOpTyped
    <2>14. selected' \in MaybeImage
      BY <1>1, <1>2, <1>3, BoundsAssumption, Zeroes, BlankTyped, NoOpTyped DEF MaybeImage,
         AnyImage, OpType, None
    <2>15. journal' \in 0..MaxBoots
      BY <1>2
    <2>16. boot' \in 1..MaxBoots
      BY <1>1, <1>2, <1>3, BoundsAssumption, Zeroes, BlankTyped, NoOpTyped
    <2>17. sealed' \in BOOLEAN
      BY <1>1, <1>2, <1>3, BoundsAssumption, Zeroes, BlankTyped, NoOpTyped
    <2>18. seen' \in SeenType
      BY <1>1, <1>2, <1>3, BoundsAssumption, Zeroes, BlankTyped, NoOpTyped DEF SeenType,
         StatusType
    <2>19. started' \in SUBSET OfferId
      BY <1>1, <1>2, <1>3, BoundsAssumption, Zeroes, BlankTyped, NoOpTyped DEF OfferId
    <2>20. announced' \in SUBSET Images
      BY <1>1, <1>2, <1>3, BoundsAssumption, Zeroes, BlankTyped, NoOpTyped DEF Channels, Words
    <2>21. QED
      BY <2>1, <2>2, <2>3, <2>4, <2>5, <2>6, <2>7, <2>8, <2>9, <2>10, <2>11, <2>12, <2>13,
         <2>14, <2>15, <2>16, <2>17, <2>18, <2>19, <2>20, <1>1, <1>2, <1>3
  <1>5. Operation'
    BY <1>1, <1>2, <1>3 DEF Operation, Leased, Gate, LeaseIsGate, NoOp, OpType, NoOp, NoTicket,
       OfferOf, SameWork
  <1>6. Gate'
    BY <1>1, <1>2, <1>3 DEF Gate, LeaseIsGate, NoOp, OpType, NoOp, NoTicket, OfferOf, SameWork
  <1>7. Fallback'
    BY <1>1, <1>2, <1>3 DEF Fallback, Operation, Leased, Gate, LeaseIsGate, NoOp, OpType, NoOp,
       NoTicket, OfferOf, SameWork
  <1>8. Progress'
    BY <1>1, <1>2, <1>3 DEF Progress, UnderWay, InProgress, StatusHasAnOwner, OpType,
       StatusType, NoOp, NoTicket, OfferOf, SameWork
  <1>9. Truth'
    BY <1>1, <1>2, <1>3 DEF Truth, Captured, Spent, StillCurrent, OpType, StatusType, Words,
       NoOp, NoTicket, OfferOf, SameWork
  <1>10. Confirmation'
    BY <1>1, <1>2, <1>3 DEF Confirmation, UnderWay, OfferOf, OpType, StatusType, SeenType, NoOp,
       NoTicket, OfferOf, SameWork
  <1>11. QED
    BY <1>4, <1>5, <1>6, <1>7, <1>8, <1>9, <1>10

\* ota_start keeps UpdateInv.
LEMMA ota_startKeeps ==
    ASSUME TypeOK, UpdateInv, ota_start
    PROVE  TypeOK' /\ UpdateInv'
  <1> USE DEF UpdateInv, TypeOK
  <1>1. gate = "Idle" /\ op.done /\ ~op.lease /\ ~pending /\ ~updating /\ ticket.gen = 0
    BY DEF ota_start, Reserve, Reclaimable, Stable, Gate, LeaseIsGate, TicketType
  <1>2. /\ serial' \in 1..MaxSerial /\ serial <= serial'
        /\ \A g \in 0..MaxSerial : g <= serial /\ g < MaxSerial => g < serial'
    BY NextSerialGrows DEF ota_start
  <1>3. /\ status.available /\ status.gen = serial /\ seen.id = [boot |-> boot, gen |-> serial]
        /\ seen.image = status.image /\ serial < serial' /\ seen.id \in OfferId
        /\ started' = started \cup {seen.id}
    <2>1. /\ status.available /\ status.gen = serial /\ seen.id = [boot |-> boot, gen |-> serial]
          /\ started' = started \cup {seen.id} /\ serial # MaxSerial /\ serial # 0
      BY DEF ota_start, OfferCurrent, OfferOf
    <2>2. seen.image = status.image
      BY <2>1 DEF Confirmation, OfferOf
    <2>3. serial < serial' /\ seen.id \in OfferId
      BY <1>2, <2>1, BoundsAssumption DEF OfferId
    <2>4. QED
      BY <2>1, <2>2, <2>3
  <1>4. /\ sealed' = sealed /\ notes' = None /\ status' \in StatusType
        /\ ~status'.available
        /\ status'.state \in {"Checking", "Downloading"} => status'.gen = serial'
        /\ \/ /\ op' = NoOp /\ UNCHANGED <<gate, updating>> /\ status'.state = "Error"
           \/ /\ op' = NoOp /\ gate' = "Idle" /\ updating' = FALSE
              /\ status'.state = "Error"
           \/ /\ op' \in OpType
              /\ op'.kind = "install" /\ op'.gen = serial' /\ op'.word = channel
              /\ op'.expected = status.image /\ op'.found = None /\ op'.offer = seen.id
              /\ op'.at \in {"made", "lost"} /\ op'.lease /\ ~op'.done
              /\ gate' = "Ota" /\ updating' = TRUE
    <2>1. CASE SetCheckError /\ op' = NoOp /\ UNCHANGED gateVars
      BY <2>1, BlankTyped DEF SetCheckError, gateVars, Blank, States
    <2>2. CASE PrepareAndLaunch("install", serial', channel, status.image, seen.id)
      <3>1. status.image \in MaybeImage
        BY DEF StatusType
      <3>2. PICK g \in 1..MaxSerial :
              g = serial' /\ PrepareAndLaunch("install", g, channel, status.image, seen.id)
        BY <1>2, <2>2 DEF PrepareAndLaunch
      <3>3. g \in 0..MaxSerial
        BY BoundsAssumption
      <3>4. /\ sealed' = sealed /\ notes' = None /\ status' \in StatusType
            /\ ~status'.available
            /\ status'.state \in {"Checking", "Downloading"} => status'.gen = g
            /\ \/ op' = NoOp /\ gate' = "Idle" /\ updating' = FALSE /\ status'.state = "Error"
               \/ /\ op' \in OpType
                  /\ op'.kind = "install" /\ op'.gen = g /\ op'.word = channel
                  /\ op'.expected = status.image /\ op'.found = None /\ op'.offer = seen.id
                  /\ op'.at \in {"made", "lost"} /\ op'.lease /\ ~op'.done
                  /\ gate' = "Ota" /\ updating' = TRUE
        <4> seen.id \in OfferId \cup {NoOffer} /\ channel \in Words
          BY <1>3
        <4> HIDE DEF UpdateInv, TypeOK
        <4> QED
          BY <3>1, <3>2, <3>3, LaunchOutcomes
      <3>5. QED
        BY <1>1, <3>2, <3>4
    <2>3. QED
      BY <2>1, <2>2 DEF ota_start
  <1>5. UNCHANGED <<channel, ticket, work, feed, running, previous, pending, selected, journal, boot,
                    seen, announced>>
    BY DEF ota_start, imageVars
  <1>6. TypeOK'
    <2>1. gate' \in Owners
      BY <1>1, <1>2, <1>3, <1>4, <1>5, BoundsAssumption, Zeroes, BlankTyped, NoOpTyped DEF
         Owners
    <2>2. serial' \in 0..MaxSerial
      BY <1>1, <1>2, <1>3, <1>4, <1>5, BoundsAssumption, Zeroes, BlankTyped, NoOpTyped
    <2>3. status' \in StatusType
      BY <1>1, <1>2, <1>3, <1>4, <1>5, BoundsAssumption, Zeroes, BlankTyped, NoOpTyped DEF
         StatusType, States, Blank, MaybeImage, AnyImage, None, Words, ZeroWord, Channels
    <2>4. notes' \in MaybeImage
      BY <1>1, <1>2, <1>3, <1>4, <1>5, BoundsAssumption, Zeroes, BlankTyped, NoOpTyped DEF
         MaybeImage, None, AnyImage
    <2>5. updating' \in BOOLEAN
      BY <1>1, <1>2, <1>3, <1>4, <1>5, BoundsAssumption, Zeroes, BlankTyped, NoOpTyped
    <2>6. op' \in OpType
      BY <1>4, NoOpTyped
    <2>7. sealed' \in BOOLEAN
      BY <1>1, <1>2, <1>3, <1>4, <1>5, BoundsAssumption, Zeroes, BlankTyped, NoOpTyped
    <2>8. started' \in SUBSET OfferId
      BY <1>1, <1>2, <1>3, <1>4, <1>5, BoundsAssumption, Zeroes, BlankTyped, NoOpTyped DEF
         OfferId
    <2>9. QED
      BY <2>1, <2>2, <2>3, <2>4, <2>5, <2>6, <2>7, <2>8, <1>1, <1>2, <1>3, <1>4, <1>5
  <1>7. Operation'
    BY <1>1, <1>2, <1>3, <1>4, <1>5 DEF Operation, Leased, OpType, NoOp, NoTicket, OfferOf,
       SameWork
  <1>8. Gate'
    BY <1>1, <1>2, <1>3, <1>4, <1>5 DEF Gate, LeaseIsGate, NoOp, OpType, NoOp, NoTicket,
       OfferOf, SameWork
  <1>9. Fallback'
    BY <1>1, <1>2, <1>3, <1>4, <1>5 DEF Fallback, Operation, Leased, OpType, NoOp, NoTicket,
       OfferOf, SameWork
  <1>10. Progress'
    BY <1>1, <1>2, <1>3, <1>4, <1>5 DEF Progress, UnderWay, InProgress, StatusHasAnOwner,
       OpType, StatusType, NoOp, NoTicket, OfferOf, SameWork
  <1>11. Truth'
    BY <1>1, <1>2, <1>3, <1>4, <1>5 DEF Truth, Captured, Spent, StillCurrent, OpType,
       StatusType, Words, NoOp, NoTicket, OfferOf, SameWork
  <1>12. Confirmation'
    <2>1. /\ seen'.id.boot <= boot'
          /\ seen'.id.boot = boot' => seen'.id.gen <= serial' /\ seen'.id.gen < MaxSerial
      <3>1. /\ seen.id.boot <= boot
            /\ seen.id.boot = boot => seen.id.gen <= serial /\ seen.id.gen < MaxSerial
        BY DEF Confirmation
      <3>2. seen.id.gen \in Nat /\ serial \in Nat /\ serial' \in Nat
        BY <1>2, SeenTyped
      <3>3. QED
        BY <1>2, <1>5, <3>1, <3>2
    <2>2. seen'.id.boot = boot' /\ UnderWay' => seen'.id.gen < serial'
      <3>1. SUFFICES ASSUME seen.id.boot = boot PROVE seen.id.gen < serial'
        BY <1>5
      <3>2. seen.id.gen <= serial /\ seen.id.gen < MaxSerial /\ seen.id.gen \in 0..MaxSerial
        BY <3>1, SeenTyped DEF Confirmation
      <3>3. QED
        BY <1>2, <3>2
    <2>3. status'.available /\ seen'.id = OfferOf(status.gen)' => seen'.image = status'.image
      BY <1>4
    <2>4. op'.kind = "install" /\ ~op'.done /\ op'.at # "complete" =>
            seen' = [id |-> op'.offer, image |-> op'.expected]
      BY <1>3, <1>4, <1>5 DEF NoOp, SeenType
    <2>5. op'.at \notin {"image", "rebooting"}
      BY <1>4 DEF NoOp
    <2>6. \A o \in started' : o.boot = boot' /\ o.gen < serial'
      BY <1>2, <1>3, <1>5, BoundsAssumption DEF Confirmation, OfferId
    <2>7. QED
      BY <2>1, <2>2, <2>3, <2>4, <2>5, <2>6 DEF Confirmation
  <1>13. QED
    BY <1>6, <1>7, <1>8, <1>9, <1>10, <1>11, <1>12

\* ota_upload_start keeps UpdateInv.
LEMMA ota_upload_startKeeps ==
    ASSUME TypeOK, UpdateInv, ota_upload_start
    PROVE  TypeOK' /\ UpdateInv'
  <1> USE DEF UpdateInv, TypeOK
  <1>1. gate = "Idle" /\ op.done /\ ~op.lease /\ ~pending /\ ~updating /\ ticket.gen = 0
    BY DEF ota_upload_start, Reserve, Reclaimable, Stable, Gate, LeaseIsGate, TicketType
  <1>2. /\ serial' \in 1..MaxSerial /\ serial <= serial'
        /\ \A g \in 0..MaxSerial : g <= serial /\ g < MaxSerial => g < serial'
    BY NextSerialGrows DEF ota_upload_start
  <1>3. /\ sealed' = sealed /\ notes' = None /\ status' \in StatusType
        /\ ~status'.available
        /\ status'.state \in {"Checking", "Downloading"} => status'.gen = serial'
        /\ \/ /\ op' = NoOp /\ gate' = "Idle" /\ updating' = FALSE
              /\ status'.state = "Error"
           \/ /\ op' \in OpType
              /\ op'.kind = "upload" /\ op'.gen = serial' /\ op'.word = channel
              /\ op'.expected = None /\ op'.found = None /\ op'.offer = NoOffer
              /\ op'.at \in {"made", "lost"} /\ op'.lease /\ ~op'.done
              /\ gate' = "Ota" /\ updating' = TRUE
    <2>1. PICK g \in 1..MaxSerial :
            g = serial' /\ PrepareAndLaunch("upload", g, channel, None, NoOffer)
      BY <1>2 DEF ota_upload_start, PrepareAndLaunch
    <2>2. g \in 0..MaxSerial
      BY BoundsAssumption
    <2>3. QED
      BY <2>1, <2>2, LaunchOutcomes, Zeroes
  <1>4. UNCHANGED <<channel, ticket, work, feed, running, previous, pending, selected, journal, boot,
                    seen, started, announced>>
    BY DEF ota_upload_start, imageVars, ghostVars
  <1>5. TypeOK'
    <2>1. gate' \in Owners
      BY <1>1, <1>2, <1>3, <1>4, BoundsAssumption, Zeroes, BlankTyped, NoOpTyped DEF Owners
    <2>2. serial' \in 0..MaxSerial
      BY <1>1, <1>2, <1>3, <1>4, BoundsAssumption, Zeroes, BlankTyped, NoOpTyped
    <2>3. status' \in StatusType
      BY <1>1, <1>2, <1>3, <1>4, BoundsAssumption, Zeroes, BlankTyped, NoOpTyped DEF StatusType,
         States, Blank, MaybeImage, AnyImage, None, Words, ZeroWord, Channels
    <2>4. notes' \in MaybeImage
      BY <1>1, <1>2, <1>3, <1>4, BoundsAssumption, Zeroes, BlankTyped, NoOpTyped DEF MaybeImage,
         None, AnyImage
    <2>5. updating' \in BOOLEAN
      BY <1>1, <1>2, <1>3, <1>4, BoundsAssumption, Zeroes, BlankTyped, NoOpTyped
    <2>6. op' \in OpType
      BY <1>3, NoOpTyped
    <2>7. sealed' \in BOOLEAN
      BY <1>1, <1>2, <1>3, <1>4, BoundsAssumption, Zeroes, BlankTyped, NoOpTyped
    <2>8. QED
      BY <2>1, <2>2, <2>3, <2>4, <2>5, <2>6, <2>7, <1>1, <1>2, <1>3, <1>4
  <1>6. Operation'
    BY <1>1, <1>2, <1>3, <1>4 DEF Operation, Leased, OpType, NoOp, NoTicket, OfferOf, SameWork
  <1>7. Gate'
    BY <1>1, <1>2, <1>3, <1>4 DEF Gate, LeaseIsGate, NoOp, OpType, NoOp, NoTicket, OfferOf,
       SameWork
  <1>8. Fallback'
    BY <1>1, <1>2, <1>3, <1>4 DEF Fallback, Operation, Leased, OpType, NoOp, NoTicket, OfferOf,
       SameWork
  <1>9. Progress'
    BY <1>1, <1>2, <1>3, <1>4 DEF Progress, UnderWay, InProgress, StatusHasAnOwner, OpType,
       StatusType, NoOp, NoTicket, OfferOf, SameWork
  <1>10. Truth'
    BY <1>1, <1>2, <1>3, <1>4 DEF Truth, Captured, Spent, StillCurrent, OpType, StatusType,
       Words, NoOp, NoTicket, OfferOf, SameWork
  <1>11. Confirmation'
    <2>1. /\ seen'.id.boot <= boot'
          /\ seen'.id.boot = boot' => seen'.id.gen <= serial' /\ seen'.id.gen < MaxSerial
      <3>1. /\ seen.id.boot <= boot
            /\ seen.id.boot = boot => seen.id.gen <= serial /\ seen.id.gen < MaxSerial
        BY DEF Confirmation
      <3>2. seen.id.gen \in Nat /\ serial \in Nat /\ serial' \in Nat
        BY <1>2, SeenTyped
      <3>3. QED
        BY <1>2, <1>4, <3>1, <3>2
    <2>2. seen'.id.boot = boot' /\ UnderWay' => seen'.id.gen < serial'
      <3>1. SUFFICES ASSUME seen.id.boot = boot PROVE seen.id.gen < serial'
        BY <1>4
      <3>2. seen.id.gen <= serial /\ seen.id.gen < MaxSerial /\ seen.id.gen \in 0..MaxSerial
        BY <3>1, SeenTyped DEF Confirmation
      <3>3. QED
        BY <1>2, <3>2
    <2>3. status'.available /\ seen'.id = OfferOf(status.gen)' => seen'.image = status'.image
      BY <1>3
    <2>4. op'.kind = "install" /\ ~op'.done /\ op'.at # "complete" =>
            seen' = [id |-> op'.offer, image |-> op'.expected]
      BY <1>3 DEF NoOp
    <2>5. op'.at \notin {"image", "rebooting"}
      BY <1>3 DEF NoOp
    <2>6. \A o \in started' : o.boot = boot' /\ o.gen < serial'
      BY <1>2, <1>4 DEF Confirmation, OfferId
    <2>7. QED
      BY <2>1, <2>2, <2>3, <2>4, <2>5, <2>6 DEF Confirmation
  <1>12. QED
    BY <1>5, <1>6, <1>7, <1>8, <1>9, <1>10, <1>11

\* OpCancelled keeps UpdateInv.
LEMMA OpCancelledKeeps ==
    ASSUME TypeOK, UpdateInv, OpCancelled
    PROVE  TypeOK' /\ UpdateInv'
  <1> USE DEF UpdateInv, TypeOK
  <1>1. op.at \in {"made", "run", "judge"} /\ op.lease /\ ~op.done /\ op.gen = serial /\ gate = "Ota"
    BY DEF OpCancelled, At, Operation, Leased, Gate, LeaseIsGate
  <1>2. op' \in OpType /\ SameWork /\ op'.at = "failed" /\ ~op'.lease /\ op'.found = op.found
    <2>1. PICK a \in BOOLEAN : op' = [op EXCEPT !.at = "failed", !.lease = FALSE, !.acked = a]
      BY DEF OpCancelled
    <2>2. QED
      BY <2>1 DEF OpType, OpPlaces, SameWork
  <1>3. gate' = "Idle" /\ updating' = FALSE /\ sealed' = sealed
    BY <1>1 DEF OpCancelled, ReleaseOwned
  <1>4. UNCHANGED <<channel, serial, status, notes, ticket, work, feed, running, previous, pending,
                    selected, journal, boot, seen, started, announced>>
    BY DEF OpCancelled, offerVars, imageVars, ghostVars
  <1>5. TypeOK'
    <2>1. gate' \in Owners
      BY <1>1, <1>2, <1>3, <1>4, BoundsAssumption, Zeroes, BlankTyped, NoOpTyped DEF Owners
    <2>2. updating' \in BOOLEAN
      BY <1>1, <1>2, <1>3, <1>4, BoundsAssumption, Zeroes, BlankTyped, NoOpTyped
    <2>3. op' \in OpType
      BY <1>2
    <2>4. sealed' \in BOOLEAN
      BY <1>1, <1>2, <1>3, <1>4, BoundsAssumption, Zeroes, BlankTyped, NoOpTyped
    <2>5. QED
      BY <2>1, <2>2, <2>3, <2>4, <1>1, <1>2, <1>3, <1>4
  <1>6. Operation'
    BY <1>1, <1>2, <1>3, <1>4 DEF Operation, Leased, OpType, NoOp, NoTicket, OfferOf, SameWork
  <1>7. Gate'
    BY <1>1, <1>2, <1>3, <1>4 DEF Gate, LeaseIsGate, NoOp, OpType, NoOp, NoTicket, OfferOf,
       SameWork
  <1>8. Fallback'
    BY <1>1, <1>2, <1>3, <1>4 DEF Fallback, OpType, NoOp, NoTicket, OfferOf, SameWork
  <1>9. Progress'
    BY <1>1, <1>2, <1>3, <1>4 DEF Progress, UnderWay, InProgress, StatusHasAnOwner, Operation,
       Leased, Gate, LeaseIsGate, NoOp, OpType, StatusType, NoOp, NoTicket, OfferOf, SameWork
  <1>10. Truth'
    BY <1>1, <1>2, <1>3, <1>4 DEF Truth, Captured, Spent, StillCurrent, OpType, StatusType,
       Words, NoOp, NoTicket, OfferOf, SameWork
  <1>11. Confirmation'
    BY <1>1, <1>2, <1>3, <1>4 DEF Confirmation, UnderWay, OfferOf, OpType, StatusType, SeenType,
       NoOp, NoTicket, OfferOf, SameWork
  <1>12. QED
    BY <1>5, <1>6, <1>7, <1>8, <1>9, <1>10, <1>11

\* OpRuns keeps UpdateInv.
LEMMA OpRunsKeeps ==
    ASSUME TypeOK, UpdateInv, OpRuns
    PROVE  TypeOK' /\ UpdateInv'
  <1> USE DEF UpdateInv, TypeOK, OpRuns, At, GoTo, gateVars, offerVars, imageVars, ghostVars
  <1>1. TypeOK'
    <2>1. op' \in OpType
      BY BoundsAssumption, Zeroes, BlankTyped, NoOpTyped DEF OpType, OpPlaces, NoOp, NoOffer,
         MaybeImage, AnyImage, None, Words, ZeroWord, Channels
    <2>2. QED
      BY <2>1
  <1>2. Operation'
    BY DEF Operation, Leased, OpType
  <1>3. Gate'
    BY DEF Gate, LeaseIsGate, NoOp, OpType
  <1>4. Fallback'
    BY DEF Fallback, OpType
  <1>5. Progress'
    BY DEF Progress, UnderWay, InProgress, StatusHasAnOwner, OpType, StatusType
  <1>6. Truth'
    BY DEF Truth, Captured, Spent, StillCurrent, OpType, StatusType, Words
  <1>7. Confirmation'
    BY DEF Confirmation, UnderWay, OfferOf, OpType, StatusType, SeenType
  <1>8. QED
    BY <1>1, <1>2, <1>3, <1>4, <1>5, <1>6, <1>7

\* perform_check keeps UpdateInv.
LEMMA perform_checkKeeps ==
    ASSUME TypeOK, UpdateInv, perform_check
    PROVE  TypeOK' /\ UpdateInv'
  <1> USE DEF UpdateInv, TypeOK
  <1>1. op.at = "run" /\ op.lease /\ ~op.done /\ op.gen = serial /\ gate = "Ota"
    BY DEF perform_check, At, Operation, Leased, Gate, LeaseIsGate
  <1>2. /\ op' \in OpType /\ SameWork
        /\ \/ /\ op'.at = "judge" /\ op'.lease /\ op'.found = feed[op.word.channel]
              /\ UNCHANGED <<gate, updating, sealed>>
              /\ notes' \in {notes, op'.found}
           \/ /\ op'.at = "report" /\ ~op'.lease /\ op'.found = op.found
              /\ gate' = "Idle" /\ updating' = FALSE /\ sealed' = sealed /\ notes' = notes
    <2>1. feed[op.word.channel] \in MaybeImage
      BY DEF MaybeImage, AnyImage, OpType, Words
    <2>2. CASE op' = [op EXCEPT !.found = feed[op.word.channel], !.at = "judge"] /\ UNCHANGED gateVars
               /\ notes' \in {notes, feed[op.word.channel]}
      BY <1>1, <2>1, <2>2 DEF OpType, OpPlaces, SameWork, gateVars
    <2>3. CASE op' = [op EXCEPT !.at = "report", !.lease = FALSE] /\ ReleaseOwned /\ UNCHANGED notes
      BY <1>1, <2>3 DEF OpType, OpPlaces, SameWork, ReleaseOwned
    <2>4. QED
      BY <2>2, <2>3 DEF perform_check
  <1>3. UNCHANGED <<channel, serial, status, ticket, work, feed, running, previous, pending, selected,
                    journal, boot, seen, started, announced>>
    BY DEF perform_check, offerVars, imageVars, ghostVars
  <1>4. TypeOK'
    <2>1. gate' \in Owners
      BY <1>1, <1>2, <1>3, BoundsAssumption, Zeroes, BlankTyped, NoOpTyped DEF Owners
    <2>2. notes' \in MaybeImage
      BY <1>2 DEF OpType
    <2>3. updating' \in BOOLEAN
      BY <1>1, <1>2, <1>3, BoundsAssumption, Zeroes, BlankTyped, NoOpTyped
    <2>4. op' \in OpType
      BY <1>2
    <2>5. sealed' \in BOOLEAN
      BY <1>1, <1>2, <1>3, BoundsAssumption, Zeroes, BlankTyped, NoOpTyped
    <2>6. QED
      BY <2>1, <2>2, <2>3, <2>4, <2>5, <1>1, <1>2, <1>3
  <1>5. Operation'
    BY <1>1, <1>2, <1>3 DEF Operation, Leased, OpType, NoOp, NoTicket, OfferOf, SameWork
  <1>6. Gate'
    BY <1>1, <1>2, <1>3 DEF Gate, LeaseIsGate, NoOp, OpType, NoOp, NoTicket, OfferOf, SameWork
  <1>7. Fallback'
    BY <1>1, <1>2, <1>3 DEF Fallback, OpType, NoOp, NoTicket, OfferOf, SameWork
  <1>8. Progress'
    BY <1>1, <1>2, <1>3 DEF Progress, UnderWay, InProgress, StatusHasAnOwner, Operation, Leased,
       Gate, LeaseIsGate, NoOp, OpType, StatusType, NoOp, NoTicket, OfferOf, SameWork
  <1>9. Truth'
    BY <1>1, <1>2, <1>3 DEF Truth, Captured, Spent, StillCurrent, Operation, Leased, Gate,
       LeaseIsGate, NoOp, Progress, UnderWay, InProgress, StatusHasAnOwner, OpType, StatusType,
       Words, NoOp, NoTicket, OfferOf, SameWork
  <1>10. Confirmation'
    BY <1>1, <1>2, <1>3 DEF Confirmation, UnderWay, OfferOf, OpType, StatusType, SeenType, NoOp,
       NoTicket, OfferOf, SameWork
  <1>11. QED
    BY <1>4, <1>5, <1>6, <1>7, <1>8, <1>9, <1>10

\* finish_check keeps UpdateInv.
LEMMA finish_checkKeeps ==
    ASSUME TypeOK, UpdateInv, finish_check
    PROVE  TypeOK' /\ UpdateInv'
  <1> USE DEF UpdateInv, TypeOK, finish_check, ReleaseOwned, At, offerVars, imageVars, ghostVars
  <1>1. TypeOK'
    <2>1. gate' \in Owners
      BY BoundsAssumption, Zeroes, BlankTyped, NoOpTyped DEF Owners
    <2>2. updating' \in BOOLEAN
      BY BoundsAssumption, Zeroes, BlankTyped, NoOpTyped
    <2>3. op' \in OpType
      <3>1. PICK f \in {op.found, None} :
              op' = [op EXCEPT !.at = "report", !.lease = FALSE, !.found = f]
        OBVIOUS
      <3>2. QED
        BY <3>1, Zeroes DEF OpType, OpPlaces
    <2>4. sealed' \in BOOLEAN
      BY BoundsAssumption, Zeroes, BlankTyped, NoOpTyped
    <2>5. QED
      BY <2>1, <2>2, <2>3, <2>4
  <1>2. Operation'
    BY DEF Operation, Leased, OpType
  <1>3. Gate'
    BY DEF Gate, LeaseIsGate, NoOp, OpType
  <1>4. Fallback'
    BY DEF Fallback, OpType
  <1>5. Progress'
    BY DEF Progress, UnderWay, InProgress, StatusHasAnOwner, Operation, Leased, Gate,
       LeaseIsGate, NoOp, OpType, StatusType
  <1>6. Truth'
    BY DEF Truth, Captured, Spent, StillCurrent, OpType, StatusType, Words
  <1>7. Confirmation'
    BY DEF Confirmation, UnderWay, OfferOf, OpType, StatusType, SeenType
  <1>8. QED
    BY <1>1, <1>2, <1>3, <1>4, <1>5, <1>6, <1>7

\* set_check_done keeps UpdateInv.
LEMMA set_check_doneKeeps ==
    ASSUME TypeOK, UpdateInv, set_check_done
    PROVE  TypeOK' /\ UpdateInv'
  <1> USE DEF UpdateInv, TypeOK, set_check_done, At, GoTo, Blank, gateVars, imageVars, ghostVars
  <1>1. TypeOK'
    <2>1. status' \in StatusType
      BY CheckOutcomes
    <2>2. notes' \in MaybeImage
      BY CheckOutcomes, BoundsAssumption, Zeroes, BlankTyped, NoOpTyped DEF MaybeImage, None,
         AnyImage
    <2>3. op' \in OpType
      BY CheckOutcomes, BoundsAssumption, Zeroes, BlankTyped, NoOpTyped DEF OpType, OpPlaces,
         NoOp, NoOffer, MaybeImage, AnyImage, None, Words, ZeroWord, Channels
    <2>4. QED
      BY <2>1, <2>2, <2>3
  <1>2. Operation'
    BY CheckOutcomes DEF Operation, Leased, OpType
  <1>3. Gate'
    BY CheckOutcomes DEF Gate, LeaseIsGate, NoOp, OpType
  <1>4. Fallback'
    BY CheckOutcomes DEF Fallback, OpType
  <1>5. Progress'
    BY CheckOutcomes DEF Progress, UnderWay, InProgress, StatusHasAnOwner, Operation, Leased,
       Gate, LeaseIsGate, NoOp, OpType, StatusType
  <1>6. Truth'
    BY CheckOutcomes DEF Truth, Captured, Spent, StillCurrent, OpType, StatusType, Words
  <1>7. Confirmation'
    BY CheckOutcomes DEF Confirmation, UnderWay, OfferOf, Operation, Leased, OpType, StatusType,
       SeenType
  <1>8. QED
    BY <1>1, <1>2, <1>3, <1>4, <1>5, <1>6, <1>7

\* ota_task_judge keeps UpdateInv.
LEMMA ota_task_judgeKeeps ==
    ASSUME TypeOK, UpdateInv, ota_task_judge
    PROVE  TypeOK' /\ UpdateInv'
  <1> USE DEF UpdateInv, TypeOK
  <1>1. op.at = "judge" /\ op.lease /\ ~op.done /\ op.gen = serial /\ gate = "Ota" /\ op.kind = "install"
    BY DEF ota_task_judge, At, Operation, Leased, Gate, LeaseIsGate
  <1>2. /\ op' \in OpType /\ SameWork /\ op'.found = op.found
        /\ status' \in StatusType /\ notes' \in MaybeImage /\ ~status'.available
        /\ \/ /\ op'.at = "complete" /\ op'.lease /\ status'.state = "Error"
              /\ UNCHANGED <<gate, updating, sealed>>
           \/ /\ op'.at = "failed" /\ ~op'.lease /\ gate' = "Idle" /\ updating' = FALSE /\ sealed' = sealed
              /\ UNCHANGED <<status, notes>>
           \/ /\ op'.at = "image" /\ op'.lease /\ op.found = op.expected
              /\ UNCHANGED <<gate, updating, sealed, status, notes>>
    <2>1. ~status.available
      BY <1>1 DEF Progress, UnderWay
    <2>2. CASE /\ status' = [CheckDone.status EXCEPT !.state = "Error"] /\ notes' = CheckDone.notes
               /\ GoTo("complete") /\ UNCHANGED gateVars
      <3>1. op' \in OpType /\ SameWork /\ op'.found = op.found /\ op'.at = "complete" /\ op'.lease
        BY <1>1, <2>2 DEF GoTo, OpType, OpPlaces, SameWork
      <3>2. CheckDone.status \in StatusType /\ CheckDone.notes \in MaybeImage
            /\ ~CheckDone.status.available
        BY <1>1, <2>1, CheckOutcomes
      <3>3. status' \in StatusType /\ ~status'.available /\ status'.state = "Error"
        BY <2>2, <3>2 DEF StatusType, States
      <3>4. QED
        BY <2>2, <3>1, <3>2, <3>3 DEF gateVars
    <2>3. CASE /\ op' = [op EXCEPT !.at = "failed", !.lease = FALSE] /\ ReleaseOwned
               /\ UNCHANGED <<status, notes>>
      BY <1>1, <2>1, <2>3 DEF OpType, OpPlaces, SameWork, ReleaseOwned
    <2>4. CASE /\ GoTo("image") /\ op.found = op.expected /\ UNCHANGED <<gateVars, status, notes>>
      BY <1>1, <2>1, <2>4 DEF GoTo, OpType, OpPlaces, SameWork, gateVars
    <2>5. QED
      BY <2>2, <2>3, <2>4 DEF ota_task_judge
  <1>3. UNCHANGED <<channel, serial, ticket, work, feed, running, previous, pending, selected, journal,
                    boot, seen, started, announced>>
    BY DEF ota_task_judge, offerVars, imageVars, ghostVars
  <1>4. TypeOK'
    <2>1. gate' \in Owners
      BY <1>1, <1>2, <1>3, BoundsAssumption, Zeroes, BlankTyped, NoOpTyped DEF Owners
    <2>2. status' \in StatusType
      BY <1>2
    <2>3. notes' \in MaybeImage
      BY <1>2
    <2>4. updating' \in BOOLEAN
      BY <1>1, <1>2, <1>3, BoundsAssumption, Zeroes, BlankTyped, NoOpTyped
    <2>5. op' \in OpType
      BY <1>2
    <2>6. sealed' \in BOOLEAN
      BY <1>1, <1>2, <1>3, BoundsAssumption, Zeroes, BlankTyped, NoOpTyped
    <2>7. QED
      BY <2>1, <2>2, <2>3, <2>4, <2>5, <2>6, <1>1, <1>2, <1>3
  <1>5. Operation'
    BY <1>1, <1>2, <1>3 DEF Operation, Leased, OpType, NoOp, NoTicket, OfferOf, SameWork
  <1>6. Gate'
    BY <1>1, <1>2, <1>3 DEF Gate, LeaseIsGate, NoOp, OpType, NoOp, NoTicket, OfferOf, SameWork
  <1>7. Fallback'
    BY <1>1, <1>2, <1>3 DEF Fallback, OpType, NoOp, NoTicket, OfferOf, SameWork
  <1>8. Progress'
    BY <1>1, <1>2, <1>3 DEF Progress, UnderWay, InProgress, StatusHasAnOwner, Operation, Leased,
       Gate, LeaseIsGate, NoOp, OpType, StatusType, NoOp, NoTicket, OfferOf, SameWork
  <1>9. Truth'
    BY <1>1, <1>2, <1>3 DEF Truth, Captured, Spent, StillCurrent, OpType, StatusType, Words,
       NoOp, NoTicket, OfferOf, SameWork
  <1>10. Confirmation'
    BY <1>1, <1>2, <1>3 DEF Confirmation, UnderWay, OfferOf, OpType, StatusType, SeenType, NoOp,
       NoTicket, OfferOf, SameWork
  <1>11. QED
    BY <1>4, <1>5, <1>6, <1>7, <1>8, <1>9, <1>10

\* ota_upload_impl keeps UpdateInv.
LEMMA ota_upload_implKeeps ==
    ASSUME TypeOK, UpdateInv, ota_upload_impl
    PROVE  TypeOK' /\ UpdateInv'
  <1> USE DEF UpdateInv, TypeOK
  <1>1. op.at = "chunk" /\ op.lease /\ ~op.done /\ op.gen = serial /\ gate = "Ota" /\ op.kind = "upload"
    BY DEF ota_upload_impl, At, Operation, Leased, Gate, LeaseIsGate
  <1>2. /\ op' \in OpType /\ SameWork
        /\ \/ op'.at = "failed" /\ ~op'.lease /\ gate' = "Idle" /\ updating' = FALSE /\ sealed' = sealed
           \/ op'.at \in {"chunk", "image"} /\ op'.lease /\ UNCHANGED <<gate, updating, sealed>>
    <2>1. CASE op' = [op EXCEPT !.at = "failed", !.lease = FALSE] /\ ReleaseOwned
      BY <1>1, <2>1 DEF OpType, OpPlaces, SameWork, ReleaseOwned
    <2>2. ASSUME NEW i \in Images, op' = [op EXCEPT !.found = i], UNCHANGED gateVars
          PROVE  op' \in OpType /\ SameWork /\ op'.at = "chunk" /\ op'.lease
      BY <1>1, <2>2 DEF OpType, OpPlaces, SameWork, MaybeImage, AnyImage
    <2>3. CASE GoTo("image") /\ UNCHANGED gateVars
      BY <1>1, <2>3 DEF OpType, OpPlaces, SameWork, GoTo, gateVars
    <2>4. QED
      BY <2>1, <2>2, <2>3 DEF ota_upload_impl, gateVars
  <1>3. UNCHANGED <<channel, serial, status, notes, ticket, work, feed, running, previous, pending,
                    selected, journal, boot, seen, started, announced>>
    BY DEF ota_upload_impl, offerVars, imageVars, ghostVars
  <1>4. TypeOK'
    <2>1. gate' \in Owners
      BY <1>1, <1>2, <1>3, BoundsAssumption, Zeroes, BlankTyped, NoOpTyped DEF Owners
    <2>2. updating' \in BOOLEAN
      BY <1>1, <1>2, <1>3, BoundsAssumption, Zeroes, BlankTyped, NoOpTyped
    <2>3. op' \in OpType
      BY <1>2
    <2>4. sealed' \in BOOLEAN
      BY <1>1, <1>2, <1>3, BoundsAssumption, Zeroes, BlankTyped, NoOpTyped
    <2>5. QED
      BY <2>1, <2>2, <2>3, <2>4, <1>1, <1>2, <1>3
  <1>5. Operation'
    BY <1>1, <1>2, <1>3 DEF Operation, Leased, OpType, NoOp, NoTicket, OfferOf, SameWork
  <1>6. Gate'
    BY <1>1, <1>2, <1>3 DEF Gate, LeaseIsGate, NoOp, OpType, NoOp, NoTicket, OfferOf, SameWork
  <1>7. Fallback'
    BY <1>1, <1>2, <1>3 DEF Fallback, OpType, NoOp, NoTicket, OfferOf, SameWork
  <1>8. Progress'
    BY <1>1, <1>2, <1>3 DEF Progress, UnderWay, InProgress, StatusHasAnOwner, Operation, Leased,
       Gate, LeaseIsGate, NoOp, OpType, StatusType, NoOp, NoTicket, OfferOf, SameWork
  <1>9. Truth'
    BY <1>1, <1>2, <1>3 DEF Truth, Captured, Spent, StillCurrent, OpType, StatusType, Words,
       NoOp, NoTicket, OfferOf, SameWork
  <1>10. Confirmation'
    BY <1>1, <1>2, <1>3 DEF Confirmation, UnderWay, OfferOf, OpType, StatusType, SeenType, NoOp,
       NoTicket, OfferOf, SameWork
  <1>11. QED
    BY <1>4, <1>5, <1>6, <1>7, <1>8, <1>9, <1>10

\* ImageEnds keeps UpdateInv.
LEMMA ImageEndsKeeps ==
    ASSUME TypeOK, UpdateInv, ImageEnds
    PROVE  TypeOK' /\ UpdateInv'
  <1> USE DEF UpdateInv, TypeOK
  <1>1. op.at = "image" /\ op.lease /\ ~op.done /\ op.gen = serial /\ gate = "Ota" /\ op.kind \in {"install", "upload"}
    BY DEF ImageEnds, At, Operation, Leased, Gate, LeaseIsGate
  <1>2. /\ op' \in OpType /\ SameWork /\ op'.found = op.found
        /\ status' \in StatusType /\ notes' \in MaybeImage /\ selected' \in MaybeImage
        /\ ~status'.available
        /\ \/ /\ op'.at = "failed" /\ ~op'.lease /\ gate' = "Idle" /\ updating' = FALSE /\ sealed' = sealed
              /\ UNCHANGED <<selected, status, notes>>
           \/ /\ op'.at = "parked" /\ op'.lease /\ status'.state = "Error"
              /\ UNCHANGED <<gate, updating, sealed>>
           \/ /\ op'.at = "rebooting" /\ op'.lease /\ status'.state = "Done" /\ selected' = op.found
              /\ UNCHANGED <<gate, updating, sealed, notes>>
    <2>1. ~status.available
      BY <1>1 DEF Progress, UnderWay
    <2>2. op.found \in MaybeImage
      BY DEF OpType
    <2>3. CASE /\ op' = [op EXCEPT !.at = "failed", !.lease = FALSE] /\ ReleaseOwned
               /\ UNCHANGED <<selected, status, notes>>
      BY <1>1, <2>1, <2>3 DEF OpType, OpPlaces, SameWork, ReleaseOwned
    <2>4. CASE /\ GoTo("parked") /\ SetCheckError /\ selected' \in {selected, op.found}
               /\ UNCHANGED gateVars
      <3>1. op' \in OpType /\ SameWork /\ op'.found = op.found /\ op'.at = "parked" /\ op'.lease
        BY <1>1, <2>4 DEF GoTo, OpType, OpPlaces, SameWork
      <3>2. /\ status' \in StatusType /\ ~status'.available /\ status'.state = "Error"
            /\ notes' \in MaybeImage
        BY <2>4, BlankTyped, Zeroes DEF SetCheckError, Blank, States
      <3>3. QED
        BY <2>2, <2>4, <3>1, <3>2 DEF gateVars
    <2>5. CASE /\ GoTo("rebooting") /\ selected' = op.found
               /\ status' = [status EXCEPT !.state = "Done"] /\ UNCHANGED <<gateVars, notes>>
      <3>1. op' \in OpType /\ SameWork /\ op'.found = op.found /\ op'.at = "rebooting" /\ op'.lease
        BY <1>1, <2>5 DEF GoTo, OpType, OpPlaces, SameWork
      <3>2. status' \in StatusType /\ ~status'.available /\ status'.state = "Done"
        BY <2>1, <2>5 DEF StatusType, States
      <3>3. QED
        BY <2>2, <2>5, <3>1, <3>2 DEF gateVars
    <2>6. QED
      BY <2>3, <2>4, <2>5 DEF ImageEnds
  <1>3. UNCHANGED <<channel, serial, ticket, work, feed, running, previous, pending, journal, boot,
                    seen, started, announced>>
    BY DEF ImageEnds, offerVars, imageVars, ghostVars
  <1>4. TypeOK'
    <2>1. gate' \in Owners
      BY <1>1, <1>2, <1>3, BoundsAssumption, Zeroes, BlankTyped, NoOpTyped DEF Owners
    <2>2. status' \in StatusType
      BY <1>2
    <2>3. notes' \in MaybeImage
      BY <1>2
    <2>4. updating' \in BOOLEAN
      BY <1>1, <1>2, <1>3, BoundsAssumption, Zeroes, BlankTyped, NoOpTyped
    <2>5. op' \in OpType
      BY <1>2
    <2>6. selected' \in MaybeImage
      BY <1>2
    <2>7. sealed' \in BOOLEAN
      BY <1>1, <1>2, <1>3, BoundsAssumption, Zeroes, BlankTyped, NoOpTyped
    <2>8. QED
      BY <2>1, <2>2, <2>3, <2>4, <2>5, <2>6, <2>7, <1>1, <1>2, <1>3
  <1>5. Operation'
    BY <1>1, <1>2, <1>3 DEF Operation, Leased, OpType, NoOp, NoTicket, OfferOf, SameWork
  <1>6. Gate'
    BY <1>1, <1>2, <1>3 DEF Gate, LeaseIsGate, NoOp, OpType, NoOp, NoTicket, OfferOf, SameWork
  <1>7. Fallback'
    BY <1>1, <1>2, <1>3 DEF Fallback, OpType, NoOp, NoTicket, OfferOf, SameWork
  <1>8. Progress'
    BY <1>1, <1>2, <1>3 DEF Progress, UnderWay, InProgress, StatusHasAnOwner, Operation, Leased,
       Gate, LeaseIsGate, NoOp, OpType, StatusType, NoOp, NoTicket, OfferOf, SameWork
  <1>9. Truth'
    BY <1>1, <1>2, <1>3 DEF Truth, Captured, Spent, StillCurrent, OpType, StatusType, Words,
       NoOp, NoTicket, OfferOf, SameWork
  <1>10. Confirmation'
    BY <1>1, <1>2, <1>3 DEF Confirmation, UnderWay, OfferOf, OpType, StatusType, SeenType, NoOp,
       NoTicket, OfferOf, SameWork
  <1>11. QED
    BY <1>4, <1>5, <1>6, <1>7, <1>8, <1>9, <1>10

\* OpReportsFailure keeps UpdateInv.
LEMMA OpReportsFailureKeeps ==
    ASSUME TypeOK, UpdateInv, OpReportsFailure
    PROVE  TypeOK' /\ UpdateInv'
  <1> USE DEF UpdateInv, TypeOK, OpReportsFailure, SetCheckError, Blank, At, GoTo, gateVars,
      imageVars, ghostVars
  <1>1. TypeOK'
    <2>1. status' \in StatusType
      BY BoundsAssumption, Zeroes, BlankTyped, NoOpTyped DEF StatusType, States, MaybeImage,
         AnyImage, None, Words, ZeroWord, Channels
    <2>2. notes' \in MaybeImage
      BY BoundsAssumption, Zeroes, BlankTyped, NoOpTyped DEF MaybeImage, None, AnyImage
    <2>3. op' \in OpType
      BY BoundsAssumption, Zeroes, BlankTyped, NoOpTyped DEF OpType, OpPlaces, NoOp, NoOffer,
         MaybeImage, AnyImage, None, Words, ZeroWord, Channels
    <2>4. QED
      BY <2>1, <2>2, <2>3
  <1>2. Operation'
    BY DEF Operation, Leased, OpType
  <1>3. Gate'
    BY DEF Gate, LeaseIsGate, NoOp, OpType
  <1>4. Fallback'
    BY DEF Fallback, OpType
  <1>5. Progress'
    BY DEF Progress, UnderWay, InProgress, StatusHasAnOwner, OpType, StatusType
  <1>6. Truth'
    BY DEF Truth, Captured, Spent, StillCurrent, OpType, StatusType, Words
  <1>7. Confirmation'
    BY DEF Confirmation, UnderWay, OfferOf, OpType, StatusType, SeenType
  <1>8. QED
    BY <1>1, <1>2, <1>3, <1>4, <1>5, <1>6, <1>7

\* complete_operation keeps UpdateInv.
LEMMA complete_operationKeeps ==
    ASSUME TypeOK, UpdateInv, complete_operation
    PROVE  TypeOK' /\ UpdateInv'
  <1> USE DEF UpdateInv, TypeOK, complete_operation, ReleaseOwned, At, NoOp, gateVars,
      offerVars, imageVars, ghostVars
  <1>1. TypeOK'
    <2>1. gate' \in Owners
      BY BoundsAssumption, Zeroes, BlankTyped, NoOpTyped DEF Owners
    <2>2. updating' \in BOOLEAN
      BY BoundsAssumption, Zeroes, BlankTyped, NoOpTyped
    <2>3. op' \in OpType
      <3>1. PICK a \in BOOLEAN : op' = [NoOp EXCEPT !.acked = a]
        BY DEF OpType
      <3>2. QED
        BY <3>1, NoOpTyped DEF OpType
    <2>4. sealed' \in BOOLEAN
      BY BoundsAssumption, Zeroes, BlankTyped, NoOpTyped
    <2>5. QED
      BY <2>1, <2>2, <2>3, <2>4
  <1>2. Operation'
    BY DEF Operation, Leased, OpType
  <1>3. Gate'
    BY DEF Gate, LeaseIsGate, OpType
  <1>4. Fallback'
    BY DEF Fallback, OpType
  <1>5. Progress'
    BY DEF Progress, UnderWay, InProgress, StatusHasAnOwner, OpType, StatusType
  <1>6. Truth'
    BY DEF Truth, Captured, Spent, StillCurrent, OpType, StatusType, Words
  <1>7. Confirmation'
    BY DEF Confirmation, UnderWay, OfferOf, OpType, StatusType, SeenType
  <1>8. QED
    BY <1>1, <1>2, <1>3, <1>4, <1>5, <1>6, <1>7

\* WorkerAck keeps UpdateInv.
LEMMA WorkerAckKeeps ==
    ASSUME TypeOK, UpdateInv, WorkerAck
    PROVE  TypeOK' /\ UpdateInv'
  <1> USE DEF UpdateInv, TypeOK, WorkerAck, gateVars, offerVars, imageVars, ghostVars
  <1>1. TypeOK'
    <2>1. op' \in OpType
      BY DEF OpType
    <2>2. QED
      BY <2>1
  <1>2. Operation'
    BY DEF Operation, Leased, OpType
  <1>3. Gate'
    BY DEF Gate, LeaseIsGate, NoOp, OpType
  <1>4. Fallback'
    BY DEF Fallback, OpType
  <1>5. Progress'
    BY DEF Progress, UnderWay, InProgress, StatusHasAnOwner, OpType, StatusType
  <1>6. Truth'
    BY DEF Truth, Captured, Spent, StillCurrent, OpType, StatusType, Words
  <1>7. Confirmation'
    BY DEF Confirmation, UnderWay, OfferOf, OpType, StatusType, SeenType
  <1>8. QED
    BY <1>1, <1>2, <1>3, <1>4, <1>5, <1>6, <1>7

\* IdentityBegins keeps UpdateInv.
LEMMA IdentityBeginsKeeps ==
    ASSUME TypeOK, UpdateInv, IdentityBegins
    PROVE  TypeOK' /\ UpdateInv'
  <1> USE DEF UpdateInv, TypeOK, IdentityBegins, Stable, Others, imageVars, offerVars, ghostVars
  <1>1. TypeOK'
    <2>1. gate' \in Owners
      BY BoundsAssumption, Zeroes, BlankTyped, NoOpTyped DEF Owners
    <2>2. QED
      BY <2>1 DEF imageVars
  <1>2. Operation'
    BY DEF Operation, Leased, OpType
  <1>3. Gate'
    BY DEF Gate, LeaseIsGate, NoOp, OpType
  <1>4. Fallback'
    BY DEF Fallback, OpType
  <1>5. Progress'
    BY DEF Progress, UnderWay, InProgress, StatusHasAnOwner, OpType, StatusType
  <1>6. Truth'
    BY DEF Truth, Captured, Spent, StillCurrent, OpType, StatusType, Words
  <1>7. Confirmation'
    BY DEF Confirmation, UnderWay, OfferOf, OpType, StatusType, SeenType
  <1>8. QED
    BY <1>1, <1>2, <1>3, <1>4, <1>5, <1>6, <1>7

\* IdentityEnds keeps UpdateInv.
LEMMA IdentityEndsKeeps ==
    ASSUME TypeOK, UpdateInv, IdentityEnds
    PROVE  TypeOK' /\ UpdateInv'
  <1> USE DEF UpdateInv, TypeOK, IdentityEnds, Others, imageVars, offerVars, ghostVars
  <1>1. TypeOK'
    <2>1. gate' \in Owners
      BY BoundsAssumption, Zeroes, BlankTyped, NoOpTyped DEF Owners
    <2>2. QED
      BY <2>1 DEF imageVars
  <1>2. Operation'
    BY DEF Operation, Leased, OpType
  <1>3. Gate'
    BY DEF Gate, LeaseIsGate, NoOp, OpType
  <1>4. Fallback'
    BY DEF Fallback, OpType
  <1>5. Progress'
    BY DEF Progress, UnderWay, InProgress, StatusHasAnOwner, OpType, StatusType
  <1>6. Truth'
    BY DEF Truth, Captured, Spent, StillCurrent, OpType, StatusType, Words
  <1>7. Confirmation'
    BY DEF Confirmation, UnderWay, OfferOf, OpType, StatusType, SeenType
  <1>8. QED
    BY <1>1, <1>2, <1>3, <1>4, <1>5, <1>6, <1>7

\* JournalArmed keeps UpdateInv.
LEMMA JournalArmedKeeps ==
    ASSUME TypeOK, UpdateInv, JournalArmed
    PROVE  TypeOK' /\ UpdateInv'
  <1> USE DEF UpdateInv, TypeOK, JournalArmed, images, Others, offerVars, ghostVars
  <1>1. TypeOK'
    <2>1. journal' \in 0..MaxBoots
      BY BoundsAssumption
    <2>2. QED
      BY <2>1
  <1>2. Operation'
    BY DEF Operation, Leased, OpType
  <1>3. Gate'
    BY DEF Gate, LeaseIsGate, NoOp, OpType
  <1>4. Fallback'
    BY DEF Fallback, OpType
  <1>5. Progress'
    BY DEF Progress, UnderWay, InProgress, StatusHasAnOwner, OpType, StatusType
  <1>6. Truth'
    BY DEF Truth, Captured, Spent, StillCurrent, OpType, StatusType, Words
  <1>7. Confirmation'
    BY DEF Confirmation, UnderWay, OfferOf, OpType, StatusType, SeenType
  <1>8. QED
    BY <1>1, <1>2, <1>3, <1>4, <1>5, <1>6, <1>7

\* JournalRetired keeps UpdateInv.
LEMMA JournalRetiredKeeps ==
    ASSUME TypeOK, UpdateInv, JournalRetired
    PROVE  TypeOK' /\ UpdateInv'
  <1> USE DEF UpdateInv, TypeOK, JournalRetired, images, Others, offerVars, ghostVars
  <1>1. TypeOK'
    <2>1. journal' \in 0..MaxBoots
      BY BoundsAssumption
    <2>2. QED
      BY <2>1
  <1>2. Operation'
    BY DEF Operation, Leased, OpType
  <1>3. Gate'
    BY DEF Gate, LeaseIsGate, NoOp, OpType
  <1>4. Fallback'
    BY DEF Fallback, OpType
  <1>5. Progress'
    BY DEF Progress, UnderWay, InProgress, StatusHasAnOwner, OpType, StatusType
  <1>6. Truth'
    BY DEF Truth, Captured, Spent, StillCurrent, OpType, StatusType, Words
  <1>7. Confirmation'
    BY DEF Confirmation, UnderWay, OfferOf, OpType, StatusType, SeenType
  <1>8. QED
    BY <1>1, <1>2, <1>3, <1>4, <1>5, <1>6, <1>7

\* HealthBegins keeps UpdateInv.
LEMMA HealthBeginsKeeps ==
    ASSUME TypeOK, UpdateInv, HealthBegins
    PROVE  TypeOK' /\ UpdateInv'
  <1> USE DEF UpdateInv, TypeOK, HealthBegins, imageVars, Others, offerVars, ghostVars
  <1>1. TypeOK'
    <2>1. gate' \in Owners
      BY BoundsAssumption, Zeroes, BlankTyped, NoOpTyped DEF Owners
    <2>2. QED
      BY <2>1
  <1>2. Operation'
    BY DEF Operation, Leased, OpType
  <1>3. Gate'
    BY DEF Gate, LeaseIsGate, NoOp, OpType
  <1>4. Fallback'
    BY DEF Fallback, OpType
  <1>5. Progress'
    BY DEF Progress, UnderWay, InProgress, StatusHasAnOwner, OpType, StatusType
  <1>6. Truth'
    BY DEF Truth, Captured, Spent, StillCurrent, OpType, StatusType, Words
  <1>7. Confirmation'
    BY DEF Confirmation, UnderWay, OfferOf, OpType, StatusType, SeenType
  <1>8. QED
    BY <1>1, <1>2, <1>3, <1>4, <1>5, <1>6, <1>7

\* HealthCommit keeps UpdateInv.
LEMMA HealthCommitKeeps ==
    ASSUME TypeOK, UpdateInv, HealthCommit
    PROVE  TypeOK' /\ UpdateInv'
  <1> USE DEF UpdateInv, TypeOK, HealthCommit, Reclaimable, Others, offerVars, ghostVars
  <1>1. TypeOK'
    <2>1. gate' \in Owners
      BY BoundsAssumption, Zeroes, BlankTyped, NoOpTyped DEF Owners
    <2>2. pending' \in BOOLEAN
      BY BoundsAssumption, Zeroes, BlankTyped, NoOpTyped
    <2>3. QED
      BY <2>1, <2>2
  <1>2. Operation'
    BY DEF Operation, Leased, OpType
  <1>3. Gate'
    BY DEF Gate, LeaseIsGate, NoOp, OpType
  <1>4. Fallback'
    BY DEF Fallback, OpType
  <1>5. Progress'
    BY DEF Progress, UnderWay, InProgress, StatusHasAnOwner, OpType, StatusType
  <1>6. Truth'
    BY DEF Truth, Captured, Spent, StillCurrent, OpType, StatusType, Words
  <1>7. Confirmation'
    BY DEF Confirmation, UnderWay, OfferOf, OpType, StatusType, SeenType
  <1>8. QED
    BY <1>1, <1>2, <1>3, <1>4, <1>5, <1>6, <1>7

\* ConfigBegins keeps UpdateInv.
LEMMA ConfigBeginsKeeps ==
    ASSUME TypeOK, UpdateInv, ConfigBegins
    PROVE  TypeOK' /\ UpdateInv'
  <1> USE DEF UpdateInv, TypeOK, ConfigBegins, imageVars, Others, offerVars, ghostVars
  <1>1. TypeOK'
    <2>1. gate' \in Owners
      BY BoundsAssumption, Zeroes, BlankTyped, NoOpTyped DEF Owners
    <2>2. QED
      BY <2>1
  <1>2. Operation'
    BY DEF Operation, Leased, OpType
  <1>3. Gate'
    BY DEF Gate, LeaseIsGate, NoOp, OpType
  <1>4. Fallback'
    BY DEF Fallback, OpType
  <1>5. Progress'
    BY DEF Progress, UnderWay, InProgress, StatusHasAnOwner, OpType, StatusType
  <1>6. Truth'
    BY DEF Truth, Captured, Spent, StillCurrent, OpType, StatusType, Words
  <1>7. Confirmation'
    BY DEF Confirmation, UnderWay, OfferOf, OpType, StatusType, SeenType
  <1>8. QED
    BY <1>1, <1>2, <1>3, <1>4, <1>5, <1>6, <1>7

\* ota_confirm_pending_image keeps UpdateInv.
LEMMA ota_confirm_pending_imageKeeps ==
    ASSUME TypeOK, UpdateInv, ota_confirm_pending_image
    PROVE  TypeOK' /\ UpdateInv'
  <1> USE DEF UpdateInv, TypeOK, ota_confirm_pending_image, Reclaimable, Others, offerVars,
      ghostVars
  <1>1. TypeOK'
    <2>1. pending' \in BOOLEAN
      BY BoundsAssumption, Zeroes, BlankTyped, NoOpTyped
    <2>2. sealed' \in BOOLEAN
      BY BoundsAssumption, Zeroes, BlankTyped, NoOpTyped
    <2>3. QED
      BY <2>1, <2>2
  <1>2. Operation'
    BY DEF Operation, Leased, OpType
  <1>3. Gate'
    BY DEF Gate, LeaseIsGate, NoOp, OpType
  <1>4. Fallback'
    BY DEF Fallback, OpType
  <1>5. Progress'
    BY DEF Progress, UnderWay, InProgress, StatusHasAnOwner, OpType, StatusType
  <1>6. Truth'
    BY DEF Truth, Captured, Spent, StillCurrent, OpType, StatusType, Words
  <1>7. Confirmation'
    BY DEF Confirmation, UnderWay, OfferOf, OpType, StatusType, SeenType
  <1>8. QED
    BY <1>1, <1>2, <1>3, <1>4, <1>5, <1>6, <1>7

\* ConfigSaveFails keeps UpdateInv.
LEMMA ConfigSaveFailsKeeps ==
    ASSUME TypeOK, UpdateInv, ConfigSaveFails
    PROVE  TypeOK' /\ UpdateInv'
  <1> USE DEF UpdateInv, TypeOK, ConfigSaveFails, imageVars, Others, offerVars, ghostVars
  <1>1. TypeOK'
    <2>1. gate' \in Owners
      BY BoundsAssumption, Zeroes, BlankTyped, NoOpTyped DEF Owners
    <2>2. QED
      BY <2>1
  <1>2. Operation'
    BY DEF Operation, Leased, OpType
  <1>3. Gate'
    BY DEF Gate, LeaseIsGate, NoOp, OpType
  <1>4. Fallback'
    BY DEF Fallback, OpType
  <1>5. Progress'
    BY DEF Progress, UnderWay, InProgress, StatusHasAnOwner, OpType, StatusType
  <1>6. Truth'
    BY DEF Truth, Captured, Spent, StillCurrent, OpType, StatusType, Words
  <1>7. Confirmation'
    BY DEF Confirmation, UnderWay, OfferOf, OpType, StatusType, SeenType
  <1>8. QED
    BY <1>1, <1>2, <1>3, <1>4, <1>5, <1>6, <1>7

\* FaultRestart keeps UpdateInv.
LEMMA FaultRestartKeeps ==
    ASSUME TypeOK, UpdateInv, FaultRestart
    PROVE  TypeOK' /\ UpdateInv'
  <1> USE DEF UpdateInv, TypeOK, FaultRestart, imageVars, Others, offerVars, ghostVars
  <1>1. TypeOK'
    <2>1. gate' \in Owners
      BY BoundsAssumption, Zeroes, BlankTyped, NoOpTyped DEF Owners
    <2>2. sealed' \in BOOLEAN
      BY BoundsAssumption, Zeroes, BlankTyped, NoOpTyped
    <2>3. QED
      BY <2>1, <2>2
  <1>2. Operation'
    BY DEF Operation, Leased, OpType
  <1>3. Gate'
    BY DEF Gate, LeaseIsGate, NoOp, OpType
  <1>4. Fallback'
    BY DEF Fallback, OpType
  <1>5. Progress'
    BY DEF Progress, UnderWay, InProgress, StatusHasAnOwner, OpType, StatusType
  <1>6. Truth'
    BY DEF Truth, Captured, Spent, StillCurrent, OpType, StatusType, Words
  <1>7. Confirmation'
    BY DEF Confirmation, UnderWay, OfferOf, OpType, StatusType, SeenType
  <1>8. QED
    BY <1>1, <1>2, <1>3, <1>4, <1>5, <1>6, <1>7

\* Reboot keeps UpdateInv.
LEMMA RebootKeeps ==
    ASSUME TypeOK, UpdateInv, Reboot
    PROVE  TypeOK' /\ UpdateInv'
  <1> USE DEF UpdateInv, TypeOK, Reboot, NoTicket, Blank, NoOp
  <1>1. TypeOK'
    <2>1. gate' \in Owners
      BY BoundsAssumption, Zeroes, BlankTyped, NoOpTyped DEF Owners
    <2>2. channel' \in Words
      BY Zeroes DEF Words
    <2>3. serial' \in 0..MaxSerial
      BY BoundsAssumption, Zeroes, BlankTyped, NoOpTyped
    <2>4. status' \in StatusType
      BY BoundsAssumption, Zeroes, BlankTyped, NoOpTyped DEF StatusType, States, MaybeImage,
         AnyImage, None, Words, ZeroWord, Channels
    <2>5. notes' \in MaybeImage
      BY BoundsAssumption, Zeroes, BlankTyped, NoOpTyped DEF MaybeImage, None, AnyImage
    <2>6. updating' \in BOOLEAN
      BY BoundsAssumption, Zeroes, BlankTyped, NoOpTyped
    <2>7. op' \in OpType
      BY BoundsAssumption, Zeroes, BlankTyped, NoOpTyped DEF OpType, OpPlaces, NoOffer,
         MaybeImage, AnyImage, None, Words, ZeroWord, Channels
    <2>8. ticket' \in TicketType
      BY BoundsAssumption, Zeroes, BlankTyped, NoOpTyped DEF TicketType, Words, ZeroWord,
         Channels
    <2>9. work' \in SUBSET (1..MaxSerial)
      BY BoundsAssumption, Zeroes, BlankTyped, NoOpTyped
    <2>10. running' \in AnyImage
      BY BoundsAssumption, Zeroes, BlankTyped, NoOpTyped DEF AnyImage, MaybeImage
    <2>11. previous' \in AnyImage
      BY BoundsAssumption, Zeroes, BlankTyped, NoOpTyped DEF AnyImage
    <2>12. pending' \in BOOLEAN
      BY BoundsAssumption, Zeroes, BlankTyped, NoOpTyped
    <2>13. selected' \in MaybeImage
      BY BoundsAssumption, Zeroes, BlankTyped, NoOpTyped DEF MaybeImage, AnyImage, OpType, None
    <2>14. journal' \in 0..MaxBoots
      BY BoundsAssumption
    <2>15. boot' \in 1..MaxBoots
      BY BoundsAssumption, Zeroes, BlankTyped, NoOpTyped
    <2>16. sealed' \in BOOLEAN
      BY BoundsAssumption, Zeroes, BlankTyped, NoOpTyped
    <2>17. started' \in SUBSET OfferId
      BY BoundsAssumption, Zeroes, BlankTyped, NoOpTyped DEF OfferId
    <2>18. announced' \in SUBSET Images
      BY BoundsAssumption, Zeroes, BlankTyped, NoOpTyped DEF Channels, Words
    <2>19. QED
      BY <2>1, <2>2, <2>3, <2>4, <2>5, <2>6, <2>7, <2>8, <2>9, <2>10, <2>11, <2>12, <2>13,
         <2>14, <2>15, <2>16, <2>17, <2>18
  <1>2. Operation'
    BY DEF Operation, Leased, OpType
  <1>3. Gate'
    BY DEF Gate, LeaseIsGate, OpType
  <1>4. Fallback'
    BY DEF Fallback, Operation, Leased, Gate, LeaseIsGate, OpType
  <1>5. Progress'
    BY DEF Progress, UnderWay, InProgress, StatusHasAnOwner, OpType, StatusType
  <1>6. Truth'
    BY DEF Truth, Captured, Spent, StillCurrent, OpType, StatusType, Words
  <1>7. Confirmation'
    <2>1. seen.id.boot <= boot /\ seen.id.boot \in Nat /\ boot \in Nat
      BY SeenTyped DEF Confirmation
    <2>2. boot' = boot + 1 /\ seen' = seen /\ started' = {} /\ ~status'.available
      BY DEF Blank
    <2>3. op'.kind # "install" /\ op'.at \notin {"image", "rebooting"}
      BY DEF NoOp
    <2>4. seen'.id.boot <= boot' /\ seen'.id.boot # boot'
      BY <2>1, <2>2
    <2>5. QED
      BY <2>2, <2>3, <2>4 DEF Confirmation
  <1>8. QED
    BY <1>1, <1>2, <1>3, <1>4, <1>5, <1>6, <1>7

----------------------------------------------------------------------------
(* The initial state and every step                                        *)

\* A factory image on probation, no operation and no offer.
LEMMA InitEstablishes ==
    ASSUME Init
    PROVE  TypeOK /\ UpdateInv
  <1>1. running \in Images
    BY ImagesAssumption DEF Init
  <1>2. channel \in Words /\ feed \in [Channels -> Images] /\ announced = {feed[channel.channel]}
    BY <1>1, Zeroes DEF Init
  <1>3. announced \subseteq Images /\ feed[channel.channel] \in announced
    BY <1>2 DEF Words
  <1>4. status \in StatusType /\ op \in OpType /\ ticket \in TicketType /\ seen \in SeenType
    BY BlankTyped, NoOpTyped, Zeroes DEF Init, States, SeenType
  <1>5. TypeOK
    <2>1. gate \in Owners /\ serial \in 0..MaxSerial /\ boot \in 1..MaxBoots /\ notes \in MaybeImage
      BY BoundsAssumption, Zeroes DEF Init, Owners
    <2>2. {running, previous} \subseteq AnyImage /\ selected \in MaybeImage /\ journal = 0
      BY <1>1, Zeroes DEF Init, AnyImage
    <2>3. {updating, pending, sealed} \subseteq BOOLEAN /\ work = {} /\ started = {}
      BY DEF Init
    <2>4. QED
      BY <1>2, <1>3, <1>4, <2>1, <2>2, <2>3, BoundsAssumption DEF TypeOK
  <1>6. Operation /\ Gate /\ Fallback /\ Progress
    BY DEF Init, Operation, Leased, Gate, LeaseIsGate, Fallback, Progress, UnderWay, InProgress,
       StatusHasAnOwner, NoOp, NoTicket, Blank
  <1>7. Truth /\ Confirmation
    BY <1>3, BoundsAssumption DEF Init, Truth, Confirmation, NoOp, NoTicket, Blank, NoOffer
  <1>8. QED
    BY <1>5, <1>6, <1>7 DEF UpdateInv

LEMMA TaskKeeps ==
    ASSUME TypeOK, UpdateInv, Task
    PROVE  TypeOK' /\ UpdateInv'
  BY OpCancelledKeeps, OpRunsKeeps, perform_checkKeeps, finish_checkKeeps, set_check_doneKeeps,
     ota_task_judgeKeeps, ota_upload_implKeeps, ImageEndsKeeps, OpReportsFailureKeeps,
     complete_operationKeeps DEF Task

LEMMA NextKeeps ==
    ASSUME TypeOK, UpdateInv, [Next]_vars
    PROVE  TypeOK' /\ UpdateInv'
  <1>1. CASE Next
    BY <1>1, TaskKeeps, ota_set_channelKeeps, PublishKeeps, ota_get_statusKeeps,
       ota_check_start_after_httpKeeps, ota_check_after_http_workKeeps, ota_startKeeps,
       ota_upload_startKeeps, WorkerAckKeeps, IdentityBeginsKeeps, JournalArmedKeeps,
       JournalRetiredKeeps, IdentityEndsKeeps, HealthBeginsKeeps, HealthCommitKeeps, ConfigBeginsKeeps, ota_confirm_pending_imageKeeps,
       ConfigSaveFailsKeeps, FaultRestartKeeps, RebootKeeps
       DEF Next
  <1>2. CASE UNCHANGED vars
    <2>1. TypeOK'
      BY <1>2 DEF TypeOK, vars
    <2>2. Operation' /\ Gate' /\ Fallback' /\ Progress'
      BY <1>2 DEF vars, UpdateInv, Operation, Leased, Gate, LeaseIsGate, Fallback, Progress,
         UnderWay, InProgress, StatusHasAnOwner
    <2>3. Truth' /\ Confirmation'
      BY <1>2 DEF vars, UpdateInv, Truth, Captured, Spent, StillCurrent, Confirmation, UnderWay,
         OfferOf
    <2>4. QED
      BY <2>1, <2>2, <2>3 DEF UpdateInv
  <1>3. QED
    BY <1>1, <1>2

----------------------------------------------------------------------------
(* What follows                                                            *)

\* From the parts of the invariant to the invariants of the runs.
LEMMA OfferFollows ==
    ASSUME TypeOK, UpdateInv
    PROVE  OfferSafe /\ LeaseIsGate /\ RollbackIsSound
  <1>1. InstallsWhatWasShown
    BY DEF UpdateInv, Confirmation, Operation, InstallsWhatWasShown
  <1>2. OfferIsTruthful
    BY DEF UpdateInv, Truth, OfferCurrent, StillCurrent, OfferIsTruthful
  <1>3. StatusHasAnOwner /\ LeaseIsGate
    BY DEF UpdateInv, Progress, Gate
  <1>4. FallbackIsKept
    BY DEF UpdateInv, Fallback, Operation, Leased, FallbackIsKept
  <1>5. TransactionKeepsItsImage /\ ProbationArmsNothing
    BY DEF UpdateInv, Fallback, Operation, Leased, Gate, LeaseIsGate, TransactionKeepsItsImage,
       ProbationArmsNothing
  <1>6. QED
    BY <1>1, <1>2, <1>3, <1>4, <1>5 DEF OfferSafe, RollbackIsSound

\* Only the two owners that may end probation write the image state, and neither is sealed yet.
LEMMA ProbationEndsOwned ==
    ASSUME UpdateInv, [Next]_vars, pending, ~pending', boot' = boot, boot \in Nat
    PROVE  gate \in {"HealthCommit", "ConfigRestart"} /\ ~sealed /\ Reclaimable
  <1>1. Task => UNCHANGED imageVars \/ ImageEnds
    BY DEF Task, OpCancelled, OpRuns, perform_check, finish_check, set_check_done, ota_task_judge,
       ota_upload_impl, OpReportsFailure, complete_operation
  <1>2. ~Task
    BY <1>1 DEF imageVars, ImageEnds
  <1>3. ota_check_after_http_work \/ ota_start \/ ota_upload_start => UNCHANGED pending
    BY DEF ota_check_after_http_work, ota_start, ota_upload_start, imageVars
  <1>4. ~Reboot
    BY DEF Reboot
  <1>5. ota_set_channel \/ Publish \/ ota_get_status \/ ota_check_start_after_http \/ WorkerAck =>
          UNCHANGED pending
    BY DEF ota_set_channel, Publish, ota_get_status, ota_check_start_after_http, WorkerAck, imageVars
  <1>6. \/ IdentityBegins \/ JournalArmed \/ JournalRetired \/ IdentityEnds
        \/ HealthBegins \/ ConfigBegins \/ ConfigSaveFails \/ FaultRestart
        => UNCHANGED pending
    BY DEF IdentityBegins, JournalArmed, JournalRetired, IdentityEnds, HealthBegins, ConfigBegins,
       ConfigSaveFails, FaultRestart, imageVars, images
  <1>7. HealthCommit \/ ota_confirm_pending_image
    BY <1>2, <1>3, <1>4, <1>5, <1>6 DEF vars, Next
  <1>8. QED
    BY <1>7 DEF HealthCommit, ota_confirm_pending_image, UpdateInv, Gate

\* Whatever is checked, cancelled, set or confirmed in between, and wherever the device restarts,
\* the lease, the offer and the rollback image stay consistent (reserve_operation_slot_,
\* prepare_owned_operation, set_check_done, ota_start).
THEOREM UpdateInvariant == Spec => [](TypeOK /\ UpdateInv)
  <1>1. Init => TypeOK /\ UpdateInv
    BY InitEstablishes
  <1>2. TypeOK /\ UpdateInv /\ [Next]_vars => (TypeOK /\ UpdateInv)'
    BY NextKeeps
  <1>3. QED
    BY <1>1, <1>2, PTL DEF Spec

\* What is written is the image the client was shown, an offer tells the truth about the channel,
\* and a status in progress has its operation (ota_start, ota_current_offer_, set_check_done).
THEOREM OffersAreSafe == Spec => []OfferSafe
  <1>1. TypeOK /\ UpdateInv => OfferSafe
    BY OfferFollows
  <1>2. QED
    BY <1>1, UpdateInvariant, PTL

\* An operation that can still write holds the maintenance gate (release_owned_gate).
THEOREM LeaseHoldsGate == Spec => []LeaseIsGate
  <1>1. TypeOK /\ UpdateInv => LeaseIsGate
    BY OfferFollows
  <1>2. QED
    BY <1>1, UpdateInvariant, PTL

\* Probation keeps its rollback image, and between an identity change and a change of image one
\* waits for the other (image_stable_for_update, reserve_operation).
THEOREM RollbacksAreSound == Spec => []RollbackIsSound
  <1>1. TypeOK /\ UpdateInv => RollbackIsSound
    BY OfferFollows
  <1>2. QED
    BY <1>1, UpdateInvariant, PTL

\* Probation ends only under an owner of the gate that is not sealed, and an offer starts one
\* install (health_gate_try_commit, ota_start).
THEOREM StartsExclude == Spec => StartsAreExclusive
  <1>1. TypeOK /\ UpdateInv /\ [Next]_vars =>
          [pending /\ ~pending' /\ boot' = boot =>
              gate \in {"HealthCommit", "ConfigRestart"} /\ ~sealed /\ Reclaimable]_vars
    BY ProbationEndsOwned DEF TypeOK
  <1>2. TypeOK /\ UpdateInv /\ [Next]_vars => [ota_start => seen.id \notin started]_vars
    <2> SUFFICES ASSUME TypeOK, UpdateInv, ota_start PROVE seen.id \notin started
      OBVIOUS
    <2>1. seen.id.gen = serial /\ serial \in Nat
      BY DEF ota_start, OfferCurrent, OfferOf, TypeOK
    <2>2. \A o \in started : o.gen < serial
      BY DEF UpdateInv, Confirmation
    <2>3. QED
      BY <2>1, <2>2
  <1>3. QED
    BY <1>1, <1>2, UpdateInvariant, PTL DEF Spec, StartsAreExclusive, CommitIsExclusive,
                                            OfferStartsOnce

==============================================================================
