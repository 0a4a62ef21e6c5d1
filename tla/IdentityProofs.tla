--------------------------- MODULE IdentityProofs ---------------------------
(***************************************************************************)
(* What the vehicle identity keeps over every write that fails and every   *)
(* loss of power: the inductive invariant IdentityInv of module Identity,  *)
(* and from it the three invariants and the action property the runs       *)
(* check.  All of it for every set of keys and VINs and every bound, as    *)
(* long as no request overtakes the supervisor (~Overtaking).              *)
(*                                                                         *)
(* Every action has two lemmas, <Action>Typed and <Action>Keeps: it keeps  *)
(* the types, and it keeps each of the seven parts of IdentityInv.         *)
(***************************************************************************)
EXTENDS Identity, TLAPS

\* create_private_key() returns a key pair nothing refers to.
LEMMA NewKeyIsNew ==
    ASSUME HasNewKey
    PROVE  NewKey \in Keys \ InUse /\ NewKey # 0
  BY KeysAssumption DEF NewKey, HasNewKey

\* What a save can come to.
LEMMA WriteOutcomes ==
    ASSUME TypeOK, NEW w \in Writes
    PROVE  w.ok \in BOOLEAN /\ w.done \in BOOLEAN /\ (w.ok => w.done)
           /\ (Charge(w.ok) => faults' \in 0..MaxFaults)
  <1>1. CASE w = [ok |-> TRUE, done |-> TRUE]
    BY <1>1 DEF TypeOK, Charge
  <1>2. CASE faults < MaxFaults /\ w \in [ok : {FALSE}, done : BOOLEAN]
    <2>1. w.ok = FALSE /\ w.done \in BOOLEAN
      BY <1>2
    <2>2. faults + 1 \in 0..MaxFaults
      BY <1>2, BoundsAssumption DEF TypeOK
    <2>3. QED
      BY <2>1, <2>2 DEF Charge
  <1>3. QED
    BY <1>1, <1>2 DEF Writes

\* A fault within the bound.
LEMMA OneMoreFault ==
    ASSUME TypeOK, faults < MaxFaults
    PROVE  faults + 1 \in 0..MaxFaults
  BY BoundsAssumption DEF TypeOK

\* What a probe can come to.
LEMMA ReadOutcomes ==
    ASSUME TypeOK, NEW good \in Reads
    PROVE  good \in BOOLEAN /\ (Charge(good) => faults' \in 0..MaxFaults)
  <1>1. CASE good = TRUE
    BY <1>1 DEF TypeOK, Charge
  <1>2. CASE good = FALSE /\ faults < MaxFaults
    <2>1. faults + 1 \in 0..MaxFaults
      BY <1>2, BoundsAssumption DEF TypeOK
    <2>2. QED
      BY <1>2, <2>1 DEF Charge
  <1>3. QED
    BY <1>1, <1>2 DEF Reads

\* The initial values are of their types.
LEMMA InitialValues ==
    /\ IdleTx \in TxType
    /\ [IdleTx EXCEPT !.pc = "marker"] \in TxType
    /\ [IdleTx EXCEPT !.pc = "reset"] \in TxType
    /\ [IdleTx EXCEPT !.i = 1] \in TxType
    /\ BlankRam \in RamType
    /\ NoOwner \in Owners
    /\ NoReq \in ReqType
    /\ NoTxn \in TxnType
  <1>1. IdleTx \in TxType /\ [IdleTx EXCEPT !.i = 1] = IdleTx
    BY DEF IdleTx, TxType, TxSteps, Results
  <1>2. [IdleTx EXCEPT !.pc = "marker"] \in TxType /\ [IdleTx EXCEPT !.pc = "reset"] \in TxType
    <2>1. \A p \in TxSteps : [IdleTx EXCEPT !.pc = p] \in TxType
      BY <1>1 DEF TxType
    <2>2. QED
      BY <2>1 DEF TxSteps
  <1>3. BlankRam \in RamType
    BY DEF BlankRam, RamType, AllVins, Owners
  <1>4. NoOwner \in Owners /\ NoReq \in ReqType /\ NoTxn \in TxnType
    BY DEF NoOwner, NoReq, NoTxn, Owners, ReqType, TxnType, AllVins
  <1>5. QED
    BY <1>1, <1>2, <1>3, <1>4

\* A session of the runtime identity is well typed.
LEMMA MeTyped == TypeOK => Me \in Owners
  BY DEF TypeOK, RamType, Owners, Me

\* One record is written or erased, or not.
LEMMA PutRecord ==
    ASSUME TypeOK, NEW r, NEW o \in Owners, NEW w
    PROVE  [rec EXCEPT ![r] = Put(@, o, w)] \in RecType
  BY DEF TypeOK, RecType, Put

\* A reset leaves well typed volatile state.
LEMMA PowerUpTyped ==
    ASSUME PowerUp
    PROVE  /\ pc' \in PcType /\ ram' \in RamType /\ handshake' \in Owners
           /\ lock' \in Tasks \cup {"free"} /\ lease' \in Tasks \cup {"free"}
           /\ tx' \in TxType /\ req' \in ReqType
  BY InitialValues DEF PowerUp, PcType, BootSteps, HttpSteps, AutoSteps

\* The sessions read from flash are well typed.
LEMMA LoadedSessions ==
    ASSUME TypeOK, NEW kept \in SUBSET {rec[r] : r \in Sessions}
    PROVE  kept \in SUBSET Owners
  <1>1. \A r \in Sessions : rec[r] \in Owners
    BY DEF TypeOK, RecType, Sessions, Records
  <1>2. QED
    BY <1>1

----------------------------------------------------------------------------
(* Every action keeps the types                                            *)

\* TxMarker keeps the types.
LEMMA TxMarkerTyped ==
    ASSUME TypeOK, IdentityInv, TxMarker
    PROVE  TypeOK'
  <1> USE DEF TypeOK, TxMarker
  <1>1. rot' \in BOOLEAN
    BY NewKeyIsNew, WriteOutcomes, ReadOutcomes, InitialValues DEF Put
  <1>2. ram' \in RamType
    BY NewKeyIsNew, WriteOutcomes, ReadOutcomes, InitialValues DEF RamType
  <1>3. tx' \in TxType
    <2>1. PICK p \in TxSteps : tx' = [tx EXCEPT !.wasSafe = ram.safe, !.pc = p]
      BY DEF TxSteps
    <2>2. QED
      BY <2>1 DEF TxType, RamType
  <1>4. faults' \in 0..MaxFaults
    BY BoundsAssumption, WriteOutcomes, ReadOutcomes
  <1>5. QED
    BY <1>1, <1>2, <1>3, <1>4

\* TxProbe keeps the types.
LEMMA TxProbeTyped ==
    ASSUME TypeOK, IdentityInv, TxProbe
    PROVE  TypeOK'
  <1> USE DEF TypeOK, TxProbe, Finished, durable
  <1>1. ram' \in RamType
    <2>1. PICK b \in BOOLEAN : ram' = [ram EXCEPT !.safe = b]
      BY DEF TxType, RamType
    <2>2. QED
      BY <2>1 DEF RamType
  <1>2. tx' \in TxType
    BY NewKeyIsNew, WriteOutcomes, ReadOutcomes, InitialValues DEF StartTx, TxType, TxSteps,
       Results
  <1>3. faults' \in 0..MaxFaults
    BY BoundsAssumption, WriteOutcomes, ReadOutcomes
  <1>4. QED
    BY <1>1, <1>2, <1>3

\* TxRegenerateFails keeps the types.
LEMMA TxRegenerateFailsTyped ==
    ASSUME TypeOK, IdentityInv, TxRegenerateFails
    PROVE  TypeOK'
  <1> USE DEF TypeOK, TxRegenerateFails, Restored, durable
  <1>1. ram' \in RamType
    <2>1. PICK k \in Keys \cup {0} : ram' = [ram EXCEPT !.reload = TRUE, !.key = k]
      BY NewKeyIsNew DEF Restored, RamType
    <2>2. QED
      BY <2>1 DEF RamType
  <1>2. tx' \in TxType
    BY NewKeyIsNew, WriteOutcomes, ReadOutcomes, InitialValues DEF StartTx, TxType, TxSteps,
       Results
  <1>3. madeFor' \in [Keys -> AllVins]
    BY NewKeyIsNew, WriteOutcomes, ReadOutcomes
  <1>4. faults' \in 0..MaxFaults
    BY BoundsAssumption, WriteOutcomes, ReadOutcomes
  <1>5. QED
    BY <1>1, <1>2, <1>3, <1>4

\* TxRegenerate keeps the types.
LEMMA TxRegenerateTyped ==
    ASSUME TypeOK, IdentityInv, TxRegenerate
    PROVE  TypeOK'
  <1> USE DEF TypeOK, TxRegenerate, Restored
  <1>1. key' \in Keys \cup {0}
    BY NewKeyIsNew, WriteOutcomes, ReadOutcomes, InitialValues DEF Put
  <1>2. ram' \in RamType
    <2>1. PICK n \in Keys : n = NewKey
      BY NewKeyIsNew
    <2>2. CASE ram' = [ram EXCEPT !.key = NewKey, !.cleanup = TRUE]
      BY <2>1, <2>2 DEF RamType
    <2>3. ASSUME NEW k \in Restored, ram' = [ram EXCEPT !.reload = TRUE, !.key = k]
          PROVE  ram' \in RamType
      <3>1. k \in Keys \cup {0}
        BY <2>1 DEF RamType
      <3>2. QED
        BY <2>3, <3>1 DEF RamType
    <2>4. QED
      BY <2>2, <2>3
  <1>3. tx' \in TxType
    BY NewKeyIsNew, WriteOutcomes, ReadOutcomes, InitialValues DEF StartTx, TxType, TxSteps,
       Results
  <1>4. madeFor' \in [Keys -> AllVins]
    BY NewKeyIsNew, WriteOutcomes, ReadOutcomes
  <1>5. faults' \in 0..MaxFaults
    BY BoundsAssumption, WriteOutcomes, ReadOutcomes
  <1>6. QED
    BY <1>1, <1>2, <1>3, <1>4, <1>5

\* TxFlush keeps the types.
LEMMA TxFlushTyped ==
    ASSUME TypeOK, IdentityInv, TxFlush
    PROVE  TypeOK'
  <1> USE DEF TypeOK, TxFlush, Finished, durable
  <1>1. handshake' \in Owners
    BY NewKeyIsNew, WriteOutcomes, ReadOutcomes, InitialValues, MeTyped
  <1>2. tx' \in TxType
    BY NewKeyIsNew, WriteOutcomes, ReadOutcomes, InitialValues DEF StartTx, TxType, TxSteps,
       Results
  <1>3. QED
    BY <1>1, <1>2

\* TxStamp keeps the types.
LEMMA TxStampTyped ==
    ASSUME TypeOK, IdentityInv, TxStamp
    PROVE  TypeOK'
  <1> USE DEF TypeOK, TxStamp
  <1>1. rec' \in RecType
    <2>1. \A w : [rec EXCEPT !["key_created"] = Put(@, Me, w)] \in RecType
      BY MeTyped DEF RecType, Put
    <2>2. rec' = rec \/ \E w \in Writes : rec' = [rec EXCEPT !["key_created"] = Put(@, Me, w)]
      OBVIOUS
    <2>3. QED
      BY <2>1, <2>2
  <1>2. ram' \in RamType
    BY NewKeyIsNew, WriteOutcomes, ReadOutcomes, InitialValues DEF RamType
  <1>3. tx' \in TxType
    BY NewKeyIsNew, WriteOutcomes, ReadOutcomes, InitialValues DEF StartTx, TxType, TxSteps,
       Results
  <1>4. faults' \in 0..MaxFaults
    BY BoundsAssumption, WriteOutcomes, ReadOutcomes
  <1>5. QED
    BY <1>1, <1>2, <1>3, <1>4

\* TxRetire keeps the types.
LEMMA TxRetireTyped ==
    ASSUME TypeOK, IdentityInv, TxRetire
    PROVE  TypeOK'
  <1> USE DEF TypeOK, TxRetire
  <1>1. rec' \in RecType
    BY NewKeyIsNew, WriteOutcomes, ReadOutcomes, InitialValues, MeTyped DEF RecType, Put
  <1>2. ram' \in RamType
    BY NewKeyIsNew, WriteOutcomes, ReadOutcomes, InitialValues DEF RamType
  <1>3. tx' \in TxType
    BY NewKeyIsNew, WriteOutcomes, ReadOutcomes, InitialValues DEF StartTx, TxType, TxSteps,
       Results
  <1>4. faults' \in 0..MaxFaults
    BY BoundsAssumption, WriteOutcomes, ReadOutcomes
  <1>5. QED
    BY <1>1, <1>2, <1>3, <1>4

\* TxReset keeps the types.
LEMMA TxResetTyped ==
    ASSUME TypeOK, IdentityInv, TxReset
    PROVE  TypeOK'
  <1> USE DEF TypeOK, TxReset, durable
  <1>1. ram' \in RamType
    <2>1. ram' \in {[ram EXCEPT !.sessions = {}], [ram EXCEPT !.sessions = ram.sessions]}
      BY ReadOutcomes
    <2>2. QED
      BY <2>1 DEF RamType
  <1>2. handshake' \in Owners
    BY NewKeyIsNew, WriteOutcomes, ReadOutcomes, InitialValues, MeTyped
  <1>3. tx' \in TxType
    <2>1. PICK good \in BOOLEAN : tx' = [tx EXCEPT !.pc = "erase", !.i = 1, !.ok = good]
      BY ReadOutcomes
    <2>2. "erase" \in TxSteps /\ 1 \in 1..5
      BY DEF TxSteps
    <2> HIDE DEF TxReset
    <2>3. QED
      BY <2>1, <2>2 DEF TxType
  <1>4. faults' \in 0..MaxFaults
    BY BoundsAssumption, WriteOutcomes, ReadOutcomes
  <1>5. QED
    BY <1>1, <1>2, <1>3, <1>4

\* TxErase keeps the types.
LEMMA TxEraseTyped ==
    ASSUME TypeOK, IdentityInv, TxErase
    PROVE  TypeOK'
  <1> USE DEF TypeOK, TxErase
  <1>1. rec' \in RecType
    <2>1. PICK w \in Writes : rec' = [rec EXCEPT ![Erased[tx.i]] = Put(@, NoOwner, w)]
      OBVIOUS
    <2>2. QED
      BY <2>1, InitialValues, MeTyped DEF RecType, Put
  <1>2. tx' \in TxType
    <2>1. tx.i + 1 \in 1..5
      BY DEF IdentityInv, Rotation, TxType
    <2>2. PICK p \in TxSteps, b \in BOOLEAN :
            tx' = [tx EXCEPT !.i = @ + 1, !.ok = b, !.pc = p, !.result = "CleanupPending"]
      BY WriteOutcomes DEF TxSteps, TxType
    <2>3. QED
      BY <2>1, <2>2 DEF TxType, Results
  <1>3. faults' \in 0..MaxFaults
    BY BoundsAssumption, WriteOutcomes, ReadOutcomes
  <1>4. QED
    BY <1>1, <1>2, <1>3

\* TxDate keeps the types.
LEMMA TxDateTyped ==
    ASSUME TypeOK, IdentityInv, TxDate
    PROVE  TypeOK'
  <1> USE DEF TypeOK, TxDate
  <1>1. rec' \in RecType
    BY NewKeyIsNew, WriteOutcomes, ReadOutcomes, InitialValues, MeTyped DEF RecType, Put
  <1>2. ram' \in RamType
    BY NewKeyIsNew, WriteOutcomes, ReadOutcomes, InitialValues DEF RamType
  <1>3. tx' \in TxType
    BY NewKeyIsNew, WriteOutcomes, ReadOutcomes, InitialValues DEF StartTx, TxType, TxSteps,
       Results
  <1>4. faults' \in 0..MaxFaults
    BY BoundsAssumption, WriteOutcomes, ReadOutcomes
  <1>5. QED
    BY <1>1, <1>2, <1>3, <1>4

\* TxJournal keeps the types.
LEMMA TxJournalTyped ==
    ASSUME TypeOK, IdentityInv, TxJournal
    PROVE  TypeOK'
  <1> USE DEF TypeOK, TxJournal, Finished
  <1>1. rot' \in BOOLEAN
    BY NewKeyIsNew, WriteOutcomes, ReadOutcomes, InitialValues DEF Put
  <1>2. ram' \in RamType
    <2>1. ram' \in {ram, [ram EXCEPT !.cleanup = FALSE, !.reload = FALSE, !.safe = TRUE]}
      BY WriteOutcomes
    <2>2. QED
      BY <2>1 DEF RamType
  <1>3. tx' \in TxType
    BY NewKeyIsNew, WriteOutcomes, ReadOutcomes, InitialValues DEF StartTx, TxType, TxSteps,
       Results
  <1>4. faults' \in 0..MaxFaults
    BY BoundsAssumption, WriteOutcomes, ReadOutcomes
  <1>5. QED
    BY <1>1, <1>2, <1>3, <1>4

\* BootJournal keeps the types.
LEMMA BootJournalTyped ==
    ASSUME TypeOK, IdentityInv, BootJournal
    PROVE  TypeOK'
  <1> USE DEF TypeOK, BootJournal, Goto, durable
  <1>1. pc' \in PcType
    BY NewKeyIsNew, WriteOutcomes, ReadOutcomes DEF PcType, BootSteps, HttpSteps, AutoSteps
  <1>2. faults' \in 0..MaxFaults
    BY BoundsAssumption, WriteOutcomes, ReadOutcomes
  <1>3. QED
    BY <1>1, <1>2

\* BootMarker keeps the types.
LEMMA BootMarkerTyped ==
    ASSUME TypeOK, IdentityInv, BootMarker
    PROVE  TypeOK'
  <1> USE DEF TypeOK, BootMarker, Goto, durable
  <1>1. pc' \in PcType
    BY NewKeyIsNew, WriteOutcomes, ReadOutcomes DEF PcType, BootSteps, HttpSteps, AutoSteps
  <1>2. ram' \in RamType
    BY NewKeyIsNew, WriteOutcomes, ReadOutcomes, InitialValues DEF RamType
  <1>3. tx' \in TxType
    BY NewKeyIsNew, WriteOutcomes, ReadOutcomes, InitialValues DEF StartTx, TxType, TxSteps,
       Results
  <1>4. faults' \in 0..MaxFaults
    BY BoundsAssumption, WriteOutcomes, ReadOutcomes
  <1>5. QED
    BY <1>1, <1>2, <1>3, <1>4

\* BootErase keeps the types.
LEMMA BootEraseTyped ==
    ASSUME TypeOK, IdentityInv, BootErase
    PROVE  TypeOK'
  <1> USE DEF TypeOK, BootErase, Goto
  <1>1. rec' \in RecType
    <2>1. PICK w \in Writes : rec' = [rec EXCEPT ![Erased[tx.i]] = Put(@, NoOwner, w)]
      OBVIOUS
    <2>2. QED
      BY <2>1, InitialValues, MeTyped DEF RecType, Put
  <1>2. pc' \in PcType
    BY NewKeyIsNew, WriteOutcomes, ReadOutcomes DEF PcType, BootSteps, HttpSteps, AutoSteps
  <1>3. tx' \in TxType
    <2>1. tx.i + 1 \in 1..5
      BY DEF IdentityInv, Booting, TxType
    <2>2. PICK b \in BOOLEAN : tx' = [tx EXCEPT !.i = @ + 1, !.ok = b]
      BY WriteOutcomes DEF TxType
    <2>3. QED
      BY <2>1, <2>2 DEF TxType
  <1>4. faults' \in 0..MaxFaults
    BY BoundsAssumption, WriteOutcomes, ReadOutcomes
  <1>5. QED
    BY <1>1, <1>2, <1>3, <1>4

\* BootUnmark keeps the types.
LEMMA BootUnmarkTyped ==
    ASSUME TypeOK, IdentityInv, BootUnmark
    PROVE  TypeOK'
  <1> USE DEF TypeOK, BootUnmark, Goto
  <1>1. rot' \in BOOLEAN
    BY NewKeyIsNew, WriteOutcomes, ReadOutcomes, InitialValues DEF Put
  <1>2. pc' \in PcType
    BY NewKeyIsNew, WriteOutcomes, ReadOutcomes DEF PcType, BootSteps, HttpSteps, AutoSteps
  <1>3. ram' \in RamType
    BY NewKeyIsNew, WriteOutcomes, ReadOutcomes, InitialValues DEF RamType
  <1>4. faults' \in 0..MaxFaults
    BY BoundsAssumption, WriteOutcomes, ReadOutcomes
  <1>5. QED
    BY <1>1, <1>2, <1>3, <1>4

\* BootLoad keeps the types.
LEMMA BootLoadTyped ==
    ASSUME TypeOK, IdentityInv, BootLoad
    PROVE  TypeOK'
  <1> USE DEF TypeOK, BootLoad, Goto, Halt, durable
  <1>1. pc' \in PcType
    BY NewKeyIsNew, WriteOutcomes, ReadOutcomes DEF PcType, BootSteps, HttpSteps, AutoSteps
  <1>2. ram' \in RamType
    <2>1. CASE UNCHANGED ram
      BY <2>1
    <2>2. ASSUME NEW k \in {key, 0}, NEW kept \in SUBSET {rec[r] : r \in Sessions},
                 ram' = [ram EXCEPT !.key = k, !.vin = vin, !.safe = k # 0,
                                    !.sessions = IF k = 0 THEN {} ELSE kept \ {NoOwner}]
          PROVE  ram' \in RamType
      <3> DEFINE S == IF k = 0 THEN {} ELSE kept \ {NoOwner}
      <3>1. kept \in SUBSET Owners
        BY <2>2, LoadedSessions
      <3>2. S \in SUBSET Owners
        BY <3>1
      <3>3. ram' = [ram EXCEPT !.key = k, !.vin = vin, !.safe = k # 0, !.sessions = S]
        BY <2>2
      <3> HIDE DEF S
      <3>4. PICK b \in BOOLEAN : b = (k # 0)
        OBVIOUS
      <3>5. k \in Keys \cup {0} /\ vin \in AllVins
        BY <2>2
      <3>6. ram' = [ram EXCEPT !.key = k, !.vin = vin, !.safe = b, !.sessions = S]
        BY <3>3, <3>4
      <3> HIDE DEF BootLoad, Goto, Halt
      <3>7. QED
        BY <3>2, <3>4, <3>5, <3>6 DEF RamType
    <2>3. ram' = ram \/ \E k \in {key, 0}, kept \in SUBSET {rec[r] : r \in Sessions} :
            ram' = [ram EXCEPT !.key = k, !.vin = vin, !.safe = k # 0,
                               !.sessions = IF k = 0 THEN {} ELSE kept \ {NoOwner}]
      OBVIOUS
    <2>4. QED
      BY <2>1, <2>2, <2>3
  <1>3. faults' \in 0..MaxFaults
    <2>1. CASE faults < MaxFaults /\ faults' = faults + 1
      BY <2>1, OneMoreFault
    <2>2. CASE \E good \in Reads : Charge(good)
      BY <2>2, ReadOutcomes
    <2>3. CASE Charge(TRUE)
      BY <2>3 DEF Charge
    <2>4. QED
      BY <2>1, <2>2, <2>3
  <1>4. QED
    BY <1>1, <1>2, <1>3

\* BootEvidence keeps the types.
LEMMA BootEvidenceTyped ==
    ASSUME TypeOK, IdentityInv, BootEvidence
    PROVE  TypeOK'
  <1> USE DEF TypeOK, BootEvidence, Goto, Recovery, durable
  <1>1. pc' \in PcType
    BY NewKeyIsNew, WriteOutcomes, ReadOutcomes DEF PcType, BootSteps, HttpSteps, AutoSteps
  <1>2. tx' \in TxType
    BY NewKeyIsNew, WriteOutcomes, ReadOutcomes, InitialValues DEF StartTx, TxType, TxSteps,
       Results
  <1>3. faults' \in 0..MaxFaults
    BY BoundsAssumption, WriteOutcomes, ReadOutcomes
  <1>4. QED
    BY <1>1, <1>2, <1>3

\* BootRollback keeps the types.
LEMMA BootRollbackTyped ==
    ASSUME TypeOK, IdentityInv, BootRollback
    PROVE  TypeOK'
  <1> USE DEF TypeOK, BootRollback, Goto
  <1>1. vin' \in AllVins
    BY NewKeyIsNew, WriteOutcomes, ReadOutcomes, InitialValues DEF AllVins, ReqType, Owners,
       TxnType, Put
  <1>2. pc' \in PcType
    BY NewKeyIsNew, WriteOutcomes, ReadOutcomes DEF PcType, BootSteps, HttpSteps, AutoSteps
  <1>3. faults' \in 0..MaxFaults
    BY BoundsAssumption, WriteOutcomes, ReadOutcomes
  <1>4. QED
    BY <1>1, <1>2, <1>3

\* BootComplete keeps the types.
LEMMA BootCompleteTyped ==
    ASSUME TypeOK, IdentityInv, BootComplete
    PROVE  TypeOK'
  <1> USE DEF TypeOK, BootComplete, Goto
  <1>1. rec' \in RecType
    <2>1. PICK w \in Writes : rec' \in {rec, [rec EXCEPT ![Erased[tx.i]] = Put(@, NoOwner, w)]}
      OBVIOUS
    <2>2. QED
      BY <2>1, InitialValues DEF RecType, Put
  <1>2. pc' \in PcType
    BY NewKeyIsNew, WriteOutcomes, ReadOutcomes DEF PcType, BootSteps, HttpSteps, AutoSteps
  <1>3. tx' \in TxType
    <2>1. tx.i + 1 \in 1..5
      BY DEF IdentityInv, Booting, TxType
    <2>2. PICK b \in BOOLEAN : tx' = [tx EXCEPT !.i = @ + 1, !.ok = b]
      BY WriteOutcomes DEF TxType
    <2>3. QED
      BY <2>1, <2>2 DEF TxType
  <1>4. faults' \in 0..MaxFaults
    BY BoundsAssumption, WriteOutcomes, ReadOutcomes
  <1>5. QED
    BY <1>1, <1>2, <1>3, <1>4

\* BootClear keeps the types.
LEMMA BootClearTyped ==
    ASSUME TypeOK, IdentityInv, BootClear
    PROVE  TypeOK'
  <1> USE DEF TypeOK, BootClear, Goto
  <1>1. txn' \in TxnType
    BY NewKeyIsNew, WriteOutcomes, ReadOutcomes, InitialValues DEF TxnType, NoTxn, Owners,
       ReqType, AllVins, Put
  <1>2. pc' \in PcType
    BY NewKeyIsNew, WriteOutcomes, ReadOutcomes, PowerUpTyped DEF PcType, BootSteps, HttpSteps,
       AutoSteps
  <1>3. ram' \in RamType
    BY NewKeyIsNew, WriteOutcomes, ReadOutcomes, InitialValues, PowerUpTyped DEF RamType
  <1>4. handshake' \in Owners
    BY NewKeyIsNew, WriteOutcomes, ReadOutcomes, InitialValues, MeTyped, PowerUpTyped
  <1>5. lock' \in Tasks \cup {"free"}
    BY NewKeyIsNew, WriteOutcomes, ReadOutcomes, PowerUpTyped DEF Tasks
  <1>6. lease' \in Tasks \cup {"free"}
    BY NewKeyIsNew, WriteOutcomes, ReadOutcomes, PowerUpTyped DEF Tasks
  <1>7. tx' \in TxType
    BY NewKeyIsNew, WriteOutcomes, ReadOutcomes, InitialValues, PowerUpTyped DEF StartTx, TxType,
       TxSteps, Results
  <1>8. req' \in ReqType
    BY NewKeyIsNew, WriteOutcomes, ReadOutcomes, InitialValues, PowerUpTyped DEF ReqType, NoReq,
       NoOwner, Owners, AllVins
  <1>9. faults' \in 0..MaxFaults
    BY BoundsAssumption, WriteOutcomes, ReadOutcomes
  <1>10. QED
    BY <1>1, <1>2, <1>3, <1>4, <1>5, <1>6, <1>7, <1>8, <1>9

\* BootKey keeps the types.
LEMMA BootKeyTyped ==
    ASSUME TypeOK, IdentityInv, BootKey
    PROVE  TypeOK'
  <1> USE DEF TypeOK, BootKey, Goto, Halt, durable
  <1>1. pc' \in PcType
    BY NewKeyIsNew, WriteOutcomes, ReadOutcomes DEF PcType, BootSteps, HttpSteps, AutoSteps
  <1>2. lock' \in Tasks \cup {"free"}
    BY NewKeyIsNew, WriteOutcomes, ReadOutcomes DEF Tasks
  <1>3. lease' \in Tasks \cup {"free"}
    BY NewKeyIsNew, WriteOutcomes, ReadOutcomes DEF Tasks
  <1>4. tx' \in TxType
    BY NewKeyIsNew, WriteOutcomes, ReadOutcomes, InitialValues DEF StartTx, TxType, TxSteps,
       Results
  <1>5. faults' \in 0..MaxFaults
    BY BoundsAssumption, WriteOutcomes, ReadOutcomes
  <1>6. QED
    BY <1>1, <1>2, <1>3, <1>4, <1>5

\* BootGenerated keeps the types.
LEMMA BootGeneratedTyped ==
    ASSUME TypeOK, IdentityInv, BootGenerated
    PROVE  TypeOK'
  <1> USE DEF TypeOK, BootGenerated, Goto, durable
  <1>1. pc' \in PcType
    BY NewKeyIsNew, WriteOutcomes, ReadOutcomes, PowerUpTyped DEF PcType, BootSteps, HttpSteps,
       AutoSteps
  <1>2. ram' \in RamType
    BY NewKeyIsNew, WriteOutcomes, ReadOutcomes, InitialValues, PowerUpTyped DEF RamType
  <1>3. handshake' \in Owners
    BY NewKeyIsNew, WriteOutcomes, ReadOutcomes, InitialValues, MeTyped, PowerUpTyped
  <1>4. lock' \in Tasks \cup {"free"}
    BY NewKeyIsNew, WriteOutcomes, ReadOutcomes, PowerUpTyped DEF Tasks
  <1>5. lease' \in Tasks \cup {"free"}
    BY NewKeyIsNew, WriteOutcomes, ReadOutcomes, PowerUpTyped DEF Tasks
  <1>6. tx' \in TxType
    BY NewKeyIsNew, WriteOutcomes, ReadOutcomes, InitialValues, PowerUpTyped DEF StartTx, TxType,
       TxSteps, Results
  <1>7. req' \in ReqType
    BY NewKeyIsNew, WriteOutcomes, ReadOutcomes, InitialValues, PowerUpTyped DEF ReqType, NoReq,
       NoOwner, Owners, AllVins
  <1>8. QED
    BY <1>1, <1>2, <1>3, <1>4, <1>5, <1>6, <1>7

\* HttpGenerated keeps the types.
LEMMA HttpGeneratedTyped ==
    ASSUME TypeOK, IdentityInv, HttpGenerated
    PROVE  TypeOK'
  <1> USE DEF TypeOK, HttpGenerated, Http, Release, durable
  <1>1. pc' \in PcType
    BY NewKeyIsNew, WriteOutcomes, ReadOutcomes DEF PcType, BootSteps, HttpSteps, AutoSteps
  <1>2. lock' \in Tasks \cup {"free"}
    BY NewKeyIsNew, WriteOutcomes, ReadOutcomes DEF Tasks
  <1>3. lease' \in Tasks \cup {"free"}
    BY NewKeyIsNew, WriteOutcomes, ReadOutcomes DEF Tasks
  <1>4. tx' \in TxType
    BY NewKeyIsNew, WriteOutcomes, ReadOutcomes, InitialValues DEF StartTx, TxType, TxSteps,
       Results
  <1>5. QED
    BY <1>1, <1>2, <1>3, <1>4

\* HttpStageMarker keeps the types.
LEMMA HttpStageMarkerTyped ==
    ASSUME TypeOK, IdentityInv, HttpStageMarker
    PROVE  TypeOK'
  <1> USE DEF TypeOK, HttpStageMarker, Http
  <1>1. txn' \in TxnType
    BY NewKeyIsNew, WriteOutcomes, ReadOutcomes, InitialValues DEF TxnType, NoTxn, Owners,
       ReqType, AllVins, Put
  <1>2. pc' \in PcType
    BY NewKeyIsNew, WriteOutcomes, ReadOutcomes DEF PcType, BootSteps, HttpSteps, AutoSteps
  <1>3. lock' \in Tasks \cup {"free"}
    BY NewKeyIsNew, WriteOutcomes, ReadOutcomes DEF Tasks
  <1>4. faults' \in 0..MaxFaults
    BY BoundsAssumption, WriteOutcomes, ReadOutcomes
  <1>5. QED
    BY <1>1, <1>2, <1>3, <1>4

\* HttpStageVin keeps the types.
LEMMA HttpStageVinTyped ==
    ASSUME TypeOK, IdentityInv, HttpStageVin
    PROVE  TypeOK'
  <1> USE DEF TypeOK, HttpStageVin, Http
  <1>1. vin' \in AllVins
    BY NewKeyIsNew, WriteOutcomes, ReadOutcomes, InitialValues DEF AllVins, ReqType, Owners,
       TxnType, Put
  <1>2. pc' \in PcType
    BY NewKeyIsNew, WriteOutcomes, ReadOutcomes DEF PcType, BootSteps, HttpSteps, AutoSteps
  <1>3. lock' \in Tasks \cup {"free"}
    BY NewKeyIsNew, WriteOutcomes, ReadOutcomes DEF Tasks
  <1>4. tx' \in TxType
    BY NewKeyIsNew, WriteOutcomes, ReadOutcomes, InitialValues DEF StartTx, TxType, TxSteps,
       Results
  <1>5. faults' \in 0..MaxFaults
    BY BoundsAssumption, WriteOutcomes, ReadOutcomes
  <1>6. QED
    BY <1>1, <1>2, <1>3, <1>4, <1>5

\* HttpRotated keeps the types.
LEMMA HttpRotatedTyped ==
    ASSUME TypeOK, IdentityInv, HttpRotated
    PROVE  TypeOK'
  <1> USE DEF TypeOK, HttpRotated, Http, durable
  <1>1. pc' \in PcType
    BY NewKeyIsNew, WriteOutcomes, ReadOutcomes DEF PcType, BootSteps, HttpSteps, AutoSteps
  <1>2. lock' \in Tasks \cup {"free"}
    BY NewKeyIsNew, WriteOutcomes, ReadOutcomes DEF Tasks
  <1>3. tx' \in TxType
    BY NewKeyIsNew, WriteOutcomes, ReadOutcomes, InitialValues DEF StartTx, TxType, TxSteps,
       Results
  <1>4. QED
    BY <1>1, <1>2, <1>3

\* HttpMac keeps the types.
LEMMA HttpMacTyped ==
    ASSUME TypeOK, IdentityInv, HttpMac
    PROVE  TypeOK'
  <1> USE DEF TypeOK, HttpMac, Http, durable
  <1>1. pc' \in PcType
    BY NewKeyIsNew, WriteOutcomes, ReadOutcomes DEF PcType, BootSteps, HttpSteps, AutoSteps
  <1>2. lock' \in Tasks \cup {"free"}
    BY NewKeyIsNew, WriteOutcomes, ReadOutcomes DEF Tasks
  <1>3. tx' \in TxType
    BY NewKeyIsNew, WriteOutcomes, ReadOutcomes, InitialValues DEF StartTx, TxType, TxSteps,
       Results
  <1>4. faults' \in 0..MaxFaults
    BY BoundsAssumption, WriteOutcomes, ReadOutcomes
  <1>5. QED
    BY <1>1, <1>2, <1>3, <1>4

\* HttpRollback keeps the types.
LEMMA HttpRollbackTyped ==
    ASSUME TypeOK, IdentityInv, HttpRollback
    PROVE  TypeOK'
  <1> USE DEF TypeOK, HttpRollback, Http
  <1>1. vin' \in AllVins
    BY NewKeyIsNew, WriteOutcomes, ReadOutcomes, InitialValues DEF AllVins, ReqType, Owners,
       TxnType, Put
  <1>2. pc' \in PcType
    BY NewKeyIsNew, WriteOutcomes, ReadOutcomes DEF PcType, BootSteps, HttpSteps, AutoSteps
  <1>3. faults' \in 0..MaxFaults
    BY BoundsAssumption, WriteOutcomes, ReadOutcomes
  <1>4. QED
    BY <1>1, <1>2, <1>3

\* HttpUnmark keeps the types.
LEMMA HttpUnmarkTyped ==
    ASSUME TypeOK, IdentityInv, HttpUnmark
    PROVE  TypeOK'
  <1> USE DEF TypeOK, HttpUnmark, Http
  <1>1. txn' \in TxnType
    BY NewKeyIsNew, WriteOutcomes, ReadOutcomes, InitialValues DEF TxnType, NoTxn, Owners,
       ReqType, AllVins, Put
  <1>2. pc' \in PcType
    BY NewKeyIsNew, WriteOutcomes, ReadOutcomes DEF PcType, BootSteps, HttpSteps, AutoSteps
  <1>3. faults' \in 0..MaxFaults
    BY BoundsAssumption, WriteOutcomes, ReadOutcomes
  <1>4. QED
    BY <1>1, <1>2, <1>3

\* HttpRestart keeps the types.
LEMMA HttpRestartTyped ==
    ASSUME TypeOK, IdentityInv, HttpRestart
    PROVE  TypeOK'
  <1> USE DEF TypeOK, HttpRestart, durable
  <1>1. pc' \in PcType
    BY NewKeyIsNew, WriteOutcomes, ReadOutcomes, PowerUpTyped DEF PcType, BootSteps, HttpSteps,
       AutoSteps
  <1>2. ram' \in RamType
    BY NewKeyIsNew, WriteOutcomes, ReadOutcomes, InitialValues, PowerUpTyped DEF RamType
  <1>3. handshake' \in Owners
    BY NewKeyIsNew, WriteOutcomes, ReadOutcomes, InitialValues, MeTyped, PowerUpTyped
  <1>4. lock' \in Tasks \cup {"free"}
    BY NewKeyIsNew, WriteOutcomes, ReadOutcomes, PowerUpTyped DEF Tasks
  <1>5. lease' \in Tasks \cup {"free"}
    BY NewKeyIsNew, WriteOutcomes, ReadOutcomes, PowerUpTyped DEF Tasks
  <1>6. tx' \in TxType
    BY NewKeyIsNew, WriteOutcomes, ReadOutcomes, InitialValues, PowerUpTyped DEF StartTx, TxType,
       TxSteps, Results
  <1>7. req' \in ReqType
    BY NewKeyIsNew, WriteOutcomes, ReadOutcomes, InitialValues, PowerUpTyped DEF ReqType, NoReq,
       NoOwner, Owners, AllVins
  <1>8. QED
    BY <1>1, <1>2, <1>3, <1>4, <1>5, <1>6, <1>7

\* HttpStampPaired keeps the types.
LEMMA HttpStampPairedTyped ==
    ASSUME TypeOK, IdentityInv, HttpStampPaired
    PROVE  TypeOK'
  <1> USE DEF TypeOK, HttpStampPaired, Http
  <1>1. rec' \in RecType
    <2>1. PICK w \in Writes : rec' = [rec EXCEPT !["paired_at"] = Put(@, req.previous, w)]
      OBVIOUS
    <2>2. QED
      BY <2>1, InitialValues, MeTyped DEF ReqType, RecType, Put
  <1>2. pc' \in PcType
    BY NewKeyIsNew, WriteOutcomes, ReadOutcomes DEF PcType, BootSteps, HttpSteps, AutoSteps
  <1>3. req' \in ReqType
    BY NewKeyIsNew, WriteOutcomes, ReadOutcomes, InitialValues DEF ReqType, NoReq, NoOwner,
       Owners, AllVins
  <1>4. faults' \in 0..MaxFaults
    BY BoundsAssumption, WriteOutcomes, ReadOutcomes
  <1>5. QED
    BY <1>1, <1>2, <1>3, <1>4

\* AutoLook keeps the types.
LEMMA AutoLookTyped ==
    ASSUME TypeOK, IdentityInv, AutoLook
    PROVE  TypeOK'
  <1> USE DEF TypeOK, AutoLook, AutoPair, durable
  <1>1. pc' \in PcType
    BY NewKeyIsNew, WriteOutcomes, ReadOutcomes DEF PcType, BootSteps, HttpSteps, AutoSteps
  <1>2. QED
    BY <1>1

\* AutoReload keeps the types.
LEMMA AutoReloadTyped ==
    ASSUME TypeOK, IdentityInv, AutoReload
    PROVE  TypeOK'
  <1> USE DEF TypeOK, AutoReload, AutoPair, durable
  <1>1. pc' \in PcType
    BY NewKeyIsNew, WriteOutcomes, ReadOutcomes, PowerUpTyped DEF PcType, BootSteps, HttpSteps,
       AutoSteps
  <1>2. ram' \in RamType
    BY NewKeyIsNew, WriteOutcomes, ReadOutcomes, InitialValues, PowerUpTyped DEF RamType
  <1>3. handshake' \in Owners
    BY NewKeyIsNew, WriteOutcomes, ReadOutcomes, InitialValues, MeTyped, PowerUpTyped
  <1>4. lock' \in Tasks \cup {"free"}
    BY NewKeyIsNew, WriteOutcomes, ReadOutcomes, PowerUpTyped DEF Tasks
  <1>5. lease' \in Tasks \cup {"free"}
    BY NewKeyIsNew, WriteOutcomes, ReadOutcomes, PowerUpTyped DEF Tasks
  <1>6. tx' \in TxType
    BY NewKeyIsNew, WriteOutcomes, ReadOutcomes, InitialValues, PowerUpTyped DEF StartTx, TxType,
       TxSteps, Results
  <1>7. req' \in ReqType
    BY NewKeyIsNew, WriteOutcomes, ReadOutcomes, InitialValues, PowerUpTyped DEF ReqType, NoReq,
       NoOwner, Owners, AllVins
  <1>8. faults' \in 0..MaxFaults
    BY BoundsAssumption, WriteOutcomes, ReadOutcomes
  <1>9. QED
    BY <1>1, <1>2, <1>3, <1>4, <1>5, <1>6, <1>7, <1>8

\* AutoSeesCleanup keeps the types.
LEMMA AutoSeesCleanupTyped ==
    ASSUME TypeOK, IdentityInv, AutoSeesCleanup
    PROVE  TypeOK'
  <1> USE DEF TypeOK, AutoSeesCleanup, AutoPair, durable
  <1>1. pc' \in PcType
    BY NewKeyIsNew, WriteOutcomes, ReadOutcomes DEF PcType, BootSteps, HttpSteps, AutoSteps
  <1>2. QED
    BY <1>1

\* AutoClean keeps the types.
LEMMA AutoCleanTyped ==
    ASSUME TypeOK, IdentityInv, AutoClean
    PROVE  TypeOK'
  <1> USE DEF TypeOK, AutoClean, AutoPair, durable
  <1>1. pc' \in PcType
    BY NewKeyIsNew, WriteOutcomes, ReadOutcomes DEF PcType, BootSteps, HttpSteps, AutoSteps
  <1>2. lock' \in Tasks \cup {"free"}
    BY NewKeyIsNew, WriteOutcomes, ReadOutcomes DEF Tasks
  <1>3. tx' \in TxType
    BY NewKeyIsNew, WriteOutcomes, ReadOutcomes, InitialValues DEF StartTx, TxType, TxSteps,
       Results
  <1>4. QED
    BY <1>1, <1>2, <1>3

\* AutoCleaned keeps the types.
LEMMA AutoCleanedTyped ==
    ASSUME TypeOK, IdentityInv, AutoCleaned
    PROVE  TypeOK'
  <1> USE DEF TypeOK, AutoCleaned, AutoPair, durable
  <1>1. pc' \in PcType
    BY NewKeyIsNew, WriteOutcomes, ReadOutcomes DEF PcType, BootSteps, HttpSteps, AutoSteps
  <1>2. lock' \in Tasks \cup {"free"}
    BY NewKeyIsNew, WriteOutcomes, ReadOutcomes DEF Tasks
  <1>3. tx' \in TxType
    BY NewKeyIsNew, WriteOutcomes, ReadOutcomes, InitialValues DEF StartTx, TxType, TxSteps,
       Results
  <1>4. QED
    BY <1>1, <1>2, <1>3

\* AutoProbe keeps the types.
LEMMA AutoProbeTyped ==
    ASSUME TypeOK, IdentityInv, AutoProbe
    PROVE  TypeOK'
  <1> USE DEF TypeOK, AutoProbe, AutoPair, durable
  <1>1. pc' \in PcType
    BY NewKeyIsNew, WriteOutcomes, ReadOutcomes DEF PcType, BootSteps, HttpSteps, AutoSteps
  <1>2. ram' \in RamType
    BY NewKeyIsNew, WriteOutcomes, ReadOutcomes, InitialValues DEF RamType
  <1>3. faults' \in 0..MaxFaults
    BY BoundsAssumption, WriteOutcomes, ReadOutcomes
  <1>4. QED
    BY <1>1, <1>2, <1>3

\* AutoGenerate keeps the types.
LEMMA AutoGenerateTyped ==
    ASSUME TypeOK, IdentityInv, AutoGenerate
    PROVE  TypeOK'
  <1> USE DEF TypeOK, AutoGenerate, AutoPair, durable
  <1>1. pc' \in PcType
    BY NewKeyIsNew, WriteOutcomes, ReadOutcomes DEF PcType, BootSteps, HttpSteps, AutoSteps
  <1>2. ram' \in RamType
    <2>1. PICK b \in BOOLEAN : ram' \in {ram, [ram EXCEPT !.safe = b]}
      OBVIOUS
    <2>2. QED
      BY <2>1 DEF RamType
  <1>3. lock' \in Tasks \cup {"free"}
    BY NewKeyIsNew, WriteOutcomes, ReadOutcomes DEF Tasks
  <1>4. lease' \in Tasks \cup {"free"}
    BY NewKeyIsNew, WriteOutcomes, ReadOutcomes DEF Tasks
  <1>5. tx' \in TxType
    BY NewKeyIsNew, WriteOutcomes, ReadOutcomes, InitialValues DEF StartTx, TxType, TxSteps,
       Results
  <1>6. faults' \in 0..MaxFaults
    BY BoundsAssumption, WriteOutcomes, ReadOutcomes
  <1>7. QED
    BY <1>1, <1>2, <1>3, <1>4, <1>5, <1>6

\* AutoGenerated keeps the types.
LEMMA AutoGeneratedTyped ==
    ASSUME TypeOK, IdentityInv, AutoGenerated
    PROVE  TypeOK'
  <1> USE DEF TypeOK, AutoGenerated, AutoPair, Release, durable
  <1>1. pc' \in PcType
    BY NewKeyIsNew, WriteOutcomes, ReadOutcomes DEF PcType, BootSteps, HttpSteps, AutoSteps
  <1>2. ram' \in RamType
    BY NewKeyIsNew, WriteOutcomes, ReadOutcomes, InitialValues DEF RamType
  <1>3. lock' \in Tasks \cup {"free"}
    BY NewKeyIsNew, WriteOutcomes, ReadOutcomes DEF Tasks
  <1>4. lease' \in Tasks \cup {"free"}
    BY NewKeyIsNew, WriteOutcomes, ReadOutcomes DEF Tasks
  <1>5. tx' \in TxType
    BY NewKeyIsNew, WriteOutcomes, ReadOutcomes, InitialValues DEF StartTx, TxType, TxSteps,
       Results
  <1>6. QED
    BY <1>1, <1>2, <1>3, <1>4, <1>5

\* HttpStatus keeps the types.
LEMMA HttpStatusTyped ==
    ASSUME TypeOK, IdentityInv, HttpStatus
    PROVE  TypeOK'
  <1> USE DEF TypeOK, HttpStatus, Http, durable
  <1>1. pc' \in PcType
    BY NewKeyIsNew, WriteOutcomes, ReadOutcomes DEF PcType, BootSteps, HttpSteps, AutoSteps
  <1>2. req' \in ReqType
    <2>1. rec["session_vcsec"] \in Owners
      BY DEF RecType, Records
    <2>2. QED
      BY <2>1 DEF ReqType
  <1>3. QED
    BY <1>1, <1>2

\* RequestSession keeps the types.
LEMMA RequestSessionTyped ==
    ASSUME TypeOK, IdentityInv, RequestSession
    PROVE  TypeOK'
  <1> USE DEF TypeOK, RequestSession, durable
  <1>1. handshake' \in Owners
    BY NewKeyIsNew, WriteOutcomes, ReadOutcomes, InitialValues, MeTyped
  <1>2. QED
    BY <1>1

\* LoseSession keeps the types.
LEMMA LoseSessionTyped ==
    ASSUME TypeOK, IdentityInv, LoseSession
    PROVE  TypeOK'
  <1> USE DEF TypeOK, LoseSession, durable
  <1>1. handshake' \in Owners
    BY NewKeyIsNew, WriteOutcomes, ReadOutcomes, InitialValues, MeTyped
  <1>2. QED
    BY <1>1

\* PowerLoss keeps the types.
LEMMA PowerLossTyped ==
    ASSUME TypeOK, IdentityInv, PowerLoss
    PROVE  TypeOK'
  <1> USE DEF TypeOK, PowerLoss, durable
  <1>1. pc' \in PcType
    BY NewKeyIsNew, WriteOutcomes, ReadOutcomes, PowerUpTyped DEF PcType, BootSteps, HttpSteps,
       AutoSteps
  <1>2. ram' \in RamType
    BY NewKeyIsNew, WriteOutcomes, ReadOutcomes, InitialValues, PowerUpTyped DEF RamType
  <1>3. handshake' \in Owners
    BY NewKeyIsNew, WriteOutcomes, ReadOutcomes, InitialValues, MeTyped, PowerUpTyped
  <1>4. lock' \in Tasks \cup {"free"}
    BY NewKeyIsNew, WriteOutcomes, ReadOutcomes, PowerUpTyped DEF Tasks
  <1>5. lease' \in Tasks \cup {"free"}
    BY NewKeyIsNew, WriteOutcomes, ReadOutcomes, PowerUpTyped DEF Tasks
  <1>6. tx' \in TxType
    BY NewKeyIsNew, WriteOutcomes, ReadOutcomes, InitialValues, PowerUpTyped DEF StartTx, TxType,
       TxSteps, Results
  <1>7. req' \in ReqType
    BY NewKeyIsNew, WriteOutcomes, ReadOutcomes, InitialValues, PowerUpTyped DEF ReqType, NoReq,
       NoOwner, Owners, AllVins
  <1>8. crashes' \in 0..MaxCrashes
    BY BoundsAssumption
  <1>9. QED
    BY <1>1, <1>2, <1>3, <1>4, <1>5, <1>6, <1>7, <1>8

\* Reset keeps the types.
LEMMA ResetTyped ==
    ASSUME TypeOK, IdentityInv, Reset
    PROVE  TypeOK'
  <1> USE DEF TypeOK, Reset, durable
  <1>1. pc' \in PcType
    BY NewKeyIsNew, WriteOutcomes, ReadOutcomes, PowerUpTyped DEF PcType, BootSteps, HttpSteps,
       AutoSteps
  <1>2. ram' \in RamType
    BY NewKeyIsNew, WriteOutcomes, ReadOutcomes, InitialValues, PowerUpTyped DEF RamType
  <1>3. handshake' \in Owners
    BY NewKeyIsNew, WriteOutcomes, ReadOutcomes, InitialValues, MeTyped, PowerUpTyped
  <1>4. lock' \in Tasks \cup {"free"}
    BY NewKeyIsNew, WriteOutcomes, ReadOutcomes, PowerUpTyped DEF Tasks
  <1>5. lease' \in Tasks \cup {"free"}
    BY NewKeyIsNew, WriteOutcomes, ReadOutcomes, PowerUpTyped DEF Tasks
  <1>6. tx' \in TxType
    BY NewKeyIsNew, WriteOutcomes, ReadOutcomes, InitialValues, PowerUpTyped DEF StartTx, TxType,
       TxSteps, Results
  <1>7. req' \in ReqType
    BY NewKeyIsNew, WriteOutcomes, ReadOutcomes, InitialValues, PowerUpTyped DEF ReqType, NoReq,
       NoOwner, Owners, AllVins
  <1>8. QED
    BY <1>1, <1>2, <1>3, <1>4, <1>5, <1>6, <1>7

\* SetupPortal keeps the types.
LEMMA SetupPortalTyped ==
    ASSUME TypeOK, IdentityInv, NEW v \in Vins, SetupPortal(v)
    PROVE  TypeOK'
  <1> USE DEF TypeOK, SetupPortal, volatile
  <1>1. vin' \in AllVins
    BY NewKeyIsNew, WriteOutcomes, ReadOutcomes, InitialValues DEF AllVins, ReqType, Owners,
       TxnType, Put
  <1>2. pc' \in PcType
    BY NewKeyIsNew, WriteOutcomes, ReadOutcomes, PowerUpTyped DEF PcType, BootSteps, HttpSteps,
       AutoSteps
  <1>3. ram' \in RamType
    BY NewKeyIsNew, WriteOutcomes, ReadOutcomes, InitialValues, PowerUpTyped DEF RamType
  <1>4. handshake' \in Owners
    BY NewKeyIsNew, WriteOutcomes, ReadOutcomes, InitialValues, MeTyped, PowerUpTyped
  <1>5. lock' \in Tasks \cup {"free"}
    BY NewKeyIsNew, WriteOutcomes, ReadOutcomes, PowerUpTyped DEF Tasks
  <1>6. lease' \in Tasks \cup {"free"}
    BY NewKeyIsNew, WriteOutcomes, ReadOutcomes, PowerUpTyped DEF Tasks
  <1>7. tx' \in TxType
    BY NewKeyIsNew, WriteOutcomes, ReadOutcomes, InitialValues, PowerUpTyped DEF StartTx, TxType,
       TxSteps, Results
  <1>8. req' \in ReqType
    BY NewKeyIsNew, WriteOutcomes, ReadOutcomes, InitialValues, PowerUpTyped DEF ReqType, NoReq,
       NoOwner, Owners, AllVins
  <1>9. faults' \in 0..MaxFaults
    BY BoundsAssumption, WriteOutcomes, ReadOutcomes
  <1>10. QED
    BY <1>1, <1>2, <1>3, <1>4, <1>5, <1>6, <1>7, <1>8, <1>9

\* HttpSetVin keeps the types.
LEMMA HttpSetVinTyped ==
    ASSUME TypeOK, IdentityInv, NEW v \in Vins, HttpSetVin(v)
    PROVE  TypeOK'
  <1> USE DEF TypeOK, HttpSetVin, Http, HttpFree, durable
  <1>1. pc' \in PcType
    BY NewKeyIsNew, WriteOutcomes, ReadOutcomes DEF PcType, BootSteps, HttpSteps, AutoSteps
  <1>2. ram' \in RamType
    <2>1. ram' \in {ram, [ram EXCEPT !.vinPending = TRUE]}
      OBVIOUS
    <2>2. QED
      BY <2>1 DEF RamType
  <1>3. lock' \in Tasks \cup {"free"}
    BY NewKeyIsNew, WriteOutcomes, ReadOutcomes DEF Tasks
  <1>4. lease' \in Tasks \cup {"free"}
    BY NewKeyIsNew, WriteOutcomes, ReadOutcomes DEF Tasks
  <1>5. req' \in ReqType
    BY NewKeyIsNew, WriteOutcomes, ReadOutcomes, InitialValues DEF ReqType, NoReq, NoOwner,
       Owners, AllVins
  <1>6. faults' \in 0..MaxFaults
    BY BoundsAssumption, WriteOutcomes, ReadOutcomes
  <1>7. QED
    BY <1>1, <1>2, <1>3, <1>4, <1>5, <1>6

\* HttpGenKeys keeps the types.
LEMMA HttpGenKeysTyped ==
    ASSUME TypeOK, IdentityInv, NEW force \in BOOLEAN, HttpGenKeys(force)
    PROVE  TypeOK'
  <1> USE DEF TypeOK, HttpGenKeys, Http, HttpFree, durable
  <1>1. pc' \in PcType
    BY NewKeyIsNew, WriteOutcomes, ReadOutcomes DEF PcType, BootSteps, HttpSteps, AutoSteps
  <1>2. lock' \in Tasks \cup {"free"}
    BY NewKeyIsNew, WriteOutcomes, ReadOutcomes DEF Tasks
  <1>3. lease' \in Tasks \cup {"free"}
    BY NewKeyIsNew, WriteOutcomes, ReadOutcomes DEF Tasks
  <1>4. tx' \in TxType
    BY NewKeyIsNew, WriteOutcomes, ReadOutcomes, InitialValues DEF StartTx, TxType, TxSteps,
       Results
  <1>5. faults' \in 0..MaxFaults
    <2>1. CASE UNCHANGED faults
      BY <2>1
    <2>2. CASE \E good \in Reads : Charge(good)
      BY <2>2, ReadOutcomes
    <2>3. CASE Charge(TRUE)
      BY <2>3 DEF Charge
    <2>4. QED
      BY <2>1, <2>2, <2>3
  <1>6. QED
    BY <1>1, <1>2, <1>3, <1>4, <1>5

\* EstablishSession keeps the types.
LEMMA EstablishSessionTyped ==
    ASSUME TypeOK, IdentityInv, NEW r \in Sessions, EstablishSession(r)
    PROVE  TypeOK'
  <1> USE DEF TypeOK, EstablishSession
  <1>1. rec' \in RecType
    <2>1. \A w : [rec EXCEPT ![r] = Put(@, handshake, w)] \in RecType
      BY DEF RecType, Put
    <2>2. QED
      BY <2>1
  <1>2. ram' \in RamType
    BY NewKeyIsNew, WriteOutcomes, ReadOutcomes, InitialValues DEF RamType
  <1>3. handshake' \in Owners
    BY NewKeyIsNew, WriteOutcomes, ReadOutcomes, InitialValues, MeTyped
  <1>4. faults' \in 0..MaxFaults
    BY BoundsAssumption, WriteOutcomes, ReadOutcomes
  <1>5. QED
    BY <1>1, <1>2, <1>3, <1>4

----------------------------------------------------------------------------
(* Every action keeps the inductive invariant                              *)

\* TxMarker keeps IdentityInv.
LEMMA TxMarkerKeeps ==
    ASSUME TypeOK, IdentityInv, TxMarker
    PROVE  IdentityInv'
  <1> USE DEF IdentityInv, TypeOK, PcType, RamType, TxType, TxMarker, Put
  <1>1. LockOrder'
    BY WriteOutcomes DEF LockOrder, Running, Tasks
  <1>2. Flash'
    BY WriteOutcomes DEF Flash, Own, NoOwner, RecType, Sessions, Records, TxnType
  <1>3. Transition'
    BY WriteOutcomes DEF Transition, Untouched, Committed, TxnType, ReqType
  <1>4. Booting'
    BY WriteOutcomes DEF Booting, LockOrder, Running, NoOwner, RecType, Sessions, Records,
       Erased, TxnType, Tasks
  <1>5. Runtime'
    BY WriteOutcomes DEF Runtime, Loaded, KeyIsFlash, Untouched, Committed, Me, RecType,
       Records, NoOwner, TxnType
  <1>6. Rotation'
    BY WriteOutcomes DEF LockOrder, Running, Flash, Own, Transition, Untouched, Committed,
       Booting, Runtime, Loaded, KeyIsFlash, Me, Rotation, Unknown, Handshake, Tasks, NoOwner,
       RecType, Sessions, Records, TxnType, ReqType, Erased
  <1>7. Handshake'
    BY WriteOutcomes DEF Handshake, NoOwner, TxnType
  <1>8. QED
    BY <1>1, <1>2, <1>3, <1>4, <1>5, <1>6, <1>7

\* TxProbe keeps IdentityInv.
LEMMA TxProbeKeeps ==
    ASSUME TypeOK, IdentityInv, TxProbe
    PROVE  IdentityInv'
  <1> USE DEF IdentityInv, TypeOK, PcType, RamType, TxType, TxProbe, Finished, durable
  <1>1. LockOrder'
    BY ReadOutcomes DEF LockOrder, Running, Tasks
  <1>2. Flash'
    BY ReadOutcomes DEF Flash, Own, NoOwner, RecType, Sessions, Records, TxnType
  <1>3. Transition'
    BY ReadOutcomes DEF Transition, Untouched, Committed, TxnType, ReqType
  <1>4. Booting'
    BY ReadOutcomes DEF Booting, LockOrder, Running, NoOwner, RecType, Sessions, Records,
       Erased, TxnType, Tasks
  <1>5. Runtime'
    BY ReadOutcomes DEF Runtime, Loaded, KeyIsFlash, Untouched, Committed, Me, LockOrder,
       Running, Rotation, Unknown, Own, RecType, Records, NoOwner, TxnType, Tasks, Sessions,
       Erased
  <1>6. Rotation'
    BY ReadOutcomes DEF Rotation, Unknown, Own, Me, RecType, Records, Sessions, Erased, NoOwner,
       TxnType
  <1>7. Handshake'
    BY ReadOutcomes DEF Handshake, NoOwner, TxnType
  <1>8. QED
    BY <1>1, <1>2, <1>3, <1>4, <1>5, <1>6, <1>7

\* TxRegenerateFails keeps IdentityInv.
LEMMA TxRegenerateFailsKeeps ==
    ASSUME TypeOK, IdentityInv, TxRegenerateFails
    PROVE  IdentityInv'
  <1> USE DEF IdentityInv, TypeOK, PcType, RamType, TxType
  <1>1. PICK n \in Keys \ InUse : n = NewKey /\ n # 0
    BY NewKeyIsNew DEF TxRegenerateFails
  <1>2. n # key /\ n # txn.key /\ n # handshake.key /\ n # ram.key
    BY <1>1 DEF InUse
  <1>3. tx.pc = "regenerate" /\ madeFor' = [madeFor EXCEPT ![n] = vin]
    BY <1>1 DEF TxRegenerateFails
  <1>4. /\ tx' = [tx EXCEPT !.pc = "flush"]
        /\ \E k \in {n, ram.key} : ram' = [ram EXCEPT !.reload = TRUE, !.key = k]
    BY <1>1 DEF TxRegenerateFails, Restored
  <1>5. UNCHANGED <<key, rec, rot, vin, txn, pc, handshake, lock, lease, req>>
    BY DEF TxRegenerateFails, durable
  <1>6. LockOrder'
    BY <1>1, <1>2, <1>3, <1>4, <1>5 DEF LockOrder, Running, Flash, Own, Transition, Untouched,
       Committed, Booting, Runtime, Loaded, KeyIsFlash, Me, Rotation, Unknown, Handshake, Tasks,
       NoOwner, RecType, Sessions, Records, TxnType, ReqType, Erased
  <1>7. Flash'
    BY <1>1, <1>2, <1>3, <1>4, <1>5 DEF LockOrder, Running, Flash, Own, Transition, Untouched,
       Committed, Booting, Runtime, Loaded, KeyIsFlash, Me, Rotation, Unknown, Handshake, Tasks,
       NoOwner, RecType, Sessions, Records, TxnType, ReqType, Erased
  <1>8. Transition'
    BY <1>1, <1>2, <1>3, <1>4, <1>5 DEF LockOrder, Running, Flash, Own, Transition, Untouched,
       Committed, Booting, Runtime, Loaded, KeyIsFlash, Me, Rotation, Unknown, Handshake, Tasks,
       NoOwner, RecType, Sessions, Records, TxnType, ReqType, Erased
  <1>9. Booting'
    BY <1>1, <1>2, <1>3, <1>4, <1>5 DEF LockOrder, Running, Flash, Own, Transition, Untouched,
       Committed, Booting, Runtime, Loaded, KeyIsFlash, Me, Rotation, Unknown, Handshake, Tasks,
       NoOwner, RecType, Sessions, Records, TxnType, ReqType, Erased
  <1>10. Runtime'
    BY <1>1, <1>2, <1>3, <1>4, <1>5 DEF LockOrder, Running, Flash, Own, Transition, Untouched,
       Committed, Booting, Runtime, Loaded, KeyIsFlash, Me, Rotation, Unknown, Handshake, Tasks,
       NoOwner, RecType, Sessions, Records, TxnType, ReqType, Erased
  <1>11. Rotation'
    BY <1>1, <1>2, <1>3, <1>4, <1>5 DEF LockOrder, Running, Flash, Own, Transition, Untouched,
       Committed, Booting, Runtime, Loaded, KeyIsFlash, Me, Rotation, Unknown, Handshake, Tasks,
       NoOwner, RecType, Sessions, Records, TxnType, ReqType, Erased
  <1>12. Handshake'
    BY <1>1, <1>2, <1>3, <1>4, <1>5 DEF LockOrder, Running, Flash, Own, Transition, Untouched,
       Committed, Booting, Runtime, Loaded, KeyIsFlash, Me, Rotation, Unknown, Handshake, Tasks,
       NoOwner, RecType, Sessions, Records, TxnType, ReqType, Erased
  <1>13. QED
    BY <1>6, <1>7, <1>8, <1>9, <1>10, <1>11, <1>12

\* TxRegenerate keeps IdentityInv.
LEMMA TxRegenerateKeeps ==
    ASSUME TypeOK, IdentityInv, TxRegenerate
    PROVE  IdentityInv'
  <1> USE DEF IdentityInv, TypeOK, PcType, RamType, TxType
  <1>1. PICK n \in Keys \ InUse : n = NewKey /\ n # 0
    BY NewKeyIsNew DEF TxRegenerate
  <1>2. n # key /\ n # txn.key /\ n # handshake.key /\ n # ram.key
    BY <1>1 DEF InUse
  <1>3. tx.pc = "regenerate" /\ madeFor' = [madeFor EXCEPT ![n] = vin]
    BY <1>1 DEF TxRegenerate
  <1>4. \/ /\ key' = n /\ tx' = [tx EXCEPT !.pc = "stamp"]
           /\ ram' = [ram EXCEPT !.key = n, !.cleanup = TRUE]
        \/ /\ key' \in {key, n} /\ tx' = [tx EXCEPT !.pc = "flush"]
           /\ \E k \in {n, ram.key} : ram' = [ram EXCEPT !.reload = TRUE, !.key = k]
    BY <1>1, WriteOutcomes DEF TxRegenerate, Put, Restored
  <1>5. /\ ram'.key \in {n, ram.key} /\ ram'.vin = ram.vin
        /\ ram'.vinPending = ram.vinPending /\ tx'.pc \in {"stamp", "flush"}
    BY <1>4
  <1>6. UNCHANGED <<rec, rot, vin, txn, pc, handshake, lock, lease, req>>
    BY DEF TxRegenerate
  <1>7. LockOrder'
    BY <1>3, <1>5, <1>6 DEF LockOrder, Running, Tasks
  <1>8. Flash'
    BY <1>1, <1>2, <1>3, <1>4, <1>5, <1>6 DEF LockOrder, Running, Flash, Own, Transition,
       Untouched, Committed, Booting, Runtime, Loaded, KeyIsFlash, Me, Rotation, Unknown,
       Handshake, Tasks, NoOwner, RecType, Sessions, Records, TxnType, ReqType, Erased
  <1>9. Transition'
    BY <1>1, <1>2, <1>3, <1>4, <1>5, <1>6 DEF LockOrder, Running, Flash, Own, Transition,
       Untouched, Committed, Booting, Runtime, Loaded, KeyIsFlash, Me, Rotation, Unknown,
       Handshake, Tasks, NoOwner, RecType, Sessions, Records, TxnType, ReqType, Erased
  <1>10. Booting'
    <2>1. pc.boot \in {"generate", "run"}
      BY <1>3 DEF LockOrder, Running, Tasks
    <2>2. QED
      BY <1>5, <1>6, <2>1 DEF Booting
  <1>11. Runtime'
    <2>1. ~ram.reload /\ pc.auto # "clean" /\ pc.auto # "cleaning"
          /\ pc.http \notin {"stageMarker", "stageVin", "rollback", "unmark"}
      <3>1. ~ram.reload /\ pc.auto # "clean" /\ pc.auto # "cleaning"
            /\ pc.http \notin {"stageMarker", "stageVin"}
        <4>1. pc.http \notin {"stageMarker", "stageVin"}
          BY <1>3 DEF LockOrder
        <4>2. QED
          BY <1>3, <4>1 DEF Runtime, Untouched
      <3>2. lock \in {"boot", "auto", "http"}
        BY <1>3 DEF LockOrder, Tasks
      <3>3. CASE pc.http \in {"rollback", "unmark"}
        BY <3>1, <3>2, <3>3 DEF LockOrder, Running
      <3>4. QED
        BY <3>1, <3>3
    <2>2. rot /\ ~ram.safe /\ ~ram.cleanup
      BY <1>3 DEF Rotation, Runtime, Untouched
    <2>3. CASE key' = n /\ tx' = [tx EXCEPT !.pc = "stamp"]
             /\ ram' = [ram EXCEPT !.key = n, !.cleanup = TRUE]
      <3>1. ram'.key = n /\ ram'.cleanup = TRUE /\ ram'.reload = FALSE /\ ram'.vin = ram.vin
            /\ ram'.safe = ram.safe /\ ram'.untrusted = ram.untrusted
            /\ ram'.vinPending = ram.vinPending
        BY <2>1, <2>3
      <3>2. KeyIsFlash' /\ ~Untouched' /\ Loaded' = Loaded /\ tx'.pc = "stamp"
        BY <1>1, <1>6, <2>3, <3>1 DEF KeyIsFlash, Untouched, Loaded
      <3>3. QED
        BY <1>6, <2>1, <2>2, <2>3, <3>1, <3>2 DEF Runtime, KeyIsFlash
    <2>4. CASE key' \in {key, n} /\ tx' = [tx EXCEPT !.pc = "flush"]
             /\ \E k \in {n, ram.key} : ram' = [ram EXCEPT !.reload = TRUE, !.key = k]
      <3>1. ram'.cleanup = FALSE /\ ram'.reload = TRUE /\ ram'.vin = ram.vin
            /\ ram'.safe = FALSE /\ ram'.untrusted = ram.untrusted
            /\ ram'.vinPending = ram.vinPending
        BY <2>2, <2>4
      <3>2. ~Committed' /\ ~Untouched' /\ Loaded' = Loaded
        BY <1>6, <2>4 DEF Committed, Untouched, Loaded
      <3>3. QED
        BY <1>6, <2>1, <2>2, <3>1, <3>2 DEF Runtime
    <2>5. QED
      BY <1>4, <2>3, <2>4
  <1>12. Rotation'
    <2>1. CASE key' = n /\ tx' = [tx EXCEPT !.pc = "stamp"]
             /\ ram' = [ram EXCEPT !.key = n, !.cleanup = TRUE]
      BY <1>2, <1>3, <1>6, <2>1 DEF Rotation, Unknown, Own, Me, LockOrder, Running, RecType,
         Records, Sessions, Erased, NoOwner, TxnType, Tasks
    <2>2. CASE key' \in {key, n} /\ tx' = [tx EXCEPT !.pc = "flush"]
             /\ \E k \in {n, ram.key} : ram' = [ram EXCEPT !.reload = TRUE, !.key = k]
      BY <1>2, <1>3, <1>6, <2>2 DEF Rotation, Unknown, Own, Me, LockOrder, Running, RecType,
         Records, Sessions, Erased, NoOwner, TxnType, Tasks
    <2>3. QED
      BY <1>4, <2>1, <2>2
  <1>13. Handshake'
    BY <1>2, <1>5, <1>6 DEF Handshake, NoOwner, TxnType
  <1>14. QED
    BY <1>7, <1>8, <1>9, <1>10, <1>11, <1>12, <1>13

\* TxFlush keeps IdentityInv.
LEMMA TxFlushKeeps ==
    ASSUME TypeOK, IdentityInv, TxFlush
    PROVE  IdentityInv'
  <1> USE DEF IdentityInv, TypeOK, PcType, RamType, TxType, TxFlush, Finished, durable, NoOwner
  <1>1. LockOrder'
    BY DEF LockOrder, Running, Tasks
  <1>2. Flash'
    BY DEF Flash, Own, RecType, Sessions, Records, TxnType
  <1>3. Transition'
    BY DEF Transition, Untouched, Committed, TxnType, ReqType
  <1>4. Booting'
    BY DEF Booting, RecType, Sessions, Records, Erased, TxnType
  <1>5. Runtime'
    BY DEF Runtime, Loaded, KeyIsFlash, Untouched, Committed, Me, RecType, Records, TxnType
  <1>6. Rotation'
    BY DEF Rotation, Unknown, Own, Me, RecType, Records, Sessions, Erased, TxnType
  <1>7. Handshake'
    BY DEF Handshake, TxnType
  <1>8. QED
    BY <1>1, <1>2, <1>3, <1>4, <1>5, <1>6, <1>7

\* TxStamp keeps IdentityInv.
LEMMA TxStampKeeps ==
    ASSUME TypeOK, IdentityInv, TxStamp
    PROVE  IdentityInv'
  <1> USE DEF IdentityInv, TypeOK, PcType, RamType, TxType
  <1>1. \/ /\ tx' = [tx EXCEPT !.pc = "retire"]
           /\ ram' \in {ram, [ram EXCEPT !.untrusted = ram.untrusted]}
           /\ rec' \in {rec, [rec EXCEPT !["key_created"] = Me]}
        \/ /\ tx' = [tx EXCEPT !.pc = "reset"] /\ ram' = [ram EXCEPT !.untrusted = FALSE]
           /\ rec' = [rec EXCEPT !["key_created"] = Me]
    <2>1. CASE tx' = [tx EXCEPT !.pc = "retire"] /\ UNCHANGED <<rec, ram>>
      BY <2>1
    <2>2. ASSUME NEW w \in Writes,
                 rec' = [rec EXCEPT !["key_created"] = Put(@, Me, w)],
                 tx' = [tx EXCEPT !.pc = IF w.ok THEN "reset" ELSE "retire"],
                 ram' = [ram EXCEPT !.untrusted = IF w.ok THEN FALSE ELSE @]
          PROVE  <1>1!:
      <3>1. rec' \in {rec, [rec EXCEPT !["key_created"] = Me]}
        BY <2>2 DEF Put, RecType
      <3>2. CASE w.ok
        BY <2>2, <3>2, WriteOutcomes DEF Put
      <3>3. CASE ~w.ok
        BY <2>2, <3>1, <3>3
      <3>4. QED
        BY <3>2, <3>3
    <2>3. QED
      BY <2>1, <2>2 DEF TxStamp
  <1>2. tx.pc = "stamp"
    BY DEF TxStamp
  <1>3. UNCHANGED <<key, rot, vin, txn, pc, handshake, lock, lease, req, madeFor>>
    BY DEF TxStamp
  <1>4. LockOrder'
    BY <1>1, <1>2, <1>3 DEF LockOrder, Running, Flash, Own, Transition, Untouched, Committed,
       Booting, Runtime, Loaded, KeyIsFlash, Me, Rotation, Unknown, Handshake, Tasks, NoOwner,
       RecType, Sessions, Records, TxnType, ReqType, Erased
  <1>5. Flash'
    BY <1>1, <1>2, <1>3 DEF LockOrder, Running, Flash, Own, Transition, Untouched, Committed,
       Booting, Runtime, Loaded, KeyIsFlash, Me, Rotation, Unknown, Handshake, Tasks, NoOwner,
       RecType, Sessions, Records, TxnType, ReqType, Erased
  <1>6. Transition'
    BY <1>1, <1>2, <1>3 DEF LockOrder, Running, Flash, Own, Transition, Untouched, Committed,
       Booting, Runtime, Loaded, KeyIsFlash, Me, Rotation, Unknown, Handshake, Tasks, NoOwner,
       RecType, Sessions, Records, TxnType, ReqType, Erased
  <1>7. Booting'
    BY <1>1, <1>2, <1>3 DEF LockOrder, Running, Flash, Own, Transition, Untouched, Committed,
       Booting, Runtime, Loaded, KeyIsFlash, Me, Rotation, Unknown, Handshake, Tasks, NoOwner,
       RecType, Sessions, Records, TxnType, ReqType, Erased
  <1>8. Runtime'
    BY <1>1, <1>2, <1>3 DEF LockOrder, Running, Flash, Own, Transition, Untouched, Committed,
       Booting, Runtime, Loaded, KeyIsFlash, Me, Rotation, Unknown, Handshake, Tasks, NoOwner,
       RecType, Sessions, Records, TxnType, ReqType, Erased
  <1>9. Rotation'
    BY <1>1, <1>2, <1>3 DEF LockOrder, Running, Flash, Own, Transition, Untouched, Committed,
       Booting, Runtime, Loaded, KeyIsFlash, Me, Rotation, Unknown, Handshake, Tasks, NoOwner,
       RecType, Sessions, Records, TxnType, ReqType, Erased
  <1>10. Handshake'
    BY <1>1, <1>2, <1>3 DEF LockOrder, Running, Flash, Own, Transition, Untouched, Committed,
       Booting, Runtime, Loaded, KeyIsFlash, Me, Rotation, Unknown, Handshake, Tasks, NoOwner,
       RecType, Sessions, Records, TxnType, ReqType, Erased
  <1>11. QED
    BY <1>4, <1>5, <1>6, <1>7, <1>8, <1>9, <1>10

\* TxRetire keeps IdentityInv.
LEMMA TxRetireKeeps ==
    ASSUME TypeOK, IdentityInv, TxRetire
    PROVE  IdentityInv'
  <1> USE DEF IdentityInv, TypeOK, PcType, RamType, TxType, TxRetire, Put, NoOwner
  <1>1. LockOrder'
    BY WriteOutcomes DEF LockOrder, Running, Tasks
  <1>2. Flash'
    BY WriteOutcomes DEF Flash, Own, RecType, Sessions, Records, TxnType
  <1>3. Transition'
    BY WriteOutcomes DEF Transition, Untouched, Committed, TxnType, ReqType
  <1>4. Booting'
    BY WriteOutcomes DEF Booting, LockOrder, Running, RecType, Sessions, Records, Erased,
       TxnType, Tasks
  <1>5. Runtime'
    BY WriteOutcomes DEF LockOrder, Running, Flash, Own, Transition, Untouched, Committed,
       Booting, Runtime, Loaded, KeyIsFlash, Me, Rotation, Unknown, Handshake, Tasks, RecType,
       Sessions, Records, TxnType, ReqType, Erased
  <1>6. Rotation'
    BY WriteOutcomes DEF Rotation, Unknown, Own, Me, RecType, Records, Sessions, Erased, TxnType
  <1>7. Handshake'
    BY WriteOutcomes DEF Handshake, TxnType
  <1>8. QED
    BY <1>1, <1>2, <1>3, <1>4, <1>5, <1>6, <1>7

\* TxReset keeps IdentityInv.
LEMMA TxResetKeeps ==
    ASSUME TypeOK, IdentityInv, TxReset
    PROVE  IdentityInv'
  <1> USE DEF IdentityInv, TypeOK, PcType, RamType, TxType, TxReset, durable, NoOwner
  <1>1. LockOrder'
    BY ReadOutcomes DEF LockOrder, Running, Tasks
  <1>2. Flash'
    BY ReadOutcomes DEF Flash, Own, RecType, Sessions, Records, TxnType
  <1>3. Transition'
    BY ReadOutcomes DEF Transition, Untouched, Committed, TxnType, ReqType
  <1>4. Booting'
    BY ReadOutcomes DEF Booting, RecType, Sessions, Records, Erased, TxnType
  <1>5. Runtime'
    BY ReadOutcomes DEF Runtime, Loaded, KeyIsFlash, Untouched, Committed, Me, RecType, Records,
       TxnType
  <1>6. Rotation'
    BY ReadOutcomes DEF Rotation, Unknown, Own, Me, RecType, Records, Sessions, Erased, TxnType
  <1>7. Handshake'
    BY ReadOutcomes DEF Handshake, TxnType
  <1>8. QED
    BY <1>1, <1>2, <1>3, <1>4, <1>5, <1>6, <1>7

\* TxErase keeps IdentityInv.
LEMMA TxEraseKeeps ==
    ASSUME TypeOK, IdentityInv, TxErase
    PROVE  IdentityInv'
  <1> USE DEF IdentityInv, TypeOK, PcType, RamType, TxType, TxErase, Put, NoOwner
  <1>1. LockOrder'
    BY WriteOutcomes DEF LockOrder, Running, Tasks
  <1>2. Flash'
    BY WriteOutcomes DEF Flash, Own, RecType, Sessions, Records, TxnType
  <1>3. Transition'
    BY WriteOutcomes DEF Transition, Untouched, Committed, TxnType, ReqType
  <1>4. Booting'
    BY WriteOutcomes DEF Booting, LockOrder, Running, RecType, Sessions, Records, Erased,
       TxnType, Tasks
  <1>5. Runtime'
    BY WriteOutcomes DEF Runtime, Loaded, KeyIsFlash, Untouched, Committed, Me, RecType,
       Records, TxnType
  <1>6. Rotation'
    BY WriteOutcomes DEF LockOrder, Running, Flash, Own, Transition, Untouched, Committed,
       Booting, Runtime, Loaded, KeyIsFlash, Me, Rotation, Unknown, Handshake, Tasks, RecType,
       Sessions, Records, TxnType, ReqType, Erased
  <1>7. Handshake'
    BY WriteOutcomes DEF Handshake, TxnType
  <1>8. QED
    BY <1>1, <1>2, <1>3, <1>4, <1>5, <1>6, <1>7

\* TxDate keeps IdentityInv.
LEMMA TxDateKeeps ==
    ASSUME TypeOK, IdentityInv, TxDate
    PROVE  IdentityInv'
  <1> USE DEF IdentityInv, TypeOK, PcType, RamType, TxType
  <1>1. \/ /\ tx' = [tx EXCEPT !.pc = "journal"] /\ ram' = [ram EXCEPT !.untrusted = FALSE]
           /\ rec' = [rec EXCEPT !["key_created"] = NoOwner]
        \/ /\ tx' = [tx EXCEPT !.pc = "journal"] /\ ~ram.untrusted /\ UNCHANGED <<rec, ram>>
        \/ /\ tx' = [tx EXCEPT !.pc = "done"] /\ ram' = [ram EXCEPT !.untrusted = TRUE]
           /\ rec' \in {rec, [rec EXCEPT !["key_created"] = NoOwner]} /\ ram.untrusted
    <2>1. CASE ~ram.untrusted
      BY <2>1 DEF TxDate
    <2>2. ASSUME ram.untrusted, NEW w \in Writes,
                 rec' = [rec EXCEPT !["key_created"] = Put(@, NoOwner, w)],
                 ram' = [ram EXCEPT !.untrusted = ~w.ok],
                 tx' = [tx EXCEPT !.pc = IF w.ok THEN "journal" ELSE "done"]
          PROVE  <1>1!:
      <3>1. rec' \in {rec, [rec EXCEPT !["key_created"] = NoOwner]}
        BY <2>2 DEF Put, RecType
      <3>2. CASE w.ok
        BY <2>2, <3>2, WriteOutcomes DEF Put
      <3>3. CASE ~w.ok
        BY <2>2, <3>1, <3>3
      <3>4. QED
        BY <3>2, <3>3
    <2>3. QED
      BY <2>1, <2>2 DEF TxDate
  <1>2. tx.pc = "date"
    BY DEF TxDate
  <1>3. UNCHANGED <<key, rot, vin, txn, pc, handshake, lock, lease, req, madeFor>>
    BY DEF TxDate
  <1>4. LockOrder'
    BY <1>1, <1>2, <1>3 DEF LockOrder, Running, Flash, Own, Transition, Untouched, Committed,
       Booting, Runtime, Loaded, KeyIsFlash, Me, Rotation, Unknown, Handshake, Tasks, NoOwner,
       RecType, Sessions, Records, TxnType, ReqType, Erased
  <1>5. Flash'
    BY <1>1, <1>2, <1>3 DEF LockOrder, Running, Flash, Own, Transition, Untouched, Committed,
       Booting, Runtime, Loaded, KeyIsFlash, Me, Rotation, Unknown, Handshake, Tasks, NoOwner,
       RecType, Sessions, Records, TxnType, ReqType, Erased
  <1>6. Transition'
    BY <1>1, <1>2, <1>3 DEF LockOrder, Running, Flash, Own, Transition, Untouched, Committed,
       Booting, Runtime, Loaded, KeyIsFlash, Me, Rotation, Unknown, Handshake, Tasks, NoOwner,
       RecType, Sessions, Records, TxnType, ReqType, Erased
  <1>7. Booting'
    BY <1>1, <1>2, <1>3 DEF LockOrder, Running, Flash, Own, Transition, Untouched, Committed,
       Booting, Runtime, Loaded, KeyIsFlash, Me, Rotation, Unknown, Handshake, Tasks, NoOwner,
       RecType, Sessions, Records, TxnType, ReqType, Erased
  <1>8. Runtime'
    BY <1>1, <1>2, <1>3 DEF LockOrder, Running, Flash, Own, Transition, Untouched, Committed,
       Booting, Runtime, Loaded, KeyIsFlash, Me, Rotation, Unknown, Handshake, Tasks, NoOwner,
       RecType, Sessions, Records, TxnType, ReqType, Erased
  <1>9. Rotation'
    BY <1>1, <1>2, <1>3 DEF LockOrder, Running, Flash, Own, Transition, Untouched, Committed,
       Booting, Runtime, Loaded, KeyIsFlash, Me, Rotation, Unknown, Handshake, Tasks, NoOwner,
       RecType, Sessions, Records, TxnType, ReqType, Erased
  <1>10. Handshake'
    BY <1>1, <1>2, <1>3 DEF LockOrder, Running, Flash, Own, Transition, Untouched, Committed,
       Booting, Runtime, Loaded, KeyIsFlash, Me, Rotation, Unknown, Handshake, Tasks, NoOwner,
       RecType, Sessions, Records, TxnType, ReqType, Erased
  <1>11. QED
    BY <1>4, <1>5, <1>6, <1>7, <1>8, <1>9, <1>10

\* TxJournal keeps IdentityInv.
LEMMA TxJournalKeeps ==
    ASSUME TypeOK, IdentityInv, TxJournal
    PROVE  IdentityInv'
  <1> USE DEF IdentityInv, TypeOK, PcType, RamType, TxType, TxJournal, Finished, Put
  <1>1. LockOrder'
    BY WriteOutcomes DEF LockOrder, Running, Tasks
  <1>2. Flash'
    BY WriteOutcomes DEF Flash, Own, LockOrder, Running, Runtime, Loaded, KeyIsFlash, Untouched,
       Committed, Me, Rotation, Unknown, NoOwner, RecType, Sessions, Records, TxnType, Tasks,
       Erased
  <1>3. Transition'
    BY WriteOutcomes DEF Transition, Untouched, Committed, TxnType, ReqType
  <1>4. Booting'
    <2>1. pc.boot \in {"generate", "run"}
      BY DEF LockOrder, Running, Tasks
    <2>2. UNCHANGED <<handshake, txn, rec, pc>> /\ ram'.vinPending = ram.vinPending
      OBVIOUS
    <2>3. QED
      BY <2>1, <2>2 DEF Booting
  <1>5. Runtime'
    BY WriteOutcomes DEF Runtime, Loaded, KeyIsFlash, Untouched, Committed, Me, LockOrder,
       Running, Rotation, Unknown, Own, RecType, Records, NoOwner, TxnType, Tasks, Sessions,
       Erased
  <1>6. Rotation'
    BY WriteOutcomes DEF Rotation, Unknown, Own, Me, RecType, Records, Sessions, Erased,
       NoOwner, TxnType
  <1>7. Handshake'
    BY WriteOutcomes DEF Handshake, NoOwner, TxnType
  <1>8. QED
    BY <1>1, <1>2, <1>3, <1>4, <1>5, <1>6, <1>7

\* BootJournal keeps IdentityInv.
LEMMA BootJournalKeeps ==
    ASSUME TypeOK, IdentityInv, BootJournal
    PROVE  IdentityInv'
  <1> USE DEF IdentityInv, TypeOK, PcType, RamType, TxType, BootJournal, Goto, durable
  <1>1. LockOrder'
    BY ReadOutcomes DEF LockOrder, Running, Tasks
  <1>2. Flash'
    BY ReadOutcomes DEF Flash, Own, NoOwner, RecType, Sessions, Records, TxnType
  <1>3. Transition'
    BY ReadOutcomes DEF Transition, Untouched, Committed, TxnType, ReqType
  <1>4. Booting'
    BY ReadOutcomes DEF Booting, NoOwner, RecType, Sessions, Records, Erased, TxnType
  <1>5. Runtime'
    BY ReadOutcomes DEF Runtime, Loaded, KeyIsFlash, Untouched, Committed, Me, RecType, Records,
       NoOwner, TxnType
  <1>6. Rotation'
    BY ReadOutcomes DEF Rotation, Unknown, Own, Me, RecType, Records, Sessions, Erased, NoOwner,
       TxnType
  <1>7. Handshake'
    BY ReadOutcomes DEF Handshake, NoOwner, TxnType
  <1>8. QED
    BY <1>1, <1>2, <1>3, <1>4, <1>5, <1>6, <1>7

\* BootMarker keeps IdentityInv.
LEMMA BootMarkerKeeps ==
    ASSUME TypeOK, IdentityInv, BootMarker
    PROVE  IdentityInv'
  <1> USE DEF IdentityInv, TypeOK, PcType, RamType, TxType, BootMarker, Goto, durable, IdleTx
  <1>1. LockOrder'
    BY ReadOutcomes DEF LockOrder, Running, Tasks
  <1>2. Flash'
    BY ReadOutcomes DEF Flash, Own, NoOwner, RecType, Sessions, Records, TxnType
  <1>3. Transition'
    BY ReadOutcomes DEF Transition, Untouched, Committed, LockOrder, Running, TxnType, ReqType,
       Tasks
  <1>4. Booting'
    BY ReadOutcomes DEF Booting, NoOwner, RecType, Sessions, Records, Erased, TxnType
  <1>5. Runtime'
    BY ReadOutcomes DEF Runtime, Loaded, KeyIsFlash, Untouched, Committed, Me, LockOrder,
       Running, RecType, Records, NoOwner, TxnType, Tasks
  <1>6. Rotation'
    BY ReadOutcomes DEF Rotation, Unknown, Own, Me, RecType, Records, Sessions, Erased, NoOwner,
       TxnType
  <1>7. Handshake'
    BY ReadOutcomes DEF Handshake, NoOwner, TxnType
  <1>8. QED
    BY <1>1, <1>2, <1>3, <1>4, <1>5, <1>6, <1>7

\* BootErase keeps IdentityInv.
LEMMA BootEraseKeeps ==
    ASSUME TypeOK, IdentityInv, BootErase
    PROVE  IdentityInv'
  <1> USE DEF IdentityInv, TypeOK, PcType, RamType, TxType, BootErase, Goto, Put, NoOwner
  <1>1. LockOrder'
    BY WriteOutcomes DEF LockOrder, Running, Tasks
  <1>2. Flash'
    BY WriteOutcomes DEF Flash, Own, RecType, Sessions, Records, TxnType
  <1>3. Transition'
    BY WriteOutcomes DEF Transition, Untouched, Committed, TxnType, ReqType
  <1>4. Booting'
    BY WriteOutcomes DEF LockOrder, Running, Flash, Own, Transition, Untouched, Committed,
       Booting, Runtime, Loaded, KeyIsFlash, Me, Rotation, Unknown, Handshake, Tasks, RecType,
       Sessions, Records, TxnType, ReqType, Erased
  <1>5. Runtime'
    BY WriteOutcomes DEF Runtime, Loaded, KeyIsFlash, Untouched, Committed, Me, RecType,
       Records, TxnType
  <1>6. Rotation'
    BY WriteOutcomes DEF Rotation, Unknown, Own, Me, LockOrder, Running, RecType, Records,
       Sessions, Erased, TxnType, Tasks
  <1>7. Handshake'
    BY WriteOutcomes DEF Handshake, TxnType
  <1>8. QED
    BY <1>1, <1>2, <1>3, <1>4, <1>5, <1>6, <1>7

\* BootUnmark keeps IdentityInv.
LEMMA BootUnmarkKeeps ==
    ASSUME TypeOK, IdentityInv, BootUnmark
    PROVE  IdentityInv'
  <1> USE DEF IdentityInv, TypeOK, PcType, RamType, TxType, BootUnmark, Goto, Put
  <1>1. LockOrder'
    BY WriteOutcomes DEF LockOrder, Running, Tasks
  <1>2. Flash'
    BY WriteOutcomes DEF Flash, Own, LockOrder, Running, Booting, NoOwner, RecType, Sessions,
       Records, TxnType, Tasks, Erased
  <1>3. Transition'
    BY WriteOutcomes DEF Transition, Untouched, Committed, TxnType, ReqType
  <1>4. Booting'
    BY WriteOutcomes DEF LockOrder, Running, Flash, Own, Transition, Untouched, Committed,
       Booting, Runtime, Loaded, KeyIsFlash, Me, Rotation, Unknown, Handshake, Tasks, NoOwner,
       RecType, Sessions, Records, TxnType, ReqType, Erased
  <1>5. Runtime'
    BY WriteOutcomes DEF Runtime, Loaded, KeyIsFlash, Untouched, Committed, Me, LockOrder,
       Running, RecType, Records, NoOwner, TxnType, Tasks
  <1>6. Rotation'
    BY WriteOutcomes DEF Rotation, Unknown, Own, Me, LockOrder, Running, RecType, Records,
       Sessions, Erased, NoOwner, TxnType, Tasks
  <1>7. Handshake'
    BY WriteOutcomes DEF Handshake, NoOwner, TxnType
  <1>8. QED
    BY <1>1, <1>2, <1>3, <1>4, <1>5, <1>6, <1>7

\* BootLoad keeps IdentityInv.
LEMMA BootLoadKeeps ==
    ASSUME TypeOK, IdentityInv, BootLoad
    PROVE  IdentityInv'
  <1> USE DEF IdentityInv, TypeOK, PcType, RamType, TxType
  <1>1. pc.boot = "load" /\ UNCHANGED <<key, rec, rot, vin, txn, handshake, lock, lease, tx, req,
     madeFor>>
    BY DEF BootLoad, durable
  <1>2. \A r \in Sessions : Own(rec[r])
    BY <1>1 DEF Booting, Flash
  <1>3. \/ pc' = [pc EXCEPT !.boot = "halted"] /\ UNCHANGED ram
        \/ /\ pc' = [pc EXCEPT !.boot = IF txn.armed THEN "evidence" ELSE "key"]
           /\ \E k \in {0, key}, S \in SUBSET Owners :
                 /\ ram' = [ram EXCEPT !.key = k, !.vin = vin, !.safe = k # 0, !.sessions = S]
                 /\ k = 0 => S = {}
                 /\ \A o \in S : o # NoOwner /\ Own(o)
    <2>1. CASE pc' = [pc EXCEPT !.boot = "halted"] /\ UNCHANGED ram
      BY <2>1
    <2>2. ASSUME NEW good \in (IF key = 0 THEN {TRUE} ELSE Reads),
                 NEW kept \in SUBSET {rec[r] : r \in Sessions},
                 ram' = [ram EXCEPT !.key = (IF good THEN key ELSE 0), !.vin = vin,
                           !.safe = (IF good THEN key ELSE 0) # 0,
                           !.sessions = IF (IF good THEN key ELSE 0) = 0 THEN {}
                                        ELSE kept \ {NoOwner}],
                 pc' = [pc EXCEPT !.boot = IF txn.armed THEN "evidence" ELSE "key"]
          PROVE  <1>3!2
      <3> DEFINE k == IF good THEN key ELSE 0
                 S == IF k = 0 THEN {} ELSE kept \ {NoOwner}
      <3>1. k \in {0, key}
        OBVIOUS
      <3>2. S \in SUBSET Owners
        BY <2>2, LoadedSessions
      <3>3. \A o \in kept : \E r \in Sessions : o = rec[r]
        BY <2>2
      <3>4. \A o \in S : o # NoOwner /\ Own(o)
        BY <1>2, <3>3
      <3>5. ram' = [ram EXCEPT !.key = k, !.vin = vin, !.safe = k # 0, !.sessions = S]
        BY <2>2
      <3> HIDE DEF k
      <3>6. k = 0 => S = {}
        OBVIOUS
      <3> HIDE DEF S
      <3>7. QED
        BY <2>2, <3>1, <3>2, <3>4, <3>5, <3>6
    <2>3. QED
      BY <2>1, <2>2 DEF BootLoad, Halt, Goto
  <1>4. pc'.boot \in {"halted", "evidence", "key"} /\ pc'.http = pc.http /\ pc'.auto = pc.auto
        /\ (pc'.boot = "evidence" => txn.armed) /\ (pc'.boot = "key" => ~txn.armed)
    BY <1>3
  <1>5. ~rot /\ ~ram.cleanup /\ ~ram.reload /\ ~ram.untrusted /\ handshake = NoOwner
    BY <1>1 DEF Booting
  <1>6. /\ ram'.cleanup = ram.cleanup /\ ram'.reload = ram.reload
        /\ ram'.untrusted = ram.untrusted /\ ram'.vinPending = ram.vinPending
    BY <1>3
  <1>7. pc'.boot # "halted" =>
          /\ ram'.key \in {0, key} /\ ram'.vin = vin /\ ram'.safe = (ram'.key # 0)
          /\ ram'.key = 0 => ram'.sessions = {}
          /\ \A o \in ram'.sessions : o # NoOwner /\ Own(o)
    BY <1>3
  <1>8. ~ram.vinPending /\ lock = "free" /\ tx.pc = "none" /\ pc.http = "idle" /\ pc.auto = "idle"
    BY <1>1 DEF LockOrder, Running, Tasks
  <1>9. LockOrder'
    BY <1>1, <1>3 DEF LockOrder, Running, Tasks
  <1>10. Flash'
    BY <1>1 DEF Flash, Own, NoOwner, RecType, Sessions, Records, TxnType
  <1>11. Transition'
    BY <1>1, <1>2, <1>3, <1>4, <1>5, <1>6, <1>7, <1>8 DEF LockOrder, Running, Flash, Own,
       Transition, Untouched, Committed, Booting, Runtime, Loaded, KeyIsFlash, Me, Rotation,
       Unknown, Handshake, Tasks, NoOwner, RecType, Sessions, Records, TxnType, ReqType, Erased
  <1>12. Booting'
    <2>1. pc'.boot = "evidence" => ram'.sessions \subseteq {[vin |-> txn.vin, key |-> txn.key]}
      BY <1>4, <1>7 DEF Own
    <2>2. QED
      BY <1>1, <1>4, <1>5, <1>6, <1>7, <1>8, <2>1 DEF Booting
  <1>13. Runtime'
    <2>1. pc'.boot = "key" => ram'.sessions \subseteq {Me}'
      BY <1>1, <1>4, <1>7 DEF Own, Me
    <2>2. ~Committed' /\ ~Untouched'
      BY <1>1, <1>8 DEF Committed, Untouched
    <2>3. Loaded' <=> pc'.boot = "key"
      BY <1>4 DEF Loaded
    <2>4. rec["key_created"].key \in {0, key}
      BY <1>5 DEF Flash
    <2>5. QED
      BY <1>1, <1>4, <1>5, <1>6, <1>7, <1>8, <2>1, <2>2, <2>3, <2>4 DEF Runtime, KeyIsFlash
  <1>14. Rotation'
    BY <1>1, <1>2, <1>3, <1>4, <1>5, <1>6, <1>7, <1>8 DEF LockOrder, Running, Flash, Own,
       Transition, Untouched, Committed, Booting, Runtime, Loaded, KeyIsFlash, Me, Rotation,
       Unknown, Handshake, Tasks, NoOwner, RecType, Sessions, Records, TxnType, ReqType, Erased
  <1>15. Handshake'
    BY <1>1, <1>2, <1>3, <1>4, <1>5, <1>6, <1>7, <1>8 DEF LockOrder, Running, Flash, Own,
       Transition, Untouched, Committed, Booting, Runtime, Loaded, KeyIsFlash, Me, Rotation,
       Unknown, Handshake, Tasks, NoOwner, RecType, Sessions, Records, TxnType, ReqType, Erased
  <1>16. QED
    BY <1>9, <1>10, <1>11, <1>12, <1>13, <1>14, <1>15

\* BootEvidence keeps IdentityInv.
LEMMA BootEvidenceKeeps ==
    ASSUME TypeOK, IdentityInv, BootEvidence
    PROVE  IdentityInv'
  <1> USE DEF IdentityInv, TypeOK, PcType, RamType, TxType, BootEvidence, Goto, Recovery,
      durable, IdleTx
  <1>1. LockOrder'
    BY ReadOutcomes DEF LockOrder, Running, Tasks
  <1>2. Flash'
    BY ReadOutcomes DEF Flash, Own, NoOwner, RecType, Sessions, Records, TxnType
  <1>3. Transition'
    BY ReadOutcomes DEF Transition, Untouched, Committed, LockOrder, Running, TxnType, ReqType,
       Tasks
  <1>4. Booting'
    BY ReadOutcomes DEF LockOrder, Running, Flash, Own, Transition, Untouched, Committed,
       Booting, Runtime, Loaded, KeyIsFlash, Me, Rotation, Unknown, Handshake, Tasks, NoOwner,
       RecType, Sessions, Records, TxnType, ReqType, Erased
  <1>5. Runtime'
    BY ReadOutcomes DEF Runtime, Loaded, KeyIsFlash, Untouched, Committed, Me, RecType, Records,
       NoOwner, TxnType
  <1>6. Rotation'
    BY ReadOutcomes DEF Rotation, Unknown, Own, Me, RecType, Records, Sessions, Erased, NoOwner,
       TxnType
  <1>7. Handshake'
    BY ReadOutcomes DEF Handshake, NoOwner, TxnType
  <1>8. QED
    BY <1>1, <1>2, <1>3, <1>4, <1>5, <1>6, <1>7

\* BootRollback keeps IdentityInv.
LEMMA BootRollbackKeeps ==
    ASSUME TypeOK, IdentityInv, BootRollback
    PROVE  IdentityInv'
  <1> USE DEF IdentityInv, TypeOK, PcType, RamType, TxType, BootRollback, Goto, Put
  <1>1. LockOrder'
    BY WriteOutcomes DEF LockOrder, Running, Tasks
  <1>2. Flash'
    BY WriteOutcomes DEF Flash, Own, LockOrder, Running, Booting, NoOwner, RecType, Sessions,
       Records, TxnType, Tasks, Erased
  <1>3. Transition'
    BY WriteOutcomes DEF Transition, Untouched, Committed, LockOrder, Running, TxnType, ReqType,
       Tasks
  <1>4. Booting'
    BY WriteOutcomes DEF LockOrder, Running, Flash, Own, Transition, Untouched, Committed,
       Booting, Runtime, Loaded, KeyIsFlash, Me, Rotation, Unknown, Handshake, Tasks, NoOwner,
       RecType, Sessions, Records, TxnType, ReqType, Erased
  <1>5. Runtime'
    BY WriteOutcomes DEF Runtime, Loaded, KeyIsFlash, Untouched, Committed, Me, RecType,
       Records, NoOwner, TxnType
  <1>6. Rotation'
    BY WriteOutcomes DEF Rotation, Unknown, Own, Me, LockOrder, Running, RecType, Records,
       Sessions, Erased, NoOwner, TxnType, Tasks
  <1>7. Handshake'
    BY WriteOutcomes DEF Handshake, LockOrder, Running, Booting, NoOwner, TxnType, Tasks,
       RecType, Sessions, Records, Erased
  <1>8. QED
    BY <1>1, <1>2, <1>3, <1>4, <1>5, <1>6, <1>7

\* BootComplete keeps IdentityInv.
LEMMA BootCompleteKeeps ==
    ASSUME TypeOK, IdentityInv, BootComplete
    PROVE  IdentityInv'
  <1> USE DEF IdentityInv, TypeOK, PcType, RamType, TxType, BootComplete, Goto, Put, NoOwner
  <1>1. LockOrder'
    BY WriteOutcomes DEF LockOrder, Running, Tasks
  <1>2. Flash'
    BY WriteOutcomes DEF Flash, Own, RecType, Sessions, Records, TxnType
  <1>3. Transition'
    BY WriteOutcomes DEF Transition, Untouched, Committed, TxnType, ReqType
  <1>4. Booting'
    BY WriteOutcomes DEF Booting, RecType, Sessions, Records, Erased, TxnType
  <1>5. Runtime'
    BY WriteOutcomes DEF Runtime, Loaded, KeyIsFlash, Untouched, Committed, Me, RecType,
       Records, TxnType
  <1>6. Rotation'
    BY WriteOutcomes DEF Rotation, Unknown, Own, Me, LockOrder, Running, RecType, Records,
       Sessions, Erased, TxnType, Tasks
  <1>7. Handshake'
    BY WriteOutcomes DEF Handshake, TxnType
  <1>8. QED
    BY <1>1, <1>2, <1>3, <1>4, <1>5, <1>6, <1>7

\* BootClear keeps IdentityInv.
LEMMA BootClearKeeps ==
    ASSUME TypeOK, IdentityInv, BootClear
    PROVE  IdentityInv'
  <1> USE DEF IdentityInv, TypeOK, PcType, RamType, TxType, BootClear, Goto, PowerUp, Put,
      NoTxn, BlankRam, IdleTx, NoReq, NoOwner
  <1>1. LockOrder'
    BY WriteOutcomes DEF LockOrder, Running, Tasks
  <1>2. Flash'
    BY WriteOutcomes DEF Flash, Own, LockOrder, Running, Booting, RecType, Sessions, Records,
       TxnType, Tasks, Erased
  <1>3. Transition'
    BY WriteOutcomes DEF Transition, Untouched, Committed, LockOrder, Running, TxnType, ReqType,
       Tasks
  <1>4. Booting'
    BY WriteOutcomes DEF LockOrder, Running, Flash, Own, Transition, Untouched, Committed,
       Booting, Runtime, Loaded, KeyIsFlash, Me, Rotation, Unknown, Handshake, Tasks, RecType,
       Sessions, Records, TxnType, ReqType, Erased
  <1>5. Runtime'
    BY WriteOutcomes DEF LockOrder, Running, Flash, Own, Transition, Untouched, Committed,
       Booting, Runtime, Loaded, KeyIsFlash, Me, Rotation, Unknown, Handshake, Tasks, RecType,
       Sessions, Records, TxnType, ReqType, Erased
  <1>6. Rotation'
    BY WriteOutcomes DEF Rotation, Unknown, Own, Me, LockOrder, Running, RecType, Records,
       Sessions, Erased, TxnType, Tasks
  <1>7. Handshake'
    BY WriteOutcomes DEF Handshake, LockOrder, Running, Booting, TxnType, Tasks, RecType,
       Sessions, Records, Erased
  <1>8. QED
    BY <1>1, <1>2, <1>3, <1>4, <1>5, <1>6, <1>7

\* BootKey keeps IdentityInv.
LEMMA BootKeyKeeps ==
    ASSUME TypeOK, IdentityInv, BootKey
    PROVE  IdentityInv'
  <1> USE DEF IdentityInv, TypeOK, PcType, RamType, TxType, BootKey, Goto, Halt, StartTx,
      durable, IdleTx
  <1>1. LockOrder'
    BY ReadOutcomes DEF LockOrder, Running, Tasks
  <1>2. Flash'
    BY ReadOutcomes DEF Flash, Own, NoOwner, RecType, Sessions, Records, TxnType
  <1>3. Transition'
    BY ReadOutcomes DEF Transition, Untouched, Committed, LockOrder, Running, TxnType, ReqType,
       Tasks
  <1>4. Booting'
    BY ReadOutcomes DEF Booting, NoOwner, RecType, Sessions, Records, Erased, TxnType
  <1>5. Runtime'
    BY ReadOutcomes DEF Runtime, Loaded, KeyIsFlash, Untouched, Committed, Me, LockOrder,
       Running, Booting, RecType, Records, NoOwner, TxnType, Tasks, Sessions, Erased
  <1>6. Rotation'
    BY ReadOutcomes DEF Rotation, Unknown, Own, Me, RecType, Records, Sessions, Erased, NoOwner,
       TxnType
  <1>7. Handshake'
    BY ReadOutcomes DEF Handshake, NoOwner, TxnType
  <1>8. QED
    BY <1>1, <1>2, <1>3, <1>4, <1>5, <1>6, <1>7

\* BootGenerated keeps IdentityInv.
LEMMA BootGeneratedKeeps ==
    ASSUME TypeOK, IdentityInv, BootGenerated
    PROVE  IdentityInv'
  <1> USE DEF IdentityInv, TypeOK, PcType, RamType, TxType, BootGenerated, Goto, PowerUp,
      durable, IdleTx, BlankRam, NoReq, NoOwner
  <1>1. LockOrder'
    BY DEF LockOrder, Running, Tasks
  <1>2. Flash'
    BY DEF Flash, Own, RecType, Sessions, Records, TxnType
  <1>3. Transition'
    BY DEF Transition, Untouched, Committed, LockOrder, Running, TxnType, ReqType, Tasks
  <1>4. Booting'
    BY DEF Booting, RecType, Sessions, Records, Erased, TxnType
  <1>5. Runtime'
    BY DEF Runtime, Loaded, KeyIsFlash, Untouched, Committed, Me, RecType, Records, TxnType
  <1>6. Rotation'
    BY DEF Rotation, Unknown, Own, Me, RecType, Records, Sessions, Erased, TxnType
  <1>7. Handshake'
    BY DEF Handshake, TxnType
  <1>8. QED
    BY <1>1, <1>2, <1>3, <1>4, <1>5, <1>6, <1>7

\* HttpGenerated keeps IdentityInv.
LEMMA HttpGeneratedKeeps ==
    ASSUME TypeOK, IdentityInv, HttpGenerated
    PROVE  IdentityInv'
  <1> USE DEF IdentityInv, TypeOK, PcType, RamType, TxType, HttpGenerated, Http, Release,
      durable, IdleTx
  <1>1. LockOrder'
    BY DEF LockOrder, Running, Tasks
  <1>2. Flash'
    BY DEF Flash, Own, NoOwner, RecType, Sessions, Records, TxnType
  <1>3. Transition'
    BY DEF Transition, Untouched, Committed, TxnType, ReqType
  <1>4. Booting'
    BY DEF Booting, NoOwner, RecType, Sessions, Records, Erased, TxnType
  <1>5. Runtime'
    BY DEF Runtime, Loaded, KeyIsFlash, Untouched, Committed, Me, RecType, Records, NoOwner,
       TxnType
  <1>6. Rotation'
    BY DEF Rotation, Unknown, Own, Me, RecType, Records, Sessions, Erased, NoOwner, TxnType
  <1>7. Handshake'
    BY DEF Handshake, NoOwner, TxnType
  <1>8. QED
    BY <1>1, <1>2, <1>3, <1>4, <1>5, <1>6, <1>7

\* HttpStageMarker keeps IdentityInv.
LEMMA HttpStageMarkerKeeps ==
    ASSUME TypeOK, IdentityInv, HttpStageMarker
    PROVE  IdentityInv'
  <1> USE DEF IdentityInv, TypeOK, PcType, RamType, TxType, HttpStageMarker, Http, Put
  <1>1. LockOrder'
    BY WriteOutcomes DEF LockOrder, Running, Tasks
  <1>2. Flash'
    BY WriteOutcomes DEF Flash, Own, LockOrder, Running, Transition, Untouched, Committed,
       Runtime, Loaded, KeyIsFlash, Me, NoOwner, RecType, Sessions, Records, TxnType, Tasks,
       ReqType
  <1>3. Transition'
    BY WriteOutcomes DEF LockOrder, Running, Flash, Own, Transition, Untouched, Committed,
       Booting, Runtime, Loaded, KeyIsFlash, Me, Rotation, Unknown, Handshake, Tasks, NoOwner,
       RecType, Sessions, Records, TxnType, ReqType, Erased
  <1>4. Booting'
    BY WriteOutcomes DEF Booting, LockOrder, Running, NoOwner, RecType, Sessions, Records,
       Erased, TxnType, Tasks
  <1>5. Runtime'
    BY WriteOutcomes DEF Runtime, Loaded, KeyIsFlash, Untouched, Committed, Me, LockOrder,
       Running, Transition, RecType, Records, NoOwner, TxnType, Tasks, ReqType
  <1>6. Rotation'
    BY WriteOutcomes DEF Rotation, Unknown, Own, Me, LockOrder, Running, RecType, Records,
       Sessions, Erased, NoOwner, TxnType, Tasks
  <1>7. Handshake'
    BY WriteOutcomes DEF Handshake, LockOrder, Running, Transition, Untouched, Committed,
       Runtime, Loaded, KeyIsFlash, Me, NoOwner, TxnType, Tasks, ReqType, RecType, Records
  <1>8. QED
    BY <1>1, <1>2, <1>3, <1>4, <1>5, <1>6, <1>7

\* HttpStageVin keeps IdentityInv.
LEMMA HttpStageVinKeeps ==
    ASSUME TypeOK, IdentityInv, HttpStageVin
    PROVE  IdentityInv'
  <1> USE DEF IdentityInv, TypeOK, PcType, RamType, TxType, HttpStageVin, Http, Put, StartTx,
      IdleTx
  <1>1. LockOrder'
    BY WriteOutcomes DEF LockOrder, Running, Tasks
  <1>2. Flash'
    BY WriteOutcomes DEF Flash, Own, LockOrder, Running, Transition, Untouched, Committed,
       Runtime, Loaded, KeyIsFlash, Me, NoOwner, RecType, Sessions, Records, TxnType, Tasks,
       ReqType
  <1>3. Transition'
    BY WriteOutcomes DEF LockOrder, Running, Flash, Own, Transition, Untouched, Committed,
       Booting, Runtime, Loaded, KeyIsFlash, Me, Rotation, Unknown, Handshake, Tasks, NoOwner,
       RecType, Sessions, Records, TxnType, ReqType, Erased
  <1>4. Booting'
    BY WriteOutcomes DEF Booting, LockOrder, Running, NoOwner, RecType, Sessions, Records,
       Erased, TxnType, Tasks
  <1>5. Runtime'
    BY WriteOutcomes DEF Runtime, Loaded, KeyIsFlash, Untouched, Committed, Me, LockOrder,
       Running, RecType, Records, NoOwner, TxnType, Tasks
  <1>6. Rotation'
    BY WriteOutcomes DEF Rotation, Unknown, Own, Me, LockOrder, Running, RecType, Records,
       Sessions, Erased, NoOwner, TxnType, Tasks
  <1>7. Handshake'
    BY WriteOutcomes DEF Handshake, LockOrder, Running, Transition, Untouched, Committed,
       Runtime, Loaded, KeyIsFlash, Me, NoOwner, TxnType, Tasks, ReqType, RecType, Records
  <1>8. QED
    BY <1>1, <1>2, <1>3, <1>4, <1>5, <1>6, <1>7

\* HttpRotated keeps IdentityInv.
LEMMA HttpRotatedKeeps ==
    ASSUME TypeOK, IdentityInv, HttpRotated
    PROVE  IdentityInv'
  <1> USE DEF IdentityInv, TypeOK, PcType, RamType, TxType
  <1>1. pc.http = "rotate" /\ tx.pc = "done"
    BY DEF HttpRotated
  <1>2. \/ /\ tx.result = "NotCommitted" /\ pc' = [pc EXCEPT !.http = "rollback"]
           /\ lock' = "free" /\ tx' = IdleTx
        \/ /\ pc' = [pc EXCEPT !.http = "restart"]
           /\ lock' = "free" /\ tx' = IdleTx
        \/ /\ tx.result \notin {"NotCommitted", "CommitUnknown"}
           /\ pc' = [pc EXCEPT !.http = "mac"] /\ UNCHANGED <<lock, tx>>
    BY DEF HttpRotated, Http
  <1>3. tx.result \notin {"NotCommitted", "CommitUnknown"} => Committed
    BY <1>1 DEF Rotation, Committed, Results
  <1>4. UNCHANGED <<key, rec, rot, vin, txn, ram, handshake, lease, req, madeFor>>
    BY DEF HttpRotated, durable
  <1>5. LockOrder'
    BY <1>1, <1>2, <1>3, <1>4 DEF LockOrder, Running, Flash, Own, Transition, Untouched,
       Committed, Booting, Runtime, Loaded, KeyIsFlash, Me, Rotation, Unknown, Handshake, Tasks,
       NoOwner, RecType, Sessions, Records, TxnType, ReqType, Erased, IdleTx
  <1>6. Flash'
    BY <1>1, <1>2, <1>3, <1>4 DEF LockOrder, Running, Flash, Own, Transition, Untouched,
       Committed, Booting, Runtime, Loaded, KeyIsFlash, Me, Rotation, Unknown, Handshake, Tasks,
       NoOwner, RecType, Sessions, Records, TxnType, ReqType, Erased, IdleTx
  <1>7. Transition'
    BY <1>1, <1>2, <1>3, <1>4 DEF LockOrder, Running, Flash, Own, Transition, Untouched,
       Committed, Booting, Runtime, Loaded, KeyIsFlash, Me, Rotation, Unknown, Handshake, Tasks,
       NoOwner, RecType, Sessions, Records, TxnType, ReqType, Erased, IdleTx
  <1>8. Booting'
    BY <1>1, <1>2, <1>3, <1>4 DEF LockOrder, Running, Flash, Own, Transition, Untouched,
       Committed, Booting, Runtime, Loaded, KeyIsFlash, Me, Rotation, Unknown, Handshake, Tasks,
       NoOwner, RecType, Sessions, Records, TxnType, ReqType, Erased, IdleTx
  <1>9. Runtime'
    <2>1. tx.pc # "stamp" /\ tx.pc # "retire"
      BY <1>1
    <2>2. Loaded' = Loaded /\ KeyIsFlash' = KeyIsFlash /\ pc'.auto = pc.auto /\ Me' = Me
      BY <1>2, <1>4 DEF Loaded, KeyIsFlash, Me
    <2>3. (Committed' => Committed) /\ ~Untouched'
      BY <1>1, <1>2 DEF Committed, Untouched, IdleTx
    <2>4. tx'.pc # "stamp" /\ tx'.pc # "retire"
      BY <1>1, <1>2 DEF IdleTx
    <2>5. pc'.http \in {"rollback", "restart", "mac"}
      BY <1>2
    <2>6. pc'.http = "rollback" => Untouched
      BY <1>1, <1>2 DEF Untouched
    <2>7. QED
      BY <1>4, <2>1, <2>2, <2>3, <2>4, <2>5, <2>6 DEF Runtime
  <1>10. Rotation'
    BY <1>1, <1>2, <1>3, <1>4 DEF LockOrder, Running, Flash, Own, Transition, Untouched,
       Committed, Booting, Runtime, Loaded, KeyIsFlash, Me, Rotation, Unknown, Handshake, Tasks,
       NoOwner, RecType, Sessions, Records, TxnType, ReqType, Erased, IdleTx
  <1>11. Handshake'
    BY <1>1, <1>2, <1>3, <1>4 DEF LockOrder, Running, Flash, Own, Transition, Untouched,
       Committed, Booting, Runtime, Loaded, KeyIsFlash, Me, Rotation, Unknown, Handshake, Tasks,
       NoOwner, RecType, Sessions, Records, TxnType, ReqType, Erased, IdleTx
  <1>12. QED
    BY <1>5, <1>6, <1>7, <1>8, <1>9, <1>10, <1>11

\* HttpMac keeps IdentityInv.
LEMMA HttpMacKeeps ==
    ASSUME TypeOK, IdentityInv, HttpMac
    PROVE  IdentityInv'
  <1> USE DEF IdentityInv, TypeOK, PcType, RamType, TxType
  <1>1. pc.http = "mac" /\ lock' = "free" /\ tx' = IdleTx
    BY DEF HttpMac
  <1>2. pc' \in {[pc EXCEPT !.http = "unmark"], [pc EXCEPT !.http = "restart"]}
    BY DEF HttpMac, Http
  <1>3. UNCHANGED <<key, rec, rot, vin, txn, ram, handshake, lease, req, madeFor>>
    BY DEF HttpMac, durable
  <1>4. LockOrder'
    BY <1>1, <1>2, <1>3 DEF LockOrder, Running, Flash, Own, Transition, Untouched, Committed,
       Booting, Runtime, Loaded, KeyIsFlash, Me, Rotation, Unknown, Handshake, Tasks, NoOwner,
       RecType, Sessions, Records, TxnType, ReqType, Erased, IdleTx
  <1>5. Flash'
    BY <1>1, <1>2, <1>3 DEF LockOrder, Running, Flash, Own, Transition, Untouched, Committed,
       Booting, Runtime, Loaded, KeyIsFlash, Me, Rotation, Unknown, Handshake, Tasks, NoOwner,
       RecType, Sessions, Records, TxnType, ReqType, Erased, IdleTx
  <1>6. Transition'
    BY <1>1, <1>2, <1>3 DEF LockOrder, Running, Flash, Own, Transition, Untouched, Committed,
       Booting, Runtime, Loaded, KeyIsFlash, Me, Rotation, Unknown, Handshake, Tasks, NoOwner,
       RecType, Sessions, Records, TxnType, ReqType, Erased, IdleTx
  <1>7. Booting'
    BY <1>1, <1>2, <1>3 DEF LockOrder, Running, Flash, Own, Transition, Untouched, Committed,
       Booting, Runtime, Loaded, KeyIsFlash, Me, Rotation, Unknown, Handshake, Tasks, NoOwner,
       RecType, Sessions, Records, TxnType, ReqType, Erased, IdleTx
  <1>8. Runtime'
    <2>1. Committed /\ tx.pc # "stamp" /\ tx.pc # "retire"
      BY <1>1 DEF Transition, LockOrder, Committed
    <2>2. Loaded' = Loaded /\ KeyIsFlash' = KeyIsFlash /\ pc'.auto = pc.auto /\ Me' = Me
      BY <1>2, <1>3 DEF Loaded, KeyIsFlash, Me
    <2>3. ~Committed' /\ ~Untouched' /\ tx'.pc = "none"
      BY <1>1 DEF Committed, Untouched, IdleTx
    <2>4. pc'.http \in {"unmark", "restart"}
      BY <1>2
    <2>5. Loaded
      BY <1>1 DEF LockOrder, Running, Loaded
    <2>6. ~ram.reload
      BY <2>1, <2>5 DEF Runtime, KeyIsFlash
    <2>7. QED
      BY <1>1, <1>3, <2>1, <2>2, <2>3, <2>4, <2>6 DEF Runtime
  <1>9. Rotation'
    BY <1>1, <1>2, <1>3 DEF LockOrder, Running, Flash, Own, Transition, Untouched, Committed,
       Booting, Runtime, Loaded, KeyIsFlash, Me, Rotation, Unknown, Handshake, Tasks, NoOwner,
       RecType, Sessions, Records, TxnType, ReqType, Erased, IdleTx
  <1>10. Handshake'
    BY <1>1, <1>2, <1>3 DEF LockOrder, Running, Flash, Own, Transition, Untouched, Committed,
       Booting, Runtime, Loaded, KeyIsFlash, Me, Rotation, Unknown, Handshake, Tasks, NoOwner,
       RecType, Sessions, Records, TxnType, ReqType, Erased, IdleTx
  <1>11. QED
    BY <1>4, <1>5, <1>6, <1>7, <1>8, <1>9, <1>10

\* HttpRollback keeps IdentityInv.
LEMMA HttpRollbackKeeps ==
    ASSUME TypeOK, IdentityInv, HttpRollback
    PROVE  IdentityInv'
  <1> USE DEF IdentityInv, TypeOK, PcType, RamType, TxType, HttpRollback, Http, Put
  <1>1. LockOrder'
    BY WriteOutcomes DEF LockOrder, Running, Tasks
  <1>2. Flash'
    BY WriteOutcomes DEF Flash, Own, LockOrder, Running, Transition, Untouched, Committed,
       Runtime, Loaded, KeyIsFlash, Me, NoOwner, RecType, Sessions, Records, TxnType, Tasks,
       ReqType
  <1>3. Transition'
    BY WriteOutcomes DEF LockOrder, Running, Flash, Own, Transition, Untouched, Committed,
       Booting, Runtime, Loaded, KeyIsFlash, Me, Rotation, Unknown, Handshake, Tasks, NoOwner,
       RecType, Sessions, Records, TxnType, ReqType, Erased
  <1>4. Booting'
    BY WriteOutcomes DEF Booting, LockOrder, Running, NoOwner, RecType, Sessions, Records,
       Erased, TxnType, Tasks
  <1>5. Runtime'
    BY WriteOutcomes DEF Runtime, Loaded, KeyIsFlash, Untouched, Committed, Me, LockOrder,
       Running, RecType, Records, NoOwner, TxnType, Tasks
  <1>6. Rotation'
    BY WriteOutcomes DEF Rotation, Unknown, Own, Me, LockOrder, Running, Transition, Untouched,
       Committed, Runtime, Loaded, KeyIsFlash, RecType, Records, Sessions, Erased, NoOwner,
       TxnType, Tasks, ReqType
  <1>7. Handshake'
    BY WriteOutcomes DEF Handshake, LockOrder, Running, Transition, Untouched, Committed,
       Runtime, Loaded, KeyIsFlash, Me, NoOwner, TxnType, Tasks, ReqType, RecType, Records
  <1>8. QED
    BY <1>1, <1>2, <1>3, <1>4, <1>5, <1>6, <1>7

\* HttpUnmark keeps IdentityInv.
LEMMA HttpUnmarkKeeps ==
    ASSUME TypeOK, IdentityInv, HttpUnmark
    PROVE  IdentityInv'
  <1> USE DEF IdentityInv, TypeOK, PcType, RamType, TxType, HttpUnmark, Http, Put, NoTxn
  <1>1. LockOrder'
    BY WriteOutcomes DEF LockOrder, Running, Tasks
  <1>2. Flash'
    BY WriteOutcomes DEF Flash, Own, LockOrder, Running, Transition, Untouched, Committed,
       Runtime, Loaded, KeyIsFlash, Me, NoOwner, RecType, Sessions, Records, TxnType, Tasks,
       ReqType
  <1>3. Transition'
    BY WriteOutcomes DEF Transition, Untouched, Committed, TxnType, ReqType
  <1>4. Booting'
    BY WriteOutcomes DEF Booting, LockOrder, Running, NoOwner, RecType, Sessions, Records,
       Erased, TxnType, Tasks
  <1>5. Runtime'
    BY WriteOutcomes DEF Runtime, Loaded, KeyIsFlash, Untouched, Committed, Me, RecType,
       Records, NoOwner, TxnType
  <1>6. Rotation'
    BY WriteOutcomes DEF Rotation, Unknown, Own, Me, LockOrder, Running, Transition, Untouched,
       Committed, Runtime, Loaded, KeyIsFlash, RecType, Records, Sessions, Erased, NoOwner,
       TxnType, Tasks, ReqType
  <1>7. Handshake'
    BY WriteOutcomes DEF Handshake, LockOrder, Running, Transition, Untouched, Committed,
       Runtime, Loaded, KeyIsFlash, Me, NoOwner, TxnType, Tasks, ReqType, RecType, Records
  <1>8. QED
    BY <1>1, <1>2, <1>3, <1>4, <1>5, <1>6, <1>7

\* HttpRestart keeps IdentityInv.
LEMMA HttpRestartKeeps ==
    ASSUME TypeOK, IdentityInv, HttpRestart
    PROVE  IdentityInv'
  <1> USE DEF IdentityInv, TypeOK, PcType, RamType, TxType, HttpRestart, PowerUp, durable,
      BlankRam, IdleTx, NoReq, NoOwner
  <1>1. LockOrder'
    BY DEF LockOrder, Running, Tasks
  <1>2. Flash'
    BY DEF Flash, Own, RecType, Sessions, Records, TxnType
  <1>3. Transition'
    BY DEF Transition, Untouched, Committed, TxnType, ReqType
  <1>4. Booting'
    BY DEF Booting, RecType, Sessions, Records, Erased, TxnType
  <1>5. Runtime'
    BY DEF Runtime, Loaded, KeyIsFlash, Untouched, Committed, Me, RecType, Records, TxnType
  <1>6. Rotation'
    BY DEF Rotation, Unknown, Own, Me, RecType, Records, Sessions, Erased, TxnType
  <1>7. Handshake'
    BY DEF Handshake, TxnType
  <1>8. QED
    BY <1>1, <1>2, <1>3, <1>4, <1>5, <1>6, <1>7

\* HttpStampPaired keeps IdentityInv.
LEMMA HttpStampPairedKeeps ==
    ASSUME TypeOK, IdentityInv, HttpStampPaired
    PROVE  IdentityInv'
  <1> USE DEF IdentityInv, TypeOK, PcType, RamType, TxType, HttpStampPaired, Http, Put, NoReq
  <1>1. LockOrder'
    BY WriteOutcomes DEF LockOrder, Running, Tasks
  <1>2. Flash'
    BY WriteOutcomes DEF Flash, Own, NoOwner, RecType, Sessions, Records, TxnType
  <1>3. Transition'
    BY WriteOutcomes DEF Transition, Untouched, Committed, TxnType, ReqType
  <1>4. Booting'
    BY WriteOutcomes DEF Booting, LockOrder, Running, NoOwner, RecType, Sessions, Records,
       Erased, TxnType, Tasks
  <1>5. Runtime'
    BY WriteOutcomes DEF Runtime, Loaded, KeyIsFlash, Untouched, Committed, Me, RecType,
       Records, NoOwner, TxnType
  <1>6. Rotation'
    BY WriteOutcomes DEF Rotation, Unknown, Own, Me, RecType, Records, Sessions, Erased,
       NoOwner, TxnType
  <1>7. Handshake'
    BY WriteOutcomes DEF Handshake, NoOwner, TxnType
  <1>8. QED
    BY <1>1, <1>2, <1>3, <1>4, <1>5, <1>6, <1>7

\* AutoLook keeps IdentityInv.
LEMMA AutoLookKeeps ==
    ASSUME TypeOK, IdentityInv, AutoLook
    PROVE  IdentityInv'
  <1> USE DEF IdentityInv, TypeOK, PcType, RamType, TxType, AutoLook, AutoPair, Running, durable
  <1>1. LockOrder'
    BY DEF LockOrder, Tasks
  <1>2. Flash'
    BY DEF Flash, Own, NoOwner, RecType, Sessions, Records, TxnType
  <1>3. Transition'
    BY DEF Transition, Untouched, Committed, TxnType, ReqType
  <1>4. Booting'
    BY DEF Booting, NoOwner, RecType, Sessions, Records, Erased, TxnType
  <1>5. Runtime'
    BY DEF Runtime, Loaded, KeyIsFlash, Untouched, Committed, Me, RecType, Records, NoOwner,
       TxnType
  <1>6. Rotation'
    BY DEF Rotation, Unknown, Own, Me, RecType, Records, Sessions, Erased, NoOwner, TxnType
  <1>7. Handshake'
    BY DEF Handshake, NoOwner, TxnType
  <1>8. QED
    BY <1>1, <1>2, <1>3, <1>4, <1>5, <1>6, <1>7

\* AutoReload keeps IdentityInv.
LEMMA AutoReloadKeeps ==
    ASSUME TypeOK, IdentityInv, AutoReload
    PROVE  IdentityInv'
  <1> USE DEF IdentityInv, TypeOK, PcType, RamType, TxType, AutoReload, AutoPair, PowerUp,
      ReloadAllowed, durable, BlankRam, IdleTx, NoReq, NoOwner
  <1>1. LockOrder'
    BY ReadOutcomes DEF LockOrder, Running, Tasks
  <1>2. Flash'
    BY ReadOutcomes DEF Flash, Own, RecType, Sessions, Records, TxnType
  <1>3. Transition'
    BY ReadOutcomes DEF Transition, Untouched, Committed, TxnType, ReqType
  <1>4. Booting'
    BY ReadOutcomes DEF Booting, RecType, Sessions, Records, Erased, TxnType
  <1>5. Runtime'
    BY ReadOutcomes DEF Runtime, Loaded, KeyIsFlash, Untouched, Committed, Me, RecType, Records,
       TxnType
  <1>6. Rotation'
    BY ReadOutcomes DEF Rotation, Unknown, Own, Me, RecType, Records, Sessions, Erased, TxnType
  <1>7. Handshake'
    BY ReadOutcomes DEF Handshake, TxnType
  <1>8. QED
    BY <1>1, <1>2, <1>3, <1>4, <1>5, <1>6, <1>7

\* AutoSeesCleanup keeps IdentityInv.
LEMMA AutoSeesCleanupKeeps ==
    ASSUME TypeOK, IdentityInv, AutoSeesCleanup
    PROVE  IdentityInv'
  <1> USE DEF IdentityInv, TypeOK, PcType, RamType, TxType, AutoSeesCleanup, AutoPair, durable
  <1>1. LockOrder'
    BY DEF LockOrder, Running, Tasks
  <1>2. Flash'
    BY DEF Flash, Own, NoOwner, RecType, Sessions, Records, TxnType
  <1>3. Transition'
    BY DEF Transition, Untouched, Committed, TxnType, ReqType
  <1>4. Booting'
    BY DEF Booting, NoOwner, RecType, Sessions, Records, Erased, TxnType
  <1>5. Runtime'
    BY DEF Runtime, Loaded, KeyIsFlash, Untouched, Committed, Me, RecType, Records, NoOwner,
       TxnType
  <1>6. Rotation'
    BY DEF Rotation, Unknown, Own, Me, RecType, Records, Sessions, Erased, NoOwner, TxnType
  <1>7. Handshake'
    BY DEF Handshake, NoOwner, TxnType
  <1>8. QED
    BY <1>1, <1>2, <1>3, <1>4, <1>5, <1>6, <1>7

\* AutoClean keeps IdentityInv.
LEMMA AutoCleanKeeps ==
    ASSUME TypeOK, IdentityInv, AutoClean
    PROVE  IdentityInv'
  <1> USE DEF IdentityInv, TypeOK, PcType, RamType, TxType, AutoClean, AutoPair, durable, IdleTx
  <1>1. LockOrder'
    BY DEF LockOrder, Running, Tasks
  <1>2. Flash'
    BY DEF Flash, Own, NoOwner, RecType, Sessions, Records, TxnType
  <1>3. Transition'
    BY DEF Transition, Untouched, Committed, LockOrder, Running, TxnType, ReqType, Tasks
  <1>4. Booting'
    BY DEF Booting, NoOwner, RecType, Sessions, Records, Erased, TxnType
  <1>5. Runtime'
    BY DEF Runtime, Loaded, KeyIsFlash, Untouched, Committed, Me, LockOrder, Running, RecType,
       Records, NoOwner, TxnType, Tasks
  <1>6. Rotation'
    BY DEF Rotation, Unknown, Own, Me, RecType, Records, Sessions, Erased, NoOwner, TxnType
  <1>7. Handshake'
    BY DEF Handshake, NoOwner, TxnType
  <1>8. QED
    BY <1>1, <1>2, <1>3, <1>4, <1>5, <1>6, <1>7

\* AutoCleaned keeps IdentityInv.
LEMMA AutoCleanedKeeps ==
    ASSUME TypeOK, IdentityInv, AutoCleaned
    PROVE  IdentityInv'
  <1> USE DEF IdentityInv, TypeOK, PcType, RamType, TxType, AutoCleaned, AutoPair, durable,
      IdleTx
  <1>1. LockOrder'
    BY DEF LockOrder, Running, Tasks
  <1>2. Flash'
    BY DEF Flash, Own, NoOwner, RecType, Sessions, Records, TxnType
  <1>3. Transition'
    BY DEF Transition, Untouched, Committed, LockOrder, Running, TxnType, ReqType, Tasks
  <1>4. Booting'
    BY DEF Booting, NoOwner, RecType, Sessions, Records, Erased, TxnType
  <1>5. Runtime'
    BY DEF Runtime, Loaded, KeyIsFlash, Untouched, Committed, Me, RecType, Records, NoOwner,
       TxnType
  <1>6. Rotation'
    BY DEF Rotation, Unknown, Own, Me, RecType, Records, Sessions, Erased, NoOwner, TxnType
  <1>7. Handshake'
    BY DEF Handshake, NoOwner, TxnType
  <1>8. QED
    BY <1>1, <1>2, <1>3, <1>4, <1>5, <1>6, <1>7

\* AutoProbe keeps IdentityInv.
LEMMA AutoProbeKeeps ==
    ASSUME TypeOK, IdentityInv, AutoProbe
    PROVE  IdentityInv'
  <1> USE DEF IdentityInv, TypeOK, PcType, RamType, TxType, AutoProbe, AutoPair,
      AutomaticKeyAction, Hints, durable
  <1>1. LockOrder'
    BY ReadOutcomes DEF LockOrder, Running, Tasks
  <1>2. Flash'
    BY ReadOutcomes DEF Flash, Own, NoOwner, RecType, Sessions, Records, TxnType
  <1>3. Transition'
    BY ReadOutcomes DEF Transition, Untouched, Committed, TxnType, ReqType
  <1>4. Booting'
    BY ReadOutcomes DEF Booting, LockOrder, Running, NoOwner, RecType, Sessions, Records,
       Erased, TxnType, Tasks
  <1>5. Runtime'
    BY ReadOutcomes DEF Runtime, Loaded, KeyIsFlash, Untouched, Committed, Me, RecType, Records,
       NoOwner, TxnType
  <1>6. Rotation'
    BY ReadOutcomes DEF Rotation, Unknown, Own, Me, RecType, Records, Sessions, Erased, NoOwner,
       TxnType
  <1>7. Handshake'
    BY ReadOutcomes DEF Handshake, NoOwner, TxnType
  <1>8. QED
    BY <1>1, <1>2, <1>3, <1>4, <1>5, <1>6, <1>7

\* AutoGenerate keeps IdentityInv.
LEMMA AutoGenerateKeeps ==
    ASSUME TypeOK, IdentityInv, AutoGenerate
    PROVE  IdentityInv'
  <1> USE DEF IdentityInv, TypeOK, PcType, RamType, TxType
  <1>1. \/ /\ pc' = [pc EXCEPT !.auto = "idle"]
           /\ UNCHANGED <<ram, lock, lease, tx>>
        \/ /\ pc' = [pc EXCEPT !.auto = "generating"]
           /\ lock' = "auto" /\ lease' = "auto" /\ tx' = [IdleTx EXCEPT !.pc = "marker"]
           /\ key = 0 /\ ~ram.vinPending /\ ~ram.reload /\ ~ram.cleanup
           /\ UNCHANGED ram
        \/ /\ pc' = [pc EXCEPT !.auto = "idle"]
           /\ \E b \in BOOLEAN : ram' = [ram EXCEPT !.safe = b] /\ (b => ram.safe)
           /\ UNCHANGED <<lock, lease, tx>>
    <2>1. CASE pc' = [pc EXCEPT !.auto = "idle"] /\ UNCHANGED <<ram, lock, lease, tx>>
      BY <2>1
    <2>2. ASSUME ~(ram.vinPending \/ ram.reload \/ ram.cleanup),
                 NEW probed \in BOOLEAN, NEW hint \in BOOLEAN, NEW action,
                 action = AutomaticKeyAction(probed, key # 0, ram.safe, hint),
                 IF action = "Generate"
                   THEN /\ AutoPair("generating")
                        /\ lock' = "auto" /\ lease' = "auto"
                        /\ StartTx
                        /\ UNCHANGED ram
                   ELSE /\ AutoPair("idle")
                        /\ ram' = [ram EXCEPT !.safe = (action = "Continue")]
                        /\ UNCHANGED <<lock, lease, tx>>
          PROVE  <1>1!:
      <3>1. (action = "Generate" => key = 0) /\ (action = "Continue" => ram.safe \/ key = 0)
        BY <2>2 DEF AutomaticKeyAction
      <3>2. CASE action = "Generate"
        BY <2>2, <3>1, <3>2 DEF AutoPair, StartTx
      <3>3. CASE action # "Generate"
        <4>1. action = "Continue" => ram.safe
          BY <2>2 DEF AutomaticKeyAction
        <4>2. PICK b \in BOOLEAN : b = (action = "Continue")
          OBVIOUS
        <4>3. ram' = [ram EXCEPT !.safe = b] /\ (b => ram.safe)
          BY <2>2, <3>3, <4>1, <4>2
        <4>4. QED
          BY <2>2, <3>3, <4>3 DEF AutoPair
      <3>4. QED
        BY <3>2, <3>3
    <2>3. Hints \subseteq BOOLEAN /\ Reads \subseteq BOOLEAN
      BY ReadOutcomes DEF Hints
    <2>4. CASE ram.vinPending \/ ram.reload \/ ram.cleanup
      BY <2>1, <2>4 DEF AutoGenerate, AutoPair
    <2>5. CASE ~(ram.vinPending \/ ram.reload \/ ram.cleanup)
      <3>1. PICK probed \in Reads, hint \in Hints :
              LET action == AutomaticKeyAction(probed, key # 0, ram.safe, hint) IN
              IF action = "Generate"
                THEN /\ AutoPair("generating")
                     /\ lock' = "auto" /\ lease' = "auto"
                     /\ StartTx
                     /\ UNCHANGED ram
                ELSE /\ AutoPair("idle")
                     /\ ram' = [ram EXCEPT !.safe = (action = "Continue")]
                     /\ UNCHANGED <<lock, lease, tx>>
        BY <2>5 DEF AutoGenerate
      <3>2. probed \in BOOLEAN /\ hint \in BOOLEAN
        BY <2>3
      <3>3. QED
        BY <2>2, <2>5, <3>1, <3>2
    <2>6. QED
      BY <2>4, <2>5
  <1>2. Running /\ pc.auto = "generate" /\ lock = "free" /\ lease = "free"
    BY DEF AutoGenerate, LockOrder
  <1>3. UNCHANGED <<key, rec, rot, vin, txn, handshake, req, madeFor>>
    BY DEF AutoGenerate, durable
  <1>4. LockOrder'
    BY <1>1, <1>2, <1>3 DEF LockOrder, Running, Flash, Own, Transition, Untouched, Committed,
       Booting, Runtime, Loaded, KeyIsFlash, Me, Rotation, Unknown, Handshake, Tasks, NoOwner,
       RecType, Sessions, Records, TxnType, ReqType, Erased, IdleTx
  <1>5. Flash'
    BY <1>1, <1>2, <1>3 DEF Flash, Own, NoOwner, RecType, Sessions, Records, TxnType, IdleTx
  <1>6. Transition'
    BY <1>1, <1>2, <1>3 DEF LockOrder, Running, Flash, Own, Transition, Untouched, Committed,
       Booting, Runtime, Loaded, KeyIsFlash, Me, Rotation, Unknown, Handshake, Tasks, NoOwner,
       RecType, Sessions, Records, TxnType, ReqType, Erased, IdleTx
  <1>7. Booting'
    BY <1>1, <1>2, <1>3 DEF LockOrder, Running, Flash, Own, Transition, Untouched, Committed,
       Booting, Runtime, Loaded, KeyIsFlash, Me, Rotation, Unknown, Handshake, Tasks, NoOwner,
       RecType, Sessions, Records, TxnType, ReqType, Erased, IdleTx
  <1>8. Runtime'
    BY <1>1, <1>2, <1>3 DEF LockOrder, Running, Flash, Own, Transition, Untouched, Committed,
       Booting, Runtime, Loaded, KeyIsFlash, Me, Rotation, Unknown, Handshake, Tasks, NoOwner,
       RecType, Sessions, Records, TxnType, ReqType, Erased, IdleTx
  <1>9. Rotation'
    BY <1>1, <1>2, <1>3 DEF LockOrder, Running, Flash, Own, Transition, Untouched, Committed,
       Booting, Runtime, Loaded, KeyIsFlash, Me, Rotation, Unknown, Handshake, Tasks, NoOwner,
       RecType, Sessions, Records, TxnType, ReqType, Erased, IdleTx
  <1>10. Handshake'
    BY <1>1, <1>2, <1>3 DEF Handshake, NoOwner, TxnType, IdleTx
  <1>11. QED
    BY <1>4, <1>5, <1>6, <1>7, <1>8, <1>9, <1>10

\* AutoGenerated keeps IdentityInv.
LEMMA AutoGeneratedKeeps ==
    ASSUME TypeOK, IdentityInv, AutoGenerated
    PROVE  IdentityInv'
  <1> USE DEF IdentityInv, TypeOK, PcType, RamType, TxType, AutoGenerated, AutoPair, Release,
      durable, IdleTx
  <1>1. LockOrder'
    BY DEF LockOrder, Running, Tasks
  <1>2. Flash'
    BY DEF Flash, Own, NoOwner, RecType, Sessions, Records, TxnType
  <1>3. Transition'
    BY DEF Transition, Untouched, Committed, LockOrder, Running, TxnType, ReqType, Tasks
  <1>4. Booting'
    BY DEF Booting, NoOwner, RecType, Sessions, Records, Erased, TxnType
  <1>5. Runtime'
    BY DEF Runtime, Loaded, KeyIsFlash, Untouched, Committed, Me, RecType, Records, NoOwner,
       TxnType
  <1>6. Rotation'
    BY DEF Rotation, Unknown, Own, Me, RecType, Records, Sessions, Erased, NoOwner, TxnType
  <1>7. Handshake'
    BY DEF Handshake, NoOwner, TxnType
  <1>8. QED
    BY <1>1, <1>2, <1>3, <1>4, <1>5, <1>6, <1>7

\* HttpStatus keeps IdentityInv.
LEMMA HttpStatusKeeps ==
    ASSUME TypeOK, IdentityInv, HttpStatus
    PROVE  IdentityInv'
  <1> USE DEF IdentityInv, TypeOK, PcType, RamType, TxType, HttpStatus, Http, Running, durable,
      NoOwner
  <1>1. LockOrder'
    BY DEF LockOrder, Tasks
  <1>2. Flash'
    BY DEF Flash, Own, RecType, Sessions, Records, TxnType
  <1>3. Transition'
    BY DEF Transition, Untouched, Committed, TxnType, ReqType
  <1>4. Booting'
    BY DEF Booting, RecType, Sessions, Records, Erased, TxnType
  <1>5. Runtime'
    BY DEF Runtime, Loaded, KeyIsFlash, Untouched, Committed, Me, RecType, Records, TxnType
  <1>6. Rotation'
    BY DEF Rotation, Unknown, Own, Me, RecType, Records, Sessions, Erased, TxnType
  <1>7. Handshake'
    BY DEF Handshake, TxnType
  <1>8. QED
    BY <1>1, <1>2, <1>3, <1>4, <1>5, <1>6, <1>7

\* RequestSession keeps IdentityInv.
LEMMA RequestSessionKeeps ==
    ASSUME TypeOK, IdentityInv, RequestSession
    PROVE  IdentityInv'
  <1> USE DEF IdentityInv, TypeOK, PcType, RamType, TxType, RequestSession, Me, Ready, Running,
      Signing, durable, NoOwner
  <1>1. LockOrder'
    BY DEF LockOrder, Tasks
  <1>2. Flash'
    BY DEF Flash, Own, RecType, Sessions, Records, TxnType
  <1>3. Transition'
    BY DEF Transition, Untouched, Committed, TxnType, ReqType
  <1>4. Booting'
    BY DEF Booting, RecType, Sessions, Records, Erased, TxnType
  <1>5. Runtime'
    BY DEF Runtime, Loaded, KeyIsFlash, Untouched, Committed, RecType, Records, TxnType
  <1>6. Rotation'
    BY DEF Rotation, Unknown, Own, RecType, Records, Sessions, Erased, TxnType
  <1>7. Handshake'
    BY DEF LockOrder, Flash, Own, Transition, Untouched, Committed, Booting, Runtime, Loaded,
       KeyIsFlash, Rotation, Unknown, Handshake, Tasks, RecType, Sessions, Records, TxnType,
       ReqType, Erased
  <1>8. QED
    BY <1>1, <1>2, <1>3, <1>4, <1>5, <1>6, <1>7

\* LoseSession keeps IdentityInv.
LEMMA LoseSessionKeeps ==
    ASSUME TypeOK, IdentityInv, LoseSession
    PROVE  IdentityInv'
  <1> USE DEF IdentityInv, TypeOK, PcType, RamType, TxType, LoseSession, durable, NoOwner
  <1>1. LockOrder'
    BY DEF LockOrder, Running, Tasks
  <1>2. Flash'
    BY DEF Flash, Own, RecType, Sessions, Records, TxnType
  <1>3. Transition'
    BY DEF Transition, Untouched, Committed, TxnType, ReqType
  <1>4. Booting'
    BY DEF Booting, RecType, Sessions, Records, Erased, TxnType
  <1>5. Runtime'
    BY DEF Runtime, Loaded, KeyIsFlash, Untouched, Committed, Me, RecType, Records, TxnType
  <1>6. Rotation'
    BY DEF Rotation, Unknown, Own, Me, RecType, Records, Sessions, Erased, TxnType
  <1>7. Handshake'
    BY DEF Handshake, TxnType
  <1>8. QED
    BY <1>1, <1>2, <1>3, <1>4, <1>5, <1>6, <1>7

\* PowerLoss keeps IdentityInv.
LEMMA PowerLossKeeps ==
    ASSUME TypeOK, IdentityInv, PowerLoss
    PROVE  IdentityInv'
  <1> USE DEF IdentityInv, TypeOK, PcType, RamType, TxType, PowerLoss, PowerUp, durable,
      BlankRam, IdleTx, NoReq, NoOwner
  <1>1. LockOrder'
    BY DEF LockOrder, Running, Tasks
  <1>2. Flash'
    BY DEF Flash, Own, RecType, Sessions, Records, TxnType
  <1>3. Transition'
    BY DEF Transition, Untouched, Committed, TxnType, ReqType
  <1>4. Booting'
    BY DEF Booting, RecType, Sessions, Records, Erased, TxnType
  <1>5. Runtime'
    BY DEF Runtime, Loaded, KeyIsFlash, Untouched, Committed, Me, RecType, Records, TxnType
  <1>6. Rotation'
    BY DEF Rotation, Unknown, Own, Me, RecType, Records, Sessions, Erased, TxnType
  <1>7. Handshake'
    BY DEF Handshake, TxnType
  <1>8. QED
    BY <1>1, <1>2, <1>3, <1>4, <1>5, <1>6, <1>7

\* Reset keeps IdentityInv.
LEMMA ResetKeeps ==
    ASSUME TypeOK, IdentityInv, Reset
    PROVE  IdentityInv'
  <1> USE DEF IdentityInv, TypeOK, PcType, RamType, TxType, Reset, PowerUp, durable, BlankRam,
      IdleTx, NoReq, NoOwner
  <1>1. LockOrder'
    BY DEF LockOrder, Running, Tasks
  <1>2. Flash'
    BY DEF Flash, Own, RecType, Sessions, Records, TxnType
  <1>3. Transition'
    BY DEF Transition, Untouched, Committed, TxnType, ReqType
  <1>4. Booting'
    BY DEF Booting, RecType, Sessions, Records, Erased, TxnType
  <1>5. Runtime'
    BY DEF Runtime, Loaded, KeyIsFlash, Untouched, Committed, Me, RecType, Records, TxnType
  <1>6. Rotation'
    BY DEF Rotation, Unknown, Own, Me, RecType, Records, Sessions, Erased, TxnType
  <1>7. Handshake'
    BY DEF Handshake, TxnType
  <1>8. QED
    BY <1>1, <1>2, <1>3, <1>4, <1>5, <1>6, <1>7

\* SetupPortal keeps IdentityInv.
LEMMA SetupPortalKeeps ==
    ASSUME TypeOK, IdentityInv, NEW v \in Vins, SetupPortal(v)
    PROVE  IdentityInv'
  <1> USE DEF IdentityInv, TypeOK, PcType, RamType, TxType, SetupPortal, PowerUp, Put, volatile,
      BlankRam, IdleTx, NoReq, NoOwner
  <1>1. LockOrder'
    BY WriteOutcomes DEF LockOrder, Running, Tasks
  <1>2. Flash'
    BY WriteOutcomes DEF Flash, Own, RecType, Sessions, Records, TxnType
  <1>3. Transition'
    BY WriteOutcomes DEF Transition, Untouched, Committed, LockOrder, Running, TxnType, ReqType,
       Tasks
  <1>4. Booting'
    BY WriteOutcomes DEF Booting, RecType, Sessions, Records, Erased, TxnType
  <1>5. Runtime'
    BY WriteOutcomes DEF Runtime, Loaded, KeyIsFlash, Untouched, Committed, Me, RecType,
       Records, TxnType
  <1>6. Rotation'
    BY WriteOutcomes DEF Rotation, Unknown, Own, Me, LockOrder, Running, RecType, Records,
       Sessions, Erased, TxnType, Tasks
  <1>7. Handshake'
    BY WriteOutcomes DEF Handshake, TxnType
  <1>8. QED
    BY <1>1, <1>2, <1>3, <1>4, <1>5, <1>6, <1>7

\* HttpSetVin keeps IdentityInv.
LEMMA HttpSetVinKeeps ==
    ASSUME TypeOK, IdentityInv, NEW v \in Vins, HttpSetVin(v), ~Overtaking
    PROVE  IdentityInv'
  <1> USE DEF IdentityInv, TypeOK, PcType, RamType, TxType, HttpSetVin, Http, HttpFree, Running,
      durable
  <1>1. LockOrder'
    BY ReadOutcomes DEF LockOrder, Tasks
  <1>2. Flash'
    BY ReadOutcomes DEF Flash, Own, NoOwner, RecType, Sessions, Records, TxnType
  <1>3. Transition'
    BY ReadOutcomes DEF LockOrder, Flash, Own, Transition, Untouched, Committed, Booting,
       Runtime, Loaded, KeyIsFlash, Me, Rotation, Unknown, Handshake, Tasks, NoOwner, RecType,
       Sessions, Records, TxnType, ReqType, Erased
  <1>4. Booting'
    BY ReadOutcomes DEF Booting, NoOwner, RecType, Sessions, Records, Erased, TxnType
  <1>5. Runtime'
    BY ReadOutcomes DEF LockOrder, Flash, Own, Transition, Untouched, Committed, Booting,
       Runtime, Loaded, KeyIsFlash, Me, Rotation, Unknown, Handshake, Tasks, NoOwner, RecType,
       Sessions, Records, TxnType, ReqType, Erased
  <1>6. Rotation'
    BY ReadOutcomes DEF Rotation, Unknown, Own, Me, RecType, Records, Sessions, Erased, NoOwner,
       TxnType
  <1>7. Handshake'
    BY ReadOutcomes DEF Handshake, NoOwner, TxnType
  <1>8. QED
    BY <1>1, <1>2, <1>3, <1>4, <1>5, <1>6, <1>7

\* HttpGenKeys keeps IdentityInv.
LEMMA HttpGenKeysKeeps ==
    ASSUME TypeOK, IdentityInv, NEW force \in BOOLEAN, HttpGenKeys(force), ~Overtaking
    PROVE  IdentityInv'
  <1> USE DEF IdentityInv, TypeOK, PcType, RamType, TxType
  <1>1. \/ pc' = [pc EXCEPT !.http = "restart"] /\ UNCHANGED <<lock, lease, tx>>
        \/ /\ ~ram.reload /\ ~ram.cleanup
           /\ pc' = [pc EXCEPT !.http = "generate"]
           /\ lock' = "http" /\ lease' = "http" /\ tx' = [IdleTx EXCEPT !.pc = "marker"]
        \/ UNCHANGED <<pc, lock, lease, tx>>
    BY ReadOutcomes DEF HttpGenKeys, Http, HttpFree, Running, StartTx
  <1>2. /\ Running /\ pc.http = "idle" /\ lock = "free" /\ lease = "free"
        /\ ~ram.vinPending /\ (Overtaking \/ pc.auto # "clean")
    BY DEF HttpGenKeys, HttpFree
  <1>3. UNCHANGED <<key, rec, rot, vin, txn, ram, handshake, req, madeFor>>
    BY DEF HttpGenKeys, durable
  <1>4. LockOrder'
    BY <1>1, <1>2, <1>3 DEF LockOrder, Running, Flash, Own, Transition, Untouched, Committed,
       Booting, Runtime, Loaded, KeyIsFlash, Me, Rotation, Unknown, Handshake, Tasks, NoOwner,
       RecType, Sessions, Records, TxnType, ReqType, Erased, IdleTx
  <1>5. Flash'
    BY <1>1, <1>2, <1>3 DEF Flash, Own, NoOwner, RecType, Sessions, Records, TxnType, IdleTx
  <1>6. Transition'
    BY <1>1, <1>2, <1>3 DEF Transition, Untouched, Committed, TxnType, ReqType, IdleTx
  <1>7. Booting'
    BY <1>1, <1>2, <1>3 DEF Booting, NoOwner, RecType, Sessions, Records, Erased, TxnType,
       IdleTx
  <1>8. Runtime'
    BY <1>1, <1>2, <1>3 DEF LockOrder, Running, Flash, Own, Transition, Untouched, Committed,
       Booting, Runtime, Loaded, KeyIsFlash, Me, Rotation, Unknown, Handshake, Tasks, NoOwner,
       RecType, Sessions, Records, TxnType, ReqType, Erased, IdleTx
  <1>9. Rotation'
    BY <1>1, <1>2, <1>3 DEF LockOrder, Running, Flash, Own, Transition, Untouched, Committed,
       Booting, Runtime, Loaded, KeyIsFlash, Me, Rotation, Unknown, Handshake, Tasks, NoOwner,
       RecType, Sessions, Records, TxnType, ReqType, Erased, IdleTx
  <1>10. Handshake'
    BY <1>1, <1>2, <1>3 DEF Handshake, NoOwner, TxnType, IdleTx
  <1>11. QED
    BY <1>4, <1>5, <1>6, <1>7, <1>8, <1>9, <1>10

\* EstablishSession keeps IdentityInv.
LEMMA EstablishSessionKeeps ==
    ASSUME TypeOK, IdentityInv, NEW r \in Sessions, EstablishSession(r)
    PROVE  IdentityInv'
  <1> USE DEF IdentityInv, TypeOK, PcType, RamType, TxType
  <1>1. rec' = rec \/ rec' = [rec EXCEPT ![r] = handshake]
    BY WriteOutcomes DEF EstablishSession, Put, RecType
  <1>2. /\ Running /\ handshake # NoOwner /\ handshake.key = ram.key /\ handshake' = NoOwner
        /\ ram' = [ram EXCEPT !.sessions = @ \cup {handshake}]
    BY DEF EstablishSession
  <1>3. handshake = Me /\ handshake.key # 0 /\ handshake.vin # NoVin
    BY <1>2 DEF Handshake, Me, Owners
  <1>4. ram.key = key => Own(handshake)
    BY <1>2, <1>3 DEF Handshake, Own, Runtime, Loaded, Running, Me
  <1>5. UNCHANGED <<key, rot, vin, txn, pc, lock, lease, tx, req, madeFor>>
    BY DEF EstablishSession
  <1>6. LockOrder'
    BY <1>1, <1>2, <1>3, <1>4, <1>5 DEF LockOrder, Running, Flash, Own, Transition, Untouched,
       Committed, Booting, Runtime, Loaded, KeyIsFlash, Me, Rotation, Unknown, Handshake, Tasks,
       NoOwner, RecType, Sessions, Records, TxnType, ReqType, Erased
  <1>7. Flash'
    BY <1>1, <1>2, <1>3, <1>4, <1>5 DEF LockOrder, Running, Flash, Own, Transition, Untouched,
       Committed, Booting, Runtime, Loaded, KeyIsFlash, Me, Rotation, Unknown, Handshake, Tasks,
       NoOwner, RecType, Sessions, Records, TxnType, ReqType, Erased
  <1>8. Transition'
    BY <1>1, <1>2, <1>3, <1>4, <1>5 DEF LockOrder, Running, Flash, Own, Transition, Untouched,
       Committed, Booting, Runtime, Loaded, KeyIsFlash, Me, Rotation, Unknown, Handshake, Tasks,
       NoOwner, RecType, Sessions, Records, TxnType, ReqType, Erased
  <1>9. Booting'
    BY <1>1, <1>2, <1>3, <1>4, <1>5 DEF LockOrder, Running, Flash, Own, Transition, Untouched,
       Committed, Booting, Runtime, Loaded, KeyIsFlash, Me, Rotation, Unknown, Handshake, Tasks,
       NoOwner, RecType, Sessions, Records, TxnType, ReqType, Erased
  <1>10. Runtime'
    BY <1>1, <1>2, <1>3, <1>4, <1>5 DEF LockOrder, Running, Flash, Own, Transition, Untouched,
       Committed, Booting, Runtime, Loaded, KeyIsFlash, Me, Rotation, Unknown, Handshake, Tasks,
       NoOwner, RecType, Sessions, Records, TxnType, ReqType, Erased
  <1>11. Rotation'
    BY <1>1, <1>2, <1>3, <1>4, <1>5 DEF LockOrder, Running, Flash, Own, Transition, Untouched,
       Committed, Booting, Runtime, Loaded, KeyIsFlash, Me, Rotation, Unknown, Handshake, Tasks,
       NoOwner, RecType, Sessions, Records, TxnType, ReqType, Erased
  <1>12. Handshake'
    BY <1>1, <1>2, <1>3, <1>4, <1>5 DEF LockOrder, Running, Flash, Own, Transition, Untouched,
       Committed, Booting, Runtime, Loaded, KeyIsFlash, Me, Rotation, Unknown, Handshake, Tasks,
       NoOwner, RecType, Sessions, Records, TxnType, ReqType, Erased
  <1>13. QED
    BY <1>6, <1>7, <1>8, <1>9, <1>10, <1>11, <1>12

----------------------------------------------------------------------------
(* The invariant holds initially and over every step                       *)

LEMMA IdentityInit == Init => TypeOK /\ IdentityInv
  <1> SUFFICES ASSUME Init PROVE TypeOK /\ IdentityInv
    OBVIOUS
  <1>1. rec \in RecType /\ \A r \in Records : rec[r] = NoOwner
    BY InitialValues DEF Init, RecType
  <1>2. TypeOK
    <2>1. pc \in PcType
      BY DEF Init, PcType, BootSteps, HttpSteps, AutoSteps
    <2>2. madeFor \in [Keys -> AllVins] /\ vin \in AllVins
      BY DEF Init, AllVins
    <2>3. faults \in 0..MaxFaults /\ crashes \in 0..MaxCrashes
      BY BoundsAssumption DEF Init
    <2>4. ram \in RamType /\ txn \in TxnType /\ tx \in TxType /\ req \in ReqType
          /\ handshake \in Owners
      BY InitialValues DEF Init
    <2>5. QED
      BY <1>1, <2>1, <2>2, <2>3, <2>4 DEF Init, TypeOK
  <1>3. LockOrder
    BY DEF Init, LockOrder, IdleTx, BlankRam
  <1>4. Flash
    BY <1>1 DEF Init, Flash, NoTxn, NoOwner, Own, Sessions, Records
  <1>5. Transition
    BY DEF Init, Transition
  <1>6. Booting
    BY DEF Init, Booting, BlankRam, NoOwner
  <1>7. Runtime
    BY DEF Init, Runtime, Loaded, BlankRam, IdleTx, Untouched
  <1>8. Rotation
    BY DEF Init, Rotation, IdleTx, Unknown
  <1>9. Handshake
    BY DEF Init, Handshake
  <1>10. QED
    BY <1>2, <1>3, <1>4, <1>5, <1>6, <1>7, <1>8, <1>9 DEF IdentityInv

\* The key rotation.
LEMMA TxStepKeeps ==
    ASSUME TypeOK, IdentityInv, TxStep
    PROVE  TypeOK' /\ IdentityInv'
  <1>1. CASE TxMarker
    BY <1>1, TxMarkerTyped, TxMarkerKeeps
  <1>2. CASE TxProbe
    BY <1>2, TxProbeTyped, TxProbeKeeps
  <1>3. CASE TxRegenerateFails
    BY <1>3, TxRegenerateFailsTyped, TxRegenerateFailsKeeps
  <1>4. CASE TxRegenerate
    BY <1>4, TxRegenerateTyped, TxRegenerateKeeps
  <1>5. CASE TxFlush
    BY <1>5, TxFlushTyped, TxFlushKeeps
  <1>6. CASE TxStamp
    BY <1>6, TxStampTyped, TxStampKeeps
  <1>7. CASE TxRetire
    BY <1>7, TxRetireTyped, TxRetireKeeps
  <1>8. CASE TxReset
    BY <1>8, TxResetTyped, TxResetKeeps
  <1>9. CASE TxErase
    BY <1>9, TxEraseTyped, TxEraseKeeps
  <1>10. CASE TxDate
    BY <1>10, TxDateTyped, TxDateKeeps
  <1>11. CASE TxJournal
    BY <1>11, TxJournalTyped, TxJournalKeeps
  <1>12. QED
    BY <1>1, <1>2, <1>3, <1>4, <1>5, <1>6, <1>7, <1>8, <1>9, <1>10, <1>11 DEF TxStep

\* Boot.
LEMMA BootStepKeeps ==
    ASSUME TypeOK, IdentityInv, BootStep
    PROVE  TypeOK' /\ IdentityInv'
  <1>1. CASE BootJournal
    BY <1>1, BootJournalTyped, BootJournalKeeps
  <1>2. CASE BootMarker
    BY <1>2, BootMarkerTyped, BootMarkerKeeps
  <1>3. CASE BootErase
    BY <1>3, BootEraseTyped, BootEraseKeeps
  <1>4. CASE BootUnmark
    BY <1>4, BootUnmarkTyped, BootUnmarkKeeps
  <1>5. CASE BootLoad
    BY <1>5, BootLoadTyped, BootLoadKeeps
  <1>6. CASE BootEvidence
    BY <1>6, BootEvidenceTyped, BootEvidenceKeeps
  <1>7. CASE BootRollback
    BY <1>7, BootRollbackTyped, BootRollbackKeeps
  <1>8. CASE BootComplete
    BY <1>8, BootCompleteTyped, BootCompleteKeeps
  <1>9. CASE BootClear
    BY <1>9, BootClearTyped, BootClearKeeps
  <1>10. CASE BootKey
    BY <1>10, BootKeyTyped, BootKeyKeeps
  <1>11. CASE BootGenerated
    BY <1>11, BootGeneratedTyped, BootGeneratedKeeps
  <1>12. QED
    BY <1>1, <1>2, <1>3, <1>4, <1>5, <1>6, <1>7, <1>8, <1>9, <1>10, <1>11 DEF BootStep

\* The HTTP worker's transaction.
LEMMA HttpStepKeeps ==
    ASSUME TypeOK, IdentityInv, HttpStep
    PROVE  TypeOK' /\ IdentityInv'
  <1>1. CASE HttpGenerated
    BY <1>1, HttpGeneratedTyped, HttpGeneratedKeeps
  <1>2. CASE HttpStageMarker
    BY <1>2, HttpStageMarkerTyped, HttpStageMarkerKeeps
  <1>3. CASE HttpStageVin
    BY <1>3, HttpStageVinTyped, HttpStageVinKeeps
  <1>4. CASE HttpRotated
    BY <1>4, HttpRotatedTyped, HttpRotatedKeeps
  <1>5. CASE HttpMac
    BY <1>5, HttpMacTyped, HttpMacKeeps
  <1>6. CASE HttpRollback
    BY <1>6, HttpRollbackTyped, HttpRollbackKeeps
  <1>7. CASE HttpUnmark
    BY <1>7, HttpUnmarkTyped, HttpUnmarkKeeps
  <1>8. CASE HttpRestart
    BY <1>8, HttpRestartTyped, HttpRestartKeeps
  <1>9. CASE HttpStampPaired
    BY <1>9, HttpStampPairedTyped, HttpStampPairedKeeps
  <1>10. QED
    BY <1>1, <1>2, <1>3, <1>4, <1>5, <1>6, <1>7, <1>8, <1>9 DEF HttpStep

\* The auto-pair supervisor.
LEMMA AutoStepKeeps ==
    ASSUME TypeOK, IdentityInv, AutoStep
    PROVE  TypeOK' /\ IdentityInv'
  <1>1. CASE AutoLook
    BY <1>1, AutoLookTyped, AutoLookKeeps
  <1>2. CASE AutoReload
    BY <1>2, AutoReloadTyped, AutoReloadKeeps
  <1>3. CASE AutoSeesCleanup
    BY <1>3, AutoSeesCleanupTyped, AutoSeesCleanupKeeps
  <1>4. CASE AutoClean
    BY <1>4, AutoCleanTyped, AutoCleanKeeps
  <1>5. CASE AutoCleaned
    BY <1>5, AutoCleanedTyped, AutoCleanedKeeps
  <1>6. CASE AutoProbe
    BY <1>6, AutoProbeTyped, AutoProbeKeeps
  <1>7. CASE AutoGenerate
    BY <1>7, AutoGenerateTyped, AutoGenerateKeeps
  <1>8. CASE AutoGenerated
    BY <1>8, AutoGeneratedTyped, AutoGeneratedKeeps
  <1>9. QED
    BY <1>1, <1>2, <1>3, <1>4, <1>5, <1>6, <1>7, <1>8 DEF AutoStep

\* Every other step.
LEMMA IdentityStep ==
    ASSUME TypeOK, IdentityInv, ~Overtaking, [Next]_vars
    PROVE  TypeOK' /\ IdentityInv'
  <1>1. CASE TxStep \/ BootStep \/ HttpStep \/ AutoStep
    BY <1>1, TxStepKeeps, BootStepKeeps, HttpStepKeeps, AutoStepKeeps
  <1>2. ASSUME NEW v \in Vins, SetupPortal(v)
        PROVE  TypeOK' /\ IdentityInv'
    BY <1>2, SetupPortalTyped, SetupPortalKeeps
  <1>3. ASSUME NEW v \in Vins, HttpSetVin(v)
        PROVE  TypeOK' /\ IdentityInv'
    BY <1>3, HttpSetVinTyped, HttpSetVinKeeps
  <1>4. ASSUME NEW force \in BOOLEAN, HttpGenKeys(force)
        PROVE  TypeOK' /\ IdentityInv'
    BY <1>4, HttpGenKeysTyped, HttpGenKeysKeeps
  <1>5. ASSUME NEW r \in Sessions, EstablishSession(r)
        PROVE  TypeOK' /\ IdentityInv'
    BY <1>5, EstablishSessionTyped, EstablishSessionKeeps
  <1>6. CASE HttpStatus
    BY <1>6, HttpStatusTyped, HttpStatusKeeps
  <1>7. CASE RequestSession
    BY <1>7, RequestSessionTyped, RequestSessionKeeps
  <1>8. CASE LoseSession
    BY <1>8, LoseSessionTyped, LoseSessionKeeps
  <1>9. CASE PowerLoss
    BY <1>9, PowerLossTyped, PowerLossKeeps
  <1>10. CASE Reset
    BY <1>10, ResetTyped, ResetKeeps
  <1>11. CASE UNCHANGED vars
    <2>1. TypeOK'
      BY <1>11 DEF TypeOK, vars, durable, volatile
    <2>2. LockOrder' /\ Transition' /\ Booting'
      BY <1>11 DEF IdentityInv, LockOrder, Transition, Booting, Untouched, Committed, Running,
         vars, durable, volatile
    <2>3. Flash' /\ Handshake'
      BY <1>11 DEF IdentityInv, Flash, Handshake, Own, vars, durable, volatile
    <2>4. Runtime' /\ Rotation'
      BY <1>11 DEF IdentityInv, Runtime, Rotation, Untouched, Committed, Unknown, Loaded,
         KeyIsFlash, Me, Own, vars, durable, volatile
    <2>5. QED
      BY <2>1, <2>2, <2>3, <2>4 DEF IdentityInv
  <1>12. QED
    BY <1>1, <1>2, <1>3, <1>4, <1>5, <1>6, <1>7, <1>8, <1>9, <1>10, <1>11 DEF Next

----------------------------------------------------------------------------
(* What follows from it                                                    *)

\* The three invariants, as consequences of the inductive one.
LEMMA InvariantImplies ==
    ASSUME TypeOK, IdentityInv
    PROVE  IdentitySafe /\ SigningIdentity /\ JournalsCoverTears
  <1>1. KeyFollowsVehicle
    BY DEF IdentityInv, Booting, Flash, KeyFollowsVehicle, Running
  <1>2. NeverInconsistent
    BY DEF IdentityInv, Booting, NeverInconsistent
  <1>3. SigningIdentity
    <2> SUFFICES ASSUME Signing
                 PROVE  ram.key # 0 /\ ram.key = key /\ ram.vin = vin
                        /\ ram.sessions \subseteq {Me}
      BY DEF SigningIdentity
    <2>1. Loaded /\ ram.safe /\ ~ram.cleanup /\ ~ram.vinPending /\ ~ram.reload
      BY DEF Signing, Running, Ready, Loaded
    <2>2. KeyIsFlash
      BY <2>1 DEF IdentityInv, Runtime
    <2>3. ram.vin = vin /\ ram.sessions \subseteq {Me}
      BY <2>1 DEF IdentityInv, Runtime
    <2>4. QED
      BY <2>2, <2>3 DEF KeyIsFlash
  <1>4. JournalsCoverTears
    BY DEF IdentityInv, Flash, Own, JournalsCoverTears
  <1>5. QED
    BY <1>1, <1>2, <1>3, <1>4 DEF IdentitySafe

\* A step that replaces a key in flash is the write of a rotation, and neither boot nor the
\* supervisor rotates once there is a key.
LEMMA OnlyTxRegenerateWrites ==
    ASSUME TypeOK, Next, key' # key
    PROVE  TxRegenerate
  BY DEF Next, TxStep, BootStep, HttpStep, AutoStep, TxMarker, TxProbe, TxRegenerateFails, TxFlush,
     TxStamp, TxRetire, TxReset, TxErase, TxDate, TxJournal, SetupPortal, HttpSetVin, HttpGenKeys,
     HttpStatus, RequestSession, LoseSession, EstablishSession, PowerLoss, Reset, BootJournal,
     BootMarker, BootErase, BootUnmark, BootLoad, BootEvidence, BootRollback, BootComplete,
     BootClear, BootKey, BootGenerated, HttpGenerated, HttpStageMarker, HttpStageVin, HttpRotated,
     HttpMac, HttpRollback, HttpUnmark, HttpRestart, HttpStampPaired, AutoLook, AutoReload,
     AutoSeesCleanup, AutoClean, AutoCleaned, AutoProbe, AutoGenerate, AutoGenerated, durable

LEMMA ReplacementIsRequested ==
    ASSUME TypeOK, IdentityInv, [Next]_vars
    PROVE  key # 0 /\ key' # key => lock = "http"
  <1> SUFFICES ASSUME key # 0, key' # key PROVE lock = "http"
    OBVIOUS
  <1>1. TxRegenerate
    BY OnlyTxRegenerateWrites DEF vars, durable
  <1>2. tx.pc = "regenerate"
    BY <1>1 DEF TxRegenerate
  <1>3. lock \in Tasks
    BY <1>2 DEF IdentityInv, LockOrder, TypeOK
  <1>4. QED
    BY <1>2, <1>3 DEF IdentityInv, Rotation, Tasks

\* The journals, the runtime gates and the lock order together are inductive: whatever fails and
\* wherever power is lost, each step of generate_key_locked_, of the VIN transaction, of boot
\* and of the supervisor finds what the step before it established.
THEOREM IdentityInvariant == ~Overtaking => (Spec => [](TypeOK /\ IdentityInv))
  <1> SUFFICES ASSUME ~Overtaking PROVE Spec => [](TypeOK /\ IdentityInv)
    OBVIOUS
  <1>1. Init => TypeOK /\ IdentityInv
    BY IdentityInit
  <1>2. TypeOK /\ IdentityInv /\ [Next]_vars => (TypeOK /\ IdentityInv)'
    BY IdentityStep
  <1>3. QED
    BY <1>1, <1>2, PTL DEF Spec

\* The key in flash is the configured vehicle's once the tasks run, and no boot finds a changed
\* key beside an unchanged VIN (reset_for_new_vehicle, decide_vin_transition_recovery).
THEOREM IdentityIsSafe == ~Overtaking => (Spec => []IdentitySafe)
  <1>1. TypeOK /\ IdentityInv => IdentitySafe
    BY InvariantImplies
  <1>2. QED
    BY <1>1, IdentityInvariant, PTL

\* Signing uses the key and the VIN in flash and sessions of exactly that pair
\* (command_identity_ready_).
THEOREM SignsWithOneIdentity == ~Overtaking => (Spec => []SigningIdentity)
  <1>1. TypeOK /\ IdentityInv => SigningIdentity
    BY InvariantImplies
  <1>2. QED
    BY <1>1, IdentityInvariant, PTL

\* Between transactions no record in flash belongs to another key or VIN (key_rotate, vin_txn).
THEOREM TearsAreCovered == ~Overtaking => (Spec => []JournalsCoverTears)
  <1>1. TypeOK /\ IdentityInv => JournalsCoverTears
    BY InvariantImplies
  <1>2. QED
    BY <1>1, IdentityInvariant, PTL

\* A key in flash is replaced only by a task that answers a request
\* (decide_automatic_key_action, decide_key_generation_preflight).
THEOREM RequestsReplace == ~Overtaking => (Spec => OnlyRequestsReplace)
  <1>1. TypeOK /\ IdentityInv /\ [Next]_vars => [key # 0 /\ key' # key => lock = "http"]_vars
    BY ReplacementIsRequested
  <1>2. QED
    BY <1>1, IdentityInvariant, PTL DEF Spec, OnlyRequestsReplace

=============================================================================
