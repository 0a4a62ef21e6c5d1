------------------------------- MODULE Identity -------------------------------
(***************************************************************************)
(* The vehicle identity of the device: its private key, the sessions and   *)
(* dates that belong to the key, and the VIN, kept in two NVS namespaces   *)
(* that cannot be committed together.  Two journals make the changes       *)
(* recoverable: key_rotate covers the key and its peer records             *)
(* (main/logic/key_rotation.hpp, vehicle_pairing.cpp), vin_txn covers the  *)
(* VIN and the key (main/logic/vin_transition.hpp, http_config.cpp,        *)
(* main.cpp).                                                              *)
(*                                                                         *)
(* Every NVS commit is a step of its own, so power can be lost between any *)
(* two, and a commit that reports failure may or may not have reached      *)
(* flash.  Three tasks run: app_main during boot, the HTTP worker and the  *)
(* auto-pair supervisor; vehicle_loop establishes sessions meanwhile.      *)
(* command_mutex_ is `lock', the OTA identity lease is `lease'.            *)
(***************************************************************************)
EXTENDS Integers, FiniteSets

CONSTANTS
    Keys,        \* key pairs that can exist, as numbers
    Vins,        \* plausible VINs
    NoVin,       \* the empty VIN
    Overtaking,  \* may a request take command_mutex_ before a supervisor that already
                 \* decided to retry the cleanup?
    MaxFaults,   \* bound: NVS operations that fail in one behaviour
    MaxCrashes   \* bound: power losses in one behaviour

ASSUME KeysAssumption == Keys \subseteq Nat \ {0}
ASSUME VinsAssumption == NoVin \notin Vins
ASSUME OvertakingAssumption == Overtaking \in BOOLEAN
ASSUME BoundsAssumption == MaxFaults \in Nat /\ MaxCrashes \in Nat

VARIABLES
    key,       \* durable private key, 0 when absent
    rec,       \* durable records that belong to a key and a VIN
    rot,       \* durable key_rotate journal
    vin,       \* VIN of the durable ConfigBlob
    txn,       \* durable vin_txn journal
    pc,        \* where each task is
    ram,       \* what VehicleController holds
    handshake, \* session request that vehicle_loop waits for
    lock,      \* holder of command_mutex_
    lease,     \* holder of the identity mutation lease
    tx,        \* generate_key_locked_ and its cleanup, or a boot cleanup
    req,       \* the HTTP worker's request
    madeFor,   \* the VIN each key was generated for
    faults, crashes

durable == <<key, rec, rot, vin, txn>>
volatile == <<pc, ram, handshake, lock, lease, tx, req>>
vars == <<durable, volatile, madeFor, faults, crashes>>

AllVins == Vins \cup {NoVin}
Owners == [vin : AllVins, key : Keys \cup {0}]
NoOwner == [vin |-> NoVin, key |-> 0]
NoTxn == [armed |-> FALSE, vin |-> NoVin, key |-> 0]

Tasks == {"boot", "http", "auto"}
Sessions == {"session_vcsec", "session_infotainment"}

\* The order in which the peer records are erased; key_created comes last and only the
\* boot cleanup always erases it.
Erased == <<"session_vcsec", "session_infotainment", "paired_at", "key_created">>
Records == {"session_vcsec", "session_infotainment", "paired_at", "key_created"}

BlankRam == [key |-> 0, vin |-> NoVin, sessions |-> {}, safe |-> FALSE, cleanup |-> FALSE,
             reload |-> FALSE, vinPending |-> FALSE, untrusted |-> FALSE,
             recovered |-> FALSE, automatic |-> FALSE]

IdleTx == [pc |-> "none", i |-> 1, ok |-> TRUE, wasSafe |-> FALSE, result |-> "None"]
NoReq == [vin |-> NoVin, previous |-> NoOwner]

Results == {"None", "NotCommitted", "CommitUnknown", "CleanupPending", "Complete"}

BootSteps == {"journal", "marker", "erase", "unmark", "load", "evidence", "rollback",
              "rollbackUnmark", "clear", "complete", "completeUnmark", "key", "generate",
              "run", "halted", "inconsistent"}
HttpSteps == {"idle", "generate", "stageMarker", "stageVin", "rotate", "mac", "rollback",
              "unmark", "restart", "stampPaired"}
AutoSteps == {"idle", "look", "clean", "cleaning", "generate", "generating"}
TxSteps == {"none", "marker", "probe", "regenerate", "flush", "stamp", "retire", "reset",
            "erase", "date", "journal", "done"}

RecType == [Records -> Owners]

TxnType == [armed : BOOLEAN, vin : AllVins, key : Keys \cup {0}]

PcType == [boot : BootSteps, http : HttpSteps, auto : AutoSteps]

RamType == [key : Keys \cup {0}, vin : AllVins, sessions : SUBSET Owners, safe : BOOLEAN,
            cleanup : BOOLEAN, reload : BOOLEAN, vinPending : BOOLEAN,
            untrusted : BOOLEAN, recovered : BOOLEAN, automatic : BOOLEAN]

TxType == [pc : TxSteps, i : 1..5, ok : BOOLEAN, wasSafe : BOOLEAN, result : Results]

ReqType == [vin : AllVins, previous : Owners]

TypeOK ==
    /\ key \in Keys \cup {0}
    /\ rec \in RecType
    /\ rot \in BOOLEAN
    /\ vin \in AllVins
    /\ txn \in TxnType
    /\ pc \in PcType
    /\ ram \in RamType
    /\ handshake \in Owners
    /\ lock \in Tasks \cup {"free"}
    /\ lease \in Tasks \cup {"free"}
    /\ tx \in TxType
    /\ req \in ReqType
    /\ madeFor \in [Keys -> AllVins]
    /\ faults \in 0..MaxFaults
    /\ crashes \in 0..MaxCrashes

----------------------------------------------------------------------------
(* NVS and the runtime gate                                                *)

\* What one save() or remove() can come to: success, or a failed commit whose write may
\* nevertheless be in flash.
Writes == {[ok |-> TRUE, done |-> TRUE]}
          \cup (IF faults < MaxFaults THEN [ok : {FALSE}, done : BOOLEAN] ELSE {})

\* What one probe or load can come to.
Reads == {TRUE} \cup (IF faults < MaxFaults THEN {FALSE} ELSE {})

Charge(ok) == faults' = IF ok THEN faults ELSE faults + 1

Put(old, new, w) == IF w.done THEN new ELSE old

\* command_identity_ready_(): the gate in front of every signature.
Ready(r) == r.safe /\ ~r.cleanup /\ ~r.vinPending /\ ~r.reload

Me == [vin |-> ram.vin, key |-> ram.key]

Running == pc.boot = "run"

Signing == Running /\ Ready(ram)

InUse == {key, ram.key, txn.key, handshake.key, req.previous.key}
         \cup {rec[r].key : r \in Records} \cup {o.key : o \in ram.sessions}

\* create_private_key(): a key pair nothing refers to yet.
NewKey == CHOOSE k \in Keys \ InUse : TRUE

\* bound: a rotation needs an unused number; the code draws from a space that never runs out.
HasNewKey == Keys \ InUse # {}

\* A reset of any kind: only NVS survives.
PowerUp ==
    /\ pc' = [boot |-> "journal", http |-> "idle", auto |-> "idle"]
    /\ ram' = BlankRam
    /\ handshake' = NoOwner
    /\ lock' = "free" /\ lease' = "free"
    /\ tx' = IdleTx
    /\ req' = NoReq

Init ==
    /\ key = 0
    /\ rec = [r \in Records |-> NoOwner]
    /\ rot = FALSE
    /\ vin = NoVin
    /\ txn = NoTxn
    /\ pc = [boot |-> "journal", http |-> "idle", auto |-> "idle"]
    /\ ram = BlankRam
    /\ handshake = NoOwner
    /\ lock = "free" /\ lease = "free"
    /\ tx = IdleTx
    /\ req = NoReq
    /\ madeFor = [k \in Keys |-> NoVin]
    /\ faults = 0
    /\ crashes = 0

----------------------------------------------------------------------------
(* generate_key_locked_(): one key rotation, by the holder of the lock     *)

StartTx == tx' = [IdleTx EXCEPT !.pc = "marker"]

Finished(result) == tx' = [tx EXCEPT !.pc = "done", !.result = result]

\* Gate the signers, then arm the journal before the key is touched.
TxMarker ==
    /\ tx.pc = "marker"
    /\ \E w \in Writes :
        /\ Charge(w.ok)
        /\ rot' = Put(rot, TRUE, w)
        /\ tx' = [tx EXCEPT !.wasSafe = ram.safe, !.pc = IF w.ok THEN "regenerate" ELSE "probe"]
    /\ ram' = [ram EXCEPT !.safe = FALSE]
    /\ UNCHANGED <<key, rec, vin, txn, pc, handshake, lock, lease, req, madeFor, crashes>>

\* The journal write failed: only a proven absence reopens the gate.
TxProbe ==
    /\ tx.pc = "probe"
    /\ \E good \in Reads :
        /\ Charge(good)
        /\ ram' = [ram EXCEPT !.safe = IF good /\ ~rot THEN tx.wasSafe ELSE ram.safe]
    /\ Finished("NotCommitted")
    /\ UNCHANGED <<durable, pc, handshake, lock, lease, req, madeFor, crashes>>

\* What the client holds after a failed regeneration: the exported key is loaded again, a
\* step whose own failure is ignored; without an old key the new one stays.
Restored == {NewKey} \cup (IF ram.key = 0 THEN {} ELSE {ram.key})

\* regenerate_private_key() failed before the save: nothing is in flash.
TxRegenerateFails ==
    /\ tx.pc = "regenerate" /\ HasNewKey
    /\ faults < MaxFaults
    /\ faults' = faults + 1
    /\ \E k \in Restored \cup {ram.key} : ram' = [ram EXCEPT !.reload = TRUE, !.key = k]
    /\ tx' = [tx EXCEPT !.pc = "flush"]
    /\ madeFor' = [madeFor EXCEPT ![NewKey] = vin]
    /\ UNCHANGED <<durable, pc, handshake, lock, lease, req, crashes>>

\* The key blob is written.  A failed commit leaves the durable key unknown; a confirmed one
\* leaves only cleanup.
TxRegenerate ==
    /\ tx.pc = "regenerate" /\ HasNewKey
    /\ \E w \in Writes :
        /\ Charge(w.ok)
        /\ key' = Put(key, NewKey, w)
        /\ \/ /\ w.ok
              /\ ram' = [ram EXCEPT !.key = NewKey, !.cleanup = TRUE]
              /\ tx' = [tx EXCEPT !.pc = "stamp"]
           \/ /\ ~w.ok
              /\ \E k \in Restored : ram' = [ram EXCEPT !.reload = TRUE, !.key = k]
              /\ tx' = [tx EXCEPT !.pc = "flush"]
    /\ madeFor' = [madeFor EXCEPT ![NewKey] = vin]
    /\ UNCHANGED <<rec, rot, vin, txn, pc, handshake, lock, lease, req, crashes>>

\* invalidate_and_flush_(): the request in flight is dropped.
TxFlush ==
    /\ tx.pc = "flush"
    /\ handshake' = NoOwner
    /\ Finished("CommitUnknown")
    /\ UNCHANGED <<durable, pc, ram, lock, lease, req, madeFor, faults, crashes>>

\* stamp_or_retire_key_date(): stamp the new key when the clock is authoritative ...
TxStamp ==
    /\ tx.pc = "stamp"
    /\ \/ /\ tx' = [tx EXCEPT !.pc = "retire"]
          /\ UNCHANGED <<rec, ram, faults>>
       \/ \E w \in Writes :
            /\ Charge(w.ok)
            /\ rec' = [rec EXCEPT !["key_created"] = Put(@, Me, w)]
            /\ tx' = [tx EXCEPT !.pc = IF w.ok THEN "reset" ELSE "retire"]
            /\ ram' = [ram EXCEPT !.untrusted = IF w.ok THEN FALSE ELSE @]
    /\ UNCHANGED <<key, rot, vin, txn, pc, handshake, lock, lease, req, madeFor, crashes>>

\* ... otherwise retire the previous key's date, or remember that it cannot be trusted.
TxRetire ==
    /\ tx.pc = "retire"
    /\ \E w \in Writes :
        /\ Charge(w.ok)
        /\ rec' = [rec EXCEPT !["key_created"] = Put(@, NoOwner, w)]
        /\ ram' = [ram EXCEPT !.untrusted = IF w.ok THEN @ ELSE TRUE]
    /\ tx' = [tx EXCEPT !.pc = "reset"]
    /\ UNCHANGED <<key, rot, vin, txn, pc, handshake, lock, lease, req, madeFor, crashes>>

\* Mutant: the peers of the old key stay loaded.
TxResetKeepsPeers ==
    /\ tx.pc = "reset"
    /\ \E good \in Reads :
        /\ Charge(good)
        /\ handshake' = IF good THEN NoOwner ELSE handshake
        /\ ram' = [ram EXCEPT !.sessions = @]
        /\ tx' = [tx EXCEPT !.pc = "erase", !.i = 1, !.ok = good]
    /\ UNCHANGED <<durable, pc, lock, lease, req, madeFor, crashes>>

\* clear_session_and_cache_(), in memory: runner, contexts and peers; an exception leaves
\* them and fails the cleanup.
TxReset ==
    /\ tx.pc = "reset"
    /\ \E good \in Reads :
        /\ Charge(good)
        /\ handshake' = IF good THEN NoOwner ELSE handshake
        /\ ram' = [ram EXCEPT !.sessions = IF good THEN {} ELSE @]
        /\ tx' = [tx EXCEPT !.pc = "erase", !.i = 1, !.ok = good]
    /\ UNCHANGED <<durable, pc, lock, lease, req, madeFor, crashes>>

\* Each peer record is erased, whatever became of the one before.
TxErase ==
    /\ tx.pc = "erase"
    /\ \E w \in Writes :
        /\ Charge(w.ok)
        /\ rec' = [rec EXCEPT ![Erased[tx.i]] = Put(@, NoOwner, w)]
        /\ tx' = [tx EXCEPT !.i = @ + 1, !.ok = @ /\ w.ok,
                            !.pc = IF tx.i < 3 THEN "erase"
                                   ELSE IF tx.ok /\ w.ok THEN "date" ELSE "done",
                            !.result = "CleanupPending"]
    /\ UNCHANGED <<key, rot, vin, txn, pc, ram, handshake, lock, lease, req, madeFor, crashes>>

\* retire_key_rotation_journal(): an untrusted date goes before the journal ...
TxDate ==
    /\ tx.pc = "date"
    /\ IF ram.untrusted
         THEN \E w \in Writes :
                /\ Charge(w.ok)
                /\ rec' = [rec EXCEPT !["key_created"] = Put(@, NoOwner, w)]
                /\ ram' = [ram EXCEPT !.untrusted = ~w.ok]
                /\ tx' = [tx EXCEPT !.pc = IF w.ok THEN "journal" ELSE "done"]
         ELSE /\ tx' = [tx EXCEPT !.pc = "journal"]
              /\ UNCHANGED <<rec, ram, faults>>
    /\ UNCHANGED <<key, rot, vin, txn, pc, handshake, lock, lease, req, madeFor, crashes>>

\* ... which goes last and reopens the gate.
TxJournal ==
    /\ tx.pc = "journal"
    /\ \E w \in Writes :
        /\ Charge(w.ok)
        /\ rot' = Put(rot, FALSE, w)
        /\ ram' = IF w.ok THEN [ram EXCEPT !.cleanup = FALSE, !.reload = FALSE, !.safe = TRUE]
                          ELSE ram
        /\ Finished(IF w.ok THEN "Complete" ELSE "CleanupPending")
    /\ UNCHANGED <<key, rec, vin, txn, pc, handshake, lock, lease, req, madeFor, crashes>>

TxStep ==
    \/ TxMarker \/ TxProbe \/ TxRegenerateFails \/ TxRegenerate \/ TxFlush \/ TxStamp
    \/ TxRetire \/ TxReset \/ TxErase \/ TxDate \/ TxJournal

----------------------------------------------------------------------------
(* app_main: recovery of both journals, then the first key                 *)

Goto(step) == pc' = [pc EXCEPT !.boot = step]

Halt == Goto("halted")

\* decide_vin_transition_journal(): an unreadable journal, or an unreadable ConfigBlob beside
\* an armed one, stops the boot.
BootJournal ==
    /\ pc.boot = "journal"
    /\ \E good \in Reads :
        /\ Charge(good)
        /\ Goto(IF good THEN "marker" ELSE "halted")
    /\ UNCHANGED <<durable, ram, handshake, lock, lease, tx, req, madeFor, crashes>>

\* The setup portal runs before the controller exists; it may set the first VIN while no
\* journal is armed, and restarts after a confirmed save.
SetupPortal(v) ==
    /\ pc.boot = "marker"
    /\ vin = NoVin /\ ~txn.armed
    /\ \E w \in Writes :
        /\ Charge(w.ok)
        /\ vin' = Put(vin, v, w)
        /\ IF w.ok THEN PowerUp ELSE UNCHANGED volatile
    /\ UNCHANGED <<key, rec, rot, txn, madeFor, crashes>>

\* recover_pending_key_rotation_at_boot_(): is key_rotate armed?
BootMarker ==
    /\ pc.boot = "marker"
    /\ \E good \in Reads :
        /\ Charge(good)
        /\ Goto(IF ~good THEN "halted" ELSE IF rot THEN "erase" ELSE "load")
        /\ ram' = [ram EXCEPT !.cleanup = good /\ rot]
    /\ tx' = [IdleTx EXCEPT !.i = 1]
    /\ UNCHANGED <<durable, handshake, lock, lease, req, madeFor, crashes>>

\* Mutant: the journal is retired although an erase failed.
BootEraseIgnoresFailures ==
    /\ pc.boot = "erase"
    /\ \E w \in Writes :
        /\ Charge(w.ok)
        /\ rec' = [rec EXCEPT ![Erased[tx.i]] = Put(@, NoOwner, w)]
        /\ tx' = [tx EXCEPT !.i = @ + 1, !.ok = @ /\ w.ok]
        /\ Goto(IF tx.i < 4 THEN "erase" ELSE "unmark")
    /\ UNCHANGED <<key, rot, vin, txn, ram, handshake, lock, lease, req, madeFor, crashes>>

\* run_key_rotation_boot_cleanup(): all four records, whatever became of the one before ...
BootErase ==
    /\ pc.boot = "erase"
    /\ \E w \in Writes :
        /\ Charge(w.ok)
        /\ rec' = [rec EXCEPT ![Erased[tx.i]] = Put(@, NoOwner, w)]
        /\ tx' = [tx EXCEPT !.i = @ + 1, !.ok = @ /\ w.ok]
        /\ Goto(IF tx.i < 4 THEN "erase" ELSE IF tx.ok /\ w.ok THEN "unmark" ELSE "halted")
    /\ UNCHANGED <<key, rot, vin, txn, ram, handshake, lock, lease, req, madeFor, crashes>>

\* ... and the journal only after every erase succeeded.
BootUnmark ==
    /\ pc.boot = "unmark"
    /\ \E w \in Writes :
        /\ Charge(w.ok)
        /\ rot' = Put(rot, FALSE, w)
        /\ Goto(IF w.ok THEN "load" ELSE "halted")
        /\ ram' = [ram EXCEPT !.cleanup = ~w.ok, !.recovered = w.ok]
    /\ UNCHANGED <<key, rec, vin, txn, handshake, lock, lease, tx, req, madeFor, crashes>>

\* VehicleController::init(): load the key and, of the stored sessions, those that parse and
\* have not expired.
BootLoad ==
    /\ pc.boot = "load"
    /\ \/ /\ faults < MaxFaults /\ faults' = faults + 1
          /\ Halt
          /\ UNCHANGED ram
       \/ \E good \in IF key = 0 THEN {TRUE} ELSE Reads :
            LET loaded == IF good THEN key ELSE 0 IN
            /\ Charge(good)
            /\ \E kept \in SUBSET {rec[r] : r \in Sessions} :
                 ram' = [ram EXCEPT !.key = loaded, !.vin = vin, !.safe = loaded # 0,
                                    !.sessions = IF loaded = 0 THEN {} ELSE kept \ {NoOwner}]
            /\ Goto(IF txn.armed THEN "evidence" ELSE "key")
    /\ UNCHANGED <<durable, handshake, lock, lease, tx, req, madeFor, crashes>>

\* decide_vin_transition_recovery(): the 2x2 matrix of VIN and key against the journal.
Recovery ==
    CASE key = txn.key /\ vin = txn.vin -> "clear"
      [] key = txn.key /\ vin # txn.vin -> "rollback"
      [] key # txn.key /\ vin # txn.vin -> "complete"
      [] key # txn.key /\ vin = txn.vin -> "inconsistent"

\* vin_transition_key_evidence_verified(), then the matrix.
BootEvidence ==
    /\ pc.boot = "evidence"
    /\ \E good \in Reads :
        /\ Charge(good)
        /\ Goto(IF good /\ (key # 0 \/ txn.key = 0) THEN Recovery ELSE "halted")
    /\ tx' = [IdleTx EXCEPT !.i = 1]
    /\ UNCHANGED <<durable, ram, handshake, lock, lease, req, madeFor, crashes>>

\* RollBackPreviousVin: the VIN, then the journal, then a restart.
BootRollback ==
    /\ pc.boot = "rollback"
    /\ \E w \in Writes :
        /\ Charge(w.ok)
        /\ vin' = Put(vin, txn.vin, w)
        /\ Goto(IF w.ok THEN "rollbackUnmark" ELSE "halted")
    /\ UNCHANGED <<key, rec, rot, txn, ram, handshake, lock, lease, tx, req, madeFor, crashes>>

\* CompleteNewIdentity: both sessions, paired_at and the BLE MAC (a record with no owner
\* here, so the fourth step erases nothing), then the journal, then a restart.
BootComplete ==
    /\ pc.boot = "complete"
    /\ \E w \in Writes :
        /\ Charge(w.ok)
        /\ rec' = IF tx.i < 4 THEN [rec EXCEPT ![Erased[tx.i]] = Put(@, NoOwner, w)] ELSE rec
        /\ tx' = [tx EXCEPT !.i = @ + 1, !.ok = @ /\ w.ok]
        /\ Goto(IF tx.i < 4 THEN "complete"
                ELSE IF tx.ok /\ w.ok THEN "completeUnmark" ELSE "halted")
    /\ UNCHANGED <<key, rot, vin, txn, ram, handshake, lock, lease, req, madeFor, crashes>>

\* vin_txn is removed; a repaired identity is reloaded by a restart.
BootClear ==
    /\ pc.boot \in {"clear", "rollbackUnmark", "completeUnmark"}
    /\ \E w \in Writes :
        /\ Charge(w.ok)
        /\ txn' = Put(txn, NoTxn, w)
        /\ IF w.ok /\ pc.boot # "clear"
             THEN PowerUp
             ELSE /\ Goto(IF w.ok THEN "key" ELSE "halted")
                  /\ UNCHANGED <<ram, handshake, lock, lease, tx, req>>
    /\ UNCHANGED <<key, rec, rot, vin, madeFor, crashes>>

\* decide_initial_key_boot_action(): an existing key is used (has_key() takes a read error
\* for absence); nothing after a recovered rotation is a halt; a first key may be deferred
\* while an OTA image is on probation.
BootKey ==
    /\ pc.boot = "key"
    /\ \E good \in Reads :
        LET exists == key # 0 /\ good IN
        /\ Charge(good)
        /\ \/ /\ exists \/ ~ram.recovered
              /\ Goto("run")
              /\ UNCHANGED <<lock, lease, tx>>
           \/ /\ ~exists
              /\ ram.recovered \/ key # 0 \/ ~good
              /\ Halt
              /\ UNCHANGED <<lock, lease, tx>>
           \/ /\ key = 0 /\ good /\ ~ram.recovered
              /\ Goto("generate")
              /\ lock' = "boot" /\ lease' = "boot"
              /\ StartTx
    /\ UNCHANGED <<durable, ram, handshake, req, madeFor, crashes>>

\* The initial key: an ambiguous commit restarts once, every other result starts the tasks.
BootGenerated ==
    /\ pc.boot = "generate" /\ tx.pc = "done"
    /\ IF tx.result = "CommitUnknown"
         THEN PowerUp
         ELSE /\ Goto("run")
              /\ lock' = "free" /\ lease' = "free" /\ tx' = IdleTx
              /\ UNCHANGED <<ram, handshake, req>>
    /\ UNCHANGED <<durable, madeFor, faults, crashes>>

BootStep ==
    \/ BootJournal \/ BootMarker \/ BootErase \/ BootUnmark \/ BootLoad \/ BootEvidence
    \/ BootRollback \/ BootComplete \/ BootClear \/ BootKey \/ BootGenerated

----------------------------------------------------------------------------
(* The HTTP worker                                                         *)

Http(step) == pc' = [pc EXCEPT !.http = step]

Release == lock' = "free" /\ lease' = "free" /\ tx' = IdleTx

\* The worker is idle and gets both the lease and command_mutex_.  FreeRTOS wakes a waiting
\* task when the mutex is given but does not hand the mutex over.
HttpFree ==
    /\ Running /\ pc.http = "idle"
    /\ lock = "free" /\ lease = "free"
    /\ Overtaking \/ pc.auto # "clean"

\* POST /gen_keys with its preflight: refused during a VIN transition, answered by a restart
\* when the key must be reloaded, refused over an existing key without force=1, and left to
\* the supervisor while a cleanup is pending.
HttpGenKeys(force) ==
    /\ HttpFree
    /\ ~ram.vinPending
    /\ \/ /\ ram.reload
          /\ Http("restart")
          /\ UNCHANGED <<lock, lease, tx, faults>>
       \/ /\ ~ram.reload /\ ~ram.cleanup
          /\ \E good \in IF force THEN {TRUE} ELSE Reads :
               /\ Charge(good)
               /\ IF good /\ (force \/ key = 0)
                    THEN /\ Http("generate")
                         /\ lock' = "http" /\ lease' = "http"
                         /\ StartTx
                    ELSE UNCHANGED <<pc, lock, lease, tx>>
    /\ UNCHANGED <<durable, ram, handshake, req, madeFor, crashes>>

\* A rotation that may have left the runtime behind is followed by a restart.
HttpGenerated ==
    /\ pc.http = "generate" /\ lock = "http" /\ tx.pc = "done"
    /\ Http(IF tx.result \in {"NotCommitted", "CommitUnknown"} THEN "restart" ELSE "idle")
    /\ Release
    /\ UNCHANGED <<durable, ram, handshake, req, madeFor, faults, crashes>>

\* Mutant: vin_transition_pending_ is not asserted.
HttpSetVinUngated(v) ==
    /\ HttpFree
    /\ v # vin
    /\ ~ram.reload /\ ~ram.cleanup
    /\ \E good \in Reads :
        /\ Charge(good)
        /\ IF good
             THEN /\ Http("stageMarker")
                  /\ lock' = "http" /\ lease' = "http"
                  /\ ram' = [ram EXCEPT !.vinPending = FALSE]
                  /\ req' = [vin |-> v, previous |-> [vin |-> vin, key |-> key]]
             ELSE UNCHANGED <<pc, lock, lease, ram, req>>
    /\ UNCHANGED <<durable, handshake, tx, madeFor, crashes>>

\* POST /set_vin up to reset_for_new_vehicle()'s staging: a pending recovery or an unverified
\* key refuses it; from here to the restart vin_transition_pending_ closes the gate.
HttpSetVin(v) ==
    /\ HttpFree
    /\ v # vin
    /\ ~ram.reload /\ ~ram.cleanup
    /\ \E good \in Reads :
        /\ Charge(good)
        /\ IF good
             THEN /\ Http("stageMarker")
                  /\ lock' = "http" /\ lease' = "http"
                  /\ ram' = [ram EXCEPT !.vinPending = TRUE]
                  /\ req' = [vin |-> v, previous |-> [vin |-> vin, key |-> key]]
             ELSE UNCHANGED <<pc, lock, lease, ram, req>>
    /\ UNCHANGED <<durable, handshake, tx, madeFor, crashes>>

\* The stager: vin_txn first.  If that is not confirmed nothing else is written.
HttpStageMarker ==
    /\ pc.http = "stageMarker"
    /\ \E w \in Writes :
        /\ Charge(w.ok)
        /\ txn' = Put(txn, [armed |-> TRUE, vin |-> req.previous.vin, key |-> req.previous.key], w)
        /\ Http(IF w.ok THEN "stageVin" ELSE "restart")
        /\ lock' = IF w.ok THEN lock ELSE "free"
    /\ UNCHANGED <<key, rec, rot, vin, ram, handshake, lease, tx, req, madeFor, crashes>>

\* Then the ConfigBlob with the new VIN, then the rotation.
HttpStageVin ==
    /\ pc.http = "stageVin"
    /\ \E w \in Writes :
        /\ Charge(w.ok)
        /\ vin' = Put(vin, req.vin, w)
        /\ IF w.ok THEN Http("rotate") /\ StartTx /\ UNCHANGED lock
                   ELSE Http("rollback") /\ lock' = "free" /\ UNCHANGED tx
    /\ UNCHANGED <<key, rec, rot, txn, ram, handshake, lease, req, madeFor, crashes>>

\* decide_vin_transition_apply(): roll back what did not commit, leave an ambiguous commit to
\* the boot, go on to the BLE MAC after a committed one.
HttpRotated ==
    /\ pc.http = "rotate" /\ tx.pc = "done"
    /\ CASE tx.result = "NotCommitted" -> Http("rollback") /\ lock' = "free" /\ tx' = IdleTx
         [] tx.result = "CommitUnknown" -> Http("restart") /\ lock' = "free" /\ tx' = IdleTx
         [] OTHER -> Http("mac") /\ UNCHANGED <<lock, tx>>
    /\ UNCHANGED <<durable, ram, handshake, lease, req, madeFor, faults, crashes>>

\* The old vehicle's MAC is erased; vin_txn is retired only if everything succeeded.
HttpMac ==
    /\ pc.http = "mac"
    /\ \E w \in Writes :
        /\ Charge(w.ok)
        /\ Http(IF w.ok /\ tx.result = "Complete" THEN "unmark" ELSE "restart")
    /\ lock' = "free" /\ tx' = IdleTx
    /\ UNCHANGED <<durable, ram, handshake, lease, req, madeFor, crashes>>

\* StageFailed and RollBackPreviousIdentity: the previous ConfigBlob again.
HttpRollback ==
    /\ pc.http = "rollback"
    /\ \E w \in Writes :
        /\ Charge(w.ok)
        /\ vin' = Put(vin, req.previous.vin, w)
        /\ Http(IF w.ok THEN "unmark" ELSE "restart")
    /\ UNCHANGED <<key, rec, rot, txn, ram, handshake, lock, lease, tx, req, madeFor, crashes>>

\* vin_txn is removed; if that fails the boot does it.
HttpUnmark ==
    /\ pc.http = "unmark"
    /\ \E w \in Writes :
        /\ Charge(w.ok)
        /\ txn' = Put(txn, NoTxn, w)
    /\ Http("restart")
    /\ UNCHANGED <<key, rec, rot, vin, ram, handshake, lock, lease, tx, req, madeFor, crashes>>

\* run_effect_continuation(): IdentityRestart.
HttpRestart ==
    /\ pc.http = "restart"
    /\ PowerUp
    /\ UNCHANGED <<durable, madeFor, faults, crashes>>

\* GET /status, paired_at(): a stored session without a date is seen ...
HttpStatus ==
    /\ Running /\ pc.http = "idle"
    /\ rec["session_vcsec"] # NoOwner /\ rec["paired_at"] = NoOwner
    /\ Http("stampPaired")
    /\ req' = [req EXCEPT !.previous = rec["session_vcsec"]]
    /\ UNCHANGED <<durable, ram, handshake, lock, lease, tx, madeFor, faults, crashes>>

\* ... and dated, without any lock in between.
HttpStampPaired ==
    /\ pc.http = "stampPaired"
    /\ \E w \in Writes :
        /\ Charge(w.ok)
        /\ rec' = [rec EXCEPT !["paired_at"] = Put(@, req.previous, w)]
    /\ Http("idle")
    /\ req' = NoReq
    /\ UNCHANGED <<key, rot, vin, txn, ram, handshake, lock, lease, tx, madeFor, crashes>>

HttpStep ==
    \/ HttpGenerated \/ HttpStageMarker \/ HttpStageVin \/ HttpRotated \/ HttpMac
    \/ HttpRollback \/ HttpUnmark \/ HttpRestart \/ HttpStampPaired

----------------------------------------------------------------------------
(* The auto-pair supervisor                                                *)

AutoPair(step) == pc' = [pc EXCEPT !.auto = step]

\* decide_automatic_key_action().
AutomaticKeyAction(probed, exists, safe, hint) ==
    CASE ~probed -> "StorageUnavailable"
      [] probed /\ exists /\ ~safe -> "RebootRequired"
      [] probed /\ ~(exists /\ ~safe) /\ hint -> "RecoveryRequired"
      [] probed /\ ~hint /\ ~exists -> IF safe THEN "RebootRequired" ELSE "Generate"
      [] OTHER -> "Continue"

\* pairing_recovery_hint_ comes from replies, which need a key to have asked with.
Hints == IF ram.key = 0 THEN {FALSE} ELSE BOOLEAN

\* One round starts only with a plausible VIN and no VIN transition.
AutoLook ==
    /\ Running /\ pc.auto = "idle"
    /\ ram.vin # NoVin /\ ~ram.vinPending
    /\ AutoPair("look")
    /\ UNCHANGED <<durable, ram, handshake, lock, lease, tx, req, madeFor, faults, crashes>>

\* identity_reload_allowed(), evaluated under the lease and the lock.
ReloadAllowed(probed) ==
    /\ ram.automatic /\ ram.reload
    /\ ~ram.vinPending /\ ~ram.cleanup /\ ~ram.recovered
    /\ probed /\ rot

\* automatic_identity_reload_once(): at most one restart for an ambiguous first key.
AutoReload ==
    /\ pc.auto = "look" /\ ram.reload
    /\ \E probed \in Reads :
        /\ Charge(probed)
        /\ IF lock = "free" /\ lease = "free" /\ ReloadAllowed(probed)
             THEN PowerUp
             ELSE /\ AutoPair("idle")
                  /\ ram' = [ram EXCEPT !.safe = FALSE]
                  /\ UNCHANGED <<handshake, lock, lease, tx, req>>
    /\ UNCHANGED <<durable, madeFor, crashes>>

\* A committed rotation whose cleanup failed: only the cleanup is retried.
AutoSeesCleanup ==
    /\ pc.auto = "look" /\ ~ram.reload /\ ram.cleanup
    /\ AutoPair("clean")
    /\ UNCHANGED <<durable, ram, handshake, lock, lease, tx, req, madeFor, faults, crashes>>

AutoClean ==
    /\ pc.auto = "clean" /\ lock = "free"
    /\ AutoPair("cleaning")
    /\ lock' = "auto"
    /\ tx' = [IdleTx EXCEPT !.pc = "reset"]
    /\ UNCHANGED <<durable, ram, handshake, lease, req, madeFor, faults, crashes>>

AutoCleaned ==
    /\ pc.auto = "cleaning" /\ tx.pc = "done"
    /\ AutoPair("idle")
    /\ lock' = "free" /\ tx' = IdleTx
    /\ UNCHANGED <<durable, ram, handshake, lease, req, madeFor, faults, crashes>>

\* The tri-state probe before anything automatic; a read error or a mismatch closes the gate.
AutoProbe ==
    /\ pc.auto = "look" /\ ~ram.reload /\ ~ram.cleanup
    /\ \E probed \in Reads, hint \in Hints :
        LET action == AutomaticKeyAction(probed, key # 0, ram.safe, hint) IN
        /\ Charge(probed)
        /\ AutoPair(IF action = "Generate" THEN "generate" ELSE "idle")
        /\ ram' = [ram EXCEPT !.automatic = FALSE,
                              !.safe = @ /\ action \notin {"StorageUnavailable", "RebootRequired"}]
    /\ UNCHANGED <<durable, handshake, lock, lease, tx, req, madeFor, crashes>>

\* Mutant: the decision taken before the lock is not taken again.
AutoGenerateUnchecked ==
    /\ pc.auto = "generate" /\ lock = "free" /\ lease = "free"
    /\ \/ /\ ram.vinPending \/ ram.reload \/ ram.cleanup
          /\ AutoPair("idle")
          /\ UNCHANGED <<ram, lock, lease, tx, faults>>
       \/ /\ ~(ram.vinPending \/ ram.reload \/ ram.cleanup)
          /\ \E probed \in Reads, hint \in Hints :
               LET action == IF probed THEN "Generate" ELSE "StorageUnavailable" IN
               /\ Charge(probed)
               /\ IF action = "Generate"
                    THEN /\ AutoPair("generating")
                         /\ lock' = "auto" /\ lease' = "auto"
                         /\ StartTx
                         /\ UNCHANGED ram
                    ELSE /\ AutoPair("idle")
                         /\ ram' = [ram EXCEPT !.safe = (action = "Continue")]
                         /\ UNCHANGED <<lock, lease, tx>>
    /\ UNCHANGED <<durable, handshake, req, madeFor, crashes>>

\* generate_key(): everything is sampled again under the lease and the lock.
AutoGenerate ==
    /\ pc.auto = "generate" /\ lock = "free" /\ lease = "free"
    /\ \/ /\ ram.vinPending \/ ram.reload \/ ram.cleanup
          /\ AutoPair("idle")
          /\ UNCHANGED <<ram, lock, lease, tx, faults>>
       \/ /\ ~(ram.vinPending \/ ram.reload \/ ram.cleanup)
          /\ \E probed \in Reads, hint \in Hints :
               LET action == AutomaticKeyAction(probed, key # 0, ram.safe, hint) IN
               /\ Charge(probed)
               /\ IF action = "Generate"
                    THEN /\ AutoPair("generating")
                         /\ lock' = "auto" /\ lease' = "auto"
                         /\ StartTx
                         /\ UNCHANGED ram
                    ELSE /\ AutoPair("idle")
                         /\ ram' = [ram EXCEPT !.safe = (action = "Continue")]
                         /\ UNCHANGED <<lock, lease, tx>>
    /\ UNCHANGED <<durable, handshake, req, madeFor, crashes>>

\* ~AutomaticCommitOrigin: an ambiguous commit is remembered as automatic.
AutoGenerated ==
    /\ pc.auto = "generating" /\ tx.pc = "done"
    /\ AutoPair("idle")
    /\ Release
    /\ ram' = [ram EXCEPT !.automatic = @ \/ ram.reload]
    /\ UNCHANGED <<durable, handshake, req, madeFor, faults, crashes>>

AutoStep ==
    \/ AutoLook \/ AutoReload \/ AutoSeesCleanup \/ AutoClean \/ AutoCleaned \/ AutoProbe
    \/ AutoGenerate \/ AutoGenerated

----------------------------------------------------------------------------
(* vehicle_loop: sessions                                                  *)

\* drive_command_runner_() asks the vehicle for a session, under the gate; without a VIN no
\* vehicle is ever connected.
RequestSession ==
    /\ Signing
    /\ ram.vin # NoVin
    /\ handshake = NoOwner
    /\ handshake' = Me
    /\ UNCHANGED <<durable, pc, ram, lock, lease, tx, req, madeFor, faults, crashes>>

\* establish_verified_session_locked_(): the tag only verifies under the key that asked; the
\* session is used from RAM even when its save is not confirmed.
EstablishSession(r) ==
    /\ Running
    /\ handshake # NoOwner /\ handshake.key = ram.key
    /\ \E w \in Writes :
        /\ Charge(w.ok)
        /\ rec' = [rec EXCEPT ![r] = Put(@, handshake, w)]
    /\ ram' = [ram EXCEPT !.sessions = @ \cup {handshake}]
    /\ handshake' = NoOwner
    /\ UNCHANGED <<key, rot, vin, txn, pc, lock, lease, tx, req, madeFor, crashes>>

\* The request is never answered.
LoseSession ==
    /\ handshake # NoOwner
    /\ handshake' = NoOwner
    /\ UNCHANGED <<durable, pc, ram, lock, lease, tx, req, madeFor, faults, crashes>>

----------------------------------------------------------------------------
(* Resets                                                                  *)

\* Power is lost, anywhere.
PowerLoss ==
    /\ crashes < MaxCrashes
    /\ crashes' = crashes + 1
    /\ PowerUp
    /\ UNCHANGED <<durable, madeFor, faults>>

\* boot_fatal() parks the device until somebody resets it.
Reset ==
    /\ pc.boot \in {"halted", "inconsistent"}
    /\ PowerUp
    /\ UNCHANGED <<durable, madeFor, faults, crashes>>

Next ==
    \/ TxStep \/ BootStep \/ HttpStep \/ AutoStep
    \/ \E v \in Vins : SetupPortal(v) \/ HttpSetVin(v)
    \/ \E force \in BOOLEAN : HttpGenKeys(force)
    \/ HttpStatus
    \/ RequestSession \/ LoseSession \/ \E r \in Sessions : EstablishSession(r)
    \/ PowerLoss \/ Reset

Spec == Init /\ [][Next]_vars

\* FreeRTOS keeps scheduling every task, and a parked device is power-cycled; requests,
\* replies and power losses are owed nothing.
FairSpec ==
    /\ Spec
    /\ WF_vars(TxStep) /\ WF_vars(BootStep) /\ WF_vars(HttpStep) /\ WF_vars(AutoStep)
    /\ WF_vars(Reset)

----------------------------------------------------------------------------
(* Properties                                                              *)

\* Whatever a save or an erase did and wherever power was lost, the device signs only with
\* the key that is in flash, for the VIN that is in flash, and with sessions of exactly that
\* key and VIN (key_runtime_safe_, vin_transition_pending_, clear_session_and_cache_).
SigningIdentity ==
    Signing =>
        /\ ram.key # 0
        /\ ram.key = key
        /\ ram.vin = vin
        /\ ram.sessions \subseteq {Me}

\* While neither journal is armed, the sessions in flash belong to the key and the VIN in
\* flash, and the key's creation date is that key's: a reboot has nothing left to repair
\* (generate_key_locked_, reset_for_new_vehicle, the boot recovery).
JournalsCoverTears ==
    ~rot /\ ~txn.armed =>
        /\ \A r \in Sessions : rec[r] \in {NoOwner, [vin |-> vin, key |-> key]}
        /\ rec["key_created"].key \in {0, key}

\* A key generated for one vehicle is never paired with another VIN once the tasks run: the
\* VIN transaction either completes or is rolled back as a whole (a key from before the first
\* VIN is adopted by it).
KeyFollowsVehicle ==
    Running /\ ~ram.vinPending => 
        /\ ~txn.armed
        /\ key # 0 => madeFor[key] \in {vin, NoVin}

\* The fourth quadrant of decide_vin_transition_recovery(), a changed key beside an unchanged
\* VIN, needs a write order the firmware does not have: no boot halts on it.
NeverInconsistent == pc.boot # "inconsistent"

\* Neither the supervisor nor the first-boot path ever replaces a key that is in flash; only
\* an explicit request does (decide_automatic_key_action, decide_key_generation_preflight).
OnlyRequestsReplace ==
    [][key # 0 /\ key' # key => lock = "http"]_vars

\* An unconfirmed key commit stops signing and rotation until the boot reloads storage:
\* within one boot key_reload_required_ is never taken back.
ReloadNeedsBoot ==
    [][Running /\ ram.reload => ram'.reload \/ ~Running']_vars

\* An armed key_rotate journal of a configured device is eventually retired: by the rotation
\* itself, by the supervisor's retries or by the boot recovery, also after parked boots.  The
\* exception is the documented fail-closed stop: a second ambiguous first-key commit.
JournalRetires ==
    (rot /\ vin # NoVin) ~> (~rot \/ (Running /\ ram.reload /\ ram.recovered))

\* The VIN journal is always resolved.
TransitionResolves == txn.armed ~> ~txn.armed

\* What holds of VIN and key over every crash and failed write of the two-
\* namespace transaction (main.cpp:667): well typed, the key in flash belongs
\* to the VIN in flash, and boot never finds a pair it cannot explain.
IdentitySafe == TypeOK /\ KeyFollowsVehicle /\ NeverInconsistent

----------------------------------------------------------------------------
(* The inductive invariant.  It holds while no request overtakes a         *)
(* supervisor that has decided to retry the cleanup (Overtaking = FALSE).  *)

\* generate_key_locked_ and its cleanup run for exactly one task, the holder of command_mutex_,
\* and whoever may replace a key or the VIN holds the identity lease.
LockOrder ==
    /\ lock = "boot" <=> pc.boot = "generate"
    /\ lock = "http" <=> pc.http \in {"generate", "stageMarker", "stageVin", "rotate", "mac"}
    /\ lock = "auto" <=> pc.auto \in {"generating", "cleaning"}
    /\ tx.pc = "none" <=> lock = "free" \/ pc.http \in {"stageMarker", "stageVin"}
    /\ pc.http # "idle" \/ pc.auto # "idle" => Running
    /\ pc.http \in {"generate", "stageMarker", "stageVin", "rotate", "mac", "rollback", "unmark"}
       => lease = "http"
    /\ pc.auto = "generating" => lease = "auto"
    /\ pc.auto = "cleaning" => tx.pc \in {"reset", "erase", "date", "journal", "done"}
    /\ ram.vinPending => pc.http \in {"stageMarker", "stageVin", "rotate", "mac", "rollback",
                                      "unmark", "restart"}
                         /\ lease = "http"
    /\ pc.http \in {"stageMarker", "stageVin", "rotate", "mac", "rollback", "unmark"}
       => ram.vinPending

\* Before its key is written a rotation has changed nothing; then the runtime has the new key,
\* or does not know and says so.
Untouched == tx.pc \in {"marker", "probe", "regenerate"}
             \/ (tx.pc = "done" /\ tx.result = "NotCommitted")

Committed == tx.pc \in {"stamp", "retire", "reset", "erase", "date", "journal"}
             \/ (tx.pc = "done" /\ tx.result \in {"CleanupPending", "Complete"})

Unknown == tx.pc = "flush" \/ (tx.pc = "done" /\ tx.result = "CommitUnknown")

\* A session record that the journals still allow: it belongs to the key in flash, and to the
\* VIN that was in flash before a transition.
Own(o) ==
    \/ o = NoOwner
    \/ txn.armed /\ key = txn.key /\ o = [vin |-> txn.vin, key |-> key]
    \/ ~txn.armed /\ o = [vin |-> vin, key |-> key]

\* What flash holds at any moment.
Flash ==
    /\ key # 0 /\ (txn.armed => key # txn.key) => madeFor[key] \in {vin, NoVin}
    /\ txn.armed /\ key # txn.key => key # 0 /\ vin # txn.vin
    /\ txn.armed /\ txn.key # 0 => madeFor[txn.key] \in {txn.vin, NoVin}
    /\ ~rot => rec["key_created"].key \in {0, key} /\ \A r \in Sessions : Own(rec[r])
    /\ \A r \in Sessions : rec[r] # NoOwner => rec[r].key # 0 /\ rec[r].vin # NoVin

\* A VIN transition of the HTTP worker, step by step.
Transition ==
    /\ pc.http = "stageMarker" => ~txn.armed /\ req.previous = [vin |-> vin, key |-> key]
                                  /\ req.vin # vin
    /\ pc.http = "stageVin" => /\ req.vin # vin /\ vin = txn.vin /\ key = txn.key
    /\ pc.http \in {"stageVin", "rotate", "mac", "rollback", "unmark"} => txn.armed
    /\ pc.http \in {"stageVin", "rotate", "rollback"} => req.previous.vin = txn.vin
    /\ pc.http = "rotate" => vin # txn.vin
                             /\ (Untouched => key = txn.key) /\ (Committed => key # txn.key)
    /\ pc.http = "mac" => key # txn.key /\ Committed /\ tx.pc = "done"
    /\ pc.http = "rollback" => key = txn.key
    /\ pc.http = "unmark" /\ key = txn.key => vin = txn.vin

\* What boot has established when it comes to a step.
Booting ==
    /\ pc.boot = "erase" =>
          tx.i <= 4 /\ (tx.ok => \A j \in 1..4 : j < tx.i => rec[Erased[j]] = NoOwner)
    /\ pc.boot = "unmark" => \A r \in Records : rec[r] = NoOwner
    /\ pc.boot \in {"load", "evidence", "rollback", "complete", "clear", "rollbackUnmark",
                    "completeUnmark", "key"} => ~rot /\ ~ram.cleanup
    /\ pc.boot \in {"evidence", "rollback", "complete", "clear", "rollbackUnmark",
                    "completeUnmark"} => txn.armed
    /\ pc.boot \in {"rollback", "clear", "rollbackUnmark"} => key = txn.key
    /\ pc.boot \in {"clear", "rollbackUnmark"} => vin = txn.vin
    /\ pc.boot \in {"complete", "completeUnmark"} => key # txn.key
    /\ pc.boot = "complete" => tx.i <= 4
    /\ pc.boot \in {"key", "generate", "run"} /\ ~ram.vinPending => ~txn.armed
    /\ pc.boot # "run" => handshake = NoOwner
    /\ pc.boot \notin {"generate", "run"} => ~ram.reload /\ ~ram.untrusted
    /\ pc.boot \in {"evidence", "clear", "key"} =>
          /\ ram.vin = vin /\ ram.key \in {0, key} /\ ram.safe = (ram.key # 0)
          /\ ram.key = 0 => ram.sessions = {}
    /\ pc.boot \in {"evidence", "clear"} =>
          ram.sessions \subseteq {[vin |-> txn.vin, key |-> txn.key]}
    /\ pc.boot # "inconsistent"

Loaded == pc.boot \in {"key", "generate", "run"}

KeyIsFlash == ram.key = key /\ key # 0 /\ ~ram.reload

\* What the controller holds, once loaded.
Runtime ==
    /\ Loaded =>
          /\ ram.key \in {0, key} \/ ram.reload
          /\ ram.safe \/ ram.cleanup \/ Committed \/ pc.auto \in {"clean", "cleaning"}
             => KeyIsFlash
          /\ ram.reload \/ ram.untrusted => rot
          /\ ram.untrusted => ram.cleanup
          /\ ~ram.vinPending \/ pc.http = "stageMarker" => ram.vin = vin
          /\ txn.armed => ram.vin = txn.vin
          /\ ~ram.cleanup /\ ~ram.reload => ram.sessions \subseteq {Me}
          /\ ~ram.reload /\ ~ram.untrusted /\ tx.pc \notin {"stamp", "retire"}
             => rec["key_created"].key \in {0, key}
    /\ pc.http \in {"stageMarker", "stageVin"} \/ Untouched
       => ~ram.reload /\ ~ram.cleanup /\ pc.auto \notin {"clean", "cleaning"}
    /\ pc.http \in {"rollback", "unmark"} => ~ram.reload

\* The rotation itself.
Rotation ==
    /\ tx.pc = "regenerate" => rot /\ ~ram.safe
    /\ tx.pc = "probe" /\ tx.wasSafe => ram.key = key /\ key # 0
    /\ Unknown => ram.reload
    /\ tx.pc \in {"stamp", "retire"} => ram.cleanup /\ rot
    /\ tx.pc = "journal" => ~ram.untrusted
    /\ tx.pc = "erase" => tx.i <= 3
    /\ tx.pc = "date" => tx.result = "CleanupPending"
    /\ tx.pc = "done" => tx.result # "None"
    /\ tx.pc = "erase" /\ tx.ok => /\ ram.sessions \subseteq {Me}
                                   /\ \A j \in 1..2 : j < tx.i => Own(rec[Erased[j]])
    /\ tx.pc \in {"date", "journal"} => /\ ram.sessions \subseteq {Me}
                                        /\ \A r \in Sessions : Own(rec[r])
    /\ lock \in {"boot", "auto"} /\ tx.pc \in {"marker", "probe", "regenerate"} => key = 0

\* A request whose reply the key in RAM would verify was made for the VIN in flash.
Handshake ==
    handshake # NoOwner =>
        /\ handshake.key # 0 /\ handshake.vin # NoVin
        /\ handshake.key = ram.key =>
              /\ handshake.vin = ram.vin
              /\ txn.armed => ram.key = txn.key
              /\ ~txn.armed => ram.vin = vin

IdentityInv ==
    /\ LockOrder
    /\ Flash
    /\ Transition
    /\ Booting
    /\ Runtime
    /\ Rotation
    /\ Handshake

=============================================================================
