----------------------------- MODULE WifiTrial -----------------------------
(***************************************************************************)
(* The trial of a new pair of Wi-Fi credentials over several boots: the    *)
(* POST /set_wifi handler that stages it, the boot window of               *)
(* net_start_wifi() with its reason-aware deadline, the commit or the      *)
(* rollback in app_main(), and the setup portal (net.cpp, main.cpp,        *)
(* http_config.cpp, provisioning.cpp, logic/wifi_rollback.hpp).            *)
(*                                                                         *)
(* The configuration is one blob in flash, replaced as a whole; a write    *)
(* that reports failure may have landed.  The board may be reset at any    *)
(* step.  Ethernet is a cable that may bring a lease at any time.          *)
(***************************************************************************)
EXTENDS Naturals

CONSTANTS Pairs,        \* pairs of ssid and password
          MaxRetry,     \* MAX_RETRY: 10 attempts before the first lease
          GraceChecks,  \* kWifiRollbackGraceS / kWifiBootWindowS: 6
          MaxResets,    \* bound on power losses
          MaxWired      \* bound on leases the cable brings

NoPair == "none"
kWifiAuthToRollback == 2

ASSUME TrialAssumption ==
    /\ NoPair \notin Pairs
    /\ MaxRetry \in Nat
    /\ GraceChecks \in Nat \ {0}
    /\ MaxResets \in Nat
    /\ MaxWired \in Nat

VARIABLES
    blob,     \* the ConfigBlob in flash
    ram,      \* cfg_blob: the copy app_main() loaded at this boot
    stage,    \* where app_main() is
    sta,      \* the station: off, connecting, associated, up, paused, spent
    reason,   \* class of s_last_disco_reason
    watch,    \* RollbackWatch::auth and the number of checkpoints passed
    wired,    \* s_eth_lease
    retries,  \* s_retry_num
    joined,   \* WIFI_CONNECTED_BIT, and s_wifi_ever_up
    trial,    \* what this window has really seen, see below
    good,     \* the pair net_start_wifi() last returned true for
    residual, \* that proof could not be persisted
    resets, wires

trialVars == <<blob, ram, stage, sta, reason, watch, wired, retries, joined,
               trial, good, residual, resets, wires>>
radio == <<sta, reason, retries, joined>>
ghosts == <<trial, good, residual>>
bounds == <<resets, wires>>

\* disco_class(); its ApAbsent and Other are not told apart by any decision.
Classes == {"None", "Auth", "Other"}

Stages == {"reset", "wire", "window", "decide", "restore", "restart",
           "commit", "portal", "terminal", "running"}
Blobs == [cur : Pairs \cup {NoPair}, bak : Pairs \cup {NoPair},
          armed : BOOLEAN, rolled : BOOLEAN]

\* heard: an attempt ended in this window; refused: in how many windows on end
\* the last attempt was refused; paused: Ethernet stopped the attempts.
FreshTrial == [heard |-> FALSE, refusedNow |-> FALSE, refused |-> 0,
               paused |-> FALSE]

----------------------------------------------------------------------------
(* The blob.                                                               *)

\* cfg_save(): a save that reports failure may have landed.
cfg_save(new, ok) == blob' \in {new, blob} /\ (ok => blob' = new)

stage_wifi_change_always(cfg, pair) ==
    LET keep == cfg.cur = NoPair
    IN [cur |-> pair,
        bak |-> IF keep THEN cfg.bak ELSE cfg.cur,
        armed |-> cfg.armed \/ ~keep,
        rolled |-> FALSE]

\* The backup is taken only when no change is already on trial.
stage_wifi_change(cfg, pair) ==
    LET keep == cfg.armed \/ cfg.cur = NoPair
    IN [cur |-> pair,
        bak |-> IF keep THEN cfg.bak ELSE cfg.cur,
        armed |-> cfg.armed \/ ~keep,
        rolled |-> FALSE]

\* The portal replaces the pair and leaves nothing to go back to.
config_apply_setup_wifi(pair) ==
    [cur |-> pair, bak |-> NoPair, armed |-> FALSE, rolled |-> FALSE]

Restored(cfg) == [cur |-> cfg.bak, bak |-> NoPair, armed |-> FALSE,
                  rolled |-> TRUE]

Committed(cfg) == [cfg EXCEPT !.bak = NoPair, !.armed = FALSE]

----------------------------------------------------------------------------
(* The station and the cable, as their event handlers see them.            *)

\* s_rollback_active: net_start_wifi() is inside the trial's loop.
RollbackActive == stage = "window" /\ ram.armed

wifi_retry_action ==
    IF wired THEN "PauseForEthernet"
    ELSE IF ~joined /\ ~RollbackActive /\ retries >= MaxRetry
    THEN "Exhausted" ELSE "Retry"

Retrying ==
    /\ retries' = IF retries < MaxRetry THEN retries + 1 ELSE retries
    /\ sta' = "connecting"

\* WIFI_EVENT_STA_DISCONNECTED: an attempt failed or an association ended.
StaDisconnected ==
    /\ sta \in {"connecting", "associated", "up"}
    /\ reason' \in Classes \ {"None"}
    /\ \/ wifi_retry_action = "Retry" /\ Retrying
       \/ /\ wifi_retry_action # "Retry"
          /\ sta' = IF wired THEN "paused" ELSE "spent"
          /\ UNCHANGED retries
    /\ trial' = [trial EXCEPT !.heard = TRUE,
                              !.refusedNow = (reason' = "Auth"),
                              !.paused = @ \/ wired]
    /\ UNCHANGED <<blob, ram, stage, watch, wired, joined, good, residual,
                   bounds>>

StaConnectedKeeps ==
    /\ sta = "connecting"
    /\ sta' = "associated"
    /\ reason' = reason
    /\ trial' = [trial EXCEPT !.heard = TRUE, !.refusedNow = FALSE]
    /\ UNCHANGED <<blob, ram, stage, watch, wired, retries, joined, good,
                   residual, bounds>>

\* WIFI_EVENT_STA_CONNECTED: the story of the last refusal is over.
StaConnected ==
    /\ sta = "connecting"
    /\ sta' = "associated"
    /\ reason' = "None"
    /\ trial' = [trial EXCEPT !.heard = TRUE, !.refusedNow = FALSE]
    /\ UNCHANGED <<blob, ram, stage, watch, wired, retries, joined, good,
                   residual, bounds>>

\* IP_EVENT_STA_GOT_IP.
StaGotIp ==
    /\ sta = "associated"
    /\ sta' = "up"
    /\ reason' = "None"
    /\ retries' = 0
    /\ joined' = TRUE
    /\ UNCHANGED <<blob, ram, stage, watch, wired, ghosts, bounds>>

\* IP_EVENT_ETH_GOT_IP.
EthGotIp ==
    /\ ~wired
    /\ stage # "reset"
    /\ wires < MaxWired
    /\ wires' = wires + 1
    /\ wired' = TRUE
    /\ UNCHANGED <<blob, ram, stage, radio, watch, ghosts, resets>>

\* ETHERNET_EVENT_DISCONNECTED: a started station without a lease is re-armed.
EthDisconnected ==
    /\ wired
    /\ stage # "reset"
    /\ wired' = FALSE
    /\ sta' = IF sta \in {"paused", "spent"} THEN "connecting" ELSE sta
    /\ UNCHANGED <<blob, ram, stage, reason, watch, retries, joined, ghosts,
                   bounds>>

----------------------------------------------------------------------------
(* app_main().                                                             *)

\* Boot: the blob is loaded and the wire is tried first.
Load ==
    /\ stage = "reset"
    /\ ram' = blob
    /\ stage' = "wire"
    /\ UNCHANGED <<blob, radio, watch, wired, ghosts, bounds>>

\* A lease on the wire leaves the radio off.  Without one the stored pair is
\* tried, or the portal opened when there is none.
WireFirst ==
    /\ stage = "wire"
    /\ watch' = [auth |-> 0, checks |-> 0]
    /\ trial' = FreshTrial
    /\ \/ wired /\ stage' = "commit" /\ UNCHANGED sta
       \/ /\ ~wired
          /\ IF ram.cur = NoPair
             THEN stage' = "portal" /\ UNCHANGED sta
             ELSE stage' = "window" /\ sta' = "connecting"
    /\ UNCHANGED <<blob, ram, reason, wired, retries, joined, good, residual,
                   bounds>>

\* The connected bit ends either loop.  The proof of a trial is a residual
\* until its end is persisted.
Proven ==
    /\ stage = "window"
    /\ joined
    /\ stage' = "commit"
    /\ good' = ram.cur
    /\ residual' = ram.armed
    /\ UNCHANGED <<blob, ram, radio, watch, wired, trial, bounds>>

\* Without a trial: one window, or the attempts are spent before it ends.
WindowOver ==
    /\ stage = "window"
    /\ ~ram.armed
    /\ ~joined
    /\ stage' = "decide"
    /\ UNCHANGED <<blob, ram, radio, watch, wired, ghosts, bounds>>

\* rollback_step(): refused at two checkpoints on end, or the grace is spent.
rollback_step(w, class) ==
    LET auth == IF class = "Auth" THEN w.auth + 1 ELSE 0
    IN [auth |-> auth, checks |-> w.checks + 1,
        back |-> auth >= kWifiAuthToRollback \/ w.checks + 1 >= GraceChecks]

\* A checkpoint of the trial.  An attempt takes a few seconds, so a window
\* of 30 in which the station was trying has heard the end of one.
Checkpoint ==
    /\ stage = "window"
    /\ ram.armed
    /\ ~joined
    /\ trial.heard \/ sta # "connecting"
    /\ LET step == rollback_step(watch, reason)
       IN /\ watch' = [auth |-> step.auth, checks |-> step.checks]
          /\ stage' = IF step.back THEN "restore" ELSE "window"
    /\ trial' = [trial EXCEPT !.heard = FALSE, !.refusedNow = FALSE,
                    !.refused = IF trial.refusedNow THEN @ + 1 ELSE 0]
    /\ UNCHANGED <<blob, ram, radio, wired, good, residual, bounds>>

\* The rollback: it restarts only when the restored pair was persisted; the
\* gate of config restarts may be taken, which leaves everything alone.
Restore ==
    /\ stage = "restore"
    /\ \/ /\ ram' = Restored(ram)
          /\ \E ok \in BOOLEAN :
                /\ cfg_save(Restored(ram), ok)
                /\ stage' = IF ok THEN "restart" ELSE "decide"
       \/ UNCHANGED <<blob, ram>> /\ stage' = "decide"
    /\ UNCHANGED <<radio, watch, wired, ghosts, bounds>>

\* The last look: any lease keeps the device up; a failed trial gets the
\* terminal portal, stored credentials the one that retries them.
Decide ==
    /\ stage = "decide"
    /\ stage' = IF wired \/ sta = "up" THEN "running"
                ELSE IF watch.checks > 0 THEN "terminal" ELSE "portal"
    /\ sta' = IF stage' = "terminal" THEN "off" ELSE sta
    /\ UNCHANGED <<blob, ram, reason, watch, wired, retries, joined, ghosts,
                   bounds>>

\* net_wifi_retry_station() from the portal's loop.
PortalRetries ==
    /\ stage = "portal"
    /\ sta \in {"paused", "spent"}
    /\ sta' = "connecting"
    /\ UNCHANGED <<blob, ram, stage, reason, watch, wired, retries, joined,
                   ghosts, bounds>>

\* The portal closes its access point and the boot goes on.
PortalLeaves ==
    /\ stage = "portal"
    /\ wired \/ sta = "up"
    /\ stage' = "running"
    /\ UNCHANGED <<blob, ram, radio, watch, wired, ghosts, bounds>>

\* wifi_proven, with no unpersisted rollback: this stage is reached only so.
wifi_trial_can_commit == joined

\* Only an association on the radio ends the trial; a lost write leaves it
\* armed until a later boot persists the end.
Commit ==
    /\ stage = "commit"
    /\ stage' = "running"
    /\ IF wifi_trial_can_commit /\ ram.armed
       THEN /\ ram' = Committed(ram)
            /\ \E ok \in BOOLEAN : cfg_save(Committed(ram), ok)
            /\ residual' = blob'.armed
       ELSE UNCHANGED <<blob, ram, residual>>
    /\ UNCHANGED <<radio, watch, wired, trial, good, bounds>>

----------------------------------------------------------------------------
(* The two ways to change the pair, and the end of a boot.                 *)

\* POST /set_wifi: built on the stored blob, not on the boot's copy.  The
\* restart follows a confirmed save and may still be lost.
SetWifi(pair) ==
    /\ stage = "running"
    /\ pair # blob.cur
    /\ \E ok \in BOOLEAN :
          /\ cfg_save(stage_wifi_change(blob, pair), ok)
          /\ \/ ok /\ stage' = "restart"
             \/ stage' = "running"
    /\ UNCHANGED <<ram, radio, watch, wired, ghosts, bounds>>

\* The form of either portal; what was stored before is given up by choice.
PortalSave(pair) ==
    /\ stage \in {"portal", "terminal"}
    /\ \E ok \in BOOLEAN :
          /\ cfg_save(config_apply_setup_wifi(pair), ok)
          /\ \/ ok /\ stage' = "restart"
             \/ UNCHANGED stage
    /\ good' = IF blob' = config_apply_setup_wifi(pair) THEN NoPair ELSE good
    /\ UNCHANGED residual
    /\ UNCHANGED <<ram, radio, watch, wired, trial, bounds>>

Off ==
    /\ stage' = "reset"
    /\ sta' = "off"
    /\ reason' = "None"
    /\ retries' = 0
    /\ joined' = FALSE
    /\ wired' = FALSE
    /\ watch' = [auth |-> 0, checks |-> 0]
    /\ trial' = FreshTrial
    /\ UNCHANGED <<blob, ram, good, residual>>

\* esp_restart(), and a power loss at any other moment.
Restart == stage = "restart" /\ Off /\ UNCHANGED bounds

PowerLoss ==
    /\ stage \notin {"reset", "restart"}
    /\ resets < MaxResets
    /\ resets' = resets + 1
    /\ Off
    /\ UNCHANGED wires

----------------------------------------------------------------------------
\* A new board, or one on which a pair has been proven.
TrialInit ==
    /\ good \in Pairs \cup {NoPair}
    /\ blob = [cur |-> good, bak |-> NoPair, armed |-> FALSE, rolled |-> FALSE]
    /\ ram = blob
    /\ stage = "reset"
    /\ sta = "off"
    /\ reason = "None"
    /\ watch = [auth |-> 0, checks |-> 0]
    /\ wired = FALSE
    /\ retries = 0
    /\ joined = FALSE
    /\ trial = FreshTrial
    /\ residual = FALSE
    /\ resets = 0
    /\ wires = 0

BootSteps == \/ Load \/ WireFirst \/ Proven \/ WindowOver \/ Checkpoint
             \/ Restore \/ Decide \/ Commit \/ Restart

Station == StaDisconnected \/ StaConnected \/ StaGotIp

TrialNext ==
    \/ BootSteps \/ PortalRetries \/ PortalLeaves
    \/ Station
    \/ EthGotIp \/ EthDisconnected
    \/ \E pair \in Pairs : SetWifi(pair) \/ PortalSave(pair)
    \/ PowerLoss

TrialSpec == TrialInit /\ [][TrialNext]_trialVars

\* app_main() and the station's driver keep running.
TrialFairness == WF_trialVars(BootSteps) /\ WF_trialVars(Station)

----------------------------------------------------------------------------
TrialTypeOK ==
    /\ blob \in Blobs
    /\ ram \in Blobs
    /\ stage \in Stages
    /\ sta \in {"off", "connecting", "associated", "up", "paused", "spent"}
    /\ reason \in Classes
    /\ watch \in [auth : 0..kWifiAuthToRollback, checks : 0..GraceChecks]
    /\ wired \in BOOLEAN
    /\ retries \in 0..MaxRetry
    /\ joined \in BOOLEAN
    /\ trial \in [heard : BOOLEAN, refusedNow : BOOLEAN,
                  refused : 0..GraceChecks, paused : BOOLEAN]
    /\ good \in Pairs \cup {NoPair}
    /\ residual \in BOOLEAN
    /\ resets \in 0..MaxResets
    /\ wires \in 0..MaxWired

\* Across any sequence of /set_wifi, boots, resets, lost writes and cables,
\* flash keeps the pair that last joined a network, as the current pair or as
\* an armed backup.  The one exception is the documented residual: a proof
\* whose record could not be persisted (stage_wifi_change()).
WayBackIsKept ==
    good # NoPair /\ ~residual =>
        good = blob.cur \/ (blob.armed /\ good = blob.bak)

\* As long as Ethernet has not stopped the attempts, a trial is cut short
\* only by a refusal that was the last word of two windows in a row.
RefusalIsSustainedOnAir ==
    [][/\ stage = "window"
       /\ stage' = "restore"
       /\ watch'.checks < GraceChecks
       /\ ~trial.paused
       => trial'.refused >= kWifiAuthToRollback]_trialVars

\* What net.cpp says of every trial: only an access point that sustains an
\* authentication refusal across two checkpoints spends the credentials.
RefusalIsSustained ==
    [][/\ stage = "window"
       /\ stage' = "restore"
       /\ watch'.checks < GraceChecks
       => trial'.refused >= kWifiAuthToRollback]_trialVars

\* No boot loop: whatever writes fail, the device ends up in service, in a
\* portal or still trying, and never restarts for ever.
BootsEnd == []<>(stage \in {"running", "portal", "terminal"})

\* What holds of a credential trial at every instant, power losses included:
\* well typed, and the last proven pair is the backup.
TrialSafe == TrialTypeOK /\ WayBackIsKept

=============================================================================
