------------------------------ MODULE Bootstrap ------------------------------
(***************************************************************************)
(* The initialization transaction (src/src/fun_voice/bootstrap.py, the     *)
(* manifest of runtime_selection.py and the steps of install-user.sh).     *)
(*                                                                         *)
(* A run holds .initialize.lock (a crash frees it), so runs never overlap. *)
(* It builds a candidate runtime and candidate models under a fresh token, *)
(* records the deployment in force in a journal, then moves directories,   *)
(* files and units to the new generation one system call at a time, and    *)
(* removes the journal.  Every error or interrupt unwinds through the      *)
(* handlers of the code; a crash leaves the disk as it is, and the next    *)
(* run restores the journalled deployment first.                           *)
(*                                                                         *)
(* One action is one system call or one systemctl command (but for the     *)
(* loops over worker units, StopWorkers, RetireLegacyWorker and            *)
(* RestoreServices, which are one each), so a fault can fall between any   *)
(* two.  A directory is named by the token of the candidate that built it; *)
(* its generation is that token.                                           *)
(***************************************************************************)
EXTENDS Integers, FiniteSets, Sequences

CONSTANTS
  Backends, Keys, Policy, Files, LegacyUnit, Deployments, None,
  CandidateLists,   \* what candidate_backends may return
  MaxRuns,          \* bound: runs started
  MaxFaults         \* bound: errors, interrupts and crashes in all

Units == {"daemon", "worker", "legacy"}
Tokens == 0..(MaxRuns * Cardinality(Backends))
Manifests == {None} \union [backend : Backends, gen : Tokens]
Versions == Tokens \union {None}
Journals ==
  [manifest : Manifests, services : [active : SUBSET Units, enabled : SUBSET Units],
   bindings : [Files -> Versions], token : Tokens, keys : SUBSET Keys, had : SUBSET Keys]

\* candidate_backends names no backend twice.  The machine before the first run
\* holds generation 0; a manifest there is the one of a run that succeeded.
ASSUME BootstrapConstants ==
  /\ IsFiniteSet(Backends)
  /\ Policy \in [Backends -> SUBSET Keys]
  /\ LegacyUnit \in Files
  /\ \A list \in CandidateLists :
       list \in Seq(Backends) /\ Len(list) <= Cardinality(Backends)
  /\ MaxRuns \in Nat /\ MaxFaults \in Nat
  /\ None \notin Nat /\ None \notin [backend : Backends, gen : Nat]
  /\ None \notin Journals
  /\ \A d \in Deployments :
       /\ d.manifest \in {None} \union [backend : Backends, gen : {0}]
       /\ d.master \in [Keys -> {0, None}] /\ d.bindings \in [Files -> {0, None}]
       /\ d.enabled \subseteq Units /\ d.active \subseteq Units
       /\ d.manifest # None => \A k \in Policy[d.manifest.backend] : d.master[k] = 0

Workers == {"worker", "legacy"}
Idle == "idle"

VARIABLES
  \* what survives a crash
  manifest,      \* runtime/selection.json
  runtimes,      \* generations under runtimes/<backend>-<token>
  candRuntimes,  \* tokens under runtimes/.candidate-<backend>-<token>
  candModels,    \* <<token, key>> under model-candidates/<token>
  master,        \* generation of models/<key>/snapshots/master
  backups,       \* .previous-master-<token>: [token, key, gen]
  bindings,      \* generation of each deployed file
  enabled,       \* units enabled at login
  active,        \* units running
  journal,       \* .initialization-transaction.json
  \* what a run keeps in memory
  pc,            \* the next step of the run, Idle between runs
  mode,          \* run, recover (journal found) or rollback (in the handler)
  force,         \* --force-reselect
  prev,          \* the manifest loaded by this run
  todo,          \* candidate backends not tried yet
  backend,       \* the candidate being built or installed
  promoted,      \* keys in `promotions`
  left,          \* what the current loop has still to do
  broken,        \* the handler itself failed (rollback_error)
  \* counters and history
  token,         \* candidates built so far; the current one's token
  firstToken,    \* the first token of this run
  runs, faults,
  outcome        \* how the last run ended

candidates == <<candRuntimes, candModels>>
models == <<master, backups>>
units == <<enabled, active>>
disk == <<manifest, runtimes, candidates, models, bindings>>
durable == <<disk, units, journal>>
setup == <<force, firstToken, runs>>
choice == <<prev, todo, backend, token>>
loop == <<promoted, left>>
memory == <<mode, broken, setup, choice, faults, outcome>>
vars == <<durable, pc, loop, memory>>

Backup(t, k) == {b \in backups : b.token = t /\ b.key = k}

\* _read_transaction_journal: there is none, or one written whole (os.replace).
Pending == journal # None

\* The interpreter a manifest names is there (_validate_python_path).
Usable(m) == m.gen \in runtimes

Init ==
  /\ \E d \in Deployments :
       /\ manifest = d.manifest
       /\ runtimes = IF d.manifest = None THEN {} ELSE {d.manifest.gen}
       /\ master = d.master
       /\ bindings = d.bindings
       /\ enabled = d.enabled
       /\ active = d.active
  /\ candRuntimes = {} /\ candModels = {} /\ backups = {}
  /\ journal = None
  /\ pc = Idle /\ mode = "run" /\ force = FALSE /\ prev = None
  /\ todo = <<>> /\ backend = None /\ promoted = {} /\ left = {}
  /\ broken = FALSE
  /\ token = 0 /\ firstToken = 1 /\ runs = 0 /\ faults = 0
  /\ outcome = "none"

-----------------------------------------------------------------------------
(* Control: each step of the transaction names the one after it. *)

At(step) == pc = step

Goto(step) ==
  /\ pc' = step
  /\ UNCHANGED memory

End(result) ==
  /\ pc' = Idle
  /\ outcome' = result
  /\ promoted' = {} /\ left' = {}
  /\ UNCHANGED <<mode, broken, setup, choice, faults>>

\* A run starts; _read_transaction_journal decides whether it recovers first.
Begin ==
  /\ pc = Idle /\ runs < MaxRuns
  /\ runs' = runs + 1
  /\ force' \in BOOLEAN
  /\ todo' \in CandidateLists
  /\ prev' = None /\ backend' = None
  /\ promoted' = {} /\ left' = {} /\ broken' = FALSE
  /\ firstToken' = token + 1
  /\ IF Pending THEN pc' = "stopDaemon" /\ mode' = "recover"
     ELSE pc' = "sweep" /\ mode' = "run"
  /\ UNCHANGED <<durable, token, faults, outcome>>

\* _sweep_stale_model_candidates: model candidates only, never runtimes.
Sweep ==
  /\ At("sweep")
  /\ candModels' = {}
  /\ Goto("load")
  /\ UNCHANGED <<manifest, runtimes, candRuntimes, models, bindings, units, journal, loop>>

\* load_runtime_selection validates the manifest against the runtime it names.
Load ==
  /\ At("load")
  /\ UNCHANGED durable
  /\ IF manifest # None /\ ~Usable(manifest)
       THEN End("failed")
     ELSE IF manifest # None /\ ~force
       THEN End("already")
     ELSE /\ prev' = manifest
          /\ pc' = "native"
          /\ UNCHANGED <<mode, broken, setup, todo, backend, token, faults, outcome, loop>>

BuildNative ==
  /\ At("native")
  /\ Goto("build")
  /\ UNCHANGED <<durable, loop>>

\* create-runtime-env.sh for the next candidate, under a token of its own.
BuildCandidate ==
  /\ At("build")
  /\ todo # <<>>
  /\ backend' = Head(todo)
  /\ todo' = Tail(todo)
  /\ token' = token + 1
  /\ candRuntimes' = candRuntimes \union {token + 1}
  /\ candModels' = candModels \union ({token + 1} \X Policy[Head(todo)])
  /\ pc' = "probe"
  /\ UNCHANGED <<manifest, runtimes, models, bindings, units, journal, mode, broken, setup, prev, faults, outcome, loop>>

\* The build or the probe fails: the next candidate is tried (--backend auto).
RejectCandidate ==
  /\ At("probe")
  /\ Goto("drop")
  /\ UNCHANGED <<durable, loop>>

AcceptCandidate ==
  /\ At("probe")
  /\ Goto("snapshot")
  /\ UNCHANGED <<durable, loop>>

CandidatesOf(t) == {c \in candModels : c[1] = t}

DiscardCandidates ==
  /\ candRuntimes' = candRuntimes \ {token}
  /\ candModels' = candModels \ CandidatesOf(token)

DropCandidate ==
  /\ At("drop")
  /\ DiscardCandidates
  /\ IF todo = <<>> THEN End("failed") ELSE Goto("build") /\ UNCHANGED loop
  /\ UNCHANGED <<manifest, runtimes, models, bindings, units, journal>>

\* _snapshot_service_state.
ServiceSnapshot == [active |-> active, enabled |-> enabled]

\* _snapshot_deployment_bindings: content, mode or absence of each file.
BindingSnapshot == [f \in Files |-> bindings[f]]

\* _plan_candidate_models notes which directories there are to be kept.
HadDestination == {k \in Policy[backend] : master[k] # None}

\* Snapshot services and bindings, plan the models, publish the journal.
WriteJournal ==
  /\ At("snapshot")
  /\ journal' =
       [manifest |-> prev, services |-> ServiceSnapshot, bindings |-> BindingSnapshot,
        token |-> token, keys |-> Policy[backend], had |-> HadDestination]
  /\ left' = Policy[backend]
  /\ Goto(IF prev # None THEN "stopDaemon" ELSE "promoteRuntime")
  /\ UNCHANGED <<disk, units, promoted>>

-----------------------------------------------------------------------------
(* Steps shared by the transaction and by _restore_deployment. *)

Restoring == mode # "run"

\* Mutant: a daemon that does not stop is left running.
StopDaemonIgnored ==
  /\ At("stopDaemon")
  /\ Goto("stopWorkers")
  /\ UNCHANGED <<disk, units, journal, loop>>

\* _quiesce_model_services and _stop_managed_services_for_restore: the daemon
\* first, so that nothing can start a worker again.
StopDaemon ==
  /\ At("stopDaemon")
  /\ active' = active \ {"daemon"}
  /\ Goto("stopWorkers")
  /\ UNCHANGED <<disk, enabled, journal, loop>>

StopWorkers ==
  /\ At("stopWorkers")
  /\ active' = active \ Workers
  /\ Goto(IF Restoring THEN "restoreModels"
          ELSE IF prev # None THEN "promoteRuntime" ELSE "reload")
  /\ left' = IF Restoring THEN journal.keys ELSE left
  /\ UNCHANGED <<disk, enabled, journal, promoted>>

Reload ==
  /\ At("reload")
  /\ Goto(IF Restoring THEN "restoreUnits" ELSE "restart")
  /\ UNCHANGED <<durable, loop>>

\* Mutant: a restore leaves its journal there.
ClearOwnJournal ==
  /\ At("clear")
  /\ journal' = IF mode = "recover" THEN journal ELSE None
  /\ pc' = IF mode = "run" THEN "commit"
           ELSE IF mode = "recover" THEN "sweep" ELSE "discard"
  /\ mode' = IF mode = "recover" THEN "run" ELSE mode
  /\ UNCHANGED <<disk, units, broken, setup, choice, faults, outcome, loop>>

\* _clear_transaction_journal: the commit point of a run, the end of a restore.
ClearJournal ==
  /\ At("clear")
  /\ journal' = None
  /\ pc' = IF mode = "run" THEN "commit"
           ELSE IF mode = "recover" THEN "sweep" ELSE "discard"
  /\ mode' = IF mode = "recover" THEN "run" ELSE mode
  /\ UNCHANGED <<disk, units, broken, setup, choice, faults, outcome, loop>>

-----------------------------------------------------------------------------
(* The transaction. *)

PromoteRuntime ==
  /\ At("promoteRuntime")
  /\ candRuntimes' = candRuntimes \ {token}
  /\ runtimes' = runtimes \union {token}
  /\ Goto("promoteModels")
  /\ UNCHANGED <<manifest, candModels, models, bindings, units, journal, loop>>

\* Mutant: a directory that is not there is moved away as well.
BackUpAnyMaster(k) ==
  /\ At("promoteModels") /\ k \in left
  /\ k \notin promoted /\ Backup(token, k) = {}
  /\ backups' = backups \union {[token |-> token, key |-> k, gen |-> master[k]]}
  /\ master' = [master EXCEPT ![k] = None]
  /\ UNCHANGED <<manifest, runtimes, candidates, bindings, units, journal, pc, memory, loop>>

\* _promote_candidate_models, first half of a key: keep the current directory.
BackUpMaster(k) ==
  /\ At("promoteModels") /\ k \in left
  /\ k \in journal.had /\ master[k] # None
  /\ backups' = backups \union {[token |-> token, key |-> k, gen |-> master[k]]}
  /\ master' = [master EXCEPT ![k] = None]
  /\ UNCHANGED <<manifest, runtimes, candidates, bindings, units, journal, pc, memory, loop>>

\* Second half: the candidate takes its place and joins `promotions`.
PromoteModel(k) ==
  /\ At("promoteModels") /\ k \in left
  /\ master[k] = None
  /\ master' = [master EXCEPT ![k] = token]
  /\ candModels' = candModels \ {<<token, k>>}
  /\ promoted' = promoted \union {k}
  /\ left' = left \ {k}
  /\ UNCHANGED <<manifest, runtimes, candRuntimes, backups, bindings, units, journal, pc, memory>>

\* write_runtime_selection: os.replace of a validated manifest.
WriteManifest ==
  /\ At("promoteModels") /\ left = {}
  /\ manifest' = [backend |-> backend, gen |-> token]
  /\ left' = Files
  /\ Goto("install")
  /\ UNCHANGED <<runtimes, candidates, models, bindings, units, journal, promoted>>

\* install-user.sh writes one file after another ...
InstallFile(f) ==
  /\ At("install") /\ f \in left \ {LegacyUnit}
  /\ bindings' = [bindings EXCEPT ![f] = token]
  /\ left' = left \ {f}
  /\ UNCHANGED <<manifest, runtimes, candidates, models, units, journal, pc, memory, promoted>>

\* ... stops, disables and removes the unit of the warm-worker architecture ...
RetireLegacyWorker ==
  /\ At("install") /\ left = {LegacyUnit}
  /\ bindings' = [bindings EXCEPT ![LegacyUnit] = None]
  /\ active' = active \ {"legacy"}
  /\ enabled' = enabled \ {"legacy"}
  /\ left' = {}
  /\ UNCHANGED <<manifest, runtimes, candidates, models, journal, pc, memory, promoted>>

\* ... and runs `systemctl disable --now fun-voice-daemon || true`, whose
\* failure it ignores.
DisableDaemon ==
  /\ At("install") /\ left = {}
  /\ \/ enabled' = enabled \ {"daemon"} /\ active' = active \ {"daemon"}
     \/ UNCHANGED units
  /\ Goto(IF prev = None THEN "stopDaemon" ELSE "reload")
  /\ UNCHANGED <<disk, journal, loop>>

RestartDaemon ==
  /\ At("restart")
  /\ active' = active \union {"daemon"}
  /\ Goto("clear")
  /\ UNCHANGED <<disk, enabled, journal, loop>>

\* _commit_model_promotion: the run has succeeded, its backups can go.
CommitModel(k) ==
  /\ At("commit") /\ k \in promoted
  /\ backups' = backups \ Backup(token, k)
  /\ promoted' = promoted \ {k}
  /\ UNCHANGED <<manifest, runtimes, candidates, master, bindings, units, journal, pc, memory, left>>

\* Mutant: only a failed run drops its candidates.
FinishAtOnce ==
  /\ \/ At("commit") /\ promoted = {}
     \/ At("discard")
  /\ End(IF broken THEN "broken" ELSE IF mode = "run" THEN "ok" ELSE "failed")
  /\ UNCHANGED <<disk, units, journal>>

FinishRun ==
  /\ \/ At("commit") /\ promoted = {}
     \/ At("discard")
  /\ DiscardCandidates
  /\ End(IF broken THEN "broken" ELSE IF mode = "run" THEN "ok" ELSE "failed")
  /\ UNCHANGED <<manifest, runtimes, models, bindings, units, journal>>

-----------------------------------------------------------------------------
(* Undoing. *)

\* _rollback_model_promotion over `promotions`: remove the new directory ...
UnpromoteModel(k) ==
  /\ pc \in {"undo", "rollback"} /\ k \in promoted
  /\ master[k] = token
  /\ master' = [master EXCEPT ![k] = None]
  /\ promoted' = IF Backup(token, k) = {} THEN promoted \ {k} ELSE promoted
  /\ UNCHANGED <<manifest, runtimes, candidates, backups, bindings, units, journal, pc, memory, left>>

\* ... and put the backup back.
ReinstateModel(k) ==
  /\ pc \in {"undo", "rollback"} /\ k \in promoted
  /\ master[k] = None
  /\ \E b \in Backup(token, k) :
       /\ master' = [master EXCEPT ![k] = b.gen]
       /\ backups' = backups \ {b}
  /\ promoted' = promoted \ {k}
  /\ UNCHANGED <<manifest, runtimes, candidates, bindings, units, journal, pc, memory, left>>

\* _restore_deployment does nothing when it finds no journal.
BeginRestore ==
  /\ pc \in {"undo", "rollback"} /\ promoted = {}
  /\ mode' = "rollback"
  /\ pc' = IF Pending THEN "stopDaemon" ELSE "discard"
  /\ UNCHANGED <<durable, broken, setup, choice, faults, outcome, loop>>

\* Mutant: a directory that is there is taken for restored.
RestoreMissingModel(k) ==
  /\ At("restoreModels") /\ k \in left
  /\ IF master[k] # None \/ Backup(journal.token, k) = {}
       THEN left' = left \ {k} /\ UNCHANGED models
     ELSE \E b \in Backup(journal.token, k) :
            /\ master' = [master EXCEPT ![k] = b.gen]
            /\ backups' = backups \ {b}
            /\ left' = left \ {k}
  /\ UNCHANGED <<manifest, runtimes, candidates, bindings, units, journal, pc, memory, promoted>>

\* _restore_model_promotions for one key of the journal.
RestoreModel(k) ==
  /\ At("restoreModels") /\ k \in left
  /\ LET t == journal.token
         kept == Backup(t, k)
         settled == IF k \in journal.had THEN kept = {}
                    ELSE <<t, k>> \in candModels \/ master[k] = None
     IN IF settled
          THEN left' = left \ {k} /\ UNCHANGED models
        ELSE IF master[k] # None
          THEN master' = [master EXCEPT ![k] = None] /\ UNCHANGED <<backups, left>>
        ELSE \E b \in kept :
               /\ master' = [master EXCEPT ![k] = b.gen]
               /\ backups' = backups \ {b}
               /\ left' = left \ {k}
  /\ UNCHANGED <<manifest, runtimes, candidates, bindings, units, journal, pc, memory, promoted>>

RestoreRuntime ==
  /\ At("restoreModels") /\ left = {}
  /\ candRuntimes' = candRuntimes \ {journal.token}
  /\ runtimes' = runtimes \ {journal.token}
  /\ Goto("restoreManifest")
  /\ UNCHANGED <<manifest, candModels, models, bindings, units, journal, loop>>

RestoreManifest ==
  /\ At("restoreManifest")
  /\ manifest' = journal.manifest
  /\ left' = Files
  /\ Goto("restoreBindings")
  /\ UNCHANGED <<runtimes, candidates, models, bindings, units, journal, promoted>>

\* _restore_deployment_bindings unlinks a file and then replaces it.
UnlinkBinding(f) ==
  /\ At("restoreBindings") /\ f \in left
  /\ bindings[f] # None
  /\ bindings' = [bindings EXCEPT ![f] = None]
  /\ UNCHANGED <<manifest, runtimes, candidates, models, units, journal, pc, memory, loop>>

RestoreBinding(f) ==
  /\ At("restoreBindings") /\ f \in left
  /\ bindings[f] = None
  /\ bindings' = [bindings EXCEPT ![f] = journal.bindings[f]]
  /\ left' = left \ {f}
  /\ UNCHANGED <<manifest, runtimes, candidates, models, units, journal, pc, memory, promoted>>

EndBindings ==
  /\ At("restoreBindings") /\ left = {}
  /\ Goto("reload")
  /\ UNCHANGED <<durable, loop>>

\* Mutant: the units that were enabled are forgotten.
RestoreNoUnits ==
  /\ At("restoreUnits")
  /\ Goto("restoreServices")
  /\ UNCHANGED <<disk, units, journal, loop>>

\* _restore_service_state: unit files first, then the units that were running.
RestoreUnits ==
  /\ At("restoreUnits")
  /\ enabled' = journal.services.enabled
  /\ Goto("restoreServices")
  /\ UNCHANGED <<disk, active, journal, loop>>

RestoreServices ==
  /\ At("restoreServices")
  /\ active' = active \union journal.services.active
  /\ Goto("clear")
  /\ UNCHANGED <<disk, enabled, journal, loop>>

-----------------------------------------------------------------------------
(* Faults. *)

Cleaning == {"drop", "commit", "discard"}
Transaction == {"stopDaemon", "stopWorkers", "promoteRuntime", "promoteModels",
                "install", "reload", "restart", "clear"}

Abort(result) ==
  /\ pc' = Idle /\ outcome' = result
  /\ promoted' = {} /\ left' = {}
  /\ UNCHANGED <<mode, broken, choice>>

Catch(step, m, keys) ==
  /\ pc' = step /\ mode' = m /\ promoted' = keys /\ left' = {}
  /\ UNCHANGED <<outcome, prev, backend, token, broken, todo>>

\* Where an error or an interrupt (KeyboardInterrupt, SystemExit) lands.  An
\* interrupt is delivered while a step runs, which is where a run spends its
\* time, and not in the few bytecodes between a step and the next try block.
\* Before the journal: candidates are dropped, an interrupt tries no other.
UnwindChoosing(interrupt) ==
  \/ pc \in {"sweep", "load", "native"} /\ Abort("failed")
  \/ /\ pc \in {"probe", "snapshot"}
     /\ pc' = "drop"
     /\ todo' = IF pc = "probe" /\ ~interrupt THEN todo ELSE <<>>
     /\ UNCHANGED <<mode, broken, prev, backend, token, loop, outcome>>

\* Under the journal: the handler undoes `promotions` and restores.  An error
\* inside _promote_candidate_models undoes its own list first; an interrupt
\* there, or an error of that undo, leaves the handler an empty list.
UnwindTransaction(interrupt) ==
  /\ mode = "run"
  /\ \/ pc \in Transaction \ {"promoteModels"} /\ Catch("rollback", "rollback", promoted)
     \/ pc = "promoteModels" /\ ~interrupt /\ Catch("undo", "run", promoted)
     \/ pc = "promoteModels" /\ interrupt /\ Catch("rollback", "rollback", {})
     \/ pc = "undo" /\ Catch("rollback", "rollback", {})

\* A restore that fails keeps the journal; the handler still runs its finally.
UnwindRestore ==
  \/ mode = "recover" /\ Abort("broken")
  \/ /\ mode = "rollback" /\ pc \notin Cleaning
     /\ pc' = "discard" /\ broken' = TRUE /\ promoted' = {} /\ left' = {}
     /\ UNCHANGED <<mode, outcome, choice>>
  \/ pc \in Cleaning /\ Abort("broken")

Spend == faults < MaxFaults /\ faults' = faults + 1 /\ UNCHANGED <<durable, setup>>

Fault ==
  /\ pc # Idle
  /\ \/ \E interrupt \in BOOLEAN :
          UnwindChoosing(interrupt) \/ UnwindTransaction(interrupt)
     \/ UnwindRestore
  /\ Spend

\* The process and the script it runs die; the disk and the units stay.
Crash ==
  /\ pc # Idle
  /\ Abort("crashed")
  /\ Spend

-----------------------------------------------------------------------------
(* The daemon starts an ASR worker on demand; it exits when it is idle. *)
WorkerStarts ==
  /\ "daemon" \in active /\ "worker" \notin active
  /\ active' = active \union {"worker"}
  /\ UNCHANGED <<disk, enabled, journal, pc, loop, memory>>

WorkerExits ==
  /\ "worker" \in active
  /\ active' = active \ {"worker"}
  /\ UNCHANGED <<disk, enabled, journal, pc, loop, memory>>

Step ==
  \/ Sweep \/ Load \/ BuildNative
  \/ BuildCandidate \/ RejectCandidate \/ AcceptCandidate \/ DropCandidate
  \/ WriteJournal \/ StopDaemon \/ StopWorkers \/ Reload \/ ClearJournal
  \/ PromoteRuntime \/ WriteManifest
  \/ RetireLegacyWorker \/ DisableDaemon \/ RestartDaemon \/ FinishRun
  \/ BeginRestore \/ RestoreRuntime \/ RestoreManifest \/ EndBindings
  \/ RestoreUnits \/ RestoreServices
  \/ \E k \in Keys : BackUpMaster(k) \/ PromoteModel(k) \/ CommitModel(k)
                     \/ UnpromoteModel(k) \/ ReinstateModel(k) \/ RestoreModel(k)
  \/ \E f \in Files : InstallFile(f) \/ UnlinkBinding(f) \/ RestoreBinding(f)

Next ==
  \/ Begin \/ Step \/ Fault \/ Crash
  \/ WorkerStarts \/ WorkerExits

\* A run goes on as long as the scripts it calls return.
Fairness == WF_vars(Step)

Spec == Init /\ [][Next]_vars /\ Fairness
-----------------------------------------------------------------------------
(* The deployment in force: while a journal exists, what it says. *)

Shown ==
  [manifest |-> IF Pending THEN journal.manifest ELSE manifest,
   master   |-> [k \in Keys |->
                   IF ~Pending \/ k \notin journal.keys THEN master[k]
                   ELSE IF k \notin journal.had THEN None
                   ELSE IF Backup(journal.token, k) = {} THEN master[k]
                   ELSE (CHOOSE b \in Backup(journal.token, k) : TRUE).gen],
   bindings |-> IF Pending THEN journal.bindings ELSE bindings,
   enabled  |-> IF Pending THEN journal.services.enabled ELSE enabled,
   services |-> IF Pending THEN journal.services.active ELSE active]

\* A run has switched once its journal is gone.
Switched == mode = "run" /\ pc = "commit"

\* Bootstrap implements DeploymentSwitch: what recovery would leave in force
\* moves to a new generation as a whole, once in a run that reports success
\* and never in one that reports a failure (_write_transaction_journal,
\* _restore_deployment, _clear_transaction_journal).
Abstract == INSTANCE DeploymentSwitch WITH
  manifest <- Shown.manifest, master <- Shown.master,
  bindings <- Shown.bindings, enabled <- Shown.enabled,
  services <- Shown.services,
  phase <- IF pc = Idle THEN Idle ELSE IF Switched THEN "switched" ELSE "running",
  Generations <- 1..(MaxRuns * Cardinality(Backends))
AtomicSwitch == Abstract!Init /\ [][Abstract!Next]_(Abstract!vars)

TypeOK ==
  /\ manifest \in Manifests /\ prev \in Manifests
  /\ runtimes \subseteq Tokens /\ candRuntimes \subseteq Tokens
  /\ candModels \subseteq Tokens \X Keys
  /\ master \in [Keys -> Versions]
  /\ backups \subseteq [token : Tokens, key : Keys, gen : Tokens]
  /\ bindings \in [Files -> Versions]
  /\ enabled \subseteq Units /\ active \subseteq Units
  /\ journal \in Journals \union {None}
  /\ mode \in {"run", "recover", "rollback"}
  /\ backend \in Backends \union {None}
  /\ force \in BOOLEAN /\ broken \in BOOLEAN
  /\ promoted \subseteq Keys
  /\ left \subseteq Keys \union Files
  /\ token \in Tokens /\ runs \in 0..MaxRuns /\ faults \in 0..MaxFaults
  /\ outcome \in {"none", "ok", "already", "failed", "broken", "crashed"}

\* The selection a restart would find names a runtime that exists, and every
\* model directory it needs is of its own generation: neither a rollback nor a
\* crash in the middle of one may take them away or mix them.
SelectionIsWhole ==
  LET m == Shown.manifest
  IN m # None => /\ m.gen \in runtimes
                 /\ \A k \in Policy[m.backend] : Shown.master[k] = m.gen

\* A run that reports success, or a failure it undid, leaves nothing of its
\* candidates behind: no candidate directory, no backup, no journal, and no
\* promoted runtime but the one the manifest names.
CleanExit ==
  pc = Idle /\ outcome \in {"ok", "failed"} =>
    /\ journal = None
    /\ \A t \in firstToken..token :
         /\ t \notin candRuntimes
         /\ CandidatesOf(t) = {}
         /\ \A b \in backups : b.token # t
         /\ t \in runtimes => manifest # None /\ manifest.gen = t

\* A model, the runtime or the manifest is moved only when no daemon and no worker runs,
\* when a run replaces a deployment (_quiesce_model_services stops the daemon first, or
\* it would start a worker again) and when a recovery or a handler restores one.  The
\* code has two exceptions.  A first installation promotes before it stops anything, and
\* its handler undoes that as early.  And _rollback_model_promotion comes before the
\* services are stopped: a fault after the restart of the daemon undoes the models
\* under it, but under no worker left from before.
QuietSwap ==
  [][manifest' # manifest \/ master' # master \/ runtimes' # runtimes
       => \/ active = {}
          \/ prev = None /\ (mode = "run" \/ pc = "rollback")
          \/ pc = "rollback" /\ "daemon" \in active]_vars

\* Once the faults are over, a run that found a journal restores the journalled
\* deployment and goes on, however the interrupted runs before it left the disk.
RecoveryCompletes ==
  (mode = "recover" /\ pc # Idle /\ faults = MaxFaults)
    ~> (mode = "run" /\ pc # Idle /\ journal = None)
=============================================================================
