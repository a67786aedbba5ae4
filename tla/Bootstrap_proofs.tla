-------------------------- MODULE Bootstrap_proofs --------------------------
(***************************************************************************)
(* Proofs about the initialization transaction (Bootstrap), for any        *)
(* backends, models, files and number of runs and faults.  The invariant   *)
(* says what the journal and the disk promise each other at every step of  *)
(* a run, of a recovery and of the handler that undoes a run, so that a    *)
(* fault or a crash finds them in step whenever it comes.                  *)
(***************************************************************************)
EXTENDS Bootstrap, FiniteSetTheorems, TLAPS

\* The steps of _restore_deployment, shared by a recovery and the handler.
RestoreSteps == {"stopDaemon", "stopWorkers", "restoreModels", "restoreManifest",
                 "restoreBindings", "reload", "restoreUnits", "restoreServices", "clear"}

\* The steps before the journal is written.
Choosing == {"sweep", "load", "native", "build", "probe", "drop", "snapshot"}

\* Tokens only grow, and nothing on the disk is newer than the current one.
Bounded ==
  /\ todo \in Seq(Backends)
  /\ token + Len(todo) <= runs * Cardinality(Backends)
  /\ firstToken \in Nat \ {0} /\ firstToken <= token + 1
  /\ manifest # None => manifest.gen <= token
  /\ runtimes \subseteq 0..token /\ candRuntimes \subseteq 0..token
  /\ candModels \subseteq (0..token) \X Keys
  /\ \A k \in Keys : master[k] # None => master[k] <= token
  /\ \A b \in backups : b.token <= token

\* Which steps a mode takes, and at which of them there is a journal.
Control ==
  /\ pc # Idle /\ mode = "run" => pc \in Choosing \union Transaction \union {"commit", "undo"}
  /\ pc # Idle /\ mode = "recover" => pc \in RestoreSteps
  /\ pc # Idle /\ mode = "rollback" => pc \in RestoreSteps \union {"rollback", "discard"}
  /\ pc \in Choosing \union {"commit"} => ~Pending
  /\ pc \in Transaction \union RestoreSteps \union {"undo", "rollback"} => Pending
  /\ broken => pc \in {Idle, "discard"}
  /\ pc \in Choosing \/ pc = Idle \/ mode = "recover" => promoted = {}
  /\ mode = "recover" /\ pc # Idle => firstToken = token + 1 /\ prev = None
  /\ pc \in Choosing => prev = IF pc \in {"sweep", "load"} THEN None ELSE manifest
  /\ pc \in {"probe", "snapshot"} => backend \in Backends

\* No trace of generation t is in force or kept.
Unused(t) ==
  /\ manifest # None => manifest.gen # t
  /\ t \notin runtimes
  /\ \A k \in Keys : master[k] # t
  /\ \A b \in backups : b.token # t

\* A candidate that was built and not yet promoted is nowhere else.
CandidateIsUnused == pc \in {"probe", "drop", "snapshot"} => Unused(token) /\ token > 0

\* What the journal says, the disk can give back: every directory it wants kept
\* is in its place or is the only backup of this token, and a directory it wants
\* absent is absent or is the candidate's.
JournalIsKept ==
  Pending =>
    /\ journal.token = token /\ token > 0
    /\ journal.had \subseteq journal.keys
    /\ journal.manifest # None => journal.manifest.gen < token
    /\ \A b \in backups : b.token = token =>
         /\ b.key \in journal.had /\ b.gen < token
         /\ master[b.key] \in {None, token}
    /\ \A b, c \in backups : b.token = token /\ c.token = token /\ b.key = c.key => b = c
    /\ \A k \in journal.had : Backup(token, k) = {} => master[k] \notin {None, token}
    /\ \A k \in journal.keys \ journal.had : master[k] \in {None, token}
    /\ \A k \in journal.keys : master[k] = token => <<token, k>> \notin candModels
    /\ \A k \in Keys \ journal.keys : master[k] # token

\* A deployment that is replaced is quiet before the first directory moves.
Quiet == prev # None => active = {}

\* The transaction's own progress: what it has moved by each of its steps.
BeforePromotion == pc = "promoteRuntime" \/ (prev # None /\ pc \in {"stopDaemon", "stopWorkers"})
AfterInstall ==
  pc \in {"reload", "restart", "clear"} \/ (prev = None /\ pc \in {"stopDaemon", "stopWorkers"})

Installed(f) == bindings[f] = IF f = LegacyUnit THEN None ELSE token

RunProgress ==
  (mode = "run" /\ Pending /\ pc # Idle) =>
    /\ backend \in Backends /\ journal.keys = Policy[backend] /\ journal.manifest = prev
    /\ enabled \subseteq journal.services.enabled
    /\ promoted \subseteq journal.keys
    /\ BeforePromotion => promoted = {} /\ left = journal.keys
    /\ BeforePromotion \/ pc = "promoteModels" => \A k \in left : master[k] # token
    /\ pc = "promoteModels" => left \union promoted = journal.keys
    /\ pc = "install" \/ AfterInstall =>
         /\ promoted = journal.keys
         /\ manifest = [backend |-> backend, gen |-> token]
    /\ pc \in {"promoteModels", "install"} \/ AfterInstall =>
         /\ token \in runtimes
         /\ \A k \in promoted : master[k] = token
    /\ pc \in {"promoteRuntime", "promoteModels", "undo"} => Quiet
    /\ pc = "stopWorkers" /\ prev # None => "daemon" \notin active
    /\ pc = "install" => \A f \in Files \ left : Installed(f)
    /\ pc = "install" /\ LegacyUnit \notin left => "legacy" \notin active
    /\ AfterInstall => (\A f \in Files : Installed(f)) /\ "legacy" \notin active
    /\ pc = "clear" => "daemon" \in active

\* What the handler still has to undo is this run's.
UndoIsOwn == pc = "rollback" => promoted \subseteq journal.keys

\* The transaction leaves backups of the models it promoted, until it drops them.
CommitProgress ==
  pc = "commit" =>
    /\ manifest # None /\ manifest.gen = token
    /\ \A b \in backups : b.token = token => b.key \in promoted

\* What a restore has put back by each of its steps.
RestoreProgress ==
  (Restoring /\ Pending /\ pc \in RestoreSteps) =>
    /\ pc = "stopWorkers" => "daemon" \notin active
    /\ pc = "restoreModels" => left \subseteq journal.keys
    /\ pc \notin {"stopDaemon", "stopWorkers"} =>
         \A k \in journal.keys :
           (pc = "restoreModels" => k \notin left) =>
             /\ Backup(token, k) = {}
             /\ k \notin journal.had => master[k] = None
    /\ pc \notin {"stopDaemon", "stopWorkers", "restoreModels"} => token \notin runtimes
    /\ pc \notin {"stopDaemon", "stopWorkers", "restoreModels", "restoreManifest"} =>
         manifest = journal.manifest
    /\ pc = "restoreBindings" => \A f \in Files \ left : bindings[f] = journal.bindings[f]
    /\ pc \in {"reload", "restoreUnits", "restoreServices", "clear"} =>
         bindings = journal.bindings
    /\ pc \in {"restoreServices", "clear"} => enabled = journal.services.enabled
    /\ pc \notin {"stopDaemon", "stopWorkers", "clear"} => active = {}
    /\ pc = "clear" =>
         /\ active \ {"worker"} = journal.services.active \ {"worker"}
         /\ journal.services.active \subseteq active \union {"worker"}
         /\ "worker" \in active =>
              "worker" \in journal.services.active \/ "daemon" \in active

\* A failed run that undid everything has nothing left but its candidates.
DiscardIsUndone ==
  (pc = "discard" /\ ~broken) =>
    /\ ~Pending
    /\ token \notin runtimes
    /\ \A b \in backups : b.token # token

\* The candidates this run has dropped.
Cleaned(t) ==
  /\ t \notin candRuntimes /\ t \notin runtimes
  /\ \A c \in candModels : c[1] # t
  /\ \A b \in backups : b.token # t

DroppedAreCleaned ==
  /\ \A t \in firstToken..(token - 1) : Cleaned(t)
  /\ pc \in {"sweep", "load", "native", "build"} => \A t \in firstToken..token : Cleaned(t)
  /\ pc \in {"sweep", "load", "native"} => firstToken = token + 1

IInv ==
  /\ TypeOK /\ Bounded /\ Control
  /\ CandidateIsUnused /\ JournalIsKept
  /\ RunProgress /\ UndoIsOwn /\ CommitProgress
  /\ RestoreProgress /\ DiscardIsUndone
  /\ DroppedAreCleaned
  /\ SelectionIsWhole /\ CleanExit
-----------------------------------------------------------------------------
USE DEF At, Goto, Pending, Restoring, Idle, Workers, Backup,
        candidates, models, units, disk, durable, setup, choice, loop, memory,
        RestoreSteps, Choosing, Transaction, Cleaning

\* What a restart would find depends on the journal and the models while there is a
\* journal, and otherwise on the deployment itself.
LEMMA ShownFrame ==
  ASSUME UNCHANGED <<journal, models>>,
         Pending \/ UNCHANGED <<manifest, bindings, units>>
  PROVE  UNCHANGED Shown
  BY DEF Shown

\* Nothing takes away the runtime in force.
LEMMA WholeFrame ==
  ASSUME SelectionIsWhole, UNCHANGED Shown,
         Shown.manifest # None /\ Shown.manifest.gen \in runtimes =>
           Shown.manifest.gen \in runtimes'
  PROVE  SelectionIsWhole'
  BY DEF SelectionIsWhole

\* The steps that only stop, start, enable or disable units, under the journal.
ServiceStep ==
  /\ pc \in Transaction \union RestoreSteps
  /\ pc' \in IF mode = "run" THEN Transaction ELSE RestoreSteps
  /\ UNCHANGED <<disk, journal, promoted, memory>>

\* Such a step keeps what the journal and the disk promise each other.
LEMMA ServiceFrame ==
  ASSUME IInv, ServiceStep, enabled' \subseteq Units, active' \subseteq Units,
         left' \subseteq Keys \union Files, RunProgress', RestoreProgress'
  PROVE  IInv' /\ UNCHANGED Shown
<1> USE DEF ServiceStep
<1>1. Pending
  BY DEF IInv, Control
<1>2. TypeOK' /\ Bounded'
  BY DEF IInv, TypeOK, Bounded
<1>3. Control'
  BY <1>1 DEF IInv, Control
<1>4. CandidateIsUnused' /\ JournalIsKept' /\ UndoIsOwn' /\ CommitProgress'
  BY <1>1 DEF IInv, CandidateIsUnused, JournalIsKept, UndoIsOwn, CommitProgress
<1>5. DiscardIsUndone' /\ DroppedAreCleaned' /\ CleanExit'
  BY DEF IInv, DiscardIsUndone, DroppedAreCleaned, Cleaned, CleanExit
<1>6. UNCHANGED Shown
  BY <1>1, ShownFrame
<1>7. SelectionIsWhole'
  BY <1>6, WholeFrame DEF IInv
<1>8. QED BY <1>2, <1>3, <1>4, <1>5, <1>6, <1>7 DEF IInv

\* A stop of the daemon changes what runs and nothing that is kept.
LEMMA StopDaemonStep ==
  ASSUME IInv, StopDaemon
  PROVE  IInv' /\ UNCHANGED Shown
<1> USE DEF IInv, StopDaemon
<1>1. RunProgress'
  BY DEF Control, RunProgress, BeforePromotion, AfterInstall, Installed
<1>2. RestoreProgress'
  BY DEF RestoreProgress
<1>3. QED BY <1>1, <1>2, ServiceFrame DEF ServiceStep, TypeOK

\* Once the workers are down a deployment that is replaced is quiet.
LEMMA StopWorkersStep ==
  ASSUME IInv, StopWorkers
  PROVE  IInv' /\ UNCHANGED Shown
<1> USE DEF IInv, StopWorkers
<1>1. Pending /\ journal.keys \subseteq Keys /\ active' \subseteq Units
      /\ ("daemon" \notin active => active' = {})
  BY DEF Control, TypeOK, Journals, Units
<1>2. RunProgress'
  BY <1>1 DEF Control, RunProgress, BeforePromotion, AfterInstall, Installed, Quiet
<1>3. RestoreProgress'
  BY <1>1 DEF RestoreProgress, Control
<1>4. QED BY <1>1, <1>2, <1>3, ServiceFrame DEF ServiceStep, TypeOK

\* systemd's reload touches nothing the journal is about.
LEMMA ReloadStep ==
  ASSUME IInv, Reload
  PROVE  IInv' /\ UNCHANGED Shown
<1> USE DEF IInv, Reload
<1>1. RunProgress'
  BY DEF Control, RunProgress, BeforePromotion, AfterInstall, Installed
<1>2. RestoreProgress'
  BY DEF RestoreProgress, Control
<1>3. QED BY <1>1, <1>2, ServiceFrame DEF ServiceStep, TypeOK

\* The restart comes after the last move of a directory.
LEMMA RestartDaemonStep ==
  ASSUME IInv, RestartDaemon
  PROVE  IInv' /\ UNCHANGED Shown
<1> USE DEF IInv, RestartDaemon
<1>1. RunProgress'
  BY DEF Control, RunProgress, BeforePromotion, AfterInstall, Installed
<1>2. RestoreProgress'
  BY DEF RestoreProgress, Control, TypeOK
<1>3. QED BY <1>1, <1>2, ServiceFrame DEF ServiceStep, TypeOK, Units

\* Disabling the daemon enables nothing that the journal does not have.
LEMMA DisableDaemonStep ==
  ASSUME IInv, DisableDaemon
  PROVE  IInv' /\ UNCHANGED Shown
<1> USE DEF IInv, DisableDaemon
<1>1. /\ enabled' \subseteq enabled /\ active' \subseteq active /\ Pending
      /\ mode = "run"
  BY DEF Control, TypeOK
<1>2. RunProgress'
  BY <1>1, BootstrapConstants DEF Control, RunProgress, BeforePromotion, AfterInstall, Installed
<1>3. RestoreProgress'
  BY <1>1 DEF RestoreProgress
<1>4. QED BY <1>1, <1>2, <1>3, ServiceFrame DEF ServiceStep, TypeOK, Units

\* After it the units are enabled as the journal says.
LEMMA RestoreUnitsStep ==
  ASSUME IInv, RestoreUnits
  PROVE  IInv' /\ UNCHANGED Shown
<1> USE DEF IInv, RestoreUnits
<1>1. Pending /\ mode # "run" /\ journal.services.enabled \subseteq Units
  BY DEF Control, TypeOK, Journals
<1>2. RunProgress' /\ RestoreProgress'
  BY <1>1 DEF RunProgress, RestoreProgress
<1>3. QED BY <1>1, <1>2, ServiceFrame DEF ServiceStep, TypeOK

\* The services of the journal are started again at the end of a restore.
LEMMA RestoreServicesStep ==
  ASSUME IInv, RestoreServices
  PROVE  IInv' /\ UNCHANGED Shown
<1> USE DEF IInv, RestoreServices
<1>1. Pending /\ mode # "run" /\ journal.services.active \subseteq Units
  BY DEF Control, TypeOK, Journals
<1>2. RunProgress' /\ RestoreProgress'
  BY <1>1 DEF RunProgress, RestoreProgress
<1>3. QED BY <1>1, <1>2, ServiceFrame DEF ServiceStep, TypeOK

\* All files have been installed, or all put back.
LEMMA EndBindingsStep ==
  ASSUME IInv, EndBindings
  PROVE  IInv' /\ UNCHANGED Shown
<1> USE DEF IInv, EndBindings
<1>1. Pending /\ mode # "run" /\ bindings = journal.bindings
  <2>1. Pending /\ mode # "run"
    BY DEF Control
  <2>2. bindings \in [Files -> Versions] /\ journal.bindings \in [Files -> Versions]
    BY <2>1 DEF TypeOK, Journals
  <2>3. QED BY <2>1, <2>2 DEF RestoreProgress
<1>2. RunProgress' /\ RestoreProgress'
  BY <1>1 DEF RunProgress, RestoreProgress
<1>3. QED BY <1>1, <1>2, ServiceFrame DEF ServiceStep, TypeOK
-----------------------------------------------------------------------------
(* The steps that move the directory of one model. *)

\* What recovery would put in force for each model.
ShownIsKept ==
  \A k \in Keys :
    /\ k \notin journal.keys => Shown.master[k] = master[k]
    /\ k \in journal.keys \ journal.had => Shown.master[k] = None
    /\ k \in journal.had /\ Backup(token, k) = {} => Shown.master[k] = master[k]
    /\ \A b \in Backup(token, k) : Shown.master[k] = b.gen

\* What a recovery would leave in a model directory, case by case.
LEMMA ShownMaster == TypeOK /\ JournalIsKept /\ Pending => ShownIsKept
<1> SUFFICES ASSUME TypeOK, JournalIsKept, Pending, NEW k \in Keys
             PROVE  /\ k \notin journal.keys => Shown.master[k] = master[k]
                    /\ k \in journal.keys \ journal.had => Shown.master[k] = None
                    /\ k \in journal.had /\ Backup(token, k) = {} =>
                         Shown.master[k] = master[k]
                    /\ \A b \in Backup(token, k) : Shown.master[k] = b.gen
  BY DEF ShownIsKept
<1>1. journal.token = token /\ journal.had \subseteq journal.keys
  BY DEF JournalIsKept
<1>2. ASSUME NEW b \in Backup(token, k)
      PROVE  Shown.master[k] = b.gen
  <2>1. k \in journal.had /\ Backup(token, k) # {}
    BY <1>2 DEF JournalIsKept
  <2>2. \A c \in Backup(token, k) : c = b
    BY <1>2 DEF JournalIsKept
  <2>3. (CHOOSE c \in Backup(token, k) : TRUE) = b
    BY <2>2, <1>2
  <2>4. QED BY <1>1, <2>1, <2>3 DEF Shown
<1>3. QED BY <1>1, <1>2 DEF Shown

ModelStep(k) ==
  /\ pc \in {"promoteModels", "undo", "rollback", "restoreModels"}
  /\ UNCHANGED <<manifest, runtimes, candRuntimes, bindings, units, journal, pc, memory>>
  /\ \A j \in Keys \ {k} : master'[j] = master[j] /\ Backup(token, j)' = Backup(token, j)
  /\ master' \in [Keys -> Versions] /\ \A j \in Keys : master'[j] # None => master'[j] <= token
  /\ backups' \subseteq [token : Tokens, key : Keys, gen : Tokens]
  /\ \A b \in backups' : b \notin backups => b.token = token
  /\ candModels' \subseteq candModels
  /\ promoted' \subseteq Keys /\ left' \subseteq left

\* A step on the directory of model k keeps the rest, if it keeps what recovery
\* would put there.
LEMMA ModelFrame ==
  ASSUME IInv, NEW k \in Keys, ModelStep(k), JournalIsKept', RunProgress',
         RestoreProgress', UndoIsOwn',
         mode = "recover" => promoted' = promoted,
         Shown.master[k]' = Shown.master[k]
  PROVE  IInv' /\ UNCHANGED Shown
<1> USE DEF ModelStep
<1>1. Pending /\ pc \notin Choosing /\ token \in Tokens /\ Pending'
  BY DEF IInv, Control, TypeOK
<1>2. TypeOK' /\ Bounded'
  <2>1. TypeOK'
    BY DEF IInv, TypeOK
  <2>2. \A b \in backups' : b.token <= token
    BY <1>1 DEF IInv, Bounded, Tokens
  <2>3. QED BY <2>1, <2>2 DEF IInv, Bounded
<1>3. Control' /\ CandidateIsUnused' /\ CommitProgress'
  BY <1>1 DEF IInv, Control, CandidateIsUnused, CommitProgress
<1>4. DiscardIsUndone' /\ DroppedAreCleaned' /\ CleanExit'
  <2>1. \A t \in firstToken..(token - 1) : Cleaned(t) => Cleaned(t)'
    BY <1>1 DEF IInv, TypeOK, Tokens, Cleaned, Bounded
  <2>2. QED BY <1>1, <2>1 DEF IInv, DiscardIsUndone, DroppedAreCleaned, CleanExit
<1>5. UNCHANGED Shown
  <2>1. \A j \in Keys \ {k} : Shown.master[j]' = Shown.master[j]
    BY <1>1 DEF Shown, IInv, JournalIsKept
  <2>2. Shown.master' = Shown.master
    <3>1. /\ Shown.master = [j \in Keys |-> Shown.master[j]]
          /\ Shown.master' = [j \in Keys |-> Shown.master[j]']
      BY DEF Shown
    <3>2. \A j \in Keys : Shown.master[j]' = Shown.master[j]
      BY <2>1
    <3>3. QED BY <3>1, <3>2
  <2>3. QED BY <1>1, <2>2 DEF Shown
<1>6. SelectionIsWhole'
  BY <1>5, WholeFrame DEF IInv
<1>7. QED BY <1>2, <1>3, <1>4, <1>5, <1>6 DEF IInv

\* Moving the current directory away makes the backup the only copy of it.
LEMMA BackUpMasterStep ==
  ASSUME IInv, NEW k \in Keys, BackUpMaster(k)
  PROVE  IInv' /\ UNCHANGED Shown
<1> DEFINE b == [token |-> token, key |-> k, gen |-> master[k]]
<1>1. /\ Pending /\ mode = "run" /\ token \in Nat /\ k \in journal.had
      /\ master[k] \in Nat /\ master[k] < token
  BY DEF IInv, Control, TypeOK, RunProgress, Bounded, BackUpMaster, Tokens, Versions
<1>2. Backup(token, k) = {} /\ Backup(token, k)' = {b}
  BY <1>1 DEF IInv, JournalIsKept, BackUpMaster, TypeOK
<1>3. master'[k] = None /\ \A j \in Keys \ {k} : master'[j] = master[j]
  BY DEF BackUpMaster, IInv, TypeOK
<1>4. ModelStep(k)
  BY <1>1, <1>3 DEF ModelStep, BackUpMaster, IInv, TypeOK, Versions, Bounded
<1>5. JournalIsKept'
  <2>1. \A c \in backups' : c.token = token =>
          /\ c.key \in journal.had /\ c.gen < token /\ master'[c.key] \in {None, token}
          /\ c.key = k => c = b
    BY <1>1, <1>2, <1>3, BootstrapConstants DEF IInv, JournalIsKept, BackUpMaster, TypeOK
  <2>2. \A c, d \in backups' : c.token = token /\ d.token = token /\ c.key = d.key => c = d
    BY <1>1, <2>1 DEF IInv, JournalIsKept, BackUpMaster
  <2>3. \A j \in journal.had : Backup(token, j)' = {} => master'[j] \notin {None, token}
    <3>1. \A j \in journal.had : j \in Keys
      BY <1>1 DEF IInv, TypeOK, Journals
    <3>2. \A j \in journal.had \ {k} : Backup(token, j)' = Backup(token, j)
      BY <1>4, <3>1 DEF ModelStep
    <3>3. Backup(token, k)' # {}
      BY <1>2
    <3>4. QED BY <1>1, <1>3, <3>1, <3>2, <3>3 DEF IInv, JournalIsKept
  <2>4. /\ \A j \in journal.keys \ journal.had : master'[j] \in {None, token}
        /\ \A j \in journal.keys : master'[j] = token => <<token, j>> \notin candModels
        /\ \A j \in Keys \ journal.keys : master'[j] # token
    BY <1>1, <1>3, BootstrapConstants DEF IInv, JournalIsKept, TypeOK, Journals
  <2>5. QED BY <2>1, <2>2, <2>3, <2>4 DEF IInv, JournalIsKept, BackUpMaster
<1>6. RunProgress' /\ RestoreProgress' /\ UndoIsOwn'
  <2>1. \A j \in Keys : master'[j] = token => master[j] = token
    BY <1>1, <1>3, BootstrapConstants
  <2>2. \A j \in promoted : j \in Keys /\ master[j] = token /\ j # k
    BY <1>1 DEF IInv, RunProgress, TypeOK, BackUpMaster, Control
  <2>3. QED BY <1>1, <1>3, <2>1, <2>2 DEF IInv, TypeOK, RunProgress, RestoreProgress,
           UndoIsOwn, BackUpMaster, BeforePromotion, AfterInstall, Quiet
<1>7. Shown.master[k]' = Shown.master[k]
  <2>1. Shown.master[k] = master[k]
    BY <1>1, <1>2, ShownMaster DEF IInv, ShownIsKept
  <2>2. TypeOK' /\ Pending'
    BY <1>1, <1>4 DEF ModelStep, IInv, TypeOK, BackUpMaster
  <2>3. ShownIsKept'
    BY <1>5, <2>2, ShownMaster, PTL
  <2>4. \A c \in Backup(token, k)' : Shown.master[k]' = c.gen
    BY <2>3 DEF ShownIsKept
  <2>5. b \in Backup(token, k)' /\ b.gen = master[k]
    BY <1>2
  <2>6. QED BY <2>1, <2>4, <2>5
<1>8. QED BY <1>1, <1>4, <1>5, <1>6, <1>7, ModelFrame

\* A directory that is the candidate's or is not there may become the other.
LEMMA SwapMaster ==
  ASSUME IInv, NEW k \in Keys, NEW v \in {None, token},
         Pending, k \in journal.keys, master[k] \in {None, token},
         master' = [master EXCEPT ![k] = v],
         UNCHANGED <<journal, backups, token>>, TypeOK',
         candModels' \subseteq candModels, v = token => <<token, k>> \notin candModels'
  PROVE  /\ JournalIsKept'
         /\ Shown.master[k]' = Shown.master[k]
<1>1. /\ token \in Nat /\ journal.token = token /\ journal.keys \subseteq Keys
      /\ journal.had \subseteq journal.keys
      /\ k \in journal.had => Backup(token, k) # {}
  BY DEF IInv, TypeOK, Tokens, JournalIsKept, Journals
<1>2. master'[k] = v /\ \A j \in Keys \ {k} : master'[j] = master[j]
  BY DEF IInv, TypeOK
<1>3. JournalIsKept'
  <2>1. \A c \in backups : c.key \in Keys
    BY DEF IInv, TypeOK
  <2>2. \A c \in backups : c.token = token =>
          /\ c.key \in journal.had /\ c.gen < token /\ master'[c.key] \in {None, token}
    BY <1>2, <2>1 DEF IInv, JournalIsKept
  <2>3. /\ \A j \in journal.had : Backup(token, j) = {} => master'[j] \notin {None, token}
        /\ \A j \in journal.keys \ journal.had : master'[j] \in {None, token}
        /\ \A j \in journal.keys : master'[j] = token => <<token, j>> \notin candModels'
        /\ \A j \in Keys \ journal.keys : master'[j] # token
    BY <1>1, <1>2, BootstrapConstants DEF IInv, JournalIsKept
  <2>4. QED BY <1>1, <2>2, <2>3 DEF IInv, JournalIsKept
<1>4. Shown.master[k]' = Shown.master[k]
  BY <1>1 DEF Shown
<1>5. QED BY <1>3, <1>4

\* A backup may go back where it was.
LEMMA PutBack ==
  ASSUME IInv, NEW k \in Keys, NEW b \in Backup(token, k),
         Pending, TypeOK',
         master' = [master EXCEPT ![k] = b.gen], backups' = backups \ {b},
         UNCHANGED <<journal, candModels, token>>
  PROVE  /\ JournalIsKept' /\ Backup(token, k)' = {}
         /\ master'[k] \notin {None, token}
         /\ Shown.master[k]' = Shown.master[k]
<1>1. /\ token \in Nat /\ journal.token = token /\ journal.keys \subseteq Keys
      /\ k \in journal.had /\ journal.had \subseteq journal.keys
      /\ b.gen \in Nat /\ b.gen < token
      /\ Backup(token, k) = {b}
  BY DEF IInv, TypeOK, Tokens, JournalIsKept, Journals
<1>2. /\ master'[k] = b.gen /\ \A j \in Keys \ {k} : master'[j] = master[j]
      /\ Backup(token, k)' = {}
      /\ \A j \in Keys \ {k} : Backup(token, j)' = Backup(token, j)
  BY <1>1 DEF IInv, TypeOK
<1>3. JournalIsKept'
  <2>1. \A c \in backups' : c \in backups /\ c.key \in Keys /\ (c.token = token => c.key # k)
    BY <1>1 DEF IInv, TypeOK
  <2>2. \A c \in backups' : c.token = token =>
          /\ c.key \in journal.had /\ c.gen < token /\ master'[c.key] \in {None, token}
    BY <1>2, <2>1 DEF IInv, JournalIsKept
  <2>3. \A j \in journal.had : Backup(token, j)' = {} => master'[j] \notin {None, token}
    BY <1>1, <1>2, BootstrapConstants DEF IInv, JournalIsKept
  <2>4. /\ \A j \in journal.keys \ journal.had : master'[j] \in {None, token}
        /\ \A j \in journal.keys : master'[j] = token => <<token, j>> \notin candModels
        /\ \A j \in Keys \ journal.keys : master'[j] # token
    BY <1>1, <1>2 DEF IInv, JournalIsKept
  <2>5. QED BY <1>1, <2>1, <2>2, <2>3, <2>4 DEF IInv, JournalIsKept
<1>4. Shown.master[k]' = Shown.master[k]
  <2>1. ShownIsKept
    BY ShownMaster DEF IInv
  <2>2. ShownIsKept'
    <3>1. Pending'
      BY DEF IInv
    <3>2. QED BY <1>3, <3>1, ShownMaster, PTL
  <2>3. Shown.master[k] = b.gen
    BY <2>1 DEF ShownIsKept
  <2>4. Shown.master[k]' = master'[k]
    BY <1>1, <1>2, <2>2 DEF ShownIsKept
  <2>5. QED BY <1>2, <2>3, <2>4
<1>5. QED BY <1>1, <1>2, <1>3, <1>4, BootstrapConstants

\* The candidate takes a place that its backup has left.
LEMMA PromoteModelStep ==
  ASSUME IInv, NEW k \in Keys, PromoteModel(k)
  PROVE  IInv' /\ UNCHANGED Shown
<1>1. /\ Pending /\ mode = "run" /\ token \in Tokens /\ k \in journal.keys
      /\ token \in Nat /\ Versions = Tokens \union {None}
  BY DEF IInv, Control, TypeOK, RunProgress, PromoteModel, Tokens, BeforePromotion, Versions
<1>2. master'[k] = token /\ \A j \in Keys \ {k} : master'[j] = master[j]
  BY DEF PromoteModel, IInv, TypeOK
<1>3. TypeOK'
  BY <1>1 DEF IInv, TypeOK, PromoteModel
<1>4. ModelStep(k)
  BY <1>1, <1>2, <1>3 DEF ModelStep, PromoteModel, IInv, TypeOK, Bounded
<1>5. JournalIsKept' /\ Shown.master[k]' = Shown.master[k]
  BY <1>1, <1>3, SwapMaster DEF PromoteModel
<1>6. RunProgress' /\ RestoreProgress' /\ UndoIsOwn'
  BY <1>1, <1>2 DEF IInv, TypeOK, RunProgress, RestoreProgress,
     UndoIsOwn, PromoteModel, BeforePromotion, AfterInstall, Quiet
<1>7. QED BY <1>1, <1>4, <1>5, <1>6, ModelFrame

\* A promoted directory is removed, its backup still there.
LEMMA UnpromoteModelStep ==
  ASSUME IInv, NEW k \in Keys, UnpromoteModel(k)
  PROVE  IInv' /\ UNCHANGED Shown
<1>1. /\ Pending /\ mode # "recover" /\ k \in journal.keys
  BY DEF IInv, Control, RunProgress, UndoIsOwn, UnpromoteModel, TypeOK
<1>2. master'[k] = None /\ \A j \in Keys \ {k} : master'[j] = master[j]
  BY DEF UnpromoteModel, IInv, TypeOK
<1>3. TypeOK'
  BY DEF IInv, TypeOK, UnpromoteModel, Versions
<1>4. ModelStep(k)
  BY <1>1, <1>2, <1>3 DEF ModelStep, UnpromoteModel, IInv, TypeOK, Bounded
<1>5. JournalIsKept' /\ Shown.master[k]' = Shown.master[k]
  <2>1. None # token
    BY BootstrapConstants DEF IInv, TypeOK, Tokens
  <2>2. QED BY <1>1, <1>3, <2>1, SwapMaster DEF UnpromoteModel
<1>6. RunProgress' /\ RestoreProgress' /\ UndoIsOwn'
  BY <1>1, <1>2 DEF IInv, TypeOK, RunProgress, RestoreProgress,
     UndoIsOwn, UnpromoteModel, BeforePromotion, AfterInstall, Quiet
<1>7. QED BY <1>1, <1>4, <1>5, <1>6, ModelFrame

\* The handler moves a backup back into its place.
LEMMA ReinstateModelStep ==
  ASSUME IInv, NEW k \in Keys, ReinstateModel(k)
  PROVE  IInv' /\ UNCHANGED Shown
<1>1. /\ Pending /\ mode # "recover" /\ k \in journal.keys
  BY DEF IInv, Control, RunProgress, UndoIsOwn, ReinstateModel, TypeOK
<1>2. PICK b \in Backup(token, k) :
        master' = [master EXCEPT ![k] = b.gen] /\ backups' = backups \ {b}
  BY DEF ReinstateModel
<1>3. master'[k] = b.gen /\ \A j \in Keys \ {k} : master'[j] = master[j]
  BY <1>2 DEF IInv, TypeOK
<1>4. TypeOK'
  BY <1>2 DEF IInv, TypeOK, ReinstateModel, Versions
<1>5. /\ JournalIsKept' /\ Shown.master[k]' = Shown.master[k]
      /\ master'[k] \notin {None, token}
  BY <1>1, <1>2, <1>4, PutBack DEF ReinstateModel
<1>6. ModelStep(k)
  <2>1. b.gen <= token
    BY <1>1, <1>2 DEF IInv, JournalIsKept, TypeOK, Tokens
  <2>2. QED BY <1>1, <1>2, <1>3, <1>4, <2>1
           DEF ModelStep, ReinstateModel, IInv, TypeOK, Bounded
<1>7. RunProgress' /\ RestoreProgress' /\ UndoIsOwn'
  BY <1>1 DEF IInv, TypeOK, RunProgress, RestoreProgress,
     UndoIsOwn, ReinstateModel, BeforePromotion, AfterInstall, Quiet
<1>8. QED BY <1>1, <1>5, <1>6, <1>7, ModelFrame

\* A restore puts the backup back, or removes what the run has put there.
LEMMA RestoreModelStep ==
  ASSUME IInv, NEW k \in Keys, RestoreModel(k)
  PROVE  IInv' /\ UNCHANGED Shown
<1>1. /\ Pending /\ mode # "run" /\ pc = "restoreModels" /\ journal.token = token
      /\ journal.had \subseteq journal.keys /\ journal.keys \subseteq Keys
      /\ token \in Nat
  BY DEF IInv, Control, RestoreModel, JournalIsKept, TypeOK, Journals, Tokens
<1>2. CASE UNCHANGED models /\ left' = left \ {k}
  <2>1. /\ k \in journal.had => Backup(token, k) = {}
        /\ k \in journal.keys \ journal.had => Backup(token, k) = {} /\ master[k] = None
    BY <1>1, <1>2 DEF IInv, JournalIsKept, RestoreModel
  <2>2. ModelStep(k)
    BY <1>1, <1>2 DEF ModelStep, RestoreModel, IInv, TypeOK, Bounded
  <2>3. JournalIsKept' /\ RunProgress' /\ UndoIsOwn'
    BY <1>1, <1>2 DEF IInv, JournalIsKept, RunProgress, UndoIsOwn, RestoreModel
  <2>4. RestoreProgress'
    BY <1>1, <1>2, <2>1 DEF IInv, RestoreProgress, RestoreModel
  <2>5. Shown.master[k]' = Shown.master[k]
    BY <1>2 DEF RestoreModel, Shown
  <2>6. QED BY <1>1, <2>2, <2>3, <2>4, <2>5, ModelFrame DEF RestoreModel
<1>3. CASE /\ master' = [master EXCEPT ![k] = None] /\ UNCHANGED <<backups, left>>
           /\ master[k] # None
           /\ IF k \in journal.had THEN Backup(token, k) # {}
              ELSE <<token, k>> \notin candModels
  <2>1. master'[k] = None /\ \A j \in Keys \ {k} : master'[j] = master[j]
    BY <1>3 DEF IInv, TypeOK
  <2>2. k \in journal.keys /\ master[k] \in {None, token}
    BY <1>1, <1>3 DEF IInv, JournalIsKept, RestoreProgress, RestoreModel
  <2>3. TypeOK'
    BY <1>3 DEF IInv, TypeOK, RestoreModel, Versions
  <2>4. ModelStep(k)
    BY <1>1, <1>3, <2>1, <2>3 DEF ModelStep, RestoreModel, IInv, TypeOK, Bounded
  <2>5. JournalIsKept' /\ Shown.master[k]' = Shown.master[k]
    <3>1. None # token
      BY <1>1, BootstrapConstants
    <3>2. QED BY <1>1, <1>3, <2>2, <2>3, <3>1, SwapMaster DEF RestoreModel
  <2>6. RunProgress' /\ UndoIsOwn'
    BY <1>1 DEF RunProgress, UndoIsOwn, RestoreModel
  <2>7. RestoreProgress'
    BY <1>1, <1>3, <2>1 DEF IInv, RestoreProgress, RestoreModel
  <2>8. QED BY <1>1, <2>4, <2>5, <2>6, <2>7, ModelFrame DEF RestoreModel
<1>4. CASE \E b \in Backup(token, k) :
             /\ master' = [master EXCEPT ![k] = b.gen]
             /\ backups' = backups \ {b}
             /\ left' = left \ {k}
  <2>1. PICK b \in Backup(token, k) :
          /\ master' = [master EXCEPT ![k] = b.gen]
          /\ backups' = backups \ {b}
          /\ left' = left \ {k}
    BY <1>4
  <2>2. master'[k] = b.gen /\ \A j \in Keys \ {k} : master'[j] = master[j]
    BY <2>1 DEF IInv, TypeOK
  <2>3. TypeOK'
    BY <2>1 DEF IInv, TypeOK, RestoreModel, Versions
  <2>4. /\ JournalIsKept' /\ Shown.master[k]' = Shown.master[k]
        /\ Backup(token, k)' = {}
    BY <1>1, <2>1, <2>3, PutBack DEF RestoreModel
  <2>5. ModelStep(k)
    <3>1. b.gen <= token
      BY <1>1, <2>1 DEF IInv, JournalIsKept, TypeOK, Tokens
    <3>2. QED BY <1>1, <2>1, <2>2, <2>3, <3>1
             DEF ModelStep, RestoreModel, IInv, TypeOK, Bounded
  <2>6. RunProgress' /\ UndoIsOwn'
    BY <1>1 DEF RunProgress, UndoIsOwn, RestoreModel
  <2>7. RestoreProgress'
    <3>1. k \in journal.had
      BY <1>1, <2>1 DEF IInv, JournalIsKept
    <3>2. QED BY <1>1, <2>1, <2>2, <2>4, <3>1 DEF IInv, RestoreProgress, RestoreModel
  <2>8. QED BY <1>1, <2>4, <2>5, <2>6, <2>7, ModelFrame DEF RestoreModel
<1>5. QED BY <1>1, <1>2, <1>3, <1>4 DEF RestoreModel
-----------------------------------------------------------------------------
(* The steps that write, remove or put back a deployed file. *)

BindingStep ==
  /\ pc \in {"install", "restoreBindings"} /\ Pending
  /\ bindings' \in [Files -> Versions] /\ left' \subseteq left
  /\ active' \subseteq active /\ enabled' \subseteq enabled
  /\ UNCHANGED <<manifest, runtimes, candidates, models, journal, pc, memory, promoted>>

\* A step on one deployed file leaves the models and the journal.
LEMMA BindingFrame ==
  ASSUME IInv, BindingStep, RunProgress', RestoreProgress'
  PROVE  IInv' /\ UNCHANGED Shown
<1> USE DEF BindingStep
<1>1. TypeOK' /\ Bounded' /\ Control'
  BY DEF IInv, TypeOK, Bounded, Control
<1>2. CandidateIsUnused' /\ JournalIsKept' /\ UndoIsOwn' /\ CommitProgress'
  BY DEF IInv, CandidateIsUnused, JournalIsKept, UndoIsOwn, CommitProgress
<1>3. DiscardIsUndone' /\ DroppedAreCleaned' /\ CleanExit'
  BY DEF IInv, DiscardIsUndone, DroppedAreCleaned, Cleaned, CleanExit
<1>4. UNCHANGED Shown
  BY ShownFrame
<1>5. SelectionIsWhole'
  BY <1>4, WholeFrame DEF IInv
<1>6. QED BY <1>1, <1>2, <1>3, <1>4, <1>5 DEF IInv

\* A file installed is one that the journal can put back.
LEMMA InstallFileStep ==
  ASSUME IInv, NEW f \in Files, InstallFile(f)
  PROVE  IInv' /\ UNCHANGED Shown
<1> USE DEF InstallFile
<1>1. Pending /\ mode = "run" /\ token \in Versions
  BY DEF IInv, Control, TypeOK, Versions
<1>2. bindings'[f] = token /\ \A g \in Files \ {f} : bindings'[g] = bindings[g]
  BY DEF IInv, TypeOK
<1>3. RunProgress' /\ RestoreProgress'
  BY <1>1, <1>2 DEF IInv, RunProgress, RestoreProgress, BeforePromotion, AfterInstall, Installed
<1>4. BindingStep
  BY <1>1 DEF IInv, TypeOK, BindingStep
<1>5. QED BY <1>3, <1>4, BindingFrame

\* The unit of the old worker goes away with the files.
LEMMA RetireLegacyWorkerStep ==
  ASSUME IInv, RetireLegacyWorker
  PROVE  IInv' /\ UNCHANGED Shown
<1> USE DEF RetireLegacyWorker
<1>1. Pending /\ mode = "run" /\ LegacyUnit \in Files
  BY BootstrapConstants DEF IInv, Control, TypeOK
<1>2. /\ bindings'[LegacyUnit] = None
      /\ \A g \in Files \ {LegacyUnit} : bindings'[g] = bindings[g]
  BY <1>1 DEF IInv, TypeOK
<1>3. RunProgress' /\ RestoreProgress'
  BY <1>1, <1>2 DEF IInv, RunProgress, RestoreProgress, BeforePromotion, AfterInstall, Installed
<1>4. BindingStep
  BY <1>1 DEF IInv, TypeOK, BindingStep, Versions
<1>5. QED BY <1>3, <1>4, BindingFrame

\* A restore removes the files the run may have written.
LEMMA UnlinkBindingStep ==
  ASSUME IInv, NEW f \in Files, UnlinkBinding(f)
  PROVE  IInv' /\ UNCHANGED Shown
<1> USE DEF UnlinkBinding
<1>1. Pending /\ mode # "run"
  BY DEF IInv, Control
<1>2. \A g \in Files \ {f} : bindings'[g] = bindings[g]
  BY DEF IInv, TypeOK
<1>3. RunProgress' /\ RestoreProgress'
  BY <1>1, <1>2 DEF IInv, RunProgress, RestoreProgress
<1>4. BindingStep
  BY <1>1 DEF IInv, TypeOK, BindingStep, Versions
<1>5. QED BY <1>3, <1>4, BindingFrame

\* A restore writes each file as it was.
LEMMA RestoreBindingStep ==
  ASSUME IInv, NEW f \in Files, RestoreBinding(f)
  PROVE  IInv' /\ UNCHANGED Shown
<1> USE DEF RestoreBinding
<1>1. Pending /\ mode # "run" /\ journal.bindings \in [Files -> Versions]
  BY DEF IInv, Control, TypeOK, Journals
<1>2. /\ bindings'[f] = journal.bindings[f]
      /\ \A g \in Files \ {f} : bindings'[g] = bindings[g]
  BY DEF IInv, TypeOK
<1>3. RunProgress' /\ RestoreProgress'
  BY <1>1, <1>2 DEF IInv, RunProgress, RestoreProgress
<1>4. BindingStep
  BY <1>1 DEF IInv, TypeOK, BindingStep
<1>5. QED BY <1>3, <1>4, BindingFrame
-----------------------------------------------------------------------------
(* The steps before the journal is written. *)

ChoosingStep ==
  /\ pc \in Choosing /\ pc' \in Choosing
  /\ UNCHANGED <<manifest, runtimes, models, bindings, units, journal, loop,
                 mode, broken, setup, faults, outcome>>

\* Before the journal nothing in force is touched.
LEMMA ChoosingFrame ==
  ASSUME IInv, ChoosingStep, TypeOK', Bounded', CandidateIsUnused', DroppedAreCleaned',
         prev' = IF pc' \in {"sweep", "load"} THEN None ELSE manifest,
         pc' \in {"probe", "snapshot"} => backend' \in Backends
  PROVE  IInv' /\ UNCHANGED Shown
<1> USE DEF ChoosingStep
<1>1. ~Pending /\ mode = "run" /\ ~broken
  BY DEF IInv, Control, TypeOK
<1>2. Control'
  BY <1>1 DEF IInv, Control
<1>3. JournalIsKept' /\ RunProgress' /\ UndoIsOwn' /\ CommitProgress' /\ RestoreProgress'
  BY <1>1 DEF JournalIsKept, RunProgress, UndoIsOwn, CommitProgress, RestoreProgress
<1>4. DiscardIsUndone' /\ CleanExit'
  BY DEF DiscardIsUndone, CleanExit
<1>5. UNCHANGED Shown
  BY ShownFrame
<1>6. SelectionIsWhole'
  BY <1>5, WholeFrame DEF IInv
<1>7. QED BY <1>2, <1>3, <1>4, <1>5, <1>6 DEF IInv

\* The step that ends a run, or cuts it short: it may only take candidates away.
IdleStep ==
  /\ pc # Idle /\ pc' = Idle
  /\ promoted' = {} /\ left' = {}
  /\ candRuntimes' \subseteq candRuntimes /\ candModels' \subseteq candModels
  /\ UNCHANGED <<manifest, runtimes, models, bindings, units, journal, mode, broken, setup,
                 choice>>

\* Ending there keeps the invariant, if what is left behind suits the outcome.
LEMMA IdleFrame ==
  ASSUME IInv, IdleStep, faults' \in 0..MaxFaults, CleanExit',
         outcome' \in {"ok", "already", "failed", "broken", "crashed"}
  PROVE  IInv' /\ UNCHANGED Shown
<1> USE DEF IdleStep
<1>1. TypeOK' /\ Bounded' /\ Control'
  BY DEF IInv, TypeOK, Bounded, Control
<1>2. CandidateIsUnused' /\ JournalIsKept'
  BY DEF IInv, CandidateIsUnused, JournalIsKept
<1>3. RunProgress' /\ UndoIsOwn' /\ CommitProgress' /\ RestoreProgress' /\ DiscardIsUndone'
  BY DEF RunProgress, UndoIsOwn, CommitProgress, RestoreProgress, DiscardIsUndone
<1>4. DroppedAreCleaned'
  BY DEF IInv, DroppedAreCleaned, Cleaned
<1>5. UNCHANGED Shown
  BY ShownFrame
<1>6. SelectionIsWhole'
  BY <1>5, WholeFrame DEF IInv
<1>7. QED BY <1>1, <1>2, <1>3, <1>4, <1>5, <1>6 DEF IInv

\* Candidates of dead runs are swept before this run names its own.
LEMMA SweepStep ==
  ASSUME IInv, Sweep
  PROVE  IInv' /\ UNCHANGED Shown
<1> USE DEF IInv, Sweep
<1>1. TypeOK' /\ Bounded'
  BY DEF TypeOK, Bounded
<1>2. CandidateIsUnused' /\ DroppedAreCleaned'
  BY DEF CandidateIsUnused, DroppedAreCleaned, Cleaned
<1>3. QED BY <1>1, <1>2, ChoosingFrame DEF ChoosingStep, Control

\* The manifest in force becomes the one to come back to.
LEMMA LoadStep ==
  ASSUME IInv, Load
  PROVE  IInv' /\ UNCHANGED Shown
<1> USE DEF IInv, Load
<1>1. CASE pc' = Idle
  <2>1. pc = "load" /\ UNCHANGED durable
    BY <1>1
  <2>2. ~Pending /\ firstToken = token + 1 /\ token \in Nat
    BY <2>1 DEF Control, DroppedAreCleaned, TypeOK, Tokens
  <2>3. outcome' \in {"failed", "already"} /\ IdleStep /\ UNCHANGED faults
    BY <1>1, <2>1 DEF End, IdleStep
  <2>4. CleanExit'
    BY <2>1, <2>2, <2>3 DEF CleanExit, IdleStep
  <2>5. QED BY <2>3, <2>4, IdleFrame DEF TypeOK
<1>2. CASE pc' # Idle
  <2>1. /\ pc = "load" /\ pc' = "native" /\ prev' = manifest /\ UNCHANGED durable
        /\ UNCHANGED <<mode, broken, setup, todo, backend, token, faults, outcome, loop>>
    BY <1>2 DEF End
  <2>2. TypeOK' /\ Bounded' /\ CandidateIsUnused' /\ DroppedAreCleaned'
    BY <2>1 DEF TypeOK, Bounded, CandidateIsUnused, DroppedAreCleaned, Cleaned
  <2>3. QED BY <2>1, <2>2, ChoosingFrame DEF ChoosingStep
<1>3. QED BY <1>1, <1>2

\* Looking at the hardware and at a candidate changes nothing on the disk.
LEMMA ChooseSteps ==
  ASSUME IInv, BuildNative \/ RejectCandidate \/ AcceptCandidate
  PROVE  IInv' /\ UNCHANGED Shown
<1> USE DEF IInv, BuildNative, RejectCandidate, AcceptCandidate
<1>1. TypeOK' /\ Bounded'
  BY DEF TypeOK, Bounded
<1>2. CandidateIsUnused' /\ DroppedAreCleaned'
  BY DEF CandidateIsUnused, Unused, DroppedAreCleaned, Cleaned
<1>3. QED BY <1>1, <1>2, ChoosingFrame DEF ChoosingStep, Control

\* The tokens a run can reach.
LEMMA TokenBound ==
  ASSUME TypeOK, Bounded
  PROVE  /\ Cardinality(Backends) \in Nat
         /\ \A t \in Nat : t <= runs * Cardinality(Backends) => t \in Tokens
<1>1. Cardinality(Backends) \in Nat
  BY FS_CardinalityType, BootstrapConstants
<1>2. runs * Cardinality(Backends) <= MaxRuns * Cardinality(Backends)
  BY <1>1, BootstrapConstants DEF TypeOK
<1>3. QED BY <1>1, <1>2, BootstrapConstants DEF Tokens, TypeOK

\* A candidate is built under a token that nothing has borne.
LEMMA BuildCandidateStep ==
  ASSUME IInv, BuildCandidate
  PROVE  IInv' /\ UNCHANGED Shown
<1> USE DEF IInv
<1>1. /\ todo \in Seq(Backends) /\ todo # <<>> /\ Head(todo) \in Backends
      /\ Tail(todo) \in Seq(Backends) /\ Len(Tail(todo)) = Len(todo) - 1 /\ Len(todo) >= 1
  BY DEF Bounded, BuildCandidate
<1>2. /\ token \in Nat /\ Cardinality(Backends) \in Nat /\ runs \in Nat
      /\ token + 1 <= runs * Cardinality(Backends) /\ token + 1 \in Tokens
      /\ Tokens \subseteq Nat
  BY <1>1, TokenBound, BootstrapConstants DEF Bounded, TypeOK, Tokens
<1>3. Policy[Head(todo)] \subseteq Keys
  BY <1>1, BootstrapConstants
<1>4. TypeOK'
  BY <1>1, <1>2, <1>3 DEF TypeOK, BuildCandidate
<1>5. Bounded'
  <2>1. /\ todo' \in Seq(Backends)
        /\ token' + Len(todo') <= runs' * Cardinality(Backends)
        /\ firstToken' \in Nat \ {0} /\ firstToken' <= token' + 1
    BY <1>1, <1>2 DEF Bounded, BuildCandidate
  <2>2. token' = token + 1 /\ UNCHANGED <<manifest, runtimes, models>>
    BY DEF BuildCandidate
  <2>3. /\ manifest # None => manifest.gen \in Nat /\ manifest.gen <= token
        /\ \A k \in Keys : master[k] # None => master[k] \in Nat /\ master[k] <= token
        /\ \A b \in backups : b.token \in Nat /\ b.token <= token
    BY <1>2 DEF TypeOK, Bounded, Manifests, Versions
  <2>4. 0..token \subseteq 0..(token + 1) /\ token + 1 \in 0..(token + 1)
    BY <1>2
  <2>5. candRuntimes' \subseteq 0..token' /\ runtimes' \subseteq 0..token'
    BY <2>2, <2>4 DEF Bounded, BuildCandidate
  <2>6. candModels' \subseteq (0..token') \X Keys
    <3>1. candModels \subseteq (0..(token + 1)) \X Keys
      BY <2>4 DEF Bounded
    <3>2. {token + 1} \X Policy[Head(todo)] \subseteq (0..(token + 1)) \X Keys
      BY <1>3, <2>4
    <3>3. QED BY <2>2, <3>1, <3>2 DEF BuildCandidate
  <2>7. /\ manifest' # None => manifest'.gen <= token'
        /\ \A k \in Keys : master'[k] # None => master'[k] <= token'
        /\ \A b \in backups' : b.token <= token'
    BY <1>2, <2>2, <2>3
  <2>8. QED BY <2>1, <2>5, <2>6, <2>7 DEF Bounded
<1>6. CandidateIsUnused'
  BY <1>2, BootstrapConstants DEF CandidateIsUnused, Unused, Bounded, BuildCandidate
<1>7. DroppedAreCleaned'
  BY <1>2 DEF DroppedAreCleaned, Cleaned, Bounded, BuildCandidate
<1>8. prev' = manifest /\ pc' \in Choosing /\ pc \in Choosing
  BY DEF Control, BuildCandidate
<1>9. QED BY <1>1, <1>4, <1>5, <1>6, <1>7, <1>8, ChoosingFrame DEF ChoosingStep, BuildCandidate

\* A rejected candidate leaves the disk as it was.
LEMMA DropCandidateStep ==
  ASSUME IInv, DropCandidate
  PROVE  IInv' /\ UNCHANGED Shown
<1> USE DEF IInv, DropCandidate, DiscardCandidates, CandidatesOf
<1>1. /\ token \in Nat /\ ~Pending /\ firstToken \in Nat /\ firstToken <= token + 1
      /\ token' = token
  BY DEF End, TypeOK, Tokens, Control, Bounded
<1>2. \A t \in firstToken..token : Cleaned(t)'
  <2>1. ASSUME NEW t, t = token
        PROVE  Cleaned(t)'
    BY <1>1, <2>1 DEF CandidateIsUnused, Unused, Cleaned
  <2>2. \A t \in firstToken..(token - 1) : Cleaned(t)'
    BY DEF DroppedAreCleaned, Cleaned
  <2>3. \A t \in firstToken..token : t = token \/ t \in firstToken..(token - 1)
    BY <1>1
  <2>4. QED BY <2>1, <2>2, <2>3
<1>3. CASE todo = <<>>
  <2>1. IdleStep /\ UNCHANGED faults /\ outcome' = "failed"
    BY <1>3 DEF End, IdleStep
  <2>2. CleanExit'
    BY <1>1, <1>2, <2>1 DEF CleanExit, IdleStep, Cleaned
  <2>3. QED BY <2>1, <2>2, IdleFrame DEF TypeOK
<1>4. CASE todo # <<>>
  <2>1. ChoosingStep /\ pc' = "build" /\ UNCHANGED choice
    BY <1>4 DEF ChoosingStep
  <2>2. TypeOK' /\ Bounded'
    BY <2>1 DEF ChoosingStep, TypeOK, Bounded
  <2>3. CandidateIsUnused' /\ DroppedAreCleaned'
    BY <1>1, <1>2, <2>1 DEF CandidateIsUnused, DroppedAreCleaned, ChoosingStep
  <2>4. QED BY <2>1, <2>2, <2>3, ChoosingFrame DEF Control
<1>5. QED BY <1>3, <1>4
-----------------------------------------------------------------------------
(* The steps that move the runtime and the manifest. *)

\* The candidate's runtime becomes one of the runtimes, selected by nothing
\* yet.
LEMMA PromoteRuntimeStep ==
  ASSUME IInv, PromoteRuntime
  PROVE  IInv' /\ UNCHANGED Shown
<1> USE DEF IInv, PromoteRuntime
<1>1. Pending /\ mode = "run" /\ token \in Nat /\ ~broken
  BY DEF Control, TypeOK, Tokens
<1>2. TypeOK' /\ Bounded' /\ Control'
  BY <1>1 DEF TypeOK, Bounded, Control
<1>3. CandidateIsUnused' /\ JournalIsKept' /\ UndoIsOwn' /\ CommitProgress'
  BY <1>1 DEF CandidateIsUnused, JournalIsKept, UndoIsOwn, CommitProgress
<1>4. RunProgress' /\ RestoreProgress'
  BY <1>1 DEF RunProgress, RestoreProgress, BeforePromotion, AfterInstall, Quiet
<1>5. DiscardIsUndone' /\ DroppedAreCleaned' /\ CleanExit'
  BY <1>1 DEF DiscardIsUndone, DroppedAreCleaned, Cleaned, CleanExit, Bounded
<1>6. UNCHANGED Shown
  BY <1>1, ShownFrame
<1>7. SelectionIsWhole'
  BY <1>6, WholeFrame
<1>8. QED BY <1>2, <1>3, <1>4, <1>5, <1>6, <1>7

\* The manifest names a runtime and models that are in place.
LEMMA WriteManifestStep ==
  ASSUME IInv, WriteManifest
  PROVE  IInv' /\ UNCHANGED Shown
<1> USE DEF IInv, WriteManifest
<1>1. Pending /\ mode = "run" /\ token \in Nat /\ ~broken /\ backend \in Backends
  BY DEF Control, TypeOK, Tokens, RunProgress
<1>2. TypeOK' /\ Bounded' /\ Control'
  BY <1>1 DEF TypeOK, Bounded, Control, Manifests
<1>3. CandidateIsUnused' /\ JournalIsKept' /\ UndoIsOwn' /\ CommitProgress'
  BY <1>1 DEF CandidateIsUnused, JournalIsKept, UndoIsOwn, CommitProgress
<1>4. RunProgress' /\ RestoreProgress'
  BY <1>1, BootstrapConstants DEF RunProgress, RestoreProgress, BeforePromotion, AfterInstall
<1>5. DiscardIsUndone' /\ DroppedAreCleaned' /\ CleanExit'
  BY <1>1 DEF DiscardIsUndone, DroppedAreCleaned, Cleaned, CleanExit
<1>6. UNCHANGED Shown
  BY <1>1, ShownFrame
<1>7. SelectionIsWhole'
  BY <1>6, WholeFrame
<1>8. QED BY <1>2, <1>3, <1>4, <1>5, <1>6, <1>7

\* The runtime of a run that is undone is selected by nothing.
LEMMA RestoreRuntimeStep ==
  ASSUME IInv, RestoreRuntime
  PROVE  IInv' /\ UNCHANGED Shown
<1> USE DEF IInv, RestoreRuntime
<1>1. Pending /\ mode # "run" /\ token \in Nat /\ ~broken /\ journal.token = token
  BY DEF Control, TypeOK, Tokens, JournalIsKept
<1>2. TypeOK' /\ Bounded' /\ Control'
  BY <1>1 DEF TypeOK, Bounded, Control
<1>3. CandidateIsUnused' /\ JournalIsKept' /\ UndoIsOwn' /\ CommitProgress'
  BY <1>1 DEF CandidateIsUnused, JournalIsKept, UndoIsOwn, CommitProgress
<1>4. RunProgress' /\ RestoreProgress'
  BY <1>1 DEF RunProgress, RestoreProgress
<1>5. DiscardIsUndone' /\ DroppedAreCleaned' /\ CleanExit'
  BY <1>1 DEF DiscardIsUndone, DroppedAreCleaned, Cleaned, CleanExit
<1>6. UNCHANGED Shown
  BY <1>1, ShownFrame
<1>7. SelectionIsWhole'
  <2>1. Shown.manifest # None => Shown.manifest.gen # token
    BY <1>1 DEF Shown, JournalIsKept
  <2>2. QED BY <1>1, <1>6, <2>1, WholeFrame
<1>8. QED BY <1>2, <1>3, <1>4, <1>5, <1>6, <1>7

\* The journal's manifest is the one in force before the run.
LEMMA RestoreManifestStep ==
  ASSUME IInv, RestoreManifest
  PROVE  IInv' /\ UNCHANGED Shown
<1> USE DEF IInv, RestoreManifest
<1>1. Pending /\ mode # "run" /\ token \in Nat /\ ~broken /\ journal.manifest \in Manifests
  BY DEF Control, TypeOK, Tokens, Journals
<1>2. TypeOK' /\ Control'
  BY <1>1 DEF TypeOK, Control
<1>3. Bounded'
  <2>1. journal.manifest # None => journal.manifest.gen <= token
    BY <1>1, TokenBound DEF JournalIsKept, Manifests, Tokens, TypeOK
  <2>2. QED BY <1>1, <2>1 DEF Bounded
<1>4. CandidateIsUnused' /\ JournalIsKept' /\ UndoIsOwn' /\ CommitProgress'
  BY <1>1 DEF CandidateIsUnused, JournalIsKept, UndoIsOwn, CommitProgress
<1>5. RunProgress' /\ RestoreProgress'
  BY <1>1 DEF RunProgress, RestoreProgress
<1>6. DiscardIsUndone' /\ DroppedAreCleaned' /\ CleanExit'
  BY <1>1 DEF DiscardIsUndone, DroppedAreCleaned, Cleaned, CleanExit
<1>7. UNCHANGED Shown
  BY <1>1, ShownFrame
<1>8. SelectionIsWhole'
  BY <1>7, WholeFrame
<1>9. QED BY <1>2, <1>3, <1>4, <1>5, <1>6, <1>7, <1>8

\* The handler has undone its list and turns to the journal.
LEMMA BeginRestoreStep ==
  ASSUME IInv, BeginRestore
  PROVE  IInv' /\ UNCHANGED Shown
<1> USE DEF IInv, BeginRestore
<1>1. Pending /\ ~broken /\ pc' = "stopDaemon"
  BY DEF Control
<1>2. TypeOK' /\ Bounded' /\ Control'
  BY <1>1 DEF TypeOK, Bounded, Control
<1>3. CandidateIsUnused' /\ JournalIsKept' /\ UndoIsOwn' /\ CommitProgress'
  BY <1>1 DEF CandidateIsUnused, JournalIsKept, UndoIsOwn, CommitProgress
<1>4. RunProgress' /\ RestoreProgress'
  BY <1>1 DEF RunProgress, RestoreProgress
<1>5. DiscardIsUndone' /\ DroppedAreCleaned' /\ CleanExit'
  BY <1>1 DEF DiscardIsUndone, DroppedAreCleaned, Cleaned, CleanExit
<1>6. UNCHANGED Shown
  BY ShownFrame
<1>7. SelectionIsWhole'
  BY <1>6, WholeFrame
<1>8. QED BY <1>2, <1>3, <1>4, <1>5, <1>6, <1>7
-----------------------------------------------------------------------------
(* The journal is written and removed. *)

\* The journal is written while everything it records is in its place.
LEMMA WriteJournalStep ==
  ASSUME IInv, WriteJournal
  PROVE  IInv' /\ UNCHANGED Shown
<1> USE DEF IInv
<1>1. /\ ~Pending /\ mode = "run" /\ ~broken /\ promoted = {} /\ token \in Tokens
      /\ token \in Nat /\ backend \in Backends /\ prev = manifest /\ token > 0
      /\ Unused(token)
  BY DEF Control, TypeOK, Tokens, WriteJournal, CandidateIsUnused
<1>2. Policy[backend] \subseteq Keys
  BY <1>1, BootstrapConstants
<1>3. BindingSnapshot = bindings
  BY DEF TypeOK, BindingSnapshot
<1>4. /\ journal' = [manifest |-> manifest,
                     services |-> [active |-> active, enabled |-> enabled],
                     bindings |-> bindings, token |-> token, keys |-> Policy[backend],
                     had |-> {k \in Policy[backend] : master[k] # None}]
      /\ left' = Policy[backend] /\ UNCHANGED <<disk, units, promoted, memory>>
      /\ pc = "snapshot"
      /\ pc' = IF manifest # None THEN "stopDaemon" ELSE "promoteRuntime"
  BY <1>1, <1>3 DEF WriteJournal, ServiceSnapshot, HadDestination
<1>5. journal' \in Journals /\ Pending'
  BY <1>1, <1>2, <1>4, BootstrapConstants DEF Journals, TypeOK
<1>6. TypeOK' /\ Bounded' /\ Control'
  BY <1>1, <1>2, <1>4, <1>5 DEF TypeOK, Bounded, Control
<1>7. CandidateIsUnused' /\ UndoIsOwn' /\ CommitProgress'
  BY <1>4 DEF CandidateIsUnused, UndoIsOwn, CommitProgress
<1>8. JournalIsKept'
  <2>1. manifest # None => manifest.gen < token
    BY <1>1 DEF Unused, TypeOK, Manifests, Bounded, Tokens
  <2>2. QED BY <1>1, <1>2, <1>4, <2>1 DEF JournalIsKept, Unused
<1>9. RunProgress' /\ RestoreProgress'
  BY <1>1, <1>2, <1>4 DEF RunProgress, RestoreProgress, BeforePromotion, AfterInstall,
     Quiet, Unused
<1>10. DiscardIsUndone' /\ DroppedAreCleaned' /\ CleanExit'
  BY <1>4 DEF DiscardIsUndone, DroppedAreCleaned, Cleaned, CleanExit
<1>11. UNCHANGED Shown
  <2>1. \A k \in Keys : Shown.master[k] = master[k]
    BY <1>1 DEF Shown
  <2>2. \A k \in Keys : Shown.master[k]' = master[k]
    BY <1>1, <1>4, <1>5 DEF Shown, Unused
  <2>3. Shown.master' = Shown.master
    <3>1. /\ Shown.master = [k \in Keys |-> Shown.master[k]]
          /\ Shown.master' = [k \in Keys |-> Shown.master[k]']
      BY DEF Shown
    <3>2. \A k \in Keys : Shown.master[k]' = Shown.master[k]
      BY <2>1, <2>2
    <3>3. QED BY <3>1, <3>2
  <2>4. QED BY <1>1, <1>4, <1>5, <2>3 DEF Shown
<1>12. SelectionIsWhole'
  BY <1>4, <1>11, WholeFrame
<1>13. QED BY <1>6, <1>7, <1>8, <1>9, <1>10, <1>11, <1>12

\* Without a journal, what a restart finds is what is there.
LEMMA ShownIsActual ==
  TypeOK /\ ~Pending =>
    Shown = [manifest |-> manifest, master |-> master, bindings |-> bindings,
             enabled |-> enabled, services |-> active]
<1> SUFFICES ASSUME TypeOK, ~Pending
             PROVE  Shown.master = master
  BY DEF Shown
<1>1. \A k \in Keys : Shown.master[k] = master[k]
  BY DEF Shown
<1>2. Shown.master = [k \in Keys |-> Shown.master[k]]
  BY DEF Shown
<1>3. QED BY <1>1, <1>2 DEF TypeOK

\* The commit point: the whole deployment is of the new generation.
LEMMA CommitPointStep ==
  ASSUME IInv, ClearJournal, mode = "run"
  PROVE  IInv'
<1> USE DEF IInv, ClearJournal
<1>1. /\ Pending /\ ~broken /\ pc = "clear" /\ pc' = "commit" /\ ~Pending' /\ token \in Nat
      /\ UNCHANGED mode
  BY DEF Control, TypeOK, Tokens
<1>2. TypeOK' /\ Bounded' /\ Control'
  BY <1>1 DEF TypeOK, Bounded, Control
<1>3. CandidateIsUnused' /\ JournalIsKept' /\ UndoIsOwn' /\ RunProgress' /\ RestoreProgress'
  BY <1>1 DEF CandidateIsUnused, JournalIsKept, UndoIsOwn, RunProgress, RestoreProgress
<1>4. CommitProgress'
  <2>1. promoted = journal.keys /\ manifest = [backend |-> backend, gen |-> token]
        /\ backend \in Backends /\ journal.keys = Policy[backend]
    BY <1>1 DEF RunProgress, AfterInstall
  <2>2. manifest # None /\ manifest.gen = token
    BY <1>1, <2>1, BootstrapConstants
  <2>3. \A b \in backups : b.token = token => b.key \in promoted
    BY <1>1, <2>1 DEF JournalIsKept
  <2>4. QED BY <1>1, <2>2, <2>3 DEF CommitProgress
<1>5. DiscardIsUndone' /\ DroppedAreCleaned' /\ CleanExit'
  BY <1>1 DEF DiscardIsUndone, DroppedAreCleaned, Cleaned, CleanExit
<1>6. SelectionIsWhole'
  <2>1. /\ manifest = [backend |-> backend, gen |-> token] /\ token \in runtimes
        /\ promoted = Policy[backend] /\ backend \in Backends
        /\ \A k \in promoted : master[k] = token
    BY <1>1 DEF RunProgress, AfterInstall
  <2>2. Shown.manifest' = manifest
    BY <1>1 DEF Shown
  <2>3. promoted \subseteq Keys /\ \A k \in Keys : Shown.master[k]' = master[k]
    BY <1>1 DEF Shown, TypeOK
  <2>4. QED BY <2>1, <2>2, <2>3 DEF SelectionIsWhole
<1>7. QED BY <1>2, <1>3, <1>4, <1>5, <1>6

\* A recovery or the handler has put everything back, but for the worker that the
\* daemon it started may have started since.
LEMMA EndRestoreStep ==
  ASSUME IInv, ClearJournal, mode # "run"
  PROVE  /\ IInv'
         /\ UNCHANGED <<Shown.manifest, Shown.master, Shown.bindings, Shown.enabled>>
         /\ \/ "daemon" \in Shown.services /\ Shown.services' = Shown.services \union {"worker"}
            \/ Shown.services' = Shown.services \ {"worker"}
            \/ UNCHANGED Shown.services
<1> USE DEF IInv, ClearJournal
<1>1. /\ Pending /\ ~broken /\ pc = "clear" /\ ~Pending' /\ token \in Nat
      /\ pc' = IF mode = "recover" THEN "sweep" ELSE "discard"
      /\ mode \in {"recover", "rollback"}
      /\ mode' = IF mode = "recover" THEN "run" ELSE "rollback"
      /\ UNCHANGED <<disk, units, broken, setup, choice, faults, outcome, loop>>
  BY DEF Control, TypeOK, Tokens
<1>2. TypeOK' /\ Bounded' /\ Control'
  BY <1>1 DEF TypeOK, Bounded, Control
<1>3. CandidateIsUnused' /\ JournalIsKept' /\ UndoIsOwn' /\ RunProgress' /\ RestoreProgress'
      /\ CommitProgress'
  BY <1>1 DEF CandidateIsUnused, JournalIsKept, UndoIsOwn, RunProgress, RestoreProgress,
     CommitProgress
<1>4. DiscardIsUndone'
  <2>1. token \notin runtimes /\ \A k \in journal.keys : Backup(token, k) = {}
    BY <1>1 DEF RestoreProgress
  <2>2. \A b \in backups : b.token # token
    BY <1>1, <2>1 DEF JournalIsKept
  <2>3. QED BY <1>1, <2>1, <2>2 DEF DiscardIsUndone
<1>5. DroppedAreCleaned' /\ CleanExit'
  BY <1>1 DEF DroppedAreCleaned, Cleaned, CleanExit, Control
<1>6. UNCHANGED <<Shown.manifest, Shown.bindings, Shown.enabled>>
  BY <1>1 DEF Shown, RestoreProgress
<1>7. UNCHANGED Shown.master
  <2>1. /\ \A k \in journal.keys :
             Backup(token, k) = {} /\ (k \notin journal.had => master[k] = None)
        /\ journal.token = token /\ journal.had \subseteq journal.keys
    BY <1>1 DEF RestoreProgress, JournalIsKept
  <2>2. \A k \in Keys : Shown.master[k] = master[k]
    BY <1>1, <2>1 DEF Shown
  <2>3. \A k \in Keys : Shown.master[k]' = master[k]
    BY <1>1 DEF Shown
  <2>4. /\ Shown.master = [k \in Keys |-> Shown.master[k]]
        /\ Shown.master' = [k \in Keys |-> Shown.master[k]']
    BY DEF Shown
  <2>5. \A k \in Keys : Shown.master[k]' = Shown.master[k]
    BY <2>2, <2>3
  <2>6. QED BY <2>4, <2>5
<1>8. \/ "daemon" \in Shown.services /\ Shown.services' = Shown.services \union {"worker"}
      \/ Shown.services' = Shown.services \ {"worker"}
      \/ UNCHANGED Shown.services
  <2>1. Shown.services = journal.services.active /\ Shown.services' = active
    BY <1>1 DEF Shown
  <2>2. /\ active \ {"worker"} = journal.services.active \ {"worker"}
        /\ "worker" \in active =>
             "worker" \in journal.services.active \/ "daemon" \in active
    BY <1>1 DEF RestoreProgress
  <2>3. QED BY <2>1, <2>2
<1>9. SelectionIsWhole'
  BY <1>1, <1>6, <1>7 DEF SelectionIsWhole
<1>10. QED BY <1>2, <1>3, <1>4, <1>5, <1>6, <1>7, <1>8, <1>9

\* A backup that is removed is one the deployment no longer needs.
LEMMA CommitModelStep ==
  ASSUME IInv, NEW k \in Keys, CommitModel(k)
  PROVE  IInv' /\ UNCHANGED Shown
<1> USE DEF IInv, CommitModel
<1>1. ~Pending /\ ~broken
  BY DEF Control
<1>2. TypeOK' /\ Bounded' /\ Control'
  BY <1>1 DEF TypeOK, Bounded, Control
<1>3. CandidateIsUnused' /\ JournalIsKept' /\ UndoIsOwn' /\ RunProgress' /\ RestoreProgress'
  BY <1>1 DEF CandidateIsUnused, JournalIsKept, UndoIsOwn, RunProgress, RestoreProgress
<1>4. CommitProgress'
  BY DEF CommitProgress
<1>5. DiscardIsUndone' /\ DroppedAreCleaned' /\ CleanExit'
  BY DEF DiscardIsUndone, DroppedAreCleaned, Cleaned, CleanExit
<1>6. UNCHANGED Shown
  BY <1>1 DEF Shown
<1>7. SelectionIsWhole'
  BY <1>6, WholeFrame
<1>8. QED BY <1>2, <1>3, <1>4, <1>5, <1>6, <1>7
-----------------------------------------------------------------------------
(* A run starts, ends, fails or is cut short. *)

\* A run begins with a recovery exactly if there is a journal.
LEMMA BeginStep ==
  ASSUME IInv, Begin
  PROVE  IInv' /\ UNCHANGED Shown
<1> USE DEF IInv, Begin
<1>1. runs + 1 \in 0..MaxRuns /\ todo' \in Seq(Backends)
      /\ token \in Nat /\ Len(todo') <= Cardinality(Backends)
  BY BootstrapConstants DEF TypeOK, Tokens
<1>2. TypeOK'
  BY <1>1, BootstrapConstants DEF TypeOK, Manifests
<1>3. Bounded'
  <2>1. /\ Len(todo) \in Nat /\ Len(todo') \in Nat /\ Cardinality(Backends) \in Nat
        /\ runs \in Nat /\ token + Len(todo) <= runs * Cardinality(Backends)
    BY <1>1, TokenBound, BootstrapConstants DEF Bounded, TypeOK
  <2>2. (runs + 1) * Cardinality(Backends)
          = runs * Cardinality(Backends) + Cardinality(Backends)
    BY <2>1
  <2>3. token + Len(todo') <= runs' * Cardinality(Backends)
    BY <1>1, <2>1, <2>2
  <2>4. QED BY <1>1, <2>3 DEF Bounded
<1>4. Control' /\ CandidateIsUnused' /\ JournalIsKept' /\ UndoIsOwn'
  BY DEF Control, CandidateIsUnused, JournalIsKept, UndoIsOwn
<1>5. RunProgress' /\ RestoreProgress' /\ CommitProgress'
  BY DEF RunProgress, RestoreProgress, CommitProgress
<1>6. DiscardIsUndone' /\ DroppedAreCleaned' /\ CleanExit'
  BY <1>1 DEF DiscardIsUndone, DroppedAreCleaned, Cleaned, CleanExit
<1>7. UNCHANGED Shown
  BY ShownFrame
<1>8. SelectionIsWhole'
  BY <1>7, WholeFrame
<1>9. QED BY <1>2, <1>3, <1>4, <1>5, <1>6, <1>7, <1>8

\* A run that ends clean has dropped its candidates and its journal.
LEMMA FinishRunStep ==
  ASSUME IInv, FinishRun
  PROVE  IInv' /\ UNCHANGED Shown
<1> USE DEF IInv, FinishRun, End, DiscardCandidates, CandidatesOf
<1>1. /\ IdleStep /\ UNCHANGED faults /\ token \in Nat
      /\ outcome' \in {"broken", "ok", "failed"}
      /\ UNCHANGED <<firstToken, token>>
      /\ (pc = "commit" /\ promoted = {}) \/ pc = "discard"
  BY DEF IdleStep, TypeOK, Tokens
<1>2. CleanExit'
  <2>1. CASE outcome' \notin {"ok", "failed"}
    BY <2>1 DEF CleanExit
  <2>2. CASE outcome' \in {"ok", "failed"}
    <3>1. journal' = None /\ UNCHANGED <<runtimes, backups, manifest>>
      BY <1>1, <2>2 DEF Control, DiscardIsUndone
    <3>2. /\ token \notin candRuntimes' /\ \A c \in candModels' : c[1] # token
          /\ \A b \in backups : b.token # token
          /\ token \in runtimes => manifest # None /\ manifest.gen = token
      BY <1>1, <2>2 DEF CommitProgress, DiscardIsUndone
    <3>3. ASSUME NEW t \in firstToken..(token - 1)
          PROVE  /\ t \notin candRuntimes' /\ \A c \in candModels' : c[1] # t
                 /\ (\A b \in backups : b.token # t) /\ t \notin runtimes
      BY DEF DroppedAreCleaned, Cleaned
    <3>4. \A t \in firstToken..token : t = token \/ t \in firstToken..(token - 1)
      BY <1>1 DEF Bounded
    <3>5. \A t \in firstToken..token :
            /\ t \notin candRuntimes' /\ CandidatesOf(t)' = {}
            /\ \A b \in backups' : b.token # t
            /\ t \in runtimes' => manifest' # None /\ manifest'.gen = t
      BY <3>1, <3>2, <3>3, <3>4
    <3>6. QED BY <1>1, <3>1, <3>5 DEF CleanExit
  <2>3. QED BY <2>1, <2>2
<1>3. QED BY <1>1, <1>2, IdleFrame DEF TypeOK

\* A crash forgets the run: journal and disk still agree.
LEMMA CrashStep ==
  ASSUME IInv, Crash
  PROVE  IInv' /\ UNCHANGED Shown
<1> USE DEF Crash, Abort, Spend
<1>1. IdleStep /\ faults' \in 0..MaxFaults /\ outcome' = "crashed"
  BY BootstrapConstants DEF IInv, IdleStep, TypeOK
<1>2. CleanExit'
  BY <1>1 DEF CleanExit
<1>3. QED BY <1>1, <1>2, IdleFrame

\* An error or an interrupt that a handler catches leaves the disk as it is.
CaughtStep ==
  /\ pc # Idle /\ Pending
  /\ pc' \in {"undo", "rollback", "discard"}
  /\ mode' = IF pc' = "undo" THEN "run" ELSE "rollback"
  /\ pc' = "discard" => broken'
  /\ pc' # "discard" => broken' = broken
  /\ broken' \in BOOLEAN
  /\ pc' = "undo" => pc = "promoteModels"
  /\ mode # "recover" /\ (pc' # "discard" => mode = "run")
  /\ promoted' \subseteq promoted /\ left' = {}
  /\ UNCHANGED <<durable, outcome, prev, backend, token, todo, setup>>

\* The handler that catches it starts from what the journal says.
LEMMA CaughtFrame ==
  ASSUME IInv, CaughtStep, faults' \in 0..MaxFaults
  PROVE  IInv' /\ UNCHANGED Shown
<1> USE DEF IInv, CaughtStep
<1>1. TypeOK' /\ Bounded' /\ Control'
  BY DEF TypeOK, Bounded, Control
<1>2. CandidateIsUnused' /\ JournalIsKept' /\ CommitProgress' /\ RestoreProgress'
  BY DEF CandidateIsUnused, JournalIsKept, CommitProgress, RestoreProgress
<1>3. UndoIsOwn' /\ RunProgress'
  BY DEF UndoIsOwn, RunProgress, BeforePromotion, AfterInstall, Quiet
<1>4. DiscardIsUndone' /\ DroppedAreCleaned' /\ CleanExit'
  BY DEF DiscardIsUndone, DroppedAreCleaned, Cleaned, CleanExit
<1>5. UNCHANGED Shown
  BY ShownFrame
<1>6. SelectionIsWhole'
  BY <1>5, WholeFrame
<1>7. QED BY <1>1, <1>2, <1>3, <1>4, <1>5, <1>6

\* An error or interrupt goes to the handler that finds its invariant.
LEMMA FaultStep ==
  ASSUME IInv, Fault
  PROVE  IInv' /\ UNCHANGED Shown
<1>1. /\ pc # Idle /\ faults' \in 0..MaxFaults
      /\ UNCHANGED <<durable, setup>>
  BY BootstrapConstants DEF IInv, TypeOK, Fault, Spend
<1>2. ASSUME NEW interrupt \in BOOLEAN, UnwindChoosing(interrupt)
      PROVE  IInv' /\ UNCHANGED Shown
  <2>1. CASE pc \in {"sweep", "load", "native"}
    <3>1. IdleStep /\ outcome' = "failed" /\ UNCHANGED choice
      BY <1>1, <1>2, <2>1 DEF UnwindChoosing, Abort, IdleStep
    <3>2. journal' = None /\ firstToken = token + 1 /\ token \in Nat
      BY <1>1, <2>1 DEF IInv, Control, DroppedAreCleaned, TypeOK, Tokens
    <3>3. CleanExit'
      BY <3>1, <3>2 DEF CleanExit, IdleStep
    <3>4. QED BY <1>1, <3>1, <3>3, IdleFrame
  <2>2. CASE pc \in {"probe", "snapshot"}
    <3>1. /\ pc' = "drop" /\ todo' \in {todo, <<>>}
          /\ UNCHANGED <<durable, setup, mode, broken, prev, backend, token, loop, outcome>>
      BY <1>1, <1>2, <2>2 DEF UnwindChoosing
    <3>2. todo' \in Seq(Backends) /\ Len(todo') <= Len(todo)
      <4>1. todo \in Seq(Backends) /\ Len(todo) \in Nat
        BY DEF IInv, Bounded
      <4>2. <<>> \in Seq(Backends) /\ Len(<<>>) = 0
        OBVIOUS
      <4>3. CASE todo' = todo
        BY <4>1, <4>3
      <4>4. CASE todo' = <<>>
        BY <4>1, <4>2, <4>4
      <4>5. QED BY <3>1, <4>3, <4>4
    <3>3. TypeOK'
      BY <1>1, <3>1 DEF IInv, TypeOK
    <3>4. Bounded'
      <4>1. token + Len(todo') <= runs * Cardinality(Backends)
        BY <3>2, TokenBound, BootstrapConstants DEF IInv, Bounded, TypeOK, Tokens
      <4>2. QED BY <3>1, <3>2, <4>1 DEF IInv, Bounded
    <3>5. Control' /\ CandidateIsUnused' /\ JournalIsKept' /\ UndoIsOwn'
      BY <2>2, <3>1 DEF IInv, Control, CandidateIsUnused, Unused, JournalIsKept, UndoIsOwn
    <3>6. RunProgress' /\ RestoreProgress' /\ CommitProgress'
      BY <2>2, <3>1 DEF IInv, Control, RunProgress, RestoreProgress, CommitProgress
    <3>7. DiscardIsUndone' /\ DroppedAreCleaned' /\ CleanExit'
      BY <3>1 DEF IInv, DiscardIsUndone, DroppedAreCleaned, Cleaned, CleanExit
    <3>8. UNCHANGED Shown
      BY <3>1, ShownFrame
    <3>9. SelectionIsWhole'
      BY <3>1, <3>8, WholeFrame DEF IInv
    <3>10. QED BY <3>3, <3>4, <3>5, <3>6, <3>7, <3>8, <3>9 DEF IInv
  <2>3. QED BY <1>2, <2>1, <2>2 DEF UnwindChoosing
<1>3. ASSUME NEW interrupt \in BOOLEAN, UnwindTransaction(interrupt)
      PROVE  IInv' /\ UNCHANGED Shown
  <2>1. CaughtStep
    BY <1>1, <1>3 DEF UnwindTransaction, Catch, CaughtStep, IInv, Control, TypeOK
  <2>2. QED BY <1>1, <2>1, CaughtFrame
<1>4. ASSUME UnwindRestore
      PROVE  IInv' /\ UNCHANGED Shown
  <2>1. CASE pc' = Idle
    <3>1. IdleStep /\ outcome' = "broken"
      BY <1>1, <1>4, <2>1 DEF UnwindRestore, Abort, IdleStep
    <3>2. CleanExit'
      BY <3>1 DEF CleanExit
    <3>3. QED BY <1>1, <3>1, <3>2, IdleFrame
  <2>2. CASE pc' # Idle
    <3>1. CaughtStep
      BY <1>1, <1>4, <2>2 DEF UnwindRestore, Abort, CaughtStep, IInv, Control, TypeOK
    <3>2. QED BY <1>1, <3>1, CaughtFrame
  <2>3. QED BY <2>1, <2>2
<1>5. QED BY <1>2, <1>3, <1>4 DEF Fault

\* The daemon's own worker comes and goes only while the daemon runs, or leaves.
LEMMA WorkerStep ==
  ASSUME IInv, WorkerStarts \/ WorkerExits
  PROVE  /\ IInv'
         /\ UNCHANGED <<Shown.manifest, Shown.master, Shown.bindings, Shown.enabled>>
         /\ \/ "daemon" \in Shown.services /\ Shown.services' = Shown.services \union {"worker"}
            \/ Shown.services' = Shown.services \ {"worker"}
            \/ UNCHANGED Shown.services
<1>1. /\ UNCHANGED <<disk, enabled, journal, pc, loop, memory>>
      /\ active' \subseteq Units
      /\ active' \ {"worker"} = active \ {"worker"}
      /\ "worker" \in active' => "daemon" \in active
      /\ active = {} => active' = {}
      /\ \/ "daemon" \in active /\ active' = active \union {"worker"}
         \/ active' = active \ {"worker"}
  BY DEF WorkerStarts, WorkerExits, IInv, TypeOK, Units
<1>2. TypeOK' /\ Bounded' /\ Control'
  BY <1>1 DEF IInv, TypeOK, Bounded, Control
<1>3. CandidateIsUnused' /\ JournalIsKept' /\ UndoIsOwn' /\ CommitProgress'
  BY <1>1 DEF IInv, CandidateIsUnused, Unused, JournalIsKept, UndoIsOwn, CommitProgress
<1>4. RunProgress'
  BY <1>1 DEF IInv, RunProgress, BeforePromotion, AfterInstall, Installed, Quiet
<1>5. RestoreProgress'
  BY <1>1 DEF IInv, RestoreProgress
<1>6. DiscardIsUndone' /\ DroppedAreCleaned' /\ CleanExit'
  BY <1>1 DEF IInv, DiscardIsUndone, DroppedAreCleaned, Cleaned, CleanExit, CandidatesOf
<1>7. UNCHANGED <<Shown.manifest, Shown.master, Shown.bindings, Shown.enabled>>
  BY <1>1 DEF Shown
<1>8. \/ "daemon" \in Shown.services /\ Shown.services' = Shown.services \union {"worker"}
      \/ Shown.services' = Shown.services \ {"worker"}
      \/ UNCHANGED Shown.services
  BY <1>1 DEF Shown
<1>9. SelectionIsWhole'
  BY <1>1, <1>7 DEF IInv, SelectionIsWhole
<1>10. QED BY <1>2, <1>3, <1>4, <1>5, <1>6, <1>7, <1>8, <1>9 DEF IInv
-----------------------------------------------------------------------------
\* A machine before its first run.
LEMMA InitIInv == Init => IInv
<1> SUFFICES ASSUME Init PROVE IInv
  OBVIOUS
<1>1. PICK d \in Deployments :
        /\ manifest = d.manifest
        /\ runtimes = IF d.manifest = None THEN {} ELSE {d.manifest.gen}
        /\ master = d.master /\ bindings = d.bindings
        /\ enabled = d.enabled /\ active = d.active
  BY DEF Init
<1>2. /\ d.manifest \in {None} \union [backend : Backends, gen : {0}]
      /\ d.master \in [Keys -> {0, None}] /\ d.bindings \in [Files -> {0, None}]
      /\ d.enabled \subseteq Units /\ d.active \subseteq Units
      /\ d.manifest # None => \A k \in Policy[d.manifest.backend] : d.master[k] = 0
  BY BootstrapConstants
<1>3. 0 \in Tokens /\ Cardinality(Backends) \in Nat
  BY FS_CardinalityType, BootstrapConstants DEF Tokens
<1>4. TypeOK
  <2>1. manifest \in Manifests /\ prev \in Manifests /\ runtimes \subseteq Tokens
    BY <1>1, <1>2, <1>3 DEF Init, Manifests
  <2>2. {0, None} \subseteq Versions
    BY <1>3 DEF Versions
  <2>3. master \in [Keys -> Versions] /\ bindings \in [Files -> Versions]
    BY <1>1, <1>2, <2>2
  <2>4. runs \in 0..MaxRuns /\ faults \in 0..MaxFaults
    BY BootstrapConstants DEF Init
  <2>5. QED BY <1>1, <1>2, <1>3, <2>1, <2>3, <2>4 DEF Init, TypeOK
<1>5. Bounded
  BY <1>1, <1>2, <1>3, BootstrapConstants DEF Init, Bounded
<1>6. Control /\ CandidateIsUnused /\ JournalIsKept /\ RunProgress /\ UndoIsOwn
      /\ CommitProgress /\ RestoreProgress /\ DiscardIsUndone /\ DroppedAreCleaned
      /\ CleanExit
  BY DEF Init, Control, CandidateIsUnused, JournalIsKept, RunProgress, UndoIsOwn,
     CommitProgress, RestoreProgress, DiscardIsUndone, DroppedAreCleaned, CleanExit
<1>7. SelectionIsWhole
  <2>1. Shown.manifest = manifest /\ Shown.master = master
    BY <1>4, ShownIsActual DEF Init
  <2>2. manifest # None => manifest \in [backend : Backends, gen : {0}]
    BY <1>1, <1>2
  <2>3. QED BY <1>1, <1>2, <2>1, <2>2 DEF SelectionIsWhole
<1>8. QED BY <1>4, <1>5, <1>6, <1>7 DEF IInv

\* Every step of a run but the removal of its journal leaves what a restart
\* would find.
LEMMA StepIInv ==
  ASSUME IInv, Step
  PROVE  IInv' /\ (ClearJournal \/ UNCHANGED Shown)
<1>1. ASSUME ClearJournal PROVE IInv'
  BY <1>1, CommitPointStep, EndRestoreStep
<1>2. ASSUME NEW k \in Keys,
             BackUpMaster(k) \/ PromoteModel(k) \/ CommitModel(k)
               \/ UnpromoteModel(k) \/ ReinstateModel(k) \/ RestoreModel(k)
      PROVE  IInv' /\ UNCHANGED Shown
  BY <1>2, BackUpMasterStep, PromoteModelStep, CommitModelStep, UnpromoteModelStep,
     ReinstateModelStep, RestoreModelStep
<1>3. ASSUME NEW f \in Files, InstallFile(f) \/ UnlinkBinding(f) \/ RestoreBinding(f)
      PROVE  IInv' /\ UNCHANGED Shown
  BY <1>3, InstallFileStep, UnlinkBindingStep, RestoreBindingStep
<1>4. QED BY <1>1, <1>2, <1>3, SweepStep, LoadStep, ChooseSteps, BuildCandidateStep,
         DropCandidateStep, WriteJournalStep, StopDaemonStep, StopWorkersStep, ReloadStep,
         PromoteRuntimeStep, WriteManifestStep, RetireLegacyWorkerStep, DisableDaemonStep,
         RestartDaemonStep, FinishRunStep, BeginRestoreStep, RestoreRuntimeStep,
         RestoreManifestStep, EndBindingsStep, RestoreUnitsStep, RestoreServicesStep
         DEF Step

\* The invariant is inductive.
LEMMA NextIInv == IInv /\ [Next]_vars => IInv'
<1> SUFFICES ASSUME IInv, [Next]_vars PROVE IInv'
  OBVIOUS
<1>2. CASE UNCHANGED vars
  <2>1. TypeOK' /\ Bounded' /\ Control'
    BY <1>2 DEF IInv, TypeOK, Bounded, Control, vars
  <2>2. CandidateIsUnused' /\ JournalIsKept' /\ RunProgress' /\ UndoIsOwn'
        /\ CommitProgress' /\ RestoreProgress'
    BY <1>2 DEF IInv, vars, CandidateIsUnused, Unused, JournalIsKept, RunProgress, UndoIsOwn,
       CommitProgress, RestoreProgress, BeforePromotion, AfterInstall, Installed, Quiet
  <2>3. DiscardIsUndone' /\ DroppedAreCleaned' /\ CleanExit'
    BY <1>2 DEF IInv, vars, DiscardIsUndone, DroppedAreCleaned, Cleaned, CleanExit, CandidatesOf
  <2>4. UNCHANGED Shown
    BY <1>2, ShownFrame DEF vars
  <2>5. SelectionIsWhole'
    BY <1>2, <2>4, WholeFrame DEF IInv, vars
  <2>6. QED BY <2>1, <2>2, <2>3, <2>5 DEF IInv
<1>3. QED BY <1>2, StepIInv, BeginStep, FaultStep, CrashStep, WorkerStep DEF Next

\* The invariant holds throughout.
LEMMA InvariantIInv == Spec => []IInv
  BY InitIInv, NextIInv, PTL DEF Spec
-----------------------------------------------------------------------------
\* Every variable keeps its type; in particular the tokens of all runs stay below
\* the bound, as a run tries each backend at most once.
THEOREM TypeCorrect == Spec => []TypeOK
<1>1. IInv => TypeOK BY DEF IInv
<1>2. QED BY <1>1, InvariantIInv, PTL

\* SelectionIsWhole: wherever a run is cut short, the selection a restart finds names
\* a runtime that is there, with all its models.
THEOREM SelectionStaysWhole == Spec => []SelectionIsWhole
<1>1. IInv => SelectionIsWhole BY DEF IInv
<1>2. QED BY <1>1, InvariantIInv, PTL

\* CleanExit: a run that reports success, or a failure it undid, leaves nothing behind.
THEOREM ExitIsClean == Spec => []CleanExit
<1>1. IInv => CleanExit BY DEF IInv
<1>2. QED BY <1>1, InvariantIInv, PTL

\* A deployment that is replaced stays quiet until its daemon is restarted, also for the
\* handler that finds models to undo.
QuietUntilRestart ==
  prev # None /\ Pending =>
    /\ mode = "run" /\ pc \in {"promoteRuntime", "promoteModels", "undo", "install",
                              "reload", "restart"} => active = {}
    /\ mode = "rollback" /\ pc = "rollback" /\ promoted # {} =>
         active = {} \/ "daemon" \in active

\* No service of a deployment starts again before the restart, and a fault keeps it so.
LEMMA QuietUntilRestartStep ==
  ASSUME IInv, QuietUntilRestart, [Next]_vars PROVE QuietUntilRestart'
<1> USE DEF QuietUntilRestart
<1>1. CASE UNCHANGED vars
  BY <1>1 DEF vars
<1>2. CASE WorkerStarts \/ WorkerExits
  BY <1>2 DEF WorkerStarts, WorkerExits
<1>3. CASE Begin \/ Crash
  BY <1>3 DEF Begin, Crash, Abort
<1>4. CASE Fault
  <2>1. UNCHANGED <<prev, journal, active>>
    BY <1>4 DEF Fault, Spend, UnwindChoosing, UnwindTransaction, UnwindRestore, Abort, Catch
  <2>2. CASE \E interrupt \in BOOLEAN : UnwindTransaction(interrupt)
    <3>1. prev # None /\ pc \in {"stopDaemon", "stopWorkers"} => promoted = {}
      BY <2>2 DEF IInv, RunProgress, BeforePromotion, UnwindTransaction, Control
    <3>2. prev # None /\ pc = "clear" => "daemon" \in active
      BY <2>2 DEF IInv, RunProgress, UnwindTransaction, Control
    <3>3. \/ mode' = "run" /\ pc = "promoteModels"
          \/ mode' = "rollback" /\ promoted' \in {promoted, {}} /\ pc \in Transaction \union {"undo"}
      BY <2>2 DEF UnwindTransaction, Catch
    <3>4. mode = "run"
      BY <2>2 DEF UnwindTransaction
    <3>5. QED BY <2>1, <3>1, <3>2, <3>3, <3>4
  <2>3. CASE \/ \E interrupt \in BOOLEAN : UnwindChoosing(interrupt)
             \/ UnwindRestore
    BY <2>1, <2>3 DEF UnwindChoosing, UnwindRestore, Abort
  <2>4. QED BY <1>4, <2>2, <2>3 DEF Fault
<1>5. CASE StopDaemon \/ StopWorkers
  BY <1>5 DEF StopDaemon, StopWorkers, IInv, TypeOK, Control, RunProgress, Units
<1>6. CASE Sweep \/ Load \/ BuildNative \/ BuildCandidate \/ RejectCandidate
             \/ AcceptCandidate \/ DropCandidate \/ WriteJournal \/ ClearJournal \/ FinishRun
  BY <1>6 DEF Sweep, Load, BuildNative, BuildCandidate, RejectCandidate, AcceptCandidate,
     DropCandidate, WriteJournal, ClearJournal, FinishRun, End
<1>7. CASE Reload \/ RestartDaemon \/ PromoteRuntime \/ WriteManifest \/ RetireLegacyWorker
             \/ DisableDaemon \/ BeginRestore
  BY <1>7 DEF Reload, RestartDaemon, PromoteRuntime, WriteManifest, RetireLegacyWorker,
     DisableDaemon, BeginRestore
<1>8. CASE RestoreRuntime \/ RestoreManifest \/ EndBindings \/ RestoreUnits \/ RestoreServices
  <2>1. mode # "run"
    BY <1>8 DEF RestoreRuntime, RestoreManifest, EndBindings, RestoreUnits, RestoreServices,
       IInv, Control
  <2>2. /\ UNCHANGED <<mode, prev, journal>>
        /\ pc' # "rollback"
    BY <1>8 DEF RestoreRuntime, RestoreManifest, EndBindings, RestoreUnits, RestoreServices
  <2>3. QED BY <2>1, <2>2
<1>9. CASE \/ \E k \in Keys : BackUpMaster(k) \/ PromoteModel(k) \/ CommitModel(k)
                              \/ UnpromoteModel(k) \/ ReinstateModel(k) \/ RestoreModel(k)
           \/ \E f \in Files : InstallFile(f) \/ UnlinkBinding(f) \/ RestoreBinding(f)
  <2>1. UNCHANGED <<pc, mode, prev, journal, active>>
    <3>1. ASSUME NEW k \in Keys, BackUpMaster(k) \/ PromoteModel(k) \/ CommitModel(k)
          PROVE  UNCHANGED <<pc, mode, prev, journal, active>>
      BY <3>1 DEF BackUpMaster, PromoteModel, CommitModel
    <3>2. ASSUME NEW k \in Keys, UnpromoteModel(k) \/ ReinstateModel(k) \/ RestoreModel(k)
          PROVE  UNCHANGED <<pc, mode, prev, journal, active>>
      BY <3>2 DEF UnpromoteModel, ReinstateModel, RestoreModel
    <3>3. ASSUME NEW f \in Files, InstallFile(f) \/ UnlinkBinding(f) \/ RestoreBinding(f)
          PROVE  UNCHANGED <<pc, mode, prev, journal, active>>
      BY <3>3 DEF InstallFile, UnlinkBinding, RestoreBinding
    <3>4. QED BY <1>9, <3>1, <3>2, <3>3
  <2>2. pc = "rollback" => promoted' \subseteq promoted
    <3>1. ASSUME NEW k \in Keys, BackUpMaster(k) \/ PromoteModel(k) \/ CommitModel(k)
          PROVE  pc # "rollback"
      BY <3>1 DEF BackUpMaster, PromoteModel, CommitModel
    <3>2. ASSUME NEW k \in Keys, UnpromoteModel(k) \/ ReinstateModel(k) \/ RestoreModel(k)
          PROVE  promoted' \subseteq promoted
      BY <3>2 DEF UnpromoteModel, ReinstateModel, RestoreModel
    <3>3. ASSUME NEW f \in Files, InstallFile(f) \/ UnlinkBinding(f) \/ RestoreBinding(f)
          PROVE  pc # "rollback"
      BY <3>3 DEF InstallFile, UnlinkBinding, RestoreBinding
    <3>4. QED BY <1>9, <3>1, <3>2, <3>3
  <2>3. QED BY <2>1, <2>2
<1>10. QED BY <1>1, <1>2, <1>3, <1>4, <1>5, <1>6, <1>7, <1>8, <1>9 DEF Next, Step

\* QuietSwap, for any number of models and runs: no directory in force is moved under a
\* running service but by a first installation and by the handler under the daemon that
\* its run restarted.
THEOREM SwapIsQuiet == Spec => QuietSwap
<1> DEFINE Moved == manifest' # manifest \/ master' # master \/ runtimes' # runtimes
           Quietly == Moved => \/ active = {}
                               \/ prev = None /\ (mode = "run" \/ pc = "rollback")
                               \/ pc = "rollback" /\ "daemon" \in active
<1>1. ASSUME IInv, QuietUntilRestart, Next PROVE Quietly
  <2>1. ASSUME Restoring, Pending, pc \in {"restoreModels", "restoreManifest"}
        PROVE  active = {}
    BY <1>1, <2>1 DEF IInv, RestoreProgress
  <2>2. CASE Begin \/ Fault \/ Crash \/ WorkerStarts \/ WorkerExits
    BY <2>2 DEF Begin, Fault, Crash, WorkerStarts, WorkerExits, Spend
  <2>3. CASE PromoteRuntime \/ WriteManifest \/ \E k \in Keys : BackUpMaster(k) \/ PromoteModel(k)
    <3>1. pc \in {"promoteRuntime", "promoteModels"}
      BY <2>3 DEF PromoteRuntime, WriteManifest, BackUpMaster, PromoteModel
    <3>2. mode = "run" /\ Pending
      BY <1>1, <3>1 DEF IInv, Control, TypeOK
    <3>3. QED BY <1>1, <3>1, <3>2 DEF QuietUntilRestart
  <2>4. ASSUME NEW k \in Keys, UnpromoteModel(k) \/ ReinstateModel(k)
        PROVE  Quietly
    <3>1. pc \in {"undo", "rollback"} /\ promoted # {} /\ Pending
      BY <1>1, <2>4 DEF UnpromoteModel, ReinstateModel, IInv, Control
    <3>2. pc = "undo" => mode = "run"
      BY <1>1, <3>1 DEF IInv, Control, TypeOK
    <3>3. pc = "rollback" => mode = "rollback"
      BY <1>1, <3>1 DEF IInv, Control, TypeOK
    <3>4. QED BY <1>1, <3>1, <3>2, <3>3 DEF QuietUntilRestart
  <2>5. CASE \/ RestoreRuntime \/ RestoreManifest
             \/ \E k \in Keys : RestoreModel(k)
    <3>1. Restoring /\ Pending /\ pc \in {"restoreModels", "restoreManifest"}
      BY <1>1, <2>5 DEF RestoreRuntime, RestoreManifest, RestoreModel, IInv, Control
    <3>2. QED BY <2>1, <3>1
  <2>6. CASE Sweep \/ Load \/ BuildNative \/ BuildCandidate \/ RejectCandidate
               \/ AcceptCandidate \/ DropCandidate \/ WriteJournal \/ ClearJournal
    BY <2>6 DEF Sweep, Load, BuildNative, BuildCandidate, RejectCandidate, AcceptCandidate,
       DropCandidate, WriteJournal, ClearJournal
  <2>7. CASE StopDaemon \/ StopWorkers \/ Reload \/ RetireLegacyWorker \/ DisableDaemon
               \/ RestartDaemon \/ FinishRun \/ BeginRestore \/ EndBindings
               \/ RestoreUnits \/ RestoreServices
    BY <2>7 DEF StopDaemon, StopWorkers, Reload, RetireLegacyWorker, DisableDaemon,
       RestartDaemon, FinishRun, BeginRestore, EndBindings, RestoreUnits, RestoreServices
  <2>8. CASE \/ \E k \in Keys : CommitModel(k)
             \/ \E f \in Files : InstallFile(f) \/ UnlinkBinding(f) \/ RestoreBinding(f)
    BY <2>8 DEF CommitModel, InstallFile, UnlinkBinding, RestoreBinding
  <2>9. QED BY <1>1, <2>2, <2>3, <2>4, <2>5, <2>6, <2>7, <2>8 DEF Next, Step
<1>2. IInv /\ QuietUntilRestart /\ [Next]_vars => QuietUntilRestart'
  BY QuietUntilRestartStep
<1>3. Init => QuietUntilRestart
  BY DEF Init, QuietUntilRestart
<1>4. IInv /\ QuietUntilRestart /\ [Next]_vars => [Quietly]_vars
  BY <1>1
<1>5. QED BY <1>2, <1>3, <1>4, InvariantIInv, PTL DEF Spec, QuietSwap
-----------------------------------------------------------------------------
(* The refinement: Bootstrap implements DeploymentSwitch. *)

Phase == IF pc = Idle THEN Idle ELSE IF Switched THEN "switched" ELSE "running"

\* A step that changes nothing DeploymentSwitch sees.
LEMMA Stutter ==
  ASSUME UNCHANGED Shown, UNCHANGED outcome, Phase' = Phase
  PROVE  UNCHANGED Abstract!vars
  BY DEF Abstract!vars, Abstract!config, Phase

\* A run ends as DeploymentSwitch lets it end.
LEMMA MappedFinish ==
  ASSUME UNCHANGED Shown, pc # Idle, pc' = Idle,
         \/ outcome' = "ok" /\ Switched
         \/ outcome' = "already" /\ ~Switched /\ Shown.manifest # None
         \/ outcome' = "failed" /\ ~Switched
         \/ outcome' \in {"broken", "crashed"}
  PROVE  Abstract!Finish
  BY DEF Abstract!Finish, Abstract!config

\* What a step other than the removal of the journal does to the phase.
LEMMA PhaseOfStep ==
  ASSUME IInv, Step, ~ClearJournal
  PROVE  /\ pc # Idle
         /\ pc' # Idle => Phase' = Phase /\ UNCHANGED outcome
         /\ pc' = Idle =>
              \/ outcome' = "ok" /\ Switched
              \/ outcome' = "already" /\ ~Switched /\ Shown.manifest # None
              \/ outcome' = "failed" /\ ~Switched
              \/ outcome' = "broken"
<1> USE DEF Phase, Switched
<1>1. CASE Load
  BY <1>1 DEF Load, End, IInv, Control, Shown
<1>2. CASE DropCandidate
  BY <1>2 DEF DropCandidate, End, IInv, Control
<1>3. CASE FinishRun
  BY <1>3 DEF FinishRun, End, IInv, Control
<1>4. CASE Sweep \/ BuildNative \/ BuildCandidate \/ RejectCandidate \/ AcceptCandidate
             \/ WriteJournal
  BY <1>4 DEF Sweep, BuildNative, BuildCandidate, RejectCandidate, AcceptCandidate,
     WriteJournal
<1>5. CASE StopDaemon \/ StopWorkers \/ Reload \/ PromoteRuntime \/ WriteManifest
             \/ RetireLegacyWorker \/ DisableDaemon \/ RestartDaemon
  BY <1>5 DEF StopDaemon, StopWorkers, Reload, PromoteRuntime, WriteManifest,
     RetireLegacyWorker, DisableDaemon, RestartDaemon
<1>6. CASE BeginRestore \/ RestoreRuntime \/ RestoreManifest \/ EndBindings \/ RestoreUnits
             \/ RestoreServices
  BY <1>6 DEF BeginRestore, RestoreRuntime, RestoreManifest, EndBindings, RestoreUnits,
     RestoreServices
<1>7. ASSUME NEW k \in Keys,
             BackUpMaster(k) \/ PromoteModel(k) \/ CommitModel(k)
               \/ UnpromoteModel(k) \/ ReinstateModel(k) \/ RestoreModel(k)
      PROVE  pc # Idle /\ UNCHANGED <<pc, mode, outcome>>
  BY <1>7 DEF BackUpMaster, PromoteModel, CommitModel, UnpromoteModel, ReinstateModel,
     RestoreModel
<1>8. ASSUME NEW f \in Files, InstallFile(f) \/ UnlinkBinding(f) \/ RestoreBinding(f)
      PROVE  pc # Idle /\ UNCHANGED <<pc, mode, outcome>>
  BY <1>8 DEF InstallFile, UnlinkBinding, RestoreBinding
<1>9. QED BY <1>1, <1>2, <1>3, <1>4, <1>5, <1>6, <1>7, <1>8 DEF Step

\* The commit point is the switch to the new generation.
LEMMA MappedSwitch ==
  ASSUME IInv, IInv', ClearJournal, mode = "run"
  PROVE  \E b \in Backends, g \in 1..(MaxRuns * Cardinality(Backends)) : Abstract!Switch(b, g)
<1>1. /\ Pending /\ ~Pending' /\ pc = "clear" /\ pc' = "commit" /\ mode' = "run"
      /\ UNCHANGED <<disk, units, outcome, token, backend>>
  BY DEF ClearJournal, IInv, Control
<1>2. /\ backend \in Backends /\ journal.keys = Policy[backend]
      /\ enabled \subseteq journal.services.enabled
      /\ promoted = journal.keys /\ manifest = [backend |-> backend, gen |-> token]
      /\ \A k \in promoted : master[k] = token
      /\ \A f \in Files : Installed(f)
      /\ "legacy" \notin active /\ "daemon" \in active
  BY <1>1 DEF IInv, RunProgress, AfterInstall
<1>3. token \in 1..(MaxRuns * Cardinality(Backends)) /\ token \in Nat
  BY <1>1, TokenBound, BootstrapConstants DEF IInv, JournalIsKept, TypeOK, Tokens
<1>4. Shown' = [manifest |-> manifest, master |-> master, bindings |-> bindings,
                enabled |-> enabled, services |-> active]
  <2>1. TypeOK' /\ ~Pending'
    BY <1>1 DEF IInv
  <2>2. (Shown = [manifest |-> manifest, master |-> master, bindings |-> bindings,
                  enabled |-> enabled, services |-> active])'
    BY <2>1, ShownIsActual, PTL
  <2>3. QED BY <1>1, <2>2
<1>5. Phase = "running" /\ Phase' = "switched"
  BY <1>1 DEF Phase, Switched
<1>6. Shown.manifest # None => token > Shown.manifest.gen
  BY <1>1, <1>3 DEF Shown, IInv, JournalIsKept, TypeOK, Journals, Manifests, Tokens
<1>7. \A k \in Keys : Shown.master[k] # None => token > Shown.master[k]
  <2>1. ShownIsKept
    BY <1>1, ShownMaster DEF IInv
  <2>2. ASSUME NEW k \in Keys, Shown.master[k] # None
        PROVE  token > Shown.master[k]
    <3>1. CASE k \notin journal.keys
      <4>1. master[k] # None /\ Shown.master[k] = master[k]
        BY <2>1, <2>2, <3>1 DEF ShownIsKept
      <4>2. master[k] # token /\ master[k] <= token
        BY <1>1, <2>2, <3>1, <4>1 DEF IInv, JournalIsKept, Bounded
      <4>3. master[k] \in Nat
        BY <2>2, <4>1 DEF IInv, TypeOK, Versions, Tokens
      <4>4. QED BY <1>3, <4>1, <4>2, <4>3
    <3>2. CASE k \in journal.keys /\ Backup(token, k) = {}
      BY <1>1, <1>2, <2>1, <2>2, <3>2 DEF ShownIsKept, IInv, JournalIsKept
    <3>3. CASE k \in journal.keys /\ Backup(token, k) # {}
      <4>1. PICK b \in Backup(token, k) : TRUE
        BY <3>3
      <4>2. Shown.master[k] = b.gen
        BY <2>1, <4>1 DEF ShownIsKept
      <4>3. b.gen \in Nat /\ b.gen < token
        BY <1>1, <4>1 DEF IInv, JournalIsKept, TypeOK, Tokens
      <4>4. QED BY <1>3, <4>2, <4>3
    <3>4. QED BY <3>1, <3>2, <3>3
  <2>3. QED BY <2>2
<1>8. Shown.master' = [k \in Keys |-> IF k \in Policy[backend] THEN token ELSE Shown.master[k]]
  <2>1. ShownIsKept
    BY <1>1, ShownMaster DEF IInv
  <2>2. \A k \in Keys : master[k] = IF k \in Policy[backend] THEN token ELSE Shown.master[k]
    BY <1>2, <2>1 DEF ShownIsKept
  <2>3. master \in [Keys -> Versions] /\ Shown.master' = master
    BY <1>4 DEF IInv, TypeOK
  <2>4. QED BY <2>2, <2>3
<1>9. Shown.bindings' = [f \in Files |-> IF f = LegacyUnit THEN None ELSE token]
  BY <1>2, <1>4 DEF IInv, TypeOK, Installed
<1>10. Shown.manifest' = [backend |-> backend, gen |-> token]
       /\ Shown.enabled' \subseteq Shown.enabled
       /\ "legacy" \notin Shown.services' /\ "daemon" \in Shown.services'
  BY <1>1, <1>2, <1>4 DEF Shown
<1>11. Abstract!Switch(backend, token)
  BY <1>1, <1>5, <1>6, <1>7, <1>8, <1>9, <1>10 DEF Abstract!Switch, Abstract!Fresh, Phase
<1>12. QED BY <1>2, <1>3, <1>11

\* The machine before the first run is a state of DeploymentSwitch.
LEMMA MappedInit == Init => Abstract!Init
<1> SUFFICES ASSUME Init PROVE Abstract!Init
  OBVIOUS
<1>1. TypeOK
  BY InitIInv DEF IInv
<1>2. Shown = [manifest |-> manifest, master |-> master, bindings |-> bindings,
               enabled |-> enabled, services |-> active]
  BY <1>1, ShownIsActual DEF Init
<1>3. QED BY <1>2 DEF Init, Abstract!Init

\* Every step is a step of DeploymentSwitch or changes nothing it sees.
LEMMA MappedNext ==
  IInv /\ IInv' /\ [Next]_vars => [Abstract!Next]_(Abstract!vars)
<1> SUFFICES ASSUME IInv, IInv', [Next]_vars
             PROVE  Abstract!Next \/ UNCHANGED Abstract!vars
  OBVIOUS
<1> USE DEF Abstract!Next
<1>1. CASE Begin
  <2>1. UNCHANGED Shown /\ Phase = "idle" /\ Phase' = "running" /\ UNCHANGED outcome
    BY <1>1, BeginStep DEF Begin, Phase, Switched
  <2>2. Abstract!Begin
    BY <2>1 DEF Abstract!Begin, Abstract!config, Phase
  <2>3. QED BY <2>2
<1>2. CASE Step /\ ~ClearJournal
  <2>1. CASE pc' # Idle
    BY <1>2, <2>1, StepIInv, PhaseOfStep, Stutter
  <2>2. CASE pc' = Idle
    <3>1. Abstract!Finish
      BY <1>2, <2>2, StepIInv, PhaseOfStep, MappedFinish
    <3>2. QED BY <3>1
  <2>3. QED BY <2>1, <2>2
<1>3. CASE ClearJournal /\ mode = "run"
  BY <1>3, MappedSwitch
<1>4. CASE ClearJournal /\ mode # "run"
  <2>1. Phase = "running" /\ Phase' = "running" /\ UNCHANGED outcome
    BY <1>4 DEF ClearJournal, Phase, Switched, IInv, Control, TypeOK
  <2>2. QED BY <1>4, <2>1, EndRestoreStep
           DEF Abstract!WorkerStartsOrExits, Abstract!config, Abstract!vars, Phase
<1>5. CASE Fault
  <2>1. UNCHANGED Shown
    BY <1>5, FaultStep
  <2>2. CASE pc' # Idle
    <3>1. Phase' = Phase /\ UNCHANGED outcome
      BY <1>5, <2>2 DEF Fault, UnwindChoosing, UnwindTransaction, UnwindRestore, Abort, Catch,
         Phase, Switched, IInv, Control
    <3>2. QED BY <2>1, <3>1, Stutter
  <2>3. CASE pc' = Idle
    <3>1. pc # Idle /\ (outcome' = "broken" \/ (outcome' = "failed" /\ ~Switched))
      BY <1>5, <2>3 DEF Fault, UnwindChoosing, UnwindTransaction, UnwindRestore, Abort, Catch,
         Switched
    <3>2. Abstract!Finish
      BY <2>1, <2>3, <3>1, MappedFinish
    <3>3. QED BY <3>2
  <2>4. QED BY <2>2, <2>3
<1>6. CASE Crash
  <2>1. UNCHANGED Shown /\ pc # Idle /\ pc' = Idle /\ outcome' = "crashed"
    BY <1>6, CrashStep DEF Crash, Abort
  <2>2. Abstract!Finish
    BY <2>1, MappedFinish
  <2>3. QED BY <2>2
<1>7. CASE WorkerStarts \/ WorkerExits
  <2>1. Phase' = Phase /\ UNCHANGED outcome
    BY <1>7 DEF WorkerStarts, WorkerExits, Phase, Switched
  <2>2. QED BY <1>7, <2>1, WorkerStep
           DEF Abstract!WorkerStartsOrExits, Abstract!config, Abstract!vars, Phase
<1>8. CASE UNCHANGED vars
  <2>1. UNCHANGED Shown /\ Phase' = Phase /\ UNCHANGED outcome
    BY <1>8, ShownFrame DEF vars, Phase, Switched
  <2>2. QED BY <2>1, Stutter
<1>9. QED BY <1>1, <1>2, <1>3, <1>4, <1>5, <1>6, <1>7, <1>8 DEF Next, Step

\* Bootstrap implements DeploymentSwitch: see AtomicSwitch.
THEOREM ImplementsSwitch == Spec => AtomicSwitch
<1>1. IInv /\ IInv' /\ [Next]_vars => [Abstract!Next]_(Abstract!vars)
  BY MappedNext
<1>2. QED BY <1>1, MappedInit, InvariantIInv, PTL DEF Spec, AtomicSwitch
=============================================================================
