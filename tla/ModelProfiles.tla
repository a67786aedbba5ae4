---------------------------- MODULE ModelProfiles ----------------------------
(***************************************************************************)
(* Who holds the accelerator: the guards that ModelScheduler.run_asr and   *)
(* run_correction (src/src/fun_voice/scheduler.py) put around a task, with *)
(* the systemd supervisor and commands of daemon.py below them.            *)
(*                                                                         *)
(* One dispatcher thread runs the guards (module ModelScheduler); systemd, *)
(* the workers and the Qwen child move by themselves in between.  A worker *)
(* takes the accelerator when it serves its first request and keeps it     *)
(* until its unit is down.  The lifecycle states the scheduler remembers   *)
(* are for display and decide nothing, so they are left out.               *)
(***************************************************************************)
EXTENDS Integers, FiniteSets

CONSTANTS
  Profiles,   \* allowed_profiles
  NoProfile   \* no profile at hand

ASSUME ProfileConstants == NoProfile \notin Profiles

\* ActiveState of a unit: inactive or failed, activating, active, active with the
\* worker's socket bound, deactivating.
UnitState == {"down", "activating", "active", "listening", "deactivating"}

VARIABLES
  unit,     \* state of each worker unit
  loaded,   \* workers that hold their model
  asked,    \* workers that have read a request and not answered it
  qwen,     \* the Qwen child runs
  kind,     \* the task at hand: "asr", "correction" or "none"
  profile,  \* its profile
  pc,       \* where its guard is
  todo,     \* profiles whose release is not yet confirmed
  target    \* the profile being stopped

systemVars == <<unit, loaded, asked>>
vars == <<unit, loaded, asked, qwen, kind, profile, pc, todo, target>>

\* The daemon may start while workers of an earlier life are still there.
Init ==
  /\ unit \in [Profiles -> UnitState]
  /\ loaded = {p \in Profiles : unit[p] = "listening"}
  /\ asked = {}
  /\ qwen = FALSE
  /\ kind = "none" /\ profile = NoProfile
  /\ pc = "idle" /\ todo = {} /\ target = NoProfile
-----------------------------------------------------------------------------
(***************************************************************************)
(* Beginning and end of a task.                                            *)
(***************************************************************************)

\* Mutant: only the corrected utterance's own profile is released.
OwnProfile(p) == {p}

\* The profiles a correction releases.
CorrectionCandidates(p) == Profiles

\* run_asr's callback: every other profile is to be released first.
BeginAsr(p) ==
  /\ pc = "idle"
  /\ kind' = "asr" /\ profile' = p
  /\ todo' = Profiles \ {p}
  /\ pc' = "release"
  /\ UNCHANGED <<systemVars, qwen, target>>

BeginCorrection(p) ==
  /\ pc = "idle"
  /\ kind' = "correction" /\ profile' = p
  /\ todo' = CorrectionCandidates(p)
  /\ pc' = "release"
  /\ UNCHANGED <<systemVars, qwen, target>>

\* The task is over: it returned, raised or was denied.
End ==
  /\ kind' = "none" /\ profile' = NoProfile
  /\ pc' = "idle"
  /\ todo' = {} /\ target' = NoProfile
-----------------------------------------------------------------------------
(***************************************************************************)
(* Release: _reconcile_asr_siblings, and the loop of run_correction.       *)
(***************************************************************************)

\* Mutant: a unit on its way up or down counts as released.
NotServing(q) == unit[q] \notin {"active", "listening"}

\* A sibling that systemd reports inactive or failed needs no stop.
AlreadyReleased(q) == unit[q] = "down"

\* Mutant: what systemctl stop started is taken for done.
AssumedReleased(q) == TRUE

\* systemd reports inactive or failed: default_stop_worker_service's poll, and the
\* probe of the scheduler after it.
Released(q) == unit[q] = "down"

\* A probe that fails denies the task.
ProbeFails ==
  /\ pc \in {"release", "confirm"}
  /\ todo # {}
  /\ End
  /\ UNCHANGED <<systemVars, qwen>>

SkipSibling(q) ==
  /\ pc = "release" /\ kind = "asr"
  /\ q \in todo
  /\ AlreadyReleased(q)
  /\ todo' = todo \ {q}
  /\ UNCHANGED <<systemVars, qwen, kind, profile, pc, target>>

\* systemctl stop: a sibling only if it is not released, all of them for Qwen.
StopUnit(q) ==
  /\ pc = "release"
  /\ q \in todo
  /\ kind = "asr" => ~AlreadyReleased(q)
  /\ target' = q
  /\ pc' = "confirm"
  /\ unit' = [unit EXCEPT ![q] = IF @ = "down" THEN @ ELSE "deactivating"]
  /\ UNCHANGED <<loaded, asked, qwen, kind, profile, todo>>

\* systemctl failed, or the unit is not down within the stop timeout.
StopFails ==
  /\ pc = "confirm"
  /\ End
  /\ UNCHANGED <<systemVars, qwen>>

ReleaseConfirmed ==
  /\ pc = "confirm"
  /\ Released(target)
  /\ todo' = todo \ {target}
  /\ target' = NoProfile
  /\ pc' = "release"
  /\ UNCHANGED <<systemVars, qwen, kind, profile>>
-----------------------------------------------------------------------------
(***************************************************************************)
(* The selected worker: observed, started if it is down, and asked.        *)
(***************************************************************************)

AllReleased == pc = "release" /\ todo = {}

\* transport_profile says READY: the unit is active and answers the health request.
TransportReady ==
  /\ \/ AllReleased /\ kind = "asr"
     \/ pc = "wait"
  /\ unit[profile] = "listening"
  /\ pc' = "run"
  /\ UNCHANGED <<systemVars, qwen, kind, profile, todo, target>>

\* systemctl start was accepted, or not; accepted or not, the unit may come up.
StartUnit(accepted) ==
  /\ AllReleased /\ kind = "asr"
  /\ unit[profile] = "down"
  /\ \/ unit' = [unit EXCEPT ![profile] = "activating"]
     \/ ~accepted /\ UNCHANGED unit
  /\ \/ accepted /\ pc' = "wait" /\ UNCHANGED <<kind, profile, todo, target>>
     \/ ~accepted /\ End
  /\ UNCHANGED <<loaded, asked, qwen>>

\* The probe failed, or the active unit does not answer: a start is tried, and the
\* task raises in any case.
StartUnconfirmed ==
  /\ AllReleased /\ kind = "asr"
  /\ unit' \in {unit, [unit EXCEPT ![profile] = IF @ = "down" THEN "activating" ELSE @]}
  /\ End
  /\ UNCHANGED <<loaded, asked, qwen>>

\* Mutant: the wait for the socket has no deadline.
NotReadyIfDown ==
  /\ \/ AllReleased /\ kind = "asr" /\ unit[profile] \in {"activating", "deactivating"}
     \/ pc = "wait" /\ unit[profile] = "down"
  /\ End
  /\ UNCHANGED <<systemVars, qwen>>

\* The unit is on its way up or down, went down again, or the startup timeout passed.
NotReady ==
  /\ \/ AllReleased /\ kind = "asr" /\ unit[profile] \in {"activating", "deactivating"}
     \/ pc = "wait"
  /\ End
  /\ UNCHANGED <<systemVars, qwen>>

\* The request reaches the worker, unless it is gone by now.
Ask ==
  /\ pc = "run"
  /\ unit[profile] = "listening"
  /\ asked' = asked \union {profile}
  /\ pc' = "answer"
  /\ UNCHANGED <<unit, loaded, qwen, kind, profile, todo, target>>

AskFails ==
  /\ pc = "run"
  /\ unit[profile] # "listening"
  /\ End
  /\ UNCHANGED <<systemVars, qwen>>

Answered ==
  /\ pc = "answer"
  /\ profile \in asked \intersect loaded
  /\ asked' = asked \ {profile}
  /\ End
  /\ UNCHANGED <<unit, loaded, qwen>>

\* The worker is gone, or the client stopped waiting; the worker may go on.
Unanswered ==
  /\ pc = "answer"
  /\ End
  /\ UNCHANGED <<systemVars, qwen>>
-----------------------------------------------------------------------------
(***************************************************************************)
(* Qwen: one child process per correction.                                 *)
(***************************************************************************)

QwenStarts ==
  /\ AllReleased /\ kind = "correction"
  /\ qwen' = TRUE
  /\ pc' = "qwen"
  /\ UNCHANGED <<systemVars, kind, profile, todo, target>>

\* The child exits, or its process group is killed at the timeout, and is reaped.
QwenEnds ==
  /\ pc = "qwen"
  /\ qwen' = FALSE
  /\ End
  /\ UNCHANGED systemVars

Dispatcher ==
  \/ ProbeFails \/ StopFails \/ ReleaseConfirmed \/ TransportReady \/ StartUnconfirmed
  \/ NotReady \/ Ask \/ AskFails \/ Answered \/ Unanswered \/ QwenStarts \/ QwenEnds
  \/ \E q \in Profiles : SkipSibling(q) \/ StopUnit(q)
  \/ \E accepted \in BOOLEAN : StartUnit(accepted)
-----------------------------------------------------------------------------
(***************************************************************************)
(* systemd and the workers.                                                *)
(***************************************************************************)

workerUnchanged == <<qwen, kind, profile, pc, todo, target>>

UnitComesUp(p) ==
  /\ \/ unit[p] = "activating" /\ unit' = [unit EXCEPT ![p] = "active"]
     \/ unit[p] = "active" /\ unit' = [unit EXCEPT ![p] = "listening"]
  /\ UNCHANGED <<loaded, asked, workerUnchanged>>

\* A crash, the idle exit, a failed start or the end of a stop; units do not restart.
UnitGoesDown(p) ==
  /\ unit[p] # "down"
  /\ unit' = [unit EXCEPT ![p] = "down"]
  /\ loaded' = loaded \ {p}
  /\ asked' = asked \ {p}
  /\ UNCHANGED workerUnchanged

\* The worker serves a request and loads its model, whether or not the client still
\* waits.
ModelLoads(p) ==
  /\ p \in asked \ loaded
  /\ loaded' = loaded \union {p}
  /\ UNCHANGED <<unit, asked, workerUnchanged>>

System == \E p \in Profiles : UnitComesUp(p) \/ UnitGoesDown(p) \/ ModelLoads(p)

Next == System \/ Dispatcher \/ \E p \in Profiles : BeginAsr(p) \/ BeginCorrection(p)

\* The dispatcher runs on: every command, probe and request it waits for has a timeout.
Spec == Init /\ [][Next]_vars /\ WF_vars(Dispatcher)
-----------------------------------------------------------------------------
(***************************************************************************)
(* Properties.                                                             *)
(***************************************************************************)

\* Every variable holds a value of its type, and a task is at hand unless idle.
TypeOK ==
  /\ unit \in [Profiles -> UnitState]
  /\ loaded \subseteq Profiles
  /\ asked \subseteq Profiles
  /\ qwen \in BOOLEAN
  /\ kind \in {"none", "asr", "correction"}
  /\ profile \in Profiles \union {NoProfile}
  /\ pc \in {"idle", "release", "confirm", "wait", "run", "answer", "qwen"}
  /\ todo \subseteq Profiles
  /\ target \in Profiles \union {NoProfile}
  /\ pc = "idle" <=> kind = "none"
  /\ pc = "idle" <=> profile = NoProfile

\* Qwen runs only while every worker unit is down, whatever workers were there when
\* the daemon started and however they come and go.
QwenAlone == qwen => \A p \in Profiles : unit[p] = "down"

\* A worker is asked only while every other worker unit is down.
AsrAlone ==
  pc \in {"run", "answer"} => \A q \in Profiles \ {profile} : unit[q] = "down"

\* A model is loaded only onto a free accelerator, even by a worker that serves a
\* request its client gave up.
LoadsAlone ==
  [][\A p \in loaded' \ loaded : loaded \subseteq {p} /\ ~qwen]_vars

\* Every task ends, whatever systemd and the workers do.
TaskEnds == pc # "idle" ~> pc = "idle"
=============================================================================
