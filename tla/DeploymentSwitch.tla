--------------------------- MODULE DeploymentSwitch ---------------------------
(***************************************************************************)
(* What `./scripts/initialize.sh` promises about the machine it changes:   *)
(* a run moves the whole deployment (selected runtime, model directories,  *)
(* installed files, unit enablement) to a new generation in one step, at   *)
(* most once, or leaves all of it as it was.  Whatever else a run does, no *)
(* mixture of two generations is ever in force.  Bootstrap implements this *)
(* specification; its transaction journal is the refinement mapping.       *)
(***************************************************************************)
EXTENDS Integers

CONSTANTS
  Backends,     \* backends a runtime can be built for
  Keys,         \* model directories (_MODEL_CACHE_NAMES)
  Policy,       \* the keys a backend's selection names
  Files,        \* files the installer writes (_DEPLOYMENT_BINDINGS)
  LegacyUnit,   \* the file the installer removes
  Generations,  \* tokens of the candidates that runs build, in order
  Deployments,  \* what a machine may hold before the first run
  None          \* an absent manifest, directory or file

VARIABLES
  manifest,   \* None, or the backend and generation in force
  master,     \* generation of each model directory, or None
  bindings,   \* generation of each installed file, or None
  enabled,    \* units enabled at login
  services,   \* units running
  phase,      \* what the current run has done: idle, running, switched
  outcome     \* what the last finished run reported

config == <<manifest, master, bindings, enabled>>
vars == <<config, services, phase, outcome>>

Fresh(g) ==
  /\ manifest # None => g > manifest.gen
  /\ \A k \in Keys : master[k] # None => g > master[k]

Init ==
  /\ \E d \in Deployments :
       /\ manifest = d.manifest
       /\ master = d.master
       /\ bindings = d.bindings
       /\ enabled = d.enabled
       /\ services = d.active
  /\ phase = "idle"
  /\ outcome = "none"

Begin ==
  /\ phase = "idle"
  /\ phase' = "running"
  /\ UNCHANGED <<config, services, outcome>>

Switch(b, g) ==
  /\ phase = "running"
  /\ Fresh(g)
  /\ manifest' = [backend |-> b, gen |-> g]
  /\ master' = [k \in Keys |-> IF k \in Policy[b] THEN g ELSE master[k]]
  /\ bindings' = [f \in Files |-> IF f = LegacyUnit THEN None ELSE g]
  /\ enabled' \subseteq enabled
  /\ "legacy" \notin services' /\ "daemon" \in services'
  /\ phase' = "switched"
  /\ UNCHANGED outcome

\* Only a run that switched may report success, and a run that reports a
\* failure it could undo has switched nothing.
Finish ==
  /\ phase # "idle"
  /\ phase' = "idle"
  /\ \/ outcome' = "ok" /\ phase = "switched"
     \/ outcome' = "already" /\ phase = "running" /\ manifest # None
     \/ outcome' = "failed" /\ phase = "running"
     \/ outcome' \in {"broken", "crashed"}
  /\ UNCHANGED <<config, services>>

\* A running daemon starts its ASR worker, which exits when it is idle.
WorkerStartsOrExits ==
  /\ \/ "daemon" \in services /\ services' = services \union {"worker"}
     \/ services' = services \ {"worker"}
  /\ UNCHANGED <<config, phase, outcome>>

Next ==
  \/ Begin
  \/ \E b \in Backends, g \in Generations : Switch(b, g)
  \/ Finish
  \/ WorkerStartsOrExits

Spec == Init /\ [][Next]_vars
=============================================================================
