----------------------------- MODULE MCBootstrap -----------------------------
(* Instance of Bootstrap: an accelerator backend that needs both model keys   *)
(* and a CPU backend that needs one, tried in this order; a machine that is   *)
(* deployed, or left by the warm-worker architecture (no manifest, one of the *)
(* model directories, its unit enabled and running, no daemon unit).          *)
EXTENDS Bootstrap

CONSTANTS xpu, cpu, nano, vad, unit, legacyUnit

MCBackends == {xpu, cpu}
MCKeys == {nano, vad}
MCPolicy == [b \in MCBackends |-> IF b = xpu THEN MCKeys ELSE {vad}]
MCFiles == {unit, legacyUnit}
MCCandidateLists == {<<xpu, cpu>>}

Deployed ==
  [manifest |-> [backend |-> xpu, gen |-> 0],
   master   |-> [k \in MCKeys |-> 0],
   bindings |-> [f \in MCFiles |-> IF f = unit THEN 0 ELSE None],
   enabled  |-> {"daemon"}, active |-> {"daemon"}]

WarmWorker ==
  [manifest |-> None,
   master   |-> [k \in MCKeys |-> IF k = vad THEN 0 ELSE None],
   bindings |-> [f \in MCFiles |-> IF f = unit THEN None ELSE 0],
   enabled  |-> {"legacy"}, active |-> {"legacy"}]

MCDeployments == {Deployed, WarmWorker}
=============================================================================
