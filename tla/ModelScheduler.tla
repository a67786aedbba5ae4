--------------------------- MODULE ModelScheduler ---------------------------
(***************************************************************************)
(* The single-owner model scheduler (src/src/fun_voice/scheduler.py).      *)
(*                                                                         *)
(* Client threads submit opaque callbacks under a session key; one         *)
(* dispatcher thread runs them one at a time, in priority order.  Making   *)
(* another key current cancels the work queued or running for the earlier  *)
(* one; a cancelled callback still runs to its end, but its result is      *)
(* never handed out.  One condition lock guards the heap, the current key  *)
(* and the running handle, so each critical section is one action; the     *)
(* callback and on_complete run outside the lock, between actions.         *)
(***************************************************************************)
EXTENDS Integers, FiniteSets

CONSTANTS
  Handles,    \* identities of the TaskHandle objects a run may create
  Keys,       \* session keys
  Kinds,      \* the model task kinds in use
  NoKey,      \* _current_key before the first activate
  NoHandle    \* _running when the dispatcher executes nothing

AllKinds == {"final_tail", "stable_segment", "provisional_tail",
             "correction", "enrichment"}

ASSUME SchedulerConstants ==
  /\ NoKey \notin Keys
  /\ NoHandle \notin Handles
  /\ Kinds \subseteq AllKinds

\* _PRIORITY: the heap pops the smallest number first.
Priority == [k \in AllKinds |->
  CASE k = "final_tail"       -> 0
    [] k = "stable_segment"   -> 1
    [] k = "provisional_tail" -> 2
    [] k = "correction"       -> 3
    [] OTHER                  -> 4]

VARIABLES
  currentKey,   \* _current_key
  closed,       \* _closed
  pending,      \* handles in the heap _pending
  running,      \* _running
  sequence,     \* _sequence, the number of accepted submissions
  key,          \* TaskHandle.key, NoKey for a handle not yet created
  kind,         \* TaskHandle.kind
  order,        \* _PendingTask.sequence
  cancelled,    \* TaskHandle._cancelled
  done,         \* TaskHandle._done
  outcome,      \* what _finish stored: nothing, a value or an error
  dispatcher,   \* where the dispatcher thread is
  publish,      \* handle whose on_complete the dispatcher is about to call
  published,    \* history: handles whose on_complete was called
  superseded    \* history: handles overtaken by another key or by close

handleVars == <<key, kind, order, cancelled, done, outcome>>
historyVars == <<published, superseded>>
vars == <<currentKey, closed, pending, running, sequence, handleVars,
          dispatcher, publish, historyVars>>

Created(h) == key[h] # NoKey

\* TaskHandle.result() returns instead of raising.
ResultAvailable(h) == done[h] /\ ~cancelled[h] /\ outcome[h] = "value"

\* What wait_idle waits for.
WaitIdle == pending = {} /\ running = NoHandle

Init ==
  /\ currentKey = NoKey
  /\ closed = FALSE
  /\ pending = {}
  /\ running = NoHandle
  /\ sequence = 0
  /\ key = [h \in Handles |-> NoKey]
  /\ kind = [h \in Handles |-> "enrichment"]
  /\ order = [h \in Handles |-> 0]
  /\ cancelled = [h \in Handles |-> FALSE]
  /\ done = [h \in Handles |-> FALSE]
  /\ outcome = [h \in Handles |-> "none"]
  /\ dispatcher = "waiting"
  /\ publish = NoHandle
  /\ published = {}
  /\ superseded = {}
-----------------------------------------------------------------------------
(***************************************************************************)
(* Client operations.                                                      *)
(***************************************************************************)

\* Work accepted and not yet finished.
InFlight == pending \union ({running} \ {NoHandle})

\* Mutant: the running handle is left alone.
CancelQueuedOnly(stale) ==
  cancelled' = [h \in Handles |-> cancelled[h] \/ h \in stale \ {running}]

\* The handles activate and close cancel.
CancelAll(stale) == cancelled' = [h \in Handles |-> cancelled[h] \/ h \in stale]

\* submit's early return.
Admitted(k) == ~closed /\ k = currentKey

Activate(k) ==
  LET stale == {h \in InFlight : key[h] # k}
  IN  /\ currentKey' = k
      /\ CancelAll(stale)
      /\ superseded' = superseded \union stale
      /\ UNCHANGED <<closed, pending, running, sequence, key, kind, order, done,
                     outcome, dispatcher, publish, published>>

\* submit creates a handle; under a stale key, or once closed, it comes back
\* cancelled and finished and never reaches the heap.
Submit(h, k, kd) ==
  /\ ~Created(h)
  /\ key' = [key EXCEPT ![h] = k]
  /\ kind' = [kind EXCEPT ![h] = kd]
  /\ \/ /\ Admitted(k)
        /\ sequence' = sequence + 1
        /\ order' = [order EXCEPT ![h] = sequence + 1]
        /\ pending' = pending \union {h}
        /\ UNCHANGED <<cancelled, done>>
     \/ /\ ~Admitted(k)
        /\ cancelled' = [cancelled EXCEPT ![h] = TRUE]
        /\ done' = [done EXCEPT ![h] = TRUE]
        /\ UNCHANGED <<pending, sequence, order>>
  /\ UNCHANGED <<currentKey, closed, running, outcome, dispatcher, publish,
                 historyVars>>

\* TaskHandle.cancel, called by the owner after a timed-out wait.  It takes the
\* handle's own lock only, so it may fall anywhere.
Cancel(h) ==
  /\ Created(h)
  /\ cancelled' = [cancelled EXCEPT ![h] = TRUE]
  /\ UNCHANGED <<currentKey, closed, pending, running, sequence, key, kind, order,
                 done, outcome, dispatcher, publish, historyVars>>

Close ==
  /\ ~closed
  /\ closed' = TRUE
  /\ CancelAll(InFlight)
  /\ superseded' = superseded \union InFlight
  /\ UNCHANGED <<currentKey, pending, running, sequence, key, kind, order, done,
                 outcome, dispatcher, publish, published>>
-----------------------------------------------------------------------------
(***************************************************************************)
(* The dispatcher thread.                                                  *)
(***************************************************************************)

\* Mutant: the heap ignores the kind.
SubmissionOrder(g, h) == order[g] < order[h]

\* The order of the heap.
Before(g, h) ==
  \/ Priority[kind[g]] < Priority[kind[h]]
  \/ Priority[kind[g]] = Priority[kind[h]] /\ order[g] < order[h]

HeapMin(h) == h \in pending /\ \A g \in pending \ {h} : Before(h, g)

\* Mutant: the dispatcher looks at the first task and leaves it in the heap.
Peek(h) == UNCHANGED pending

Pop(h) == pending' = pending \ {h}

\* The done event TaskHandle._finish sets.
SetDone(h) == done' = [done EXCEPT ![h] = TRUE]

\* A popped task that was cancelled or belongs to an earlier key is finished
\* without running.
Skip(h) ==
  /\ dispatcher = "waiting"
  /\ HeapMin(h)
  /\ cancelled[h] \/ key[h] # currentKey
  /\ Pop(h)
  /\ cancelled' = [cancelled EXCEPT ![h] = TRUE]
  /\ SetDone(h)
  /\ UNCHANGED <<currentKey, closed, running, sequence, key, kind, order, outcome,
                 dispatcher, publish, historyVars>>

Start(h) ==
  /\ dispatcher = "waiting"
  /\ HeapMin(h)
  /\ ~cancelled[h]
  /\ key[h] = currentKey
  /\ Pop(h)
  /\ running' = h
  /\ dispatcher' = "executing"
  /\ UNCHANGED <<currentKey, closed, sequence, handleVars, publish, historyVars>>

\* The callback returned or raised: the critical section that decides whether
\* to publish, clears _running and finishes the handle.
Complete(result) ==
  LET h == running
  IN  /\ dispatcher = "executing"
      /\ publish' = IF ~cancelled[h] /\ key[h] = currentKey /\ ~closed
                    THEN h ELSE NoHandle
      /\ running' = NoHandle
      /\ SetDone(h)
      /\ outcome' = [outcome EXCEPT ![h] = result]
      /\ dispatcher' = "notifying"
      /\ UNCHANGED <<currentKey, closed, pending, sequence, key, kind, order,
                     cancelled, historyVars>>

\* on_complete runs after the lock was released, on the earlier decision.
Notify ==
  /\ dispatcher = "notifying"
  /\ published' = published \union ({publish} \ {NoHandle})
  /\ publish' = NoHandle
  /\ dispatcher' = "waiting"
  /\ UNCHANGED <<currentKey, closed, pending, running, sequence, handleVars,
                 superseded>>

\* Mutant: the thread leaves as soon as it sees close, with work in the heap.
StopAtOnce ==
  /\ dispatcher = "waiting"
  /\ closed
  /\ dispatcher' = "stopped"
  /\ UNCHANGED <<currentKey, closed, pending, running, sequence, handleVars, publish,
                 historyVars>>

Stop ==
  /\ dispatcher = "waiting"
  /\ closed
  /\ pending = {}
  /\ dispatcher' = "stopped"
  /\ UNCHANGED <<currentKey, closed, pending, running, sequence, handleVars, publish,
                 historyVars>>
-----------------------------------------------------------------------------
Dispatch ==
  \/ \E h \in Handles : Skip(h) \/ Start(h)
  \/ \E result \in {"value", "error"} : Complete(result)
  \/ Notify
  \/ Stop

Client ==
  \/ \E k \in Keys : Activate(k)
  \/ \E h \in Handles, k \in Keys, kd \in Kinds : Submit(h, k, kd)
  \/ \E h \in Handles : Cancel(h)
  \/ Close

Next == Dispatch \/ Client

\* The dispatcher never waits for a client, and every callback the daemon
\* submits is bounded by a socket or process timeout.
Spec == Init /\ [][Next]_vars /\ WF_vars(Dispatch)
-----------------------------------------------------------------------------
(***************************************************************************)
(* Properties.                                                             *)
(***************************************************************************)

\* Every variable holds a value of its type.
TypeOK ==
  /\ currentKey \in Keys \union {NoKey}
  /\ closed \in BOOLEAN
  /\ pending \subseteq Handles
  /\ running \in Handles \union {NoHandle}
  /\ sequence \in Nat
  /\ key \in [Handles -> Keys \union {NoKey}]
  /\ kind \in [Handles -> AllKinds]
  /\ order \in [Handles -> Nat]
  /\ cancelled \in [Handles -> BOOLEAN]
  /\ done \in [Handles -> BOOLEAN]
  /\ outcome \in [Handles -> {"none", "value", "error"}]
  /\ dispatcher \in {"waiting", "executing", "notifying", "stopped"}
  /\ publish \in Handles \union {NoHandle}
  /\ published \subseteq Handles
  /\ superseded \subseteq Handles

\* Work that activate or close overtook while it was queued or running never
\* hands out a result: neither through its callback nor through result(), not
\* even after its key is made current again.
SupersededNeverDelivers ==
  \A h \in superseded : h \notin published /\ publish # h /\ ~ResultAvailable(h)

\* When wait_idle returns, every handle that was ever given out is finished.
IdleMeansSettled == WaitIdle => \A h \in Handles : Created(h) => done[h]

\* A finished handle keeps its result: no task runs a second time and no late
\* completion overwrites what a waiter may already have read.
SettledOnce ==
  [][\A h \in Handles : done[h] => done'[h] /\ outcome'[h] = outcome[h]]_vars

\* A task only starts when no live task of higher priority, or of the same
\* priority submitted earlier, is waiting: a final tail is never overtaken by a
\* preload, nor one final tail by a later one.
PriorityRespected ==
  [][\A h \in Handles :
       running # h /\ running' = h =>
         \A g \in pending \ {h} :
           ~cancelled[g] =>
             \/ Priority[kind[h]] < Priority[kind[g]]
             \/ kind[h] = kind[g] /\ order[h] < order[g]]_vars

\* Every handle given out is eventually finished, so a waiter without a timeout
\* returns: queued work is started or skipped whatever is activated, cancelled
\* or closed meanwhile.
EveryTaskSettles == \A h \in Handles : Created(h) ~> done[h]

\* close always ends the dispatcher thread, after it drained the heap.
CloseEndsDispatcher == closed ~> dispatcher = "stopped"
=============================================================================
