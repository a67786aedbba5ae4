----------------------- MODULE ModelScheduler_proofs ------------------------
(***************************************************************************)
(* Proofs about ModelScheduler, for any sets of handles, keys and kinds.   *)
(* The safety properties follow from one inductive invariant, IInv.        *)
(***************************************************************************)
EXTENDS ModelScheduler, TLAPS

\* The variable running is set exactly while the dispatcher executes, and
\* publish only while it is about to notify.
DispatcherPhase ==
  /\ running = NoHandle <=> dispatcher # "executing"
  /\ publish # NoHandle => dispatcher = "notifying"

\* A created handle is unfinished exactly while it is queued or running; a
\* running one has left the heap.
InFlightUnfinished ==
  /\ \A h \in Handles : h \in InFlight <=> Created(h) /\ ~done[h]
  /\ running \notin pending

\* Only a handle in flight may still be overtaken: what is published or about
\* to be is finished.
PublishedDone ==
  \A h \in Handles : h \in published \/ h = publish => done[h]

\* Overtaken work is cancelled, and was not published before.
SupersededCancelled ==
  \A h \in superseded :
    cancelled[h] /\ Created(h) /\ h \notin published /\ h # publish

\* A finished handle was created.
DoneCreated == \A h \in Handles : done[h] => Created(h)

\* Whatever is queued or running and not cancelled belongs to the current key
\* of an open scheduler.
LiveWorkIsCurrent ==
  \A h \in InFlight : ~cancelled[h] => Admitted(key[h])

IInv ==
  /\ TypeOK
  /\ DispatcherPhase
  /\ InFlightUnfinished
  /\ PublishedDone
  /\ SupersededCancelled
  /\ DoneCreated
  /\ LiveWorkIsCurrent
-----------------------------------------------------------------------------
\* Every action keeps the types.
LEMMA TypeStep == TypeOK /\ [Next]_vars => TypeOK'
<1> SUFFICES ASSUME TypeOK, [Next]_vars PROVE TypeOK'
  OBVIOUS
<1> USE SchedulerConstants DEF TypeOK
<1>1. ASSUME NEW k \in Keys, Activate(k) PROVE TypeOK'
  BY <1>1 DEF Activate, CancelAll, InFlight
<1>2. ASSUME NEW h \in Handles, NEW k \in Keys, NEW kd \in Kinds, Submit(h, k, kd)
      PROVE TypeOK'
  <2>1. kd \in AllKinds
    OBVIOUS
  <2>2. CASE Admitted(k)
    BY <1>2, <2>1, <2>2 DEF Submit, historyVars
  <2>3. CASE ~Admitted(k)
    BY <1>2, <2>1, <2>3 DEF Submit, historyVars
  <2>4. QED BY <2>2, <2>3
<1>3. ASSUME NEW h \in Handles, Cancel(h) PROVE TypeOK'
  BY <1>3 DEF Cancel, historyVars
<1>4. CASE Close
  BY <1>4 DEF Close, CancelAll, InFlight
<1>5. ASSUME NEW h \in Handles, Skip(h) PROVE TypeOK'
  BY <1>5 DEF Skip, Pop, SetDone, historyVars
<1>6. ASSUME NEW h \in Handles, Start(h) PROVE TypeOK'
  BY <1>6 DEF Start, Pop, handleVars, historyVars
<1>7. ASSUME NEW r \in {"value", "error"}, Complete(r) PROVE TypeOK'
  BY <1>7 DEF Complete, SetDone, historyVars
<1>8. CASE Notify
  BY <1>8 DEF Notify, handleVars
<1>9. CASE Stop
  BY <1>9 DEF Stop, handleVars, historyVars
<1>10. CASE UNCHANGED vars
  BY <1>10 DEF vars, handleVars, historyVars
<1>11. QED
  BY <1>1, <1>2, <1>3, <1>4, <1>5, <1>6, <1>7, <1>8, <1>9, <1>10
  DEF Next, Dispatch, Client

\* The initial states satisfy the invariant.
LEMMA InitIInv == Init => IInv
<1> SUFFICES ASSUME Init PROVE IInv
  OBVIOUS
<1> USE SchedulerConstants DEF Init
<1>1. TypeOK
  BY DEF TypeOK, AllKinds
<1>2. InFlight = {}
  BY DEF InFlight
<1>3. DispatcherPhase /\ InFlightUnfinished /\ DoneCreated
  BY <1>2 DEF DispatcherPhase, InFlightUnfinished, DoneCreated, Created
<1>4. PublishedDone /\ SupersededCancelled /\ LiveWorkIsCurrent
  BY <1>2 DEF PublishedDone, SupersededCancelled, LiveWorkIsCurrent
<1>5. QED BY <1>1, <1>3, <1>4 DEF IInv

\* activate leaves only work of the new key alive.
LEMMA ActivateStep ==
  ASSUME IInv, NEW k \in Keys, Activate(k)
  PROVE  IInv'
<1>1. TypeOK'
  BY TypeStep DEF IInv, Next, Client
<1>2. /\ InFlight' = InFlight
      /\ currentKey' = k
      /\ superseded' = superseded \union {h \in InFlight : key[h] # k}
      /\ UNCHANGED <<closed, pending, running, key, done, dispatcher, publish, published>>
  BY DEF Activate, InFlight
<1>3. /\ InFlight \subseteq Handles
      /\ superseded \subseteq Handles
  BY DEF IInv, TypeOK, InFlight
<1>4. ASSUME NEW h \in Handles
      PROVE  /\ cancelled[h] => cancelled'[h]
             /\ h \in InFlight /\ key[h] # k => cancelled'[h]
             /\ cancelled'[h] => cancelled[h] \/ (h \in InFlight /\ key[h] # k)
  BY Zenon DEF Activate, CancelAll
<1>5. DispatcherPhase' /\ PublishedDone'
  BY <1>2 DEF IInv, DispatcherPhase, PublishedDone
<1>6. InFlightUnfinished' /\ DoneCreated'
  BY <1>2 DEF IInv, InFlightUnfinished, DoneCreated, Created
<1>7. SupersededCancelled'
  <2> SUFFICES ASSUME NEW h \in superseded'
               PROVE  (cancelled[h] /\ Created(h) /\ h \notin published /\ h # publish)'
    BY DEF SupersededCancelled
  <2>1. CASE h \in superseded
    BY <1>2, <1>3, <1>4, <2>1 DEF IInv, SupersededCancelled, Created
  <2>2. CASE h \in InFlight /\ key[h] # k
    BY <1>2, <1>3, <1>4, <2>2 DEF IInv, InFlightUnfinished, PublishedDone, Created
  <2>3. QED BY <1>2, <2>1, <2>2
<1>8. LiveWorkIsCurrent'
  BY <1>2, <1>3, <1>4 DEF IInv, LiveWorkIsCurrent, Admitted
<1>9. QED BY <1>1, <1>5, <1>6, <1>7, <1>8 DEF IInv

\* Every action keeps the invariant.
LEMMA StepIInv == IInv /\ [Next]_vars => IInv'
<1> SUFFICES ASSUME IInv, [Next]_vars PROVE IInv'
  OBVIOUS
<1>0. TypeOK'
  BY TypeStep DEF IInv
<1> USE SchedulerConstants, <1>0
    DEF IInv, TypeOK, DispatcherPhase, InFlightUnfinished, PublishedDone,
        SupersededCancelled, DoneCreated, LiveWorkIsCurrent, InFlight, Created,
        Admitted, Pop, SetDone
<1>1. ASSUME NEW k \in Keys, Activate(k) PROVE IInv'
  BY <1>1, ActivateStep
<1>2. ASSUME NEW h \in Handles, NEW k \in Keys, NEW kd \in Kinds, Submit(h, k, kd)
      PROVE IInv'
  <2>1. CASE Admitted(k)
    BY <1>2, <2>1 DEF Submit, historyVars
  <2>2. CASE ~Admitted(k)
    BY <1>2, <2>2 DEF Submit, historyVars
  <2>3. QED BY <2>1, <2>2
<1>3. ASSUME NEW h \in Handles, Cancel(h) PROVE IInv'
  BY <1>3 DEF Cancel, historyVars
<1>4. CASE Close
  BY <1>4 DEF Close, CancelAll
<1>5. ASSUME NEW h \in Handles, Skip(h) PROVE IInv'
  BY <1>5 DEF Skip, HeapMin, historyVars
<1>6. ASSUME NEW h \in Handles, Start(h) PROVE IInv'
  BY <1>6 DEF Start, HeapMin, handleVars, historyVars
<1>7. ASSUME NEW r \in {"value", "error"}, Complete(r) PROVE IInv'
  BY <1>7 DEF Complete, historyVars
<1>8. CASE Notify
  BY <1>8 DEF Notify, handleVars
<1>9. CASE Stop
  BY <1>9 DEF Stop, handleVars, historyVars
<1>10. CASE UNCHANGED vars
  BY <1>10 DEF vars, handleVars, historyVars
<1>11. QED
  BY <1>1, <1>2, <1>3, <1>4, <1>5, <1>6, <1>7, <1>8, <1>9, <1>10
  DEF Next, Dispatch, Client

\* The invariant holds throughout.
LEMMA InvariantIInv == Spec => []IInv
  BY InitIInv, StepIInv, PTL DEF Spec
-----------------------------------------------------------------------------
\* Every variable of the scheduler keeps its type.
THEOREM TypeCorrect == Spec => []TypeOK
<1>1. IInv => TypeOK
  BY DEF IInv
<1>2. QED BY <1>1, InvariantIInv, PTL

\* Work overtaken by activate or close never delivers, whatever is submitted,
\* cancelled or made current again afterwards.
THEOREM NoStaleDelivery == Spec => []SupersededNeverDelivers
<1>1. IInv => SupersededNeverDelivers
  BY DEF IInv, SupersededCancelled, SupersededNeverDelivers, ResultAvailable
<1>2. QED BY <1>1, InvariantIInv, PTL

\* activate and close leave no live work of another key behind.
THEOREM OnlyCurrentWorkIsLive == Spec => []LiveWorkIsCurrent
<1>1. IInv => LiveWorkIsCurrent
  BY DEF IInv
<1>2. QED BY <1>1, InvariantIInv, PTL

\* wait_idle returning true means that every handle is finished.
THEOREM IdleIsSettled == Spec => []IdleMeansSettled
<1>1. IInv => IdleMeansSettled
  BY DEF IInv, InFlightUnfinished, IdleMeansSettled, WaitIdle, InFlight
<1>2. QED BY <1>1, InvariantIInv, PTL

\* A finished handle is never finished again with another result.
THEOREM SettlesOnce == Spec => SettledOnce
<1> DEFINE Once == \A h \in Handles : done[h] => done'[h] /\ outcome'[h] = outcome[h]
<1>1. IInv /\ [Next]_vars => [Once]_vars
  <2> SUFFICES ASSUME IInv, Next PROVE Once
    OBVIOUS
  <2> SUFFICES ASSUME NEW g \in Handles, done[g]
               PROVE  done'[g] /\ outcome'[g] = outcome[g]
    OBVIOUS
  <2>0. TypeOK /\ InFlightUnfinished /\ DoneCreated /\ DispatcherPhase
    BY DEF IInv
  <2> USE <2>0 DEF TypeOK, InFlightUnfinished, DoneCreated, InFlight, DispatcherPhase
  <2>1. ASSUME NEW k \in Keys, Activate(k) PROVE done'[g] /\ outcome'[g] = outcome[g]
    BY <2>1 DEF Activate
  <2>2. ASSUME NEW h \in Handles, NEW k \in Keys, NEW kd \in Kinds, Submit(h, k, kd)
        PROVE done'[g] /\ outcome'[g] = outcome[g]
    BY <2>2 DEF Submit, Created
  <2>3. ASSUME NEW h \in Handles, Cancel(h) PROVE done'[g] /\ outcome'[g] = outcome[g]
    BY <2>3 DEF Cancel
  <2>4. ASSUME NEW h \in Handles, Skip(h) PROVE done'[g] /\ outcome'[g] = outcome[g]
    BY <2>4 DEF Skip, SetDone
  <2>5. ASSUME NEW h \in Handles, Start(h) PROVE done'[g] /\ outcome'[g] = outcome[g]
    BY <2>5 DEF Start, handleVars
  <2>6. ASSUME NEW r \in {"value", "error"}, Complete(r)
        PROVE done'[g] /\ outcome'[g] = outcome[g]
    BY <2>6, SchedulerConstants DEF Complete, SetDone, Created
  <2>7. CASE Close \/ Notify \/ Stop
    BY <2>7 DEF Close, Notify, Stop, handleVars
  <2>8. QED
    BY <2>1, <2>2, <2>3, <2>4, <2>5, <2>6, <2>7 DEF Next, Dispatch, Client
<1>2. QED
  BY <1>1, InvariantIInv, PTL DEF Spec, SettledOnce

\* No two kinds share a priority.
LEMMA PriorityInjective ==
  ASSUME NEW a \in AllKinds, NEW b \in AllKinds, Priority[a] = Priority[b]
  PROVE  a = b
  BY DEF Priority, AllKinds

\* A task starts only ahead of every live task it should precede.
THEOREM PriorityHolds == Spec => PriorityRespected
<1> DEFINE Ahead ==
      \A h \in Handles :
        running # h /\ running' = h =>
          \A g \in pending \ {h} :
            ~cancelled[g] =>
              \/ Priority[kind[h]] < Priority[kind[g]]
              \/ kind[h] = kind[g] /\ order[h] < order[g]
<1>1. IInv /\ [Next]_vars => [Ahead]_vars
  <2> SUFFICES ASSUME IInv, Next, NEW h \in Handles, running # h, running' = h,
                      NEW g \in pending \ {h}
               PROVE  \/ Priority[kind[h]] < Priority[kind[g]]
                      \/ kind[h] = kind[g] /\ order[h] < order[g]
    OBVIOUS
  <2>1. HeapMin(h)
    BY SchedulerConstants
    DEF Next, Dispatch, Client, Activate, Submit, Cancel, Close, Skip, Start, Complete,
        Notify, Stop
  <2>2. Before(h, g)
    BY <2>1 DEF HeapMin
  <2>3. kind[h] \in AllKinds /\ kind[g] \in AllKinds
    BY DEF IInv, TypeOK
  <2>4. QED BY <2>2, <2>3, PriorityInjective DEF Before
<1>2. QED
  BY <1>1, InvariantIInv, PTL DEF Spec, PriorityRespected
=============================================================================
