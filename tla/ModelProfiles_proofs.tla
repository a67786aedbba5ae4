------------------------ MODULE ModelProfiles_proofs ------------------------
(***************************************************************************)
(* Proofs about ModelProfiles, for any set of profiles.  A guard observes  *)
(* units that move on their own; what makes an observation last is that    *)
(* only the selected profile's unit is ever started.                       *)
(***************************************************************************)
EXTENDS ModelProfiles, TLAPS

\* What the task at hand has released stays down until the task is over.
ReleasedStaysDown ==
  /\ kind = "asr" => \A q \in Profiles \ {profile} : q \in todo \/ unit[q] = "down"
  /\ kind = "correction" => \A q \in Profiles : q \in todo \/ unit[q] = "down"

\* A task is past its release only with nothing left to release, and the Qwen child
\* runs exactly while the dispatcher waits for it.
GuardPhase ==
  /\ pc \in {"wait", "run", "answer"} => kind = "asr" /\ todo = {}
  /\ pc = "qwen" => kind = "correction" /\ todo = {}
  /\ pc = "confirm" => target \in todo
  /\ qwen <=> pc = "qwen"

\* Only a worker that is up holds a model or a request.
OnlyUpUnitsWork == \A p \in loaded \union asked : unit[p] # "down"

\* A worker that may still load its model has the accelerator to itself.
AskedAlone == \A p \in asked : asked = {p} /\ loaded \subseteq {p}

IInv ==
  /\ TypeOK
  /\ ReleasedStaysDown
  /\ GuardPhase
  /\ OnlyUpUnitsWork
  /\ AskedAlone
-----------------------------------------------------------------------------
\* Every action keeps the types.
LEMMA TypeStep == TypeOK /\ [Next]_vars => TypeOK'
<1> SUFFICES ASSUME TypeOK, [Next]_vars PROVE TypeOK'
  OBVIOUS
<1> USE ProfileConstants DEF TypeOK, UnitState, systemVars
<1>1. CASE ProbeFails
  BY <1>1 DEF ProbeFails, End
<1>2. CASE StopFails
  BY <1>2 DEF StopFails, End
<1>3. CASE ReleaseConfirmed
  BY <1>3 DEF ReleaseConfirmed, Released
<1>4. CASE TransportReady
  BY <1>4 DEF TransportReady, AllReleased
<1>5. CASE StartUnconfirmed
  BY <1>5 DEF StartUnconfirmed, End, AllReleased
<1>6. CASE NotReady
  BY <1>6 DEF NotReady, End, AllReleased
<1>7. CASE Ask
  BY <1>7 DEF Ask
<1>8. CASE AskFails
  BY <1>8 DEF AskFails, End
<1>9. CASE Answered
  BY <1>9 DEF Answered, End
<1>10. CASE Unanswered
  BY <1>10 DEF Unanswered, End
<1>11. CASE QwenStarts
  BY <1>11 DEF QwenStarts, AllReleased
<1>12. CASE QwenEnds
  BY <1>12 DEF QwenEnds, End
<1>13. ASSUME NEW p \in Profiles, SkipSibling(p) PROVE TypeOK'
  BY <1>13 DEF SkipSibling, AlreadyReleased
<1>14. ASSUME NEW p \in Profiles, StopUnit(p) PROVE TypeOK'
  BY <1>14 DEF StopUnit, AlreadyReleased
<1>15. ASSUME NEW p \in Profiles, UnitComesUp(p) PROVE TypeOK'
  BY <1>15 DEF UnitComesUp, workerUnchanged
<1>16. ASSUME NEW p \in Profiles, UnitGoesDown(p) PROVE TypeOK'
  BY <1>16 DEF UnitGoesDown, workerUnchanged
<1>17. ASSUME NEW p \in Profiles, ModelLoads(p) PROVE TypeOK'
  BY <1>17 DEF ModelLoads, workerUnchanged
<1>18. ASSUME NEW p \in Profiles, BeginAsr(p) PROVE TypeOK'
  BY <1>18 DEF BeginAsr
<1>19. ASSUME NEW p \in Profiles, BeginCorrection(p) PROVE TypeOK'
  BY <1>19 DEF BeginCorrection, CorrectionCandidates
<1>20. ASSUME NEW accepted \in BOOLEAN, StartUnit(accepted) PROVE TypeOK'
  BY <1>20 DEF StartUnit, AllReleased, End
<1>21. CASE UNCHANGED vars
  BY <1>21 DEF vars
<1>22. QED
  BY <1>1, <1>2, <1>3, <1>4, <1>5, <1>6, <1>7, <1>8, <1>9, <1>10, <1>11, <1>12, <1>13,
     <1>14, <1>15, <1>16, <1>17, <1>18, <1>19, <1>20, <1>21
  DEF Next, System, Dispatcher

\* The initial states satisfy the invariant.
LEMMA InitIInv == Init => IInv
  BY ProfileConstants
  DEF Init, IInv, TypeOK, UnitState, ReleasedStaysDown, GuardPhase, OnlyUpUnitsWork,
      AskedAlone

\* Every action keeps the invariant.
LEMMA StepIInv == IInv /\ [Next]_vars => IInv'
<1> SUFFICES ASSUME IInv, [Next]_vars PROVE IInv'
  OBVIOUS
<1>0. TypeOK'
  BY TypeStep DEF IInv
<1> USE ProfileConstants, <1>0
    DEF IInv, TypeOK, UnitState, systemVars, ReleasedStaysDown, GuardPhase,
        OnlyUpUnitsWork, AskedAlone
<1>1. CASE ProbeFails
  BY <1>1 DEF ProbeFails, End
<1>2. CASE StopFails
  BY <1>2 DEF StopFails, End
<1>3. CASE ReleaseConfirmed
  BY <1>3 DEF ReleaseConfirmed, Released
<1>4. CASE TransportReady
  BY <1>4 DEF TransportReady, AllReleased
<1>5. CASE StartUnconfirmed
  BY <1>5 DEF StartUnconfirmed, End, AllReleased
<1>6. CASE NotReady
  BY <1>6 DEF NotReady, End, AllReleased
<1>7. CASE Ask
  BY <1>7 DEF Ask
<1>8. CASE AskFails
  BY <1>8 DEF AskFails, End
<1>9. CASE Answered
  BY <1>9 DEF Answered, End
<1>10. CASE Unanswered
  BY <1>10 DEF Unanswered, End
<1>11. CASE QwenStarts
  BY <1>11 DEF QwenStarts, AllReleased
<1>12. CASE QwenEnds
  BY <1>12 DEF QwenEnds, End
<1>13. ASSUME NEW p \in Profiles, SkipSibling(p) PROVE IInv'
  BY <1>13 DEF SkipSibling, AlreadyReleased
<1>14. ASSUME NEW p \in Profiles, StopUnit(p) PROVE IInv'
  BY <1>14 DEF StopUnit, AlreadyReleased
<1>15. ASSUME NEW p \in Profiles, UnitComesUp(p) PROVE IInv'
  BY <1>15 DEF UnitComesUp, workerUnchanged
<1>16. ASSUME NEW p \in Profiles, UnitGoesDown(p) PROVE IInv'
  BY <1>16 DEF UnitGoesDown, workerUnchanged
<1>17. ASSUME NEW p \in Profiles, ModelLoads(p) PROVE IInv'
  BY <1>17 DEF ModelLoads, workerUnchanged
<1>18. ASSUME NEW p \in Profiles, BeginAsr(p) PROVE IInv'
  BY <1>18 DEF BeginAsr
<1>19. ASSUME NEW p \in Profiles, BeginCorrection(p) PROVE IInv'
  BY <1>19 DEF BeginCorrection, CorrectionCandidates
<1>20. ASSUME NEW accepted \in BOOLEAN, StartUnit(accepted) PROVE IInv'
  BY <1>20 DEF StartUnit, AllReleased, End
<1>21. CASE UNCHANGED vars
  BY <1>21 DEF vars
<1>22. QED
  BY <1>1, <1>2, <1>3, <1>4, <1>5, <1>6, <1>7, <1>8, <1>9, <1>10, <1>11, <1>12, <1>13,
     <1>14, <1>15, <1>16, <1>17, <1>18, <1>19, <1>20, <1>21
  DEF Next, System, Dispatcher

\* The invariant holds throughout.
LEMMA InvariantIInv == Spec => []IInv
  BY InitIInv, StepIInv, PTL DEF Spec
-----------------------------------------------------------------------------
\* Every variable keeps its type.
THEOREM TypeCorrect == Spec => []TypeOK
<1>1. IInv => TypeOK
  BY DEF IInv
<1>2. QED BY <1>1, InvariantIInv, PTL

\* Qwen never runs beside a worker unit that is up.
THEOREM QwenIsAlone == Spec => []QwenAlone
<1>1. IInv => QwenAlone
  BY DEF IInv, ReleasedStaysDown, GuardPhase, QwenAlone
<1>2. QED BY <1>1, InvariantIInv, PTL

\* A worker is asked only while every other worker unit is down.
THEOREM AsrIsAlone == Spec => []AsrAlone
<1>1. IInv => AsrAlone
  BY DEF IInv, ReleasedStaysDown, GuardPhase, AsrAlone
<1>2. QED BY <1>1, InvariantIInv, PTL

\* No model is loaded onto an accelerator that another worker or Qwen holds.
THEOREM AcceleratorExclusive == Spec => LoadsAlone
<1> DEFINE Alone == \A p \in loaded' \ loaded : loaded \subseteq {p} /\ ~qwen
<1>1. IInv /\ [Next]_vars => [Alone]_vars
  <2> SUFFICES ASSUME IInv, Next PROVE Alone
    OBVIOUS
  <2>1. ASSUME NEW p \in Profiles, ModelLoads(p) PROVE Alone
    <3>1. p \in asked /\ loaded' = loaded \union {p}
      BY <2>1 DEF ModelLoads
    <3>2. loaded \subseteq {p}
      BY <3>1 DEF IInv, AskedAlone
    <3>3. ~qwen
      BY <3>1 DEF IInv, OnlyUpUnitsWork, GuardPhase, ReleasedStaysDown
    <3>4. QED BY <3>1, <3>2, <3>3
  <2>2. CASE loaded' \subseteq loaded
    BY <2>2
  <2>3. loaded' \subseteq loaded \/ \E p \in Profiles : ModelLoads(p)
    BY DEF Next, System, Dispatcher, systemVars, workerUnchanged, BeginAsr,
           BeginCorrection, ProbeFails, StopFails, ReleaseConfirmed, TransportReady,
           StartUnconfirmed, NotReady, Ask, AskFails, Answered, Unanswered, QwenStarts,
           QwenEnds, SkipSibling, StopUnit, StartUnit, UnitComesUp, UnitGoesDown
  <2>4. QED BY <2>1, <2>2, <2>3
<1>2. QED
  BY <1>1, InvariantIInv, PTL DEF Spec, LoadsAlone
=============================================================================
