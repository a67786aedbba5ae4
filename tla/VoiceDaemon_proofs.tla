------------------------- MODULE VoiceDaemon_proofs -------------------------
(***************************************************************************)
(* Proofs about VoiceDaemon, for any number of stop threads and sessions:  *)
(* as long as the readiness mark does not overwrite a later state, the     *)
(* states that are held without the lock belong to one pipeline, and what  *)
(* the recorder, the scheduler and the session hold belongs to it.         *)
(***************************************************************************)
EXTENDS VoiceDaemon, TLAPS

(* The inductive invariant. *)

Busy == {"preparing", "recording"}
Hearing == {"submit", "asr", "fallback", "lease", "correction", "deliver"}

\* What the types of the histories and of the tasks rest on.
Bound ==
  /\ starter = "focus" => generation < MaxSessions
  /\ starter \in {"capture", "recheck", "notify"} => generation \in Generation
  /\ proc # NoSession => audio \in Generation
  /\ \A t \in Enders :
       /\ pc[t] = "finalize" => audio \in Generation
       /\ pc[t] \in Hearing => heard[t] \in Generation
       /\ pc[t] \in {"asr", "fallback"} => task[t] \in Task

\* The state lock is held by start and by a stop that has not sealed yet; the
\* states without a lock are those of one pipeline.
Locking ==
  /\ lock = Starter <=> starter # "off"
  /\ \A t \in Enders : lock = t <=> pc[t] = "seal"
  /\ starter = "focus" => state = "idle"
  /\ starter \in {"capture", "recheck", "notify"} => state \in Busy
  /\ \A t \in Enders :
       /\ pc[t] = "seal" => state \in Busy
       /\ InPipeline(t) => lock = Free /\ state \in {"finalizing", "correcting", "committing"}
  /\ \A t, u \in Enders : InPipeline(t) /\ InPipeline(u) => t = u

\* The session is the last one opened until its cleanup; its recording is what
\* the recorder, the artifact and the pipeline hold.
Recording ==
  /\ state = "idle" => proc = NoSession /\ backing = {} /\ session = NoSession
  /\ state \in Busy => session = generation /\ generation \in Generation
  /\ state \in Busy /\ starter # "capture" => audio = generation
  /\ \A t \in Enders :
       /\ InPipeline(t) => session = generation /\ generation \in Generation
       /\ pc[t] \in {"capture", "finalize"} => audio = generation
       /\ pc[t] \in Hearing => heard[t] = generation
       /\ pc[t] \in {"submit", "asr", "fallback"} => generation \in backing
       /\ pc[t] = "reset" => proc = NoSession /\ backing = {}

\* The session has submitted nothing yet.
Fresh == state \in Busy \/ \E t \in Enders : pc[t] \in {"capture", "finalize", "submit"}

AsrTasks == {x \in InScheduler : x.kind = "asr"}

\* An ASR task that is not cancelled is the one its pipeline waits for; a session
\* has none before it submits one, and none that has answered.
Recognition ==
  /\ \A x \in AsrTasks : x.key <= generation
  /\ running \in AsrTasks => running \notin queue
  /\ \A t \in Enders : pc[t] \in {"asr", "fallback"} =>
       /\ task[t] = [kind |-> "asr", key |-> generation, owner |-> t, audio |-> generation]
       /\ result[t] # "none" => task[t] \notin AsrTasks
  /\ \A x \in AsrTasks \ cancelled :
       \E t \in Enders : Awaiting(t) /\ task[t] = x /\ result[t] = "none"
  /\ Fresh => \A x \in AsrTasks : x.key # generation

Strong == Locking /\ Recording /\ Recognition

\* Nothing runs in a process that is gone.
Ended == pc = Threads /\ starter = "off" /\ queue = {} /\ running = NoTask

IInv ==
  /\ TypeOK
  /\ alive => Bound
  /\ alive /\ ~overwritten => Strong
  /\ ~alive => Ended
  /\ TextStaysInItsSession /\ NoSilentLoss

-----------------------------------------------------------------------------
USE DEF startUnchanged, stopUnchanged, pipelineUnchanged, preloadUnchanged,
        recorderVars, schedulerVars, threadVars, historyVars, GoTo, Free

\* No session is a generation.
LEMMA Generations == NoSession \notin Generation /\ \A g \in Generation : g >= 1
BY DEF NoSession, Generation

\* What the scheduler has queued or runs are tasks.
LEMMA InSchedulerType == TypeOK => InScheduler \subseteq Task
BY DEF TypeOK, InScheduler

\* A thread asks for recognition or correction with a well-formed task.
LEMMA TaskType ==
  ASSUME NEW t \in Enders, NEW k \in TaskKind, NEW g \in Generation,
         NEW a \in Generation \union {NoSession}
  PROVE  [kind |-> k, key |-> g, owner |-> t, audio |-> a] \in Task
BY DEF Task

TypesAndBound == TypeOK /\ (alive => Bound)

\* start_if_idle keeps the types, from the lock to its return.
LEMMA StartTypes ==
  ASSUME TypesAndBound, alive, Start
  PROVE  TypesAndBound'
<1> USE DEF TypesAndBound
<1>1. CASE StartLocks
  BY <1>1 DEF StartLocks, TypeOK, Bound
<1>2. CASE StartWithoutFocus
  BY <1>2 DEF StartWithoutFocus, TypeOK, Bound
<1>3. CASE StartAborts
  BY <1>3 DEF StartAborts, TypeOK, Bound, State
<1>4. CASE StartOpensSession
  <2>1. UNCHANGED <<setup, alive, preloadLock, pc, phase, running, preloadOff, heard, task,
                    result, delivered, lost, overwritten, lock, proc, audio, backing, queue,
                    preload>>
    BY <1>4 DEF StartOpensSession
  <2>2. /\ generation' \in Generation /\ session' = generation' /\ currentKey' = generation'
        /\ generation' \in 0 .. MaxSessions
    BY <1>4, DaemonConstants
    DEF StartOpensSession, SchedulerActivate, TypeOK, Bound, Generation
  <2>3. cancelled' \subseteq Task
    BY <1>4, InSchedulerType DEF StartOpensSession, SchedulerActivate, TypeOK
  <2>4. state' \in State /\ starter' = "capture"
    BY <1>4 DEF StartOpensSession, State
  <2>5. TypeOK'
    BY <2>1, <2>2, <2>3, <2>4 DEF TypeOK
  <2>6. Bound'
    BY <2>1, <2>2, <2>4 DEF Bound
  <2>7. QED BY <2>5, <2>6
<1>5. CASE StartCaptures
  BY <1>5 DEF StartCaptures, TypeOK, Bound
<1>6. CASE StartSchedules
  <2>1. UNCHANGED <<setup, alive, preloadLock, pc, phase, running, preloadOff, heard, task,
                    result, delivered, lost, overwritten, lock, session, generation, proc,
                    audio, backing, currentKey, cancelled>>
    BY <1>6 DEF StartSchedules
  <2>2. starter = "recheck" /\ starter' = "notify" /\ state' \in State
    BY <1>6 DEF StartSchedules, TypeOK, State
  <2>3. queue' \subseteq Task /\ preload' \in Task \union {NoTask}
    <3> DEFINE x == [kind |-> "preload", key |-> session, owner |-> NoThread,
                     audio |-> NoSession]
    <3>1. session # NoSession => x \in Task
      BY DEF Task, TaskKind, TypeOK
    <3> HIDE DEF x
    <3>2. \/ UNCHANGED <<queue, preload>>
          \/ session # NoSession /\ Enqueue(x) /\ preload' = x
      BY <1>6 DEF StartSchedules, x
    <3>3. QED BY <3>1, <3>2 DEF Enqueue, TypeOK
  <2>4. TypeOK'
    BY <2>1, <2>2, <2>3 DEF TypeOK
  <2>5. Bound'
    BY <2>1, <2>2 DEF Bound
  <2>6. QED BY <2>4, <2>5
<1>7. CASE StartReturns
  BY <1>7 DEF StartReturns, TypeOK, Bound
<1>8. QED
  BY <1>1, <1>2, <1>3, <1>4, <1>5, <1>6, <1>7 DEF Start

\* A stop, the auto-stop and the sealing of the recording keep the types.
LEMMA StopTypes ==
  ASSUME TypesAndBound, alive,
         \/ \E t \in Stoppers : StopCalled(t) \/ Stopping(t)
         \/ LimitReached \/ AutoStops \/ \E t \in Enders : Seals(t)
  PROVE  TypesAndBound'
<1> USE DEF TypesAndBound, Enders
<1>1. PICK t \in Enders, where \in {"off", "wait", "seal", "capture"} :
        /\ pc' = [pc EXCEPT ![t] = where]
        /\ lock' \in {lock, t, NoThread} /\ state' \in {state, "finalizing"}
        /\ UNCHANGED stopUnchanged
  BY DEF StopCalled, Stopping, StopLocks, StopGivesUp, LimitReached, AutoStops, Seals
<1>2. TypeOK'
  BY <1>1 DEF TypeOK, State
<1>3. Bound'
  BY <1>1 DEF Bound, TypeOK, Hearing
<1>4. QED BY <1>1, <1>2, <1>3

\* The dispatcher's steps leave the threads of the daemon alone.
dispatcherUnchanged ==
  <<setup, alive, lock, session, generation, starter, pc, proc, audio, backing, currentKey,
    preloadOff, preload, heard, task, delivered, lost>>

\* Dispatch, the ends of tasks and the preload keep the types.
LEMMA SchedulerTypes ==
  ASSUME TypesAndBound, SchedulerStep
  PROVE  TypesAndBound' /\ UNCHANGED dispatcherUnchanged
<1> USE DEF TypesAndBound
<1>1. UNCHANGED dispatcherUnchanged
  BY DEF dispatcherUnchanged, SchedulerStep, Dispatch, AsrEnds, CorrectionEnds, Preload,
         PreloadGuard, PreloadBegins, MarkChecks, MarkSetsRecording
<1>2. Bound' \/ ~alive'
  BY <1>1 DEF dispatcherUnchanged, Bound
<1> DEFINE Typed ==
      /\ queue \subseteq Task /\ running \in Task \union {NoTask}
      /\ phase \in {"none", "guard", "lock", "check", "set", "call"}
      /\ cancelled \subseteq Task
      /\ result \in [Enders -> {"none", "text", "empty", "fail", "again"}]
<1>3. Typed'
  <2>1. ASSUME NEW x \in queue, Dispatch(x)
        PROVE  Typed'
    BY <2>1 DEF Dispatch, TypeOK
  <2>2. ASSUME NEW res \in {"text", "empty", "fail", "again"}, AsrEnds(res)
        PROVE  Typed'
    BY <2>2 DEF AsrEnds, Finish, TypeOK
  <2>3. CASE CorrectionEnds
    BY <2>3 DEF CorrectionEnds, Finish, TypeOK
  <2>4. CASE Preload
    BY <2>4 DEF Preload, PreloadGuard, PreloadBegins, MarkChecks, MarkSetsRecording,
       PreloadEnds, TypeOK
  <2>5. QED BY <2>1, <2>2, <2>3, <2>4 DEF SchedulerStep
<1>4. /\ state' \in State /\ overwritten' \in BOOLEAN
      /\ preloadLock' \in Enders \union {Dispatcher, Free}
  BY DEF SchedulerStep, Dispatch, AsrEnds, CorrectionEnds, Preload,
         PreloadGuard, PreloadBegins, MarkChecks, MarkSetsRecording, TypeOK, State
<1>5. TypeOK'
  BY <1>1, <1>3, <1>4 DEF TypeOK, dispatcherUnchanged
<1>6. QED BY <1>1, <1>2, <1>5

\* The pipeline keeps the types at each of its steps.
LEMMA PipelineTypes ==
  ASSUME TypesAndBound, alive, NEW t \in Enders, Pipeline(t)
  PROVE  TypesAndBound'
<1> USE DEF TypesAndBound
<1>1. UNCHANGED <<setup, alive, lock, generation, starter, phase, running, preload,
                  currentKey, overwritten>>
  BY DEF Pipeline, PipelineStopsCapture, PipelineFinalizes, PipelineSubmitsAsr,
     PipelineFallsBack, PipelineGotText, PipelineGotNoText, AsrTimesOut,
     PipelineSubmitsCorrection, PipelineCorrected, CorrectionTimesOut, PipelineDelivers,
     PipelineCleansRecorder, PipelineResets
<1>2. \A x : cancelled \union ({x} \intersect InScheduler) \subseteq Task
  BY InSchedulerType DEF TypeOK
<1>3. CASE PipelineStopsCapture(t)
  <2>1. preloadOff' \subseteq Generation
    BY <1>3 DEF PipelineStopsCapture, TypeOK, Task
  <2>2. cancelled' \subseteq Task
    BY <1>2, <1>3 DEF PipelineStopsCapture, CancelTask
  <2>3. TypeOK'
    BY <1>1, <1>3, <2>1, <2>2 DEF PipelineStopsCapture, TypeOK
  <2>4. Bound'
    BY <1>1, <1>3 DEF PipelineStopsCapture, TypeOK, Bound, Hearing
  <2>5. QED BY <2>3, <2>4
<1>4. CASE PipelineFinalizes(t)
  <2>1. audio \in Generation
    BY <1>4 DEF PipelineFinalizes, Bound
  <2>2. TypeOK'
    BY <1>1, <1>4, <2>1 DEF PipelineFinalizes, TypeOK
  <2>3. Bound'
    BY <1>1, <1>4, <2>1 DEF PipelineFinalizes, TypeOK, Bound, Hearing
  <2>4. QED BY <2>2, <2>3
<1>5. ASSUME NEW x \in Task, SubmitAndWait(t, x),
             NEW where \in {"asr", "fallback", "correction"},
             pc[t] \in Hearing, pc' = [pc EXCEPT ![t] = where],
             preloadLock' \in {preloadLock, t},
             UNCHANGED <<state, session, recorderVars, cancelled, preloadOff, heard,
                         delivered, lost>>
      PROVE  TypesAndBound'
  <2>1. TypeOK'
    BY <1>1, <1>5 DEF SubmitAndWait, Enqueue, TypeOK
  <2>2. Bound'
    BY <1>1, <1>5 DEF SubmitAndWait, TypeOK, Bound, Hearing
  <2>3. QED BY <2>1, <2>2
<1>6. heard[t] \in Generation \/ pc[t] \notin Hearing
  BY DEF Bound
<1>7. CASE PipelineSubmitsAsr(t)
  <2>1. pc[t] = "submit" /\ pc[t] \in Hearing
    BY <1>7 DEF PipelineSubmitsAsr, Hearing
  <2>2. CASE session = NoSession
    <3>1. TypeOK'
      BY <1>1, <1>7, <2>2 DEF PipelineSubmitsAsr, TypeOK
    <3>2. Bound'
      BY <1>1, <1>7, <2>2 DEF PipelineSubmitsAsr, TypeOK, Bound, Hearing
    <3>3. QED BY <3>1, <3>2
  <2>3. CASE session # NoSession
    <3> DEFINE x == [kind |-> "asr", key |-> session, owner |-> t, audio |-> heard[t]]
    <3>1. x \in Task
      BY <1>6, <2>1, <2>3, TaskType DEF TaskKind, TypeOK
    <3> HIDE DEF x
    <3>2. SubmitAndWait(t, x) /\ pc' = [pc EXCEPT ![t] = "asr"]
      BY <1>7, <2>3 DEF PipelineSubmitsAsr, x
    <3>3. QED BY <1>5, <1>7, <2>1, <3>1, <3>2 DEF PipelineSubmitsAsr
  <2>4. QED BY <2>2, <2>3
<1>8. CASE PipelineFallsBack(t)
  <2>1. task[t] \in Task /\ pc[t] \in Hearing
    BY <1>8 DEF PipelineFallsBack, Bound, Hearing
  <2>2. QED BY <1>5, <1>8, <2>1 DEF PipelineFallsBack
<1>9. CASE PipelineGotText(t) \/ PipelineGotNoText(t) \/ AsrTimesOut(t)
  <2>1. /\ pc[t] \in Hearing
        /\ \E where \in {"lease", "deliver", "cleanup"} : pc' = [pc EXCEPT ![t] = where]
        /\ task' = [task EXCEPT ![t] = NoTask] /\ state' \in {state, "correcting", "committing"}
        /\ UNCHANGED <<preloadLock, session, recorderVars, queue, preloadOff, heard, result,
                       delivered, lost>>
    BY <1>9 DEF PipelineGotText, PipelineGotNoText, AsrTimesOut, Awaiting, Hearing
  <2>2. cancelled' \subseteq Task
    BY <1>2, <1>9
    DEF PipelineGotText, PipelineGotNoText, AsrTimesOut, CancelTask, TypeOK
  <2>3. TypeOK'
    BY <1>1, <2>1, <2>2 DEF TypeOK, State
  <2>4. Bound'
    BY <1>1, <2>1 DEF TypeOK, Bound, Hearing
  <2>5. QED BY <2>3, <2>4
<1>10. CASE PipelineSubmitsCorrection(t)
  <2>1. pc[t] = "lease" /\ pc[t] \in Hearing
    BY <1>10 DEF PipelineSubmitsCorrection, Hearing
  <2>2. CASE session = NoSession
    <3>1. TypeOK'
      BY <1>1, <1>10, <2>2 DEF PipelineSubmitsCorrection, TypeOK, State
    <3>2. Bound'
      BY <1>1, <1>10, <2>2 DEF PipelineSubmitsCorrection, TypeOK, Bound, Hearing
    <3>3. QED BY <3>1, <3>2
  <2>3. CASE session # NoSession
    <3> DEFINE x == [kind |-> "correction", key |-> session, owner |-> t,
                     audio |-> NoSession]
    <3>1. x \in Task
      BY <2>3, TaskType DEF TaskKind, TypeOK
    <3> HIDE DEF x
    <3>2. SubmitAndWait(t, x) /\ pc' = [pc EXCEPT ![t] = "correction"]
      BY <1>10, <2>3 DEF PipelineSubmitsCorrection, x
    <3>3. QED BY <1>5, <1>10, <2>1, <2>3, <3>1, <3>2 DEF PipelineSubmitsCorrection
  <2>4. QED BY <2>2, <2>3
<1>11. CASE PipelineCorrected(t) \/ CorrectionTimesOut(t)
  <2>1. /\ pc[t] \in Hearing /\ pc' = [pc EXCEPT ![t] = "deliver"] /\ preloadLock' = Free
        /\ task' = [task EXCEPT ![t] = NoTask] /\ state' = "committing"
        /\ UNCHANGED <<session, recorderVars, queue, preloadOff, heard, result, delivered,
                       lost>>
    BY <1>11 DEF PipelineCorrected, CorrectionTimesOut, Hearing
  <2>2. cancelled' \subseteq Task
    BY <1>2, <1>11 DEF PipelineCorrected, CorrectionTimesOut, CancelTask, TypeOK
  <2>3. TypeOK'
    BY <1>1, <2>1, <2>2 DEF TypeOK, State
  <2>4. Bound'
    BY <1>1, <2>1 DEF TypeOK, Bound, Hearing
  <2>5. QED BY <2>3, <2>4
<1>12. CASE PipelineDelivers(t)
  <2>1. heard[t] \in Generation
    BY <1>6, <1>12 DEF PipelineDelivers, Hearing
  <2>2. delivered' \subseteq Generation \X Generation /\ lost' \subseteq Generation
    BY <1>12, <2>1 DEF PipelineDelivers, TypeOK
  <2>3. TypeOK'
    BY <1>1, <1>12, <2>2 DEF PipelineDelivers, TypeOK
  <2>4. Bound'
    BY <1>1, <1>12 DEF PipelineDelivers, TypeOK, Bound, Hearing
  <2>5. QED BY <2>3, <2>4
<1>13. CASE PipelineCleansRecorder(t)
  <2>1. TypeOK'
    BY <1>1, <1>13 DEF PipelineCleansRecorder, TypeOK
  <2>2. Bound'
    BY <1>1, <1>13 DEF PipelineCleansRecorder, TypeOK, Bound, Hearing
  <2>3. QED BY <2>1, <2>2
<1>14. CASE PipelineResets(t)
  <2>1. TypeOK'
    BY <1>1, <1>14 DEF PipelineResets, TypeOK, State
  <2>2. Bound'
    BY <1>1, <1>14 DEF PipelineResets, TypeOK, Bound, Hearing
  <2>3. QED BY <2>1, <2>2
<1>15. QED
  BY <1>3, <1>4, <1>7, <1>8, <1>9, <1>10, <1>11, <1>12, <1>13, <1>14 DEF Pipeline

-----------------------------------------------------------------------------
(* Without the race of the readiness mark. *)

\* Tasks that go, and threads that wait for none of those that stay.
LEMMA RecognitionKept ==
  ASSUME Recognition, generation' = generation, Fresh' => Fresh,
         AsrTasks' \subseteq AsrTasks,
         \A x \in AsrTasks' : x \in cancelled => x \in cancelled',
         running' \in AsrTasks' => running' \notin queue',
         \A t \in Enders : pc'[t] \in {"asr", "fallback"} =>
           /\ pc[t] \in {"asr", "fallback"} /\ task'[t] = task[t]
           /\ result'[t] # "none" => result[t] # "none" \/ task[t] \notin AsrTasks',
         \A t \in Enders : Awaiting(t) /\ result[t] = "none" /\ task[t] \in AsrTasks' \ cancelled' =>
           pc'[t] \in {"asr", "fallback"} /\ task'[t] = task[t] /\ result'[t] = "none"
  PROVE  Recognition'
<1>1. \A x \in AsrTasks' : x.key <= generation'
  BY DEF Recognition
<1>2. running' \in AsrTasks' => running' \notin queue'
  OBVIOUS
<1>3. \A t \in Enders : pc'[t] \in {"asr", "fallback"} =>
        /\ task'[t] = [kind |-> "asr", key |-> generation', owner |-> t, audio |-> generation']
        /\ result'[t] # "none" => task'[t] \notin AsrTasks'
  BY DEF Recognition
<1>4. \A x \in AsrTasks' \ cancelled' :
        \E t \in Enders : Awaiting(t)' /\ task'[t] = x /\ result'[t] = "none"
  <2>1. SUFFICES ASSUME NEW x \in AsrTasks' \ cancelled'
                 PROVE  \E t \in Enders : Awaiting(t)' /\ task'[t] = x /\ result'[t] = "none"
    OBVIOUS
  <2>2. x \in AsrTasks \ cancelled
    OBVIOUS
  <2>3. PICK t \in Enders : Awaiting(t) /\ task[t] = x /\ result[t] = "none"
    BY <2>2 DEF Recognition
  <2>4. QED BY <2>1, <2>3 DEF Awaiting
<1>5. Fresh' => \A x \in AsrTasks' : x.key # generation'
  BY DEF Recognition
<1>6. QED BY <1>1, <1>2, <1>3, <1>4, <1>5 DEF Recognition

\* A step that leaves the tasks alone.
LEMMA TasksKept ==
  ASSUME Recognition, UNCHANGED <<queue, running, cancelled, result, task, generation>>,
         Fresh' => Fresh,
         \A t \in Enders : pc'[t] \in {"asr", "fallback"} <=> pc[t] \in {"asr", "fallback"}
  PROVE  Recognition'
<1>1. AsrTasks' = AsrTasks
  BY DEF AsrTasks, InScheduler
<1>2. running' \in AsrTasks' => running' \notin queue'
  BY <1>1 DEF Recognition
<1>3. QED
  BY <1>1, <1>2, RecognitionKept DEF Awaiting

\* While start holds the lock, or the daemon is idle and the lock free, no stop is
\* past its wait.
LEMMA NobodyStops ==
  ASSUME TypeOK, Locking, starter # "off" \/ (lock = Free /\ state = "idle")
  PROVE  \A t \in Enders : pc[t] \in {"off", "wait"}
<1>1. Starter \notin Enders /\ Free \notin Enders /\ Starter # Free
  BY DaemonConstants DEF Enders
<1>2. QED
  BY <1>1 DEF Locking, InPipeline

\* start holds the lock of a session that nothing else belongs to.
LEMMA StartStrong ==
  ASSUME TypeOK, Bound, Strong, Start
  PROVE  Strong'
<1> USE DEF Strong
<1>1. starter # "off" => \A t \in Enders : pc[t] \in {"off", "wait"}
  BY NobodyStops
<1>2. starter # "off" => lock = Starter
  BY DEF Locking
<1>3. Starter \notin Enders /\ Free \notin Enders /\ Starter # Free
  BY DaemonConstants DEF Enders
<1>4. CASE StartLocks
  <2>1. \A t \in Enders : pc[t] \in {"off", "wait"}
    BY <1>4, NobodyStops DEF StartLocks
  <2>2. Locking'
    BY <1>3, <1>4, <2>1 DEF StartLocks, Locking, InPipeline
  <2>3. Recording'
    BY <1>4, <2>1 DEF StartLocks, Recording, InPipeline, Hearing, Busy
  <2>4. Recognition'
    BY <1>4, TasksKept DEF StartLocks, Fresh
  <2>5. QED BY <2>2, <2>3, <2>4
<1>5. CASE StartWithoutFocus
  <2>1. Locking'
    BY <1>1, <1>2, <1>3, <1>5 DEF StartWithoutFocus, Locking, InPipeline
  <2>2. Recording'
    BY <1>1, <1>5 DEF StartWithoutFocus, Locking, Recording, InPipeline, Hearing, Busy
  <2>3. Recognition'
    BY <1>5, TasksKept DEF StartWithoutFocus, Fresh
  <2>4. QED BY <2>1, <2>2, <2>3
<1>6. CASE StartAborts
  <2>1. Locking'
    BY <1>1, <1>2, <1>3, <1>6 DEF StartAborts, Locking, InPipeline
  <2>2. Recording'
    BY <1>1, <1>6 DEF StartAborts, Recording, InPipeline, Hearing, Busy
  <2>3. Recognition'
    BY <1>6, TasksKept DEF StartAborts, Fresh, Busy
  <2>4. QED BY <2>1, <2>2, <2>3
<1>7. CASE StartOpensSession
  <2>1. \A t \in Enders : pc[t] \in {"off", "wait"} /\ pc'[t] = pc[t]
    BY <1>1, <1>7 DEF StartOpensSession
  <2>2. /\ starter' = "capture" /\ state' = "preparing" /\ lock' = lock /\ lock = Starter
        /\ session' = generation' /\ generation' = generation + 1
        /\ UNCHANGED <<queue, running, proc, audio, backing, heard, task, result>>
        /\ cancelled' = cancelled \union {x \in InScheduler : x.key # generation + 1}
    BY <1>2, <1>7 DEF StartOpensSession, SchedulerActivate
  <2>3. generation' \in Generation /\ generation \in Nat
    BY <1>7, <2>2, DaemonConstants DEF StartOpensSession, Bound, TypeOK, Generation
  <2>4. Locking'
    BY <1>3, <2>1, <2>2 DEF Locking, InPipeline, Busy
  <2>5. Recording'
    BY <2>1, <2>2, <2>3 DEF Recording, InPipeline, Hearing, Busy
  <2>6. Recognition'
    <3>1. AsrTasks' = AsrTasks /\ AsrTasks \subseteq Task /\ AsrTasks \subseteq InScheduler
      BY <2>2, InSchedulerType DEF AsrTasks, InScheduler
    <3>2. \A x \in AsrTasks : x.key \in Nat /\ x.key <= generation
      BY <3>1 DEF Recognition, Task, Generation
    <3>3. \A x \in AsrTasks : x.key <= generation + 1 /\ x.key # generation + 1
      BY <2>3, <3>2
    <3>4. AsrTasks' \ cancelled' = {}
      BY <2>2, <3>1, <3>3
    <3>5. QED BY <2>1, <2>2, <3>1, <3>3, <3>4 DEF Recognition
  <2>7. QED BY <2>4, <2>5, <2>6
<1>8. CASE StartCaptures
  <2>1. Locking'
    BY <1>1, <1>2, <1>3, <1>8 DEF StartCaptures, Locking, InPipeline
  <2>2. Recording'
    BY <1>1, <1>8 DEF StartCaptures, Locking, Recording, InPipeline, Hearing, Busy
  <2>3. Recognition'
    BY <1>8, TasksKept DEF StartCaptures, Fresh
  <2>4. QED BY <2>1, <2>2, <2>3
<1>9. CASE StartSchedules
  <2>1. /\ starter = "recheck" /\ starter' = "notify" /\ state \in Busy /\ state' \in Busy
        /\ UNCHANGED <<pc, lock, session, generation, proc, audio, backing, heard, task, result,
                       running, cancelled, currentKey>>
    BY <1>9 DEF StartSchedules, Locking, Busy
  <2>2. Locking'
    BY <1>1, <1>2, <1>3, <2>1 DEF Locking, InPipeline, Busy
  <2>3. Recording'
    BY <1>1, <2>1 DEF Recording, InPipeline, Hearing, Busy
  <2>4. \E x : x.kind = "preload" /\ queue' \in {queue, queue \union {x}}
    <3> DEFINE x == [kind |-> "preload", key |-> session, owner |-> NoThread,
                     audio |-> NoSession]
    <3>1. x.kind = "preload"
      OBVIOUS
    <3> HIDE DEF x
    <3>2. queue' = queue \/ Enqueue(x)
      BY <1>9 DEF StartSchedules, x
    <3>3. QED BY <3>1, <3>2 DEF Enqueue
  <2>5. AsrTasks' = AsrTasks /\ \A x \in AsrTasks : x \in queue' => x \in queue
    BY <2>1, <2>4 DEF AsrTasks, InScheduler
  <2>6. Recognition'
    BY <2>1, <2>5 DEF Recognition, Awaiting, Fresh
  <2>7. QED BY <2>2, <2>3, <2>6
<1>10. CASE StartReturns
  <2>1. Locking'
    BY <1>1, <1>2, <1>3, <1>10 DEF StartReturns, Locking, InPipeline
  <2>2. Recording'
    BY <1>1, <1>10 DEF StartReturns, Recording, InPipeline, Hearing, Busy
  <2>3. Recognition'
    BY <1>10, TasksKept DEF StartReturns, Fresh
  <2>4. QED BY <2>1, <2>2, <2>3
<1>11. QED
  BY <1>4, <1>5, <1>6, <1>7, <1>8, <1>9, <1>10 DEF Start

\* The lock passes to the one pipeline of the session it seals.
LEMMA StopStrong ==
  ASSUME TypeOK, Strong,
         \/ \E t \in Stoppers : StopCalled(t) \/ Stopping(t)
         \/ LimitReached \/ AutoStops \/ \E t \in Enders : Seals(t)
  PROVE  Strong'
<1> USE DEF Strong
<1>1. Starter \notin Enders /\ Free \notin Enders /\ Starter # Free
  BY DaemonConstants DEF Enders
<1>2. UNCHANGED stopUnchanged
  BY DEF StopCalled, Stopping, StopLocks, StopGivesUp, LimitReached, AutoStops, Seals
<1>3. PICK t \in Enders :
        \/ /\ pc[t] \in {"off", "wait"} /\ UNCHANGED <<lock, state>>
           /\ \E where \in {"off", "wait"} : pc' = [pc EXCEPT ![t] = where]
        \/ /\ pc[t] = "wait" /\ lock = Free /\ state \in Busy
           /\ pc' = [pc EXCEPT ![t] = "seal"] /\ lock' = t /\ state' = state
        \/ Seals(t)
  BY DEF StopCalled, Stopping, StopLocks, StopGivesUp, LimitReached, AutoStops, Stoppable,
     Busy, Enders
<1>4. \A u \in Enders \ {t} : pc'[u] = pc[u]
  BY <1>3 DEF Seals, TypeOK
<1>5. CASE /\ pc[t] \in {"off", "wait"} /\ UNCHANGED <<lock, state>>
           /\ \E where \in {"off", "wait"} : pc' = [pc EXCEPT ![t] = where]
  <2>1. pc'[t] \in {"off", "wait"}
    BY <1>5 DEF TypeOK
  <2>2. Locking'
    BY <1>2, <1>4, <1>5, <2>1 DEF Locking, InPipeline
  <2>3. Recording'
    BY <1>2, <1>4, <1>5, <2>1 DEF Recording, InPipeline, Hearing
  <2>4. Recognition'
    BY <1>2, <1>4, <1>5, <2>1, TasksKept DEF Fresh
  <2>5. QED BY <2>2, <2>3, <2>4
<1>6. CASE /\ pc[t] = "wait" /\ lock = Free /\ state \in Busy
           /\ pc' = [pc EXCEPT ![t] = "seal"] /\ lock' = t /\ state' = state
  <2>1. pc'[t] = "seal"
    BY <1>6 DEF TypeOK
  <2>2. \A u \in Enders : ~InPipeline(u)
    BY <1>6 DEF Locking, Busy
  <2>3. Locking'
    BY <1>1, <1>2, <1>4, <1>6, <2>1, <2>2 DEF Locking, InPipeline
  <2>4. Recording'
    BY <1>2, <1>4, <1>6, <2>1 DEF Recording, InPipeline, Hearing
  <2>5. Recognition'
    BY <1>2, <1>4, <1>6, <2>1, TasksKept DEF Fresh
  <2>6. QED BY <2>3, <2>4, <2>5
<1>7. CASE Seals(t)
  <2>1. /\ pc[t] = "seal" /\ pc'[t] = "capture" /\ state' = "finalizing" /\ lock' = Free
        /\ lock = t /\ state \in Busy /\ starter = "off"
    BY <1>1, <1>7 DEF Seals, TypeOK, Locking
  <2>2. \A u \in Enders \ {t} : pc[u] \in {"off", "wait"}
    BY <1>1, <2>1 DEF Locking, InPipeline
  <2>3. Locking'
    BY <1>1, <1>2, <1>4, <2>1, <2>2 DEF Locking, InPipeline
  <2>4. Recording'
    BY <1>2, <1>4, <2>1, <2>2 DEF Recording, InPipeline, Hearing, Busy
  <2>5. Recognition'
    BY <1>2, <1>4, <2>1, TasksKept DEF Fresh
  <2>6. QED BY <2>3, <2>4, <2>5
<1>8. QED
  BY <1>3, <1>5, <1>6, <1>7

\* A task that has ended is no longer in the scheduler.
LEMMA TaskEnds ==
  ASSUME TypeOK, Recognition, NEW x \in InScheduler,
         InScheduler' \subseteq InScheduler,
         x.kind = "asr" => x \notin InScheduler',
         running' \in AsrTasks' => running' \notin queue',
         cancelled \ {x} \subseteq cancelled',
         \A t \in Enders : result'[t] # result[t] => task[t] = x,
         UNCHANGED <<state, pc, generation, task>>
  PROVE  Recognition'
<1>1. AsrTasks' = {y \in InScheduler' : y.kind = "asr"} /\ AsrTasks' \subseteq AsrTasks
  BY DEF AsrTasks
<1>2. x \notin AsrTasks'
  BY <1>1
<1>3. \A y \in AsrTasks' : y \in cancelled => y \in cancelled'
  BY <1>2
<1>4. Fresh' => Fresh
  BY DEF Fresh
<1>5. \A t \in Enders : pc'[t] \in {"asr", "fallback"} =>
        /\ pc[t] \in {"asr", "fallback"} /\ task'[t] = task[t]
        /\ result'[t] # "none" => result[t] # "none" \/ task[t] \notin AsrTasks'
  BY <1>2
<1>6. \A t \in Enders :
        Awaiting(t) /\ result[t] = "none" /\ task[t] \in AsrTasks' \ cancelled' =>
          pc'[t] \in {"asr", "fallback"} /\ task'[t] = task[t] /\ result'[t] = "none"
  BY <1>2 DEF Awaiting
<1>7. QED
  BY <1>1, <1>3, <1>4, <1>5, <1>6, RecognitionKept

\* The scheduler answers the pipeline that waits, and the readiness mark does
\* no harm unless it overwrites.
LEMMA SchedulerStrong ==
  ASSUME TypesAndBound, alive, Strong, SchedulerStep, ~overwritten'
  PROVE  Strong'
<1> USE DEF Strong
<1>1. UNCHANGED dispatcherUnchanged /\ TypeOK
  BY SchedulerTypes DEF TypesAndBound
<1>2. \/ state' = state
      \/ state = "preparing" /\ state' = "recording"
  BY DEF SchedulerStep, Dispatch, AsrEnds, CorrectionEnds, Preload, PreloadGuard,
     PreloadBegins, MarkChecks, MarkSetsRecording
<1>3. Locking'
  BY <1>1, <1>2 DEF dispatcherUnchanged, Locking, InPipeline, Busy
<1>4. Recording'
  BY <1>1, <1>2 DEF dispatcherUnchanged, Recording, InPipeline, Busy, Hearing
<1>5. Recognition'
  <2>1. ASSUME NEW x \in queue, Dispatch(x)
        PROVE  Recognition'
    <3>1. x \in InScheduler /\ running = NoTask /\ queue' = queue \ {x}
      BY <2>1 DEF Dispatch, InScheduler
    <3>2. CASE running' = running
      <4>1. InScheduler' \subseteq InScheduler /\ x \notin InScheduler'
        BY <3>1, <3>2 DEF InScheduler
      <4>2. running' \notin AsrTasks' \/ running' \notin queue'
        <5>1. running' = NoTask /\ NoTask \notin queue'
          BY <1>1, <3>1, <3>2, DaemonConstants DEF TypeOK
        <5>2. QED BY <5>1
      <4>3. /\ cancelled \ {x} \subseteq cancelled'
            /\ \A t \in Enders : result'[t] # result[t] => task[t] = x
            /\ UNCHANGED <<state, pc, generation, task>>
        BY <2>1 DEF Dispatch
      <4>4. QED BY <1>1, <3>1, <4>1, <4>2, <4>3, TaskEnds
    <3>3. CASE running' = x /\ UNCHANGED <<result, cancelled>>
      <4>1. InScheduler' \subseteq InScheduler /\ x \notin queue'
        BY <3>1, <3>3 DEF InScheduler
      <4>2. AsrTasks' \subseteq AsrTasks
        BY <4>1 DEF AsrTasks
      <4>3. UNCHANGED <<state, pc, generation, task>>
        BY <2>1 DEF Dispatch
      <4>4. QED
        BY <3>3, <4>1, <4>2, <4>3, RecognitionKept DEF Fresh, Awaiting
    <3>4. QED
      BY <2>1, <3>2, <3>3 DEF Dispatch
  <2>2. ASSUME NEW res \in {"text", "empty", "fail", "again"}, AsrEnds(res)
        PROVE  Recognition'
    <3>1. /\ running # NoTask /\ running.kind = "asr" /\ running' = NoTask /\ queue' = queue
          /\ UNCHANGED <<state, pc, generation, task>>
          /\ cancelled' = cancelled \ {running}
      BY <2>2 DEF AsrEnds, Finish
    <3>2. \A t \in Enders : result'[t] # result[t] => task[t] = running
      BY <2>2 DEF AsrEnds, Finish, TypesAndBound, TypeOK
    <3>3. running \in InScheduler /\ running \in AsrTasks
      BY <3>1 DEF InScheduler, AsrTasks
    <3>4. InScheduler' = queue /\ running \notin queue
      BY <3>1, <3>3 DEF InScheduler, Recognition
    <3>5. running' \in AsrTasks' => running' \notin queue'
      BY <1>1, <3>1, DaemonConstants DEF TypeOK
    <3>6. InScheduler' \subseteq InScheduler
      BY <3>4 DEF InScheduler
    <3>7. QED BY <1>1, <3>1, <3>2, <3>3, <3>4, <3>5, <3>6, TaskEnds
  <2>3. CASE CorrectionEnds
    <3>1. /\ running # NoTask /\ running.kind = "correction" /\ running' = NoTask
          /\ queue' = queue /\ UNCHANGED <<state, pc, generation, task>>
          /\ cancelled' = cancelled \ {running}
      BY <2>3 DEF CorrectionEnds, Finish
    <3>2. \A t \in Enders : result'[t] # result[t] => task[t] = running
      BY <2>3 DEF CorrectionEnds, Finish, TypesAndBound, TypeOK
    <3>3. running \in InScheduler /\ running.kind # "asr"
      BY <3>1 DEF InScheduler
    <3>4. InScheduler' = queue /\ InScheduler' \subseteq InScheduler
      BY <3>1 DEF InScheduler
    <3>5. running' \in AsrTasks' => running' \notin queue'
      BY <1>1, <3>1, DaemonConstants DEF TypeOK
    <3>6. QED BY <1>1, <3>1, <3>2, <3>3, <3>4, <3>5, TaskEnds
  <2>4. CASE Preload
    <3>1. /\ running # NoTask /\ running.kind = "preload" /\ queue' = queue
          /\ UNCHANGED <<pc, generation, task, result>>
          /\ \/ running' = running /\ cancelled' = cancelled
             \/ running' = NoTask /\ cancelled' = cancelled \ {running}
      BY <2>4 DEF Preload, PreloadGuard, PreloadBegins, MarkChecks, MarkSetsRecording,
         PreloadEnds, Preloading
    <3>2. InScheduler' \subseteq InScheduler /\ AsrTasks' \subseteq AsrTasks
      BY <3>1 DEF InScheduler, AsrTasks
    <3>3. running \notin AsrTasks
      BY <3>1 DEF AsrTasks
    <3>4. running' \in AsrTasks' => running' \notin queue'
      <4>1. CASE running' = running
        BY <3>2, <3>3, <4>1
      <4>2. CASE running' = NoTask
        BY <1>1, <3>1, <4>2, DaemonConstants DEF TypeOK
      <4>3. QED BY <3>1, <4>1, <4>2
    <3>5. \A x \in AsrTasks' : x \in cancelled => x \in cancelled'
      BY <3>1, <3>2, <3>3
    <3>6. Fresh' => Fresh
      BY <1>2, <3>1 DEF Fresh, Busy
    <3>7. QED
      BY <3>1, <3>2, <3>4, <3>5, <3>6, RecognitionKept DEF Awaiting
  <2>5. QED BY <2>1, <2>2, <2>3, <2>4 DEF SchedulerStep
<1>6. QED BY <1>3, <1>4, <1>5

-----------------------------------------------------------------------------
(* The pipeline. *)

\* A step of the one pipeline that stays in it.
LEMMA InPipelineStep ==
  ASSUME TypeOK, Locking, NEW t \in Enders, InPipeline(t),
         NEW where \in {"finalize", "submit", "asr", "fallback", "lease", "correction",
                        "deliver", "cleanup", "reset"},
         pc' = [pc EXCEPT ![t] = where],
         state' \in {state, "correcting", "committing"}, UNCHANGED <<lock, starter>>
  PROVE  /\ Locking'
         /\ pc'[t] = where
         /\ \A u \in Enders \ {t} : pc[u] \in {"off", "wait"} /\ pc'[u] = pc[u]
         /\ state \notin Busy \union {"idle"} /\ state' \notin Busy \union {"idle"}
<1>1. pc'[t] = where /\ \A u \in Enders \ {t} : pc'[u] = pc[u]
  BY DEF TypeOK
<1>2. Free \notin Enders
  BY DaemonConstants DEF Enders
<1>3. lock = Free /\ state \in {"finalizing", "correcting", "committing"}
  BY DEF Locking
<1>4. \A u \in Enders \ {t} : pc[u] \in {"off", "wait"}
  BY <1>2, <1>3 DEF Locking, InPipeline
<1>5. state \notin Busy \union {"idle"} /\ state' \notin Busy \union {"idle"}
  BY <1>3 DEF Busy
<1>6. starter = "off"
  BY <1>3, DaemonConstants DEF Locking, Enders
<1>7. Locking'
  BY <1>1, <1>2, <1>3, <1>4, <1>6 DEF Locking, InPipeline
<1>8. QED BY <1>1, <1>4, <1>5, <1>7

\* A task that its pipeline submits is new, or back for a second attempt.
LEMMA SubmitStrong ==
  ASSUME TypeOK, Strong, NEW t \in Enders, pc[t] \in {"submit", "asr"},
         NEW where \in {"asr", "fallback"}, pc' = [pc EXCEPT ![t] = where],
         NEW x, x = [kind |-> "asr", key |-> generation, owner |-> t, audio |-> generation],
         x \notin AsrTasks, SubmitAndWait(t, x), UNCHANGED <<state, lock, starter>>,
         UNCHANGED <<running, cancelled, generation, session, proc, audio, backing, heard>>
  PROVE  Strong'
<1> USE DEF Strong
<1>1. InPipeline(t)
  BY DEF InPipeline
<1>2. /\ Locking' /\ pc'[t] = where
      /\ \A u \in Enders \ {t} : pc[u] \in {"off", "wait"} /\ pc'[u] = pc[u]
      /\ state \notin Busy \union {"idle"} /\ state' \notin Busy \union {"idle"}
  BY <1>1, InPipelineStep
<1>3. Recording'
  BY <1>2 DEF Recording, InPipeline, Hearing
<1>4. Recognition'
  <2>1. /\ task'[t] = x /\ result'[t] = IF x.key = currentKey THEN "none" ELSE "fail"
        /\ queue' = IF x.key = currentKey THEN queue \union {x} ELSE queue
    BY DEF SubmitAndWait, Enqueue, TypeOK
  <2>2. x.kind = "asr" /\ x.key = generation /\ x \notin InScheduler
    BY DEF AsrTasks
  <2>3. generation \in Nat
    BY DEF TypeOK
  <2>4. \A u \in Enders : pc[u] \in {"asr", "fallback"} => u = t
    BY <1>2
  <2>5. ~Fresh'
    BY <1>2 DEF Fresh
  <2>6. AsrTasks \ cancelled = {}
    <3>1. SUFFICES ASSUME NEW y \in AsrTasks \ cancelled PROVE FALSE
      OBVIOUS
    <3>2. PICK u \in Enders : Awaiting(u) /\ task[u] = y
      BY DEF Recognition
    <3>3. u = t /\ pc[t] = "asr"
      BY <2>4, <3>2 DEF Awaiting
    <3>4. task[t] = x
      BY <3>3 DEF Recognition
    <3>5. QED BY <3>2, <3>3, <3>4
  <2>7. CASE x.key = currentKey
    <3>1. AsrTasks' = AsrTasks \union {x}
      BY <2>1, <2>2, <2>7 DEF AsrTasks, InScheduler
    <3>2. running' \in AsrTasks' => running' \notin queue'
      <4>1. running # x \/ x \notin AsrTasks'
        <5>1. running = x => x \in {running} \ {NoTask} \/ x = NoTask
          OBVIOUS
        <5>2. x # NoTask
          <6>1. x \in Task
            <7>1. generation \in Generation
              BY <1>1 DEF Recording
            <7>2. QED BY <7>1, TaskType DEF TaskKind
          <6>2. QED BY <6>1, DaemonConstants
        <5>3. QED BY <2>2, <5>1, <5>2 DEF InScheduler
      <4>2. QED BY <2>1, <2>7, <3>1, <4>1 DEF Recognition
    <3>3. \A y \in AsrTasks' : y.key <= generation
      BY <2>2, <2>3, <3>1 DEF Recognition
    <3>4. AsrTasks' \ cancelled' \subseteq {x}
      BY <2>6, <3>1
    <3>5. Awaiting(t)' /\ task'[t] = x /\ result'[t] = "none"
      BY <1>2, <2>1, <2>7 DEF Awaiting
    <3>6. \A u \in Enders : pc'[u] \in {"asr", "fallback"} => u = t
      BY <1>2
    <3>7. QED
      BY <2>5, <3>2, <3>3, <3>4, <3>5, <3>6 DEF Recognition
  <2>8. CASE x.key # currentKey
    <3>1. AsrTasks' = AsrTasks /\ queue' = queue
      BY <2>1, <2>8 DEF AsrTasks, InScheduler
    <3>2. \A u \in Enders : pc'[u] \in {"asr", "fallback"} => u = t
      BY <1>2
    <3>3. QED
      BY <2>1, <2>5, <2>6, <3>1, <3>2 DEF Recognition
  <2>9. QED BY <2>7, <2>8
<1>5. QED BY <1>2, <1>3, <1>4

\* The pipeline leaves recognition, or is not in it yet: no task is waited for any more.
LEMMA LeavingKeeps ==
  ASSUME TypeOK, Strong, NEW t \in Enders, InPipeline(t), NEW where, pc'[t] = where,
         where \notin {"asr", "fallback"},
         where \in {"capture", "finalize", "submit"} =>
           pc[t] \in {"capture", "finalize", "submit"},
         \A u \in Enders \ {t} : pc[u] \in {"off", "wait"} /\ pc'[u] = pc[u],
         state' \notin Busy, UNCHANGED <<running, generation>>,
         \E x : queue' \in {queue, queue \union {x}} /\ x.kind # "asr",
         cancelled \subseteq cancelled',
         Awaiting(t) /\ result[t] = "none" => task[t] \in cancelled' \/ task[t] \notin AsrTasks
  PROVE  Recognition'
<1> USE DEF Strong
<1>1. AsrTasks' = AsrTasks
  BY DEF AsrTasks, InScheduler
<1>2. running' \in AsrTasks' => running' \notin queue'
  <2>1. SUFFICES ASSUME running \in AsrTasks PROVE running \notin queue'
    BY <1>1
  <2>2. running.kind = "asr" /\ running \notin queue
    BY <2>1 DEF Recognition, AsrTasks
  <2>3. QED BY <2>2
<1>3. AsrTasks' \ cancelled' = {}
  <2>1. SUFFICES ASSUME NEW y \in AsrTasks' \ cancelled' PROVE FALSE
    OBVIOUS
  <2>2. y \in AsrTasks \ cancelled
    BY <1>1
  <2>3. PICK u \in Enders : Awaiting(u) /\ task[u] = y /\ result[u] = "none"
    BY <2>2 DEF Recognition
  <2>4. u = t
    BY <2>3 DEF Awaiting
  <2>5. QED BY <2>1, <2>2, <2>3, <2>4
<1>4. \A u \in Enders : pc'[u] \notin {"asr", "fallback"}
  OBVIOUS
<1>5. Fresh' => Fresh
  BY DEF Fresh
<1>6. QED
  BY <1>1, <1>2, <1>3, <1>4, <1>5 DEF Recognition

\* The pipeline works on its own session until it resets the state.
LEMMA PipelineStrong ==
  ASSUME TypeOK, Strong, NEW t \in Enders, Pipeline(t)
  PROVE  /\ Strong'
         /\ ~overwritten /\ TextStaysInItsSession => TextStaysInItsSession'
         /\ ~overwritten /\ NoSilentLoss => NoSilentLoss'
<1> USE DEF Strong
<1>1. InPipeline(t)
  BY DEF Pipeline, PipelineStopsCapture, PipelineFinalizes, PipelineSubmitsAsr,
     PipelineFallsBack, PipelineGotText, PipelineGotNoText, AsrTimesOut,
     PipelineSubmitsCorrection, PipelineCorrected, CorrectionTimesOut, PipelineDelivers,
     PipelineCleansRecorder, PipelineResets, InPipeline, Awaiting
<1>2. /\ session = generation /\ generation \in Generation /\ session # NoSession
      /\ lock = Free /\ starter = "off" /\ state \notin Busy \union {"idle"}
  <2>1. session = generation /\ generation \in Generation
    BY <1>1 DEF Recording
  <2>2. lock = Free /\ state \notin Busy \union {"idle"}
    BY <1>1 DEF Locking, Busy
  <2>3. QED BY <2>1, <2>2, Generations, DaemonConstants DEF Locking, Enders
<1>3. UNCHANGED <<setup, alive, lock, generation, starter, phase, running, preload,
                  currentKey, overwritten>>
  BY DEF Pipeline, PipelineStopsCapture, PipelineFinalizes, PipelineSubmitsAsr,
     PipelineFallsBack, PipelineGotText, PipelineGotNoText, AsrTimesOut,
     PipelineSubmitsCorrection, PipelineCorrected, CorrectionTimesOut, PipelineDelivers,
     PipelineCleansRecorder, PipelineResets
<1>4. CASE UNCHANGED <<delivered, lost>> /\ ~PipelineDelivers(t)
  <2>1. /\ ~overwritten /\ TextStaysInItsSession => TextStaysInItsSession'
        /\ ~overwritten /\ NoSilentLoss => NoSilentLoss'
    BY <1>3, <1>4 DEF TextStaysInItsSession, NoSilentLoss
  <2>2. \E x : x.kind # "asr"
    <3>1. [kind |-> "preload"].kind # "asr"
      OBVIOUS
    <3>2. QED BY <3>1
  <2>3. CASE PipelineStopsCapture(t)
    <3>1. PICK where \in {"finalize", "cleanup"} : pc' = [pc EXCEPT ![t] = where]
      BY <2>3 DEF PipelineStopsCapture
    <3>2. /\ pc[t] = "capture" /\ cancelled \subseteq cancelled'
          /\ UNCHANGED <<state, session, proc, audio, backing, queue, heard>>
      BY <2>3 DEF PipelineStopsCapture, CancelTask
    <3>3. /\ Locking' /\ pc'[t] = where
          /\ \A u \in Enders \ {t} : pc[u] \in {"off", "wait"} /\ pc'[u] = pc[u]
          /\ state' \notin Busy \union {"idle"}
      BY <1>1, <1>3, <3>1, <3>2, InPipelineStep
    <3>4. Recording'
      BY <1>3, <3>2, <3>3 DEF Recording, InPipeline, Hearing
    <3>5. Recognition'
      BY <1>1, <1>3, <2>2, <3>2, <3>3, LeavingKeeps DEF Awaiting
    <3>6. QED BY <2>1, <3>3, <3>4, <3>5
  <2>4. CASE PipelineFinalizes(t)
    <3>1. PICK where \in {"submit", "cleanup"} : pc' = [pc EXCEPT ![t] = where]
      BY <2>4 DEF PipelineFinalizes
    <3>2. /\ pc[t] = "finalize" /\ UNCHANGED <<state, session, audio, queue, cancelled>>
      BY <2>4 DEF PipelineFinalizes
    <3>3. /\ Locking' /\ pc'[t] = where
          /\ \A u \in Enders \ {t} : pc[u] \in {"off", "wait"} /\ pc'[u] = pc[u]
          /\ state' \notin Busy \union {"idle"}
      BY <1>1, <1>3, <3>1, <3>2, InPipelineStep
    <3>4. pc'[t] = "submit" => heard'[t] = generation /\ generation \in backing'
      BY <2>4, <3>1, <3>2, <3>3 DEF PipelineFinalizes, TypeOK, Recording
    <3>5. Recording'
      BY <1>3, <3>1, <3>2, <3>3, <3>4 DEF Recording, InPipeline, Hearing
    <3>6. Recognition'
      BY <1>1, <1>3, <2>2, <3>2, <3>3, LeavingKeeps DEF Awaiting
    <3>7. QED BY <2>1, <3>3, <3>5, <3>6
  <2>5. CASE PipelineSubmitsAsr(t)
    <3> DEFINE x == [kind |-> "asr", key |-> session, owner |-> t, audio |-> heard[t]]
    <3>1. /\ pc[t] = "submit" /\ SubmitAndWait(t, x) /\ pc' = [pc EXCEPT ![t] = "asr"]
          /\ UNCHANGED <<state, session, proc, audio, backing, cancelled, heard>>
      BY <1>2, <2>5 DEF PipelineSubmitsAsr
    <3>2. x = [kind |-> "asr", key |-> generation, owner |-> t, audio |-> generation]
      BY <1>2, <3>1 DEF Recording, Hearing
    <3>3. x \notin AsrTasks
      BY <3>1, <3>2 DEF Recognition, Fresh
    <3> HIDE DEF x
    <3>4. QED BY <1>3, <2>1, <3>1, <3>2, <3>3, SubmitStrong
  <2>6. CASE PipelineFallsBack(t)
    <3>1. /\ pc[t] = "asr" /\ result[t] = "again" /\ SubmitAndWait(t, task[t])
          /\ pc' = [pc EXCEPT ![t] = "fallback"]
          /\ UNCHANGED <<state, session, proc, audio, backing, cancelled, heard>>
      BY <2>6 DEF PipelineFallsBack
    <3>2. /\ task[t] = [kind |-> "asr", key |-> generation, owner |-> t, audio |-> generation]
          /\ task[t] \notin AsrTasks
      BY <3>1 DEF Recognition
    <3>3. QED BY <1>3, <2>1, <3>1, <3>2, SubmitStrong
  <2>7. CASE PipelineGotText(t) \/ PipelineGotNoText(t) \/ AsrTimesOut(t)
    <3>1. PICK where \in {"lease", "deliver", "cleanup"} : pc' = [pc EXCEPT ![t] = where]
      BY <2>7 DEF PipelineGotText, PipelineGotNoText, AsrTimesOut
    <3>2. /\ pc[t] \in {"asr", "fallback"} /\ cancelled \subseteq cancelled'
          /\ state' \in {state, "correcting", "committing"}
          /\ UNCHANGED <<session, proc, audio, backing, queue, heard>>
      BY <2>7 DEF PipelineGotText, PipelineGotNoText, AsrTimesOut, CancelTask, Awaiting
    <3>3. /\ Locking' /\ pc'[t] = where
          /\ \A u \in Enders \ {t} : pc[u] \in {"off", "wait"} /\ pc'[u] = pc[u]
          /\ state' \notin Busy \union {"idle"}
      BY <1>1, <1>3, <3>1, <3>2, InPipelineStep
    <3>4. Recording'
      BY <1>3, <3>1, <3>2, <3>3 DEF Recording, InPipeline, Hearing
    <3>5. result[t] = "none" => task[t] \in cancelled' \/ task[t] \notin AsrTasks
      BY <2>7 DEF PipelineGotText, PipelineGotNoText, AsrTimesOut, CancelTask, AsrTasks
    <3>6. Recognition'
      BY <1>1, <1>3, <2>2, <3>1, <3>2, <3>3, <3>5, LeavingKeeps
    <3>7. QED BY <2>1, <3>3, <3>4, <3>6
  <2>8. CASE PipelineSubmitsCorrection(t) \/ PipelineCorrected(t) \/ CorrectionTimesOut(t)
    <3>1. PICK where \in {"correction", "deliver"} : pc' = [pc EXCEPT ![t] = where]
      BY <2>8 DEF PipelineSubmitsCorrection, PipelineCorrected, CorrectionTimesOut
    <3>2. /\ pc[t] \in {"lease", "correction"} /\ cancelled \subseteq cancelled'
          /\ state' \in {state, "correcting", "committing"}
          /\ UNCHANGED <<session, proc, audio, backing, heard>>
      BY <2>8
      DEF PipelineSubmitsCorrection, PipelineCorrected, CorrectionTimesOut, CancelTask
    <3>3. /\ Locking' /\ pc'[t] = where
          /\ \A u \in Enders \ {t} : pc[u] \in {"off", "wait"} /\ pc'[u] = pc[u]
          /\ state' \notin Busy \union {"idle"}
      BY <1>1, <1>3, <3>1, <3>2, InPipelineStep
    <3>4. Recording'
      BY <1>3, <3>1, <3>2, <3>3 DEF Recording, InPipeline, Hearing
    <3>5. \E x : queue' \in {queue, queue \union {x}} /\ x.kind # "asr"
      <4> DEFINE x == [kind |-> "correction", key |-> session, owner |-> t,
                       audio |-> NoSession]
      <4>1. x.kind # "asr"
        OBVIOUS
      <4> HIDE DEF x
      <4>2. queue' = queue \/ Enqueue(x)
        BY <2>8 DEF PipelineSubmitsCorrection, PipelineCorrected, CorrectionTimesOut,
           SubmitAndWait, x
      <4>3. QED BY <4>1, <4>2 DEF Enqueue
    <3>6. Recognition'
      BY <1>1, <1>3, <3>1, <3>2, <3>3, <3>5, LeavingKeeps DEF Awaiting
    <3>7. QED BY <2>1, <3>3, <3>4, <3>6
  <2>9. CASE PipelineCleansRecorder(t)
    <3>1. /\ pc[t] = "cleanup" /\ pc' = [pc EXCEPT ![t] = "reset"] /\ proc' = NoSession
          /\ backing' = {} /\ UNCHANGED <<state, session, audio, queue, cancelled, heard>>
      BY <2>9 DEF PipelineCleansRecorder
    <3>2. /\ Locking' /\ pc'[t] = "reset"
          /\ \A u \in Enders \ {t} : pc[u] \in {"off", "wait"} /\ pc'[u] = pc[u]
          /\ state' \notin Busy \union {"idle"}
      BY <1>1, <1>3, <3>1, InPipelineStep
    <3>3. Recording'
      BY <1>3, <3>1, <3>2 DEF Recording, InPipeline, Hearing
    <3>4. Recognition'
      BY <1>1, <1>3, <2>2, <3>1, <3>2, LeavingKeeps DEF Awaiting
    <3>5. QED BY <2>1, <3>2, <3>3, <3>4
  <2>10. CASE PipelineResets(t)
    <3>1. /\ pc[t] = "reset" /\ pc'[t] = "off" /\ state' = "idle" /\ session' = NoSession
          /\ UNCHANGED <<proc, audio, backing, queue, cancelled, task>>
      BY <2>10 DEF PipelineResets, TypeOK
    <3>2. \A u \in Enders \ {t} : pc[u] \in {"off", "wait"} /\ pc'[u] = pc[u]
      <4>1. \A u \in Enders \ {t} : pc'[u] = pc[u]
        BY <2>10 DEF PipelineResets, TypeOK
      <4>2. \A u \in Enders \ {t} : pc[u] # "seal" /\ ~InPipeline(u)
        BY <1>1, <1>2, DaemonConstants DEF Locking, Enders
      <4>3. QED BY <4>1, <4>2 DEF InPipeline
    <3>3. Locking'
      BY <1>2, <1>3, <3>1, <3>2, DaemonConstants DEF Locking, InPipeline, Enders
    <3>4. Recording'
      BY <1>3, <3>1, <3>2 DEF Recording, InPipeline, Hearing, Busy
    <3>5. Recognition'
      BY <1>1, <1>3, <2>2, <3>1, <3>2, LeavingKeeps DEF Awaiting, Busy
    <3>6. QED BY <2>1, <3>3, <3>4, <3>5
  <2>11. QED
    BY <1>4, <2>3, <2>4, <2>5, <2>6, <2>7, <2>8, <2>9, <2>10 DEF Pipeline
<1>5. CASE PipelineDelivers(t)
  <2>1. /\ pc[t] = "deliver" /\ pc' = [pc EXCEPT ![t] = "cleanup"]
        /\ delivered' = delivered \union {<<heard[t], session>>} /\ lost' = lost
        /\ UNCHANGED <<state, session, proc, audio, backing, queue, cancelled, heard>>
    BY <1>2, <1>5 DEF PipelineDelivers
  <2>2. /\ Locking' /\ pc'[t] = "cleanup"
        /\ \A u \in Enders \ {t} : pc[u] \in {"off", "wait"} /\ pc'[u] = pc[u]
        /\ state' \notin Busy \union {"idle"}
    BY <1>1, <1>3, <2>1, InPipelineStep
  <2>3. Recording'
    BY <1>3, <2>1, <2>2 DEF Recording, InPipeline, Hearing
  <2>4. \E x : x.kind # "asr"
    <3>1. [kind |-> "preload"].kind # "asr"
      OBVIOUS
    <3>2. QED BY <3>1
  <2>5. Recognition'
    BY <1>1, <1>3, <2>1, <2>2, <2>4, LeavingKeeps DEF Awaiting
  <2>6. heard[t] = session
    BY <1>2, <2>1 DEF Recording, Hearing
  <2>7. ~overwritten /\ TextStaysInItsSession => TextStaysInItsSession'
    BY <1>3, <2>1, <2>6 DEF TextStaysInItsSession
  <2>8. ~overwritten /\ NoSilentLoss => NoSilentLoss'
    BY <1>3, <2>1 DEF NoSilentLoss
  <2>9. QED BY <2>2, <2>3, <2>5, <2>7, <2>8
<1>6. ~PipelineDelivers(t) => UNCHANGED <<delivered, lost>>
  BY DEF Pipeline, PipelineStopsCapture, PipelineFinalizes, PipelineSubmitsAsr,
     PipelineFallsBack, PipelineGotText, PipelineGotNoText, AsrTimesOut,
     PipelineSubmitsCorrection, PipelineCorrected, CorrectionTimesOut,
     PipelineCleansRecorder, PipelineResets
<1>7. QED
  BY <1>4, <1>5, <1>6

-----------------------------------------------------------------------------
(* The invariant, for every step. *)

\* Start, a stop on its way and the dispatcher deliver nothing and lose nothing,
\* and what was overwritten stays so.
LEMMA HistoriesKept ==
  ASSUME \/ Start \/ SchedulerStep \/ LimitReached \/ AutoStops
         \/ \E t \in Stoppers : StopCalled(t) \/ Stopping(t)
         \/ \E t \in Enders : Seals(t)
  PROVE  UNCHANGED <<alive, delivered, lost>> /\ (overwritten => overwritten')
<1>1. CASE Start
  BY <1>1 DEF Start, StartLocks, StartWithoutFocus, StartAborts, StartOpensSession,
     StartCaptures, StartSchedules, StartReturns
<1>2. CASE SchedulerStep
  <2>1. ASSUME NEW x \in queue, Dispatch(x)
        PROVE  UNCHANGED <<alive, delivered, lost, overwritten>>
    BY <2>1 DEF Dispatch
  <2>2. ASSUME NEW res, AsrEnds(res)
        PROVE  UNCHANGED <<alive, delivered, lost, overwritten>>
    BY <2>2 DEF AsrEnds
  <2>3. CASE CorrectionEnds
    BY <2>3 DEF CorrectionEnds
  <2>4. CASE Preload
    <3>1. UNCHANGED <<alive, delivered, lost>>
      BY <2>4 DEF Preload, PreloadGuard, PreloadBegins, MarkChecks, MarkSetsRecording
    <3>2. overwritten' = overwritten \/ MarkSetsRecording
      BY <2>4 DEF Preload, PreloadGuard, PreloadBegins, MarkChecks
    <3>3. MarkSetsRecording /\ overwritten => overwritten'
      <4>1. MarkSetsRecording =>
              overwritten' = (overwritten \/ (state # "preparing" \/ session # running.key))
        BY Zenon DEF MarkSetsRecording
      <4>2. QED BY <4>1, Zenon
    <3>4. QED BY <3>1, <3>2, <3>3
  <2>5. QED BY <1>2, <2>1, <2>2, <2>3, <2>4 DEF SchedulerStep
<1>3. CASE \/ \E t \in Stoppers : StopCalled(t) \/ Stopping(t)
           \/ LimitReached \/ AutoStops \/ \E t \in Enders : Seals(t)
  BY <1>3 DEF StopCalled, Stopping, StopLocks, StopGivesUp, LimitReached, AutoStops, Seals
<1>4. QED BY <1>1, <1>2, <1>3

\* The process is gone, and everything it held with it.
LEMMA ShutdownStep ==
  ASSUME IInv, alive, Shutdown
  PROVE  IInv'
<1>1. TypeOK'
  <2>1. pc' \in [Enders -> {"off", "wait", "seal", "capture", "finalize", "submit", "asr",
                            "fallback", "lease", "correction", "deliver", "cleanup", "reset"}]
    BY DEF Shutdown, Threads
  <2>2. /\ heard' \in [Enders -> Generation \union {NoSession}]
        /\ task' \in [Enders -> Task \union {NoTask}]
        /\ result' \in [Enders -> {"none", "text", "empty", "fail", "again"}]
    BY DEF Shutdown, Nothing, NoTasks, NoResults
  <2>3. generation' \in 0 .. MaxSessions
    BY DaemonConstants DEF Shutdown
  <2>4. QED BY <2>1, <2>2, <2>3 DEF Shutdown, IInv, TypeOK, State
<1>2. ~alive' /\ Ended'
  BY DEF Shutdown, Ended
<1>3. TextStaysInItsSession' /\ NoSilentLoss'
  BY DEF Shutdown, IInv, TextStaysInItsSession, NoSilentLoss
<1>4. QED BY <1>1, <1>2, <1>3 DEF IInv

\* The invariant holds when the daemon is up.
LEMMA InitIInv == Init => IInv
<1> SUFFICES ASSUME Init PROVE IInv
  OBVIOUS
<1>1. TypeOK
  <2>1. pc \in [Enders -> {"off", "wait", "seal", "capture", "finalize", "submit", "asr",
                           "fallback", "lease", "correction", "deliver", "cleanup", "reset"}]
    BY DEF Init, Threads
  <2>2. /\ heard \in [Enders -> Generation \union {NoSession}]
        /\ task \in [Enders -> Task \union {NoTask}]
        /\ result \in [Enders -> {"none", "text", "empty", "fail", "again"}]
    BY DEF Init, Nothing, NoTasks, NoResults
  <2>3. generation \in 0 .. MaxSessions
    BY DaemonConstants DEF Init
  <2>4. QED BY <2>1, <2>2, <2>3 DEF Init, TypeOK, State
<1>2. Bound
  BY DEF Init, Bound, Threads, Hearing
<1>3. \A t \in Enders : pc[t] = "off"
  BY DEF Init, Threads
<1>4. Locking
  BY <1>3, DaemonConstants DEF Init, Locking, InPipeline, Enders
<1>5. Recording
  BY <1>3 DEF Init, Recording, InPipeline, Busy, Hearing
<1>6. Recognition
  <2>1. AsrTasks = {}
    BY DEF Init, AsrTasks, InScheduler
  <2>2. QED BY <1>3, <2>1 DEF Recognition
<1>7. TextStaysInItsSession /\ NoSilentLoss
  BY DEF Init, TextStaysInItsSession, NoSilentLoss
<1>8. QED BY <1>1, <1>2, <1>4, <1>5, <1>6, <1>7 DEF IInv, Strong, Init

\* Every step keeps the invariant.
LEMMA StepIInv == IInv /\ [Next]_vars => IInv'
<1> SUFFICES ASSUME IInv, [Next]_vars PROVE IInv'
  OBVIOUS
<1>1. TypeOK /\ (alive => TypesAndBound)
  BY DEF IInv, TypesAndBound
<1>2. CASE UNCHANGED vars
  <2>1. /\ TypeOK' = TypeOK /\ Bound' = Bound /\ Ended' = Ended
        /\ TextStaysInItsSession' = TextStaysInItsSession /\ NoSilentLoss' = NoSilentLoss
    BY <1>2 DEF vars, TypeOK, Bound, Ended, TextStaysInItsSession, NoSilentLoss
  <2>2. Locking' = Locking /\ Recording' = Recording
    BY <1>2 DEF vars, Locking, Recording, InPipeline
  <2>3. Recognition' = Recognition
    BY <1>2 DEF vars, Recognition, AsrTasks, InScheduler, Awaiting, Fresh
  <2>4. alive' = alive /\ overwritten' = overwritten
    BY <1>2 DEF vars
  <2>5. QED BY <2>1, <2>2, <2>3, <2>4 DEF IInv, Strong
<1>3. CASE alive /\ Start
  <2>1. TypesAndBound'
    BY <1>1, <1>3, StartTypes
  <2>2. UNCHANGED <<alive, delivered, lost>> /\ (overwritten => overwritten')
    BY <1>3, HistoriesKept
  <2>3. ~overwritten' => Strong'
    BY <1>1, <1>3, <2>2, StartStrong DEF IInv
  <2>4. QED
    BY <1>3, <2>1, <2>2, <2>3 DEF IInv, TypesAndBound, TextStaysInItsSession, NoSilentLoss
<1>4. CASE alive /\ SchedulerStep
  <2>1. TypesAndBound'
    BY <1>1, <1>4, SchedulerTypes
  <2>2. UNCHANGED <<alive, delivered, lost>> /\ (overwritten => overwritten')
    BY <1>4, HistoriesKept
  <2>3. ~overwritten' => Strong'
    BY <1>1, <1>4, <2>2, SchedulerStrong DEF IInv
  <2>4. QED
    BY <1>4, <2>1, <2>2, <2>3 DEF IInv, TypesAndBound, TextStaysInItsSession, NoSilentLoss
<1>5. CASE /\ alive
           /\ \/ \E t \in Stoppers : StopCalled(t) \/ Stopping(t)
              \/ LimitReached \/ AutoStops \/ \E t \in Enders : Seals(t)
  <2>1. TypesAndBound'
    BY <1>1, <1>5, StopTypes
  <2>2. UNCHANGED <<alive, delivered, lost>> /\ (overwritten => overwritten')
    BY <1>5, HistoriesKept
  <2>3. ~overwritten' => Strong'
    BY <1>1, <1>5, <2>2, StopStrong DEF IInv
  <2>4. QED
    BY <1>5, <2>1, <2>2, <2>3 DEF IInv, TypesAndBound, TextStaysInItsSession, NoSilentLoss
<1>6. ASSUME alive, NEW t \in Enders, Pipeline(t)
      PROVE  IInv'
  <2>1. TypesAndBound'
    BY <1>1, <1>6, PipelineTypes
  <2>2. UNCHANGED <<alive, overwritten>>
    BY <1>6 DEF Pipeline, PipelineStopsCapture, PipelineFinalizes, PipelineSubmitsAsr,
       PipelineFallsBack, PipelineGotText, PipelineGotNoText, AsrTimesOut,
       PipelineSubmitsCorrection, PipelineCorrected, CorrectionTimesOut, PipelineDelivers,
       PipelineCleansRecorder, PipelineResets
  <2>3. ~overwritten => Strong' /\ TextStaysInItsSession' /\ NoSilentLoss'
    BY <1>1, <1>6, PipelineStrong DEF IInv
  <2>4. overwritten' => TextStaysInItsSession' /\ NoSilentLoss'
    BY DEF TextStaysInItsSession, NoSilentLoss
  <2>5. QED BY <1>6, <2>1, <2>2, <2>3, <2>4 DEF IInv, TypesAndBound
<1>7. CASE alive /\ Shutdown
  BY <1>7, ShutdownStep
<1>8. QED
  BY <1>2, <1>3, <1>4, <1>5, <1>6, <1>7 DEF Next, Gone, Step, Ending

\* The invariant holds throughout.
LEMMA AlwaysIInv == Spec => []IInv
  BY InitIInv, StepIInv, PTL DEF Spec

-----------------------------------------------------------------------------
(* The theorems. *)

\* Every variable of the daemon keeps its type, whatever the threads do.
THEOREM TypeCorrect == Spec => []TypeOK
<1>1. IInv => TypeOK
  BY DEF IInv
<1>2. QED BY <1>1, AlwaysIInv, PTL

\* One pipeline at a time, and no start during it: the states FINALIZING, CORRECTING
\* and COMMITTING keep everyone else out although the state lock is free.
THEOREM OnePipelineHolds == Spec => []OnePipeline
<1>1. IInv => OnePipeline
  <2> SUFFICES ASSUME IInv, ~overwritten, NEW t \in Enders, InPipeline(t)
               PROVE  starter = "off" /\ \A u \in Enders \ {t} : ~InPipeline(u)
    BY DEF OnePipeline
  <2>1. CASE alive
    <3>1. Locking
      BY <2>1 DEF IInv, Strong
    <3>2. lock = Free
      BY <3>1 DEF Locking
    <3>3. QED BY <3>1, <3>2, DaemonConstants DEF Locking
  <2>2. CASE ~alive
    BY <2>2 DEF IInv, Ended, Threads, InPipeline
  <2>3. QED BY <2>1, <2>2
<1>2. QED BY <1>1, AlwaysIInv, PTL

\* Text is committed under the session that recorded it.
THEOREM TextKeepsItsSession == Spec => []TextStaysInItsSession
<1>1. IInv => TextStaysInItsSession
  BY DEF IInv
<1>2. QED BY <1>1, AlwaysIInv, PTL

\* No recognised text is dropped without a word.
THEOREM NothingIsLost == Spec => []NoSilentLoss
<1>1. IInv => NoSilentLoss
  BY DEF IInv
<1>2. QED BY <1>1, AlwaysIInv, PTL

\* The artifact that an ASR task reads stays open until the task ends or is cancelled.
THEOREM ArtifactStaysOpen == Spec => []ArtifactOutlivesAsr
<1>1. IInv => ArtifactOutlivesAsr
  <2> SUFFICES ASSUME IInv, ~overwritten, NEW x \in InScheduler \ cancelled, x.kind = "asr"
               PROVE  x.audio \in backing
    BY DEF ArtifactOutlivesAsr
  <2>1. alive
    BY DEF IInv, Ended, InScheduler
  <2>2. Recording /\ Recognition
    BY <2>1 DEF IInv, Strong
  <2>3. x \in AsrTasks \ cancelled
    BY DEF AsrTasks
  <2>4. PICK t \in Enders : Awaiting(t) /\ task[t] = x
    BY <2>2, <2>3 DEF Recognition
  <2>5. x = [kind |-> "asr", key |-> generation, owner |-> t, audio |-> generation]
    BY <2>2, <2>4 DEF Recognition, Awaiting
  <2>6. generation \in backing
    BY <2>2, <2>4 DEF Recording, Awaiting
  <2>7. QED BY <2>5, <2>6
<1>2. QED BY <1>1, AlwaysIInv, PTL

\* An idle daemon has no capture, no open artifact and no session; what is left in
\* _memory is not part of this.
THEOREM IdleStaysClean == Spec => []IdleIsClean
<1>1. IInv => IdleIsClean
  BY DEF IInv, Strong, Recording, IdleIsClean
<1>2. QED BY <1>1, AlwaysIInv, PTL
=============================================================================
