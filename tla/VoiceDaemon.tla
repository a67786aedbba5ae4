----------------------------- MODULE VoiceDaemon -----------------------------
(***************************************************************************)
(* The daemon's state machine (src/src/fun_voice/daemon.py, VoiceDaemon):  *)
(* start, stop, auto-stop, preload, the capture -> ASR -> correction ->    *)
(* commit pipeline, and shutdown.                                          *)
(*                                                                         *)
(* Threads: one caller of start_if_idle at a time gets past the state      *)
(* lock; every key release and every "stop" request runs stop() on a       *)
(* thread of its own; the accept loop spawns one for the 30-minute limit;  *)
(* the scheduler's dispatcher runs preload, ASR and correction tasks.  The *)
(* state lock is held by start, and by stop until FINALIZING is set; the   *)
(* pipeline, its cleanup and the readiness mark run without it.            *)
(*                                                                         *)
(* A session is named by its generation; a recording, its artifact and its *)
(* text by the session that recorded it.                                   *)
(***************************************************************************)
EXTENDS Integers, FiniteSets

CONSTANTS
  Stoppers,      \* threads that run stop(): one per release or "stop" request
  AutoStopper,   \* the thread that runs handle_auto_stop
  Starter,       \* the thread that runs start_if_idle
  Dispatcher,    \* the scheduler's thread
  NoThread,      \* an unlocked lock
  NoTask,        \* no scheduler task
  Setups,        \* the configurations: which of preloader and corrector are set
  MaxSessions    \* bound on _session_generation

Enders == Stoppers \union {AutoStopper}   \* threads that may run a pipeline
Generation == 1 .. MaxSessions
NoSession == 0

State == {"idle", "preparing", "recording", "finalizing", "correcting", "committing"}

TaskKind == {"asr", "preload", "correction"}

\* A scheduler task, with the waiting thread and the audio it reads.
Task == [kind: TaskKind, key: Generation, owner: Enders \union {NoThread},
         audio: Generation \union {NoSession}]

ASSUME DaemonConstants ==
  /\ MaxSessions \in Nat \ {0}
  /\ Setups \subseteq [preloader: BOOLEAN, corrector: BOOLEAN]
  /\ AutoStopper \notin Stoppers
  /\ Starter \notin Stoppers \union {AutoStopper}
  /\ Dispatcher \notin Stoppers \union {AutoStopper, Starter}
  /\ NoThread \notin Stoppers \union {AutoStopper, Starter, Dispatcher}
  /\ NoTask \notin Task

VARIABLES
  setup,       \* whether _asr_preloader and _corrector are not None
  alive,       \* the process runs
  state,       \* _state
  lock,        \* holder of _lock
  preloadLock, \* holder of _preload_lock: a pipeline thread, or the dispatcher
  session,     \* generation of _session, or NoSession
  generation,  \* _session_generation
  starter,     \* where start_if_idle is
  pc,          \* where each stop / auto-stop thread is
  proc,        \* recording that pw-record is making (recorder._proc)
  audio,       \* recording in the recorder's buffers
  backing,     \* recordings whose sealed artifact is still open
  currentKey,  \* the scheduler's current key
  queue,       \* the scheduler's heap
  running,     \* the task the dispatcher executes
  phase,       \* how far a running preload is
  cancelled,   \* tasks in the heap or running whose handle is cancelled
  preloadOff,  \* generations whose preload-cancel event is set
  preload,     \* _preload_handle: the last preload task submitted
  heard,       \* per thread: the artifact its pipeline got
  task,        \* per thread: the task it waits for
  result,      \* per thread: how that task ended
  delivered,   \* history: <<text, session>> pairs handed to the commit path
  lost,        \* history: texts dropped without delivery or notification
  overwritten  \* history: the readiness mark replaced a later state

recorderVars == <<proc, audio, backing>>
schedulerVars == <<currentKey, queue, running, phase, cancelled>>
threadVars == <<heard, task, result>>
historyVars == <<delivered, lost, overwritten>>
vars == <<setup, alive, state, lock, preloadLock, session, generation, starter, pc,
          recorderVars, schedulerVars, preloadOff, preload, threadVars, historyVars>>

Free == NoThread

Threads == [t \in Enders |-> "off"]
Nothing == [t \in Enders |-> NoSession]
NoTasks == [t \in Enders |-> NoTask]
NoResults == [t \in Enders |-> "none"]

Init ==
  /\ setup \in Setups
  /\ alive = TRUE
  /\ state = "idle"
  /\ lock = Free /\ preloadLock = Free
  /\ session = NoSession /\ generation = 0
  /\ starter = "off" /\ pc = Threads
  /\ proc = NoSession /\ audio = NoSession /\ backing = {}
  /\ currentKey = NoSession /\ queue = {} /\ cancelled = {}
  /\ running = NoTask /\ phase = "none"
  /\ preloadOff = {} /\ preload = NoTask
  /\ heard = Nothing /\ task = NoTasks /\ result = NoResults
  /\ delivered = {} /\ lost = {} /\ overwritten = FALSE
-----------------------------------------------------------------------------
(***************************************************************************)
(* The scheduler as the daemon sees it; ModelScheduler has the detail.     *)
(***************************************************************************)

Priority == [asr |-> 0, preload |-> 1, correction |-> 2]

InScheduler == queue \union ({running} \ {NoTask})

\* activate: earlier sessions' tasks are cancelled.
SchedulerActivate(k) ==
  /\ currentKey' = k
  /\ cancelled' = cancelled \union {x \in InScheduler : x.key # k}

\* submit; a stale key comes back cancelled and finished.
Enqueue(x) == queue' = IF x.key = currentKey THEN queue \union {x} ELSE queue

CancelTask(x) == cancelled' = cancelled \union ({x} \intersect InScheduler)

\* What the waiting thread sees of a finished task: result() raises if the
\* handle was cancelled.
Finish(x, res) ==
  /\ result' = [t \in Enders |->
       IF x = task[t] THEN (IF x \in cancelled THEN "fail" ELSE res) ELSE result[t]]
  /\ cancelled' = cancelled \ {x}

\* The dispatcher pops the most urgent task and drops it or starts it.
Dispatch(x) ==
  /\ running = NoTask
  /\ x \in queue
  /\ \A y \in queue : Priority[x.kind] <= Priority[y.kind]
  /\ queue' = queue \ {x}
  /\ \/ /\ x \in cancelled \/ x.key # currentKey
        /\ result' = [t \in Enders |-> IF x = task[t] THEN "fail" ELSE result[t]]
        /\ cancelled' = cancelled \ {x}
        /\ UNCHANGED <<running, phase>>
     \/ /\ x \notin cancelled /\ x.key = currentKey
        /\ running' = x
        /\ phase' = IF x.kind = "preload" THEN "guard" ELSE "call"
        /\ UNCHANGED <<result, cancelled>>
  /\ UNCHANGED <<setup, alive, state, lock, preloadLock, session, generation,
                 starter, pc, recorderVars, currentKey, preloadOff, preload,
                 heard, task, historyVars>>

\* An ASR request ends: with text only if the artifact stayed readable, else with
\* silence, a failure, or a model failure the fallback profile may retry.
AsrEnds(res) ==
  /\ running # NoTask
  /\ running.kind = "asr"
  /\ res = "text" => running.audio \in backing
  /\ Finish(running, res)
  /\ running' = NoTask
  /\ UNCHANGED <<setup, alive, state, lock, preloadLock, session, generation,
                 starter, pc, recorderVars, currentKey, queue, phase, preloadOff,
                 preload, heard, task, historyVars>>

\* A correction ends, permitted or not, corrected or not.
CorrectionEnds ==
  /\ running # NoTask
  /\ running.kind = "correction"
  /\ Finish(running, "text")
  /\ running' = NoTask
  /\ UNCHANGED <<setup, alive, state, lock, preloadLock, session, generation,
                 starter, pc, recorderVars, currentKey, queue, phase, preloadOff,
                 preload, heard, task, historyVars>>
-----------------------------------------------------------------------------
(***************************************************************************)
(* Preload, on the dispatcher.                                             *)
(***************************************************************************)

preloadUnchanged ==
  <<setup, alive, lock, session, generation, starter, pc, recorderVars,
    currentKey, queue, preloadOff, preload, threadVars, delivered, lost>>

Preloading(ph) == running # NoTask /\ running.kind = "preload" /\ phase = ph

PreloadEnds ==
  /\ running' = NoTask
  /\ phase' = "none"
  /\ cancelled' = cancelled \ {running}

\* The profile guard denies the task, or lets _preload_primary begin.
PreloadGuard ==
  /\ Preloading("guard")
  /\ \/ PreloadEnds
     \/ phase' = "lock" /\ UNCHANGED <<running, cancelled>>
  /\ UNCHANGED <<preloadUnchanged, state, preloadLock, overwritten>>

\* _preload_primary takes _preload_lock and looks at the cancel event.
PreloadBegins ==
  /\ Preloading("lock")
  /\ preloadLock = Free
  /\ \/ /\ running.key \in preloadOff
        /\ PreloadEnds
        /\ UNCHANGED preloadLock
     \/ /\ running.key \notin preloadOff
        /\ phase' = "check"
        /\ preloadLock' = Dispatcher
        /\ UNCHANGED <<running, cancelled>>
  /\ UNCHANGED <<preloadUnchanged, state, overwritten>>

\* The preloader returned or failed; _mark_recording_ready compares the key and the
\* state.  (Apart or together: the write below may come at any time after.)
MarkChecks ==
  /\ Preloading("check")
  /\ \/ /\ session = running.key /\ state = "preparing"
        /\ phase' = "set"
        /\ UNCHANGED <<running, cancelled, preloadLock>>
     \/ /\ session # running.key \/ state # "preparing"
        /\ PreloadEnds
        /\ preloadLock' = Free
  /\ UNCHANGED <<preloadUnchanged, state, overwritten>>

\* ... then writes it, holding no lock that start, stop or cleanup respects.
MarkSetsRecording ==
  /\ Preloading("set")
  /\ state' = "recording"
  /\ overwritten' = (overwritten \/ state # "preparing" \/ session # running.key)
  /\ PreloadEnds
  /\ preloadLock' = Free
  /\ UNCHANGED preloadUnchanged

Preload ==
  PreloadGuard \/ PreloadBegins \/ MarkChecks \/ MarkSetsRecording
-----------------------------------------------------------------------------
(***************************************************************************)
(* start_if_idle.  A caller that finds the lock taken or the state not     *)
(* idle returns "busy" and changes nothing.                                *)
(***************************************************************************)

startUnchanged ==
  <<setup, alive, preloadLock, pc, phase, running, preloadOff, threadVars,
    historyVars>>

\* Mutant: start does not look at the state.
StartLocksInAnyState ==
  /\ starter = "off"
  /\ lock = Free
  /\ generation < MaxSessions
  /\ lock' = Starter
  /\ starter' = "focus"
  /\ UNCHANGED <<startUnchanged, state, session, generation, recorderVars, currentKey,
                 queue, cancelled, preload>>

StartLocks ==
  /\ starter = "off"
  /\ lock = Free
  /\ state = "idle"
  /\ generation < MaxSessions
  /\ lock' = Starter
  /\ starter' = "focus"
  /\ UNCHANGED <<startUnchanged, state, session, generation, recorderVars, currentKey,
                 queue, cancelled, preload>>

\* No X11 focus: "error", nothing to clean.
StartWithoutFocus ==
  /\ starter = "focus"
  /\ lock' = Free
  /\ starter' = "off"
  /\ UNCHANGED <<startUnchanged, state, session, generation, recorderVars, currentKey,
                 queue, cancelled, preload>>

\* Mutant: start's error paths forget the recorder.
StartAbortsRecording ==
  /\ starter \in {"focus", "capture", "recheck"}
  /\ session' = NoSession
  /\ state' = "idle"
  /\ lock' = Free
  /\ starter' = "off"
  /\ UNCHANGED <<startUnchanged, generation, recorderVars, currentKey, queue, cancelled,
                 preload>>

\* _cleanup on the way out of start: recorder, session, state.
StartAborts ==
  /\ starter \in {"focus", "capture", "recheck"}
  /\ proc' = NoSession
  /\ backing' = {}
  /\ session' = NoSession
  /\ state' = "idle"
  /\ lock' = Free
  /\ starter' = "off"
  /\ UNCHANGED <<startUnchanged, generation, audio, currentKey, queue, cancelled,
                 preload>>

\* C is held: a session with a fresh key, made current in the scheduler.
StartOpensSession ==
  LET g == generation + 1
  IN  /\ starter = "focus"
      /\ generation' = g
      /\ session' = g
      /\ SchedulerActivate(g)
      /\ state' = "preparing"
      /\ starter' = "capture"
      /\ UNCHANGED <<startUnchanged, lock, recorderVars, queue, preload>>

\* recorder.start; a capture already in progress makes it fail (StartAborts).
StartCaptures ==
  /\ starter = "capture"
  /\ proc = NoSession
  /\ proc' = generation
  /\ audio' = generation
  /\ backing' = {}
  /\ starter' = "recheck"
  /\ UNCHANGED <<startUnchanged, state, lock, session, generation, currentKey, queue,
                 cancelled, preload>>

\* C is still held: mark the recording ready, or leave that to a preload task.
StartSchedules ==
  /\ starter = "recheck"
  /\ starter' = "notify"
  /\ \/ /\ ~setup.preloader
        /\ state' = IF session = generation /\ state = "preparing"
                    THEN "recording" ELSE state
        /\ UNCHANGED <<queue, preload>>
     \/ /\ setup.preloader
        /\ session = NoSession
        /\ UNCHANGED <<state, queue, preload>>
     \/ /\ setup.preloader
        /\ session # NoSession
        /\ LET x == [kind |-> "preload", key |-> session, owner |-> NoThread,
                      audio |-> NoSession]
           IN Enqueue(x) /\ preload' = x
        /\ UNCHANGED state
  /\ UNCHANGED <<startUnchanged, lock, session, generation, recorderVars, currentKey,
                 cancelled>>

\* The notification is shown and the lock released.
StartReturns ==
  /\ starter = "notify"
  /\ lock' = Free
  /\ starter' = "off"
  /\ UNCHANGED <<startUnchanged, state, session, generation, recorderVars, currentKey,
                 queue, cancelled, preload>>

Start ==
  StartLocks \/ StartWithoutFocus \/ StartAborts \/ StartOpensSession \/ StartCaptures
    \/ StartSchedules \/ StartReturns
-----------------------------------------------------------------------------
(***************************************************************************)
(* stop and handle_auto_stop, up to FINALIZING.                            *)
(***************************************************************************)

stopUnchanged ==
  <<setup, alive, preloadLock, session, generation, starter, recorderVars,
    schedulerVars, preloadOff, preload, threadVars, historyVars>>

GoTo(t, where) == pc' = [pc EXCEPT ![t] = where]

Stoppable == state \in {"preparing", "recording"}

\* A release or a "stop" request starts a thread.
StopCalled(t) ==
  /\ pc[t] = "off"
  /\ GoTo(t, "wait")
  /\ UNCHANGED <<stopUnchanged, state, lock>>

\* stop gets the lock within two seconds.
StopLocks(t) ==
  /\ pc[t] = "wait"
  /\ lock = Free
  /\ \/ Stoppable /\ lock' = t /\ GoTo(t, "seal")
     \/ ~Stoppable /\ GoTo(t, "off") /\ UNCHANGED lock
  /\ UNCHANGED <<stopUnchanged, state>>

\* The two seconds pass while another thread holds the lock: stop is dropped.
StopGivesUp(t) ==
  /\ pc[t] = "wait"
  /\ lock # Free
  /\ GoTo(t, "off")
  /\ UNCHANGED <<stopUnchanged, state, lock>>

\* The watchdog reaches the recording limit and sets the event; the accept loop's
\* next tick clears it and spawns the auto-stop thread.
LimitReached ==
  /\ proc # NoSession
  /\ pc[AutoStopper] = "off"
  /\ GoTo(AutoStopper, "wait")
  /\ UNCHANGED <<stopUnchanged, state, lock>>

\* Mutant: the limit ends a session in any state.
AutoStopsAnyState ==
  LET t == AutoStopper
  IN  /\ pc[t] = "wait"
      /\ lock = Free
      /\ lock' = t
      /\ GoTo(t, "seal")
      /\ UNCHANGED <<stopUnchanged, state>>

\* handle_auto_stop does not wait for the lock.
AutoStops ==
  LET t == AutoStopper
  IN  /\ pc[t] = "wait"
      /\ \/ lock = Free /\ Stoppable /\ lock' = t /\ GoTo(t, "seal")
         \/ ~(lock = Free /\ Stoppable) /\ GoTo(t, "off") /\ UNCHANGED lock
      /\ UNCHANGED <<stopUnchanged, state>>

\* Mutant: the lock is released before the state says FINALIZING.
SealsLater(t) ==
  /\ pc[t] = "seal"
  /\ lock' = Free
  /\ GoTo(t, "capture")
  /\ UNCHANGED <<stopUnchanged, state>>

\* After the notification: FINALIZING, and the lock is released.
Seals(t) ==
  /\ pc[t] = "seal"
  /\ state' = "finalizing"
  /\ lock' = Free
  /\ GoTo(t, "capture")
  /\ UNCHANGED <<stopUnchanged>>
-----------------------------------------------------------------------------
(***************************************************************************)
(* The pipeline _transcribe_and_commit, on the thread that stopped.        *)
(***************************************************************************)

pipelineUnchanged ==
  <<setup, alive, lock, generation, starter, phase, running, preload,
    currentKey, overwritten>>

\* Cancel this preparation's preload, then enter recorder.stop, which needs a
\* capture process.
PipelineStopsCapture(t) ==
  /\ pc[t] = "capture"
  /\ preloadOff' = preloadOff \union
       (IF preload = NoTask THEN {} ELSE {preload.key})
  /\ CancelTask(preload)
  /\ GoTo(t, IF proc = NoSession THEN "cleanup" ELSE "finalize")
  /\ UNCHANGED <<pipelineUnchanged, state, preloadLock, session, recorderVars, queue,
                 threadVars, delivered, lost>>

\* recorder.stop seals what is in the buffers, or rejects it.
PipelineFinalizes(t) ==
  /\ pc[t] = "finalize"
  /\ proc' = NoSession
  /\ \/ /\ backing' = backing \union {audio}
        /\ heard' = [heard EXCEPT ![t] = audio]
        /\ GoTo(t, "submit")
     \/ /\ GoTo(t, "cleanup")
        /\ UNCHANGED <<backing, heard>>
  /\ UNCHANGED <<pipelineUnchanged, state, preloadLock, session, audio, queue, cancelled,
                 preloadOff, task, result, delivered, lost>>

\* Hand a task to the scheduler and wait for it.
SubmitAndWait(t, x) ==
  /\ Enqueue(x)
  /\ task' = [task EXCEPT ![t] = x]
  /\ result' = [result EXCEPT ![t] = IF x.key = currentKey THEN "none" ELSE "fail"]

\* Mutant: the ASR task is submitted without looking for a session.
PipelineSubmitsUnchecked(t) ==
  /\ pc[t] = "submit"
  /\ SubmitAndWait(t, [kind |-> "asr", key |-> session, owner |-> t, audio |-> heard[t]])
  /\ GoTo(t, "asr")
  /\ UNCHANGED <<pipelineUnchanged, state, preloadLock, session, recorderVars, cancelled,
                 preloadOff, heard, delivered, lost>>

\* ASR on the primary profile ("submit"), or once more on the fallback one.
PipelineSubmitsAsr(t) ==
  /\ pc[t] = "submit"
  /\ \/ /\ session = NoSession
        /\ GoTo(t, "cleanup")
        /\ UNCHANGED <<queue, task, result>>
     \/ /\ session # NoSession
        /\ SubmitAndWait(t, [kind |-> "asr", key |-> session, owner |-> t,
                             audio |-> heard[t]])
        /\ GoTo(t, "asr")
  /\ UNCHANGED <<pipelineUnchanged, state, preloadLock, session, recorderVars, cancelled,
                 preloadOff, heard, delivered, lost>>

\* A model failure on the primary profile is retried on the fallback profile,
\* under the key read for the first attempt.
PipelineFallsBack(t) ==
  /\ pc[t] = "asr"
  /\ result[t] = "again"
  /\ SubmitAndWait(t, task[t])
  /\ GoTo(t, "fallback")
  /\ UNCHANGED <<pipelineUnchanged, state, preloadLock, session, recorderVars, cancelled,
                 preloadOff, heard, delivered, lost>>

Awaiting(t) == pc[t] \in {"asr", "fallback"}

\* Text: go on to correction, or straight to the commit.
PipelineGotText(t) ==
  /\ Awaiting(t)
  /\ result[t] = "text"
  /\ task' = [task EXCEPT ![t] = NoTask]
  /\ \/ setup.corrector /\ state' = "correcting" /\ GoTo(t, "lease")
     \/ ~setup.corrector /\ state' = "committing" /\ GoTo(t, "deliver")
  /\ UNCHANGED <<pipelineUnchanged, preloadLock, session, recorderVars, queue, cancelled,
                 preloadOff, heard, result, delivered, lost>>

\* No text, or no answer within 130 seconds: notify and leave.
PipelineGotNoText(t) ==
  /\ Awaiting(t)
  /\ result[t] \in {"empty", "fail", "again"}
  /\ GoTo(t, "cleanup")
  /\ task' = [task EXCEPT ![t] = NoTask]
  /\ UNCHANGED <<pipelineUnchanged, state, preloadLock, session, recorderVars, queue,
                 cancelled, preloadOff, heard, result, delivered, lost>>

\* Mutant: the task is not cancelled.
AsrTimesOutUncancelled(t) ==
  /\ Awaiting(t)
  /\ result[t] = "none"
  /\ task' = [task EXCEPT ![t] = NoTask]
  /\ GoTo(t, "cleanup")
  /\ UNCHANGED <<pipelineUnchanged, state, preloadLock, session, recorderVars, queue,
                 cancelled, preloadOff, heard, result, delivered, lost>>

\* The wait of 130 seconds ends first: cancel the task, notify and leave.
AsrTimesOut(t) ==
  /\ Awaiting(t)
  /\ result[t] = "none"
  /\ CancelTask(task[t])
  /\ task' = [task EXCEPT ![t] = NoTask]
  /\ GoTo(t, "cleanup")
  /\ UNCHANGED <<pipelineUnchanged, state, preloadLock, session, recorderVars, queue,
                 preloadOff, heard, result, delivered, lost>>

\* _correct_after_asr under _preload_lock; without a session the raw text is used.
PipelineSubmitsCorrection(t) ==
  /\ pc[t] = "lease"
  /\ preloadLock = Free
  /\ \/ /\ session = NoSession
        /\ state' = "committing"
        /\ GoTo(t, "deliver")
        /\ UNCHANGED <<preloadLock, queue, task, result>>
     \/ /\ session # NoSession
        /\ preloadLock' = t
        /\ SubmitAndWait(t, [kind |-> "correction", key |-> session, owner |-> t,
                             audio |-> NoSession])
        /\ GoTo(t, "correction")
        /\ UNCHANGED state
  /\ UNCHANGED <<pipelineUnchanged, session, recorderVars, cancelled, preloadOff, heard,
                 delivered, lost>>

\* Corrected or not, the text goes on.
PipelineCorrected(t) ==
  /\ pc[t] = "correction"
  /\ result[t] # "none"
  /\ preloadLock' = Free
  /\ task' = [task EXCEPT ![t] = NoTask]
  /\ state' = "committing"
  /\ GoTo(t, "deliver")
  /\ UNCHANGED <<pipelineUnchanged, session, recorderVars, queue, cancelled, preloadOff,
                 heard, result, delivered, lost>>

\* Mutant: the wait for the correction has no timeout.
CorrectionNeverTimesOut(t) == FALSE /\ UNCHANGED vars

\* 130 seconds without an answer: cancel the task and use the raw text.
CorrectionTimesOut(t) ==
  /\ pc[t] = "correction"
  /\ result[t] = "none"
  /\ CancelTask(task[t])
  /\ preloadLock' = Free
  /\ task' = [task EXCEPT ![t] = NoTask]
  /\ state' = "committing"
  /\ GoTo(t, "deliver")
  /\ UNCHANGED <<pipelineUnchanged, session, recorderVars, queue, preloadOff, heard,
                 result, delivered, lost>>

\* _commit reads the session; without one it returns and says nothing.
PipelineDelivers(t) ==
  /\ pc[t] = "deliver"
  /\ \/ /\ session = NoSession
        /\ lost' = lost \union {heard[t]}
        /\ UNCHANGED delivered
     \/ /\ session # NoSession
        /\ delivered' = delivered \union {<<heard[t], session>>}
        /\ UNCHANGED lost
  /\ GoTo(t, "cleanup")
  /\ UNCHANGED <<pipelineUnchanged, state, preloadLock, session, recorderVars, queue,
                 cancelled, preloadOff, threadVars>>

\* _cleanup: the recorder first ...
PipelineCleansRecorder(t) ==
  /\ pc[t] = "cleanup"
  /\ proc' = NoSession
  /\ backing' = {}
  /\ GoTo(t, "reset")
  /\ UNCHANGED <<pipelineUnchanged, state, preloadLock, session, audio, queue, cancelled,
                 preloadOff, threadVars, delivered, lost>>

\* ... then the session, and IDLE last.
PipelineResets(t) ==
  /\ pc[t] = "reset"
  /\ session' = NoSession
  /\ state' = "idle"
  /\ heard' = [heard EXCEPT ![t] = NoSession]
  /\ result' = [result EXCEPT ![t] = "none"]
  /\ GoTo(t, "off")
  /\ UNCHANGED <<pipelineUnchanged, preloadLock, recorderVars, queue, cancelled,
                 preloadOff, task, delivered, lost>>

Pipeline(t) ==
  \/ PipelineStopsCapture(t) \/ PipelineFinalizes(t) \/ PipelineSubmitsAsr(t)
  \/ PipelineFallsBack(t) \/ PipelineGotText(t) \/ PipelineGotNoText(t) \/ AsrTimesOut(t)
  \/ PipelineSubmitsCorrection(t) \/ PipelineCorrected(t) \/ CorrectionTimesOut(t)
  \/ PipelineDelivers(t) \/ PipelineCleansRecorder(t) \/ PipelineResets(t)
-----------------------------------------------------------------------------
(***************************************************************************)
(* shutdown, on the main thread.  The process exits when it returns: its   *)
(* threads and its memory are gone, pw-record and the shards are not.      *)
(***************************************************************************)
Shutdown ==
  /\ alive' = FALSE
  /\ proc' = IF lock = Free /\ state = "idle" THEN NoSession ELSE proc
  /\ state' = "idle" /\ session' = NoSession /\ generation' = 0
  /\ lock' = Free /\ preloadLock' = Free
  /\ starter' = "off" /\ pc' = Threads
  /\ audio' = NoSession /\ backing' = {}
  /\ currentKey' = NoSession /\ queue' = {} /\ cancelled' = {}
  /\ running' = NoTask /\ phase' = "none"
  /\ preloadOff' = {} /\ preload' = NoTask
  /\ heard' = Nothing /\ task' = NoTasks /\ result' = NoResults
  /\ UNCHANGED <<setup, historyVars>>

Ending(t) == Seals(t) \/ Pipeline(t)

SchedulerStep ==
  \/ \E x \in queue : Dispatch(x)
  \/ \E res \in {"text", "empty", "fail", "again"} : AsrEnds(res)
  \/ CorrectionEnds
  \/ Preload

Stopping(t) == StopLocks(t) \/ StopGivesUp(t)

Step ==
  \/ Start
  \/ \E t \in Stoppers : StopCalled(t) \/ Stopping(t)
  \/ LimitReached \/ AutoStops
  \/ \E t \in Enders : Ending(t)
  \/ SchedulerStep
  \/ Shutdown

\* Nothing happens after the process is gone.
Gone == ~alive /\ UNCHANGED vars

Next == (alive /\ Step) \/ Gone

\* Threads run on; the waits of a pipeline are bounded by their timeouts and every
\* task by a socket or process timeout.  Releases, start requests and the limit
\* owe nothing.
Fairness ==
  /\ \A t \in Enders : WF_vars(alive /\ Ending(t))
  /\ \A t \in Stoppers : WF_vars(alive /\ Stopping(t))
  /\ WF_vars(alive /\ AutoStops)
  /\ WF_vars(alive /\ SchedulerStep)
  /\ WF_vars(alive /\ starter # "off" /\ Start)

Spec == Init /\ [][Next]_vars /\ Fairness
-----------------------------------------------------------------------------
(***************************************************************************)
(* Properties.                                                             *)
(***************************************************************************)

\* Every variable holds a value of its type.
TypeOK ==
  /\ setup \in Setups /\ alive \in BOOLEAN
  /\ state \in State
  /\ lock \in Enders \union {Starter, Free}
  /\ preloadLock \in Enders \union {Dispatcher, Free}
  /\ session \in Generation \union {NoSession}
  /\ generation \in 0 .. MaxSessions
  /\ starter \in {"off", "focus", "capture", "recheck", "notify"}
  /\ pc \in [Enders -> {"off", "wait", "seal", "capture", "finalize", "submit", "asr",
                        "fallback", "lease", "correction", "deliver", "cleanup", "reset"}]
  /\ proc \in Generation \union {NoSession}
  /\ audio \in Generation \union {NoSession}
  /\ backing \subseteq Generation
  /\ currentKey \in Generation \union {NoSession}
  /\ queue \subseteq Task
  /\ running \in Task \union {NoTask}
  /\ phase \in {"none", "guard", "lock", "check", "set", "call"}
  /\ cancelled \subseteq Task
  /\ preloadOff \subseteq Generation
  /\ preload \in Task \union {NoTask}
  /\ heard \in [Enders -> Generation \union {NoSession}]
  /\ task \in [Enders -> Task \union {NoTask}]
  /\ result \in [Enders -> {"none", "text", "empty", "fail", "again"}]
  /\ delivered \subseteq Generation \X Generation
  /\ lost \subseteq Generation
  /\ overwritten \in BOOLEAN

InPipeline(t) == pc[t] \notin {"off", "wait", "seal"}

\* Unless the readiness mark overwrote a later state, at most one pipeline runs,
\* and no start is under way meanwhile: FINALIZING and the states after it keep
\* every other stop and start out although no lock is held.
OnePipeline ==
  ~overwritten =>
    \A t \in Enders : InPipeline(t) =>
      starter = "off" /\ \A u \in Enders \ {t} : ~InPipeline(u)

\* Unless the readiness mark overwrote a later state, text is committed under the
\* session that recorded it: its focus snapshot and its Fcitx token.
TextStaysInItsSession ==
  ~overwritten => \A d \in delivered : d[1] = d[2]

\* Unless the readiness mark overwrote a later state, no recognised text is
\* dropped without a commit attempt or a notification.
NoSilentLoss == ~overwritten => lost = {}

\* Unless the readiness mark overwrote a later state, the artifact an ASR task
\* reads stays open until the task ends or its handle is cancelled.
ArtifactOutlivesAsr ==
  ~overwritten =>
    \A x \in InScheduler \ cancelled : x.kind = "asr" => x.audio \in backing

\* Unless the readiness mark overwrote a later state, an idle daemon with a free
\* lock has no capture, no open artifact and no session, whichever thread made it
\* idle.  (It still has the last recording in _memory, which the next start clears.)
IdleIsClean ==
  ~overwritten /\ alive /\ state = "idle" /\ lock = Free =>
    proc = NoSession /\ backing = {} /\ session = NoSession

\* A stop that got past the lock always comes to an end, race or not: no wait for
\* the scheduler, for _preload_lock or for a task is unbounded.
PipelineEnds == \A t \in Enders : pc[t] = "seal" ~> pc[t] = "off" \/ ~alive

\* What _mark_recording_ready's docstring says: readiness is published only for the
\* current preparation.
ReadinessOnlyForCurrentPreparation == ~overwritten

\* What shutdown's docstring says of the sessions whose cleanup it skips: they have
\* stopped their recorder, so that nothing but an anonymous memory file is left.
ShutdownLeavesNoCapture == ~alive => proc = NoSession
=============================================================================
