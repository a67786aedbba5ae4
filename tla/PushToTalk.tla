------------------------------ MODULE PushToTalk ------------------------------
(***************************************************************************)
(* Push-to-talk from the key to the sealed recording: the X server's key   *)
(* events and X11HotkeyListener (src/src/fun_voice/desktop.py), the start, *)
(* stop and auto-stop of VoiceDaemon (src/src/fun_voice/daemon.py) and     *)
(* PipeWireRecorder with its reader and watchdog threads                   *)
(* (src/src/fun_voice/capture.py).                                         *)
(*                                                                         *)
(* Three kinds of thread call the recorder: the listener's own thread runs *)
(* start_if_idle inside on_press, each release starts a stop thread, and   *)
(* the accept loop starts an auto-stop thread.  They share one program     *)
(* below, whose step each thread keeps in pc.  Recording and preparing are *)
(* one state here ("recording": what stop accepts); VoiceDaemon tells them *)
(* apart, and models what follows the recording.                           *)
(***************************************************************************)
EXTENDS Integers, Sequences, SequencesExt

CONSTANTS
  Stoppers,      \* hotkey-stop threads
  MaxRecordings, \* bound: recordings started
  MaxAfterLate,  \* bound: the same, once one has outlived a wait for it
  MaxChanges,    \* bound: modifier changes during one hold of C
  MaxChunks,     \* bound: chunks one pw-record writes
  PipeChunks,    \* chunks the pipe holds
  MemoryChunks,  \* chunks kept in memory before shards are used
  ShardChunks    \* chunks of one shard

Listener == "listener"
AutoStopper == "auto"

ASSUME PushToTalkConstants ==
  /\ MaxRecordings \in Nat /\ MaxAfterLate \in 0..MaxRecordings
  /\ MaxChunks \in Nat /\ MaxChanges \in Nat
  /\ PipeChunks \in Nat
  /\ MemoryChunks \in Nat \ {0} /\ ShardChunks \in Nat \ {0}
  /\ Listener \notin Stoppers /\ AutoStopper \notin Stoppers

Threads == Stoppers \union {Listener, AutoStopper}
Recordings == 1..MaxRecordings
Free == "free"

VARIABLES
  \* the keyboard and the X connection
  cDown,
  onlySuper,       \* Super is the one modifier held (locks do not count)
  repeating,       \* the X server repeats C (not yet, or not any more: FALSE)
  events,          \* events of C not yet read
  held,            \* _held
  releasePending,  \* _release_pending
  \* VoiceDaemon
  pc,              \* the step each thread is in
  lock,            \* _lock, and who holds it
  state,           \* idle, recording or finalizing
  autoEvent,       \* auto_stop_event
  \* PipeWireRecorder; a process or a reader may outlive the wait for it and
  \* meet the next recording
  proc,            \* _proc and _reader: the recording they are of, 0 for None
  last,            \* recordings started so far
  alive,           \* recordings whose pw-record runs
  killed,          \* those of them that SIGKILL has not ended within its wait
  reader,          \* recordings whose reader thread runs
  pipe,            \* by recording: chunks on their way to the reader
  memory, shards,  \* what the readers stored: _memory, and the shards in order
  stopEvent,       \* _stop_event
  watch,           \* watchdog thread of each recording: off, loop or due
  overtime,        \* MAX_RECORDING_SECONDS have passed since _started_mono
  backing,         \* open _backing_files, by recording
  \* history
  changes,         \* modifier changes since C was pressed
  written,         \* chunks pw-record wrote for the recording in proc
  cut,             \* a read, or a write of a chunk, failed in that recording
  outlived,        \* recordings whose reader outlived the join
  sealed           \* the artifact stop returned: recording, audio, written, cut

keyVars == <<cDown, onlySuper, changes, repeating, events>>
listenVars == <<held, releasePending>>
procVars == <<alive, killed, written>>
audioVars == <<pipe, reader, memory, shards, cut>>
watchVars == <<stopEvent, watch, overtime>>
ownVars == <<proc, last, outlived, backing, sealed>>
recorderVars == <<procVars, audioVars, watchVars, ownVars>>
vars == <<keyVars, listenVars, pc, lock, state, autoEvent, recorderVars>>

\* Events of C: a press with exactly Super, another press, a release (whose
\* modifiers nobody looks at).
PressedWith(exactly) == IF exactly THEN "press" ELSE "other press"
GoTo(t, step) == pc' = [pc EXCEPT ![t] = step]

Init ==
  /\ cDown = FALSE /\ onlySuper = FALSE /\ changes = 0
  /\ repeating = FALSE /\ events = <<>>
  /\ held = FALSE /\ releasePending = FALSE
  /\ pc = [t \in Threads |-> "off"]
  /\ lock = Free /\ state = "idle" /\ autoEvent = FALSE
  /\ proc = 0 /\ last = 0 /\ alive = {} /\ killed = {}
  /\ pipe = [r \in Recordings |-> <<>>]
  /\ reader = {} /\ memory = <<>> /\ shards = <<>>
  /\ stopEvent = FALSE /\ watch = [r \in Recordings |-> "off"]
  /\ overtime = FALSE /\ backing = {}
  /\ written = 0 /\ cut = FALSE /\ outlived = {} /\ sealed = <<>>

-----------------------------------------------------------------------------
\* The bound on recordings.
MayRecord == last < IF outlived \union killed = {} THEN MaxRecordings ELSE MaxAfterLate

(* The keyboard (external).  The grab delivers the events of C only when it *)
(* is pressed with Super and no other modifier; from then on until it is    *)
(* released, whatever the modifiers are.  They do not matter while C is up.  *)

keyUnchanged == <<listenVars, pc, lock, state, autoEvent, recorderVars>>

PressSuperC ==
  /\ ~cDown /\ MayRecord /\ Len(events) < 2
  /\ cDown' = TRUE /\ onlySuper' = TRUE /\ changes' = 0
  /\ events' = Append(events, "press")
  /\ UNCHANGED <<repeating, keyUnchanged>>

\* Super is let go or pressed again, or Shift, Control, Alt comes or goes.
ChangeModifiers ==
  /\ cDown
  /\ changes < MaxChanges /\ changes' = changes + 1
  /\ onlySuper' = ~onlySuper
  /\ UNCHANGED <<cDown, repeating, events, keyUnchanged>>

\* Core auto-repeat sends a release and a press at once, with the modifiers
\* of the moment.
Repeat ==
  /\ cDown /\ events = <<>>
  /\ repeating' = TRUE
  /\ events' = <<"release", PressedWith(onlySuper)>>
  /\ UNCHANGED <<cDown, onlySuper, changes, keyUnchanged>>

\* Another key goes down: the server repeats that one instead.
PressOther ==
  /\ repeating /\ events = <<>>
  /\ repeating' = FALSE
  /\ UNCHANGED <<cDown, onlySuper, changes, events, keyUnchanged>>

ReleaseC ==
  /\ cDown
  /\ cDown' = FALSE /\ onlySuper' = FALSE /\ changes' = 0 /\ repeating' = FALSE
  /\ events' = Append(events, "release")
  /\ UNCHANGED keyUnchanged

-----------------------------------------------------------------------------
(* X11HotkeyListener._run, on a thread that also runs on_press. *)

listenUnchanged == <<cDown, onlySuper, changes, repeating, lock, state, autoEvent, recorderVars>>

\* Mutant: a repeat does not cancel the release before it.
HandlePressOnly ==
  /\ pc[Listener] = "off" /\ events # <<>> /\ Head(events) # "release"
  /\ events' = Tail(events)
  /\ IF Head(events) = "press"
       THEN /\ held' = TRUE
            /\ IF held THEN UNCHANGED pc ELSE GoTo(Listener, "try")
       ELSE UNCHANGED <<held, pc>>
  /\ UNCHANGED <<releasePending, listenUnchanged>>

\* handle_event for a press: one whose modifiers are exactly Super (locks masked
\* off, _press_matches_super) cancels the release that auto-repeat sent before
\* it, and calls on_press unless the key is held.
HandlePress ==
  /\ pc[Listener] = "off" /\ events # <<>> /\ Head(events) # "release"
  /\ events' = Tail(events)
  /\ IF Head(events) = "press"
       THEN /\ releasePending' = FALSE
            /\ held' = TRUE
            /\ IF held THEN UNCHANGED pc ELSE GoTo(Listener, "try")
       ELSE UNCHANGED <<listenVars, pc>>
  /\ UNCHANGED listenUnchanged

HandleRelease ==
  /\ pc[Listener] = "off" /\ events # <<>> /\ Head(events) = "release"
  /\ events' = Tail(events)
  /\ releasePending' = (releasePending \/ held)
  /\ UNCHANGED <<held, pc, listenUnchanged>>

\* The select times out and flush_pending_release starts a stop thread.  A
\* repeating C never leaves HOTKEY_EVENT_WAIT_SECONDS between two events.
FlushRelease(t) ==
  /\ pc[Listener] = "off" /\ events = <<>> /\ ~repeating
  /\ releasePending /\ held
  /\ t \in Stoppers /\ pc[t] = "off"
  /\ releasePending' = FALSE /\ held' = FALSE
  /\ GoTo(t, "wait")
  /\ UNCHANGED <<events, listenUnchanged>>

-----------------------------------------------------------------------------
(* start_if_idle, inside on_press. *)

startUnchanged == <<keyVars, listenVars, autoEvent>>

\* The lock is not waited for: "busy".
StartTries ==
  /\ pc[Listener] = "try"
  /\ IF lock = Free /\ state = "idle"
       THEN lock' = Listener /\ GoTo(Listener, "confirm")
       ELSE GoTo(Listener, "off") /\ UNCHANGED lock
  /\ UNCHANGED <<startUnchanged, state, recorderVars>>

\* _confirm_c_pressed, at once or within half a second.
StartConfirms ==
  /\ pc[Listener] = "confirm"
  /\ GoTo(Listener, IF cDown THEN "open" ELSE "quit")
  /\ UNCHANGED <<startUnchanged, lock, state, recorderVars>>

\* PipeWireRecorder.start: earlier artifacts die, the state is reset, and
\* pw-record, the reader and a watchdog of this recording start.
StartRecorder ==
  /\ pc[Listener] = "open" /\ proc = 0 /\ MayRecord
  /\ proc' = last + 1 /\ last' = last + 1
  /\ alive' = alive \union {last + 1} /\ reader' = reader \union {last + 1}
  /\ memory' = <<>> /\ shards' = <<>>
  /\ written' = 0 /\ cut' = FALSE
  /\ stopEvent' = FALSE /\ overtime' = FALSE
  /\ watch' = [watch EXCEPT ![last + 1] = "loop"]
  /\ backing' = {}
  /\ GoTo(Listener, "recheck")
  /\ UNCHANGED <<startUnchanged, lock, state, killed, pipe, outlived, sealed>>

\* The spawn fails, or X11 or the recorder raises: _cleanup.
StartFails ==
  /\ pc[Listener] = "open"
  /\ GoTo(Listener, "quit")
  /\ UNCHANGED <<startUnchanged, lock, state, recorderVars>>

\* C was released while start worked: cancel.
StartRechecks ==
  /\ pc[Listener] = "recheck"
  /\ IF cDown THEN state' = "recording" /\ GoTo(Listener, "notify")
     ELSE GoTo(Listener, "quit") /\ UNCHANGED state
  /\ UNCHANGED <<startUnchanged, lock, recorderVars>>

\* Scheduling the preload and notify-send, for up to five seconds, under _lock.
StartReturns ==
  /\ pc[Listener] = "notify"
  /\ lock' = Free
  /\ GoTo(Listener, "off")
  /\ UNCHANGED <<startUnchanged, state, recorderVars>>

Start == StartTries \/ StartConfirms \/ StartRecorder \/ StartFails
           \/ StartRechecks \/ StartReturns

-----------------------------------------------------------------------------
(* stop and handle_auto_stop, up to FINALIZING. *)

stopUnchanged == <<keyVars, listenVars, recorderVars>>

StopLocks(t) ==
  /\ t \in Stoppers /\ pc[t] = "wait" /\ lock = Free
  /\ IF state = "recording"
       THEN state' = "finalizing" /\ GoTo(t, "request")
       ELSE GoTo(t, "off") /\ UNCHANGED state
  /\ UNCHANGED <<stopUnchanged, lock, autoEvent>>

\* STOP_LOCK_TIMEOUT_SECONDS pass while start still works: the stop is lost.
StopGivesUp(t) ==
  /\ t \in Stoppers /\ pc[t] = "wait" /\ lock # Free
  /\ GoTo(t, "off")
  /\ UNCHANGED <<stopUnchanged, lock, state, autoEvent>>

\* service_actions of the accept loop.
AutoStopSpawns ==
  /\ autoEvent /\ pc[AutoStopper] = "off"
  /\ autoEvent' = FALSE
  /\ GoTo(AutoStopper, "wait")
  /\ UNCHANGED <<stopUnchanged, lock, state>>

\* handle_auto_stop does not wait for the lock.
AutoStops ==
  /\ pc[AutoStopper] = "wait"
  /\ IF lock = Free /\ state = "recording"
       THEN state' = "finalizing" /\ GoTo(AutoStopper, "request")
       ELSE GoTo(AutoStopper, "off") /\ UNCHANGED state
  /\ UNCHANGED <<stopUnchanged, lock, autoEvent>>

-----------------------------------------------------------------------------
(* PipeWireRecorder.stop, then what the daemon does with the recording. *)

callerUnchanged == <<keyVars, listenVars, lock, autoEvent>>

\* _request_stop: the event first, then SIGINT.  pw-record may end at any
\* moment, so SIGINT and SIGTERM have no step of their own.
RequestStop(t) ==
  /\ pc[t] = "request"
  /\ IF proc = 0 THEN GoTo(t, "quit") /\ UNCHANGED stopEvent
     ELSE stopEvent' = TRUE /\ GoTo(t, "seal")
  /\ UNCHANGED <<callerUnchanged, state, procVars, audioVars, watch, overtime, ownVars>>

\* Mutant: the last resort is left out.
WaitsWithoutKill ==
  /\ killed' = killed
  /\ outlived' = outlived \union ({proc} \intersect reader)

\* Mutant: the reader is not joined.
WaitsWithoutJoin ==
  /\ killed' = killed \union ({proc} \intersect alive)
  /\ outlived' = outlived

\* The waits of stop and cleanup, which what follows them does not depend on:
\* _await_exit, five seconds, two after SIGTERM and two after SIGKILL, and
\* join(timeout=5.0) of the reader.  They may end at once, or not in time.
WaitsAreOver ==
  /\ killed' = killed \union ({proc} \intersect alive)
  /\ outlived' = outlived \union ({proc} \intersect reader)

\* ... then _finalize: validate, copy memory and shards into one anonymous file,
\* remove the shards.  A process that still runs has no exit code and nothing in
\* memory is no recording; the recording may be too short, its exit code
\* abnormal, and the copy may fail.
Seal(t) ==
  /\ pc[t] = "seal"
  /\ WaitsAreOver
  /\ \/ /\ proc \notin alive /\ memory # <<>>
        /\ sealed' = <<proc, memory \o FlattenSeq(shards), written, cut>>
        /\ backing' = backing \union {proc}
        /\ GoTo(t, "pipeline")
     \/ GoTo(t, "quit") /\ UNCHANGED <<sealed, backing>>
  /\ shards' = <<>>
  /\ proc' = 0 /\ written' = 0 /\ cut' = FALSE
  /\ UNCHANGED <<callerUnchanged, state, last, alive, pipe, reader, memory, watchVars>>

\* Recognition, correction and commit, in VoiceDaemon.
Pipeline(t) ==
  /\ pc[t] = "pipeline"
  /\ GoTo(t, "quit")
  /\ UNCHANGED <<callerUnchanged, state, recorderVars>>

\* PipeWireRecorder.cleanup: stop the watchdog and pw-record ...
CleanupStops(t) ==
  /\ pc[t] = "quit"
  /\ stopEvent' = TRUE
  /\ GoTo(t, "purge")
  /\ UNCHANGED <<callerUnchanged, state, procVars, audioVars, watch, overtime, ownVars>>

\* ... wait for what stop did not take away (proc is 0 after stop), remove
\* shards and artifacts; then IDLE (_cleanup).  _memory stays.
CleanupPurges(t) ==
  /\ pc[t] = "purge"
  /\ WaitsAreOver
  /\ shards' = <<>> /\ backing' = {} /\ sealed' = <<>>
  /\ proc' = 0 /\ written' = 0 /\ cut' = FALSE
  /\ state' = "idle"
  /\ lock' = IF t = Listener THEN Free ELSE lock
  /\ GoTo(t, "off")
  /\ UNCHANGED <<keyVars, listenVars, autoEvent, last, alive, pipe, reader, memory,
                 watchVars>>

-----------------------------------------------------------------------------
(* pw-record (external), the reader threads and the watchdog threads. *)

threadUnchanged == <<keyVars, listenVars, pc, lock, state>>

RecordChunk(r) ==
  /\ r \in alive \ killed /\ written < MaxChunks /\ Len(pipe[r]) < PipeChunks
  /\ written' = written + 1
  /\ pipe' = IF r \in reader THEN [pipe EXCEPT ![r] = Append(@, <<r, written + 1>>)] ELSE pipe
  /\ UNCHANGED <<threadUnchanged, autoEvent, alive, killed, reader, memory, shards,
                 cut, watchVars, ownVars>>

\* It exits when told to, or on its own.
RecordEnds(r) ==
  /\ r \in alive
  /\ alive' = alive \ {r} /\ killed' = killed \ {r}
  /\ UNCHANGED <<threadUnchanged, autoEvent, written, audioVars, watchVars, ownVars>>

\* Mutant: one chunk too many.
FitsAtLimit == shards = <<>> /\ Len(memory) <= MemoryChunks

\* SHORT_MEMORY_THRESHOLD is not reached.
FitsMemory == shards = <<>> /\ Len(memory) < MemoryChunks

readUnchanged == <<threadUnchanged, autoEvent, procVars, watchVars, ownVars>>

\* _write_audio: memory up to the threshold, then shards, rotated when full.
ReadChunk(r) ==
  /\ r \in reader /\ pipe[r] # <<>>
  /\ pipe' = [pipe EXCEPT ![r] = Tail(@)]
  /\ LET chunk == Head(pipe[r])
         n == Len(shards)
     IN IF FitsMemory
          THEN memory' = Append(memory, chunk) /\ UNCHANGED shards
        ELSE /\ shards' = IF n = 0 \/ Len(shards[n]) >= ShardChunks
                            THEN Append(shards, <<chunk>>)
                            ELSE [shards EXCEPT ![n] = Append(@, chunk)]
             /\ UNCHANGED memory
  /\ UNCHANGED <<reader, cut, readUnchanged>>

\* The unbuffered write stores a part of the chunk: its count is not looked at.
WriteFallsShort(r) ==
  /\ r \in reader /\ pipe[r] # <<>> /\ ~FitsMemory
  /\ pipe' = [pipe EXCEPT ![r] = Tail(@)]
  /\ cut' = (cut \/ r = proc)
  /\ UNCHANGED <<reader, memory, shards, readUnchanged>>

\* _read_loop ends: at the end of the pipe, or where reading it or writing a
\* shard raises ("whatever we have stands"); nobody reads the rest.
ReaderEnds(r) ==
  /\ r \in reader
  /\ reader' = reader \ {r}
  /\ pipe' = [pipe EXCEPT ![r] = <<>>]
  /\ cut' = (cut \/ (r = proc /\ (r \in alive \/ pipe[r] # <<>>)))
  /\ UNCHANGED <<memory, shards, readUnchanged>>

\* Thirty minutes pass; start takes seconds.
TimePasses ==
  /\ proc # 0 /\ ~overtime /\ pc[Listener] = "off" /\ state = "recording"
  /\ overtime' = TRUE
  /\ UNCHANGED <<threadUnchanged, autoEvent, procVars, audioVars, stopEvent, watch,
                 ownVars>>

\* _watchdog_loop: leave when the event is set, or find the limit reached.
WatchdogChecks(r) ==
  /\ watch[r] = "loop"
  /\ \/ stopEvent /\ watch' = [watch EXCEPT ![r] = "off"]
     \/ ~stopEvent /\ overtime /\ watch' = [watch EXCEPT ![r] = "due"]
  /\ UNCHANGED <<threadUnchanged, autoEvent, procVars, audioVars, stopEvent, overtime,
                 ownVars>>

\* Mutant: the daemon is not told.
WatchdogSignals(r) ==
  /\ watch[r] = "due"
  /\ watch' = [watch EXCEPT ![r] = "off"]
  /\ stopEvent' = TRUE
  /\ UNCHANGED <<threadUnchanged, autoEvent, procVars, audioVars, overtime, ownVars>>

\* _auto_stop, which also sends SIGINT to whatever process the recorder has by
\* then.
WatchdogStops(r) ==
  /\ watch[r] = "due"
  /\ watch' = [watch EXCEPT ![r] = "off"]
  /\ stopEvent' = TRUE
  /\ autoEvent' = TRUE
  /\ UNCHANGED <<threadUnchanged, procVars, audioVars, overtime, ownVars>>

-----------------------------------------------------------------------------
Keyboard == PressSuperC \/ ChangeModifiers \/ Repeat \/ PressOther \/ ReleaseC
Listen == HandlePress \/ HandleRelease \/ \E t \in Stoppers : FlushRelease(t)
Call(t) ==
  \/ StopLocks(t) \/ StopGivesUp(t)
  \/ RequestStop(t) \/ Seal(t) \/ Pipeline(t)
  \/ CleanupStops(t) \/ CleanupPurges(t)
Record(r) == RecordChunk(r) \/ RecordEnds(r)
Read(r) == ReadChunk(r) \/ WriteFallsShort(r) \/ ReaderEnds(r)
Watchdog(r) == WatchdogChecks(r) \/ WatchdogStops(r)

Next ==
  \/ Keyboard \/ Listen \/ Start \/ AutoStopSpawns \/ AutoStops
  \/ \E t \in Threads : Call(t)
  \/ \E r \in Recordings : Record(r) \/ Read(r) \/ Watchdog(r)
  \/ TimePasses

\* Each thread of the daemon runs, for every wait in it is bounded; nobody holds
\* C for ever; time passes.  pw-record and the readers owe nothing.
Fairness ==
  /\ WF_vars(Listen \/ Start \/ Call(Listener))
  /\ \A t \in Stoppers : WF_vars(Call(t))
  /\ WF_vars(AutoStopSpawns \/ AutoStops \/ Call(AutoStopper))
  /\ WF_vars(ReleaseC) /\ WF_vars(TimePasses)
  /\ \A r \in Recordings : WF_vars(Watchdog(r))

Spec == Init /\ [][Next]_vars /\ Fairness

-----------------------------------------------------------------------------
Chunks == Recordings \X (1..MaxChunks)

TypeOK ==
  /\ {cDown, onlySuper, repeating, held, releasePending, autoEvent, stopEvent,
      overtime, cut} \subseteq BOOLEAN
  /\ changes \in 0..MaxChanges
  /\ \A i \in 1..Len(events) : events[i] \in {"press", "other press", "release"}
  /\ pc \in [Threads -> {"off", "try", "confirm", "open", "recheck", "notify", "wait",
                         "request", "seal", "pipeline", "quit", "purge"}]
  /\ lock \in {Free, Listener}
  /\ state \in {"idle", "recording", "finalizing"}
  /\ proc \in {0} \union Recordings /\ last \in 0..MaxRecordings
  /\ alive \union reader \union outlived \union backing \subseteq Recordings
  /\ killed \subseteq alive /\ written \in 0..MaxChunks
  /\ \A r \in Recordings : Len(pipe[r]) \in 0..PipeChunks
  /\ Len(memory) \in 0..MemoryChunks
  /\ \A i \in 1..Len(shards) : Len(shards[i]) \in 1..ShardChunks
  /\ watch \in [Recordings -> {"off", "loop", "due"}]

\* The first n chunks of recording r.
Captured(r, n) == [i \in 1..n |-> <<r, i>>]

\* Chunks of recording r only, in the order they were written in.
InOrder(audio, r) ==
  /\ \A i \in 1..Len(audio) : audio[i][1] = r
  /\ \A i, j \in 1..Len(audio) : i < j => audio[i][2] < audio[j][2]

\* What stop hands to recognition is what pw-record wrote in that recording,
\* all of it and in order, across memory and shards: no tail the reader had not
\* read yet, nothing of an earlier recording (_finalize, _reset_capture_state).
\* After a failed or short write or read it may miss chunks, and is in order
\* still.  It may be anything once a reader has outlived the five seconds of a
\* join: a tail is missing then, or that reader writes into the next recording.
ArtifactIsTheRecording ==
  sealed # <<>> /\ outlived = {} =>
    /\ InOrder(sealed[2], sealed[1])
    /\ ~sealed[4] => sealed[2] = Captured(sealed[1], sealed[3])

\* An idle daemon captures nothing and keeps no file, whichever way the last
\* start or stop went: pw-record is gone or was sent SIGKILL, the reader has
\* ended or outlived the join of stop or cleanup, and while none of them has,
\* no shard is on disk; no artifact is open.  (_memory keeps the audio of the
\* last recording until the next start, and is not part of this.)
IdleLeavesNothing ==
  state = "idle" /\ lock = Free =>
    /\ proc = 0 /\ backing = {}
    /\ alive \subseteq killed /\ reader \subseteq outlived
    /\ outlived = {} => shards = <<>>

OnRelease == \E t \in Stoppers : pc[t] = "off" /\ pc'[t] = "wait"

\* Auto-repeat is not a release: as long as C is held with Super and no
\* modifier changes, the listener starts no stop, however its reads interleave
\* with the repeats.
HoldIsOneRecording == [][OnRelease => ~cDown \/ changes > 0]_vars

\* Every recording ends: the release ends it, or, when start kept the lock too
\* long for that stop, or a watchdog of an earlier recording killed pw-record,
\* the limit or the next release does; neither pw-record nor its reader can
\* keep a stop from ending.
RecordingEnds == state = "recording" ~> state = "idle"
=============================================================================
