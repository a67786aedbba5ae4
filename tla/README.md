# TLA+ models of Fun Voice Ryan

Fun Voice Ryan is a push-to-talk dictation service for a Linux desktop: hold a key,
speak, release, and the recognised (optionally corrected) text is entered into the
window that had the focus. These modules model its concurrent core. TLC checks them on
small instances, TLAPS proves their safety properties for every value of the constants.

    tlc -workers 2 -config Scheduler.cfg MCModelScheduler      # a run
    tlapm ModelScheduler_proofs.tla                            # a proof module

`PROJECT.json` lists the components, runs, mutants, the source lines each definition
stands for, the hazards and the theorems.

## 1. The system

| Component | Source (`src/src/fun_voice/` unless given) | State | Operations | Talks to |
|---|---|---|---|---|
| VoiceDaemon | `daemon.py` | `_state`, `_session`, generation, preload handle, two locks | start_if_idle, stop, handle_auto_stop, preload, pipeline, cleanup, shutdown | everything below |
| ModelScheduler | `scheduler.py` | heap, current key, running handle, closed flag | activate, submit, cancel, wait_idle, close, dispatch | callbacks of the daemon |
| Profile guards and supervisor | `scheduler.py`, `daemon.py`, `systemd/` | state of the worker units (in systemd) | run_asr, run_correction, start / stop / probe | systemctl, worker sockets |
| Qwen corrector | `corrector.py` | one child process per correction | correct | child's stdin / stdout |
| Worker | `worker.py`, `nano_runtime.py` | lazily loaded model, active requests, idle clock | transcribe, preload, health, idle exit | Unix socket |
| Recorder | `capture.py` | pw-record process, memory buffer, shards, memory files, watchdog | start, stop, cleanup, snapshot, auto-stop | pw-record |
| Commit route | `daemon.py` `_commit` | clipboard flag, focus snapshot, token | mirror, recheck, Fcitx commit, XTEST paste | clipboard, X11, Fcitx client |
| Fcitx client | `fcitx.py` | one socket | start_focus, commit, close | addon socket |
| Fcitx addon | `native/fcitx5-fun-voice/src/` | token table, one connection | START_FOCUS, COMMIT, focus events | fcitx |
| Hotkey listener | `desktop.py` | grabs, pending release | press, release, auto-repeat filter | X11, daemon |
| Overlay | `overlay.py`, `native/dtk-overlay` | child process, sequence number | show, clear, reap | DTK process |
| Bootstrap | `bootstrap.py`, `runtime_selection.py`, `scripts/install-user.sh` | manifest, runtimes, model directories, candidates, backups, journal, units | run, rollback, recover | systemd, file system |
| Active session controller | `session.py` | segments of a session | not constructed by the program yet | scheduler |
| Metrics, config, selftest, preflight, benchmarks | several | files and counters | sequential | |

Threads and processes: the control-socket and X11 threads call start; each release runs
stop on a new thread; the accept loop spawns the auto-stop thread; the scheduler has one
dispatcher thread; the recorder has a reader and a watchdog thread; workers, the Qwen
child, pw-record, fcitx and the overlay are processes of their own.

What makes it hard, and what correctness asks for:

- **Daemon.** The state lock is dropped before the pipeline, which runs for up to minutes;
  only the value of `_state` keeps a second stop, the recording limit and a new start
  out. Wanted: one pipeline, text stays in the session that recorded it, nothing is
  dropped in silence, an idle daemon has no capture, no open artifact and no session,
  every pipeline ends.
- **Scheduler.** Cancellation of queued and of running work by a newer session,
  priorities, close. Wanted: superseded work never delivers, each handle settles once
  and eventually.
- **Profiles.** One accelerator, several processes that start, crash, idle out and finish
  late requests by themselves. Wanted: Qwen and each ASR profile are alone on it.
- **Commit.** Four channels each of which may fail, replies may be lost, the focus moves,
  fcitx restarts. Wanted: what the daemon believes is so, a reject is final, the text is
  entered once, no session ends in silence.
- **Addon.** Focus tokens must die with the focus; a text of many chunks is injected whole
  or not at all.
- **Push-to-talk.** The X server repeats a held key as releases and presses; start runs on the
  listener's thread and holds the lock for seconds; reader, watchdog, stop and cleanup
  share the recorder without a lock of its own. Wanted: holding the key is one recording,
  the artifact is what was recorded, no process and no file of it stays behind, it always
  ends; and where waits run out or writes fail, what is left of that is known.
- **Worker.** The idle monitor decides beside a request, decodes outlive their timeout,
  SIGTERM is an exception anywhere. Wanted: one decode at a time, no counted request
  loses its worker to the idle exit, no client hangs, an idle worker frees the accelerator.
- **Bootstrap.** Some forty system calls change directories, files and units; any may
  fail, be interrupted or be the last before a crash. Wanted: what is in force afterwards is one
  generation as a whole, and nothing is left behind.
- **Overlay.** A dead process is reaped while the next one is started (not modelled).

## 2. Modules

| Module | Models | Composes |
|---|---|---|
| `ModelScheduler` | the heap, `activate` / `submit` / `cancel` / `close`, the dispatcher | |
| `VoiceDaemon` | the daemon's state machine and its threads | a coarse scheduler and recorder inside |
| `FcitxAddon` | protocol engine, token table, connection, focus events; any client | |
| `CommitRoute` | `_commit`, the Fcitx client, the socket, the desktop | extends `FcitxAddon` |
| `ModelProfiles` | the guards around each task, systemd units, workers, Qwen | |
| `PushToTalk` | keyboard, hotkey listener, start / stop / auto-stop, the recorder and its threads | |
| `WorkerServer` | one life of a worker: handler, idle monitor, decode threads, signals | |
| `DeploymentSwitch` | what an initialization promises, abstractly | |
| `Bootstrap` | the initialization transaction, system call by system call | implements `DeploymentSwitch` (INSTANCE ... WITH) |
| `*_proofs` | theorems of the module they extend | |
| `MC*` | the values of the constants for TLC | |

**ModelScheduler.** One condition lock guards heap, current key and running handle, so
each critical section is one action. A callback and `on_complete` run outside the lock:
`Start`, `Complete` and `Notify` are separate, and every client operation may fall
between them. `TaskHandle.cancel` takes only the handle's lock and may fall anywhere.
`superseded` and `published` are history. close's bounded join of two seconds is left
out: `CloseEndsDispatcher` says what the join waits for. Handles are finite, so a run
has finitely many submissions: that a low priority could starve under endless
submissions is not a question the program meets (a session submits at most four tasks).

**VoiceDaemon.** A session is named by its generation, and recording, artifact and text
by their session, which is all the properties tell apart. `pc` holds one place per stop
thread. The lock is held from `StartLocks` to `StartReturns`/`StartAborts`, and from
`StopLocks`/`AutoStops` to `Seals`. Everything after that runs unlocked, so every read
of `_session` and every assignment of `_state` in the pipeline is an action of its own.
`_mark_recording_ready` is the two actions `MarkChecks` and `MarkSetsRecording`. The
lock admits one thread at a time past the state test, so a pool of one stop thread and
the auto-stop thread already meets every order; a second release in flight only finds
the lock or the state against it. Preload, ASR and correction tasks go through a coarse
scheduler that keeps what ModelScheduler shows in detail (stale keys are refused, activate
cancels, priorities hold, a cancelled task runs on). Shutdown ends the process: its memory and threads are gone, the
`pw-record` process is not.

**FcitxAddon.** One event of fcitx's loop is one action. The engine answers any frame;
its checks come in the code's order. A chunk is represented by its number, its total
and its size; the buffer is the sequence of chunks, so that "whole text" can be said.
`commit` returning false right after `isFocused` returned true cannot happen on one
thread and has no action. `revoked` collects tokens whose context lost focus, was
destroyed or got a newer token, or whose client left.

**CommitRoute.** The daemon's steps, the addon's (the real module, with its variables) and
the user's interleave. The module extends FcitxAddon, so that theorems of the addon can be used
(the prover cannot use theorems of an instance); `Init`, `Next`, `Spec` and `TypeOK` are
the addon's and the route's own are `RouteInit`, `RouteNext`, `RouteSpec` and `RouteTypeOK`. The client's timeout may come at any moment (`FocusFails`,
`AckFails`). `onEvent` tests a hang-up on the flags of its poll and reads afterwards, so that a
frame in the socket when the daemon hangs up may still be handled: `HangUp` leaves it as `late`
or drops it, `AddonReadsLate` handles it, and the hang-up is seen by the next event
(`AddonCloses`). A connection given up in the backlog is still accepted once
(`ghost`). fcitx may restart at any time. History variables are of the session at hand
and reset when it closes.

**ModelProfiles.** The guards run on the dispatcher, one at a time; units go down by
themselves at any time and come up only after a start (`Restart=no`). `Init` admits any
state of the units, for workers outlive the daemon. A request the client gave up is
still served (`ModelLoads`). `_profile_states` and `_confirmed_inactive` are left out:
the first is for display, and the second decides nothing when the supervisor has its
systemd probe, as in `build_voice_daemon`.
A start that systemd accepted shows as activating at once.

**PushToTalk.** The keyboard is external: the X server delivers C only when it was pressed
with Super alone, and repeats it as a release and a press at once. `_press_matches_super` compares
all modifiers (locks masked off), so the model keeps whether Super is the *only* one held
(`onlySuper`), and `ChangeModifiers` stands for Super or any other modifier coming or going. The listener's thread reads
one event per action and runs `start_if_idle` itself, so that events queue while it
starts; `FlushRelease` is the select that times out (a key that repeats never leaves
the wait long enough). Start, stop and auto-stop share one program, with the thread's step in
`pc`. Recorded audio is chunks numbered by their recording; memory and shards hold them
in the order of `_write_audio`, and `sealed` remembers what `_finalize` returned beside
how many chunks pw-record wrote. `_await_exit` and `join(timeout=5.0)` are bounded and stop and cleanup go
on after them, so these waits guard nothing (`WaitsAreOver`): `Seal` and `CleanupPurges` note which
process had not ended at SIGKILL's last wait (`killed`) and which reader had not at its
join (`outlived`). Such a reader goes on: what it reads is stored in whatever the
recorder holds by then, the next recording's memory and shards included. `ReaderEnds` also stands for a
failed read or shard write, and `WriteFallsShort` for a write whose count nobody looks at; both set `cut`.
`_memory` is cleared by the next start only. Each recording's watchdog is a thread of its own and acts on
whatever the recorder holds by then, as in the code. What follows the recording is one
step (`Pipeline`), in detail in VoiceDaemon.

**WorkerServer.** The main thread is one `pc`; a request is load, warm-up or VAD, then a decode
on a thread of its own under `_generate_lock` (Nano) or a call in the main thread
(SenseVoice, which drops its timeout). The idle monitor reads its clock, decides outside
the condition and calls `shutdown` later: `MonitorLooks`, `MonitorShutsDown` and
`MonitorEnds`, with any step of the handler in between. `Raised` is where the SIGTERM
exception lands: outside a request it ends the process, inside one it is an error
like others. A request is answered, refused with an answer (`RefuseRequest`), or raises what `handle` does
not catch: a plain ProtocolError for truncated, unexpected or malformed ancillary data, a TypeError of an
odd `op` (`RejectUnanswered`); its connection closes without an answer and the server
goes on. SIGKILL is systemd's, half a minute later. A client is assumed to send its line
(the daemon sends it at once); one that connects and sends nothing would hold the
single thread. Signals are delivered while a step blocks, not between two bytecodes.

**Bootstrap.** One action is one system call or one systemctl command, except for the loops over units:
`StopWorkers`, `RetireLegacyWorker` and `RestoreServices` are one action each, so that a fault
between two of their commands is taken before the first or after the last. A directory is named by
the token of the candidate that built it, and its generation is that token. Runs exclude each
other by a file lock that a crash frees, so one `pc` is enough; `mode` says whether a
shared step belongs to the transaction, to recovery or to the handler. `Fault` is an error or
interrupt at any step and goes where the code's handlers send it (`UnwindChoosing`,
`UnwindTransaction`, `UnwindRestore`; one in `write_runtime_selection` is taken for one in
`_promote_candidate_models`, and the disks it leaves are also left by `Crash`); `Crash` forgets the run and keeps disk and
units. Between runs the daemon starts workers and they exit. Assumed: an interrupt arrives while a step
runs and not in the few bytecodes between the journal's unlink and the end of the try
block (`bootstrap.py:1555-1571`), where it would undo a run that has already switched; the
installer script dies with the process that runs it; no login session starts the daemon
during a run.

**DeploymentSwitch.** A run switches manifest, model directories, files and unit enablement
in one step, at most once, or leaves them; success is reported only after the switch and
failure only without it. Bootstrap's journal is the refinement mapping: while there is
one, the deployment in force is what it records (for a model directory, its backup if it
was moved away), because that is what the next run restores; removing the journal is the switch.

## 3. Runs

| Run | Module / cfg | Bounds | Shows |
|---|---|---|---|
| scheduler | MCModelScheduler / Scheduler | 2 handles, 2 keys, 3 kinds | no stale delivery, priority; every handle settles, close ends the thread |
| daemon | MCVoiceDaemon / Daemon | 2 sessions, 1 stop thread + auto-stop, with and without preloader and corrector | one pipeline, text in its session, no silent loss, artifact outlives ASR, idle is clean; every pipeline ends |
| addon | MCFcitxAddon / Addon | 2 contexts, 2 tokens, 3 chunks, 2 sizes | whole texts, tokens spent once, revoked tokens dead |
| commit | MCCommitRoute / Commit | 2 windows, 2 tokens, 2 sessions, 3 chunks, buffer of 2 | acknowledged means entered, reject is final, no late commit, never silent; sessions end |
| profiles | MCModelProfiles / Profiles | 3 profiles | Qwen alone, ASR alone, models load alone; tasks end |
| bootstrap | MCBootstrap / Bootstrap | 3 runs, 2 faults, 2 backends, 2 model keys, 2 files, deployed or warm-worker machine | types, the selection is whole, a clean exit is clean, replacing and restoring are quiet, DeploymentSwitch is implemented; recovery completes |
| push_to_talk | MCPushToTalk / PushToTalk | 2 recordings (1 after a wait has run out) of up to 3 chunks, a pipe of 1, memory for 1, shards of 1, 1 modifier change a hold, 1 stop thread + auto-stop | types, the artifact is the recording, idle leaves nothing, a hold is one recording; every recording ends |
| worker | MCWorkerServer / Worker | 3 requests, Nano or SenseVoice | types, decodes are serial, counted is answered unless it raised; nobody hangs, an idle worker exits |
| daemon_readiness | MCVoiceDaemon / DaemonReadiness | as daemon | violation: the readiness mark overwrites a later state |
| daemon_shutdown | MCVoiceDaemon / DaemonShutdown | as daemon | violation: a shutdown while recording leaves pw-record |
| commit_once | MCCommitRoute / CommitOnce | as commit | violation: a lost reply enters the text twice |
| commit_notice | MCCommitRoute / CommitNotice | as commit | violation: "entered" is notified although something else was pasted |

Why the bounds are enough: two keys (sessions, windows, contexts) are what "stale" and
"current" need; two tasks are what an order needs, and a third could only repeat it;
three chunks give a first, a middle and a last one, and a buffer for two makes the limit
bite; two sessions let a late event of the first fall into the second; three profiles
give a task two siblings to release one after the other, one more than the code knows.
Three runs with two faults let a run fail, its recovery fail in its turn, and a third
one find what both left; two keys put a fault between two directories, and
the second backend needs only one of them. Two recordings let the second meet the first's
watchdog, events and files; of three chunks one stays in memory and two go to shards, with a
rotation between them. After a wait that ran out the run starts no second recording (`MaxAfterLate`), for
the states would be too many: a late reader that meets the next recording is covered by the proofs.
Three requests are one that is served, one whose decode was left behind and one in the
backlog. Every invariant and every action property of these runs, and Bootstrap's
refinement, is proved without the bounds (section 4), so that what rests on them is
liveness alone. The type invariants of ModelScheduler, FcitxAddon and ModelProfiles,
`IdleMeansSettled` and `SettledOnce` are proved and no longer part of a run.

The safety properties of the daemon are stated under `~overwritten`: while the readiness
race has not struck. With the race they fail one after the other (the run
daemon_readiness shows the race itself); the condition isolates it, so that they
check everything else. `PipelineEnds` and `TypeOK` hold race or not.

Deadlock is checked in every run but bootstrap, push_to_talk and worker, where the system
comes to an end by its bounds (runs, recordings) or by itself (the worker exits); their
liveness properties say that it does not stop too early. In the others something
stutters by intention (`Gone` after shutdown), or the clients or the environment can
always move.

### Fairness

| Module | Fairness | Why the code justifies it |
|---|---|---|
| ModelScheduler | WF of the dispatcher | one thread, no wait but for work; each callback is bounded by a socket or process timeout |
| VoiceDaemon | WF of each pipeline, of a stop waiting for the lock, of the scheduler, of a start under way | threads run; waits are bounded (2 s lock, 130 s task, 5 s process); no fairness for releases, starts, limits, shutdown |
| CommitRoute | WF of the daemon | each wait for the addon ends after one second; the addon, fcitx and the user owe nothing |
| ModelProfiles | WF of the dispatcher | every systemctl call, poll, probe and request has a timeout; units owe nothing |
| PushToTalk | WF of each thread of the daemon and of the watchdogs; time passes; C is released; none of pw-record and the readers | every wait for those two is bounded; a person lets go of the key |
| WorkerServer | WF of the main thread, of the monitor and of the clock; none of a decode, on its thread or inline | loading and VAD return or raise, the join has a timeout; a decode may hang |
| Bootstrap | WF of the steps of a run | the commands it calls return; faults and crashes owe nothing and are bounded |
| FcitxAddon | none | it only answers |

### Findings

1. `_mark_recording_ready` (`daemon.py:1252-1260`) tests and sets `_state` without `_lock`. A stop
   between the two is overwritten by RECORDING, and the next release starts a second pipeline.
2. `shutdown` (`daemon.py:1310-1320`) skips the cleanup in PREPARING and RECORDING, where the
   reason its docstring gives does not hold.
3. A reply later than the client's second leads to a second entry by Ctrl+V
   (`fcitx.py:98-100`, `daemon.py:1628-1632`), against the acceptance checklist.
4. With a failed clipboard mirror Ctrl+V is sent all the same (`daemon.py:1657-1664`), and the
   notification says that the text was entered.

Observations made while modelling, which no run settles:

- `handle_event` cancels a pending release only for a press whose modifiers are exactly Super
  (`desktop.py:285-300`, `362-366`). Let Super go, or add Shift, while C is held: the repeats of C are
  releases followed by presses that do not match, and once another key takes over the repeating, the
  pending release fires although C is down, in the case of Shift with Super still held.
  `HoldIsOneRecording` is therefore stated for as long as no modifier changes.
- `_memory` keeps the whole of a recording until the next start (`capture.py:314-329` does not
  clear it, `616-618` does). `IdleIsClean` and `IdleLeavesNothing` are about captures, artifacts and files.
- A failed shard write or a read error ends the reader, and a short write of the unbuffered shard file drops
  the rest of its chunk; stop seals what is there and says nothing (`capture.py:365-367`, `397`).
  A reader that outlives `join(timeout=5.0)` leaves a tail out, or writes into the next recording.
- A stop that waits two seconds for a start held up in `notify-send` is dropped, and the
  stop thread of an earlier tap may end the next recording (`daemon.py:1071-1073`, `1268-1274`).
  `RecordingEnds` holds by the recording limit.
- The last error of a worker is sticky (`nano_runtime.py:480`): health reports it after later successes.
- Bootstrap: runtime candidates of a crashed run are never swept (model candidates are), backups of a
  crash after the commit stay, and a restore that keeps failing blocks every later run.
- Bootstrap moves model directories under running services in two cases, which `QuietSwap` excepts by name. The
  first installation promotes before it stops anything, beside a running warm worker, and its
  handler undoes that as early. And the handler calls `_rollback_model_promotion` before `_restore_deployment`
  stops the services (`bootstrap.py:1559-1560`): when the restart of the daemon or the journal's
  removal fails, the promoted models are removed under the daemon that was just restarted.
- A worker closes the connection of a request it cannot read without an answer (`worker.py:599-603` catches
  MessageTooLarge and OSError, not the ProtocolError of `673-683`); the client sees an end of file.

## 4. Proofs

Assumptions are the named ASSUMEs of the modules only; TLC evaluates them in the runs.
`SchedulerConstants`, `AddonConstants`, `ProfileConstants`, `WorkerConstants` and `RouteConstants` say
that limits are numbers and that null values are none of the values they stand beside; so does
`DaemonConstants`, which also keeps the names of the threads apart. `PushToTalkConstants` asks for a memory
and shards of at least one chunk. `BootstrapConstants` says of the code that
`candidate_backends` repeats no backend, and of the machine before the first run that a
manifest there has its model directories: what a run that succeeded leaves.

Each module of proofs has one inductive invariant, lemmas that say how each action keeps it,
and the theorems at its end.

- **ModelScheduler_proofs.** `TypeCorrect`, `NoStaleDelivery`, `OnlyCurrentWorkIsLive`,
  `IdleIsSettled`, `SettlesOnce`, `PriorityHolds`. The inductive invariant adds to the types:
  `running` and `publish` are set in their phases of the dispatcher only
  (`DispatcherPhase`); a created handle is unfinished exactly while it is queued or running
  (`InFlightUnfinished`); what is published, or about to be, is finished (`PublishedDone`);
  superseded work is cancelled and not published (`SupersededCancelled`); live work in
  flight has the current key of an open scheduler (`LiveWorkIsCurrent`). NoStaleDelivery
  needs `PublishedDone`: the decision to publish is taken before the lock is released,
  and activate or close falling between decision and callback supersedes work in flight only,
  which the handle about to be published no longer is.
- **FcitxAddon_proofs.** `TypeCorrect`, `CommitsAreWhole`, `TokensAreSpentOnce`,
  `RevokedTokensAreDead`. The invariant says that a buffer is the prefix 1..nextSeq-1
  of one commit (`BufferIsPrefix`), that a live token is issued for the context it is bound
  to and not revoked (`LiveIsIssued`), and that a committed token is no longer in the table
  (`CommittedIsSpent`), from which an action that commits can only append a whole text of a
  fresh token.
- **ModelProfiles_proofs.** `TypeCorrect`, `QwenIsAlone`, `AsrIsAlone`, `AcceleratorExclusive`.
  The key part, `ReleasedStaysDown`, says that a profile already taken off `todo` is down:
  units come up only from activating and only the selected profile is ever started.
  `OnlyUpUnitsWork` and `AskedAlone` carry this to models: what holds a model
  or an unanswered request is a unit that is up, and an unanswered request of an
  earlier task died with its unit before another profile could be asked.

- **WorkerServer_proofs.** `TypeCorrect`, `DecodesAreSerial`, `CountedRequestsAreAnswered`, for any number of
  clients. The invariant ties the count to the step of the main thread (`RequestIsCounted`: one client
  and a count of one from request_started to request_finished, none elsewhere), the client's side to it
  (`ServedIsCurrent`: only the current client is being served, and only while the handler is at
  work), says that the handler, but for a request that raised, leaves without an answer only when that
  client left or a signal came (`HangUpIsExcused`), and that a running decode holds the lock
  (`RunningHoldsEngine`). The idle exit closes connections only between two requests,
  where `ServedIsCurrent` leaves nobody to cut off.

- **VoiceDaemon_proofs.** `TypeCorrect`, `OnePipelineHolds`, `TextKeepsItsSession`, `NothingIsLost`,
  `ArtifactStaysOpen`, `IdleStaysClean`, for any number of stop threads and sessions. What the
  properties say of threads past the lock is inductive only with what the lock and the state
  say of each other: `Locking` (who holds the lock, which states its holder finds, and
  that FINALIZING and later belong to one pipeline), `Recording` (session, recorder, artifact
  and what the pipeline holds are those of one generation) and `Recognition` (an ASR task that is
  not cancelled is the one its pipeline waits for, which a timed-out wait cancels before
  cleanup). The three hold while the process lives and the readiness mark has
  not overwritten a state: that race breaks `Locking` at once (finding 1). `TypeCorrect` needs the weaker `Bound` instead and
  holds with the race.
- **CommitRoute_proofs.** `RouteTypeCorrect`, `AckedTextIsIn`, `CancelledTextIsOut`, `SessionsSpeak`,
  `CommitsAreAwaited`, and of the addon driven by this client `AddonKeepsItsPromises` and
  `RevokedTokensStayDead`. Every step of the route is a step of the addon, or none, or reads its
  reply (`AddonSteps`), so the addon's invariant carries over. On top of it `Wire` says that
  the protocol is stop-and-wait (a frame is in the socket only while the daemon waits and no
  reply is under way; giving up closes the socket, and a frame left in it belongs to a connection that
  is hung up, which the addon closes before it takes the next one), and `Texts` that the daemon's token is unspent until
  the addon has taken the last chunk, of which only that chunk's OK tells the daemon. A token handed out is new
  (`OtherAnswered`), which is where the earlier texts of a session's token are excluded.
- **PushToTalk_proofs.** `TypeCorrect`, `RecordingIsWhole`, `IdleIsEmpty`, `RepeatIsNotRelease`. The
  artifact is a concatenation of shards, computed by recursion (`FlattenSeq`); what it gives when a
  chunk arrives is proved from the least-number principle, which takes a set where the
  library's induction takes a predicate. `StoredInOrder` then says that, until a reader outlives its join,
  what memory, shards and the pipe hold is of one recording, in order, and complete unless a failure lost
  some (`Holds`); `Capture` says that a process that was not killed and a reader that was joined belong to
  the recording in `proc`. `NothingLeft` covers the steps of a start that
  holds the lock in an idle daemon. `PressIsLast` says that with C down and no modifier changed the
  last unread event is a press, or the press was read and cancelled the pending release.
- **Bootstrap_proofs.** `TypeCorrect`, `SelectionStaysWhole`, `ExitIsClean`, `SwapIsQuiet`, `ImplementsSwitch`.
  A fault or a crash may come at any step, so the invariant says of each step what
  journal and disk owe each other: `JournalIsKept` (every directory the journal wants is in
  place or is the only backup under its token), `RunProgress`, `UndoIsOwn`, `CommitProgress`, `RestoreProgress`
  (what the transaction, the handler, the end of a success and a restore have done by each of
  their steps), `CandidateIsUnused` and `DroppedAreCleaned` (tokens are never used twice and leave nothing).
  `SwapIsQuiet` needs one more fact (`QuietUntilRestart`): a deployment that is replaced stays quiet until its
  daemon is restarted, also for the handler that finds models to undo.
  The refinement maps the deployment in force to `Shown`, what a restart would find. Nearly every
  step leaves `Shown` unchanged and is a stutter: this is part of each action's lemma.
  Removing the journal of a run is `Switch`, where the invariant says that what the journal gave
  back until then and what is on disk from then on are each one generation; removing it after a restore shows
  the same deployment on both sides.

Only model-checked: liveness (`EveryTaskSettles`, `CloseEndsDispatcher`, `PipelineEnds`, `SessionEnds`,
`TaskEnds`, `RecoveryCompletes`, `RecordingEnds`, `NobodyHangs`, `IdleWorkerExits`), for fairness
and ENABLED are out of this prover's reach, and the four violations, which are counterexamples.
Recursive computations over data (text splitting, frame encoding) are not modelled and not proved about.

## 5. Not modelled

ACTIVE_IDLE and `session.py` (no code of the program enters them); metrics and overlay
calls (nothing reads them); the control socket's framing; partial reads and writes of sockets;
exceptions that are not `Exception` in a callback (they would end the dispatcher);
`FallbackWorkerClient` (superseded by the scheduler's fallback, not constructed); text
rules of the corrector; what the model runtimes compute; the file formats; stand-alone tools; the
wrappers around the installer; `snapshot` and audio leases of the recorder; the worker's uid check; the
X11 grabs and their failures; the overlay. A window between the last focus check and Ctrl+V is in CommitRoute
(the paste goes to the window of that moment), but no property is stated of it.

## 6. Plan

Done: the modules above, in the order ModelScheduler, VoiceDaemon, FcitxAddon, CommitRoute,
ModelProfiles, Bootstrap with DeploymentSwitch, PushToTalk, WorkerServer; proofs of all
safety properties of the runs, and of the refinement of DeploymentSwitch.

Next to prove: refinements that say in one abstract step what several properties say apart,
namely an entry that happens at most once per token (FcitxAddon, and behind it CommitRoute),
an accelerator that is granted to one holder (ModelProfiles), a slot for one session at
a time (VoiceDaemon under `~overwritten`, PushToTalk without condition), one decode slot
(WorkerServer); and, of each recording, that the artifact VoiceDaemon assumes is the one PushToTalk delivers.

Next to model: the overlay's reaper, `ActiveSessionController`
once something constructs it, and the pure text operators (`split_utf8`, `build_commit_frames`)
against reference definitions.
