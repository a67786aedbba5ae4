----------------------------- MODULE WorkerServer -----------------------------
(***************************************************************************)
(* One life of an ASR worker process (src/src/fun_voice/worker.py) with    *)
(* the Nano or the SenseVoice runtime in it                                *)
(* (src/src/fun_voice/nano_runtime.py).                                    *)
(*                                                                         *)
(* The main thread serves one connection after another; an idle monitor    *)
(* ends the process when nothing was asked for long enough; every Nano     *)
(* decode runs on a daemon thread of its own, which outlives the request   *)
(* when it times out.  SIGTERM is raised as an exception in whatever the   *)
(* main thread does; systemd kills the process when it is still there half *)
(* a minute later.                                                         *)
(***************************************************************************)
EXTENDS Integers, Sequences, FiniteSets

CONSTANTS
  Clients,   \* connections, of one request each
  NoClient

ASSUME WorkerConstants == NoClient \notin Clients

VARIABLES
  \* clients
  conn,      \* off, queued, served, and at last answered, rejected (closed on a request that
             \* raised in the handler), cut (closed on any other it counted) or closed (before
             \* the handler took it, or by the client)
  gone,      \* clients that closed their end of an open connection
  \* the main thread
  pc,        \* its step
  backlog,   \* connections not yet accepted
  current,   \* the client being served
  profile,   \* the runtime this worker loads: nano or sensevoice
  runtime,   \* LazyTranscriber has its runtime
  warm,      \* _warmup_attempted
  shutdown,  \* the flag of shutdown(), read between two requests
  term,      \* SIGTERM was sent
  \* shared with the idle monitor
  active,    \* _active_requests
  expired,   \* idle_unload_seconds have passed since _last_request_finished
  stopped,   \* _idle_monitor_stop
  monitor,   \* watch, parked or timed (in wait), due, shutting, off
  \* decode threads, one per request
  decode,    \* off, queued (waits for _generate_lock), running, done
  engine     \* who holds _generate_lock

clientVars == <<conn, gone>>
runtimeVars == <<profile, runtime, warm>>
monitorVars == <<active, expired, stopped, monitor>>
decodeVars == <<decode, engine>>
vars == <<clientVars, pc, backlog, current, runtimeVars, shutdown, term,
          monitorVars, decodeVars>>

Init ==
  /\ conn = [c \in Clients |-> "off"] /\ gone = {}
  /\ pc = "select" /\ backlog = <<>> /\ current = NoClient
  /\ profile \in {"nano", "sensevoice"}
  /\ runtime = FALSE /\ warm = FALSE /\ shutdown = FALSE /\ term = FALSE
  /\ active = 0 /\ expired = FALSE /\ stopped = FALSE /\ monitor = "watch"
  /\ decode = [c \in Clients |-> "off"] /\ engine = NoClient

Running == pc # "exited"
GoTo(step) == pc' = step

\* notify_all on _idle_condition.
Woken == IF monitor \in {"parked", "timed"} THEN "watch" ELSE monitor

-----------------------------------------------------------------------------
(* Clients (external): the daemon sends its line as soon as it is connected, *)
(* and closes the connection when it has waited long enough.                 *)

othersUnchanged ==
  <<current, runtimeVars, shutdown, term, monitorVars, decodeVars>>

Connect(c) ==
  /\ Running /\ conn[c] = "off"
  /\ conn' = [conn EXCEPT ![c] = "queued"] /\ backlog' = Append(backlog, c)
  /\ UNCHANGED <<gone, pc, othersUnchanged>>

\* Before it is served nobody looks whether it left.
Leave(c) ==
  /\ conn[c] = "served" /\ c \notin gone
  /\ gone' = gone \union {c}
  /\ UNCHANGED <<conn, pc, backlog, othersUnchanged>>

-----------------------------------------------------------------------------
(* serve_forever and the request handler. *)

mainUnchanged == <<runtimeVars, shutdown, term, decodeVars>>

\* request_started: counted before anything is read.
Accept ==
  /\ pc = "select" /\ ~shutdown /\ backlog # <<>>
  /\ LET c == Head(backlog)
     IN /\ conn' = [conn EXCEPT ![c] = "served"]
        /\ current' = c
  /\ backlog' = Tail(backlog)
  /\ active' = active + 1 /\ monitor' = Woken
  /\ GoTo("read")
  /\ UNCHANGED <<gone, expired, stopped, mainUnchanged>>

stepUnchanged == <<clientVars, backlog, current, shutdown, term, monitorVars>>

\* One line is read; it asks for an operation of the runtime.
ReadRequest ==
  /\ pc = "read"
  /\ GoTo("load")
  /\ UNCHANGED <<stepUnchanged, runtimeVars, decodeVars>>

\* A line that is too long or no message, a wrong number of descriptors (no more than
\* the four it has room for) or an invalid field: the error is the answer.
RefuseRequest ==
  /\ pc = "read"
  /\ GoTo("send")
  /\ UNCHANGED <<stepUnchanged, runtimeVars, decodeVars>>

\* Truncated (by a fifth descriptor), unexpected or malformed ancillary data, or a value
\* the checks choke on (a list as op, a number too large for its conversion): handle
\* catches none of these errors.  An empty line is no request either.  Nothing is sent;
\* the socket server logs the error and goes on.
RejectUnanswered ==
  /\ pc = "read"
  /\ GoTo("reject")
  /\ UNCHANGED <<stepUnchanged, runtimeVars, decodeVars>>

\* It asks for health, which looks at the runtime, if there is one, and loads none.
AnswerHealth ==
  /\ pc = "read"
  /\ GoTo("send")
  /\ UNCHANGED <<stepUnchanged, runtimeVars, decodeVars>>

\* The client left before it sent anything.
ReadNothing ==
  /\ pc = "read" /\ current \in gone
  /\ GoTo("hangup")
  /\ UNCHANGED <<stepUnchanged, runtimeVars, decodeVars>>

\* LazyTranscriber: the first request that needs the runtime loads it.  Then
\* preload warms up; the other operations of Nano begin with VAD, SenseVoice
\* does all of its work in one call.
LoadRuntime ==
  /\ pc = "load"
  /\ runtime' = TRUE
  /\ GoTo("warmup") \/ GoTo(IF profile = "nano" THEN "vad" ELSE "inline")
  /\ UNCHANGED <<stepUnchanged, profile, warm, decodeVars>>

\* A load that fails is tried again by the next request.
LoadFails ==
  /\ pc = "load" /\ ~runtime
  /\ GoTo("send")
  /\ UNCHANGED <<stepUnchanged, runtimeVars, decodeVars>>

StartDecode == decode' = [decode EXCEPT ![current] = "queued"]

\* preload warms up once in the life of the process; SenseVoice has no warm-up.
WarmUp ==
  /\ pc = "warmup"
  /\ warm' = TRUE
  /\ IF warm \/ profile = "sensevoice" THEN GoTo("send") /\ UNCHANGED decode
     ELSE GoTo("join") /\ StartDecode
  /\ UNCHANGED <<stepUnchanged, profile, runtime, engine>>

\* VAD runs in the main thread, beside a decode that timed out earlier.  It is
\* all that was asked for ...
DetectVad ==
  /\ pc = "vad"
  /\ GoTo("send")
  /\ UNCHANGED <<stepUnchanged, runtimeVars, decodeVars>>

\* ... it finds no speech, or fails ...
NoSpeech ==
  /\ pc = "vad"
  /\ GoTo("send")
  /\ UNCHANGED <<stepUnchanged, runtimeVars, decodeVars>>

\* ... or the windows it found are decoded on a new thread.
DecodeSpeech ==
  /\ pc = "vad"
  /\ StartDecode
  /\ GoTo("join")
  /\ UNCHANGED <<stepUnchanged, runtimeVars, engine>>

\* SenseVoiceRuntime.transcribe runs in the main thread and drops its timeout:
\* whatever it returns or raises is the answer, but it may never return.
TranscribeInline ==
  /\ pc = "inline"
  /\ GoTo("send")
  /\ UNCHANGED <<stepUnchanged, runtimeVars, decodeVars>>

\* The decode came in time: its text or its error is the answer.
JoinDecode ==
  /\ pc = "join" /\ decode[current] = "done"
  /\ decode' = [decode EXCEPT ![current] = "off"]
  /\ GoTo("send")
  /\ UNCHANGED <<stepUnchanged, runtimeVars, engine>>

\* Mutant: join without a timeout.
JoinForEver == FALSE

\* InferenceTimeoutError: the thread and its lock are left behind.
JoinTimesOut ==
  /\ pc = "join" /\ decode[current] # "done"
  /\ GoTo("send")
  /\ UNCHANGED <<stepUnchanged, runtimeVars, decodeVars>>

EndConnection(result) ==
  /\ conn' = [conn EXCEPT ![current] = IF current \in gone THEN "closed" ELSE result]
  /\ gone' = gone \ {current}

SendReply ==
  /\ pc = "send"
  /\ EndConnection("answered")
  /\ GoTo("finish")
  /\ UNCHANGED <<backlog, current, shutdown, term, monitorVars,
                 runtimeVars, decodeVars>>

HangUp ==
  /\ pc \in {"hangup", "reject"}
  /\ EndConnection(IF pc = "reject" THEN "rejected" ELSE "cut")
  /\ GoTo("finish")
  /\ UNCHANGED <<backlog, current, shutdown, term, monitorVars,
                 runtimeVars, decodeVars>>

\* Mutant: a request is never counted out.
FinishUncounted ==
  /\ pc = "finish"
  /\ expired' = FALSE /\ monitor' = Woken
  /\ current' = NoClient
  /\ GoTo("select")
  /\ UNCHANGED <<clientVars, backlog, active, stopped, mainUnchanged>>

\* Mutant: the monitor is not told that the request is over.
FinishSilently ==
  /\ pc = "finish"
  /\ active' = active - 1 /\ expired' = FALSE
  /\ current' = NoClient
  /\ GoTo("select")
  /\ UNCHANGED <<clientVars, backlog, stopped, monitor, mainUnchanged>>

\* request_finished.
Finish ==
  /\ pc = "finish"
  /\ active' = active - 1 /\ expired' = FALSE /\ monitor' = Woken
  /\ current' = NoClient
  /\ GoTo("select")
  /\ UNCHANGED <<clientVars, backlog, stopped, mainUnchanged>>

\* The loop leaves between two requests.
LeaveLoop ==
  /\ pc = "select" /\ shutdown
  /\ shutdown' = FALSE
  /\ GoTo("stop")
  /\ UNCHANGED <<clientVars, backlog, current, runtimeVars, term, monitorVars,
                 decodeVars>>

\* stop_idle_monitor; the join of the monitor gives up after two seconds.
StopMonitor ==
  /\ pc = "stop"
  /\ stopped' = TRUE /\ monitor' = Woken
  /\ GoTo("close")
  /\ UNCHANGED <<clientVars, backlog, current, active, expired, mainUnchanged>>

\* The listening socket and every open connection close with the process, and
\* its threads end with it.
Die ==
  /\ conn' = [c \in Clients |->
                CASE c \in gone \/ conn[c] = "queued" -> "closed"
                  [] conn[c] = "served"             -> "cut"
                  [] OTHER                          -> conn[c]]
  /\ gone' = {} /\ backlog' = <<>> /\ current' = NoClient
  /\ runtime' = FALSE /\ warm' = FALSE /\ shutdown' = FALSE
  /\ active' = 0 /\ expired' = FALSE /\ stopped' = TRUE /\ monitor' = "off"
  /\ decode' = [c \in Clients |-> "off"] /\ engine' = NoClient
  /\ GoTo("exited")
  /\ UNCHANGED profile

CloseServer ==
  /\ pc = "close"
  /\ Die
  /\ UNCHANGED term

Serve ==
  \/ Accept \/ ReadRequest \/ RefuseRequest \/ RejectUnanswered \/ AnswerHealth
  \/ ReadNothing
  \/ LoadRuntime \/ LoadFails \/ WarmUp \/ DetectVad \/ NoSpeech \/ DecodeSpeech
  \/ JoinDecode \/ JoinTimesOut \/ SendReply \/ HangUp \/ Finish
  \/ LeaveLoop \/ StopMonitor \/ CloseServer

-----------------------------------------------------------------------------
(* The idle monitor. *)

monitorUnchanged ==
  <<clientVars, pc, backlog, current, runtimeVars, term, active, stopped, decodeVars>>

\* The idle clock is read, and matters, while no request is counted.
TimePasses ==
  /\ Running /\ ~expired /\ active = 0
  /\ expired' = TRUE
  /\ monitor' = IF monitor = "timed" THEN "watch" ELSE monitor
  /\ UNCHANGED <<monitorUnchanged, shutdown>>

MonitorLooks ==
  /\ monitor = "watch"
  /\ monitor' = IF stopped THEN "off"
                ELSE IF active # 0 THEN "parked"
                ELSE IF ~expired THEN "timed" ELSE "due"
  /\ UNCHANGED <<monitorUnchanged, expired, shutdown>>

\* Mutant: the monitor ends the process itself.
MonitorKills ==
  /\ monitor = "due"
  /\ Die
  /\ UNCHANGED term

\* Outside the condition: a request may have been accepted since.
MonitorShutsDown ==
  /\ monitor = "due"
  /\ IF stopped THEN monitor' = "off" /\ UNCHANGED shutdown
     ELSE monitor' = "shutting" /\ shutdown' = (pc \notin {"stop", "close"})
  /\ UNCHANGED <<monitorUnchanged, expired>>

MonitorEnds ==
  /\ monitor = "shutting" /\ pc \in {"stop", "close"}
  /\ monitor' = "off"
  /\ UNCHANGED <<monitorUnchanged, expired, shutdown>>

Monitor == MonitorLooks \/ MonitorShutsDown \/ MonitorEnds

-----------------------------------------------------------------------------
(* Decode threads: _generate under _generate_lock. *)

\* Mutant: no _generate_lock.
TakeEngineUnlocked(c) ==
  /\ decode[c] = "queued"
  /\ decode' = [decode EXCEPT ![c] = "running"]
  /\ engine' = c
  /\ UNCHANGED <<stepUnchanged, pc, runtimeVars>>

TakeEngine(c) ==
  /\ decode[c] = "queued" /\ engine = NoClient
  /\ decode' = [decode EXCEPT ![c] = "running"]
  /\ engine' = c
  /\ UNCHANGED <<stepUnchanged, pc, runtimeVars>>

\* A thread that nobody joins any more ends unseen.
DecodeEnds(c) ==
  /\ decode[c] = "running"
  /\ decode' = [decode EXCEPT ![c] = IF pc = "join" /\ c = current THEN "done" ELSE "off"]
  /\ engine' = NoClient
  /\ UNCHANGED <<stepUnchanged, pc, runtimeVars>>

-----------------------------------------------------------------------------
(* systemctl stop. *)

\* Where _ShutdownRequested lands: it ends the process only outside a request.
\* In a request it is an error like any other: the connection is closed, or the
\* error is the answer, or the failed warm-up is ignored.
Raised ==
  CASE pc \in {"read", "send"}                             -> "hangup"
    [] pc \in {"load", "warmup", "vad", "inline", "join"} -> "send"
    [] pc = "select"                                       -> "stop"
    [] OTHER                                               -> pc

SigTerm ==
  /\ Running /\ ~term
  /\ term' = TRUE
  /\ pc' = Raised
  /\ UNCHANGED <<clientVars, backlog, current, runtimeVars, shutdown, monitorVars,
                 decodeVars>>

\* TimeoutStopSec has passed.
SigKill ==
  /\ Running /\ term
  /\ Die
  /\ UNCHANGED term

-----------------------------------------------------------------------------
Next ==
  \/ \E c \in Clients : Connect(c) \/ Leave(c) \/ TakeEngine(c) \/ DecodeEnds(c)
  \/ Serve \/ TranscribeInline \/ TimePasses \/ Monitor \/ SigTerm \/ SigKill

\* Loading, VAD and the client's line come to an end; a decode may never, on a
\* thread of its own or in the main thread.
Fairness == WF_vars(Serve) /\ WF_vars(Monitor) /\ WF_vars(TimePasses)

Spec == Init /\ [][Next]_vars /\ Fairness
-----------------------------------------------------------------------------
TypeOK ==
  /\ conn \in [Clients -> {"off", "queued", "served", "answered", "rejected", "cut", "closed"}]
  /\ gone \subseteq Clients
  /\ pc \in {"select", "read", "load", "warmup", "vad", "inline", "join", "send", "hangup",
             "reject", "finish", "stop", "close", "exited"}
  /\ backlog \in Seq(Clients) /\ current \in Clients \union {NoClient}
  /\ profile \in {"nano", "sensevoice"}
  /\ runtime \in BOOLEAN /\ warm \in BOOLEAN /\ shutdown \in BOOLEAN
  /\ term \in BOOLEAN /\ expired \in BOOLEAN /\ stopped \in BOOLEAN
  /\ active \in {0, 1}
  /\ monitor \in {"watch", "parked", "timed", "due", "shutting", "off"}
  /\ decode \in [Clients -> {"off", "queued", "running", "done"}]
  /\ engine \in Clients \union {NoClient}

\* The engine is not re-entrant: no two decodes run at once, although decodes
\* that timed out, a warm-up among them, go on behind later requests.
EngineIsSerial ==
  \A c, d \in Clients : decode[c] = "running" /\ decode[d] = "running" => c = d

\* The idle exit never takes a request the handler has counted, also when the monitor
\* decided before the request came and shuts down while it is served: without a signal,
\* a connection closes unanswered only on a client that left, or whose request raised
\* in the handler (RejectUnanswered).
CountedIsAnswered == ~term => \A c \in Clients : conn[c] # "cut"

\* No client hangs on a Nano worker: it is answered or its connection is closed,
\* even if a decode never comes back, behind others that never do, and whenever
\* the worker exits.  (SenseVoice may hold the main thread for ever.)
NobodyHangs ==
  \A c \in Clients :
    profile = "nano" /\ conn[c] = "queued"
      ~> conn[c] \in {"answered", "rejected", "cut", "closed"}

\* A Nano worker that nobody asks any more exits and gives the accelerator back:
\* the monitor misses no end of a request.
IdleWorkerExits == profile = "nano" ~> pc = "exited"
=============================================================================
