------------------------- MODULE WorkerServer_proofs -------------------------
(***************************************************************************)
(* Proofs about one life of a worker (WorkerServer) for any number of      *)
(* clients.  The invariant ties what a client sees to the step of the main *)
(* thread: only the current client is being served, and only while the     *)
(* handler is at one of its steps; the handler hangs up on a client it     *)
(* does not reject only when that client left or a signal came; a running  *)
(* decode holds the lock.                                                  *)
(***************************************************************************)
EXTENDS WorkerServer, TLAPS

\* The handler's steps until it closes the connection.
Serving == {"read", "load", "warmup", "vad", "inline", "join", "send", "hangup", "reject"}

\* Between request_started and request_finished there is a client, and it is
\* counted once.
RequestIsCounted ==
  /\ pc \in Serving \union {"finish"} => current \in Clients /\ active = 1
  /\ pc \notin Serving \union {"finish"} => active = 0

\* A client is being served only by the handler at work.
ServedIsCurrent ==
  \A c \in Clients : conn[c] = "served" => c = current /\ pc \in Serving

\* But for a request that raised, the handler leaves without an answer only if nobody
\* waits for it, or after a signal.
HangUpIsExcused == pc = "hangup" => term \/ current \in gone

\* A running decode holds _generate_lock.
RunningHoldsEngine == \A c \in Clients : decode[c] = "running" => engine = c

IInv ==
  /\ TypeOK
  /\ RequestIsCounted
  /\ ServedIsCurrent
  /\ HangUpIsExcused
  /\ RunningHoldsEngine
  /\ CountedIsAnswered
-----------------------------------------------------------------------------
\* The invariant holds when the server starts.
LEMMA InitIInv == Init => IInv
<1> SUFFICES ASSUME Init PROVE IInv
  OBVIOUS
<1>1. TypeOK
  <2>1. backlog \in Seq(Clients)
    BY DEF Init
  <2>2. /\ runtime \in BOOLEAN /\ warm \in BOOLEAN /\ shutdown \in BOOLEAN
        /\ term \in BOOLEAN /\ expired \in BOOLEAN /\ stopped \in BOOLEAN
    BY DEF Init
  <2>3. QED BY <2>1, <2>2 DEF Init, TypeOK
<1>2. RequestIsCounted /\ HangUpIsExcused
  BY DEF Init, RequestIsCounted, HangUpIsExcused, Serving
<1>3. ServedIsCurrent /\ RunningHoldsEngine /\ CountedIsAnswered
  BY DEF Init, ServedIsCurrent, RunningHoldsEngine, CountedIsAnswered
<1>4. QED BY <1>1, <1>2, <1>3 DEF IInv

\* The end of the process cuts nobody off that it does not have to: between two
\* requests nobody is being served.
LEMMA DieStep ==
  ASSUME IInv, Die, UNCHANGED term, pc \notin Serving \/ term
  PROVE  IInv'
<1>1. TypeOK'
  <2>1. backlog' \in Seq(Clients)
    BY DEF Die
  <2>2. conn' \in [Clients -> {"off", "queued", "served", "answered", "rejected", "cut", "closed"}]
    BY DEF Die, IInv, TypeOK
  <2>3. /\ runtime' \in BOOLEAN /\ warm' \in BOOLEAN /\ shutdown' \in BOOLEAN
        /\ term' \in BOOLEAN /\ expired' \in BOOLEAN /\ stopped' \in BOOLEAN
    BY DEF Die, IInv, TypeOK
  <2>4. QED BY <2>1, <2>2, <2>3 DEF Die, IInv, TypeOK, GoTo
<1>2. RequestIsCounted' /\ HangUpIsExcused' /\ RunningHoldsEngine'
  BY DEF Die, GoTo, RequestIsCounted, HangUpIsExcused, RunningHoldsEngine, Serving
<1>3. \A c \in Clients :
        /\ conn'[c] # "served"
        /\ conn'[c] = "cut" => conn[c] = "cut" \/ conn[c] = "served"
  BY DEF Die, IInv, TypeOK
<1>4. ServedIsCurrent' /\ CountedIsAnswered'
  BY <1>3 DEF IInv, ServedIsCurrent, CountedIsAnswered
<1>5. QED BY <1>1, <1>2, <1>4 DEF IInv

\* The steps of the handler that touch no connection, no decode and no count.
LEMMA HandlerStep ==
  ASSUME IInv, pc \in Serving, pc' \in Serving, TypeOK',
         UNCHANGED stepUnchanged,
         pc' = "hangup" => current \in gone,
         \A c \in Clients : decode'[c] = "running" => decode[c] = "running" /\ engine' = engine
  PROVE  IInv'
  BY DEF IInv, RequestIsCounted, ServedIsCurrent, HangUpIsExcused, RunningHoldsEngine,
         CountedIsAnswered, stepUnchanged, clientVars, monitorVars, Serving

\* The handler closes the connection: the client has its answer, was rejected or had
\* left, or there was a signal.
LEMMA EndStep ==
  ASSUME IInv, NEW result \in {"answered", "rejected", "cut"}, EndConnection(result),
         pc \in Serving, pc' = "finish", TypeOK',
         result = "cut" => pc = "hangup",
         UNCHANGED <<backlog, current, term, monitorVars, decodeVars>>
  PROVE  IInv'
<1>1. RequestIsCounted' /\ HangUpIsExcused' /\ RunningHoldsEngine'
  BY DEF IInv, RequestIsCounted, HangUpIsExcused, RunningHoldsEngine, Serving,
         monitorVars, decodeVars
<1>2. /\ current \in Clients
      /\ conn'[current] # "served"
      /\ ~term => conn'[current] # "cut"
      /\ \A c \in Clients \ {current} : conn'[c] = conn[c]
  BY DEF EndConnection, IInv, TypeOK, RequestIsCounted, HangUpIsExcused, Serving
<1>3. ServedIsCurrent' /\ CountedIsAnswered'
  BY <1>2 DEF IInv, ServedIsCurrent, CountedIsAnswered
<1>4. QED BY <1>1, <1>3 DEF IInv

\* The monitor's side: no step of the main thread, no connection.
LEMMA MonitorStep ==
  ASSUME IInv, TypeOK', UNCHANGED monitorUnchanged
  PROVE  IInv'
  BY DEF IInv, RequestIsCounted, ServedIsCurrent, HangUpIsExcused, RunningHoldsEngine,
         CountedIsAnswered, monitorUnchanged, clientVars, decodeVars, Serving
-----------------------------------------------------------------------------
\* A step of the main thread in the handler changes at most the runtime's flags and
\* its own decode.
LEMMA HandlerTypes ==
  ASSUME TypeOK, UNCHANGED stepUnchanged, UNCHANGED profile, UNCHANGED engine,
         pc' \in Serving, runtime' \in BOOLEAN, warm' \in BOOLEAN,
         decode' \in [Clients -> {"off", "queued", "running", "done"}]
  PROVE  TypeOK'
  BY DEF TypeOK, stepUnchanged, clientVars, monitorVars, Serving

\* The handler's own steps.
HandlerMoves ==
  \/ ReadRequest \/ RefuseRequest \/ RejectUnanswered \/ AnswerHealth \/ ReadNothing
  \/ LoadRuntime \/ LoadFails \/ WarmUp
  \/ DetectVad \/ NoSpeech \/ DecodeSpeech \/ TranscribeInline \/ JoinDecode \/ JoinTimesOut

\* The handler serves one counted client through load, warm-up and decode.
LEMMA HandlerMovesStep ==
  ASSUME IInv, HandlerMoves
  PROVE  IInv'
<1> USE DEF GoTo
<1>1. /\ pc \in Serving /\ pc' \in Serving
      /\ pc' = "hangup" => current \in gone
  BY DEF HandlerMoves, ReadRequest, RefuseRequest, RejectUnanswered, AnswerHealth, ReadNothing,
         LoadRuntime, LoadFails, WarmUp, DetectVad, NoSpeech, DecodeSpeech, TranscribeInline, JoinDecode,
         JoinTimesOut, Serving
<1>2. UNCHANGED stepUnchanged /\ UNCHANGED profile /\ UNCHANGED engine
  BY DEF HandlerMoves, ReadRequest, RefuseRequest, RejectUnanswered, AnswerHealth, ReadNothing,
         LoadRuntime, LoadFails, WarmUp, DetectVad, NoSpeech, DecodeSpeech, TranscribeInline, JoinDecode,
         JoinTimesOut, runtimeVars, decodeVars
<1>3. \/ UNCHANGED runtime
      \/ runtime' = TRUE
  BY DEF HandlerMoves, ReadRequest, RefuseRequest, RejectUnanswered, AnswerHealth, ReadNothing,
         LoadRuntime, LoadFails, WarmUp, DetectVad, NoSpeech, DecodeSpeech, TranscribeInline, JoinDecode,
         JoinTimesOut, runtimeVars
<1>4. \/ UNCHANGED warm
      \/ warm' = TRUE
  BY DEF HandlerMoves, ReadRequest, RefuseRequest, RejectUnanswered, AnswerHealth, ReadNothing,
         LoadRuntime, LoadFails, WarmUp, DetectVad, NoSpeech, DecodeSpeech, TranscribeInline, JoinDecode,
         JoinTimesOut, runtimeVars
<1>5. \/ UNCHANGED decode
      \/ decode' = [decode EXCEPT ![current] = "queued"]
      \/ decode' = [decode EXCEPT ![current] = "off"]
  BY DEF HandlerMoves, ReadRequest, RefuseRequest, RejectUnanswered, AnswerHealth, ReadNothing,
         LoadRuntime, LoadFails, WarmUp, DetectVad, NoSpeech, DecodeSpeech, TranscribeInline, JoinDecode,
         JoinTimesOut, StartDecode, decodeVars
<1>6. /\ decode' \in [Clients -> {"off", "queued", "running", "done"}]
      /\ \A c \in Clients : decode'[c] = "running" => decode[c] = "running"
  BY <1>5 DEF IInv, TypeOK
<1>7. runtime' \in BOOLEAN /\ warm' \in BOOLEAN
  BY <1>3, <1>4 DEF IInv, TypeOK
<1>8. TypeOK'
  BY <1>1, <1>2, <1>6, <1>7, HandlerTypes DEF IInv
<1>9. QED BY <1>1, <1>2, <1>6, <1>8, HandlerStep

\* Closing the connection keeps the types.
LEMMA EndTypes ==
  ASSUME TypeOK, NEW result \in {"answered", "rejected", "cut"}, EndConnection(result), pc' = "finish",
         UNCHANGED <<backlog, current, shutdown, term, monitorVars, runtimeVars, decodeVars>>
  PROVE  TypeOK'
<1>1. /\ conn' \in [Clients -> {"off", "queued", "served", "answered", "rejected", "cut", "closed"}]
      /\ gone' \subseteq Clients
  BY DEF TypeOK, EndConnection
<1>2. QED BY <1>1 DEF TypeOK, monitorVars, runtimeVars, decodeVars
-----------------------------------------------------------------------------
\* A client is counted when it is accepted.
LEMMA AcceptStep ==
  ASSUME IInv, Accept PROVE IInv'
<1>1. /\ Head(backlog) \in Clients /\ current' = Head(backlog)
      /\ backlog' \in Seq(Clients)
      /\ conn' = [conn EXCEPT ![Head(backlog)] = "served"]
      /\ active = 0 /\ active' = 1
      /\ pc = "select" /\ pc' = "read"
  BY DEF Accept, GoTo, IInv, TypeOK, RequestIsCounted, Serving
<1>2. UNCHANGED <<gone, expired, stopped, shutdown, term>>
      /\ UNCHANGED runtimeVars /\ UNCHANGED decodeVars
  BY DEF Accept, mainUnchanged
<1>3. monitor' \in {"watch", "parked", "timed", "due", "shutting", "off"}
  BY DEF Accept, Woken, IInv, TypeOK
<1>4. TypeOK'
  BY <1>1, <1>2, <1>3 DEF IInv, TypeOK, runtimeVars, decodeVars
<1>5. RequestIsCounted' /\ HangUpIsExcused' /\ RunningHoldsEngine'
  BY <1>1, <1>2 DEF IInv, RequestIsCounted, HangUpIsExcused, RunningHoldsEngine,
                    decodeVars, Serving
<1>6. ServedIsCurrent' /\ CountedIsAnswered'
  BY <1>1, <1>2 DEF IInv, TypeOK, ServedIsCurrent, CountedIsAnswered, Serving
<1>7. QED BY <1>4, <1>5, <1>6 DEF IInv

\* Between two requests, and while nobody is served, the main thread moves freely.
LEMMA FinishStep ==
  ASSUME IInv, Finish \/ LeaveLoop \/ StopMonitor PROVE IInv'
<1>1. /\ pc \notin Serving /\ pc' \in {"select", "stop", "close"}
      /\ active' = 0
  BY DEF Finish, LeaveLoop, StopMonitor, GoTo, IInv, TypeOK, RequestIsCounted, Serving,
         monitorVars
<1>2. /\ UNCHANGED <<conn, gone, backlog, term>>
      /\ UNCHANGED runtimeVars /\ UNCHANGED decodeVars
  BY DEF Finish, LeaveLoop, StopMonitor, clientVars, mainUnchanged
<1>3. monitor' \in {"watch", "parked", "timed", "due", "shutting", "off"}
  BY DEF Finish, LeaveLoop, StopMonitor, Woken, monitorVars, IInv, TypeOK
<1>4. current' \in Clients \union {NoClient}
  BY DEF Finish, LeaveLoop, StopMonitor, IInv, TypeOK
<1>5. shutdown' \in BOOLEAN
  BY DEF Finish, LeaveLoop, StopMonitor, mainUnchanged, IInv, TypeOK
<1>6. expired' \in BOOLEAN /\ stopped' \in BOOLEAN
  BY DEF Finish, LeaveLoop, StopMonitor, monitorVars, IInv, TypeOK
<1>7. TypeOK'
  BY <1>1, <1>2, <1>3, <1>4, <1>5, <1>6 DEF IInv, TypeOK, runtimeVars, decodeVars
<1>8. \A c \in Clients : conn[c] # "served"
  BY <1>1 DEF IInv, ServedIsCurrent
<1>9. QED
  BY <1>1, <1>2, <1>7, <1>8
  DEF IInv, RequestIsCounted, ServedIsCurrent, HangUpIsExcused, RunningHoldsEngine,
      CountedIsAnswered, decodeVars, Serving

\* The monitor decides beside the handler and closes between requests only.
LEMMA MonitorMovesStep ==
  ASSUME IInv, TimePasses \/ Monitor PROVE IInv'
<1>1. UNCHANGED monitorUnchanged
  BY DEF TimePasses, Monitor, MonitorLooks, MonitorShutsDown, MonitorEnds
<1>2. monitor' \in {"watch", "parked", "timed", "due", "shutting", "off"}
  BY DEF TimePasses, Monitor, MonitorLooks, MonitorShutsDown, MonitorEnds, IInv, TypeOK
<1>3. expired' \in BOOLEAN
  BY DEF TimePasses, Monitor, MonitorLooks, MonitorShutsDown, MonitorEnds, IInv, TypeOK
<1>4. shutdown' \in BOOLEAN
  BY DEF TimePasses, Monitor, MonitorLooks, MonitorShutsDown, MonitorEnds, IInv, TypeOK
<1>5. TypeOK'
  BY <1>1, <1>2, <1>3, <1>4
  DEF IInv, TypeOK, monitorUnchanged, clientVars, runtimeVars, decodeVars
<1>6. QED BY <1>1, <1>5, MonitorStep

\* Clients come and go by themselves.
LEMMA ClientStep ==
  ASSUME IInv, NEW c \in Clients, Connect(c) \/ Leave(c) PROVE IInv'
<1>1. UNCHANGED pc /\ UNCHANGED othersUnchanged
  BY DEF Connect, Leave
<1>2. /\ conn' \in [Clients -> {"off", "queued", "served", "answered", "rejected", "cut", "closed"}]
      /\ gone' \subseteq Clients /\ gone \subseteq gone'
      /\ backlog' \in Seq(Clients)
  BY DEF Connect, Leave, IInv, TypeOK
<1>3. \A d \in Clients : conn'[d] # conn[d] => conn'[d] = "queued"
  BY DEF Connect, Leave, IInv, TypeOK
<1>4. TypeOK'
  BY <1>1, <1>2 DEF IInv, TypeOK, othersUnchanged, runtimeVars, monitorVars, decodeVars
<1>5. QED
  BY <1>1, <1>2, <1>3, <1>4
  DEF IInv, RequestIsCounted, ServedIsCurrent, HangUpIsExcused, RunningHoldsEngine,
      CountedIsAnswered, othersUnchanged, monitorVars, decodeVars, Serving

\* A decode thread takes the lock only when no one runs, and gives it back when it
\* is the one that runs.
LEMMA DecodeStep ==
  ASSUME IInv, NEW c \in Clients, TakeEngine(c) \/ DecodeEnds(c) PROVE IInv'
<1>1. UNCHANGED pc /\ UNCHANGED stepUnchanged /\ UNCHANGED runtimeVars
  BY DEF TakeEngine, DecodeEnds
<1>2. /\ decode' \in [Clients -> {"off", "queued", "running", "done"}]
      /\ engine' \in Clients \union {NoClient}
  BY DEF TakeEngine, DecodeEnds, IInv, TypeOK
<1>3. RunningHoldsEngine'
  <2>1. CASE TakeEngine(c)
    <3>1. \A d \in Clients : decode[d] # "running"
      BY <2>1, WorkerConstants DEF TakeEngine, IInv, RunningHoldsEngine
    <3>2. QED BY <2>1, <3>1 DEF TakeEngine, IInv, TypeOK, RunningHoldsEngine
  <2>2. CASE DecodeEnds(c)
    <3>1. \A d \in Clients : decode[d] = "running" => d = c
      BY <2>2 DEF DecodeEnds, IInv, RunningHoldsEngine
    <3>2. QED BY <2>2, <3>1 DEF DecodeEnds, IInv, TypeOK, RunningHoldsEngine
  <2>3. QED BY <2>1, <2>2
<1>4. TypeOK'
  BY <1>1, <1>2 DEF IInv, TypeOK, stepUnchanged, clientVars, runtimeVars, monitorVars
<1>5. QED
  BY <1>1, <1>3, <1>4
  DEF IInv, RequestIsCounted, ServedIsCurrent, HangUpIsExcused, CountedIsAnswered,
      stepUnchanged, clientVars, monitorVars, Serving

\* A signal ends the server outside a request and the request inside one.
LEMMA SigTermStep ==
  ASSUME IInv, SigTerm PROVE IInv'
<1>1. /\ pc \in Serving <=> pc' \in Serving
      /\ pc = "finish" <=> pc' = "finish"
      /\ pc' \in Serving \union {"select", "finish", "stop", "close", "exited"}
  BY DEF SigTerm, Raised, IInv, TypeOK, Serving
<1>2. term' = TRUE
  BY DEF SigTerm
<1>3. /\ UNCHANGED <<backlog, current, shutdown>>
      /\ UNCHANGED clientVars /\ UNCHANGED runtimeVars /\ UNCHANGED monitorVars
      /\ UNCHANGED decodeVars
  BY DEF SigTerm
<1>4. TypeOK'
  BY <1>1, <1>2, <1>3
  DEF IInv, TypeOK, clientVars, runtimeVars, monitorVars, decodeVars, Serving
<1>5. QED
  BY <1>1, <1>2, <1>3, <1>4
  DEF IInv, RequestIsCounted, ServedIsCurrent, HangUpIsExcused, RunningHoldsEngine,
      CountedIsAnswered, clientVars, monitorVars, decodeVars

\* The invariant is about the variables only.
LEMMA StutterStep ==
  ASSUME IInv, UNCHANGED vars PROVE IInv'
<1> USE DEF vars, clientVars, runtimeVars, monitorVars, decodeVars
<1>1. TypeOK'
  BY DEF IInv, TypeOK
<1>2. QED
  BY <1>1 DEF IInv, RequestIsCounted, ServedIsCurrent, HangUpIsExcused,
              RunningHoldsEngine, CountedIsAnswered

\* Every step keeps the invariant.
LEMMA StepIInv == IInv /\ [Next]_vars => IInv'
<1> SUFFICES ASSUME IInv, [Next]_vars PROVE IInv'
  OBVIOUS
<1>1. CASE Accept
  BY <1>1, AcceptStep
<1>2. CASE HandlerMoves
  BY <1>2, HandlerMovesStep
<1>3. CASE SendReply
  <2>1. EndConnection("answered") /\ pc = "send" /\ pc' = "finish"
        /\ UNCHANGED <<backlog, current, shutdown, term, monitorVars, runtimeVars, decodeVars>>
    BY <1>3 DEF SendReply, GoTo
  <2>2. TypeOK'
    BY <2>1, EndTypes DEF IInv
  <2>3. QED BY <2>1, <2>2, EndStep DEF Serving
<1>4. CASE HangUp
  <2> DEFINE result == IF pc = "reject" THEN "rejected" ELSE "cut"
  <2>1. EndConnection(result) /\ pc \in {"hangup", "reject"} /\ pc' = "finish"
        /\ UNCHANGED <<backlog, current, shutdown, term, monitorVars, runtimeVars, decodeVars>>
    BY <1>4 DEF HangUp, GoTo
  <2>2. /\ result \in {"answered", "rejected", "cut"}
        /\ result = "cut" => pc = "hangup"
    BY <2>1
  <2> HIDE DEF result
  <2>3. TypeOK'
    BY <2>1, <2>2, EndTypes DEF IInv
  <2>4. QED BY <2>1, <2>2, <2>3, EndStep DEF Serving
<1>5. CASE Finish \/ LeaveLoop \/ StopMonitor
  BY <1>5, FinishStep
<1>6. CASE CloseServer
  BY <1>6, DieStep DEF CloseServer, Serving
<1>7. CASE TimePasses \/ Monitor
  BY <1>7, MonitorMovesStep
<1>8. CASE SigTerm
  BY <1>8, SigTermStep
<1>9. CASE SigKill
  BY <1>9, DieStep DEF SigKill
<1>10. ASSUME NEW c \in Clients, Connect(c) \/ Leave(c) PROVE IInv'
  BY <1>10, ClientStep
<1>11. ASSUME NEW c \in Clients, TakeEngine(c) \/ DecodeEnds(c) PROVE IInv'
  BY <1>11, DecodeStep
<1>12. CASE UNCHANGED vars
  BY <1>12, StutterStep
<1>13. QED
  BY <1>1, <1>2, <1>3, <1>4, <1>5, <1>6, <1>7, <1>8, <1>9, <1>10, <1>11, <1>12
  DEF Next, Serve, HandlerMoves

\* The invariant holds throughout.
LEMMA InvariantIInv == Spec => []IInv
<1>1. QED BY InitIInv, StepIInv, PTL DEF Spec
-----------------------------------------------------------------------------
\* Every variable keeps its type: among them, that request_started and
\* request_finished never count a request twice.
THEOREM TypeCorrect == Spec => []TypeOK
<1>1. IInv => TypeOK
  BY DEF IInv
<1>2. QED BY <1>1, InvariantIInv, PTL

\* However many decodes timed out and were left behind, no two of them run on the
\* engine at once.
THEOREM DecodesAreSerial == Spec => []EngineIsSerial
<1>1. IInv => EngineIsSerial
  BY DEF IInv, RunningHoldsEngine, EngineIsSerial
<1>2. QED BY <1>1, InvariantIInv, PTL

\* For any number of clients, and wherever the idle monitor's decision falls between
\* the steps of a request, a worker that got no signal closes the connection of a client
\* it counted without an answer only if that client left, or if its request raised in
\* the handler.
THEOREM CountedRequestsAreAnswered == Spec => []CountedIsAnswered
<1>1. IInv => CountedIsAnswered
  BY DEF IInv
<1>2. QED BY <1>1, InvariantIInv, PTL
=============================================================================
