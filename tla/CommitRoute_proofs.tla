------------------------- MODULE CommitRoute_proofs -------------------------
(***************************************************************************)
(* Proofs about CommitRoute, for any windows, tokens, texts and sessions:  *)
(* what the daemon concludes from the addon's replies is what the addon    *)
(* has done.  The addon's own invariant (FcitxAddon_proofs) holds under    *)
(* every step of the route and is used throughout.                         *)
(***************************************************************************)
EXTENDS CommitRoute, FcitxAddon_proofs

(* The inductive invariant. *)

\* What a session has at each point of its life.
Progress ==
  /\ pc = "idle" => sock = "none"
  /\ pc \in {"idle", "focus"} => token = NoToken
  /\ pc \in {"idle", "focus", "recorded"} => total = 0 /\ next = FirstChunk
  /\ pc \in {"recheck", "send", "ack"} => next <= total /\ total # 0
  /\ pc \in {"send", "ack"} => token \in Tokens
  /\ acked \/ cancelled \/ pasted # {} => pc = "close"

\* The protocol is stop-and-wait: a frame is in the socket only while the daemon
\* waits for its answer, and then no other answer is.
Wire ==
  /\ sock = "accepted" => connection = "open" /\ ~hungUp
  /\ hungUp => connection = "open"
  /\ sock = "queued" => pc = "focus"
  /\ sock \in {"none", "refused"} => request = NoRequest
  /\ sock = "accepted" /\ request # NoRequest => reply = NoReply
  /\ sock = "accepted" /\ pc \in {"recorded", "recheck", "send"} => reply = NoReply
  /\ request.op # "OTHER"
  /\ request.op = "START_FOCUS" => pc = "focus"
  /\ request.op = "COMMIT" =>
       /\ pc = "ack" /\ sock = "accepted"
       /\ request.token = token
       /\ request.part.sequence = next /\ request.part.total = total
  /\ late # NoRequest => hungUp

\* A frame of a connection that was given up is of an earlier session, or of this one,
\* which then has no token to send with any more, or goes on to Ctrl+V.
Given ==
  late.op = "COMMIT" =>
    \/ token = NoToken
    \/ pc \in {"fallback", "paste", "close"} /\ ~acked /\ ~cancelled

\* The session's text is in an input context, once and whole.
Entered == \E i \in Committed : Committed = {i} /\ Len(committed[i].text) = total

\* The daemon's token is unspent until the addon has accepted the last chunk, and
\* the daemon learns of it from that answer only.
Texts ==
  /\ pc = "focus" /\ HasReply /\ reply.is = "FOCUS" =>
       \A i \in DOMAIN committed : committed[i].token # reply.token
  /\ pc \in {"recorded", "recheck", "send"} => Committed = {}
  /\ pc = "ack" /\ sock = "accepted" =>
       \/ reply = Ok /\ next = total /\ Entered
       \/ (reply = Ok => next # total) /\ Committed = {}
  /\ acked => Entered
  /\ cancelled => pasted = {} /\ Committed = {}

RouteIInv ==
  /\ RouteTypeOK /\ IInv
  /\ Progress /\ Wire /\ Given /\ Texts /\ NeverSilent

-----------------------------------------------------------------------------
USE DEF addonVars, socketVars, sessionVars, historyVars, routeUnchanged

(* What the addon does, as the route sees it. *)

\* The addon's invariant does not depend on the reply that the client has read.
LEMMA ReadReplyKeeps == ASSUME IInv, ReadReply PROVE IInv'
<1>1. TypeOK'
  BY DEF IInv, ReadReply, TypeOK, Known, Reply, NoReply
<1>2. LiveIsIssued' /\ RevokedWasIssued' /\ CommittedIsSpent' /\ SpentOnce'
  BY DEF IInv, ReadReply, LiveIsIssued, RevokedWasIssued, CommittedIsSpent, SpentOnce, Known
<1>3. BufferIsPrefix' /\ WholeTextOnly'
  BY DEF IInv, ReadReply, BufferIsPrefix, Numbered, WholeTextOnly, Known
<1>4. QED BY <1>1, <1>2, <1>3 DEF IInv

\* A frame in the socket, or of the one before, is one that the addon understands.
LEMMA RequestIsFrame ==
  ASSUME RouteTypeOK
  PROVE  /\ request # NoRequest => request \in Frame
         /\ late # NoRequest => late \in Frame
BY DEF RouteTypeOK

\* A step of the route is a step of the addon or none, or it reads the addon's reply.
LEMMA AddonSteps == ASSUME RouteTypeOK, [RouteNext]_routeVars PROVE [Next]_vars \/ ReadReply
<1>1. CASE UNCHANGED routeVars
  BY <1>1 DEF routeVars
<1>2. CASE Start
  BY <1>2 DEF Start
<1>3. CASE Daemon
  BY <1>3
  DEF Daemon, GotFocus, FocusFails, NoText, Mirror, RecheckFocus, SendChunk, GotAck,
      AckFails, RecheckForPaste, Recheck, Paste, CloseSession
<1>4. CASE AddonReads
  <2>1. request \in Frame /\ Receive(request)
    BY <1>4, RequestIsFrame DEF AddonReads
  <2>2. QED BY <2>1 DEF Next
<1>8. CASE AddonReadsLate
  <2>1. late \in Frame /\ Receive(late)
    BY <1>8, RequestIsFrame DEF AddonReadsLate
  <2>2. QED BY <2>1 DEF Next
<1>5. CASE FcitxFollows
  <2>1. \E c \in Contexts : FocusIn(c) \/ FocusOut(c)
    BY <1>5 DEF FcitxFollows, RouteTypeOK, TypeOK
  <2>2. QED BY <2>1 DEF Next, Focus
<1>6. CASE AddonAccepts \/ AddonAcceptsGhost \/ AddonCloses \/ FcitxRestarts \/ FocusMoves
  BY <1>6
  DEF AddonAccepts, AddonAcceptsGhost, AddonCloses, FcitxRestarts, FocusMoves, Next
<1>7. QED
  BY <1>1, <1>2, <1>3, <1>4, <1>5, <1>6, <1>8 DEF RouteNext, Environment

\* So the addon's invariant is kept.
LEMMA AddonKept == ASSUME RouteTypeOK, IInv, [RouteNext]_routeVars PROVE IInv'
BY AddonSteps, StepIInv, ReadReplyKeeps

\* START_FOCUS and the frames that change nothing are answered without a commit, and a
\* token that is handed out is new.
LEMMA OtherAnswered ==
  ASSUME NEW frame, Receive(frame), frame.op # "COMMIT"
  PROVE  /\ reply' # NoReply /\ connection' = connection /\ committed' = committed
         /\ reply'.is = "FOCUS" => reply'.token \notin DOMAIN issued
<1>1. connection' = connection
  BY DEF Receive
<1>2. CASE HandleOther
  BY <1>1, <1>2 DEF HandleOther, NoReply
<1>3. CASE HandleStartFocus
  <2>1. CASE /\ reply' = [is |-> "REJECT", why |-> "no-input-context"]
             /\ UNCHANGED <<tokens, issued, revoked, committed>>
    BY <1>1, <2>1 DEF NoReply
  <2>2. ASSUME NEW c, NEW t \in Tokens, Issue(c, t)
        PROVE  /\ reply' = [is |-> "FOCUS", token |-> t] /\ t \notin DOMAIN issued
               /\ committed' = committed
    BY <2>2 DEF Issue
  <2>3. QED BY <1>1, <1>3, <2>1, <2>2 DEF HandleStartFocus, NoReply
<1>4. QED BY <1>2, <1>3 DEF Receive, Handle

\* A COMMIT is answered with OK either for the last chunk, and then the text is in, or
\* for another one; with anything else nothing was entered.
LEMMA CommitAnswered ==
  ASSUME IInv, NEW t, NEW p \in Part, HandleCommit(t, p)
  PROVE  /\ reply' # NoReply
         /\ \/ /\ reply' = Ok /\ p.sequence = p.total
               /\ \E parts \in Seq(Part) :
                    t \in Known /\ CommitString(t, parts) /\ Len(parts) = p.total
            \/ (reply' = Ok => p.sequence # p.total) /\ committed' = committed
<1>1. p.sequence \in 1 .. MaxTotal /\ p.total \in 1 .. MaxTotal /\ <<p>> \in Seq(Part)
      /\ Len(<<p>>) = 1
  BY DEF Part
<1>2. /\ Ok # BadSequence /\ Ok # StaleFocus /\ Ok # TooLarge
      /\ NoReply \notin {Ok, BadSequence, StaleFocus, TooLarge}
  BY DEF Ok, BadSequence, StaleFocus, TooLarge, NoReply
<1>3. CASE reply' \in {BadSequence, StaleFocus} /\ UNCHANGED committed
  BY <1>2, <1>3
<1>4. CASE /\ p.sequence <= p.total /\ t \in Known /\ InSequence(tokens[t], p)
           /\ AcceptChunk(t, p)
  <2> DEFINE text == Append(tokens[t].buffer, p)
  <2>1. text \in Seq(Part) /\ Len(text) = p.sequence
    BY <1>4, PrefixGrows
  <2> HIDE DEF text
  <2>2. \/ p.total = 1 /\ CommitString(t, <<p>>) /\ reply' = Ok
        \/ reply' = TooLarge /\ UNCHANGED committed
        \/ p.sequence < p.total /\ reply' = Ok /\ UNCHANGED committed
        \/ p.sequence = p.total /\ CommitString(t, text) /\ reply' = Ok
    BY <1>4 DEF AcceptChunk, text
  <2>3. CASE p.total = 1 /\ CommitString(t, <<p>>) /\ reply' = Ok
    <3>1. p.sequence = p.total
      BY <1>1, <1>4, <2>3
    <3>2. QED BY <1>1, <1>2, <1>4, <2>3, <3>1
  <2>4. CASE p.sequence = p.total /\ CommitString(t, text) /\ reply' = Ok
    BY <1>2, <1>4, <2>1, <2>4
  <2>5. CASE \/ reply' = TooLarge /\ UNCHANGED committed
             \/ p.sequence < p.total /\ reply' = Ok /\ UNCHANGED committed
    BY <1>1, <1>2, <2>5
  <2>6. QED BY <2>2, <2>3, <2>4, <2>5
<1>5. QED
  BY <1>3, <1>4 DEF HandleCommit

\* The other events of fcitx enter nothing.
LEMMA QuietAddon ==
  ASSUME \/ Accept \/ Close \/ \E c : FocusIn(c) \/ FocusOut(c)
  PROVE  committed' = committed
BY DEF Accept, Close, FocusIn, FocusOut, addonHistory

-----------------------------------------------------------------------------
(* The steps of the daemon. *)

Route == RouteTypeOK /\ Progress /\ Wire /\ Texts /\ NeverSilent

\* What was entered, was entered under a token.
LEMMA EntryToken ==
  ASSUME NEW c \in Seq([token: Tokens, context: Contexts, text: Seq(Part)]),
         NEW i \in DOMAIN c
  PROVE  c[i].token \in Tokens
<1> DEFINE Entry == [token: Tokens, context: Contexts, text: Seq(Part)]
<1>1. c[i] \in Entry
  <2>1. c \in Seq(Entry)
    OBVIOUS
  <2> HIDE DEF Entry
  <2>2. QED BY <2>1
<1>2. QED BY <1>1

\* No text was entered for a session without a token.
LEMMA NoTokenNoText == ASSUME RouteTypeOK, token = NoToken PROVE Committed = {}
<1>1. \A i \in DOMAIN committed : committed[i].token \in Tokens
  BY EntryToken DEF RouteTypeOK, TypeOK
<1>2. QED BY <1>1, RouteConstants DEF Committed

\* And none is, by a step that keeps the types.
LEMMA NoTokenNoTextThen == ASSUME RouteTypeOK', token' = NoToken PROVE Committed' = {}
<1>1. \A i \in DOMAIN committed' : committed'[i].token \in Tokens
  BY EntryToken DEF RouteTypeOK, TypeOK
<1>2. QED BY <1>1, RouteConstants DEF Committed

\* The text of a session is what was entered under its token.
LEMMA CommittedKept ==
  /\ UNCHANGED <<committed, token>> => Committed' = Committed
  /\ UNCHANGED <<committed, token, total>> => (Entered' <=> Entered)
BY DEF Committed, Entered

\* Closing the socket drops the frame in it, unless the addon is about to read it.
LEMMA HangUpWire ==
  ASSUME RouteIInv, HangUp, UNCHANGED connection
  PROVE  /\ Wire' /\ sock' = "none" /\ request' = NoRequest /\ hungUp' \in BOOLEAN
         /\ ghost' \in BOOLEAN /\ late' \in Frame \union {NoRequest}
         /\ late' \in {NoRequest, late, request}
<1>1. /\ sock' = "none" /\ request' = NoRequest /\ hungUp' \in BOOLEAN /\ ghost' \in BOOLEAN
      /\ late' \in {NoRequest, late, request}
  BY DEF HangUp, RouteIInv, RouteTypeOK
<1>2. hungUp' => connection' = "open"
  BY DEF HangUp, RouteIInv, Wire
<1>3. late' # NoRequest => hungUp'
  BY DEF HangUp, RouteIInv, Wire
<1>4. Wire'
  BY <1>1, <1>2, <1>3 DEF Wire, NoRequest
<1>5. late' \in Frame \union {NoRequest}
  BY <1>1 DEF RouteIInv, RouteTypeOK
<1>6. QED BY <1>1, <1>4, <1>5

\* A session begins with nothing sent, entered or notified.
LEMMA StartStep == ASSUME RouteIInv, IInv', Start PROVE Route'
<1> USE DEF RouteIInv
<1>1. /\ pc = "idle" /\ pc' \in {"focus", "recorded"} /\ sock = "none" /\ token = NoToken
      /\ request = NoRequest
      /\ UNCHANGED <<addonVars, window, clipboard, token, total, next, clipboardOk, hungUp,
                     late, ghost, historyVars>>
  BY DEF Start, Progress, Wire
<1>2. UNCHANGED <<committed, reply, connection>>
  BY <1>1 DEF vars, engineVars, addonHistory
<1>3. RouteTypeOK'
  <2>1. TypeOK'
    BY DEF IInv
  <2>2. [op |-> "START_FOCUS"] \in Frame
    BY DEF Frame
  <2>3. QED BY <1>1, <2>1, <2>2, RouteConstants DEF Start, RouteTypeOK
<1>4. Progress'
  BY <1>1 DEF Progress
<1>5. \/ pc' = "focus" /\ sock' = "queued" /\ request' = [op |-> "START_FOCUS"]
      \/ pc' = "recorded" /\ sock' = "none" /\ request' = NoRequest
  BY <1>1 DEF Start
<1>6. Wire'
  BY <1>1, <1>2, <1>5 DEF Wire, NoRequest
<1>7. Committed' = {}
  BY <1>1, <1>2, CommittedKept, NoTokenNoText
<1>8. Texts' /\ NeverSilent'
  BY <1>1, <1>5, <1>7 DEF Progress, Texts, NeverSilent, HasReply
<1>9. QED BY <1>3, <1>4, <1>6, <1>8 DEF Route

\* The token of a FOCUS reply has committed nothing.
LEMMA GotFocusStep == ASSUME RouteIInv, IInv', GotFocus PROVE Route'
<1> USE DEF RouteIInv
<1>1. /\ pc = "focus" /\ pc' = "recorded" /\ HasReply
      /\ token' = IF reply.is = "FOCUS" THEN reply.token ELSE NoToken
      /\ UNCHANGED <<window, clipboard, sessions, snapshot, total, next, clipboardOk,
                     socketVars, historyVars, connection, committed>>
      /\ reply' = NoReply
  BY DEF GotFocus, ReadReply
<1>2. token' \in Tokens \union {NoToken}
  BY <1>1 DEF RouteTypeOK, TypeOK, Reply
<1>3. TypeOK'
  BY DEF IInv
<1>4. RouteTypeOK'
  BY <1>1, <1>2, <1>3 DEF RouteTypeOK
<1>5. Progress'
  BY <1>1 DEF Progress
<1>6. sock = "accepted" /\ request = NoRequest
  BY <1>1 DEF HasReply, Wire
<1>7. Wire'
  BY <1>1, <1>6 DEF Wire, NoRequest
<1>8. Committed' = {}
  <2>1. CASE reply.is = "FOCUS"
    BY <1>1, <2>1 DEF Texts, Committed
  <2>2. CASE reply.is # "FOCUS"
    <3>1. \A i \in DOMAIN committed' : committed'[i].token \in Tokens
      BY <1>3, EntryToken DEF TypeOK
    <3>2. QED BY <1>1, <2>2, <3>1, RouteConstants DEF Committed
  <2>3. QED BY <2>1, <2>2
<1>9. Texts' /\ NeverSilent'
  BY <1>1, <1>8 DEF Progress, Texts, NeverSilent
<1>10. QED BY <1>4, <1>5, <1>7, <1>9 DEF Route

\* A wait given up closes the socket: the daemon will read no answer.
LEMMA WaitEnds == ASSUME RouteIInv, IInv', FocusFails \/ AckFails PROVE Route'
<1> USE DEF RouteIInv
<1>1. /\ \/ pc = "focus" /\ pc' = "recorded"
         \/ pc = "ack" /\ pc' = "fallback"
      /\ HangUp
      /\ UNCHANGED <<addonVars, window, clipboard, sessionVars, historyVars>>
  BY DEF FocusFails, AckFails
<1>2. UNCHANGED <<committed, connection>>
  BY <1>1 DEF vars, engineVars, addonHistory
<1>3. /\ Wire' /\ sock' = "none" /\ request' = NoRequest /\ hungUp' \in BOOLEAN
      /\ ghost' \in BOOLEAN /\ late' \in Frame \union {NoRequest}
  BY <1>1, <1>2, HangUpWire
<1>4. TypeOK'
  BY DEF IInv
<1>5. RouteTypeOK'
  BY <1>1, <1>3, <1>4 DEF RouteTypeOK
<1>6. Progress'
  BY <1>1 DEF Progress
<1>7. Committed' = Committed /\ (pc = "focus" => Committed = {})
  BY <1>1, <1>2, CommittedKept, NoTokenNoText DEF Progress
<1>8. Texts' /\ NeverSilent'
  BY <1>1, <1>7 DEF Progress, Texts, NeverSilent
<1>9. QED BY <1>3, <1>5, <1>6, <1>8 DEF Route

\* There is a text, or the session ends without one; the clipboard gets it or
\* not.
LEMMA TextStep == ASSUME RouteIInv, IInv', NoText \/ Mirror PROVE Route'
<1> USE DEF RouteIInv
<1>1. /\ pc = "recorded" /\ pc' \in {"close", "recheck"}
      /\ UNCHANGED <<addonVars, window, sessions, snapshot, token, next, socketVars,
                     historyVars>>
  BY DEF NoText, Mirror
<1>2. \/ pc' = "close" /\ total' = total
      \/ pc' = "recheck" /\ total' \in 1 .. MaxTotal
  BY DEF NoText, Mirror
<1>3. UNCHANGED <<committed, reply, connection>>
  BY <1>1 DEF vars, engineVars, addonHistory
<1>4. RouteTypeOK'
  <2>1. TypeOK' /\ total' \in 0 .. MaxTotal
    BY <1>2, AddonConstants DEF IInv, RouteTypeOK
  <2>2. clipboard' \in Content /\ clipboardOk' \in BOOLEAN
    BY DEF NoText, Mirror, RouteTypeOK, Content
  <2>3. QED BY <1>1, <2>1, <2>2 DEF RouteTypeOK
<1>5. Progress'
  BY <1>1, <1>2, AddonConstants DEF Progress, FirstChunk
<1>6. Wire'
  BY <1>1, <1>3 DEF Wire, HasReply
<1>7. Committed' = {}
  BY <1>1, <1>3, CommittedKept DEF Texts
<1>8. Texts' /\ NeverSilent'
  BY <1>1, <1>2, <1>7 DEF Progress, Texts, NeverSilent
<1>9. QED BY <1>4, <1>5, <1>6, <1>8 DEF Route

\* The focus is compared before the text is sent and before it is pasted.
LEMMA RecheckStep ==
  ASSUME RouteIInv, IInv', RecheckFocus \/ RecheckForPaste
  PROVE  Route'
<1> USE DEF RouteIInv
<1>1. /\ \/ pc = "recheck" /\ pc' \in {"close", "send", "fallback"}
            /\ (pc' = "send" => token # NoToken)
         \/ pc = "fallback" /\ pc' \in {"close", "paste"}
      /\ UNCHANGED <<addonVars, window, clipboard, sessionVars, socketVars, acked, cancelled,
                     pasted>>
  BY DEF RecheckFocus, RecheckForPaste, Recheck
<1>2. UNCHANGED <<committed, reply, connection>>
  BY <1>1 DEF vars, engineVars, addonHistory
<1>3. notices' \subseteq Notice /\ (pc' = "close" => notices' # {})
  BY DEF RecheckFocus, RecheckForPaste, Recheck, Notify, NotifyFocusOrClipboard, RouteTypeOK,
         Notice
<1>4. RouteTypeOK'
  BY <1>1, <1>3 DEF IInv, RouteTypeOK
<1>5. Progress'
  BY <1>1 DEF Progress, RouteTypeOK
<1>6. HasReply => HasReply' /\ reply' = reply
  BY <1>1, <1>2 DEF HasReply
<1>7. Wire'
  <2>1. sock = "accepted" /\ pc' = "send" => reply = NoReply
    BY <1>1 DEF Wire
  <2>2. QED BY <1>1, <1>2, <2>1 DEF Wire
<1>8. Committed' = Committed
  BY <1>1, <1>2, CommittedKept
<1>9. Texts' /\ NeverSilent'
  BY <1>1, <1>3, <1>8 DEF Progress, Texts, NeverSilent
<1>10. QED BY <1>4, <1>5, <1>7, <1>9 DEF Route

\* A chunk goes out while no answer is under way.
LEMMA SendStep == ASSUME RouteIInv, IInv', SendChunk PROVE Route'
<1> USE DEF RouteIInv
<1>1. /\ pc = "send" /\ token \in Tokens
      /\ UNCHANGED <<addonVars, window, clipboard, sessionVars, historyVars>>
  BY DEF SendChunk, Progress
<1>2. UNCHANGED <<committed, reply, connection>>
  BY <1>1 DEF vars, engineVars, addonHistory
<1>3. Committed' = {}
  BY <1>1, <1>2, CommittedKept DEF Texts
<1>4. CASE sock = "refused" /\ HangUp /\ pc' = "fallback"
  <2>1. /\ Wire' /\ sock' = "none" /\ request' = NoRequest /\ hungUp' \in BOOLEAN
        /\ ghost' \in BOOLEAN /\ late' \in Frame \union {NoRequest}
    BY <1>2, <1>4, HangUpWire
  <2>2. RouteTypeOK'
    BY <1>1, <1>4, <2>1 DEF IInv, RouteTypeOK
  <2>3. Progress'
    BY <1>1, <1>4 DEF Progress
  <2>4. Texts' /\ NeverSilent'
    BY <1>1, <1>3, <1>4 DEF Progress, Texts, NeverSilent
  <2>5. QED BY <2>1, <2>2, <2>3, <2>4 DEF Route
<1>5. ASSUME sock = "accepted", pc' = "ack", NEW size \in Sizes,
             Send([op |-> "COMMIT", token |-> token,
                   part |-> [sequence |-> next, total |-> total, size |-> size]])
      PROVE  Route'
  <2> DEFINE frame == [op |-> "COMMIT", token |-> token,
                       part |-> [sequence |-> next, total |-> total, size |-> size]]
  <2>1. request' = frame /\ UNCHANGED <<sock, hungUp, late, ghost>>
    BY <1>5 DEF Send
  <2>2. frame \in Frame
    <3>1. next \in 1 .. MaxTotal /\ total \in 1 .. MaxTotal
      BY <1>1, AddonConstants DEF RouteTypeOK, Progress
    <3>2. [sequence |-> next, total |-> total, size |-> size] \in Part
      BY <3>1 DEF Part
    <3>3. QED BY <1>1, <3>2 DEF Frame
  <2>3. RouteTypeOK'
    BY <1>1, <1>5, <2>1, <2>2 DEF IInv, RouteTypeOK
  <2>4. Progress'
    BY <1>1, <1>5 DEF Progress
  <2>5. reply' = NoReply
    BY <1>1, <1>2, <1>5 DEF Wire
  <2>6. Wire'
    BY <1>1, <1>2, <1>5, <2>1, <2>5 DEF Wire, NoRequest
  <2>7. Texts' /\ NeverSilent'
    BY <1>1, <1>3, <1>5, <2>5 DEF Progress, Texts, NeverSilent, NoReply, Ok
  <2>8. QED BY <2>3, <2>4, <2>6, <2>7 DEF Route
<1>6. QED BY <1>4, <1>5 DEF SendChunk

\* An OK to the last chunk means that the text is in; a reject that it is not.
LEMMA AckStep == ASSUME RouteIInv, IInv', GotAck PROVE Route'
<1> USE DEF RouteIInv
<1>1. /\ pc = "ack" /\ sock = "accepted" /\ reply # NoReply /\ request = NoRequest
      /\ reply' = NoReply
      /\ UNCHANGED <<window, clipboard, sessions, snapshot, token, total, clipboardOk,
                     socketVars, pasted, committed, connection>>
  BY DEF GotAck, HasReply, ReadReply, Wire
<1>2. /\ Committed' = Committed /\ ~acked /\ ~cancelled /\ pasted = {}
      /\ next <= total /\ total # 0 /\ token \in Tokens /\ next \in 1 .. MaxTotal
      /\ total \in 0 .. MaxTotal
  BY <1>1, CommittedKept DEF Progress, RouteTypeOK
<1>3. TypeOK'
  BY DEF IInv
<1>4. Ok # StaleFocus
  BY DEF Ok, StaleFocus
<1>5. CASE reply = Ok /\ next < total /\ next' = next + 1 /\ pc' = "send"
           /\ UNCHANGED <<acked, notices, cancelled>>
  <2>1. next' \in 1 .. MaxTotal /\ next' <= total
    BY <1>2, <1>5, AddonConstants
  <2>2. RouteTypeOK'
    BY <1>1, <1>3, <1>5, <2>1 DEF RouteTypeOK
  <2>3. Progress'
    BY <1>1, <1>2, <1>5, <2>1 DEF Progress
  <2>4. Wire'
    BY <1>1, <1>5 DEF Wire, NoRequest
  <2>5. Committed = {}
    BY <1>1, <1>2, <1>5 DEF Texts
  <2>6. Texts' /\ NeverSilent'
    BY <1>1, <1>2, <1>5, <2>5 DEF Texts, NeverSilent
  <2>7. QED BY <2>2, <2>3, <2>4, <2>6 DEF Route
<1>6. CASE /\ reply = Ok /\ next = total /\ acked' = TRUE /\ pc' = "close" /\ next' = next
           /\ notices' = notices \union (IF clipboardOk THEN {} ELSE {"clipboard"})
           /\ UNCHANGED cancelled
  <2>1. RouteTypeOK'
    BY <1>1, <1>3, <1>6 DEF RouteTypeOK, Notice
  <2>2. Progress'
    BY <1>1, <1>2, <1>6 DEF Progress
  <2>3. Wire'
    BY <1>1, <1>6 DEF Wire, NoRequest
  <2>4. Entered'
    BY <1>1, <1>6, CommittedKept DEF Texts
  <2>5. Texts' /\ NeverSilent'
    BY <1>1, <1>2, <1>6, <2>4 DEF Texts, NeverSilent
  <2>6. QED BY <2>1, <2>2, <2>3, <2>5 DEF Route
<1>7. CASE Rejected /\ UNCHANGED <<next, acked>>
  <2>1. /\ reply = StaleFocus /\ cancelled' = TRUE /\ pc' = "close"
        /\ notices' = notices \union {IF clipboardOk THEN "cancelled" ELSE "result-lost"}
    BY <1>7 DEF Rejected, NotifyFocusOrClipboard, Notify
  <2>2. RouteTypeOK'
    BY <1>1, <1>3, <1>7, <2>1 DEF RouteTypeOK, Notice
  <2>3. Progress'
    BY <1>1, <1>2, <1>7, <2>1 DEF Progress
  <2>4. Wire'
    BY <1>1, <1>7, <2>1 DEF Wire, NoRequest
  <2>5. Committed = {}
    BY <1>1, <1>4, <2>1 DEF Texts
  <2>6. Texts' /\ NeverSilent'
    BY <1>1, <1>2, <1>7, <2>1, <2>5 DEF Texts, NeverSilent
  <2>7. QED BY <2>2, <2>3, <2>4, <2>6 DEF Route
<1>8. CASE pc' = "fallback" /\ UNCHANGED <<next, acked, cancelled, notices>>
  <2>1. RouteTypeOK'
    BY <1>1, <1>3, <1>8 DEF RouteTypeOK
  <2>2. Progress'
    BY <1>1, <1>2, <1>8 DEF Progress
  <2>3. Wire'
    BY <1>1, <1>8 DEF Wire, NoRequest
  <2>4. Texts' /\ NeverSilent'
    BY <1>1, <1>2, <1>8 DEF Texts, NeverSilent
  <2>5. QED BY <2>1, <2>2, <2>3, <2>4 DEF Route
<1>9. QED
  BY <1>5, <1>6, <1>7, <1>8 DEF GotAck, Acked

\* The fallback pastes and tells, or only tells.
LEMMA PasteStep == ASSUME RouteIInv, IInv', Paste PROVE Route'
<1> USE DEF RouteIInv
<1>1. /\ pc = "paste" /\ pc' = "close"
      /\ UNCHANGED <<addonVars, window, clipboard, sessionVars, socketVars, acked, cancelled>>
  BY DEF Paste
<1>2. /\ notices' \subseteq Notice /\ pasted' \subseteq [window: Contexts, text: Content]
      /\ (pasted' # {} \/ notices' # {})
  <2>1. notices \subseteq Notice /\ pasted \subseteq [window: Contexts, text: Content]
        /\ window \in Contexts /\ clipboard \in Content
    BY DEF RouteTypeOK
  <2>2. CASE Notify("injection") /\ UNCHANGED pasted
    BY <2>1, <2>2 DEF Notify, Notice
  <2>3. CASE /\ pasted' = pasted \union {[window |-> window, text |-> clipboard]}
             /\ notices' = notices \union (IF clipboardOk THEN {} ELSE {"clipboard"})
    <3>1. [window |-> window, text |-> clipboard] \in [window: Contexts, text: Content]
      BY <2>1
    <3>2. notices' \subseteq Notice
      BY <2>1, <2>3 DEF Notice
    <3>3. QED BY <2>1, <2>3, <3>1, <3>2
  <2>4. QED BY <2>2, <2>3 DEF Paste
<1>3. UNCHANGED <<committed, reply, connection>>
  BY <1>1 DEF vars, engineVars, addonHistory
<1>4. RouteTypeOK'
  BY <1>1, <1>2 DEF IInv, RouteTypeOK
<1>5. Progress'
  BY <1>1 DEF Progress
<1>6. Wire'
  BY <1>1, <1>3 DEF Wire
<1>7. Texts' /\ NeverSilent'
  BY <1>1, <1>2 DEF Progress, Texts, NeverSilent
<1>8. QED BY <1>4, <1>5, <1>6, <1>7 DEF Route

\* The end of a session forgets its histories.
LEMMA CloseSessionStep == ASSUME RouteIInv, IInv', CloseSession PROVE Route'
<1> USE DEF RouteIInv
<1>1. /\ pc' = "idle" /\ HangUp /\ clipboard' = "foreign" /\ snapshot' = NoContext
      /\ token' = NoToken /\ total' = 0 /\ next' = FirstChunk /\ clipboardOk' = TRUE
      /\ acked' = FALSE /\ cancelled' = FALSE /\ pasted' = {} /\ notices' = {}
      /\ UNCHANGED <<addonVars, window, sessions>>
  BY DEF CloseSession
<1>2. UNCHANGED <<committed, reply, connection>>
  BY <1>1 DEF vars, engineVars, addonHistory
<1>3. /\ Wire' /\ sock' = "none" /\ request' = NoRequest /\ hungUp' \in BOOLEAN
      /\ ghost' \in BOOLEAN /\ late' \in Frame \union {NoRequest}
  BY <1>1, <1>2, HangUpWire
<1>4. RouteTypeOK'
  <2>1. TypeOK' /\ FirstChunk \in 1 .. MaxTotal /\ 0 \in 0 .. MaxTotal
    BY AddonConstants DEF IInv, FirstChunk
  <2>2. window \in Contexts /\ sessions \in 0 .. MaxSessions
    BY DEF RouteTypeOK
  <2>3. QED BY <1>1, <1>3, <2>1, <2>2 DEF RouteTypeOK, Content
<1>5. Progress'
  BY <1>1, <1>3 DEF Progress
<1>6. Texts' /\ NeverSilent'
  BY <1>1 DEF Texts, NeverSilent
<1>7. QED BY <1>3, <1>4, <1>5, <1>6 DEF Route

-----------------------------------------------------------------------------
(* The steps of fcitx and of the user. *)

\* What the daemon knows of its session stays as it is.
LEMMA SessionKept ==
  ASSUME RouteIInv, IInv', UNCHANGED <<clipboard, pc, sessionVars, historyVars>>,
         window' \in Contexts, request' \in {request, NoRequest},
         late' \in {late, NoRequest}, hungUp' \in BOOLEAN,
         ghost' \in BOOLEAN, sock' \in {"none", "queued", "accepted", "refused"},
         sock = "none" => sock' = "none"
  PROVE  RouteTypeOK' /\ Progress' /\ NeverSilent'
<1> USE DEF RouteIInv
<1>1. RouteTypeOK'
  BY DEF IInv, RouteTypeOK
<1>2. Progress'
  BY DEF Progress
<1>3. NeverSilent'
  BY DEF NeverSilent
<1>4. QED BY <1>1, <1>2, <1>3

\* Nothing was entered, and no answer came that the daemon can read.
LEMMA NothingNew ==
  ASSUME RouteIInv, UNCHANGED <<committed, pc, sessionVars, historyVars>>,
         HasReply' => HasReply /\ reply' = reply,
         sock' = "accepted" /\ pc = "ack" => sock = "accepted" /\ reply' = reply
  PROVE  Texts'
<1>1. Committed' = Committed /\ (Entered' <=> Entered)
  BY CommittedKept
<1>2. QED BY <1>1 DEF RouteIInv, Texts

\* The addon takes the daemon's connection when it has none.
LEMMA AcceptStep == ASSUME RouteIInv, IInv', AddonAccepts PROVE Route'
<1> USE DEF RouteIInv
<1>1. /\ sock = "queued" /\ pc = "focus" /\ UNCHANGED <<routeUnchanged, hungUp, late, ghost>>
  BY DEF AddonAccepts, Wire
<1>2. CASE Accept /\ sock' = "accepted" /\ UNCHANGED request
  <2>1. /\ connection' = "open" /\ reply' = NoReply /\ committed' = committed /\ ~hungUp
    BY <1>2 DEF Accept, Wire, addonHistory
  <2>2. RouteTypeOK' /\ Progress' /\ NeverSilent'
    BY <1>1, <1>2, SessionKept DEF RouteTypeOK
  <2>3. Wire'
    BY <1>1, <1>2, <2>1 DEF Wire
  <2>4. Texts'
    BY <1>1, <1>2, <2>1, NothingNew DEF HasReply
  <2>5. QED BY <2>2, <2>3, <2>4 DEF Route
<1>3. CASE sock' = "refused" /\ request' = NoRequest /\ UNCHANGED addonVars
  <2>1. UNCHANGED <<committed, reply, connection>>
    BY <1>3 DEF vars, engineVars, addonHistory
  <2>2. RouteTypeOK' /\ Progress' /\ NeverSilent'
    BY <1>1, <1>3, SessionKept DEF RouteTypeOK
  <2>3. Wire'
    BY <1>1, <1>3, <2>1 DEF Wire, NoRequest
  <2>4. Texts'
    BY <1>1, <1>3, <2>1, NothingNew DEF HasReply
  <2>5. QED BY <2>2, <2>3, <2>4 DEF Route
<1>4. QED BY <1>2, <1>3 DEF AddonAccepts

\* The addon takes a connection that the daemon has given up.
LEMMA GhostStep == ASSUME RouteIInv, IInv', AddonAcceptsGhost PROVE Route'
<1> USE DEF RouteIInv
<1>1. /\ ghost' = FALSE /\ UNCHANGED <<routeUnchanged, sock, request, late>>
      /\ \/ Accept /\ hungUp' = TRUE
         \/ connection = "open" /\ UNCHANGED <<addonVars, hungUp>>
  BY DEF AddonAcceptsGhost
<1>2. RouteTypeOK' /\ Progress' /\ NeverSilent'
  BY <1>1, SessionKept DEF RouteTypeOK
<1>3. CASE Accept /\ hungUp' = TRUE
  <2>1. /\ connection # "open" /\ connection' = "open" /\ reply' = NoReply
        /\ committed' = committed /\ sock # "accepted"
    BY <1>3 DEF Accept, Wire, addonHistory
  <2>2. Wire'
    BY <1>1, <1>3, <2>1 DEF Wire
  <2>3. Texts'
    BY <1>1, <2>1, NothingNew DEF HasReply
  <2>4. QED BY <1>2, <2>2, <2>3 DEF Route
<1>4. CASE connection = "open" /\ UNCHANGED <<addonVars, hungUp>>
  <2>1. UNCHANGED <<committed, reply, connection>>
    BY <1>4 DEF vars, engineVars, addonHistory
  <2>2. Wire'
    BY <1>1, <1>4, <2>1 DEF Wire
  <2>3. Texts'
    BY <1>1, <2>1, NothingNew DEF HasReply
  <2>4. QED BY <1>2, <2>2, <2>3 DEF Route
<1>5. QED BY <1>1, <1>3, <1>4

\* A frame is read and answered.
LEMMA ReadStep == ASSUME RouteIInv, IInv', AddonReads PROVE Route'
<1> USE DEF RouteIInv
<1>1. /\ sock = "accepted" /\ request # NoRequest /\ request \in Frame /\ Receive(request)
      /\ request' = NoRequest /\ UNCHANGED <<routeUnchanged, sock, hungUp, late, ghost>>
  BY RequestIsFrame DEF AddonReads
<1>2. connection' = connection
  BY <1>1 DEF Receive
<1>3. RouteTypeOK' /\ Progress' /\ NeverSilent'
  BY <1>1, SessionKept DEF RouteTypeOK
<1>4. CASE request.op # "COMMIT"
  <2>1. /\ reply' # NoReply /\ committed' = committed
        /\ reply'.is = "FOCUS" => reply'.token \notin DOMAIN issued
    BY <1>1, <1>4, OtherAnswered
  <2>2. request.op = "START_FOCUS" /\ pc = "focus"
    <3>1. request.op \in {"START_FOCUS", "OTHER"}
      BY <1>1, <1>4 DEF Frame
    <3>2. QED BY <3>1 DEF Wire
  <2>3. Wire'
    BY <1>1, <1>2, <2>2 DEF Wire, NoRequest
  <2>4. \A i \in DOMAIN committed : committed[i].token \in DOMAIN issued
    BY DEF IInv, CommittedIsSpent
  <2>5. Texts'
    BY <1>1, <2>1, <2>2, <2>4 DEF Texts, Progress
  <2>6. QED BY <1>3, <2>3, <2>5 DEF Route
<1>5. CASE request.op = "COMMIT"
  <2> DEFINE p == request.part
  <2>1. /\ pc = "ack" /\ request.token = token /\ p.sequence = next /\ p.total = total
    BY <1>5 DEF Wire
  <2>2. p \in Part /\ HandleCommit(token, p)
    BY <1>1, <1>5, <2>1, CommitFrame DEF Receive, Handle
  <2>3. reply = NoReply /\ Committed = {}
    BY <1>1, <2>1 DEF Wire, Texts, NoReply, Ok
  <2> HIDE DEF p
  <2>4. /\ reply' # NoReply
        /\ \/ /\ reply' = Ok /\ next = total
              /\ \E parts \in Seq(Part) : CommitString(token, parts) /\ Len(parts) = total
           \/ (reply' = Ok => next # total) /\ committed' = committed
    BY <2>1, <2>2, CommitAnswered
  <2>5. Wire'
    BY <1>1, <1>2, <2>1 DEF Wire, NoRequest
  <2>6. CASE (reply' = Ok => next # total) /\ committed' = committed
    <3>1. Committed' = {}
      BY <1>1, <2>3, <2>6, CommittedKept
    <3>2. Texts'
      BY <1>1, <2>1, <2>6, <3>1 DEF Texts, Progress
    <3>3. QED BY <1>3, <2>5, <3>2 DEF Route
  <2>7. ASSUME reply' = Ok, next = total, NEW parts \in Seq(Part),
               CommitString(token, parts), Len(parts) = total
        PROVE  Route'
    <3> DEFINE Entry == [token: Tokens, context: Contexts, text: Seq(Part)]
               c == [token |-> token, context |-> tokens[token].uuid, text |-> parts]
               n == Len(committed) + 1
    <3>1. committed' = Append(committed, c) /\ committed \in Seq(Entry) /\ c.token = token
          /\ c.text = parts
      BY <2>7 DEF CommitString, RouteTypeOK, TypeOK
    <3> HIDE DEF c, Entry
    <3>2. /\ DOMAIN committed' = DOMAIN committed \union {n} /\ committed'[n] = c
          /\ \A i \in DOMAIN committed : committed'[i] = committed[i]
      BY <3>1
    <3>3. Committed' = {n}
      BY <1>1, <2>3, <3>1, <3>2 DEF Committed
    <3>4. Entered'
      BY <1>1, <2>7, <3>1, <3>2, <3>3 DEF Entered
    <3>5. Texts'
      BY <1>1, <2>1, <2>7, <3>4 DEF Texts, Progress
    <3>6. QED BY <1>3, <2>5, <3>5 DEF Route
  <2>8. QED BY <2>4, <2>6, <2>7
<1>6. QED BY <1>4, <1>5

\* A frame that is read after the hang-up is answered to nobody; what it enters is the
\* text of an earlier session, or of one that has gone on to Ctrl+V.
LEMMA ReadLateStep == ASSUME RouteIInv, IInv', AddonReadsLate PROVE Route'
<1> USE DEF RouteIInv
<1>1. /\ late # NoRequest /\ hungUp /\ sock # "accepted" /\ Receive(late) /\ late \in Frame
      /\ late' = NoRequest /\ UNCHANGED <<routeUnchanged, sock, request, hungUp, ghost>>
  BY RequestIsFrame DEF AddonReadsLate, Wire
<1>2. connection' = connection
  BY <1>1 DEF Receive
<1>3. RouteTypeOK' /\ Progress' /\ NeverSilent'
  BY <1>1, SessionKept DEF RouteTypeOK
<1>4. Wire'
  BY <1>1, <1>2 DEF Wire
<1>5. CASE late.op # "COMMIT"
  <2>1. committed' = committed
    BY <1>1, <1>5, OtherAnswered
  <2>2. Texts'
    BY <1>1, <2>1, NothingNew DEF HasReply
  <2>3. QED BY <1>3, <1>4, <2>2 DEF Route
<1>6. CASE late.op = "COMMIT" /\ token = NoToken
  <2>1. Committed' = {} /\ Committed = {}
    BY <1>1, <1>3, <1>6, NoTokenNoText, NoTokenNoTextThen
  <2>2. Texts'
    BY <1>1, <1>6, <2>1 DEF Texts, Progress, HasReply, Entered
  <2>3. QED BY <1>3, <1>4, <2>2 DEF Route
<1>7. CASE pc \in {"fallback", "paste", "close"} /\ ~acked /\ ~cancelled
  <2>1. Texts'
    BY <1>1, <1>7 DEF Texts
  <2>2. QED BY <1>3, <1>4, <2>1 DEF Route
<1>8. QED BY <1>5, <1>6, <1>7 DEF Given

\* The addon closes its end, or fcitx exits.
LEMMA CloseStep == ASSUME RouteIInv, IInv', AddonCloses \/ FcitxRestarts PROVE Route'
<1> USE DEF RouteIInv
<1>1. /\ UNCHANGED routeUnchanged /\ hungUp' = FALSE /\ late' = NoRequest /\ ghost' \in BOOLEAN
      /\ Close \/ (UNCHANGED addonVars /\ FcitxRestarts)
      /\ request' \in {request, NoRequest}
  BY DEF AddonCloses, FcitxRestarts, RouteTypeOK
<1>2. committed' = committed
  BY <1>1, QuietAddon DEF vars, addonHistory
<1>3. sock' # "accepted" /\ (sock = "none" => sock' = "none")
  BY <1>1 DEF AddonCloses, FcitxRestarts, Wire
<1>4. sock' \in {"none", "queued", "accepted", "refused"}
  BY DEF AddonCloses, FcitxRestarts, RouteTypeOK
<1>5. RouteTypeOK' /\ Progress' /\ NeverSilent'
  BY <1>1, <1>3, <1>4, SessionKept DEF RouteTypeOK
<1>6. Wire'
  <2>1. \/ sock' = sock /\ request' = request /\ sock # "accepted"
        \/ sock' \in {"none", "refused"} /\ request' = NoRequest
    BY <1>3 DEF AddonCloses, FcitxRestarts
  <2>2. QED BY <1>1, <1>3, <2>1 DEF Wire, NoRequest
<1>7. Texts'
  BY <1>1, <1>2, <1>3, NothingNew DEF HasReply
<1>8. QED BY <1>5, <1>6, <1>7 DEF Route

\* The user moves to another window, and fcitx follows.
LEMMA FocusStep == ASSUME RouteIInv, IInv', FocusMoves \/ FcitxFollows PROVE Route'
<1> USE DEF RouteIInv
<1>1. /\ UNCHANGED <<clipboard, pc, sessionVars, historyVars, socketVars>>
      /\ window' \in Contexts
  BY DEF FocusMoves, FcitxFollows, RouteTypeOK
<1>2. UNCHANGED <<committed, reply, connection>>
  BY DEF FocusMoves, FcitxFollows, FocusIn, FocusOut, vars, engineVars, addonHistory
<1>3. RouteTypeOK' /\ Progress' /\ NeverSilent'
  BY <1>1, SessionKept DEF RouteTypeOK
<1>4. Wire'
  BY <1>1, <1>2 DEF Wire
<1>5. Texts'
  BY <1>1, <1>2, NothingNew DEF HasReply
<1>6. QED BY <1>3, <1>4, <1>5 DEF Route

\* A connection is given up while its answer is awaited, or at the end of the session.
LEMMA GivenStep == ASSUME RouteIInv, [RouteNext]_routeVars PROVE Given'
<1> USE DEF RouteIInv
<1>1. CASE late' = NoRequest
  BY <1>1 DEF Given, NoRequest
<1>2. CASE late' = late /\ UNCHANGED <<pc, token, acked, cancelled>>
  BY <1>2 DEF Given
<1>3. CASE token' = NoToken
  BY <1>3 DEF Given
<1>4. CASE /\ pc' \in {"fallback", "paste", "close"} /\ pc # "close"
           /\ UNCHANGED <<acked, cancelled>>
  <2>1. ~acked /\ ~cancelled
    BY <1>4 DEF Progress
  <2>2. QED BY <1>4, <2>1 DEF Given
<1>5. CASE UNCHANGED routeVars
  BY <1>2, <1>5 DEF routeVars
<1>6. CASE Start \/ NoText \/ Mirror
  BY <1>2, <1>3, <1>4, <1>6 DEF Start, NoText, Mirror, Progress, Given
<1>7. CASE FocusFails \/ AckFails \/ CloseSession
  BY <1>3, <1>4, <1>7 DEF FocusFails, AckFails, CloseSession, Progress
<1>8. CASE GotFocus \/ GotAck
  <2>1. late' = late /\ late = NoRequest
    BY <1>8 DEF GotFocus, GotAck, HasReply, Wire
  <2>2. QED BY <1>1, <2>1
<1>9. CASE RecheckFocus \/ RecheckForPaste \/ Paste
  <2>1. /\ late' = late /\ UNCHANGED <<token, acked, cancelled>>
        /\ pc \in {"recheck", "fallback", "paste"}
        /\ pc = "recheck" \/ pc' \in {"fallback", "paste", "close"}
    BY <1>9 DEF RecheckFocus, RecheckForPaste, Recheck, Paste
  <2>2. QED BY <1>4, <2>1 DEF Given
<1>10. CASE SendChunk
  <2>1. CASE sock = "accepted"
    BY <1>1, <1>10, <2>1 DEF SendChunk, Send, Wire
  <2>2. CASE sock # "accepted"
    BY <1>4, <1>10, <2>2 DEF SendChunk
  <2>3. QED BY <2>1, <2>2
<1>11. CASE Environment
  BY <1>1, <1>2, <1>11
  DEF Environment, AddonAccepts, AddonAcceptsGhost, AddonReads, AddonReadsLate, AddonCloses,
      FcitxRestarts, FocusMoves, FcitxFollows
<1>12. QED
  BY <1>5, <1>6, <1>7, <1>8, <1>9, <1>10, <1>11 DEF RouteNext, Daemon

-----------------------------------------------------------------------------
(* The invariant. *)

\* The invariant holds before the first session.
LEMMA InitRouteIInv == RouteInit => RouteIInv
<1> SUFFICES ASSUME RouteInit PROVE RouteIInv
  OBVIOUS
<1>1. IInv /\ TypeOK
  BY InitIInv DEF RouteInit, IInv
<1>2. RouteTypeOK
  <2>1. FirstChunk \in 1 .. MaxTotal /\ 0 \in 0 .. MaxTotal /\ 0 \in 0 .. MaxSessions
    BY AddonConstants, RouteConstants DEF FirstChunk
  <2>2. QED BY <1>1, <2>1 DEF RouteInit, RouteTypeOK, Content
<1>3. Progress /\ Wire /\ Given
  BY DEF RouteInit, Progress, Wire, Given, NoRequest
<1>4. Texts /\ NeverSilent
  BY DEF RouteInit, Texts, NeverSilent
<1>5. QED BY <1>1, <1>2, <1>3, <1>4 DEF RouteIInv

\* Every step keeps the invariant, the addon's part of it first.
LEMMA StepRouteIInv == RouteIInv /\ [RouteNext]_routeVars => RouteIInv'
<1> SUFFICES ASSUME RouteIInv, [RouteNext]_routeVars PROVE RouteIInv'
  OBVIOUS
<1>1. IInv' /\ Given'
  BY AddonKept, GivenStep DEF RouteIInv
<1>2. CASE UNCHANGED routeVars
  <2>1. UNCHANGED <<vars, committed, reply, connection>>
    BY <1>2 DEF routeVars, vars, engineVars, addonHistory
  <2>2. RouteTypeOK' /\ Progress' /\ NeverSilent'
    BY <1>1, <1>2, SessionKept DEF routeVars, RouteTypeOK, RouteIInv
  <2>3. Wire' = Wire
    BY <1>2, <2>1 DEF routeVars, Wire
  <2>4. Texts'
    BY <1>2, <2>1, NothingNew DEF routeVars, HasReply
  <2>5. QED BY <1>1, <2>2, <2>3, <2>4 DEF RouteIInv
<1>3. CASE Start \/ Daemon
  BY <1>1, <1>3, StartStep, GotFocusStep, WaitEnds, TextStep, RecheckStep, SendStep, AckStep,
     PasteStep, CloseSessionStep
  DEF Daemon, Route, RouteIInv
<1>4. CASE Environment
  BY <1>1, <1>4, AcceptStep, GhostStep, ReadStep, ReadLateStep, CloseStep, FocusStep
  DEF Environment, Route, RouteIInv
<1>5. QED BY <1>2, <1>3, <1>4 DEF RouteNext

\* The invariant holds throughout.
LEMMA AlwaysRouteIInv == RouteSpec => []RouteIInv
  BY InitRouteIInv, StepRouteIInv, PTL DEF RouteSpec

-----------------------------------------------------------------------------
(* The theorems. *)

\* Every variable of the route keeps its type, the addon's included.
THEOREM RouteTypeCorrect == RouteSpec => []RouteTypeOK
<1>1. RouteIInv => RouteTypeOK
  BY DEF RouteIInv
<1>2. QED BY <1>1, AlwaysRouteIInv, PTL

\* When _commit returns True, the whole text is in one input context, once.
THEOREM AckedTextIsIn == RouteSpec => []AckedMeansEntered
<1>1. RouteIInv => AckedMeansEntered
  BY DEF RouteIInv, Texts, Entered, AckedMeansEntered
<1>2. QED BY <1>1, AlwaysRouteIInv, PTL

\* A text rejected with stale-focus was not entered, and will not be.
THEOREM CancelledTextIsOut == RouteSpec => []CancelledIsFinal
<1>1. RouteIInv => CancelledIsFinal
  BY DEF RouteIInv, Texts, CancelledIsFinal
<1>2. QED BY <1>1, AlwaysRouteIInv, PTL

\* A session that had a text does not end without the text and without a word.
THEOREM SessionsSpeak == RouteSpec => []NeverSilent
<1>1. RouteIInv => NeverSilent
  BY DEF RouteIInv
<1>2. QED BY <1>1, AlwaysRouteIInv, PTL

\* What the addon promises of any client it keeps behind this one, restarts of fcitx
\* included: only whole texts, and none twice.
THEOREM AddonKeepsItsPromises == RouteSpec => [](WholeTextOnly /\ SpentOnce)
<1>1. RouteIInv => WholeTextOnly /\ SpentOnce
  BY DEF RouteIInv, IInv
<1>2. QED BY <1>1, AlwaysRouteIInv, PTL

\* Behind this client, too, a text goes only where its token was issued for, and only
\* while that context has kept the focus.
THEOREM RevokedTokensStayDead == RouteSpec => RevokedNeverCommits
<1> DEFINE Fresh == committed' # committed =>
                      LET c == committed'[Len(committed')]
                      IN  c.token \notin revoked /\ c.context = issued[c.token]
<1>1. RouteIInv /\ [RouteNext]_routeVars => [Fresh]_vars
  <2> SUFFICES ASSUME RouteIInv, [RouteNext]_routeVars, committed' # committed PROVE Fresh
    BY DEF vars, addonHistory
  <2>1. [Next]_vars \/ ReadReply
    BY AddonSteps DEF RouteIInv
  <2>2. Next
    BY <2>1 DEF ReadReply, vars, addonHistory
  <2>3. QED BY <2>2, CommitIsFresh DEF RouteIInv
<1>2. QED
  BY <1>1, AlwaysRouteIInv, PTL DEF RouteSpec, RevokedNeverCommits

\* The addon enters a text while the daemon waits for the answer to its COMMIT, or from
\* a connection that was hung up, before it takes another one of the daemon's.
THEOREM CommitsAreAwaited == RouteSpec => NoLateCommit
<1> DEFINE Awaited == pc = "ack" \/ (hungUp /\ sock # "accepted")
<1>1. RouteIInv /\ [RouteNext]_routeVars => [committed' # committed => Awaited]_routeVars
  <2> SUFFICES ASSUME RouteIInv, RouteNext, committed' # committed
               PROVE  Awaited
    OBVIOUS
  <2>1. ~ UNCHANGED vars
    BY DEF vars, addonHistory
  <2>2. AddonReads \/ AddonReadsLate
    <3>1. ~Start /\ ~FocusMoves
      BY <2>1 DEF Start, FocusMoves
    <3>2. ~Daemon
      BY <2>1
      DEF Daemon, GotFocus, FocusFails, NoText, Mirror, RecheckFocus, SendChunk, GotAck,
          AckFails, RecheckForPaste, Recheck, Paste, CloseSession, ReadReply
    <3>3. ~AddonAccepts /\ ~AddonAcceptsGhost /\ ~AddonCloses /\ ~FcitxRestarts /\ ~FcitxFollows
      BY <2>1, QuietAddon
      DEF AddonAccepts, AddonAcceptsGhost, AddonCloses, FcitxRestarts, FcitxFollows
    <3>4. QED BY <3>1, <3>2, <3>3 DEF RouteNext, Environment
  <2>3. CASE AddonReads
    <3>1. request.op = "COMMIT"
      BY <2>3, OtherAnswered DEF AddonReads
    <3>2. QED BY <3>1 DEF RouteIInv, Wire
  <2>4. CASE AddonReadsLate
    BY <2>4 DEF AddonReadsLate, RouteIInv, Wire
  <2>5. QED BY <2>2, <2>3, <2>4
<1>2. QED
  BY <1>1, AlwaysRouteIInv, PTL DEF RouteSpec, NoLateCommit
=============================================================================
