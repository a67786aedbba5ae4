----------------------------- MODULE CommitRoute -----------------------------
(***************************************************************************)
(* How a recognised text reaches the application: VoiceDaemon._commit      *)
(* (src/src/fun_voice/daemon.py), the FcitxClient (fcitx.py), the socket,  *)
(* the addon (module FcitxAddon) and the desktop they all act on.          *)
(*                                                                         *)
(* The daemon thread, fcitx's event loop and the user take turns.  A       *)
(* window is named as its input context; fcitx follows the X11 focus, some *)
(* time later.  A text is named by its session, which is all that tells    *)
(* one clipboard content from another.                                     *)
(*                                                                         *)
(* The module extends the addon's, so that what is proved of the addon can *)
(* be used here: Init, Next, TypeOK and vars are the addon's own, and the  *)
(* route's are RouteInit, RouteNext, RouteTypeOK and routeVars.            *)
(***************************************************************************)
EXTENDS FcitxAddon

CONSTANTS
  MaxSessions,   \* bound on the number of sessions
  NoToken        \* a session without a focus token

ASSUME RouteConstants == MaxSessions \in Nat \ {0} /\ NoToken \notin Tokens

VARIABLES
  window,        \* the window that has the X11 focus
  clipboard,     \* what the clipboard holds
  pc,            \* where the daemon is
  sessions,      \* sessions begun so far
  snapshot,      \* the session's window, from start
  token,         \* its focus token
  total,         \* chunks of its text; 0 before there is one
  next,          \* the chunk to send
  clipboardOk,   \* the text was mirrored to the clipboard
  sock,          \* the client's socket
  request,       \* frame in the socket, not read by the addon
  hungUp,        \* the addon's open connection has lost its peer
  late,          \* frame of that connection that the addon will read all the same
  ghost,         \* a connection that was dropped before it was accepted
  acked,         \* history of the session: its commit returned True
  cancelled,     \* history of the session: it was rejected with stale-focus
  pasted,        \* history of the session: what Ctrl+V entered, and where
  notices        \* history of the session: its notifications

addonVars == vars
socketVars == <<sock, request, hungUp, late, ghost>>
sessionVars == <<sessions, snapshot, token, total, next, clipboardOk>>
historyVars == <<acked, cancelled, pasted, notices>>
routeVars == <<addonVars, window, clipboard, pc, sessionVars, socketVars, historyVars>>

\* What the clipboard may hold, for the session at hand: its text or anything else.
Content == {"text", "foreign"}
NoRequest == [op |-> "none"]

\* Mutant: the chunks are numbered from 0.
FromZero == 0

\* The number of the first chunk.
FirstChunk == 1

RouteInit ==
  /\ Init
  /\ window \in Contexts
  /\ clipboard = "foreign"
  /\ pc = "idle"
  /\ sessions = 0 /\ snapshot = NoContext /\ token = NoToken
  /\ total = 0 /\ next = FirstChunk /\ clipboardOk = TRUE
  /\ sock = "none" /\ request = NoRequest
  /\ hungUp = FALSE /\ late = NoRequest /\ ghost = FALSE
  /\ acked = FALSE /\ cancelled = FALSE /\ pasted = {} /\ notices = {}
-----------------------------------------------------------------------------
(***************************************************************************)
(* The client's socket.                                                    *)
(***************************************************************************)

\* Mutant: the client leaves the socket open, and the addon reads on.
LeaveOpen == UNCHANGED socketVars

\* FcitxClient.close.  onEvent looks at a hang-up before it looks at the data, but
\* in the flags of an earlier poll: a frame it has not read is lost, unless those
\* flags are older than the hang-up.
HangUp ==
  /\ hungUp' = (hungUp \/ sock = "accepted")
  /\ ghost' = (ghost \/ sock = "queued")
  /\ sock' = "none"
  /\ request' = NoRequest
  /\ late' \in IF sock = "accepted" THEN {NoRequest, request} ELSE {late}

Send(frame) ==
  /\ request' = frame
  /\ UNCHANGED <<sock, hungUp, late, ghost>>

HasReply == sock = "accepted" /\ reply # NoReply

ReadReply ==
  /\ reply' = NoReply
  /\ UNCHANGED <<hasFocus, lastFocused, live, tokens, connection, issued, revoked,
                 committed>>
-----------------------------------------------------------------------------
(***************************************************************************)
(* start_if_idle: the X11 snapshot, then START_FOCUS.                      *)
(***************************************************************************)

Start ==
  /\ pc = "idle"
  /\ sessions < MaxSessions
  /\ sessions' = sessions + 1
  /\ snapshot' = window
  /\ \/ /\ pc' = "focus"
        /\ sock' = "queued"
        /\ request' = [op |-> "START_FOCUS"]
     \/ /\ pc' = "recorded"      \* cannot connect
        /\ UNCHANGED <<sock, request>>
  /\ UNCHANGED <<addonVars, window, clipboard, token, total, next, clipboardOk, hungUp,
                 late, ghost, historyVars>>

GotFocus ==
  /\ pc = "focus"
  /\ HasReply
  /\ token' = IF reply.is = "FOCUS" THEN reply.token ELSE NoToken
  /\ ReadReply
  /\ pc' = "recorded"
  /\ UNCHANGED <<window, clipboard, sessions, snapshot, total, next, clipboardOk,
                 socketVars, historyVars>>

\* A second without an answer, or the addon closed the socket.
FocusFails ==
  /\ pc = "focus"
  /\ HangUp
  /\ pc' = "recorded"
  /\ UNCHANGED <<addonVars, window, clipboard, sessionVars, historyVars>>
-----------------------------------------------------------------------------
(***************************************************************************)
(* _commit.                                                                *)
(***************************************************************************)

Notify(what) == notices' = notices \union {what}

\* The pipeline ended without a text.
NoText ==
  /\ pc = "recorded"
  /\ pc' = "close"
  /\ UNCHANGED <<addonVars, window, clipboard, sessionVars, socketVars, historyVars>>

\* The clipboard mirror, and the text's division into frames.
Mirror ==
  /\ pc = "recorded"
  /\ pc' = "recheck"
  /\ total' \in 1 .. MaxTotal
  /\ \/ clipboard' = "text" /\ UNCHANGED clipboardOk
     \/ clipboardOk' = FALSE /\ UNCHANGED clipboard
  /\ UNCHANGED <<addonVars, window, sessions, snapshot, token, next, socketVars,
                 historyVars>>

\* Mutant: without a clipboard copy nothing is said.
NotifyIfCopied(message) == IF clipboardOk THEN Notify(message) ELSE UNCHANGED notices

\* _notify_focus_or_clipboard
NotifyFocusOrClipboard(message) == Notify(IF clipboardOk THEN message ELSE "result-lost")

\* The focus is read again: X11 fails, it changed, or it is the snapshot.
Recheck(where, go) ==
  /\ pc = where
  /\ \/ Notify("x11") /\ pc' = "close"
     \/ /\ window # snapshot
        /\ NotifyFocusOrClipboard("focus-changed")
        /\ pc' = "close"
     \/ /\ window = snapshot
        /\ pc' = go
        /\ UNCHANGED notices
  /\ UNCHANGED <<addonVars, window, clipboard, sessionVars, socketVars, acked, cancelled,
                 pasted>>

RecheckFocus == Recheck("recheck", IF token = NoToken THEN "fallback" ELSE "send")

SendChunk ==
  /\ pc = "send"
  /\ \/ /\ sock = "accepted"
        /\ \E size \in Sizes :
             Send([op |-> "COMMIT", token |-> token,
                   part |-> [sequence |-> next, total |-> total, size |-> size]])
        /\ pc' = "ack"
     \/ /\ sock = "refused"
        /\ HangUp
        /\ pc' = "fallback"
  /\ UNCHANGED <<addonVars, window, clipboard, sessionVars, historyVars>>

\* Mutant: the first OK is taken for the whole text.
AckedFirst ==
  /\ pc' = "close"
  /\ acked' = TRUE
  /\ UNCHANGED <<next, notices>>

\* OK: the next chunk, or the text is entered.
Acked ==
  \/ /\ next < total
     /\ next' = next + 1
     /\ pc' = "send"
     /\ UNCHANGED <<acked, notices>>
  \/ /\ next = total
     /\ acked' = TRUE
     /\ notices' = notices \union (IF clipboardOk THEN {} ELSE {"clipboard"})
     /\ pc' = "close"
     /\ UNCHANGED next

\* Mutant: a stale focus is an error like any other.
RejectedFallsBack ==
  /\ reply = StaleFocus
  /\ cancelled' = TRUE
  /\ pc' = "fallback"
  /\ UNCHANGED notices

\* stale-focus: no fallback.
Rejected ==
  /\ reply = StaleFocus
  /\ cancelled' = TRUE
  /\ NotifyFocusOrClipboard("cancelled")
  /\ pc' = "close"

GotAck ==
  /\ pc = "ack"
  /\ HasReply
  /\ \/ reply = Ok /\ Acked /\ UNCHANGED cancelled
     \/ Rejected /\ UNCHANGED <<next, acked>>
     \/ /\ reply \notin {Ok, StaleFocus}
        /\ pc' = "fallback"
        /\ UNCHANGED <<next, acked, cancelled, notices>>
  /\ ReadReply
  /\ UNCHANGED <<window, clipboard, sessions, snapshot, token, total, clipboardOk,
                 socketVars, pasted>>

\* Mutant: the socket has no timeout.
AckBroken ==
  /\ pc = "ack"
  /\ sock = "refused"
  /\ HangUp
  /\ pc' = "fallback"
  /\ UNCHANGED <<addonVars, window, clipboard, sessionVars, historyVars>>

\* A second without an answer, or the addon closed the socket.
AckFails ==
  /\ pc = "ack"
  /\ HangUp
  /\ pc' = "fallback"
  /\ UNCHANGED <<addonVars, window, clipboard, sessionVars, historyVars>>

RecheckForPaste == Recheck("fallback", "paste")

\* Ctrl+V goes to the window that has the focus by then, and enters what the
\* clipboard holds.
Paste ==
  /\ pc = "paste"
  /\ pc' = "close"
  /\ \/ Notify("injection") /\ UNCHANGED pasted
     \/ /\ pasted' = pasted \union {[window |-> window, text |-> clipboard]}
        /\ notices' = notices \union (IF clipboardOk THEN {} ELSE {"clipboard"})
  /\ UNCHANGED <<addonVars, window, clipboard, sessionVars, socketVars, acked, cancelled>>

\* _cleanup closes the session's client and forgets the session.
CloseSession ==
  /\ pc = "close"
  /\ HangUp
  /\ pc' = "idle"
  /\ clipboard' = "foreign"
  /\ snapshot' = NoContext /\ token' = NoToken
  /\ total' = 0 /\ next' = FirstChunk /\ clipboardOk' = TRUE
  /\ acked' = FALSE /\ cancelled' = FALSE /\ pasted' = {} /\ notices' = {}
  /\ UNCHANGED <<addonVars, window, sessions>>

Daemon ==
  \/ GotFocus \/ FocusFails \/ NoText \/ Mirror \/ RecheckFocus \/ SendChunk \/ GotAck
  \/ AckFails \/ RecheckForPaste \/ Paste \/ CloseSession
-----------------------------------------------------------------------------
(***************************************************************************)
(* fcitx's event loop, the X11 focus and the end of fcitx.                 *)
(***************************************************************************)

routeUnchanged == <<window, clipboard, pc, sessionVars, historyVars>>

\* The daemon's connection is taken from the backlog: served, or refused because the
\* one before it, already hung up, has not been closed.
AddonAccepts ==
  /\ sock = "queued"
  /\ ~ghost
  /\ \/ /\ Accept
        /\ sock' = "accepted"
        /\ UNCHANGED request
     \/ /\ connection = "open"
        /\ sock' = "refused"
        /\ request' = NoRequest
        /\ UNCHANGED addonVars
  /\ UNCHANGED <<routeUnchanged, hungUp, late, ghost>>

\* A connection the client gave up is taken from the backlog.
AddonAcceptsGhost ==
  /\ ghost
  /\ ghost' = FALSE
  /\ \/ Accept /\ hungUp' = TRUE
     \/ connection = "open" /\ UNCHANGED <<addonVars, hungUp>>
  /\ UNCHANGED <<routeUnchanged, sock, request, late>>

AddonReads ==
  /\ sock = "accepted"
  /\ request # NoRequest
  /\ Receive(request)
  /\ request' = NoRequest
  /\ UNCHANGED <<routeUnchanged, sock, hungUp, late, ghost>>

\* The poll saw the frame but not the hang-up; the next one sees that too.
AddonReadsLate ==
  /\ late # NoRequest
  /\ Receive(late)
  /\ late' = NoRequest
  /\ UNCHANGED <<routeUnchanged, sock, request, hungUp, ghost>>

AddonCloses ==
  /\ hungUp
  /\ late = NoRequest
  /\ Close
  /\ hungUp' = FALSE
  /\ UNCHANGED <<routeUnchanged, sock, request, late, ghost>>

\* fcitx exits and comes back: its sockets are gone, and the tokens with them.
FcitxRestarts ==
  /\ IF connection = "open" THEN Close ELSE UNCHANGED addonVars
  /\ sock' = IF sock = "none" THEN "none" ELSE "refused"
  /\ request' = NoRequest
  /\ hungUp' = FALSE /\ late' = NoRequest
  /\ ghost' = FALSE
  /\ UNCHANGED routeUnchanged

FocusMoves ==
  /\ window' \in Contexts \ {window}
  /\ UNCHANGED <<addonVars, clipboard, pc, sessionVars, socketVars, historyVars>>

\* fcitx learns of the X11 focus, in its own time.
FcitxFollows ==
  /\ \/ \E c \in hasFocus \ {window} : FocusOut(c)
     \/ hasFocus = {} /\ FocusIn(window)
  /\ UNCHANGED <<routeUnchanged, socketVars>>

Environment ==
  AddonAccepts \/ AddonAcceptsGhost \/ AddonReads \/ AddonReadsLate \/ AddonCloses
    \/ FcitxRestarts \/ FocusMoves \/ FcitxFollows

RouteNext == Start \/ Daemon \/ Environment

\* The daemon's thread runs on: each wait for the addon ends after a second.
RouteSpec == RouteInit /\ [][RouteNext]_routeVars /\ WF_routeVars(Daemon)
-----------------------------------------------------------------------------
(***************************************************************************)
(* Properties.                                                             *)
(***************************************************************************)

Notice == {"x11", "focus-changed", "cancelled", "result-lost", "clipboard", "injection"}

\* Every variable holds a value of its type.
RouteTypeOK ==
  /\ TypeOK
  /\ window \in Contexts
  /\ clipboard \in Content
  /\ pc \in {"idle", "focus", "recorded", "recheck", "send", "ack", "fallback", "paste",
             "close"}
  /\ sessions \in 0 .. MaxSessions
  /\ snapshot \in Contexts \union {NoContext}
  /\ token \in Tokens \union {NoToken}
  /\ total \in 0 .. MaxTotal
  /\ next \in 1 .. MaxTotal
  /\ clipboardOk \in BOOLEAN
  /\ sock \in {"none", "queued", "accepted", "refused"}
  /\ {request, late} \subseteq Frame \union {NoRequest}
  /\ hungUp \in BOOLEAN /\ ghost \in BOOLEAN
  /\ acked \in BOOLEAN /\ cancelled \in BOOLEAN
  /\ pasted \subseteq [window: Contexts, text: Content]
  /\ notices \subseteq Notice

Committed == {i \in DOMAIN committed : committed[i].token = token}

\* A commit the daemon takes for done has put exactly one text, with all its chunks,
\* into an input context.
AckedMeansEntered ==
  acked => \E i \in Committed : Committed = {i} /\ Len(committed[i].text) = total

\* A stale-focus reject is final: the session's text is neither pasted nor committed.
CancelledIsFinal == cancelled => pasted = {} /\ Committed = {}

\* The addon enters a text while the daemon waits for the answer.  Once the daemon
\* stopped waiting, and moved on to Ctrl+V, to a notification or to another session,
\* it enters one only from the connection that was hung up for it, and has not taken
\* the daemon's next one by then: no text appears behind a later dialogue.
NoLateCommit ==
  [][committed' # committed => pc = "ack" \/ (hungUp /\ sock # "accepted")]_routeVars

\* A session that had a text ends with the text entered or with a notification.
NeverSilent ==
  pc = "close" /\ total # 0 => acked \/ pasted # {} \/ notices # {}

\* Every session ends, whatever becomes of fcitx.
SessionEnds == pc # "idle" ~> pc = "idle"

\* What the acceptance checklist says of an utterance: it is entered once.
EnteredOnce == Cardinality(Committed) + Cardinality(pasted) <= 1

\* What the notification sent after a failed clipboard mirror says: the text was
\* entered all the same.
ClipboardNoticeMeansEntered ==
  "clipboard" \in notices => acked \/ \E p \in pasted : p.text = "text"
=============================================================================
