------------------------------ MODULE FcitxAddon ------------------------------
(***************************************************************************)
(* The Fcitx5 addon: the protocol engine and its single connection         *)
(* (src/native/fcitx5-fun-voice/src/addon.h and addon.cpp), with any       *)
(* client at the other end of the socket.                                  *)
(*                                                                         *)
(* Everything runs on fcitx's event loop, so one event is one action.      *)
(* Focus belongs to fcitx: contexts gain it, lose it and are destroyed at  *)
(* any time between two events.  Of a text only the place and the size of  *)
(* its chunks are kept: a chunk is the part of the frame that brought it.  *)
(***************************************************************************)
EXTENDS Integers, Sequences, FiniteSets, Functions

CONSTANTS
  Contexts,     \* input contexts, by UUID
  Tokens,       \* focus tokens a run may issue
  NoContext,    \* no context was focused yet
  Unissued,     \* a token no client was given, or malformed
  MaxTotal,     \* bound on the number of chunks of a commit
  Sizes,        \* sizes of a chunk
  BufferLimit   \* kMaxBufferedBytes, in the same unit

ASSUME AddonConstants ==
  /\ NoContext \notin Contexts
  /\ Unissued \notin Tokens
  /\ MaxTotal \in Nat \ {0}
  /\ BufferLimit \in Nat
  /\ Sizes \subseteq 1 .. BufferLimit

Part == [sequence: 1 .. MaxTotal, total: 1 .. MaxTotal, size: Sizes]

Session == [uuid: Contexts, nextSeq: 1 .. MaxTotal, total: 0 .. MaxTotal,
            buffer: Seq(Part)]

\* The frames a client can send: START_FOCUS, COMMIT with any token and any
\* numbers, and everything that changes nothing (PING, malformed, unsupported).
Frame ==
  [op: {"START_FOCUS", "OTHER"}]
    \union [op: {"COMMIT"}, token: Tokens \union {Unissued}, part: Part]

VARIABLES
  hasFocus,     \* contexts that have focus
  lastFocused,  \* manager->lastFocusedInputContext()
  live,         \* contexts that exist
  tokens,       \* tokens_: the live tokens and their sessions
  connection,   \* connection_: none yet, open, or closed and not yet replaced
  reply,        \* the reply the client has not read, or NoReply
  issued,       \* history: the context each token was issued for
  revoked,      \* history: tokens overtaken by a focus change, a newer token for
                \* the context, or a disconnect
  committed     \* history: what commitString received, in order

fcitxVars == <<hasFocus, lastFocused, live>>
engineVars == <<tokens, connection, reply>>
addonHistory == <<issued, revoked, committed>>
vars == <<fcitxVars, engineVars, addonHistory>>

NoReply == [is |-> "nothing"]

Init ==
  /\ hasFocus = {}
  /\ lastFocused = NoContext
  /\ live = Contexts
  /\ tokens = [t \in {} |-> {}]
  /\ connection = "none"
  /\ reply = NoReply
  /\ issued = [t \in {} |-> NoContext]
  /\ revoked = {}
  /\ committed = <<>>
-----------------------------------------------------------------------------
(***************************************************************************)
(* The token table.                                                        *)
(***************************************************************************)

Known == DOMAIN tokens

Without(lost) == [t \in Known \ lost |-> tokens[t]]

TokensOf(c) == {t \in Known : tokens[t].uuid = c}

IssuedFor(c) == {t \in DOMAIN issued : issued[t] = c}

\* Mutant: a context's tokens survive the focus change.
KeepContext(c) == tokens' = tokens

\* dropContext, and erase of one token.
DropContext(c) == tokens' = Without(TokensOf(c))

Erase(t) == tokens' = Without({t})

\* Mutant: a spent token stays in the table.
KeepSpent(t) == tokens' = [tokens EXCEPT ![t].nextSeq = 1, ![t].buffer = <<>>]

\* A token is erased once its text was committed.
Spend(t) == Erase(t)

IsFocused(c) == c \in live \intersect hasFocus

\* The context START_FOCUS binds: the last focused one, if it still has focus.
CurrentFocused == IF IsFocused(lastFocused) THEN {lastFocused} ELSE {}

CommitString(t, parts) ==
  committed' = Append(committed, [token |-> t, context |-> tokens[t].uuid, text |-> parts])
-----------------------------------------------------------------------------
(***************************************************************************)
(* ProtocolEngine::handle: one frame in, one reply out.                    *)
(***************************************************************************)

\* A fresh token for the context; it supersedes an earlier one.
Issue(c, t) ==
  /\ t \notin DOMAIN issued
  /\ tokens' = [u \in (Known \ TokensOf(c)) \union {t} |->
                  IF u = t THEN [uuid |-> c, nextSeq |-> 1, total |-> 0, buffer |-> <<>>]
                  ELSE tokens[u]]
  /\ issued' = [u \in DOMAIN issued \union {t} |-> IF u = t THEN c ELSE issued[u]]
  /\ revoked' = revoked \union IssuedFor(c)
  /\ reply' = [is |-> "FOCUS", token |-> t]
  /\ UNCHANGED committed

HandleStartFocus ==
  \/ /\ CurrentFocused = {}
     /\ reply' = [is |-> "REJECT", why |-> "no-input-context"]
     /\ UNCHANGED <<tokens, issued, revoked, committed>>
  \/ \E c \in CurrentFocused, t \in Tokens : Issue(c, t)

BadSequence == [is |-> "ERROR", why |-> "bad-sequence"]
StaleFocus == [is |-> "REJECT", why |-> "stale-focus"]
TooLarge == [is |-> "ERROR", why |-> "too-large"]
Ok == [is |-> "OK"]

\* The chunk is the next one, and of the same text.
InSequence(s, p) ==
  /\ p.sequence = s.nextSeq
  /\ s.total = 0 \/ p.total = s.total

Size(buffer) == FoldFunction(LAMBDA p, n : p.size + n, 0, buffer)

\* Mutant: a chunk is committed as it arrives.
AcceptEachChunk(t, p) ==
  /\ CommitString(t, <<p>>)
  /\ tokens' = IF p.sequence = p.total THEN Without({t})
               ELSE [tokens EXCEPT ![t].total = p.total, ![t].nextSeq = p.sequence + 1]
  /\ reply' = Ok

\* A chunk of a live token whose context has focus.  A single chunk is committed
\* at once; of several, each is buffered and the last one commits them all.  (The
\* context was just found, on the same thread, so commitString cannot miss it.)
AcceptChunk(t, p) ==
  LET s == tokens[t]
      text == Append(s.buffer, p)
  IN  \/ /\ p.total = 1
         /\ CommitString(t, <<p>>)
         /\ Spend(t)
         /\ reply' = Ok
      \/ /\ p.total > 1
         /\ Size(text) > BufferLimit
         /\ Erase(t)
         /\ reply' = TooLarge
         /\ UNCHANGED committed
      \/ /\ p.total > 1
         /\ Size(text) <= BufferLimit
         /\ p.sequence < p.total
         /\ tokens' = [tokens EXCEPT ![t] = [uuid |-> s.uuid, nextSeq |-> p.sequence + 1,
                                             total |-> p.total, buffer |-> text]]
         /\ reply' = Ok
         /\ UNCHANGED committed
      \/ /\ p.total > 1
         /\ Size(text) <= BufferLimit
         /\ p.sequence = p.total
         /\ CommitString(t, text)
         /\ Spend(t)
         /\ reply' = Ok

\* COMMIT: the checks in the order of the code.
HandleCommit(t, p) ==
  /\ \/ /\ p.sequence > p.total
        /\ reply' = BadSequence
        /\ UNCHANGED <<tokens, committed>>
     \/ /\ p.sequence <= p.total
        /\ t \notin Known
        /\ reply' = StaleFocus
        /\ UNCHANGED <<tokens, committed>>
     \/ /\ p.sequence <= p.total
        /\ t \in Known
        /\ ~InSequence(tokens[t], p)
        /\ reply' = BadSequence
        /\ UNCHANGED <<tokens, committed>>
     \/ /\ p.sequence <= p.total
        /\ t \in Known
        /\ InSequence(tokens[t], p)
        /\ ~IsFocused(tokens[t].uuid)
        /\ Erase(t)
        /\ reply' = StaleFocus
        /\ UNCHANGED committed
     \/ /\ p.sequence <= p.total
        /\ t \in Known
        /\ InSequence(tokens[t], p)
        /\ IsFocused(tokens[t].uuid)
        /\ AcceptChunk(t, p)
  /\ UNCHANGED <<issued, revoked>>

HandleOther ==
  /\ reply' = [is |-> "ERROR", why |-> "unsupported"]
  /\ UNCHANGED <<tokens, issued, revoked, committed>>

Handle(frame) ==
  \/ frame.op = "START_FOCUS" /\ HandleStartFocus
  \/ frame.op = "COMMIT" /\ HandleCommit(frame.token, frame.part)
  \/ frame.op = "OTHER" /\ HandleOther
-----------------------------------------------------------------------------
(***************************************************************************)
(* The connection.                                                         *)
(***************************************************************************)

\* A client is accepted when no connection is open; while one is, every other
\* client is refused and nothing changes.
Accept ==
  /\ connection # "open"
  /\ connection' = "open"
  /\ reply' = NoReply
  /\ UNCHANGED <<fcitxVars, tokens, addonHistory>>

Receive(frame) ==
  /\ connection = "open"
  /\ Handle(frame)
  /\ UNCHANGED <<fcitxVars, connection>>

\* The engine's clear.
Clear == tokens' = Without(Known)

\* markClosed, after a hang-up, an end of file, a failed write or a frame too large.
Close ==
  /\ connection = "open"
  /\ connection' = "closed"
  /\ Clear
  /\ revoked' = DOMAIN issued
  /\ reply' = NoReply
  /\ UNCHANGED <<fcitxVars, issued, committed>>
-----------------------------------------------------------------------------
(***************************************************************************)
(* fcitx: focus and the life of contexts.  The addon hears of a focus-out  *)
(* or a destruction on the same thread, before anything else.              *)
(***************************************************************************)

FocusIn(c) ==
  /\ c \in live \ hasFocus
  /\ hasFocus' = hasFocus \union {c}
  /\ lastFocused' = c
  /\ UNCHANGED <<live, engineVars, addonHistory>>

FocusOut(c) ==
  /\ c \in hasFocus
  /\ hasFocus' = hasFocus \ {c}
  /\ DropContext(c)
  /\ revoked' = revoked \union IssuedFor(c)
  /\ UNCHANGED <<lastFocused, live, connection, reply, issued, committed>>

Destroy(c) ==
  /\ c \in live
  /\ live' = live \ {c}
  /\ hasFocus' = hasFocus \ {c}
  /\ DropContext(c)
  /\ revoked' = revoked \union IssuedFor(c)
  /\ UNCHANGED <<lastFocused, connection, reply, issued, committed>>

Focus == \E c \in Contexts : FocusIn(c) \/ FocusOut(c) \/ Destroy(c)

Next == Accept \/ (\E frame \in Frame : Receive(frame)) \/ Close \/ Focus

Spec == Init /\ [][Next]_vars
-----------------------------------------------------------------------------
(***************************************************************************)
(* Properties.                                                             *)
(***************************************************************************)

Reply ==
  [is: {"nothing", "OK"}] \union [is: {"FOCUS"}, token: Tokens]
    \union [is: {"REJECT", "ERROR"},
            why: {"no-input-context", "stale-focus", "bad-sequence", "too-large",
                  "unsupported"}]

\* Every variable holds a value of its type.
TypeOK ==
  /\ hasFocus \subseteq Contexts
  /\ lastFocused \in Contexts \union {NoContext}
  /\ live \subseteq Contexts
  /\ Known \subseteq Tokens
  /\ tokens \in [Known -> Session]
  /\ connection \in {"none", "open", "closed"}
  /\ reply \in Reply
  /\ DOMAIN issued \subseteq Tokens
  /\ issued \in [DOMAIN issued -> Contexts]
  /\ revoked \subseteq Tokens
  /\ committed \in Seq([token: Tokens, context: Contexts, text: Seq(Part)])

\* What is injected is a whole text: the chunks 1 to n of one commit, all there and
\* in order, whatever frames the client sends and however focus moves in between.
WholeTextOnly ==
  \A i \in DOMAIN committed :
    LET text == committed[i].text
    IN  \A k \in DOMAIN text : text[k].sequence = k /\ text[k].total = Len(text)

\* A token commits only if, since it was issued, its context never lost focus, got
\* no newer token, and the client that asked for it stayed connected; and it
\* commits into the context it was issued for.
RevokedNeverCommits ==
  [][committed' # committed =>
       LET c == committed'[Len(committed')]
       IN  c.token \notin revoked /\ c.context = issued[c.token]]_vars

\* A token commits at most once: a repeated or replayed frame injects nothing.
SpentOnce ==
  \A i, j \in DOMAIN committed : i # j => committed[i].token # committed[j].token
=============================================================================
