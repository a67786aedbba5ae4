------------------------- MODULE FcitxAddon_proofs -------------------------
(***************************************************************************)
(* Proofs about FcitxAddon, for any contexts, tokens and sizes: a token is *)
(* live, spent or revoked and never two of these, and the buffer of a live *)
(* token is a prefix of the text its client announced.                     *)
(***************************************************************************)
EXTENDS FcitxAddon, SequenceTheorems, TLAPS

\* A live token was issued for the context it is bound to, and not revoked since.
LiveIsIssued ==
  \A t \in Known :
    t \in DOMAIN issued /\ issued[t] = tokens[t].uuid /\ t \notin revoked

\* Only issued tokens were revoked.
RevokedWasIssued == revoked \subseteq DOMAIN issued

\* Only issued tokens were committed, and a committed one is live no more.
CommittedIsSpent ==
  \A i \in DOMAIN committed :
    committed[i].token \in DOMAIN issued \ Known

\* The parts of s are numbered from 1 and announce n of them.
Numbered(s, n) == \A k \in DOMAIN s : s[k].sequence = k /\ s[k].total = n

\* What a live token has buffered are the first chunks of one text.
BufferIsPrefix ==
  \A t \in Known :
    /\ Numbered(tokens[t].buffer, tokens[t].total)
    /\ tokens[t].nextSeq = Len(tokens[t].buffer) + 1
    /\ tokens[t].total = 0 => tokens[t].buffer = <<>>

IInv ==
  /\ TypeOK
  /\ LiveIsIssued
  /\ RevokedWasIssued
  /\ CommittedIsSpent
  /\ SpentOnce
  /\ BufferIsPrefix
  /\ WholeTextOnly
-----------------------------------------------------------------------------
\* A commit frame carries a token and a part.
LEMMA CommitFrame ==
  ASSUME NEW frame \in Frame, frame.op = "COMMIT"
  PROVE  frame.token \in Tokens \union {Unissued} /\ frame.part \in Part
  BY DEF Frame

\* Every action keeps the types.
LEMMA TypeStep == TypeOK /\ [Next]_vars => TypeOK'
<1> SUFFICES ASSUME TypeOK, [Next]_vars PROVE TypeOK'
  OBVIOUS
<1> USE AddonConstants
    DEF TypeOK, Known, Without, Erase, Spend, Reply, NoReply, fcitxVars, engineVars,
        addonHistory
<1>1. CASE Accept
  BY <1>1 DEF Accept
<1>2. ASSUME NEW frame \in Frame, Receive(frame) PROVE TypeOK'
  <2>1. CASE frame.op = "START_FOCUS"
    <3>1. HandleStartFocus /\ UNCHANGED <<fcitxVars, connection>>
      BY <1>2, <2>1 DEF Receive, Handle
    <3>2. CASE UNCHANGED <<tokens, issued, revoked, committed>>
                 /\ reply' = [is |-> "REJECT", why |-> "no-input-context"]
      BY <3>1, <3>2
    <3>3. ASSUME NEW c \in Contexts, NEW t \in Tokens, Issue(c, t) PROVE TypeOK'
      <4> DEFINE fresh == [uuid |-> c, nextSeq |-> 1, total |-> 0, buffer |-> <<>>]
      <4>1. fresh \in Session
        BY DEF Session
      <4>2. tokens' \in [Known' -> Session] /\ Known' \subseteq Tokens
        BY <3>3, <4>1 DEF Issue
      <4>3. QED BY <3>1, <3>3, <4>2 DEF Issue, IssuedFor
    <3>4. QED
      BY <3>1, <3>2, <3>3 DEF HandleStartFocus, Issue, CurrentFocused, IsFocused
  <2>2. CASE frame.op = "OTHER"
    BY <1>2, <2>2 DEF Receive, Handle, HandleOther
  <2>3. CASE frame.op = "COMMIT"
    <3> DEFINE t == frame.token
               p == frame.part
    <3>1. t \in Tokens \union {Unissued} /\ p \in Part
      BY <2>3, CommitFrame
    <3>2. HandleCommit(t, p) /\ UNCHANGED <<fcitxVars, connection>>
      BY <1>2, <2>3 DEF Receive, Handle
    <3>3. CASE UNCHANGED <<tokens, committed>>
      BY <3>2, <3>3 DEF HandleCommit, BadSequence, StaleFocus, TooLarge, Ok, AcceptChunk
    <3>4. CASE Erase(t) /\ UNCHANGED committed
      BY <3>2, <3>4 DEF HandleCommit, BadSequence, StaleFocus, TooLarge, Ok, AcceptChunk
    <3>5. CASE t \in Known /\ AcceptChunk(t, p)
      <4>1. tokens[t] \in Session /\ tokens[t].buffer \in Seq(Part)
        BY <3>5 DEF Session
      <4>2. Append(tokens[t].buffer, p) \in Seq(Part) /\ <<p>> \in Seq(Part)
        BY <3>1, <4>1
      <4>3. CASE UNCHANGED committed /\ tokens' = [tokens EXCEPT ![t] =
                   [uuid |-> tokens[t].uuid, nextSeq |-> p.sequence + 1,
                    total |-> p.total, buffer |-> Append(tokens[t].buffer, p)]]
                 /\ p.sequence < p.total
        <5>1. tokens'[t] \in Session
          BY <3>1, <4>1, <4>2, <4>3 DEF Session, Part
        <5>2. reply' \in Reply
          BY <3>2, <3>5 DEF HandleCommit, AcceptChunk, TooLarge, Ok
        <5>3. QED BY <3>1, <3>2, <4>3, <5>1, <5>2 DEF HandleCommit
      <4>4. ASSUME NEW parts \in Seq(Part), CommitString(t, parts), Erase(t)
            PROVE TypeOK'
        <5>1. [token |-> t, context |-> tokens[t].uuid, text |-> parts]
                \in [token: Tokens, context: Contexts, text: Seq(Part)]
          BY <3>5, <4>1 DEF Session
        <5>2. committed' \in Seq([token: Tokens, context: Contexts, text: Seq(Part)])
          BY <4>4, <5>1 DEF CommitString
        <5>3. reply' \in Reply
          BY <3>2, <3>5 DEF HandleCommit, AcceptChunk, TooLarge, Ok
        <5>4. QED BY <3>2, <4>4, <5>2, <5>3 DEF HandleCommit
      <4>5. QED
        BY <3>1, <3>4, <3>5, <4>2, <4>3, <4>4 DEF AcceptChunk
    <3>6. QED BY <3>2, <3>3, <3>4, <3>5 DEF HandleCommit
  <2>4. QED BY <1>2, <2>1, <2>2, <2>3 DEF Receive, Handle
<1>3. CASE Close
  BY <1>3 DEF Close, Clear
<1>4. ASSUME NEW c \in Contexts, FocusIn(c) \/ FocusOut(c) \/ Destroy(c) PROVE TypeOK'
  BY <1>4 DEF FocusIn, FocusOut, Destroy, DropContext, TokensOf, IssuedFor
<1>5. CASE UNCHANGED vars
  BY <1>5 DEF vars
<1>6. QED BY <1>1, <1>2, <1>3, <1>4, <1>5 DEF Next, Focus
-----------------------------------------------------------------------------
(***************************************************************************)
(* What a step can do to the tokens and the committed texts, and that each *)
(* of these keeps the invariant.                                           *)
(***************************************************************************)

\* The part of the invariant that is not about types.
Tokenwise ==
  /\ LiveIsIssued
  /\ RevokedWasIssued
  /\ CommittedIsSpent
  /\ SpentOnce
  /\ BufferIsPrefix
  /\ WholeTextOnly

\* Tokens are dropped, and those that are left are not revoked.
LEMMA DropStep ==
  ASSUME IInv, NEW lost, tokens' = Without(lost), UNCHANGED <<issued, committed>>,
         \A t \in Known \ lost : t \notin revoked', revoked' \subseteq DOMAIN issued
  PROVE  Tokenwise'
<1>1. Known' = Known \ lost /\ \A t \in Known \ lost : tokens'[t] = tokens[t]
  BY DEF Known, Without
<1>2. LiveIsIssued' /\ RevokedWasIssued'
  BY <1>1 DEF IInv, LiveIsIssued, RevokedWasIssued
<1>3. CommittedIsSpent' /\ SpentOnce' /\ WholeTextOnly'
  BY <1>1 DEF IInv, CommittedIsSpent, SpentOnce, WholeTextOnly
<1>4. BufferIsPrefix'
  BY <1>1 DEF IInv, BufferIsPrefix, Numbered
<1>5. QED BY <1>2, <1>3, <1>4 DEF Tokenwise

\* A token is issued.
LEMMA IssueStep ==
  ASSUME IInv, NEW c \in Contexts, NEW t \in Tokens, Issue(c, t)
  PROVE  Tokenwise'
<1>1. /\ t \notin DOMAIN issued
      /\ Known' = (Known \ TokensOf(c)) \union {t}
      /\ tokens'[t] = [uuid |-> c, nextSeq |-> 1, total |-> 0, buffer |-> <<>>]
      /\ issued'[t] = c
      /\ \A u \in (Known \ TokensOf(c)) \ {t} : tokens'[u] = tokens[u]
      /\ DOMAIN issued' = DOMAIN issued \union {t}
      /\ \A u \in DOMAIN issued : issued'[u] = issued[u]
      /\ revoked' = revoked \union IssuedFor(c)
      /\ committed' = committed
  BY DEF Issue, Known
<1>2. LiveIsIssued' /\ RevokedWasIssued'
  BY <1>1 DEF IInv, LiveIsIssued, RevokedWasIssued, TokensOf, IssuedFor
<1>3. CommittedIsSpent' /\ SpentOnce' /\ WholeTextOnly'
  BY <1>1 DEF IInv, CommittedIsSpent, SpentOnce, WholeTextOnly
<1>4. BufferIsPrefix'
  <2> SUFFICES ASSUME NEW u \in Known'
               PROVE  /\ Numbered(tokens'[u].buffer, tokens'[u].total)
                      /\ tokens'[u].nextSeq = Len(tokens'[u].buffer) + 1
                      /\ tokens'[u].total = 0 => tokens'[u].buffer = <<>>
    BY DEF BufferIsPrefix, Numbered
  <2>1. CASE u = t
    BY <1>1, <2>1 DEF Numbered
  <2>2. CASE u # t
    BY <1>1, <2>2 DEF IInv, BufferIsPrefix, Numbered
  <2>3. QED BY <2>1, <2>2
<1>5. QED BY <1>2, <1>3, <1>4 DEF Tokenwise

\* With the next chunk, a prefix of the text becomes a longer one.
LEMMA PrefixGrows ==
  ASSUME IInv, NEW t \in Known, NEW p \in Part, InSequence(tokens[t], p)
  PROVE  /\ Append(tokens[t].buffer, p) \in Seq(Part)
         /\ Len(Append(tokens[t].buffer, p)) = p.sequence
         /\ Numbered(Append(tokens[t].buffer, p), p.total)
<1> DEFINE s == tokens[t]
<1>1. s \in Session /\ s.buffer \in Seq(Part) /\ s.nextSeq = Len(s.buffer) + 1
  BY DEF IInv, TypeOK, Session, BufferIsPrefix
<1>2. /\ Numbered(s.buffer, s.total)
      /\ s.total = 0 => s.buffer = <<>>
      /\ s.total # 0 => s.total = p.total
      /\ p.sequence = Len(s.buffer) + 1
  BY <1>1 DEF IInv, BufferIsPrefix, InSequence
<1>3. /\ Append(s.buffer, p) \in Seq(Part)
      /\ Len(Append(s.buffer, p)) = Len(s.buffer) + 1
      /\ \A k \in 1 .. Len(s.buffer) : Append(s.buffer, p)[k] = s.buffer[k]
      /\ Append(s.buffer, p)[Len(s.buffer) + 1] = p
  BY <1>1, AppendProperties
<1>4. \A k \in 1 .. Len(s.buffer) : s.buffer[k].sequence = k /\ s.buffer[k].total = p.total
  BY <1>1, <1>2 DEF Numbered
<1>5. Numbered(Append(s.buffer, p), p.total)
  BY <1>1, <1>2, <1>3, <1>4 DEF Numbered
<1>6. QED BY <1>2, <1>3, <1>5

\* A chunk is buffered.
LEMMA BufferStep ==
  ASSUME IInv, NEW t \in Known, NEW p \in Part, InSequence(tokens[t], p),
         tokens' = [tokens EXCEPT ![t] =
                      [uuid |-> tokens[t].uuid, nextSeq |-> p.sequence + 1,
                       total |-> p.total, buffer |-> Append(tokens[t].buffer, p)]],
         UNCHANGED <<issued, revoked, committed>>
  PROVE  Tokenwise'
<1>1. /\ tokens'[t].uuid = tokens[t].uuid
      /\ tokens'[t].buffer = Append(tokens[t].buffer, p)
      /\ tokens'[t].total = p.total
      /\ tokens'[t].nextSeq = p.sequence + 1
      /\ Known' = Known
      /\ \A u \in Known \ {t} : tokens'[u] = tokens[u]
  BY DEF IInv, TypeOK, Known
<1>2. LiveIsIssued' /\ RevokedWasIssued'
  BY <1>1 DEF IInv, LiveIsIssued, RevokedWasIssued
<1>3. CommittedIsSpent' /\ SpentOnce' /\ WholeTextOnly'
  BY <1>1 DEF IInv, CommittedIsSpent, SpentOnce, WholeTextOnly
<1>4. p.total # 0
  BY DEF Part
<1>5. BufferIsPrefix'
  BY <1>1, <1>4, PrefixGrows DEF IInv, BufferIsPrefix, Numbered
<1>6. QED BY <1>2, <1>3, <1>5 DEF Tokenwise

\* A whole text is committed, and its token erased.
LEMMA CommitStep ==
  ASSUME IInv, NEW t \in Known, NEW parts \in Seq(Part), Numbered(parts, Len(parts)),
         CommitString(t, parts), Erase(t), UNCHANGED <<issued, revoked>>
  PROVE  Tokenwise'
<1> DEFINE c == [token |-> t, context |-> tokens[t].uuid, text |-> parts]
<1>1. /\ committed' = Append(committed, c)
      /\ committed \in Seq([token: Tokens, context: Contexts, text: Seq(Part)])
      /\ c \in [token: Tokens, context: Contexts, text: Seq(Part)]
  BY DEF CommitString, IInv, TypeOK, Session
<1>2. /\ DOMAIN committed' = 1 .. Len(committed) + 1
      /\ DOMAIN committed = 1 .. Len(committed)
      /\ \A i \in 1 .. Len(committed) : committed'[i] = committed[i]
      /\ committed'[Len(committed) + 1] = c
      /\ Len(committed) \in Nat
  BY <1>1, AppendProperties
<1>3. /\ Known' = Known \ {t}
      /\ \A u \in Known \ {t} : tokens'[u] = tokens[u]
  BY DEF Erase, Without, Known
<1>4. LiveIsIssued' /\ RevokedWasIssued' /\ BufferIsPrefix'
  BY <1>3 DEF IInv, LiveIsIssued, RevokedWasIssued, BufferIsPrefix, Numbered
<1>5. CommittedIsSpent'
  BY <1>2, <1>3 DEF IInv, LiveIsIssued, CommittedIsSpent
<1>6. SpentOnce'
  BY <1>2 DEF IInv, CommittedIsSpent, SpentOnce
<1>7. WholeTextOnly'
  BY <1>2 DEF IInv, WholeTextOnly, Numbered
<1>8. QED BY <1>4, <1>5, <1>6, <1>7 DEF Tokenwise
-----------------------------------------------------------------------------
\* The initial states satisfy the invariant.
LEMMA InitIInv == Init => IInv
<1> SUFFICES ASSUME Init PROVE IInv
  OBVIOUS
<1> USE AddonConstants DEF Init, Known
<1>1. TypeOK
  BY DEF TypeOK, Reply, NoReply
<1>2. Tokenwise
  BY DEF Tokenwise, LiveIsIssued, RevokedWasIssued, CommittedIsSpent, SpentOnce,
         BufferIsPrefix, WholeTextOnly
<1>3. QED BY <1>1, <1>2 DEF IInv, Tokenwise

\* A frame of the client keeps the invariant.
LEMMA ReceiveStep ==
  ASSUME IInv, NEW frame \in Frame, Receive(frame)
  PROVE  Tokenwise'
<1>1. CASE UNCHANGED <<tokens, issued, revoked, committed>>
  BY <1>1 DEF IInv, Tokenwise, LiveIsIssued, RevokedWasIssued, Known, CommittedIsSpent,
              SpentOnce, BufferIsPrefix, Numbered, WholeTextOnly
<1>2. CASE frame.op = "START_FOCUS"
  <2>1. HandleStartFocus
    BY <1>2 DEF Receive, Handle
  <2>2. ASSUME NEW c \in CurrentFocused, NEW t \in Tokens, Issue(c, t) PROVE Tokenwise'
    <3>1. c \in Contexts
      BY <2>2 DEF CurrentFocused, IsFocused, IInv, TypeOK
    <3>2. QED BY <2>2, <3>1, IssueStep
  <2>3. QED BY <1>1, <2>1, <2>2 DEF HandleStartFocus
<1>3. CASE frame.op = "OTHER"
  BY <1>1, <1>3 DEF Receive, Handle, HandleOther
<1>4. CASE frame.op = "COMMIT"
  <2> DEFINE t == frame.token
             p == frame.part
             s == tokens[t]
  <2>1. p \in Part /\ HandleCommit(t, p)
    BY <1>4, CommitFrame DEF Receive, Handle
  <2>2. UNCHANGED <<issued, revoked>>
    BY <2>1 DEF HandleCommit
  <2>3. CASE UNCHANGED <<tokens, committed>>
    BY <1>1, <2>2, <2>3
  <2>4. CASE Erase(t) /\ UNCHANGED committed
    <3>1. (\A u \in Known \ {t} : u \notin revoked') /\ revoked' \subseteq DOMAIN issued
      BY <2>2 DEF IInv, LiveIsIssued, RevokedWasIssued
    <3>2. QED BY <2>2, <2>4, <3>1, DropStep DEF Erase
  <2>5. CASE p.sequence <= p.total /\ t \in Known /\ InSequence(s, p) /\ AcceptChunk(t, p)
    <3>1. /\ Append(s.buffer, p) \in Seq(Part)
          /\ Len(Append(s.buffer, p)) = p.sequence
          /\ Numbered(Append(s.buffer, p), p.total)
      BY <2>1, <2>5, PrefixGrows
    <3>2. CASE p.total = 1 /\ CommitString(t, <<p>>) /\ Erase(t)
      <4>1. p.sequence = 1
        BY <2>1, <2>5, <3>2 DEF Part
      <4>2. <<p>> \in Seq(Part) /\ Len(<<p>>) = 1 /\ DOMAIN <<p>> = {1} /\ <<p>>[1] = p
        BY <2>1
      <4>3. Numbered(<<p>>, Len(<<p>>))
        BY <3>2, <4>1, <4>2 DEF Numbered
      <4>4. QED BY <2>2, <2>5, <3>2, <4>2, <4>3, CommitStep
    <3>3. CASE /\ p.sequence < p.total
               /\ tokens' = [tokens EXCEPT ![t] =
                    [uuid |-> s.uuid, nextSeq |-> p.sequence + 1,
                     total |-> p.total, buffer |-> Append(s.buffer, p)]]
               /\ UNCHANGED committed
      BY <2>1, <2>2, <2>5, <3>3, BufferStep
    <3>4. CASE /\ p.sequence = p.total
               /\ CommitString(t, Append(s.buffer, p))
               /\ Erase(t)
      BY <2>2, <2>5, <3>1, <3>4, CommitStep
    <3>5. QED BY <2>4, <2>5, <3>2, <3>3, <3>4 DEF AcceptChunk, Spend
  <2>6. QED BY <2>1, <2>3, <2>4, <2>5 DEF HandleCommit
<1>5. QED BY <1>2, <1>3, <1>4 DEF Receive, Handle

\* Every action keeps the invariant.
LEMMA StepIInv == IInv /\ [Next]_vars => IInv'
<1> SUFFICES ASSUME IInv, [Next]_vars PROVE IInv'
  OBVIOUS
<1>0. TypeOK'
  BY TypeStep DEF IInv
<1>1. CASE UNCHANGED <<tokens, issued, revoked, committed>>
  BY <1>0, <1>1 DEF IInv, LiveIsIssued, RevokedWasIssued, Known, CommittedIsSpent,
                    SpentOnce, BufferIsPrefix, Numbered, WholeTextOnly
<1>2. CASE Accept
  BY <1>1, <1>2 DEF Accept, addonHistory
<1>3. ASSUME NEW frame \in Frame, Receive(frame) PROVE IInv'
  BY <1>0, <1>3, ReceiveStep DEF IInv, Tokenwise
<1>4. CASE Close
  <2>1. Tokenwise'
    BY <1>4, DropStep DEF Close, Clear
  <2>2. QED BY <1>0, <2>1 DEF IInv, Tokenwise
<1>5. ASSUME NEW c \in Contexts, FocusIn(c) PROVE IInv'
  BY <1>1, <1>5 DEF FocusIn, engineVars, addonHistory
<1>6. ASSUME NEW c \in Contexts, FocusOut(c) \/ Destroy(c) PROVE IInv'
  <2>1. /\ \A t \in Known \ TokensOf(c) : t \notin revoked'
        /\ revoked' \subseteq DOMAIN issued
    BY <1>6 DEF FocusOut, Destroy, IInv, LiveIsIssued, RevokedWasIssued,
                TokensOf, IssuedFor
  <2>2. Tokenwise'
    BY <1>6, <2>1, DropStep DEF FocusOut, Destroy, DropContext
  <2>3. QED BY <1>0, <2>2 DEF IInv, Tokenwise
<1>7. CASE UNCHANGED vars
  BY <1>1, <1>7 DEF vars, engineVars, addonHistory
<1>8. QED BY <1>2, <1>3, <1>4, <1>5, <1>6, <1>7 DEF Next, Focus

\* The invariant holds throughout.
LEMMA InvariantIInv == Spec => []IInv
  BY InitIInv, StepIInv, PTL DEF Spec
-----------------------------------------------------------------------------
\* Every variable keeps its type.
THEOREM TypeCorrect == Spec => []TypeOK
<1>1. IInv => TypeOK
  BY DEF IInv
<1>2. QED BY <1>1, InvariantIInv, PTL

\* Whatever frames arrive, only whole texts are injected.
THEOREM CommitsAreWhole == Spec => []WholeTextOnly
<1>1. IInv => WholeTextOnly
  BY DEF IInv
<1>2. QED BY <1>1, InvariantIInv, PTL

\* No token injects twice.
THEOREM TokensAreSpentOnce == Spec => []SpentOnce
<1>1. IInv => SpentOnce
  BY DEF IInv
<1>2. QED BY <1>1, InvariantIInv, PTL

\* What a step injects has a token that is not revoked, and goes where it was issued for.
LEMMA CommitIsFresh ==
  ASSUME IInv, Next, committed' # committed
  PROVE  LET c == committed'[Len(committed')]
         IN  c.token \notin revoked /\ c.context = issued[c.token]
<1>1. PICK frame \in Frame : frame.op = "COMMIT"
                               /\ HandleCommit(frame.token, frame.part)
  BY DEF Next, Accept, Receive, Handle, HandleStartFocus, Issue, HandleOther, Close,
         Focus, FocusIn, FocusOut, Destroy, addonHistory
<1> DEFINE t == frame.token
           p == frame.part
<1>2. t \in Known /\ AcceptChunk(t, p)
  BY <1>1 DEF HandleCommit
<1>3. PICK parts : CommitString(t, parts)
  BY <1>2 DEF AcceptChunk
<1> DEFINE c == [token |-> t, context |-> tokens[t].uuid, text |-> parts]
<1>4. committed' = Append(committed, c) /\ Len(committed) \in Nat
      /\ committed \in Seq([token: Tokens, context: Contexts, text: Seq(Part)])
  BY <1>3 DEF CommitString, IInv, TypeOK
<1>5. committed'[Len(committed')] = c
  BY <1>4
<1>6. t \notin revoked /\ issued[t] = tokens[t].uuid
  BY <1>2 DEF IInv, LiveIsIssued
<1>7. QED BY <1>5, <1>6

\* No token injects after its context lost focus, got a newer token, or its client
\* left; and it injects into the context it was issued for.
THEOREM RevokedTokensAreDead == Spec => RevokedNeverCommits
<1> DEFINE Alive == committed' # committed =>
                      LET c == committed'[Len(committed')]
                      IN  c.token \notin revoked /\ c.context = issued[c.token]
<1>1. IInv /\ [Next]_vars => [Alive]_vars
  BY CommitIsFresh
<1>2. QED
  BY <1>1, InvariantIInv, PTL DEF Spec, RevokedNeverCommits
=============================================================================
