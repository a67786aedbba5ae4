-------------------------- MODULE PushToTalk_proofs --------------------------
(***************************************************************************)
(* Proofs about PushToTalk, for any number of stop threads, recordings and *)
(* chunks.                                                                 *)
(*                                                                         *)
(* The artifact is a concatenation of shards, which FlattenSeq computes by *)
(* recursion on their number.  What it does when a chunk arrives is proved *)
(* here from the least-number principle, an instance of WFMin: such a      *)
(* lemma takes a set where induction would take a predicate.               *)
(***************************************************************************)
EXTENDS PushToTalk, WellFoundedInduction, SequenceTheorems, TLAPS

(* FlattenSeq of a sequence that grows. *)

\* f is the recursion of FlattenSeq over the first n sequences of ss
IsFlat(f, ss, n) ==
  f = [i \in 1..n |-> IF i = 1 THEN ss[i] ELSE f[i-1] \o ss[i]]

\* A set of numbers that is not empty has a least one.
LEMMA LeastNumber ==
  ASSUME NEW T \in SUBSET Nat, T # {}
  PROVE  \E n \in T : \A m \in T : n <= m
<1> DEFINE R == OpToRel(<, Nat)
<1>1. IsWellFoundedOn(R, Nat)
  BY NatLessThanWellFounded
<1>2. \E x \in T : \A y \in T : ~ (<<y, x>> \in R)
  <2> HIDE DEF R
  <2> QED BY <1>1, WFMin
<1>3. \A x, y \in Nat : <<y, x>> \in R <=> y < x
  BY DEF OpToRel
<1> HIDE DEF R
<1>4. PICK x \in T : \A y \in T : ~ (<<y, x>> \in R)
  BY <1>2
<1>5. \A y \in T : x <= y
  <2>1. TAKE y \in T
  <2>2. x \in Nat /\ y \in Nat
    OBVIOUS
  <2>3. ~(y < x)
    BY <2>2, <1>3, <1>4
  <2>4. QED BY <2>2, <2>3
<1>6. QED
  BY <1>5

\* The recursion has a solution ...
LEMMA FlatExists ==
  ASSUME NEW S, NEW ss \in Seq(Seq(S))
  PROVE  \A n \in 0..Len(ss) : \E f : IsFlat(f, ss, n)
<1> DEFINE T == {n \in 0..Len(ss) : ~\E f : IsFlat(f, ss, n)}
<1>1. SUFFICES ASSUME T # {} PROVE FALSE
  OBVIOUS
<1>2. PICK n \in T : \A m \in T : n <= m
  <2>1. T \in SUBSET Nat
    OBVIOUS
  <2> HIDE DEF T
  <2>2. QED BY <1>1, <2>1, LeastNumber
<1>3. CASE n = 0
  <2>1. IsFlat(<<>>, ss, 0)
    BY DEF IsFlat
  <2>2. QED BY <2>1, <1>2, <1>3
<1>4. CASE n # 0
  <2>1. n \in 1..Len(ss) /\ n - 1 \in 0..Len(ss) /\ n - 1 \in Nat
    BY <1>2, <1>4
  <2>2. PICK f : IsFlat(f, ss, n - 1)
    <3>1. n - 1 \notin T
      <4>1. ~(n <= n - 1)
        BY <2>1
      <4> HIDE DEF T
      <4>2. QED BY <4>1, <1>2
    <3>2. QED BY <2>1, <3>1
  <2> DEFINE g == [i \in 1..n |-> IF i = 1 THEN ss[i] ELSE f[i-1] \o ss[i]]
  <2>3. \A i \in 1..(n-1) : g[i] = f[i]
    <3>1. \A i \in 1..(n-1) : f[i] = IF i = 1 THEN ss[i] ELSE f[i-1] \o ss[i]
      BY <2>2, Zenon DEF IsFlat
    <3>2. \A i \in 1..(n-1) : i \in 1..n
      BY <2>1
    <3>3. QED BY <3>1, <3>2
  <2>4. \A i \in 1..n : i # 1 => g[i-1] = f[i-1]
    <3>1. \A i \in 1..n : i # 1 => i - 1 \in 1..(n-1)
      BY <2>1
    <3> HIDE DEF g
    <3>2. QED BY <3>1, <2>3
  <2>5. g = [i \in 1..n |-> IF i = 1 THEN ss[i] ELSE g[i-1] \o ss[i]]
    <3> DEFINE h == [i \in 1..n |-> IF i = 1 THEN ss[i] ELSE g[i-1] \o ss[i]]
    <3>1. \A i \in 1..n : g[i] = h[i]
      BY <2>4
    <3>2. g = [i \in 1..n |-> g[i]] /\ h = [i \in 1..n |-> h[i]]
      OBVIOUS
    <3> HIDE DEF g, h
    <3>3. g = h
      BY <3>1, <3>2
    <3>4. QED BY <3>3 DEF h
  <2>6. IsFlat(g, ss, n)
    <3> HIDE DEF g
    <3>1. QED BY <2>5 DEF IsFlat
  <2>7. QED BY <2>6, <1>2
<1>5. QED
  BY <1>3, <1>4

\* ... whose last value is what FlattenSeq returns.
LEMMA FlatIs ==
  ASSUME NEW S, NEW ss \in Seq(Seq(S)), ss # <<>>
  PROVE  \E f : IsFlat(f, ss, Len(ss)) /\ FlattenSeq(ss) = f[Len(ss)]
<1>1. Len(ss) # 0 /\ Len(ss) \in 0..Len(ss)
  OBVIOUS
<1>2. \E f : IsFlat(f, ss, Len(ss))
  BY <1>1, FlatExists
<1> DEFINE ff == CHOOSE f : IsFlat(f, ss, Len(ss))
<1>3. IsFlat(ff, ss, Len(ss))
  BY <1>2
<1>4. FlattenSeq(ss) = ff[Len(ss)]
  BY <1>1 DEF FlattenSeq, IsFlat
<1>5. QED
  BY <1>3, <1>4

\* Its values are sequences of the same elements.
LEMMA FlatIsSeq ==
  ASSUME NEW S, NEW ss \in Seq(Seq(S)), NEW n \in 0..Len(ss),
         NEW f, IsFlat(f, ss, n)
  PROVE  \A k \in 1..n : f[k] \in Seq(S)
<1> DEFINE T == {k \in 1..n : f[k] \notin Seq(S)}
<1>1. SUFFICES ASSUME T # {} PROVE FALSE
  OBVIOUS
<1>2. PICK k \in T : \A m \in T : k <= m
  <2>1. T \in SUBSET Nat
    OBVIOUS
  <2> HIDE DEF T
  <2>2. QED BY <1>1, <2>1, LeastNumber
<1>3. f[k] = IF k = 1 THEN ss[k] ELSE f[k-1] \o ss[k]
  BY Zenon DEF IsFlat
<1>4. k \in 1..Len(ss) /\ ss[k] \in Seq(S)
  OBVIOUS
<1>5. CASE k = 1
  BY <1>3, <1>4, <1>5
<1>6. CASE k # 1
  <2>1. k - 1 \in 1..n /\ ~(k <= k - 1)
    BY <1>4, <1>6
  <2>2. k - 1 \notin T
    <3> HIDE DEF T
    <3>1. QED BY <2>1, <1>2
  <2>3. f[k-1] \in Seq(S)
    BY <2>1, <2>2
  <2>4. f[k-1] \o ss[k] \in Seq(S)
    BY <2>3, <1>4, ConcatProperties
  <2>5. QED BY <1>3, <1>6, <2>4
<1>7. QED
  BY <1>5, <1>6

\* The recursion looks at the sequences it has passed only.
LEMMA FlatPrefix ==
  ASSUME NEW ss, NEW tt, NEW n \in Nat, NEW m \in Nat,
         NEW f, IsFlat(f, ss, n), NEW g, IsFlat(g, tt, m),
         NEW p \in 1..n, p \in 1..m, \A i \in 1..p : ss[i] = tt[i]
  PROVE  f[p] = g[p]
<1> DEFINE T == {k \in 1..p : f[k] # g[k]}
<1>1. SUFFICES ASSUME T # {} PROVE FALSE
  OBVIOUS
<1>2. PICK k \in T : \A j \in T : k <= j
  <2>1. T \in SUBSET Nat
    OBVIOUS
  <2> HIDE DEF T
  <2>2. QED BY <1>1, <2>1, LeastNumber
<1>3. k \in 1..n /\ k \in 1..m /\ ss[k] = tt[k] /\ k \in Nat
  OBVIOUS
<1>4. /\ f[k] = IF k = 1 THEN ss[k] ELSE f[k-1] \o ss[k]
      /\ g[k] = IF k = 1 THEN tt[k] ELSE g[k-1] \o tt[k]
  <2> HIDE DEF T
  <2>1. QED BY <1>3, Zenon DEF IsFlat
<1>5. CASE k = 1
  BY <1>3, <1>4, <1>5
<1>6. CASE k # 1
  <2>1. k - 1 \in 1..p /\ ~(k <= k - 1)
    BY <1>3, <1>6
  <2>2. k - 1 \notin T
    <3> HIDE DEF T
    <3>1. QED BY <2>1, <1>2
  <2>3. f[k-1] = g[k-1]
    BY <2>1, <2>2
  <2>4. QED BY <1>3, <1>4, <1>6, <2>3
<1>7. QED
  BY <1>5, <1>6

\* A concatenation of sequences over S is a sequence over S.
LEMMA FlattenSeqType ==
  ASSUME NEW S, NEW ss \in Seq(Seq(S))
  PROVE  FlattenSeq(ss) \in Seq(S)
<1>1. CASE ss = <<>>
  BY <1>1 DEF FlattenSeq
<1>2. CASE ss # <<>>
  <2>1. PICK f : IsFlat(f, ss, Len(ss)) /\ FlattenSeq(ss) = f[Len(ss)]
    BY <1>2, FlatIs
  <2>2. Len(ss) \in 1..Len(ss) /\ Len(ss) \in 0..Len(ss)
    BY <1>2
  <2>3. QED BY <2>1, <2>2, FlatIsSeq
<1>3. QED BY <1>1, <1>2

\* A new shard: its chunks come last.
LEMMA FlattenSeqAppend ==
  ASSUME NEW S, NEW ss \in Seq(Seq(S)), NEW s \in Seq(S)
  PROVE  FlattenSeq(Append(ss, s)) = FlattenSeq(ss) \o s
<1> DEFINE tt == Append(ss, s)
           n == Len(ss)
<1>1. /\ tt \in Seq(Seq(S)) /\ Len(tt) = n + 1 /\ tt # <<>>
      /\ n \in Nat /\ tt[n+1] = s /\ \A i \in 1..n : tt[i] = ss[i]
  BY AppendProperties
<1>0. n = Len(ss)
  OBVIOUS
<1> HIDE DEF tt, n
<1>2. PICK g : IsFlat(g, tt, n + 1) /\ FlattenSeq(tt) = g[n + 1]
  BY <1>1, FlatIs
<1>3. g[n+1] = IF n = 0 THEN s ELSE g[n] \o s
  <2>1. \A i \in 1..(n + 1) : g[i] = IF i = 1 THEN tt[i] ELSE g[i-1] \o tt[i]
    BY <1>2, Zenon DEF IsFlat
  <2>2. n + 1 \in 1..(n + 1) /\ n + 1 - 1 = n /\ (n + 1 = 1 <=> n = 0)
    BY <1>1
  <2>3. QED BY <2>1, <2>2, <1>1
<1>4. CASE ss = <<>>
  <2>1. n = 0 /\ FlattenSeq(ss) = <<>>
    BY <1>0, <1>4 DEF FlattenSeq
  <2>2. FlattenSeq(tt) = s
    BY <1>1, <1>2, <1>3, <2>1
  <2>3. QED BY <2>1, <2>2, ConcatEmptySeq DEF tt
<1>5. CASE ss # <<>>
  <2>1. PICK f : IsFlat(f, ss, n) /\ FlattenSeq(ss) = f[n]
    BY <1>0, <1>5, FlatIs
  <2>2. n # 0 /\ n \in 1..n /\ n <= n + 1 /\ n <= n /\ n + 1 \in Nat
    BY <1>0, <1>5, <1>1
  <2>3. f[n] = g[n]
    <3>1. \A i \in 1..n : ss[i] = tt[i]
      BY <1>1
    <3>2. n \in 1..(n + 1)
      BY <2>2
    <3>3. QED BY ONLY <3>1, <3>2, <1>1, <1>2, <2>1, <2>2, FlatPrefix
  <2>4. QED BY <1>1, <1>2, <1>3, <2>1, <2>2, <2>3 DEF tt
<1>6. QED BY <1>4, <1>5

\* A chunk at the end of the last shard comes last.
LEMMA FlattenSeqExtend ==
  ASSUME NEW S, NEW ss \in Seq(Seq(S)), ss # <<>>, NEW x \in S
  PROVE  FlattenSeq([ss EXCEPT ![Len(ss)] = Append(@, x)]) = Append(FlattenSeq(ss), x)
<1> DEFINE n == Len(ss)
           final == ss[n]
           tt == [ss EXCEPT ![n] = Append(@, x)]
<1>1. n \in Nat /\ n >= 1 /\ n \in 1..n /\ final \in Seq(S) /\ ss = [i \in 1..n |-> ss[i]]
  OBVIOUS
<1>2. /\ tt \in Seq(Seq(S)) /\ Len(tt) = n /\ tt # <<>>
      /\ tt[n] = Append(final, x) /\ \A i \in 1..(n-1) : tt[i] = ss[i]
  <2>1. Append(final, x) \in Seq(S)
    BY <1>1
  <2>2. QED BY <1>1, <2>1
<1>0. n = Len(ss)
  OBVIOUS
<1> HIDE DEF tt, n
<1>3. PICK g : IsFlat(g, tt, n) /\ FlattenSeq(tt) = g[n]
  BY <1>2, FlatIs
<1>4. PICK f : IsFlat(f, ss, n) /\ FlattenSeq(ss) = f[n]
  BY <1>0, FlatIs
<1>5. /\ g[n] = IF n = 1 THEN tt[n] ELSE g[n-1] \o tt[n]
      /\ f[n] = IF n = 1 THEN final ELSE f[n-1] \o final
  BY <1>1, <1>3, <1>4, Zenon DEF IsFlat
<1>6. CASE n = 1
  BY <1>0, <1>2, <1>3, <1>4, <1>5, <1>6 DEF tt
<1>7. CASE n # 1
  <2>1. n - 1 \in Nat /\ n - 1 <= n /\ n - 1 \in 1..n /\ n - 1 \in 1..(n - 1) /\ n \in 0..n
    BY <1>1, <1>7
  <2>2. f[n-1] = g[n-1]
    <3>1. \A i \in 1..(n-1) : ss[i] = tt[i]
      BY <1>2
    <3>2. \A q \in 1..n : (\A i \in 1..q : ss[i] = tt[i]) => f[q] = g[q]
      <4>1. n \in Nat /\ IsFlat(f, ss, n) /\ IsFlat(g, tt, n)
        BY <1>1, <1>3, <1>4
      <4>2. QED BY ONLY <4>1, FlatPrefix
    <3>3. QED BY <3>1, <3>2, <2>1
  <2>3. f[n-1] \in Seq(S)
    BY <1>0, <1>4, <2>1, FlatIsSeq
  <2> DEFINE h == f[n-1]
  <2> HIDE DEF h
  <2>4. h \o Append(final, x) = Append(h \o final, x)
    <3>1. h \in Seq(S) /\ <<x>> \in Seq(S)
      BY <2>3 DEF h
    <3>0. final \in Seq(S)
      BY <1>1
    <3> HIDE DEF final
    <3>2. Append(final, x) = final \o <<x>>
      BY <3>0, AppendIsConcat
    <3>3. h \o final \in Seq(S)
      BY <3>0, <3>1, ConcatProperties
    <3>4. Append(h \o final, x) = (h \o final) \o <<x>>
      BY <3>3, AppendIsConcat
    <3>5. (h \o final) \o <<x>> = h \o (final \o <<x>>)
      BY ONLY <3>0, <3>1, ConcatAssociative
    <3>6. QED BY <3>2, <3>4, <3>5
  <2>5. QED BY <1>0, <1>2, <1>3, <1>4, <1>5, <1>7, <2>2, <2>4 DEF tt, h
<1>8. QED BY <1>6, <1>7

-----------------------------------------------------------------------------
(* The inductive invariant. *)

Events == {"press", "other press", "release"}
Stopping == {"request", "seal", "pipeline", "quit", "purge"}
Starting == {"confirm", "open", "recheck", "notify", "quit", "purge"}
Steps == Stopping \union Starting \union {"off", "try", "wait"}
Stops == Threads \ {Listener}

KeyTypes ==
  /\ cDown \in BOOLEAN /\ onlySuper \in BOOLEAN /\ repeating \in BOOLEAN
  /\ changes \in 0..MaxChanges
  /\ held \in BOOLEAN /\ releasePending \in BOOLEAN
  /\ events \in Seq(Events)

ThreadTypes ==
  /\ pc \in [Threads -> Steps]
  /\ lock \in {Free, Listener}
  /\ state \in {"idle", "recording", "finalizing"}
  /\ autoEvent \in BOOLEAN

RecorderTypes ==
  /\ proc \in {0} \union Recordings /\ last \in 0..MaxRecordings
  /\ alive \subseteq Recordings /\ killed \subseteq alive
  /\ reader \subseteq Recordings /\ outlived \subseteq Recordings
  /\ written \in 0..MaxChunks /\ cut \in BOOLEAN
  /\ stopEvent \in BOOLEAN /\ overtime \in BOOLEAN
  /\ watch \in [Recordings -> {"off", "loop", "due"}]
  /\ backing \subseteq Recordings

StoreTypes ==
  /\ memory \in Seq(Chunks) /\ Len(memory) \in 0..MemoryChunks
  /\ shards \in Seq(Seq(Chunks))
  /\ \A i \in 1..Len(shards) : Len(shards[i]) \in 1..ShardChunks
  /\ pipe \in [Recordings -> Seq(Chunks)]
  /\ \A r \in Recordings : Len(pipe[r]) \in 0..PipeChunks

\* While C is down and no modifier has changed, what is not read yet ends with a
\* press, or the press was read and cancelled the release before it.
PressIsLast ==
  cDown /\ changes = 0 =>
    /\ onlySuper
    /\ IF events = <<>> THEN ~releasePending ELSE events[Len(events)] = "press"

\* The listener holds the lock from the moment it finds the daemon idle until
\* it has started or cleaned up; one stop thread at a time is past the lock,
\* and while it is, the state is "finalizing".
Control ==
  /\ lock = Listener <=> pc[Listener] \in Starting
  /\ pc[Listener] \in Starting \union {"off", "try"}
  /\ pc[Listener] = "notify" => state = "recording"
  /\ pc[Listener] \in Starting \ {"notify"} => state = "idle"
  /\ \A t \in Stops : pc[t] \in Stopping \union {"off", "wait"}
  /\ \A t \in Stops : pc[t] \in Stopping => state = "finalizing"
  /\ \A t, u \in Stops : pc[t] \in Stopping /\ pc[u] \in Stopping => t = u

\* A process that was not killed and a reader that did not outlive its join
\* belong to the recording in proc, the latest one.  A reader leaves an empty
\* pipe, and without a failure it has seen its process end.
Capture ==
  /\ alive \ killed \subseteq {proc} /\ reader \ outlived \subseteq {proc}
  /\ proc \in {0, last}
  /\ \A r \in alive \union reader : r <= last
  /\ \A r \in Recordings \ reader : pipe[r] = <<>>
  /\ proc \in alive /\ proc \notin reader => cut
  /\ \A t \in Stops : pc[t] = "seal" => proc # 0

Clean == proc = 0 /\ backing = {} /\ (outlived = {} => shards = <<>>)

\* Nothing is left while the daemon is idle, and until start has opened a
\* recording.
NothingLeft ==
  state = "idle" /\ (lock = Free \/ pc[Listener] \in {"confirm", "open"}) => Clean

\* What the readers stored.
Stored == memory \o FlattenSeq(shards)

\* Chunks of recording r in order, none after the n-th, and all of them unless
\* a failure lost some.
Holds(audio, r, n, lossy) ==
  /\ InOrder(audio, r)
  /\ \A i \in 1..Len(audio) : audio[i][2] <= n
  /\ ~lossy => audio = Captured(r, n)

\* What is stored and what is in the pipe is what pw-record wrote.
StoredInOrder ==
  proc # 0 /\ outlived = {} => Holds(Stored \o pipe[proc], proc, written, cut)

IInv ==
  /\ KeyTypes /\ ThreadTypes /\ RecorderTypes /\ StoreTypes
  /\ PressIsLast /\ Control /\ Capture /\ NothingLeft /\ StoredInOrder
  /\ ArtifactIsTheRecording

\* TypeOK follows from the types of IInv.
LEMMA TypesGiveTypeOK == KeyTypes /\ ThreadTypes /\ RecorderTypes /\ StoreTypes => TypeOK
<1> SUFFICES ASSUME KeyTypes, ThreadTypes, RecorderTypes, StoreTypes PROVE TypeOK
  OBVIOUS
<1>1. \A i \in 1..Len(events) : events[i] \in {"press", "other press", "release"}
  <2>1. \A i \in 1..Len(events) : events[i] \in Events
    BY DEF KeyTypes
  <2>2. QED BY <2>1 DEF Events
<1>2. {cDown, onlySuper, repeating, held, releasePending, autoEvent, stopEvent,
       overtime, cut} \subseteq BOOLEAN
  BY DEF KeyTypes, ThreadTypes, RecorderTypes
<1>3. pc \in [Threads -> {"off", "try", "confirm", "open", "recheck", "notify", "wait",
                         "request", "seal", "pipeline", "quit", "purge"}]
  BY DEF ThreadTypes, Steps, Starting, Stopping
<1>4. alive \union reader \union outlived \union backing \subseteq Recordings
  BY DEF RecorderTypes
<1>5. QED
  BY <1>1, <1>2, <1>3, <1>4 DEF TypeOK, KeyTypes, ThreadTypes, RecorderTypes, StoreTypes

-----------------------------------------------------------------------------
(* What an action leaves alone keeps its part of the invariant. *)

USE DEF keyVars, listenVars, procVars, audioVars, watchVars, ownVars, recorderVars,
        keyUnchanged, listenUnchanged, startUnchanged, stopUnchanged,
        callerUnchanged, threadUnchanged, readUnchanged, GoTo

\* The part about keys and events depends on their variables only.
LEMMA KeysKept ==
  ASSUME IInv, UNCHANGED <<keyVars, listenVars>>
  PROVE  KeyTypes' /\ PressIsLast'
BY DEF IInv, KeyTypes, PressIsLast

\* The part about threads and lock depends on their variables only.
LEMMA ControlKept ==
  ASSUME IInv, UNCHANGED <<pc, lock, state>>
  PROVE  Control'
BY DEF IInv, Control

\* The part about the audio depends on what holds audio only.
LEMMA StoreKept ==
  ASSUME IInv, UNCHANGED <<proc, written, pipe, memory, shards, cut, outlived, sealed>>
  PROVE  StoreTypes' /\ StoredInOrder' /\ ArtifactIsTheRecording'
<1>1. StoreTypes'
  BY DEF IInv, StoreTypes
<1>2. StoredInOrder'
  BY DEF IInv, StoredInOrder, Stored
<1>3. ArtifactIsTheRecording'
  BY DEF IInv, ArtifactIsTheRecording
<1>4. QED BY <1>1, <1>2, <1>3

\* The part about the recorder depends on its variables only.
LEMMA RecorderKept ==
  ASSUME IInv, UNCHANGED recorderVars
  PROVE  RecorderTypes' /\ StoreTypes' /\ StoredInOrder' /\ ArtifactIsTheRecording'
<1>1. RecorderTypes'
  BY DEF IInv, RecorderTypes
<1>2. QED BY <1>1, StoreKept

\* Threads and recorder alone: only the keyboard moves.
LEMMA DaemonKept ==
  ASSUME IInv, UNCHANGED <<pc, lock, state, autoEvent, recorderVars>>
  PROVE  /\ ThreadTypes' /\ RecorderTypes' /\ StoreTypes' /\ Control' /\ Capture'
         /\ NothingLeft' /\ StoredInOrder' /\ ArtifactIsTheRecording'
<1>1. ThreadTypes'
  BY DEF IInv, ThreadTypes
<1>2. Capture'
  BY DEF IInv, Capture
<1>3. NothingLeft'
  BY DEF IInv, NothingLeft, Clean
<1>4. QED BY <1>1, <1>2, <1>3, ControlKept, RecorderKept

-----------------------------------------------------------------------------
\* An event that is sent keeps the types.
LEMMA EventSent ==
  ASSUME KeyTypes, NEW e \in Events
  PROVE  /\ Append(events, e) \in Seq(Events) /\ Append(events, e) # <<>>
         /\ Append(events, e)[Len(Append(events, e))] = e
<1>1. events \in Seq(Events)
  BY DEF KeyTypes
<1>2. QED BY <1>1, AppendProperties

\* The keyboard presses, releases and repeats.
LEMMA KeyboardStep ==
  ASSUME IInv, Keyboard
  PROVE  IInv'
<1> USE DEF IInv
<1>1. CASE PressSuperC
  <2>0. "press" \in Events /\ events' = Append(events, "press") /\ 0 \in 0..MaxChanges
    BY <1>1, PushToTalkConstants DEF PressSuperC, Events
  <2>1. events' \in Seq(Events) /\ events' # <<>> /\ events'[Len(events')] = "press"
    BY <2>0, EventSent
  <2>2. KeyTypes' /\ PressIsLast'
    BY <1>1, <2>0, <2>1 DEF PressSuperC, KeyTypes, PressIsLast
  <2>3. QED BY <1>1, <2>2, DaemonKept DEF PressSuperC
<1>2. CASE ChangeModifiers
  <2>1. changes' \in 0..MaxChanges /\ changes' # 0
    BY <1>2, PushToTalkConstants DEF ChangeModifiers, KeyTypes
  <2>2. KeyTypes' /\ PressIsLast'
    BY <1>2, <2>1 DEF ChangeModifiers, KeyTypes, PressIsLast
  <2>3. QED BY <1>2, <2>2, DaemonKept DEF ChangeModifiers
<1>3. CASE Repeat
  <2>1. /\ events' = <<"release", PressedWith(onlySuper)>>
        /\ UNCHANGED <<cDown, onlySuper, changes, held, releasePending>>
        /\ repeating' = TRUE
    BY <1>3 DEF Repeat
  <2>2. PressedWith(onlySuper) \in Events /\ "release" \in Events
    BY DEF PressedWith, Events
  <2>3. events' \in Seq(Events) /\ events' # <<>>
        /\ events'[Len(events')] = PressedWith(onlySuper)
    BY <2>1, <2>2
  <2>4. onlySuper => PressedWith(onlySuper) = "press"
    BY DEF PressedWith
  <2>5. KeyTypes'
    BY <2>1, <2>3 DEF KeyTypes
  <2>6. PressIsLast'
    BY <2>1, <2>3, <2>4 DEF PressIsLast
  <2>7. QED BY <1>3, <2>5, <2>6, DaemonKept DEF Repeat
<1>4. CASE PressOther
  <2>1. KeyTypes' /\ PressIsLast'
    BY <1>4 DEF PressOther, KeyTypes, PressIsLast
  <2>2. QED BY <1>4, <2>1, DaemonKept DEF PressOther
<1>5. CASE ReleaseC
  <2>0. "release" \in Events /\ 0 \in 0..MaxChanges
    BY PushToTalkConstants DEF Events
  <2>1. KeyTypes'
    BY <1>5, <2>0, EventSent DEF ReleaseC, KeyTypes
  <2>2. PressIsLast'
    BY <1>5 DEF ReleaseC, PressIsLast
  <2>3. QED BY <1>5, <2>1, <2>2, DaemonKept DEF ReleaseC
<1>6. QED
  BY <1>1, <1>2, <1>3, <1>4, <1>5 DEF Keyboard

\* Reading an event: what is left ends as it did.
LEMMA TailEnds ==
  ASSUME NEW S, NEW s \in Seq(S), s # <<>>, Tail(s) # <<>>
  PROVE  Tail(s)[Len(Tail(s))] = s[Len(s)]
OBVIOUS

\* A queue whose tail is empty has one event.
LEMMA HeadIsLast ==
  ASSUME NEW S, NEW s \in Seq(S), s # <<>>, Tail(s) = <<>>
  PROVE  s[Len(s)] = Head(s)
<1>1. Len(s) = 1
  <2>1. Len(Tail(s)) = Len(s) - 1
    BY HeadTailProperties
  <2>2. Len(<<>>) = 0 /\ Len(s) \in Nat
    OBVIOUS
  <2>3. Len(Tail(s)) = 0
    BY <2>2, Zenon
  <2>4. QED BY <2>1, <2>2, <2>3
<1>2. QED BY <1>1

\* The listener takes an event, or lets a pending release fire.
LEMMA ListenStep ==
  ASSUME IInv, Listen
  PROVE  IInv'
<1> USE DEF IInv
<1>1. CASE HandlePress
  <2>1. KeyTypes' /\ ThreadTypes'
    <3>1. KeyTypes'
      <4>1. Tail(events) \in Seq(Events)
        BY <1>1, HeadTailProperties DEF HandlePress, KeyTypes
      <4>2. QED BY <1>1, <4>1 DEF HandlePress, KeyTypes
    <3>2. ThreadTypes'
      BY <1>1 DEF HandlePress, ThreadTypes, Steps
    <3>3. QED BY <3>1, <3>2
  <2>2. PressIsLast'
    <3>1. CASE Tail(events) = <<>>
      <4>1. events[Len(events)] = Head(events)
        BY <1>1, <3>1, HeadIsLast DEF HandlePress, KeyTypes
      <4>2. QED BY <1>1, <3>1, <4>1 DEF HandlePress, PressIsLast, KeyTypes
    <3>2. CASE Tail(events) # <<>>
      <4>1. Tail(events)[Len(Tail(events))] = events[Len(events)]
        BY <1>1, <3>2, TailEnds DEF HandlePress, KeyTypes
      <4>2. QED BY <1>1, <3>2, <4>1 DEF HandlePress, PressIsLast, KeyTypes
    <3>3. QED BY <3>1, <3>2
  <2>3. Control'
    BY <1>1 DEF HandlePress, Control, Stops, Starting, Stopping, ThreadTypes
  <2>4. Capture' /\ NothingLeft'
    BY <1>1 DEF HandlePress, Capture, NothingLeft, Clean, Stops, ThreadTypes
  <2>5. QED BY <1>1, <2>1, <2>2, <2>3, <2>4, RecorderKept DEF HandlePress
<1>2. CASE HandleRelease
  <2>1. KeyTypes'
    BY <1>2 DEF HandleRelease, KeyTypes
  <2>2. PressIsLast'
    <3>1. CASE Tail(events) = <<>>
      <4>1. events[Len(events)] = Head(events)
        BY <1>2, <3>1, HeadIsLast DEF HandleRelease, KeyTypes
      <4>2. QED BY <1>2, <3>1, <4>1 DEF HandleRelease, PressIsLast, KeyTypes
    <3>2. CASE Tail(events) # <<>>
      <4>1. Tail(events)[Len(Tail(events))] = events[Len(events)]
        BY <1>2, <3>2, TailEnds DEF HandleRelease, KeyTypes
      <4>2. QED BY <1>2, <3>2, <4>1 DEF HandleRelease, PressIsLast, KeyTypes
    <3>3. QED BY <3>1, <3>2
  <2>3. QED BY <1>2, <2>1, <2>2, DaemonKept DEF HandleRelease
<1>3. ASSUME NEW t \in Stoppers, FlushRelease(t)
      PROVE  IInv'
  <2>1. KeyTypes' /\ ThreadTypes'
    BY <1>3 DEF FlushRelease, KeyTypes, ThreadTypes, Steps, Threads
  <2>2. PressIsLast'
    BY <1>3 DEF FlushRelease, PressIsLast
  <2>3. Control'
    BY <1>3, PushToTalkConstants
    DEF FlushRelease, Control, Stops, Threads, Starting, Stopping, ThreadTypes
  <2>4. Capture' /\ NothingLeft'
    BY <1>3, PushToTalkConstants
    DEF FlushRelease, Capture, NothingLeft, Clean, Stops, Threads, ThreadTypes
  <2>5. QED BY <1>3, <2>1, <2>2, <2>3, <2>4, RecorderKept DEF FlushRelease
<1>4. QED
  BY <1>1, <1>2, <1>3 DEF Listen

-----------------------------------------------------------------------------
(* What the recorder holds of a recording. *)

\* Nothing is held of a recording that has just started.
LEMMA HoldsNothing ==
  ASSUME NEW r
  PROVE  Holds(<<>>, r, 0, FALSE)
<1>1. Captured(r, 0) = <<>>
  BY DEF Captured
<1>2. QED BY <1>1 DEF Holds, InOrder

\* What is held of a recording that is captured grows by one chunk at a time.
LEMMA CapturedGrows ==
  ASSUME NEW r, NEW n \in Nat
  PROVE  Captured(r, n + 1) = Append(Captured(r, n), <<r, n + 1>>)
<1> DEFINE S == {<<r, i>> : i \in Nat}
           a == Captured(r, n)
           b == Captured(r, n + 1)
           e == <<r, n + 1>>
<1>1. /\ a \in Seq(S) /\ b \in Seq(S) /\ e \in S /\ Len(a) = n /\ Len(b) = n + 1
      /\ \A i \in 1..n : a[i] = <<r, i>>
      /\ \A i \in 1..(n + 1) : b[i] = <<r, i>>
  <2>1. n + 1 \in Nat /\ \A i \in Nat : <<r, i>> \in S
    OBVIOUS
  <2>2. a = [i \in 1..n |-> <<r, i>>] /\ b = [i \in 1..(n + 1) |-> <<r, i>>]
    BY DEF Captured
  <2>3. (\A i \in 1..n : i \in Nat) /\ (\A i \in 1..(n + 1) : i \in Nat)
    OBVIOUS
  <2> HIDE DEF S, a, b
  <2>4. QED BY <2>1, <2>2, <2>3
<1> HIDE DEF S, a, b
<1>2. /\ Append(a, e) \in Seq(S) /\ Len(Append(a, e)) = n + 1
      /\ \A i \in 1..n : Append(a, e)[i] = a[i]
      /\ Append(a, e)[n + 1] = e
  BY <1>1, AppendProperties
<1>3. \A i \in 1..(n + 1) : i \in 1..n \/ i = n + 1
  OBVIOUS
<1>4. \A i \in 1..(n + 1) : b[i] = Append(a, e)[i]
  BY <1>1, <1>2, <1>3
<1>5. b = Append(a, e)
  BY <1>1, <1>2, <1>4, SeqEqual
<1>6. QED BY <1>5 DEF a, b

\* The next chunk comes last.
LEMMA HoldsNext ==
  ASSUME NEW r \in Recordings, NEW n \in Nat, NEW lossy \in BOOLEAN,
         NEW a \in Seq(Chunks), Holds(a, r, n, lossy), n + 1 <= MaxChunks
  PROVE  Holds(Append(a, <<r, n + 1>>), r, n + 1, lossy)
<1> DEFINE e == <<r, n + 1>>
           b == Append(a, e)
<1>1. e \in Chunks /\ e[1] = r /\ e[2] = n + 1
  BY PushToTalkConstants DEF Chunks
<1> HIDE DEF e
<1>2. /\ b \in Seq(Chunks) /\ Len(b) = Len(a) + 1 /\ b[Len(a) + 1] = e
      /\ \A i \in 1..Len(a) : b[i] = a[i]
  BY <1>1, AppendProperties
<1>3. \A i \in 1..Len(b) : i \in 1..Len(a) \/ i = Len(a) + 1
  BY <1>2
<1>4. \A i \in 1..Len(a) : a[i][1] = r /\ a[i][2] <= n /\ a[i][2] \in Nat
  <2>1. \A i \in 1..Len(a) : a[i][2] \in 1..MaxChunks
    BY DEF Chunks
  <2>2. QED BY <2>1, PushToTalkConstants DEF Holds, InOrder
<1> HIDE DEF b
<1>5. \A i \in 1..Len(b) : b[i][1] = r
  BY <1>1, <1>2, <1>3, <1>4
<1>6. \A i \in 1..Len(b) : b[i][2] <= n + 1
  BY <1>1, <1>2, <1>3, <1>4
<1>7. \A i, j \in 1..Len(b) : i < j => b[i][2] < b[j][2]
  <2>1. SUFFICES ASSUME NEW i \in 1..Len(b), NEW j \in 1..Len(b), i < j
                 PROVE  b[i][2] < b[j][2]
    OBVIOUS
  <2>2. i \in 1..Len(a) /\ Len(a) \in Nat
    BY <1>2, <2>1
  <2>3. CASE j \in 1..Len(a)
    BY <1>2, <2>1, <2>2, <2>3 DEF Holds, InOrder
  <2>4. CASE j = Len(a) + 1
    BY <1>1, <1>2, <1>4, <2>2, <2>4
  <2>5. QED BY <1>3, <2>3, <2>4
<1>8. ~lossy => b = Captured(r, n + 1)
  BY CapturedGrows DEF Holds, b, e
<1>9. QED
  BY <1>5, <1>6, <1>7, <1>8 DEF Holds, InOrder, b, e

\* What is lost at the end or in between leaves the rest in order.
LEMMA HoldsPart ==
  ASSUME NEW r, NEW n \in Nat, NEW m \in Nat, NEW lossy \in BOOLEAN,
         NEW a \in Seq(Chunks), Holds(a, r, n, lossy), n <= m,
         NEW b \in Seq(Chunks), NEW k \in Nat, NEW d \in {0, 1},
         Len(b) + d <= Len(a),
         \A i \in 1..Len(b) : b[i] = IF i <= k THEN a[i] ELSE a[i + d]
  PROVE  Holds(b, r, m, TRUE)
<1>1. Len(a) \in Nat /\ Len(b) \in Nat
  OBVIOUS
<1>2. \A i \in 1..Len(a) : a[i][2] \in Nat
  BY PushToTalkConstants DEF Chunks
<1> DEFINE at(i) == IF i <= k THEN i ELSE i + d
<1>3. \A i \in 1..Len(b) : at(i) \in 1..Len(a) /\ b[i] = a[at(i)]
  BY <1>1
<1>4. \A i, j \in 1..Len(b) : i < j => at(i) < at(j)
  BY <1>1
<1> HIDE DEF at
<1>5. \A i \in 1..Len(b) : b[i][1] = r /\ b[i][2] <= m
  BY <1>2, <1>3 DEF Holds, InOrder
<1>6. \A i, j \in 1..Len(b) : i < j => b[i][2] < b[j][2]
  BY <1>3, <1>4 DEF Holds, InOrder
<1>7. QED BY <1>5, <1>6 DEF Holds, InOrder

\* A chunk at the end of one sequence may as well be at the start of the next.
LEMMA HeadMoves ==
  ASSUME NEW S, NEW a \in Seq(S), NEW p \in Seq(S), p # <<>>
  PROVE  Append(a, Head(p)) \o Tail(p) = a \o p
<1> DEFINE h == Head(p)
           q == Tail(p)
<1>1. h \in S /\ q \in Seq(S) /\ p = <<h>> \o q
  OBVIOUS
<1> HIDE DEF h, q
<1>2. <<h>> \in Seq(S) /\ Append(a, h) = a \o <<h>>
  BY <1>1, AppendIsConcat
<1>3. (a \o <<h>>) \o q = a \o (<<h>> \o q)
  BY <1>1, <1>2, ConcatAssociative
<1>4. QED BY <1>1, <1>2, <1>3 DEF h, q

\* A chunk at the end of the second sequence is at the end of both.
LEMMA EndOfBoth ==
  ASSUME NEW S, NEW a \in Seq(S), NEW p \in Seq(S), NEW x \in S
  PROVE  a \o Append(p, x) = Append(a \o p, x)
<1>1. <<x>> \in Seq(S) /\ a \o p \in Seq(S)
  BY ConcatProperties
<1>2. Append(p, x) = p \o <<x>> /\ Append(a \o p, x) = (a \o p) \o <<x>>
  BY <1>1, AppendIsConcat
<1>3. (a \o p) \o <<x>> = a \o (p \o <<x>>)
  BY <1>1, ConcatAssociative
<1>4. QED BY <1>2, <1>3

\* The types of what is stored.
LEMMA StoredType ==
  ASSUME StoreTypes
  PROVE  Stored \in Seq(Chunks)
<1>1. FlattenSeq(shards) \in Seq(Chunks)
  BY FlattenSeqType DEF StoreTypes
<1>2. QED BY <1>1, ConcatProperties DEF StoreTypes, Stored

-----------------------------------------------------------------------------
(* start_if_idle *)

\* start_if_idle from the lock to the capture, or back out of it.
LEMMA StartStep ==
  ASSUME IInv, Start
  PROVE  IInv'
<1> USE DEF IInv
<1>0. Listener \in Threads /\ Listener # Free
  BY DEF Threads, Listener, Free
<1>1. CASE StartTries
  <2>1. ThreadTypes'
    BY <1>1 DEF StartTries, ThreadTypes, Steps, Starting
  <2>2. Control'
    BY <1>0, <1>1 DEF StartTries, Control, Stops, Starting, Stopping, ThreadTypes
  <2>3. Capture'
    BY <1>1 DEF StartTries, Capture, Stops, ThreadTypes
  <2>4. NothingLeft'
    BY <1>0, <1>1 DEF StartTries, NothingLeft, Clean, Control, Starting, ThreadTypes
  <2>5. QED BY <1>1, <2>1, <2>2, <2>3, <2>4, KeysKept, RecorderKept DEF StartTries
<1>2. CASE StartConfirms
  <2>1. ThreadTypes'
    BY <1>2 DEF StartConfirms, ThreadTypes, Steps, Starting
  <2>2. Control'
    BY <1>0, <1>2 DEF StartConfirms, Control, Stops, Starting, Stopping, ThreadTypes
  <2>3. Capture'
    BY <1>2 DEF StartConfirms, Capture, Stops, ThreadTypes
  <2>4. NothingLeft'
    BY <1>0, <1>2 DEF StartConfirms, NothingLeft, Clean, ThreadTypes
  <2>5. QED BY <1>2, <2>1, <2>2, <2>3, <2>4, KeysKept, RecorderKept DEF StartConfirms
<1>3. CASE StartRecorder
  <2>1. ThreadTypes'
    BY <1>3 DEF StartRecorder, ThreadTypes, Steps, Starting
  <2>0. /\ last + 1 \in Recordings /\ last + 1 \in 0..MaxRecordings /\ last \in Nat
        /\ 0 \in 0..MaxChunks /\ 0 \notin Recordings
    BY <1>3, PushToTalkConstants DEF StartRecorder, MayRecord, RecorderTypes, Recordings
  <2>2. RecorderTypes'
    BY <1>3, <2>0 DEF StartRecorder, RecorderTypes
  <2>3. StoreTypes'
    BY <1>3, PushToTalkConstants DEF StartRecorder, StoreTypes
  <2>4. Control'
    BY <1>0, <1>3 DEF StartRecorder, Control, Stops, Starting, Stopping, ThreadTypes
  <2>5. Capture'
    <3>1. \A t \in Stops : pc'[t] = pc[t] /\ pc[t] # "seal"
      BY <1>0, <1>3
      DEF StartRecorder, Control, Stops, Starting, Stopping, ThreadTypes
    <3>2. alive \subseteq killed /\ reader \subseteq outlived
      BY <1>3, <2>0 DEF StartRecorder, Capture, RecorderTypes
    <3>3. \A r \in alive' \union reader' : r <= last'
      BY <1>3, <2>0 DEF StartRecorder, Capture, RecorderTypes, Recordings
    <3>4. QED BY <1>3, <3>1, <3>2, <3>3, <2>0 DEF StartRecorder, Capture, RecorderTypes
  <2>6. NothingLeft'
    BY <1>0, <1>3 DEF StartRecorder, NothingLeft, Control, Starting, ThreadTypes
  <2>7. StoredInOrder'
    <3>1. FlattenSeq(<<>>) = <<>> /\ <<>> \o <<>> = <<>>
      BY DEF FlattenSeq
    <3>2. last + 1 \notin reader
      BY <2>0 DEF Capture
    <3>3. pipe[last + 1] = <<>>
      BY <2>0, <3>2 DEF Capture
    <3>4. Stored' = <<>> /\ proc' = last + 1 /\ pipe' = pipe /\ written' = 0 /\ cut' = FALSE
      BY <1>3, <3>1 DEF StartRecorder, Stored
    <3>5. QED BY <3>1, <3>3, <3>4, HoldsNothing DEF StoredInOrder
  <2>8. ArtifactIsTheRecording'
    BY <1>3 DEF StartRecorder, ArtifactIsTheRecording
  <2>9. QED
    BY <1>3, <2>1, <2>2, <2>3, <2>4, <2>5, <2>6, <2>7, <2>8, KeysKept DEF StartRecorder
<1>4. CASE StartFails
  <2>1. ThreadTypes'
    BY <1>4 DEF StartFails, ThreadTypes, Steps, Starting
  <2>2. Control'
    BY <1>0, <1>4 DEF StartFails, Control, Stops, Starting, Stopping, ThreadTypes
  <2>3. Capture'
    BY <1>4 DEF StartFails, Capture, Stops, ThreadTypes
  <2>4. NothingLeft'
    BY <1>0, <1>4 DEF StartFails, NothingLeft, Clean, ThreadTypes
  <2>5. QED BY <1>4, <2>1, <2>2, <2>3, <2>4, KeysKept, RecorderKept DEF StartFails
<1>5. CASE StartRechecks
  <2>1. ThreadTypes'
    BY <1>5 DEF StartRechecks, ThreadTypes, Steps, Starting
  <2>2. Control'
    BY <1>0, <1>5 DEF StartRechecks, Control, Stops, Starting, Stopping, ThreadTypes
  <2>3. Capture'
    BY <1>5 DEF StartRechecks, Capture, Stops, ThreadTypes
  <2>4. NothingLeft'
    BY <1>0, <1>5 DEF StartRechecks, NothingLeft, Control, Starting, ThreadTypes
  <2>5. QED BY <1>5, <2>1, <2>2, <2>3, <2>4, KeysKept, RecorderKept DEF StartRechecks
<1>6. CASE StartReturns
  <2>1. ThreadTypes'
    BY <1>6 DEF StartReturns, ThreadTypes, Steps
  <2>2. Control'
    BY <1>0, <1>6 DEF StartReturns, Control, Stops, Starting, Stopping, ThreadTypes
  <2>3. Capture'
    BY <1>6 DEF StartReturns, Capture, Stops, ThreadTypes
  <2>4. NothingLeft'
    BY <1>0, <1>6 DEF StartReturns, NothingLeft, Control, ThreadTypes
  <2>5. QED BY <1>6, <2>1, <2>2, <2>3, <2>4, KeysKept, RecorderKept DEF StartReturns
<1>7. QED
  BY <1>1, <1>2, <1>3, <1>4, <1>5, <1>6 DEF Start

-----------------------------------------------------------------------------
(* stop and handle_auto_stop *)

\* A thread that stops and is the only one past the lock.
LEMMA OneStop ==
  ASSUME IInv, NEW t \in Stops, pc[t] \in Stopping
  PROVE  /\ state = "finalizing" /\ lock = Free
         /\ pc[Listener] \in {"off", "try"}
         /\ \A u \in Stops \ {t} : pc[u] \in {"off", "wait"}
BY DEF IInv, Control, Stops, Starting, Stopping, ThreadTypes

\* Each step of a stop from its wait to the end of the session.
LEMMA StopStep ==
  ASSUME IInv, NEW t \in Threads, t # Listener,
         \/ StopLocks(t) \/ StopGivesUp(t)
         \/ t = AutoStopper /\ (AutoStopSpawns \/ AutoStops)
  PROVE  IInv'
<1> USE DEF IInv
<1>0. t \in Stops /\ Listener # AutoStopper /\ Listener # Free
  BY DEF Stops, Listener, AutoStopper, Free
<1>1. UNCHANGED <<keyVars, listenVars, recorderVars, lock>>
  BY DEF StopLocks, StopGivesUp, AutoStopSpawns, AutoStops
<1>2. /\ pc[t] \in {"off", "wait"}
      /\ \/ /\ lock = Free /\ state = "recording" /\ state' = "finalizing"
            /\ pc' = [pc EXCEPT ![t] = "request"]
         \/ \E step \in {"off", "wait"} : state' = state /\ pc' = [pc EXCEPT ![t] = step]
  BY DEF StopLocks, StopGivesUp, AutoStopSpawns, AutoStops
<1>3. autoEvent' \in BOOLEAN
  BY DEF StopLocks, StopGivesUp, AutoStopSpawns, AutoStops, ThreadTypes
<1>4. ThreadTypes'
  BY <1>1, <1>2, <1>3 DEF ThreadTypes, Steps, Stopping
<1>5. \A u \in Threads \ {t} : pc'[u] = pc[u]
  BY <1>2 DEF ThreadTypes
<1>6. Listener \in Threads \ {t} /\ pc'[t] \in {"off", "wait", "request"}
  BY <1>2 DEF Threads, ThreadTypes
<1>7. Control'
  <2>1. CASE state' = state /\ pc'[t] \in {"off", "wait"}
    <3>1. state' = state /\ pc'[t] \notin Stopping
      BY <2>1 DEF Stopping
    <3>2. \A u \in Stops : pc'[u] \in Stopping => pc'[u] = pc[u]
      BY <1>5, <3>1 DEF Stops
    <3>3. \A u \in Stops : pc'[u] \in Stopping \union {"off", "wait"}
      BY <1>5, <2>1 DEF Stops, Control
    <3>4. QED BY <1>0, <1>1, <1>5, <1>6, <3>1, <3>2, <3>3 DEF Control
  <2>2. CASE lock = Free /\ state = "recording" /\ state' = "finalizing" /\ pc'[t] = "request"
    <3>1. \A u \in Stops : pc[u] \notin Stopping
      BY <2>2 DEF Control
    <3>2. \A u \in Stops : pc'[u] \in Stopping => u = t
      BY <1>5, <3>1 DEF Stops
    <3>3. \A u \in Stops : pc'[u] \in Stopping \union {"off", "wait"}
      BY <1>5, <2>2 DEF Stops, Control, Stopping
    <3>4. pc'[Listener] \notin Starting
      BY <1>0, <1>5, <1>6, <2>2 DEF Control
    <3>5. QED
      BY <1>0, <1>1, <1>5, <1>6, <2>2, <3>2, <3>3, <3>4 DEF Control, Starting
  <2>3. QED
    BY <1>0, <1>2, <2>1, <2>2 DEF Stops, ThreadTypes
<1>8. Capture'
  BY <1>0, <1>1, <1>5, <1>6 DEF Capture, Stops
<1>9. NothingLeft'
  BY <1>0, <1>1, <1>2, <1>5, <1>6 DEF NothingLeft, Clean
<1>10. QED
  BY <1>1, <1>4, <1>7, <1>8, <1>9, KeysKept, RecorderKept

-----------------------------------------------------------------------------
(* PipeWireRecorder.stop and cleanup *)

\* A thread that stops goes from one step to the next: the daemon stays with
\* it, and nobody else moves.
LEMMA NextStopStep ==
  ASSUME IInv, NEW t \in Threads, NEW step \in Stopping,
         pc[t] \in Stopping, pc[t] \in {"quit", "purge"} \/ t # Listener,
         step \in {"quit", "purge"} \/ t # Listener,
         pc' = [pc EXCEPT ![t] = step], UNCHANGED <<lock, state, autoEvent>>
  PROVE  ThreadTypes' /\ Control'
<1> USE DEF IInv
<1>1. ThreadTypes'
  BY DEF ThreadTypes, Steps
<1>2. \A u \in Threads \ {t} : pc'[u] = pc[u]
  BY DEF ThreadTypes
<1>3. pc'[t] = step /\ Listener \in Threads
  BY DEF ThreadTypes, Threads
<1>4. CASE t = Listener
  <2>1. pc[t] \in Starting \ {"notify"} /\ pc'[t] \in Starting \ {"notify"}
    BY <1>3, <1>4 DEF Stopping, Starting
  <2>2. \A u \in Stops : pc'[u] = pc[u]
    BY <1>2, <1>4 DEF Stops
  <2>3. /\ lock' = Listener /\ state' = "idle"
        /\ pc'[Listener] \in Starting /\ pc'[Listener] # "notify"
    BY <1>4, <2>1 DEF Control
  <2>4. \A u \in Stops : pc'[u] \notin Stopping /\ pc'[u] \in {"off", "wait"}
    BY <1>4, <2>1, <2>2 DEF Control
  <2>5. QED BY <1>1, <2>3, <2>4 DEF Control
<1>5. CASE t # Listener
  <2>1. pc'[Listener] = pc[Listener] /\ t \in Stops
    BY <1>2, <1>3, <1>5 DEF Stops
  <2>2. \A u \in Stops : pc'[u] \in Stopping <=> pc[u] \in Stopping
    BY <1>2, <1>3 DEF Stops
  <2>3. \A u \in Stops : pc'[u] \in Stopping \union {"off", "wait"}
    BY <1>2, <1>3 DEF Stops, Control
  <2>4. \A u \in Stops : pc'[u] \in Stopping => state' = "finalizing"
    BY <2>2 DEF Control
  <2>5. \A u, v \in Stops : pc'[u] \in Stopping /\ pc'[v] \in Stopping => u = v
    BY <2>2 DEF Control
  <2>6. /\ lock' = Listener <=> pc'[Listener] \in Starting
        /\ pc'[Listener] \in Starting \union {"off", "try"}
        /\ pc'[Listener] = "notify" => state' = "recording"
        /\ pc'[Listener] \in Starting \ {"notify"} => state' = "idle"
    BY <2>1 DEF Control
  <2>7. QED BY <1>1, <2>3, <2>4, <2>5, <2>6 DEF Control
<1>6. QED BY <1>1, <1>4, <1>5

\* What a step of the listener's cleanup or of a stop means for the idle daemon.
LEMMA NotIdle ==
  ASSUME IInv, NEW t \in Threads, pc[t] \in Stopping
  PROVE  ~(state = "idle" /\ (lock = Free \/ pc[Listener] \in {"confirm", "open"}))
BY DEF IInv, Control, Stops, Starting, Stopping, ThreadTypes, Threads, Free, Listener

\* A stop thread or the auto-stop goes on.
LEMMA CallerStep ==
  ASSUME IInv, NEW t \in Threads,
         \/ RequestStop(t) \/ Seal(t) \/ Pipeline(t) \/ CleanupStops(t)
  PROVE  IInv'
<1> USE DEF IInv
<1>1. PICK step \in Stopping : pc' = [pc EXCEPT ![t] = step] /\ (step \in {"quit", "purge"} \/ t # Listener)
  BY DEF RequestStop, Seal, Pipeline, CleanupStops, Stopping, Control, Starting
<1>2. pc[t] \in Stopping /\ (pc[t] \in {"quit", "purge"} \/ t # Listener)
  BY DEF RequestStop, Seal, Pipeline, CleanupStops, Stopping, Control, Starting
<1>3. UNCHANGED <<keyVars, listenVars, lock, autoEvent, state>>
  BY DEF RequestStop, Seal, Pipeline, CleanupStops
<1>4. ThreadTypes' /\ Control'
  BY <1>1, <1>2, <1>3, NextStopStep
<1>5. NothingLeft'
  <2>1. t = Listener => pc'[Listener] \notin {"confirm", "open"}
    BY <1>1 DEF ThreadTypes
  <2>2. t # Listener => pc'[Listener] = pc[Listener]
    BY <1>1 DEF ThreadTypes, Threads
  <2>3. ~(state = "idle" /\ lock = Free)
    BY <1>2, NotIdle
  <2>4. QED BY <1>2, <1>3, <2>1, <2>2, <2>3, NotIdle DEF NothingLeft
<1>6. t # Listener => t \in Stops /\ \A u \in Stops \ {t} : pc'[u] \in {"off", "wait"}
  <2>1. SUFFICES ASSUME t # Listener PROVE t \in Stops /\ \A u \in Stops \ {t} : pc'[u] \in {"off", "wait"}
    OBVIOUS
  <2>2. t \in Stops
    BY <2>1 DEF Stops
  <2>3. \A u \in Stops \ {t} : pc[u] \in {"off", "wait"}
    BY <1>2, <2>2, OneStop
  <2>4. \A u \in Stops \ {t} : pc'[u] = pc[u]
    BY <1>1 DEF ThreadTypes, Stops
  <2>5. QED BY <2>2, <2>3, <2>4
<1>7. \A u \in Stops \ {t} : pc'[u] = pc[u]
  BY <1>1 DEF ThreadTypes, Stops
<1>8. pc'[t] = step
  BY <1>1 DEF ThreadTypes
<1>9. CASE RequestStop(t)
  <2>1. RecorderTypes'
    BY <1>9 DEF RequestStop, RecorderTypes
  <2>2. Capture'
    <3>1. pc'[t] = "quit" \/ (pc'[t] = "seal" /\ proc # 0)
      BY <1>9 DEF RequestStop, ThreadTypes
    <3>2. UNCHANGED <<alive, killed, reader, outlived, proc, last, pipe, cut>>
      BY <1>9 DEF RequestStop
    <3>3. QED BY <1>7, <3>1, <3>2 DEF Capture
  <2>3. QED BY <1>3, <1>4, <1>5, <1>9, <2>1, <2>2, KeysKept, StoreKept DEF RequestStop
<1>10. CASE Pipeline(t)
  <2>1. Capture'
    BY <1>7, <1>8, <1>10 DEF Pipeline, Capture, ThreadTypes
  <2>2. QED BY <1>3, <1>4, <1>5, <1>10, <2>1, KeysKept, RecorderKept DEF Pipeline
<1>11. CASE CleanupStops(t)
  <2>1. RecorderTypes'
    BY <1>11 DEF CleanupStops, RecorderTypes
  <2>2. Capture'
    BY <1>7, <1>11 DEF CleanupStops, Capture, ThreadTypes
  <2>3. QED BY <1>3, <1>4, <1>5, <1>11, <2>1, <2>2, KeysKept, StoreKept DEF CleanupStops
<1>12. CASE Seal(t)
  <2>1. t # Listener /\ t \in Stops /\ pc[t] = "seal"
    BY <1>2, <1>6, <1>12 DEF Seal
  <2>2. proc # 0 /\ proc \in Recordings /\ 0 \notin Recordings
    BY <2>1 DEF Capture, RecorderTypes, Recordings
  <2>3. /\ killed' = killed \union ({proc} \intersect alive)
        /\ outlived' = outlived \union ({proc} \intersect reader)
        /\ shards' = <<>> /\ proc' = 0 /\ written' = 0 /\ cut' = FALSE
        /\ UNCHANGED <<last, alive, pipe, reader, memory, watchVars>>
    BY <1>12 DEF Seal, WaitsAreOver
  <2>4. RecorderTypes'
    <3>1. backing' \subseteq Recordings
      BY <1>12, <2>2 DEF Seal, RecorderTypes
    <3>2. 0 \in 0..MaxChunks
      BY PushToTalkConstants
    <3>3. QED BY <2>3, <3>1, <3>2 DEF RecorderTypes
  <2>5. StoreTypes'
    BY <2>3 DEF StoreTypes
  <2>6. Capture'
    <3>1. pc'[t] \in {"pipeline", "quit"}
      BY <1>12 DEF Seal, ThreadTypes
    <3>2. alive' \subseteq killed' /\ reader' \subseteq outlived'
      BY <2>3 DEF Capture
    <3>3. \A u \in Stops : pc'[u] # "seal"
      BY <1>6, <2>1, <3>1
    <3>4. 0 \notin alive'
      BY <2>2, <2>3 DEF RecorderTypes
    <3>5. QED BY <2>3, <3>2, <3>3, <3>4 DEF Capture
  <2>7. StoredInOrder'
    BY <2>3 DEF StoredInOrder
  <2>8. ArtifactIsTheRecording'
    <3>1. SUFFICES ASSUME sealed' # <<>>, outlived' = {}
                   PROVE  /\ InOrder(sealed'[2], sealed'[1])
                          /\ ~sealed'[4] => sealed'[2] = Captured(sealed'[1], sealed'[3])
      BY DEF ArtifactIsTheRecording
    <3>2. outlived = {} /\ proc \notin reader
      BY <2>3, <3>1
    <3>3. pipe[proc] = <<>>
      BY <2>2, <3>2 DEF Capture
    <3>4. Stored \o pipe[proc] = Stored
      BY <3>3, StoredType, ConcatEmptySeq
    <3>5. Holds(Stored, proc, written, cut)
      BY <2>2, <3>2, <3>4 DEF StoredInOrder
    <3>6. sealed' = sealed \/ sealed' = <<proc, Stored, written, cut>>
      BY <1>12 DEF Seal, Stored
    <3>7. CASE sealed' = sealed
      BY <3>1, <3>2, <3>7 DEF ArtifactIsTheRecording
    <3>8. CASE sealed' = <<proc, Stored, written, cut>>
      <4>1. /\ sealed'[1] = proc /\ sealed'[2] = Stored
            /\ sealed'[3] = written /\ sealed'[4] = cut
        BY <3>8
      <4>2. QED BY <3>5, <4>1 DEF Holds
    <3>9. QED BY <3>6, <3>7, <3>8
  <2>9. QED
    BY <1>3, <1>4, <1>5, <2>4, <2>5, <2>6, <2>7, <2>8, KeysKept
<1>13. QED
  BY <1>9, <1>10, <1>11, <1>12

\* cleanup drops what is left of the recording, and the state is idle again.
LEMMA PurgeStep ==
  ASSUME IInv, NEW t \in Threads, CleanupPurges(t)
  PROVE  IInv'
<1> USE DEF IInv
<1>1. /\ pc[t] = "purge" /\ pc' = [pc EXCEPT ![t] = "off"] /\ state' = "idle"
      /\ lock' = IF t = Listener THEN Free ELSE lock
      /\ shards' = <<>> /\ backing' = {} /\ proc' = 0 /\ sealed' = <<>>
      /\ written' = 0 /\ cut' = FALSE
      /\ killed' = killed \union ({proc} \intersect alive)
      /\ outlived' = outlived \union ({proc} \intersect reader)
      /\ UNCHANGED <<keyVars, listenVars, autoEvent, last, alive, pipe, reader, memory,
                     watchVars>>
  BY DEF CleanupPurges, WaitsAreOver
<1>2. ThreadTypes'
  BY <1>1 DEF ThreadTypes, Steps
<1>3. RecorderTypes'
  <2>1. 0 \in 0..MaxChunks
    BY PushToTalkConstants
  <2>2. QED BY <1>1, <2>1 DEF RecorderTypes
<1>4. StoreTypes'
  BY <1>1 DEF StoreTypes
<1>5. \A u \in Threads \ {t} : pc'[u] = pc[u]
  BY <1>1 DEF ThreadTypes
<1>6. Listener \in Threads /\ pc'[t] = "off" /\ Free # Listener
  BY <1>1 DEF ThreadTypes, Threads, Free, Listener
<1>7. \A u \in Stops : pc'[u] \in {"off", "wait"}
  <2>1. CASE t = Listener
    <3>1. \A u \in Stops : pc[u] \notin Stopping
      BY <1>1, <2>1 DEF Control, Starting
    <3>2. QED BY <1>5, <2>1, <3>1 DEF Stops, Control
  <2>2. CASE t # Listener
    <3>1. t \in Stops /\ pc[t] \in Stopping
      BY <1>1, <2>2 DEF Stops, Stopping
    <3>2. \A u \in Stops \ {t} : pc[u] \in {"off", "wait"}
      BY <3>1, OneStop
    <3>3. QED BY <1>5, <1>6, <3>2 DEF Stops
  <2>3. QED BY <2>1, <2>2
<1>8. pc'[Listener] \in {"off", "try"} /\ lock' = Free
  <2>1. CASE t = Listener
    BY <1>1, <1>6, <2>1
  <2>2. CASE t # Listener
    <3>1. t \in Stops /\ pc[t] \in Stopping
      BY <1>1, <2>2 DEF Stops, Stopping
    <3>2. QED BY <1>1, <1>5, <1>6, <2>2, <3>1, OneStop
  <2>3. QED BY <2>1, <2>2
<1>9. Control'
  BY <1>6, <1>7, <1>8 DEF Control, Starting, Stopping
<1>10. Capture'
  <2>1. alive' \subseteq killed' /\ reader' \subseteq outlived'
    BY <1>1 DEF Capture
  <2>2. 0 \notin alive'
    BY <1>1 DEF RecorderTypes, Recordings
  <2>3. QED BY <1>1, <1>7, <2>1, <2>2 DEF Capture
<1>11. NothingLeft'
  BY <1>1 DEF NothingLeft, Clean
<1>12. StoredInOrder' /\ ArtifactIsTheRecording'
  BY <1>1 DEF StoredInOrder, ArtifactIsTheRecording
<1>13. QED
  BY <1>1, <1>2, <1>3, <1>4, <1>9, <1>10, <1>11, <1>12, KeysKept

-----------------------------------------------------------------------------
(* pw-record, the reader and the watchdogs *)

\* The threads of the recorder leave those of the daemon alone.
LEMMA ThreadsKept ==
  ASSUME IInv, UNCHANGED threadUnchanged, autoEvent' \in BOOLEAN
  PROVE  KeyTypes' /\ PressIsLast' /\ ThreadTypes' /\ Control'
BY KeysKept, ControlKept DEF IInv, ThreadTypes

\* A reader moves a chunk from its pipe to memory or to a shard.
LEMMA ReadStep ==
  ASSUME IInv, NEW r \in Recordings, ReadChunk(r)
  PROVE  IInv'
<1> USE DEF IInv
<1> DEFINE chunk == Head(pipe[r])
<1>1. /\ r \in reader /\ pipe[r] # <<>> /\ pipe' = [pipe EXCEPT ![r] = Tail(@)]
      /\ UNCHANGED <<reader, cut, threadUnchanged, autoEvent, procVars, watchVars, ownVars>>
  BY DEF ReadChunk
<1>2. /\ pipe[r] \in Seq(Chunks) /\ chunk \in Chunks /\ Tail(pipe[r]) \in Seq(Chunks)
      /\ Len(Tail(pipe[r])) = Len(pipe[r]) - 1
  <2>1. pipe[r] \in Seq(Chunks)
    BY DEF StoreTypes
  <2>2. QED BY <1>1, <2>1, HeadTailProperties
<1>0. pipe' \in [Recordings -> Seq(Chunks)] /\ \A q \in Recordings : Len(pipe'[q]) \in 0..PipeChunks
  <2>1. \A q \in Recordings : pipe'[q] = IF q = r THEN Tail(pipe[r]) ELSE pipe[q]
    BY <1>1 DEF StoreTypes
  <2>2. Len(pipe[r]) \in Nat /\ Len(Tail(pipe[r])) \in Nat
    BY <1>2
  <2>3. Len(Tail(pipe[r])) \in 0..PipeChunks
    BY <1>2, <2>2, PushToTalkConstants DEF StoreTypes
  <2>4. pipe' \in [Recordings -> Seq(Chunks)]
    BY <1>1, <1>2 DEF StoreTypes
  <2>5. QED BY <2>1, <2>3, <2>4 DEF StoreTypes
<1>3. /\ memory \in Seq(Chunks) /\ shards \in Seq(Seq(Chunks))
      /\ FlattenSeq(shards) \in Seq(Chunks)
  BY FlattenSeqType DEF StoreTypes
<1>5. \/ /\ shards = <<>> /\ Len(memory) < MemoryChunks
         /\ memory' = Append(memory, chunk) /\ shards' = shards
      \/ /\ memory' = memory
         /\ \/ shards' = Append(shards, <<chunk>>)
            \/ /\ shards # <<>> /\ Len(shards[Len(shards)]) < ShardChunks
               /\ shards' = [shards EXCEPT ![Len(shards)] = Append(@, chunk)]
  <2>1. CASE FitsMemory
    BY <2>1 DEF ReadChunk, FitsMemory
  <2>2. CASE ~FitsMemory
    <3> DEFINE m == Len(shards)
    <3>1. /\ memory' = memory
          /\ shards' = IF m = 0 \/ Len(shards[m]) >= ShardChunks
                         THEN Append(shards, <<chunk>>)
                         ELSE [shards EXCEPT ![m] = Append(@, chunk)]
      BY <2>2 DEF ReadChunk
    <3>2. m # 0 => m \in 1..m /\ Len(shards[m]) \in Nat /\ shards # <<>>
      BY <1>3
    <3>3. ShardChunks \in Nat
      BY PushToTalkConstants
    <3> HIDE DEF chunk
    <3>4. CASE m = 0 \/ Len(shards[m]) >= ShardChunks
      BY <3>1, <3>4
    <3>5. CASE ~(m = 0 \/ Len(shards[m]) >= ShardChunks)
      BY <3>1, <3>2, <3>3, <3>5
    <3>6. QED BY <3>4, <3>5
  <2>3. QED BY <2>1, <2>2
<1> HIDE DEF chunk
<1>6. StoreTypes' /\ memory' \o FlattenSeq(shards') = Append(memory \o FlattenSeq(shards), chunk)
  <2> DEFINE flat == FlattenSeq(shards)
  <2>1. <<chunk>> \in Seq(Chunks) /\ Len(<<chunk>>) = 1 /\ 1 \in 1..ShardChunks
    BY <1>2, PushToTalkConstants
  <2>2. memory \o Append(flat, chunk) = Append(memory \o flat, chunk)
    <3> HIDE DEF flat
    <3>1. flat \in Seq(Chunks)
      BY <1>3 DEF flat
    <3>2. QED BY <1>2, <1>3, <3>1, EndOfBoth
  <2>3. CASE /\ shards = <<>> /\ Len(memory) < MemoryChunks
             /\ memory' = Append(memory, chunk) /\ shards' = shards
    <3>1. /\ memory' \in Seq(Chunks) /\ Len(memory') = Len(memory) + 1
      BY <1>2, <1>3, <2>3, AppendProperties
    <3>2. StoreTypes'
      BY <1>0, <2>3, <3>1, PushToTalkConstants DEF StoreTypes
    <3>3. FlattenSeq(shards) = <<>>
      BY <2>3 DEF FlattenSeq
    <3>4. memory \o <<>> = memory /\ memory' \o <<>> = memory'
      BY <1>3, <3>1, ConcatEmptySeq
    <3>5. QED BY <2>3, <3>2, <3>3, <3>4
  <2>4. CASE memory' = memory /\ shards' = Append(shards, <<chunk>>)
    <3>1. /\ shards' \in Seq(Seq(Chunks)) /\ Len(shards') = Len(shards) + 1
          /\ \A i \in 1..Len(shards) : shards'[i] = shards[i]
          /\ shards'[Len(shards) + 1] = <<chunk>>
      BY <1>3, <2>1, <2>4, AppendProperties
    <3>2. \A i \in 1..Len(shards') : i \in 1..Len(shards) \/ i = Len(shards) + 1
      BY <1>3, <3>1
    <3>3. \A i \in 1..Len(shards') : Len(shards'[i]) \in 1..ShardChunks
      BY <2>1, <3>1, <3>2 DEF StoreTypes
    <3>4. StoreTypes'
      BY <1>0, <2>4, <3>1, <3>3 DEF StoreTypes
    <3>5. FlattenSeq(shards') = flat \o <<chunk>>
      BY <1>3, <2>1, <2>4, FlattenSeqAppend
    <3>6. flat \o <<chunk>> = Append(flat, chunk)
      <4> HIDE DEF flat
      <4>1. flat \in Seq(Chunks)
        BY <1>3 DEF flat
      <4>2. QED BY <1>2, <4>1, AppendIsConcat
    <3>7. QED BY <2>2, <2>4, <3>4, <3>5, <3>6
  <2>5. CASE /\ shards # <<>> /\ Len(shards[Len(shards)]) < ShardChunks
             /\ memory' = memory
             /\ shards' = [shards EXCEPT ![Len(shards)] = Append(@, chunk)]
    <3> DEFINE m == Len(shards)
    <3>1. m \in 1..m /\ shards[m] \in Seq(Chunks)
      BY <1>3, <2>5
    <3>2. /\ Append(shards[m], chunk) \in Seq(Chunks)
          /\ Len(Append(shards[m], chunk)) = Len(shards[m]) + 1
      BY <1>2, <3>1, AppendProperties
    <3>3. /\ shards' \in Seq(Seq(Chunks)) /\ Len(shards') = m
          /\ \A i \in 1..m : shards'[i] = IF i = m THEN Append(shards[m], chunk) ELSE shards[i]
      BY <1>3, <2>5, <3>1, <3>2, ExceptSeq
    <3>4. \A i \in 1..m : Len(shards'[i]) \in 1..ShardChunks
      <4>1. Len(shards[m]) \in Nat /\ Len(shards[m]) < ShardChunks
        BY <2>5, <3>1
      <4>2. Len(Append(shards[m], chunk)) \in 1..ShardChunks
        BY <3>2, <4>1, PushToTalkConstants
      <4>3. \A i \in 1..m : Len(shards[i]) \in 1..ShardChunks
        BY DEF StoreTypes
      <4> HIDE DEF m
      <4>4. QED BY <3>3, <4>2, <4>3
    <3>5. StoreTypes'
      BY <1>0, <2>5, <3>3, <3>4 DEF StoreTypes
    <3>6. FlattenSeq(shards') = Append(flat, chunk)
      BY <1>2, <1>3, <2>5, FlattenSeqExtend
    <3>7. QED BY <2>2, <2>5, <3>5, <3>6
  <2>6. QED BY <1>5, <2>3, <2>4, <2>5
<1>7. StoredInOrder'
  <2>1. SUFFICES ASSUME proc # 0, outlived = {}
                 PROVE  Holds(Stored' \o pipe'[proc], proc, written, cut)
    BY <1>1 DEF StoredInOrder
  <2>2. r = proc /\ Holds(Stored \o pipe[proc], proc, written, cut)
    BY <1>1, <2>1 DEF Capture, StoredInOrder
  <2>3. pipe'[proc] = Tail(pipe[r]) /\ Stored' = Append(Stored, chunk)
    BY <1>1, <1>6, <2>2 DEF StoreTypes, Stored
  <2>4. Stored' \o pipe'[proc] = Stored \o pipe[proc]
    BY <1>1, <1>2, <2>2, <2>3, StoredType, HeadMoves DEF chunk
  <2>5. QED BY <2>2, <2>4
<1>8. RecorderTypes'
  BY <1>1 DEF RecorderTypes
<1>9. Capture'
  <2>1. \A q \in Recordings \ reader : pipe'[q] = pipe[q]
    BY <1>1 DEF StoreTypes
  <2>2. QED BY <1>1, <2>1 DEF Capture
<1>10. NothingLeft'
  <2>1. outlived = {} => r = proc /\ 0 \notin Recordings
    BY <1>1 DEF Capture, Recordings
  <2>2. QED BY <1>1, <2>1 DEF NothingLeft, Clean
<1>11. ArtifactIsTheRecording'
  BY <1>1 DEF ArtifactIsTheRecording
<1>12. KeyTypes' /\ PressIsLast' /\ ThreadTypes' /\ Control'
  BY <1>1, ThreadsKept DEF ThreadTypes
<1>13. QED
  BY <1>6, <1>7, <1>8, <1>9, <1>10, <1>11, <1>12

\* A write falls short, or a reader ends: its pipe loses its head, or all.
LEMMA LossStep ==
  ASSUME IInv, NEW r \in Recordings, WriteFallsShort(r) \/ ReaderEnds(r)
  PROVE  IInv'
<1> USE DEF IInv
<1>1. /\ r \in reader
      /\ UNCHANGED <<memory, shards, threadUnchanged, autoEvent, procVars, watchVars, ownVars>>
      /\ \/ /\ pipe[r] # <<>> /\ pipe' = [pipe EXCEPT ![r] = Tail(@)] /\ reader' = reader
            /\ cut' = (cut \/ r = proc)
         \/ /\ pipe' = [pipe EXCEPT ![r] = <<>>] /\ reader' = reader \ {r}
            /\ cut' = (cut \/ (r = proc /\ (r \in alive \/ pipe[r] # <<>>)))
  BY DEF WriteFallsShort, ReaderEnds
<1>2. pipe[r] \in Seq(Chunks) /\ pipe \in [Recordings -> Seq(Chunks)]
  BY DEF StoreTypes
<1> DEFINE rest == pipe'[r]
<1>3. /\ rest \in Seq(Chunks)
      /\ rest = <<>> \/ (pipe[r] # <<>> /\ rest = Tail(pipe[r]))
      /\ \A q \in Recordings \ {r} : pipe'[q] = pipe[q]
      /\ pipe' \in [Recordings -> Seq(Chunks)]
  <2>1. pipe[r] # <<>> => Tail(pipe[r]) \in Seq(Chunks)
    BY <1>2
  <2>2. <<>> \in Seq(Chunks)
    OBVIOUS
  <2>3. QED BY <1>1, <1>2, <2>1, <2>2
<1>4. StoreTypes'
  <2>1. Len(rest) \in 0..PipeChunks
    <3>1. Len(pipe[r]) \in 0..PipeChunks
      BY DEF StoreTypes
    <3>2. CASE rest = <<>>
      BY <3>2, PushToTalkConstants
    <3>3. CASE pipe[r] # <<>> /\ rest = Tail(pipe[r])
      <4>1. Len(rest) = Len(pipe[r]) - 1 /\ Len(rest) \in Nat
        BY <1>2, <1>3, <3>3, HeadTailProperties
      <4>2. QED BY <3>1, <4>1, PushToTalkConstants
    <3>4. QED BY <1>3, <3>2, <3>3
  <2>2. \A q \in Recordings : Len(pipe'[q]) \in 0..PipeChunks
    BY <1>3, <2>1 DEF StoreTypes
  <2>3. QED BY <1>1, <1>3, <2>2 DEF StoreTypes
<1>5. RecorderTypes'
  BY <1>1 DEF RecorderTypes
<1>6. Capture'
  <2>1. \A q \in Recordings \ reader' : pipe'[q] = <<>>
    BY <1>1, <1>2, <1>3 DEF Capture
  <2>2. proc \in alive /\ proc \notin reader' => cut'
    BY <1>1 DEF Capture
  <2>3. QED BY <1>1, <2>1, <2>2 DEF Capture
<1>7. StoredInOrder'
  <2>1. SUFFICES ASSUME proc # 0, outlived = {}
                 PROVE  Holds(Stored \o pipe'[proc], proc, written, cut')
    BY <1>1 DEF StoredInOrder, Stored
  <2>2. r = proc /\ Holds(Stored \o pipe[proc], proc, written, cut)
    BY <1>1, <2>1 DEF Capture, StoredInOrder
  <2>3. Stored \in Seq(Chunks) /\ written \in Nat /\ cut \in BOOLEAN
    BY StoredType DEF RecorderTypes
  <2>4. CASE pipe[r] = <<>>
    <3>1. pipe'[proc] = pipe[proc]
      BY <1>3, <2>2, <2>4
    <3>2. cut => cut'
      BY <1>1
    <3>3. Holds(Stored \o pipe[proc], proc, written, cut')
      BY <2>2, <3>2 DEF Holds
    <3>4. QED BY <3>1, <3>3
  <2>5. CASE pipe[r] # <<>>
    <3>1. cut' = TRUE
      BY <1>1, <2>2, <2>5
    <3> DEFINE a == Stored \o pipe[r]
               b == Stored \o rest
               k == Len(Stored)
    <3>2. /\ a \in Seq(Chunks) /\ b \in Seq(Chunks) /\ k \in Nat
          /\ Len(a) = k + Len(pipe[r]) /\ Len(b) = k + Len(rest)
      <4> HIDE DEF rest
      <4>1. QED BY <1>2, <1>3, <2>3, ConcatProperties
    <3>3. Len(pipe[r]) \in Nat /\ Len(pipe[r]) >= 1
      BY <1>2, <2>5
    <3>4. CASE rest = <<>>
      <4>1. b = Stored /\ Len(b) = k
        BY <2>3, <3>4, ConcatEmptySeq
      <4>2. \A i \in 1..k : a[i] = Stored[i]
        BY <1>2, <2>3, ConcatProperties
      <4>3. Len(b) + 0 <= Len(a) /\ \A i \in 1..Len(b) : b[i] = IF i <= k THEN a[i] ELSE a[i + 0]
        BY <3>2, <3>3, <4>1, <4>2
      <4> HIDE DEF a, b, k, rest
      <4>4. Holds(a, proc, written, cut)
        BY <2>2 DEF a
      <4>5. Holds(b, proc, written, TRUE)
        <5>1. written <= written /\ 0 \in {0, 1}
          BY <2>3
        <5>2. QED BY <2>3, <3>2, <4>3, <4>4, <5>1, HoldsPart
      <4>6. QED BY <2>2, <3>1, <4>5 DEF b, rest
    <3>5. CASE rest = Tail(pipe[r])
      <4>1. Len(rest) = Len(pipe[r]) - 1 /\ \A i \in 1..Len(rest) : rest[i] = pipe[r][i + 1]
        BY <1>2, <2>5, <3>5
      <4>2. /\ \A i \in 1..Len(a) : a[i] = IF i <= k THEN Stored[i] ELSE pipe[r][i - k]
            /\ \A i \in 1..Len(b) : b[i] = IF i <= k THEN Stored[i] ELSE rest[i - k]
        <5> HIDE DEF rest
        <5>1. QED BY <1>2, <1>3, <2>3, ConcatProperties
      <4> HIDE DEF a, b, rest, k
      <4>3. Len(b) + 1 <= Len(a)
        BY <3>2, <3>3, <4>1
      <4>4. \A i \in 1..Len(b) : b[i] = IF i <= k THEN a[i] ELSE a[i + 1]
        <5>1. SUFFICES ASSUME NEW i \in 1..Len(b)
                       PROVE  b[i] = IF i <= k THEN a[i] ELSE a[i + 1]
          OBVIOUS
        <5>2. i \in 1..Len(a) /\ i + 1 \in 1..Len(a) /\ i \in Nat
          BY <3>2, <3>3, <4>3
        <5>3. CASE i <= k
          BY <4>2, <5>2, <5>3
        <5>4. CASE ~(i <= k)
          <6>0. Len(rest) \in Nat /\ Len(b) = k + Len(rest) /\ i \in 1..Len(b)
            BY <1>3, <3>2, <5>2
          <6>1. i - k \in 1..Len(rest) /\ ~(i + 1 <= k) /\ (i + 1) - k = (i - k) + 1
            BY <3>2, <6>0, <5>2, <5>4
          <6>2. b[i] = rest[i - k]
            BY <4>2, <5>4
          <6>3. a[i + 1] = pipe[r][(i + 1) - k]
            BY <4>2, <5>2, <6>1
          <6>4. QED BY <4>1, <5>4, <6>1, <6>2, <6>3
        <5>5. QED BY <5>3, <5>4
      <4>5. Holds(a, proc, written, cut)
        BY <2>2 DEF a
      <4>6. Holds(b, proc, written, TRUE)
        <5>1. written <= written /\ 1 \in {0, 1}
          BY <2>3
        <5>2. QED BY <2>3, <3>2, <4>3, <4>4, <4>5, <5>1, HoldsPart
      <4>7. QED BY <2>2, <3>1, <4>6 DEF b, rest
    <3>6. QED BY <1>3, <3>4, <3>5
  <2>6. QED BY <2>4, <2>5
<1>8. NothingLeft' /\ ArtifactIsTheRecording'
  BY <1>1 DEF NothingLeft, Clean, ArtifactIsTheRecording
<1>9. KeyTypes' /\ PressIsLast' /\ ThreadTypes' /\ Control'
  BY <1>1, ThreadsKept DEF ThreadTypes
<1>10. QED
  BY <1>4, <1>5, <1>6, <1>7, <1>8, <1>9

\* pw-record and the watchdogs beside the threads.
LEMMA RecorderStep ==
  ASSUME IInv,
         TimePasses \/ \E r \in Recordings : Record(r) \/ Watchdog(r)
  PROVE  IInv'
<1> USE DEF IInv
<1>1. UNCHANGED threadUnchanged /\ autoEvent' \in BOOLEAN
  BY DEF Record, RecordChunk, RecordEnds, TimePasses, Watchdog, WatchdogChecks,
         WatchdogStops, ThreadTypes
<1>2. KeyTypes' /\ PressIsLast' /\ ThreadTypes' /\ Control'
  BY <1>1, ThreadsKept
<1>3. ASSUME NEW r \in Recordings, RecordChunk(r)
      PROVE  IInv'
  <2>0. 0 \notin Recordings
    BY DEF Recordings
  <2>1. /\ r = proc /\ proc # 0 /\ r \in alive /\ written \in Nat /\ written + 1 <= MaxChunks
        /\ written' = written + 1 /\ written' \in 0..MaxChunks
        /\ UNCHANGED <<memory, shards, reader, cut, outlived, sealed, proc, alive, killed, last,
                       backing, watchVars>>
    BY <1>3, <2>0, PushToTalkConstants DEF RecordChunk, Capture, RecorderTypes
  <2> DEFINE e == <<proc, written + 1>>
  <2>2. e \in Chunks
    BY <2>1, PushToTalkConstants DEF Chunks
  <2>3. RecorderTypes'
    BY <2>1 DEF RecorderTypes
  <2>4. pipe[r] \in Seq(Chunks) /\ Len(pipe[r]) < PipeChunks
    BY <1>3 DEF RecordChunk, StoreTypes
  <2>5. pipe' = IF r \in reader THEN [pipe EXCEPT ![r] = Append(@, e)] ELSE pipe
    BY <1>3, <2>1 DEF RecordChunk
  <2> HIDE DEF e
  <2>6. Append(pipe[r], e) \in Seq(Chunks) /\ Len(Append(pipe[r], e)) = Len(pipe[r]) + 1
    BY <2>2, <2>4, AppendProperties
  <2>7. StoreTypes'
    <3>1. pipe' \in [Recordings -> Seq(Chunks)]
      BY <2>5, <2>6 DEF StoreTypes
    <3>2. Len(pipe[r]) + 1 \in 0..PipeChunks
      BY <2>4, PushToTalkConstants
    <3>3. \A q \in Recordings : Len(pipe'[q]) \in 0..PipeChunks
      BY <2>5, <2>6, <3>2 DEF StoreTypes
    <3>4. QED BY <2>1, <3>1, <3>3 DEF StoreTypes
  <2>8. Capture'
    <3>1. \A q \in Recordings \ reader : pipe'[q] = pipe[q]
      BY <2>5 DEF StoreTypes
    <3>2. QED BY <1>1, <2>1, <3>1 DEF Capture
  <2>9. StoredInOrder'
    <3>1. SUFFICES ASSUME outlived = {}
                   PROVE  Holds(Stored \o pipe'[proc], proc, written + 1, cut)
      BY <2>1 DEF StoredInOrder, Stored
    <3>2. Holds(Stored \o pipe[proc], proc, written, cut)
      BY <2>1, <3>1 DEF StoredInOrder
    <3>3. Stored \in Seq(Chunks) /\ Stored \o pipe[proc] \in Seq(Chunks) /\ cut \in BOOLEAN
      BY <2>1, <2>4, StoredType, ConcatProperties DEF RecorderTypes
    <3>4. CASE r \in reader
      <4>1. pipe'[proc] = Append(pipe[proc], e)
        BY <2>1, <2>5, <3>4 DEF StoreTypes
      <4>2. Stored \o Append(pipe[proc], e) = Append(Stored \o pipe[proc], e)
        <5>1. pipe[proc] \in Seq(Chunks)
          BY <2>1, <2>4
        <5>2. QED BY <2>2, <3>3, <5>1, EndOfBoth
      <4>3. Holds(Append(Stored \o pipe[proc], e), proc, written + 1, cut)
        BY <2>1, <3>2, <3>3, HoldsNext DEF e
      <4>4. QED BY <4>1, <4>2, <4>3
    <3>5. CASE r \notin reader
      <4>1. cut = TRUE /\ pipe'[proc] = pipe[proc]
        BY <2>1, <2>5, <3>5 DEF Capture, RecorderTypes
      <4>2. written <= written + 1 /\ written + 1 \in Nat
        BY <2>1
      <4> DEFINE a == Stored \o pipe[proc]
      <4>3. a \in Seq(Chunks) /\ Holds(a, proc, written, cut)
        BY <3>2, <3>3
      <4> HIDE DEF a
      <4>4. Len(a) + 0 <= Len(a) /\ \A i \in 1..Len(a) : a[i] = IF i <= 0 THEN a[i] ELSE a[i + 0]
        BY <4>3
      <4>5. Holds(a, proc, written + 1, TRUE)
        BY <2>1, <3>3, <4>2, <4>3, <4>4, HoldsPart
      <4>6. QED BY <4>1, <4>5 DEF a
    <3>6. QED BY <3>4, <3>5
  <2>10. NothingLeft' /\ ArtifactIsTheRecording'
    BY <1>1, <2>1 DEF NothingLeft, Clean, ArtifactIsTheRecording
  <2>11. QED BY <1>2, <2>3, <2>7, <2>8, <2>9, <2>10
<1>4. ASSUME NEW r \in Recordings, RecordEnds(r)
      PROVE  IInv'
  <2>1. RecorderTypes'
    BY <1>4 DEF RecordEnds, RecorderTypes
  <2>2. Capture' /\ NothingLeft'
    BY <1>4 DEF RecordEnds, Capture, NothingLeft, Clean
  <2>3. QED BY <1>2, <1>4, <2>1, <2>2, StoreKept DEF RecordEnds
<1>5. CASE TimePasses \/ \E r \in Recordings : Watchdog(r)
  <2>1. UNCHANGED <<procVars, audioVars, ownVars>>
    BY <1>5 DEF TimePasses, Watchdog, WatchdogChecks, WatchdogStops
  <2>2. RecorderTypes'
    <3>1. /\ stopEvent' \in BOOLEAN /\ overtime' \in BOOLEAN
          /\ watch' \in [Recordings -> {"off", "loop", "due"}]
      BY <1>5 DEF TimePasses, Watchdog, WatchdogChecks, WatchdogStops, RecorderTypes
    <3>2. QED BY <2>1, <3>1 DEF RecorderTypes
  <2>3. Capture' /\ NothingLeft'
    BY <1>1, <2>1 DEF Capture, NothingLeft, Clean
  <2>4. QED BY <1>2, <2>1, <2>2, <2>3, StoreKept
<1>6. QED
  BY <1>3, <1>4, <1>5 DEF Record

-----------------------------------------------------------------------------
\* The invariant holds when the daemon is up.
LEMMA InitIInv == Init => IInv
<1> SUFFICES ASSUME Init PROVE IInv
  OBVIOUS
<1>1. KeyTypes /\ PressIsLast
  <2>1. <<>> \in Seq(Events)
    OBVIOUS
  <2>2. 0 \in 0..MaxChanges
    BY PushToTalkConstants
  <2>3. QED BY <2>1, <2>2 DEF Init, KeyTypes, PressIsLast
<1>2. ThreadTypes
  BY DEF Init, ThreadTypes, Steps
<1>3. RecorderTypes /\ StoreTypes
  <2>1. RecorderTypes
    <3>1. 0 \in 0..MaxRecordings /\ 0 \in 0..MaxChunks
      BY PushToTalkConstants
    <3>2. watch \in [Recordings -> {"off", "loop", "due"}]
      BY DEF Init
    <3>3. QED BY <3>1, <3>2 DEF Init, RecorderTypes
  <2>2. <<>> \in Seq(Chunks) /\ <<>> \in Seq(Seq(Chunks)) /\ Len(<<>>) = 0
    OBVIOUS
  <2>3. StoreTypes
    BY <2>2, PushToTalkConstants DEF Init, StoreTypes
  <2>4. QED BY <2>1, <2>3
<1>4. Control
  BY DEF Init, Control, Starting, Stopping, Threads, Stops, Free, Listener
<1>5. Capture /\ NothingLeft
  BY DEF Init, Capture, NothingLeft, Clean, Stops
<1>6. StoredInOrder /\ ArtifactIsTheRecording
  BY DEF Init, StoredInOrder, ArtifactIsTheRecording
<1>7. QED
  BY <1>1, <1>2, <1>3, <1>4, <1>5, <1>6 DEF IInv

\* Every step keeps the invariant.
LEMMA StepIInv == IInv /\ [Next]_vars => IInv'
<1> SUFFICES ASSUME IInv, [Next]_vars PROVE IInv'
  OBVIOUS
<1>1. CASE Keyboard \/ Listen \/ Start
  BY <1>1, KeyboardStep, ListenStep, StartStep
<1>2. CASE AutoStopSpawns \/ AutoStops
  <2>1. AutoStopper \in Threads /\ AutoStopper # Listener
    BY DEF Threads, AutoStopper, Listener
  <2>2. QED BY <1>2, <2>1, StopStep
<1>3. ASSUME NEW t \in Threads, Call(t)
      PROVE  IInv'
  <2>1. CASE StopLocks(t) \/ StopGivesUp(t)
    <3>1. t # Listener
      BY <2>1, PushToTalkConstants DEF StopLocks, StopGivesUp
    <3>2. QED BY <2>1, <3>1, StopStep
  <2>2. CASE \/ RequestStop(t) \/ Seal(t) \/ Pipeline(t) \/ CleanupStops(t)
    BY <2>2, CallerStep
  <2>3. CASE CleanupPurges(t)
    BY <2>3, PurgeStep
  <2>4. QED BY <1>3, <2>1, <2>2, <2>3 DEF Call
<1>4. CASE \E r \in Recordings : Read(r)
  BY <1>4, ReadStep, LossStep DEF Read
<1>5. CASE TimePasses \/ \E r \in Recordings : Record(r) \/ Watchdog(r)
  BY <1>5, RecorderStep
<1>6. CASE UNCHANGED vars
  <2>1. UNCHANGED <<keyVars, listenVars, pc, lock, state, autoEvent, recorderVars>>
    BY <1>6 DEF vars
  <2>2. QED BY <2>1, KeysKept, DaemonKept DEF IInv
<1>7. QED
  BY <1>1, <1>2, <1>3, <1>4, <1>5, <1>6 DEF Next

\* The invariant holds throughout.
LEMMA AlwaysIInv == Spec => []IInv
<1>1. QED
  BY InitIInv, StepIInv, PTL DEF Spec

\* The listener, the daemon and the recorder keep their types for any number
\* of stop threads, recordings, chunks and shards.
THEOREM TypeCorrect == Spec => []TypeOK
<1>1. IInv => TypeOK
  BY TypesGiveTypeOK DEF IInv
<1>2. QED
  BY <1>1, AlwaysIInv, PTL

\* What stop hands to recognition is the whole recording in order, wherever it
\* passed from memory to shards; in order, with chunks missing, when a read or a
\* write failed.  No reader has outlived the five seconds of a join until then.
THEOREM RecordingIsWhole == Spec => []ArtifactIsTheRecording
<1>1. IInv => ArtifactIsTheRecording
  BY DEF IInv
<1>2. QED
  BY <1>1, AlwaysIInv, PTL

\* Whichever way the last start or stop went, an idle daemon has no capture, no
\* open artifact, no process it has not sent SIGKILL and no reader but one that
\* outlived its join; without one, no shard either.
THEOREM IdleIsEmpty == Spec => []IdleLeavesNothing
<1>1. IInv => IdleLeavesNothing
  <2>1. SUFFICES ASSUME IInv, state = "idle", lock = Free
                 PROVE  /\ proc = 0 /\ backing = {}
                        /\ alive \subseteq killed /\ reader \subseteq outlived
                        /\ outlived = {} => shards = <<>>
    BY DEF IdleLeavesNothing
  <2>2. proc = 0 /\ backing = {} /\ (outlived = {} => shards = <<>>)
    BY <2>1 DEF IInv, NothingLeft, Clean
  <2>3. 0 \notin alive /\ 0 \notin reader
    BY <2>1 DEF IInv, RecorderTypes, Recordings
  <2>4. QED BY <2>1, <2>2, <2>3 DEF IInv, Capture
<1>2. QED
  BY <1>1, AlwaysIInv, PTL

\* The listener never starts a stop while C is held and no modifier has changed
\* since it was pressed with Super.
THEOREM RepeatIsNotRelease == Spec => HoldIsOneRecording
<1>1. IInv /\ [Next]_vars => [OnRelease => ~cDown \/ changes > 0]_vars
  <2>1. SUFFICES ASSUME IInv, Next, OnRelease
                 PROVE  ~cDown \/ changes > 0
    OBVIOUS
  <2>2. \E t \in Stoppers : FlushRelease(t)
    <3>1. PICK t \in Stoppers : pc[t] = "off" /\ pc'[t] = "wait"
      BY <2>1 DEF OnRelease
    <3>2. t \in Threads /\ t # Listener /\ t # AutoStopper
      BY PushToTalkConstants DEF Threads
    <3>3. pc \in [Threads -> Steps]
      BY <2>1 DEF IInv, ThreadTypes
    <3>4. pc' # pc
      BY <3>1
    <3>5. ~Keyboard
      BY <3>4 DEF Keyboard, PressSuperC, ChangeModifiers, Repeat, PressOther, ReleaseC
    <3>6. ~Start
      BY <3>1, <3>2, <3>3 DEF Start, StartTries, StartConfirms, StartRecorder, StartFails,
         StartRechecks, StartReturns
    <3>7. ~AutoStopSpawns /\ ~AutoStops
      BY <3>1, <3>2, <3>3 DEF AutoStopSpawns, AutoStops
    <3>8. \A u \in Threads : ~Call(u)
      <4>1. SUFFICES ASSUME NEW u \in Threads, Call(u) PROVE FALSE
        OBVIOUS
      <4>2. \E step \in Steps \ {"wait"} : pc[u] # "off" /\ pc' = [pc EXCEPT ![u] = step]
        BY <4>1 DEF Call, StopLocks, StopGivesUp, RequestStop, Seal, Pipeline,
           CleanupStops, CleanupPurges, Steps, Stopping
      <4>3. QED BY <3>1, <3>2, <3>3, <4>2
    <3>9. ~TimePasses /\ \A r \in Recordings : ~Record(r) /\ ~Read(r)
      BY <3>4 DEF Record, RecordChunk, RecordEnds, Read, ReadChunk, WriteFallsShort,
         ReaderEnds, TimePasses
    <3>10. \A r \in Recordings : ~Watchdog(r)
      BY <3>4 DEF Watchdog, WatchdogChecks, WatchdogStops
    <3>11. Listen
      BY <2>1, <3>5, <3>6, <3>7, <3>8, <3>9, <3>10 DEF Next
    <3>12. ~HandlePress /\ ~HandleRelease
      BY <3>1, <3>2, <3>3, <3>4 DEF HandlePress, HandleRelease
    <3>13. QED BY <3>11, <3>12 DEF Listen
  <2>3. events = <<>> /\ releasePending
    BY <2>2 DEF FlushRelease
  <2>4. changes \in Nat
    BY <2>1, PushToTalkConstants DEF IInv, KeyTypes
  <2>5. QED BY <2>1, <2>3, <2>4 DEF IInv, PressIsLast
<1>2. QED
  BY <1>1, AlwaysIInv, PTL DEF Spec, HoldIsOneRecording
=============================================================================
