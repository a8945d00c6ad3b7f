-------------------------- MODULE SignalStream_proofs --------------------------
(* Proofs about mission signals, the receiver first, then the stream.         *)
(*                                                                            *)
(* Of the receiver: its types, that no lease is behind what it stored, that   *)
(* none rests on authority older than a narrowing, and that state held across *)
(* staleness is not relied on, for every network, every bound and any number  *)
(* of restores.                                                               *)
(*                                                                            *)
(* Of the stream: that a stream from the issuer's emitter is a network of the *)
(* receiver, so that what holds of the receiver over any network holds over   *)
(* the stream; its types; that a liveness attestation the receiver heard is   *)
(* true of everything committed before it; and that a paused stream is        *)
(* enabled again only once what it withheld is not relied on.                 *)
EXTENDS SignalStream, TLAPS

-----------------------------------------------------------------------------
(* The receiver's inductive invariant                                       *)

\* Stated of a store s, for the copy keeps it as well. A nonce is of a recovery
\* generation that was current, and push state of a stream generation that was.
Ordered(s) ==
    /\ \A q \in Reads : s.nonce[q] <= s.recovery
    /\ s.released <= s.recovery
    /\ s.lineage <= s.generation

\* Every narrowing up to the version held that the consumer has not taken is
\* latched.
Latched(s) ==
    \A v \in 1 .. s.version : log[v].narrows /\ v > view => s.remat >= v

\* The version last stored is the one held, or Mission Status is awaited.
Current == ~Recovering => store.version = known

\* Tainted push state is of an earlier stream generation, or the stream is
\* stale still.
StillTainted ==
    ~Recovering /\ tainted /\ store.source = "signal" =>
        store.lineage < store.generation \/ StreamStale

\* What was stored, and what a Mission Status response reports, was committed.
Committed ==
    /\ store.version <= known
    /\ copy # NoCopy => copy.version <= known
    /\ known <= Len(log)
    /\ \A q \in Reads : reads[q].at = "answered" => reads[q].version <= Len(log)

\* While Mission Status is awaited, a response whose nonce is of this recovery
\* generation was asked for after the restore: it is not behind.
AnswersAreFresh ==
    Recovering =>
        \A q \in Reads :
            reads[q].at = "answered" /\ store.nonce[q] = store.recovery =>
                reads[q].version >= known

\* A copy the witness is not ahead of is the store, but for a baseline that was
\* recorded without the witness.
CopyIsStore ==
    copy # NoCopy /\ ~lag =>
        /\ store = [copy EXCEPT !.remat = store.remat]
        /\ ~Recovering => Latched(copy)

IInv ==
    /\ ReceiverTypeOK
    /\ Ordered(store)
    /\ copy # NoCopy => Ordered(copy)
    /\ Committed
    /\ Current
    /\ ~Recovering => Latched(store)
    /\ AnswersAreFresh
    /\ CopyIsStore
    /\ StillTainted

-----------------------------------------------------------------------------
(* The receiver's types                                                     *)

\* The constants, one by one.
LEMMA ConstantTypes ==
    /\ Heartbeat \in Nat /\ StatusTtl \in Nat /\ ExpiresAt \in Nat
    /\ MaxTime \in Nat /\ MaxCommits \in Nat
    /\ MaxRestores \in Nat /\ MaxGenerations \in Nat
    /\ \A s \in MaxStales : s \in Nat
    /\ "active" \in States
  BY SignalAssumption

\* A bound taken from a commit or from a response is an instant.
LEMMA RelianceType ==
    ASSUME ReceiverTypeOK, NEW c \in Commits
    PROVE  Reliance(c) \in Nat
<1>1. c.at \in Nat
  BY ConstantTypes DEF Commits
<1>2. store.maxStale \in MaxStales
  BY DEF ReceiverTypeOK, Stores
<1> QED BY <1>1, <1>2, ConstantTypes DEF Reliance, AtMost

LEMMA StatusRelianceType ==
    ASSUME ReceiverTypeOK, NEW q \in Reads
    PROVE  StatusReliance(reads[q]) \in Nat
<1>1. reads[q].iat \in Nat
  BY ConstantTypes DEF ReceiverTypeOK
<1> QED BY <1>1, ConstantTypes DEF StatusReliance, AtMost

\* A copy is a store.
LEMMA CopyType ==
    ASSUME ReceiverTypeOK, copy # NoCopy
    PROVE  copy.version \in 0 .. MaxCommits
  BY DEF ReceiverTypeOK, Stores

\* The commit of a version.
LEMMA LogType ==
    ASSUME ReceiverTypeOK, NEW v \in 1 .. Len(log)
    PROVE  /\ log[v] \in Commits
           /\ v \in 1 .. MaxCommits
           /\ Len(log) \in Nat
  BY ConstantTypes DEF ReceiverTypeOK

\* What a witnessed write leaves.
LEMMA WriteType ==
    ASSUME ReceiverTypeOK, NEW s \in Stores, Write(s)
    PROVE  /\ store' = s /\ lag' = TRUE /\ copy' = copy /\ witness' = witness
           /\ known' \in 0 .. MaxCommits
           /\ known' >= known /\ known' >= s.version
           /\ known' = known \/ known' = s.version
<1>1. s.version \in 0 .. MaxCommits /\ known \in 0 .. MaxCommits
  BY DEF ReceiverTypeOK, Stores
<1> QED BY <1>1, ConstantTypes DEF Write, AtLeast

\* A store of a later recovery generation, or the one the witness names.
LEMMA AdmittedType ==
    ASSUME ReceiverTypeOK, NEW s \in Stores, Admitted(s)
    PROVE  /\ store' = [s EXCEPT !.recovery = NextRecovery(s)]
           /\ store' \in Stores
           /\ witness' \in 0 .. MaxRestores
           /\ NextRecovery(s) \in Nat
           /\ NextRecovery(s) > s.recovery
<1>1. s.recovery \in 0 .. MaxRestores /\ witness \in 0 .. MaxRestores /\ MaxRestores \in Nat
  BY ConstantTypes DEF ReceiverTypeOK, Stores
<1>2. NextRecovery(s) \in 0 .. MaxRestores /\ NextRecovery(s) > s.recovery
  BY <1>1 DEF Admitted, NextRecovery, AtLeast
<1> QED BY <1>1, <1>2 DEF Admitted, Stores

(* A receiver that has just been set up satisfies the invariant.           *)
THEOREM InitIInv == ReceiverInit => IInv
<1> SUFFICES ASSUME ReceiverInit PROVE IInv
  OBVIOUS
<1> USE ConstantTypes DEF ReceiverInit
<1>1. (CHOOSE s \in MaxStales : TRUE) \in MaxStales
  BY SignalAssumption
<1>2. store \in Stores
  BY <1>1 DEF NewStore, Stores, NoVersion, Never
<1>8. log \in Seq(Commits) /\ Len(log) = 0
  OBVIOUS
<1>9. reads \in [Reads -> [at : {"idle", "asked", "answered"}, version : 0 .. MaxCommits,
                           state : States, iat : 0 .. MaxTime]]
  BY DEF NoRead, NoVersion
<1>10. /\ now \in 0 .. MaxTime /\ Len(log) <= MaxCommits
        /\ witness \in 0 .. MaxRestores
        /\ view \in 0 .. MaxCommits /\ known \in 0 .. MaxCommits
  BY <1>8 DEF NoVersion
<1>11. copy \in Stores \cup {NoCopy} /\ lag \in BOOLEAN /\ tainted \in BOOLEAN
  BY Zenon
<1>3. ReceiverTypeOK
  BY <1>2, <1>8, <1>9, <1>10, <1>11, Zenon DEF ReceiverTypeOK
<1>4. Ordered(store)
  BY DEF Ordered, NewStore, Never
<1>5. Committed /\ Current /\ AnswersAreFresh
  BY DEF Committed, Current, AnswersAreFresh, NewStore, NoVersion, NoRead
<1>6. Latched(store)
  BY DEF Latched, NewStore, NoVersion
<1>7. CopyIsStore /\ StillTainted
  BY DEF CopyIsStore, StillTainted
<1> QED BY <1>3, <1>4, <1>5, <1>6, <1>7 DEF IInv

-----------------------------------------------------------------------------
(* Writes                                                                   *)

\* A witnessed write of a store that keeps its order, its recovery generation,
\* its release and its nonces, and does not go back, keeps all but what it says
\* of versions, latches and staleness.
LEMMA WriteKeeps ==
    ASSUME IInv, NEW s \in Stores, Write(s),
           UNCHANGED <<now, log, consumerVars>>, tainted' \in BOOLEAN,
           Ordered(s), s.version <= Len(log), s.version >= store.version,
           s.recovery = store.recovery, s.released = store.released,
           s.nonce = store.nonce, Recovering => s.version = store.version
    PROVE  /\ ReceiverTypeOK'
           /\ Ordered(store)'
           /\ (copy # NoCopy => Ordered(copy))'
           /\ Committed' /\ AnswersAreFresh' /\ CopyIsStore'
           /\ Current \/ s.version >= known => Current'
<1> USE DEF IInv
<1>1. /\ store' = s /\ lag' = TRUE /\ copy' = copy /\ witness' = witness
      /\ known' \in 0 .. MaxCommits
      /\ known' >= known /\ known' >= s.version
      /\ known' = known \/ known' = s.version
  BY WriteType
<1>2. /\ s.version \in 0 .. MaxCommits /\ store.version \in 0 .. MaxCommits
      /\ known \in 0 .. MaxCommits /\ Len(log) \in Nat
  BY DEF ReceiverTypeOK, Stores
<1>3. now' = now /\ log' = log /\ reads' = reads /\ view' = view
  BY DEF consumerVars
<1>4. ReceiverTypeOK'
  BY <1>1, <1>3, Zenon DEF ReceiverTypeOK
<1>5. Ordered(store)' /\ (copy # NoCopy => Ordered(copy))'
  BY <1>1 DEF Ordered
<1>6. Committed'
  BY <1>1, <1>2, <1>3, CopyType DEF Committed
<1>7. Recovering' = Recovering
  BY <1>1 DEF Recovering
<1>8. AnswersAreFresh'
  <2> SUFFICES ASSUME Recovering, NEW q \in Reads,
                      reads[q].at = "answered", s.nonce[q] = s.recovery
               PROVE  reads[q].version >= known'
    BY <1>1, <1>3, <1>7 DEF AnswersAreFresh
  <2>1. known' = known
    BY <1>1, <1>2 DEF Committed
  <2> QED BY <2>1 DEF AnswersAreFresh
<1>9. CopyIsStore'
  BY <1>1, Zenon DEF CopyIsStore
<1>10. ASSUME Current \/ s.version >= known PROVE Current'
  <2> SUFFICES ASSUME ~Recovering PROVE s.version = known'
    BY <1>1, <1>7 DEF Current
  <2> QED BY <1>1, <1>2, <1>10 DEF Current, Committed
<1> QED BY <1>4, <1>5, <1>6, <1>8, <1>9, <1>10, Zenon

\* Staleness is a matter of the stream's record alone.
LEMMA StaleKept ==
    ASSUME now' = now, store'.live = store.live, store'.staleHeld = store.staleHeld,
           store'.maxStale = store.maxStale
    PROVE  StreamStale' = StreamStale
  BY DEF StreamStale, StaleAt, VerifiedLive, Silence

-----------------------------------------------------------------------------
(* Events                                                                   *)

\* An event newer than the version held is applied.
LEMMA NewerKeeps ==
    ASSUME IInv, NEW v \in 1 .. Len(log), Apply(v), ~Recovering, Newer(v)
    PROVE  IInv'
<1> USE DEF IInv
<1> DEFINE s == [store EXCEPT
                !.version = v, !.state = log[v].state, !.source = "signal",
                !.until = Reliance(log[v]),
                !.gapped = @ \/ v > store.version + 1,
                !.remat = Remat(v), !.lineage = Lineage]
<1>1. /\ Write(s)
      /\ tainted' = (StreamStale \/ (tainted /\ store.version # NoVersion /\ store.source = "signal"))
      /\ UNCHANGED <<now, log, consumerVars>>
  BY DEF Apply
<1>2. log[v] \in Commits /\ v \in 1 .. MaxCommits /\ Len(log) \in Nat
  BY LogType
<1>3. store \in Stores /\ store.version \in 0 .. MaxCommits /\ store.remat \in 0 .. MaxCommits
  BY DEF ReceiverTypeOK, Stores
<1>4. Remat(v) \in 0 .. MaxCommits
  BY <1>2, <1>3 DEF Remat
<1>5. Lineage \in 0 .. MaxGenerations /\ Lineage <= store.generation
  BY <1>3 DEF Lineage, Stores, Ordered
<1>6. log[v].state \in States /\ Reliance(log[v]) \in Nat
  BY <1>2, RelianceType DEF Commits
<1>7. s \in Stores
  <2> DEFINE gap == store.gapped \/ v > store.version + 1
  <2>1. gap \in BOOLEAN
    OBVIOUS
  <2>2. \A g \in BOOLEAN, r \in Nat, l \in 0 .. MaxGenerations, m \in 0 .. MaxCommits, t \in States :
            [store EXCEPT !.version = v, !.state = t, !.source = "signal",
                          !.until = r, !.gapped = g, !.remat = m, !.lineage = l] \in Stores
    <3> SUFFICES ASSUME NEW g \in BOOLEAN, NEW r \in Nat, NEW l \in 0 .. MaxGenerations,
                        NEW m \in 0 .. MaxCommits, NEW t \in States
                 PROVE  [store EXCEPT !.version = v, !.state = t, !.source = "signal",
                                      !.until = r, !.gapped = g, !.remat = m, !.lineage = l] \in Stores
      OBVIOUS
    <3> DEFINE first == [store EXCEPT !.version = v, !.state = t, !.source = "signal", !.until = r]
    <3>1. v \in 0 .. MaxCommits /\ store \in Stores
      BY <1>2, <1>3
    <3>2. first \in Stores
      BY ONLY <3>1 DEF Stores
    <3>3. [store EXCEPT !.version = v, !.state = t, !.source = "signal", !.until = r,
                        !.gapped = g, !.remat = m, !.lineage = l]
            = [first EXCEPT !.gapped = g, !.remat = m, !.lineage = l]
      BY ONLY <3>1 DEF Stores
    <3> HIDE DEF first
    <3>4. [first EXCEPT !.gapped = g, !.remat = m, !.lineage = l] \in Stores
      BY ONLY <3>2 DEF Stores
    <3> QED BY ONLY <3>3, <3>4
  <2> QED BY <1>4, <1>5, <1>6, <2>1, <2>2
<1>8. Ordered(s)
  BY <1>3, <1>5 DEF Ordered, Stores
<1>9. /\ s.version = v /\ s.recovery = store.recovery /\ s.released = store.released
      /\ s.nonce = store.nonce /\ s.remat = Remat(v) /\ s.lineage = Lineage
      /\ s.generation = store.generation /\ s.live = store.live
      /\ s.staleHeld = store.staleHeld /\ s.maxStale = store.maxStale
  BY <1>3 DEF Stores
<1>10. store' = s /\ now' = now /\ log' = log /\ view' = view
  BY <1>1, <1>7, WriteType DEF consumerVars
<1>11. tainted' \in BOOLEAN
  BY <1>1, Zenon
<1> HIDE DEF s
<1>12. /\ ReceiverTypeOK' /\ Ordered(store)' /\ (copy # NoCopy => Ordered(copy))'
       /\ Committed' /\ AnswersAreFresh' /\ CopyIsStore' /\ Current'
  <2>1. s.version >= store.version /\ s.version <= Len(log)
    BY <1>2, <1>3, <1>9 DEF Newer
  <2> QED BY <1>1, <1>7, <1>8, <1>9, <1>11, <2>1, WriteKeeps
<1>13. Latched(store)'
  <2> SUFFICES ASSUME NEW w \in 1 .. v, log[w].narrows, w > view
               PROVE  Remat(v) >= w
    BY <1>9, <1>10 DEF Latched
  <2>1. CASE log[v].narrows \/ v > store.version + 1
    BY <2>1, <1>2 DEF Remat
  <2>2. CASE ~(log[v].narrows \/ v > store.version + 1)
    <3>1. w \in 1 .. store.version /\ Remat(v) = store.remat
      BY <2>2, <1>2, <1>3 DEF Remat, Newer
    <3> QED BY <3>1 DEF Latched
  <2> QED BY <2>1, <2>2
<1>14. StillTainted'
  <2> SUFFICES ASSUME tainted' PROVE store'.lineage < store'.generation \/ StreamStale'
    BY DEF StillTainted
  <2>1. CASE StreamStale
    BY <2>1, <1>9, <1>10, StaleKept
  <2>2. CASE tainted /\ store.version # NoVersion /\ store.source = "signal"
    <3>1. store.lineage < store.generation \/ StreamStale
      BY <2>2 DEF StillTainted
    <3>2. Lineage = store.lineage
      BY <2>2 DEF Lineage
    <3> QED BY <3>1, <3>2, <1>9, <1>10, StaleKept
  <2> QED BY <1>1, <2>1, <2>2
<1> QED BY <1>12, <1>13, <1>14, Zenon

\* A write of the store as it is, or no write.
LEMMA RewriteKeeps ==
    ASSUME IInv, Write(store) \/ UNCHANGED storeVars,
           UNCHANGED <<now, log, tainted, consumerVars>>
    PROVE  IInv'
<1> USE DEF IInv
<1>1. store.version \in Nat /\ known \in Nat /\ store.version <= known
  BY DEF ReceiverTypeOK, Stores, Committed
<1>2. store' = store /\ copy' = copy /\ witness' = witness /\ known' = known
  BY <1>1 DEF storeVars, Write, AtLeast
<1>3. lag' = TRUE \/ lag' = lag
  BY DEF storeVars, Write
<1>4. now' = now /\ log' = log /\ reads' = reads /\ view' = view /\ tainted' = tainted
  BY DEF consumerVars
<1>5. ReceiverTypeOK'
  BY <1>2, <1>3, <1>4, Zenon DEF ReceiverTypeOK
<1>6. Recovering' = Recovering /\ StreamStale' = StreamStale
  BY <1>2, <1>4 DEF Recovering, StreamStale, StaleAt, VerifiedLive, Silence
<1>7. /\ Ordered(store)' /\ (copy # NoCopy => Ordered(copy))'
      /\ Committed' /\ Current' /\ AnswersAreFresh' /\ StillTainted'
  BY <1>2, <1>4, <1>6 DEF Ordered, Committed, Current, AnswersAreFresh, StillTainted
<1>8. (~Recovering => Latched(store))'
  BY <1>2, <1>4, <1>6 DEF Latched
<1>9. CopyIsStore'
  BY <1>2, <1>3, <1>4, <1>6 DEF CopyIsStore, Latched
<1> QED BY <1>5, <1>7, <1>8, <1>9, Zenon

LEMMA ApplyKeeps ==
    ASSUME IInv, NEW v \in 1 .. Len(log), Apply(v)
    PROVE  IInv'
<1>1. CASE ~Recovering /\ Newer(v)
  BY <1>1, NewerKeeps
<1>2. CASE ~(~Recovering /\ Newer(v))
  <2>1. (Write(store) /\ UNCHANGED tainted) \/ UNCHANGED storeVars
    BY <1>2 DEF Apply
  <2>2. UNCHANGED <<now, log, tainted, consumerVars>>
    BY <2>1 DEF Apply, storeVars
  <2> QED BY <2>1, <2>2, RewriteKeeps
<1> QED BY <1>1, <1>2

LEMMA HearUpdatedKeeps ==
    ASSUME IInv, HearUpdated
    PROVE  IInv'
  BY RewriteKeeps DEF HearUpdated

\* A write that leaves the Mission's row and changes the stream's record: the
\* generation is raised when the stream is stale, or for whatever reason, and
\* the stream does not become less stale without it.
LEMMA StreamWriteKeeps ==
    ASSUME IInv,
           NEW live \in {Never} \cup (0 .. MaxTime), NEW generation \in 0 .. MaxGenerations,
           NEW held \in BOOLEAN, NEW maxStale \in MaxStales,
           Write([store EXCEPT !.live = live, !.generation = generation,
                               !.staleHeld = held, !.maxStale = maxStale]),
           UNCHANGED <<now, log, tainted, consumerVars>>,
           generation > store.generation \/ (generation = store.generation /\ ~StreamStale)
    PROVE  IInv'
<1> USE DEF IInv
<1> DEFINE s == [store EXCEPT !.live = live, !.generation = generation,
                              !.staleHeld = held, !.maxStale = maxStale]
<1>1. store \in Stores /\ tainted \in BOOLEAN
  BY DEF ReceiverTypeOK
<1>2. s \in Stores
  BY <1>1, Zenon DEF Stores
<1>3. /\ s.version = store.version /\ s.recovery = store.recovery
      /\ s.released = store.released /\ s.nonce = store.nonce
      /\ s.remat = store.remat /\ s.lineage = store.lineage /\ s.source = store.source
      /\ s.generation = generation
  BY <1>1 DEF Stores
<1>4. store' = s
  BY <1>2, WriteType
<1>5. store.generation \in Nat /\ store.lineage \in Nat /\ store.version \in Nat /\ known \in Nat
  BY <1>1 DEF Stores, ReceiverTypeOK
<1> HIDE DEF s
<1>6. Ordered(s)
  BY <1>3, <1>5 DEF Ordered
<1>7. s.version <= Len(log) /\ s.version >= store.version
  BY <1>3, <1>5 DEF Committed, ReceiverTypeOK
<1>8. tainted' = tainted /\ tainted' \in BOOLEAN
  BY <1>1, Zenon
<1>9. /\ ReceiverTypeOK' /\ Ordered(store)' /\ (copy # NoCopy => Ordered(copy))'
      /\ Committed' /\ AnswersAreFresh' /\ CopyIsStore' /\ Current'
  BY <1>2, <1>3, <1>6, <1>7, <1>8, WriteKeeps DEF s
<1>10. Recovering' = Recovering
  BY <1>3, <1>4 DEF Recovering
<1>11. (~Recovering => Latched(store))'
  BY <1>3, <1>4, <1>10 DEF Latched, consumerVars
<1>12. StillTainted'
  BY <1>3, <1>4, <1>5, <1>8, <1>10 DEF StillTainted, Ordered
<1> QED BY <1>9, <1>11, <1>12, Zenon

LEMMA HearKeeps ==
    ASSUME IInv, NEW iat \in 0 .. now, Hear(iat)
    PROVE  IInv'
<1> DEFINE live == AtLeast(store.live, iat)
           generation == IF StreamStale THEN store.generation + 1 ELSE store.generation
<1>1. store \in Stores /\ now \in 0 .. MaxTime
  BY DEF IInv, ReceiverTypeOK
<1>2. /\ store.live \in {Never} \cup (0 .. MaxTime) /\ store.maxStale \in MaxStales
      /\ store.generation \in 0 .. MaxGenerations
  BY <1>1 DEF Stores
<1>3. live \in {Never} \cup (0 .. MaxTime)
  BY <1>1, <1>2, ConstantTypes DEF AtLeast, Never
<1>4. generation \in 0 .. MaxGenerations
  BY <1>2, ConstantTypes DEF Hear
<1>5. generation > store.generation \/ (generation = store.generation /\ ~StreamStale)
  BY <1>2, ConstantTypes
<1>6. Write([store EXCEPT !.live = live, !.generation = generation, !.staleHeld = FALSE])
  BY DEF Hear
<1>7. [store EXCEPT !.live = live, !.generation = generation, !.staleHeld = FALSE] =
      [store EXCEPT !.live = live, !.generation = generation, !.staleHeld = FALSE,
                    !.maxStale = store.maxStale]
  BY <1>1 DEF Stores
<1> HIDE DEF live, generation
<1> QED BY <1>2, <1>3, <1>4, <1>5, <1>6, <1>7, StreamWriteKeeps DEF Hear

LEMMA AgreeKeeps ==
    ASSUME IInv, NEW maxStale \in MaxStales, Agree(maxStale)
    PROVE  IInv'
<1> DEFINE generation == store.generation + 1
           held == StreamStale
<1>1. store \in Stores
  BY DEF IInv, ReceiverTypeOK
<1>2. /\ store.live \in {Never} \cup (0 .. MaxTime)
      /\ store.generation \in 0 .. MaxGenerations
  BY <1>1 DEF Stores
<1>3. generation \in 0 .. MaxGenerations /\ generation > store.generation
  BY <1>2, ConstantTypes DEF Agree
<1>4. held \in BOOLEAN
  BY <1>1, Zenon DEF StreamStale, StaleAt, Stores
<1>5. Write([store EXCEPT !.maxStale = maxStale, !.generation = generation, !.staleHeld = held])
  BY DEF Agree
<1>6. [store EXCEPT !.maxStale = maxStale, !.generation = generation, !.staleHeld = held] =
      [store EXCEPT !.live = store.live, !.generation = generation, !.staleHeld = held,
                    !.maxStale = maxStale]
  BY <1>1 DEF Stores
<1> HIDE DEF generation, held
<1> QED BY <1>2, <1>3, <1>4, <1>5, <1>6, StreamWriteKeeps DEF Agree

-----------------------------------------------------------------------------
(* Mission Status                                                           *)

LEMMA AskStatusKeeps ==
    ASSUME IInv, NEW q \in Reads, AskStatus(q)
    PROVE  IInv'
<1> USE DEF IInv
<1> DEFINE s == [store EXCEPT !.nonce[q] = store.recovery]
<1>1. store \in Stores /\ tainted \in BOOLEAN
  BY DEF ReceiverTypeOK
<1>2. store.nonce \in [Reads -> {Never} \cup (0 .. MaxRestores)] /\ store.recovery \in 0 .. MaxRestores
  BY <1>1 DEF Stores
<1>3. s = [store EXCEPT !.nonce = [store.nonce EXCEPT ![q] = store.recovery]]
  BY <1>1 DEF Stores
<1>4. [store.nonce EXCEPT ![q] = store.recovery] \in [Reads -> {Never} \cup (0 .. MaxRestores)]
  BY <1>2
<1>5. s \in Stores
  BY <1>1, <1>3, <1>4, Zenon DEF Stores
<1>6. /\ s.version = store.version /\ s.recovery = store.recovery
      /\ s.released = store.released /\ s.remat = store.remat /\ s.lineage = store.lineage
      /\ s.generation = store.generation /\ s.source = store.source
      /\ s.live = store.live /\ s.staleHeld = store.staleHeld /\ s.maxStale = store.maxStale
      /\ s.nonce = [store.nonce EXCEPT ![q] = store.recovery]
  BY <1>1, <1>3 DEF Stores
<1>7. Write(s) /\ now' = now /\ log' = log /\ view' = view /\ tainted' = tainted
      /\ reads' = [reads EXCEPT ![q].at = "asked"]
  BY DEF AskStatus
<1> HIDE DEF s
<1>8. /\ store' = s /\ lag' = TRUE /\ copy' = copy /\ witness' = witness
  BY <1>5, <1>7, WriteType
<1>9. known' = known
  <2>1. store.version \in Nat /\ known \in Nat
    BY <1>1 DEF Stores, ReceiverTypeOK
  <2> QED BY <2>1, <1>6, <1>7 DEF Write, AtLeast, Committed
<1>10. reads' \in [Reads -> [at : {"idle", "asked", "answered"}, version : 0 .. MaxCommits,
                             state : States, iat : 0 .. MaxTime]]
  BY <1>7, Zenon DEF ReceiverTypeOK
<1>11. ReceiverTypeOK'
  BY <1>5, <1>7, <1>8, <1>9, <1>10, Zenon DEF ReceiverTypeOK
<1>12. \A p \in Reads : reads'[p].at = "answered" => p # q /\ reads'[p] = reads[p]
  BY <1>7 DEF ReceiverTypeOK
<1>13. Recovering' = Recovering /\ StreamStale' = StreamStale
  BY <1>6, <1>7, <1>8 DEF Recovering, StreamStale, StaleAt, VerifiedLive, Silence
<1>14. Ordered(store)' /\ (copy # NoCopy => Ordered(copy))'
  BY <1>2, <1>6, <1>8, ConstantTypes DEF Ordered
<1>15. Committed' /\ Current' /\ StillTainted'
  BY <1>6, <1>7, <1>8, <1>9, <1>12, <1>13 DEF Committed, Current, StillTainted
<1>16. AnswersAreFresh'
  BY <1>2, <1>6, <1>8, <1>9, <1>12, <1>13 DEF AnswersAreFresh
<1>17. (~Recovering => Latched(store))'
  BY <1>6, <1>7, <1>8, <1>13 DEF Latched
<1>18. CopyIsStore'
  BY <1>8, Zenon DEF CopyIsStore
<1> QED BY <1>11, <1>14, <1>15, <1>16, <1>17, <1>18, Zenon

\* A response is given, or lost: what one reports is what was committed.
LEMMA ReadsKeep ==
    ASSUME IInv, UNCHANGED <<now, log, storeVars, view>>,
           reads' \in [Reads -> [at : {"idle", "asked", "answered"}, version : 0 .. MaxCommits,
                                 state : States, iat : 0 .. MaxTime]],
           \A p \in Reads : reads'[p].at = "answered" =>
               reads'[p] = reads[p] \/ reads'[p].version = Len(log)
    PROVE  IInv'
<1> USE DEF IInv
<1>1. /\ now' = now /\ log' = log /\ view' = view /\ tainted' = tainted /\ known' = known
      /\ store' = store /\ copy' = copy /\ lag' = lag /\ witness' = witness
  BY DEF storeVars
<1>2. ReceiverTypeOK'
  BY <1>1, Zenon DEF ReceiverTypeOK
<1>3. known \in Nat /\ Len(log) \in Nat /\ known <= Len(log)
  BY DEF ReceiverTypeOK, Committed
<1>4. Recovering' = Recovering /\ StreamStale' = StreamStale
  BY <1>1 DEF Recovering, StreamStale, StaleAt, VerifiedLive, Silence
<1>5. /\ Ordered(store)' /\ (copy # NoCopy => Ordered(copy))'
      /\ Current' /\ StillTainted'
  BY <1>1, <1>4 DEF Ordered, Current, StillTainted
<1>6. Committed' /\ AnswersAreFresh'
  BY <1>1, <1>3, <1>4 DEF Committed, AnswersAreFresh
<1>7. (~Recovering => Latched(store))' /\ CopyIsStore'
  BY <1>1, <1>4 DEF Latched, CopyIsStore
<1> QED BY <1>2, <1>5, <1>6, <1>7, Zenon

LEMMA AnswerStatusKeeps ==
    ASSUME IInv, NEW q \in Reads, AnswerStatus(q)
    PROVE  IInv'
<1> DEFINE r == [at |-> "answered", version |-> Len(log),
                 state |-> log[Len(log)].state, iat |-> now]
<1>1. log \in Seq(Commits) /\ Len(log) <= MaxCommits /\ now \in 0 .. MaxTime
  BY DEF IInv, ReceiverTypeOK
<1>2. Len(log) \in 1 .. MaxCommits /\ log[Len(log)] \in Commits
  BY <1>1, ConstantTypes DEF AnswerStatus
<1>3. r \in [at : {"idle", "asked", "answered"}, version : 0 .. MaxCommits,
             state : States, iat : 0 .. MaxTime] /\ r.version = Len(log)
  BY <1>1, <1>2 DEF Commits
<1>4. reads' = [reads EXCEPT ![q] = r] /\ UNCHANGED <<now, log, storeVars, view>>
  BY DEF AnswerStatus
<1> HIDE DEF r
<1>5. /\ reads' \in [Reads -> [at : {"idle", "asked", "answered"}, version : 0 .. MaxCommits,
                               state : States, iat : 0 .. MaxTime]]
      /\ \A p \in Reads : reads'[p] = IF p = q THEN r ELSE reads[p]
  BY <1>3, <1>4, Zenon DEF IInv, ReceiverTypeOK
<1> QED BY <1>3, <1>4, <1>5, ReadsKeep

\* A read that ends is no response.
LEMMA NoReadType ==
    ASSUME ReceiverTypeOK, NEW q \in Reads, reads' = [reads EXCEPT ![q] = NoRead]
    PROVE  /\ reads' \in [Reads -> [at : {"idle", "asked", "answered"}, version : 0 .. MaxCommits,
                                    state : States, iat : 0 .. MaxTime]]
           /\ \A p \in Reads : reads'[p].at = "answered" => p # q /\ reads'[p] = reads[p]
<1>1. NoRead \in [at : {"idle", "asked", "answered"}, version : 0 .. MaxCommits,
                  state : States, iat : 0 .. MaxTime] /\ NoRead.at # "answered"
  BY ConstantTypes DEF NoRead, NoVersion
<1>2. reads' \in [Reads -> [at : {"idle", "asked", "answered"}, version : 0 .. MaxCommits,
                            state : States, iat : 0 .. MaxTime]]
      /\ \A p \in Reads : reads'[p] = IF p = q THEN NoRead ELSE reads[p]
  BY <1>1, Zenon DEF ReceiverTypeOK
<1> QED BY <1>1, <1>2

LEMMA LoseStatusKeeps ==
    ASSUME IInv, NEW q \in Reads, LoseStatus(q)
    PROVE  IInv'
  BY NoReadType, ReadsKeep DEF LoseStatus, IInv

\* An acceptable response is not behind what the receiver ever stored.
LEMMA AcceptableIsCurrent ==
    ASSUME IInv, NEW q \in Reads, reads[q].at = "answered", Acceptable(q)
    PROVE  reads[q].version >= known /\ reads[q].version <= Len(log)
<1> USE DEF IInv
<1>1. reads[q].version <= Len(log)
  BY DEF Committed
<1>2. CASE Recovering
  BY <1>1, <1>2 DEF AnswersAreFresh, Acceptable
<1>3. CASE ~Recovering
  BY <1>1, <1>3 DEF Current, Acceptable
<1> QED BY <1>2, <1>3

LEMMA TakeStatusKeeps ==
    ASSUME IInv, NEW q \in Reads, TakeStatus(q)
    PROVE  IInv'
<1> USE DEF IInv
<1> DEFINE m == reads[q]
           remat == IF Latches(m) THEN m.version ELSE store.remat
           released == IF Recovering THEN store.recovery ELSE store.released
           s == [store EXCEPT
                !.version = m.version, !.state = m.state, !.source = "status",
                !.until = StatusReliance(m), !.gapped = FALSE,
                !.remat = IF Latches(m) THEN m.version ELSE @,
                !.lineage = store.generation,
                !.released = IF Recovering THEN store.recovery ELSE @,
                !.nonce = [p \in Reads |-> Never]]
<1>1. /\ reads' = [reads EXCEPT ![q] = NoRead]
      /\ m.at = "answered"
      /\ now' = now /\ log' = log /\ view' = view
  BY DEF TakeStatus
<1>2. /\ reads' \in [Reads -> [at : {"idle", "asked", "answered"}, version : 0 .. MaxCommits,
                               state : States, iat : 0 .. MaxTime]]
      /\ \A p \in Reads : reads'[p].at = "answered" => p # q /\ reads'[p] = reads[p]
  BY <1>1, NoReadType
<1>3. CASE UNCHANGED storeVars
  BY <1>1, <1>2, <1>3, ReadsKeep
<1>4. CASE Acceptable(q) /\ Write(s) /\ tainted' = FALSE
  <2>1. store \in Stores /\ m \in [at : {"idle", "asked", "answered"}, version : 0 .. MaxCommits,
                                   state : States, iat : 0 .. MaxTime]
    BY DEF ReceiverTypeOK
  <2>2. /\ store.version \in 0 .. MaxCommits /\ store.remat \in 0 .. MaxCommits
        /\ store.generation \in 0 .. MaxGenerations
        /\ store.recovery \in 0 .. MaxRestores /\ store.released \in 0 .. MaxRestores
        /\ known \in Nat /\ Len(log) \in Nat
    BY <2>1 DEF Stores, ReceiverTypeOK
  <2>3. m.version \in 0 .. MaxCommits /\ m.state \in States /\ StatusReliance(m) \in Nat
    BY <2>1, StatusRelianceType
  <2>4. remat \in 0 .. MaxCommits /\ released \in 0 .. MaxRestores
    BY <2>2, <2>3
  <2>5. s = [store EXCEPT
                !.version = m.version, !.state = m.state, !.source = "status",
                !.until = StatusReliance(m), !.gapped = FALSE, !.remat = remat,
                !.lineage = store.generation, !.released = released,
                !.nonce = [p \in Reads |-> Never]]
    OBVIOUS
  <2>6. [p \in Reads |-> Never] \in [Reads -> {Never} \cup (0 .. MaxRestores)]
    OBVIOUS
  <2> HIDE DEF remat, released, s
  <2>7. s \in Stores
    BY <2>1, <2>2, <2>3, <2>4, <2>5, <2>6, Zenon DEF Stores
  <2>8. /\ s.version = m.version /\ s.source = "status" /\ s.remat = remat
        /\ s.lineage = store.generation /\ s.generation = store.generation
        /\ s.recovery = store.recovery /\ s.released = released
        /\ s.nonce = [p \in Reads |-> Never]
    BY <2>1, <2>5 DEF Stores
  <2>9. /\ store' = s /\ lag' = TRUE /\ copy' = copy /\ witness' = witness
        /\ known' \in 0 .. MaxCommits
        /\ known' >= known /\ known' >= s.version
        /\ known' = known \/ known' = s.version
    BY <1>4, <2>7, WriteType
  <2>10. known' = m.version /\ m.version <= Len(log) /\ m.version >= known
    BY <1>1, <1>4, <2>2, <2>3, <2>8, <2>9, AcceptableIsCurrent
  <2>11. ~Recovering'
    BY <2>2, <2>8, <2>9 DEF Recovering, released
  <2>12. ReceiverTypeOK'
    BY <1>1, <1>2, <1>4, <2>7, <2>9, Zenon DEF ReceiverTypeOK
  <2>13. Ordered(store)' /\ (copy # NoCopy => Ordered(copy))'
    BY <2>2, <2>8, <2>9, ConstantTypes DEF Ordered, Never, released
  <2>14. Committed' /\ Current'
    BY <1>1, <1>2, <2>2, <2>3, <2>8, <2>9, <2>10, CopyType DEF Committed, Current
  <2>15. AnswersAreFresh' /\ StillTainted'
    BY <1>4, <2>11 DEF AnswersAreFresh, StillTainted
  <2>16. Latched(store)'
    <3> SUFFICES ASSUME NEW w \in 1 .. m.version, log[w].narrows, w > view
                 PROVE  remat >= w
      BY <1>1, <2>8, <2>9 DEF Latched
    <3>1. CASE Latches(m)
      BY <3>1, <2>3 DEF remat
    <3>2. CASE ~Latches(m)
      <4>1. ~Recovering /\ w \in 1 .. store.version /\ remat = store.remat
        BY <3>2, <2>2, <2>3 DEF Latches, remat
      <4> QED BY <4>1 DEF Latched
    <3> QED BY <3>1, <3>2
  <2>17. CopyIsStore'
    BY <2>9, Zenon DEF CopyIsStore
  <2> QED BY <2>12, <2>13, <2>14, <2>15, <2>16, <2>17, Zenon
<1> QED BY <1>3, <1>4 DEF TakeStatus

-----------------------------------------------------------------------------
(* Effective authority, and the issuer                                      *)

LEMMA RefreshKeeps ==
    ASSUME IInv, Refresh
    PROVE  IInv'
<1> USE DEF IInv
<1>1. PICK v \in view + 1 .. Len(log) : view' = v
  BY DEF Refresh
<1>2. /\ now' = now /\ log' = log /\ reads' = reads /\ tainted' = tainted /\ known' = known
      /\ store' = store /\ copy' = copy /\ lag' = lag /\ witness' = witness
  BY DEF Refresh, storeVars
<1>3. view \in Nat /\ Len(log) \in Nat /\ Len(log) <= MaxCommits
  BY DEF ReceiverTypeOK
<1>4. view' \in 0 .. MaxCommits /\ view' > view
  BY <1>1, <1>3, ConstantTypes
<1>5. ReceiverTypeOK'
  BY <1>2, <1>4, Zenon DEF ReceiverTypeOK
<1>6. Recovering' = Recovering /\ StreamStale' = StreamStale
  BY <1>2 DEF Recovering, StreamStale, StaleAt, VerifiedLive, Silence
<1>7. /\ Ordered(store)' /\ (copy # NoCopy => Ordered(copy))'
      /\ Committed' /\ Current' /\ AnswersAreFresh' /\ StillTainted'
  BY <1>2, <1>6 DEF Ordered, Committed, Current, AnswersAreFresh, StillTainted
<1>8. (~Recovering => Latched(store))' /\ CopyIsStore'
  <2>1. \A w \in Nat : w > view' => w > view
    BY <1>3, <1>4
  <2> QED BY <1>2, <1>6, <2>1 DEF Latched, CopyIsStore
<1> QED BY <1>5, <1>7, <1>8, Zenon

\* A baseline of a version at or past the one latched has every narrowing.
LEMMA MarkRematerializedKeeps ==
    ASSUME IInv, MarkRematerialized
    PROVE  IInv'
<1> USE DEF IInv
<1>1. store \in Stores
  BY DEF ReceiverTypeOK
<1>2. /\ now' = now /\ log' = log /\ reads' = reads /\ view' = view
      /\ tainted' = tainted /\ known' = known
      /\ copy' = copy /\ lag' = lag /\ witness' = witness
      /\ store' = [store EXCEPT !.remat = NoVersion]
      /\ view >= store.remat
  BY DEF MarkRematerialized, consumerVars, Covers
<1>3. store' \in Stores
  <2>1. NoVersion \in 0 .. MaxCommits
    BY ConstantTypes DEF NoVersion
  <2> QED BY <1>1, <1>2, <2>1, Zenon DEF Stores
<1>4. ReceiverTypeOK'
  BY <1>2, <1>3, Zenon DEF ReceiverTypeOK
<1>5. /\ store'.version = store.version /\ store'.recovery = store.recovery
      /\ store'.released = store.released /\ store'.nonce = store.nonce
      /\ store'.lineage = store.lineage /\ store'.generation = store.generation
      /\ store'.source = store.source /\ store'.live = store.live
      /\ store'.staleHeld = store.staleHeld /\ store'.maxStale = store.maxStale
      /\ store'.remat = NoVersion
  BY <1>1, <1>2 DEF Stores
<1>6. Recovering' = Recovering /\ StreamStale' = StreamStale
  BY <1>2, <1>5, StaleKept DEF Recovering
<1>7. /\ Ordered(store)' /\ (copy # NoCopy => Ordered(copy))'
      /\ Committed' /\ Current' /\ AnswersAreFresh' /\ StillTainted'
  BY <1>2, <1>5, <1>6 DEF Ordered, Committed, Current, AnswersAreFresh, StillTainted
<1>8. (~Recovering => Latched(store))'
  <2> SUFFICES ASSUME ~Recovering, NEW w \in 1 .. store.version, log[w].narrows, w > view
               PROVE  FALSE
    BY <1>2, <1>5, <1>6 DEF Latched
  <2>1. store.remat >= w
    BY DEF Latched
  <2>2. store.remat \in Nat /\ view \in Nat /\ store.version \in Nat
    BY <1>1 DEF Stores, ReceiverTypeOK
  <2> QED BY <1>2, <2>1, <2>2
<1>9. CopyIsStore'
  <2> SUFFICES ASSUME copy # NoCopy, ~lag
               PROVE  /\ store' = [copy EXCEPT !.remat = store'.remat]
                      /\ ~Recovering => Latched(copy)'
    BY <1>2, <1>6 DEF CopyIsStore
  <2>1. store = [copy EXCEPT !.remat = store.remat] /\ copy \in Stores
    BY DEF CopyIsStore, ReceiverTypeOK
  <2>2. store' = [copy EXCEPT !.remat = store'.remat]
    BY <1>2, <2>1 DEF Stores
  <2>3. ~Recovering => Latched(copy)'
    BY <1>2 DEF CopyIsStore, Latched
  <2> QED BY <2>2, <2>3
<1> QED BY <1>4, <1>7, <1>8, <1>9, Zenon

LEMMA CommitKeeps ==
    ASSUME IInv, NEW state \in States, NEW narrows \in BOOLEAN, Commit(state, narrows)
    PROVE  IInv'
<1> USE DEF IInv
<1> DEFINE c == [state |-> state, narrows |-> narrows, at |-> now]
<1>1. /\ now' = now /\ reads' = reads /\ view' = view /\ tainted' = tainted /\ known' = known
      /\ store' = store /\ copy' = copy /\ lag' = lag /\ witness' = witness
      /\ log' = Append(log, c) /\ Len(log) < MaxCommits
  BY DEF Commit, storeVars, consumerVars
<1>2. c \in Commits
  BY Zenon DEF Commits, ReceiverTypeOK
<1>3. log \in Seq(Commits) /\ known \in Nat /\ store.version \in Nat
  BY DEF ReceiverTypeOK, Stores
<1> HIDE DEF c
<1>4. /\ log' \in Seq(Commits) /\ Len(log') = Len(log) + 1 /\ Len(log') <= MaxCommits
      /\ Len(log) \in Nat
      /\ \A v \in 1 .. Len(log) : log'[v] = log[v]
  BY <1>1, <1>2, <1>3, ConstantTypes
<1>5. ReceiverTypeOK'
  BY <1>1, <1>4, Zenon DEF ReceiverTypeOK
<1>6. Recovering' = Recovering /\ StreamStale' = StreamStale
  BY <1>1 DEF Recovering, StreamStale, StaleAt, VerifiedLive, Silence
<1>7. /\ Ordered(store)' /\ (copy # NoCopy => Ordered(copy))'
      /\ Current' /\ AnswersAreFresh' /\ StillTainted'
  BY <1>1, <1>6 DEF Ordered, Current, AnswersAreFresh, StillTainted
<1>8. Committed'
  <2>1. \A p \in Reads : reads[p].version \in Nat
    BY DEF ReceiverTypeOK
  <2> QED BY <1>1, <1>3, <1>4, <2>1 DEF Committed
<1>9. (~Recovering => Latched(store))'
  <2>1. \A v \in 1 .. store.version : log'[v] = log[v]
    BY <1>3, <1>4 DEF Committed
  <2> QED BY <1>1, <1>6, <2>1 DEF Latched
<1>10. CopyIsStore'
  <2> SUFFICES ASSUME copy # NoCopy, ~lag PROVE ~Recovering => Latched(copy)'
    BY <1>1, <1>6 DEF CopyIsStore
  <2>1. copy.version = store.version
    BY DEF CopyIsStore, ReceiverTypeOK, Stores
  <2>2. \A v \in 1 .. copy.version : log'[v] = log[v]
    BY <1>3, <1>4, <2>1 DEF Committed
  <2> QED BY <1>1, <2>2 DEF Latched, CopyIsStore
<1> QED BY <1>5, <1>7, <1>8, <1>9, <1>10, Zenon

-----------------------------------------------------------------------------
(* Copies, restores and time                                                *)

LEMMA BackupKeeps ==
    ASSUME IInv, Backup
    PROVE  IInv'
<1> USE DEF IInv
<1>1. /\ now' = now /\ log' = log /\ reads' = reads /\ view' = view
      /\ tainted' = tainted /\ known' = known
      /\ store' = store /\ witness' = witness /\ copy' = store /\ lag' = FALSE
  BY DEF Backup, consumerVars
<1>2. ReceiverTypeOK'
  BY <1>1, Zenon DEF ReceiverTypeOK
<1>3. Recovering' = Recovering /\ StreamStale' = StreamStale
  BY <1>1 DEF Recovering, StreamStale, StaleAt, VerifiedLive, Silence
<1>4. /\ Ordered(store)' /\ (copy # NoCopy => Ordered(copy))'
      /\ Committed' /\ Current' /\ AnswersAreFresh' /\ StillTainted'
  BY <1>1, <1>3 DEF Ordered, Committed, Current, AnswersAreFresh, StillTainted
<1>5. (~Recovering => Latched(store))' /\ (~Recovering => Latched(copy))'
  BY <1>1, <1>3 DEF Latched
<1>6. store = [store EXCEPT !.remat = store.remat]
  BY DEF ReceiverTypeOK, Stores
<1>7. CopyIsStore'
  BY <1>1, <1>5, <1>6 DEF CopyIsStore
<1> QED BY <1>2, <1>4, <1>5, <1>7, Zenon

\* An admitted store awaits Mission Status, and no nonce it holds is of the
\* generation it opens.
LEMMA AdmittedKeeps ==
    ASSUME IInv, NEW s \in Stores, Admitted(s), Ordered(s), s.version <= known,
           UNCHANGED <<now, log, copy, known, tainted, consumerVars>>, lag' = TRUE
    PROVE  IInv'
<1> USE DEF IInv
<1>1. /\ store' = [s EXCEPT !.recovery = NextRecovery(s)]
      /\ store' \in Stores
      /\ witness' \in 0 .. MaxRestores
      /\ NextRecovery(s) \in Nat
      /\ NextRecovery(s) > s.recovery
  BY AdmittedType
<1>2. /\ now' = now /\ log' = log /\ reads' = reads /\ view' = view
      /\ tainted' = tainted /\ known' = known /\ copy' = copy
  BY DEF consumerVars
<1>3. /\ store'.version = s.version /\ store'.recovery = NextRecovery(s)
      /\ store'.released = s.released /\ store'.nonce = s.nonce
      /\ store'.lineage = s.lineage /\ store'.generation = s.generation
  BY <1>1 DEF Stores
<1>4. /\ s.recovery \in Nat /\ s.released \in Nat
      /\ \A q \in Reads : s.nonce[q] \in {Never} \cup Nat
  BY ConstantTypes DEF Stores
<1>5. ReceiverTypeOK'
  BY <1>1, <1>2, Zenon DEF ReceiverTypeOK
<1>6. Recovering'
  BY <1>1, <1>3, <1>4 DEF Recovering, Ordered
<1>7. Ordered(store)' /\ (copy # NoCopy => Ordered(copy))'
  BY <1>1, <1>2, <1>3, <1>4 DEF Ordered, Never
<1>8. Committed' /\ Current' /\ StillTainted' /\ CopyIsStore'
  BY <1>2, <1>3, <1>6 DEF Committed, Current, StillTainted, CopyIsStore
<1>9. AnswersAreFresh'
  <2>1. \A q \in Reads : store'.nonce[q] # store'.recovery
    BY <1>1, <1>3, <1>4 DEF Ordered, Never
  <2> QED BY <2>1 DEF AnswersAreFresh
<1> QED BY <1>5, <1>6, <1>7, <1>8, <1>9, Zenon

LEMMA RestoreKeeps ==
    ASSUME IInv, Restore
    PROVE  IInv'
<1> USE DEF IInv
<1>1. copy \in Stores /\ copy # NoCopy /\ Ordered(copy) /\ copy.version <= known
  BY DEF Restore, ReceiverTypeOK, Committed
<1>2. UNCHANGED <<now, log, copy, known, tainted, consumerVars>> /\ lag' = lag
  BY DEF Restore
<1>3. CASE lag /\ Admitted(copy)
  <2>1. lag' = TRUE
    BY <1>2, <1>3, Zenon DEF ReceiverTypeOK
  <2> QED BY <1>1, <1>2, <1>3, <2>1, AdmittedKeeps
<1>4. CASE ~lag /\ store' = copy /\ UNCHANGED witness
  <2>1. /\ now' = now /\ log' = log /\ reads' = reads /\ view' = view
        /\ tainted' = tainted /\ known' = known /\ copy' = copy
    BY <1>2 DEF consumerVars
  <2>2. store = [copy EXCEPT !.remat = store.remat] /\ (~Recovering => Latched(copy))
    BY <1>1, <1>4 DEF CopyIsStore
  <2>3. /\ store'.version = store.version /\ store'.recovery = store.recovery
        /\ store'.released = store.released /\ store'.nonce = store.nonce
        /\ store'.lineage = store.lineage /\ store'.generation = store.generation
        /\ store'.source = store.source /\ store'.live = store.live
        /\ store'.staleHeld = store.staleHeld /\ store'.maxStale = store.maxStale
    BY <1>1, <1>4, <2>2 DEF Stores
  <2>4. ReceiverTypeOK'
    BY <1>1, <1>2, <1>4, <2>1, Zenon DEF ReceiverTypeOK
  <2>5. Recovering' = Recovering /\ StreamStale' = StreamStale
    BY <2>1, <2>3, StaleKept DEF Recovering
  <2>6. /\ Ordered(store)' /\ (copy # NoCopy => Ordered(copy))'
        /\ Committed' /\ Current' /\ AnswersAreFresh' /\ StillTainted'
    BY <1>1, <2>1, <2>3, <2>5 DEF Ordered, Committed, Current, AnswersAreFresh, StillTainted
  <2>7. (~Recovering => Latched(store))' /\ (~Recovering => Latched(copy))'
    BY <1>4, <2>1, <2>2, <2>5 DEF Latched
  <2>8. copy = [copy EXCEPT !.remat = copy.remat]
    BY <1>1 DEF Stores
  <2>9. CopyIsStore'
    BY <1>4, <2>1, <2>7, <2>8 DEF CopyIsStore
  <2> QED BY <2>4, <2>6, <2>7, <2>9, Zenon
<1> QED BY <1>3, <1>4 DEF Restore

LEMMA CrashInWriteKeeps ==
    ASSUME IInv, CrashInWrite
    PROVE  IInv'
<1>1. store \in Stores /\ Ordered(store) /\ store.version <= known
  BY DEF IInv, ReceiverTypeOK, Committed
<1> QED BY <1>1, AdmittedKeeps DEF CrashInWrite

\* A stream that is stale stays stale as time passes.
LEMMA TickKeeps ==
    ASSUME IInv, Tick
    PROVE  IInv'
<1> USE DEF IInv
<1>1. /\ log' = log /\ reads' = reads /\ view' = view /\ known' = known
      /\ store' = store /\ copy' = copy /\ lag' = lag /\ witness' = witness
      /\ now' = now + 1 /\ now < MaxTime
      /\ tainted' = (tainted \/ (store.version # NoVersion /\ store.source = "signal" /\ StaleAt(now + 1)))
  BY DEF Tick, consumerVars
<1>2. tainted' \in BOOLEAN /\ now \in 0 .. MaxTime
  BY <1>1, Zenon DEF ReceiverTypeOK
<1>3. now' \in 0 .. MaxTime
  BY <1>1, <1>2, ConstantTypes
<1>4. ReceiverTypeOK'
  BY <1>1, <1>2, <1>3, Zenon DEF ReceiverTypeOK
<1>5. Recovering' = Recovering
  BY <1>1 DEF Recovering
<1>6. /\ Ordered(store)' /\ (copy # NoCopy => Ordered(copy))'
      /\ Committed' /\ Current' /\ AnswersAreFresh'
  BY <1>1, <1>5 DEF Ordered, Committed, Current, AnswersAreFresh
<1>7. (~Recovering => Latched(store))' /\ CopyIsStore'
  BY <1>1, <1>5 DEF Latched, CopyIsStore
<1>8. StreamStale' = StaleAt(now + 1)
  BY <1>1 DEF StreamStale, StaleAt, VerifiedLive, Silence
<1>9. StreamStale => StaleAt(now + 1)
  <2>1. /\ store.live \in {Never} \cup Nat /\ store.maxStale \in Nat
        /\ Heartbeat \in Nat /\ now \in Nat
    BY ConstantTypes, <1>2 DEF ReceiverTypeOK, Stores
  <2> QED BY <2>1 DEF StreamStale, StaleAt, VerifiedLive, Silence, AtLeast, Never
<1>10. StillTainted'
  BY <1>1, <1>5, <1>8, <1>9 DEF StillTainted
<1> QED BY <1>4, <1>6, <1>7, <1>10, Zenon

-----------------------------------------------------------------------------
(* The receiver's promises                                                  *)

(* Every exchange with the stream and every restore of the store keeps it.  *)
THEOREM StepIInv == IInv /\ [ReceiverNext]_receiverVars => IInv'
<1> SUFFICES ASSUME IInv, [ReceiverNext]_receiverVars PROVE IInv'
  OBVIOUS
<1>1. ASSUME NEW state \in States, NEW narrows \in BOOLEAN, Commit(state, narrows)
      PROVE  IInv'
  BY <1>1, CommitKeeps
<1>2. ASSUME NEW v \in 1 .. Len(log), Apply(v) PROVE IInv'
  BY <1>2, ApplyKeeps
<1>3. ASSUME NEW iat \in 0 .. now, Hear(iat) PROVE IInv'
  BY <1>3, HearKeeps
<1>4. ASSUME NEW maxStale \in MaxStales, Agree(maxStale) PROVE IInv'
  BY <1>4, AgreeKeeps
<1>5. ASSUME NEW q \in Reads, AskStatus(q) \/ AnswerStatus(q) \/ LoseStatus(q) \/ TakeStatus(q)
      PROVE  IInv'
  BY <1>5, AskStatusKeeps, AnswerStatusKeeps, LoseStatusKeeps, TakeStatusKeeps
<1>6. CASE HearUpdated \/ Refresh \/ MarkRematerialized \/ Backup \/ Restore \/ CrashInWrite \/ Tick
  BY <1>6, HearUpdatedKeeps, RefreshKeeps, MarkRematerializedKeeps, BackupKeeps,
     RestoreKeeps, CrashInWriteKeeps, TickKeeps
<1>7. CASE UNCHANGED receiverVars
  BY <1>7, RewriteKeeps DEF receiverVars, storeVars, consumerVars
<1> QED BY <1>1, <1>2, <1>3, <1>4, <1>5, <1>6, <1>7 DEF ReceiverNext

\* Relied on, the state is current, latched nothing, and is not tainted.
LEMMA RelianceFollows ==
    ASSUME IInv
    PROVE  LeaseIsMaterialized /\ NeverBehindItself /\ LatchedAcrossStaleness
<1> USE DEF IInv
<1>1. NeverBehindItself
  BY DEF NeverBehindItself, Lease, Current
<1>2. LeaseIsMaterialized
  <2> SUFFICES ASSUME Relied, NEW v \in 1 .. store.version, log[v].narrows
               PROVE  v <= view
    BY DEF LeaseIsMaterialized
  <2>1. ~Recovering /\ store.remat = 0
    BY DEF Relied, Lease, NoVersion
  <2>2. v \in Nat /\ v > 0 /\ view \in Nat
    BY DEF ReceiverTypeOK, Stores
  <2> QED BY <2>1, <2>2 DEF Latched
<1>3. LatchedAcrossStaleness
  BY DEF LatchedAcrossStaleness, Relied, Lease, PushStale, StillTainted
<1> QED BY <1>1, <1>2, <1>3

\* The types, for every bound and every set of states and reads.
THEOREM ReceiverTypeCorrect == ReceiverSpec => []ReceiverTypeOK
<1>1. IInv => ReceiverTypeOK
  BY DEF IInv
<1> QED BY <1>1, InitIInv, StepIInv, PTL DEF ReceiverSpec

\* No lease rests on authority older than a narrowing the version includes.
THEOREM ReliedIsMaterialized == ReceiverSpec => []LeaseIsMaterialized
<1>1. IInv => LeaseIsMaterialized
  BY RelianceFollows
<1> QED BY <1>1, InitIInv, StepIInv, PTL DEF ReceiverSpec

\* No lease reports a version older than one the receiver ever stored.
THEOREM LeaseNeverGoesBack == ReceiverSpec => []NeverBehindItself
<1>1. IInv => NeverBehindItself
  BY RelianceFollows
<1> QED BY <1>1, InitIInv, StepIInv, PTL DEF ReceiverSpec

\* Push state held across staleness is not relied on.
THEOREM StalenessIsLatched == ReceiverSpec => []LatchedAcrossStaleness
<1>1. IInv => LatchedAcrossStaleness
  BY RelianceFollows
<1> QED BY <1>1, InitIInv, StepIInv, PTL DEF ReceiverSpec

-----------------------------------------------------------------------------
(* The stream implements the receiver's network                             *)

\* Every step of the stream is one of the receiver's, or leaves it alone.
LEMMA StepIsReceiverStep ==
    ASSUME [Next]_vars
    PROVE  [ReceiverNext]_receiverVars
<1>1. ASSUME NEW state \in States, NEW narrows \in BOOLEAN, NEW declared \in BOOLEAN,
             CommitVersion(state, narrows, declared)
      PROVE  ReceiverNext
  BY <1>1 DEF CommitVersion, ReceiverNext
<1>2. ASSUME NEW v \in Versions, HandOff(v) \/ Acknowledge(v) \/ FailHandOff(v)
      PROVE  UNCHANGED receiverVars
  BY <1>2 DEF HandOff, Acknowledge, FailHandOff
<1>3. ASSUME NEW v \in Versions, Receive(v)
      PROVE  ReceiverNext
  <2>1. Apply(v) /\ v \in 1 .. Len(log)
    BY <1>3 DEF Receive, Apply
  <2> QED BY <2>1 DEF ReceiverNext
<1>4. ASSUME RequestVerification \/ SignProbe \/ HandProbe \/ DropProbe
             \/ \E acknowledged \in BOOLEAN : EndProbe(acknowledged)
      PROVE  UNCHANGED receiverVars
  BY <1>4 DEF RequestVerification, SignProbe, HandProbe, DropProbe, SetProbe, EndProbe
<1>5. CASE HearProbe
  <2>1. Hear(probe.iat) /\ probe.iat \in 0 .. now
    BY <1>5 DEF HearProbe, Hear
  <2> QED BY <2>1 DEF ReceiverNext
<1>6. CASE AcknowledgeNotice
  BY <1>6 DEF AcknowledgeNotice, ReceiverNext
<1>7. CASE Resume \/ RestartEmitter
  BY <1>7 DEF Resume, RestartEmitter
<1>8. CASE ReceiverStep
  BY <1>8 DEF ReceiverStep, ReceiverNext
<1>9. CASE UNCHANGED vars
  BY <1>9 DEF vars
<1> QED BY <1>1, <1>2, <1>3, <1>4, <1>5, <1>6, <1>7, <1>8, <1>9 DEF Next

\* The stream is a network the receiver's specification allows: what a consumer
\* can rely on does not depend on what the emitter gets right.
THEOREM StreamImplementsReceiver == Spec => ReceiverSpec
<1>1. Init => ReceiverInit
  BY DEF Init
<1> QED BY <1>1, StepIsReceiverStep, PTL DEF Spec, ReceiverSpec

-----------------------------------------------------------------------------
(* The stream's inductive invariant                                         *)

\* A stream that carries events again has at most the notice of its
\* re-enabling out, so that a pause adds a second and no third.
EmitterTypeOK ==
    /\ job \in [Versions -> Undelivered \cup {"none", "done", "withheld"}]
    /\ handed \subseteq Versions
    /\ probe \in [at : {"none", "asked", "signed", "handed"}, iat : Times,
                  requested : BOOLEAN, heard : BOOLEAN]
    /\ status \in {"enabled", "paused"} /\ notices \in 0 .. 2
    /\ status = "enabled" => notices < 2
    /\ {resolvedAt, reenabledAt, pausedAt} \subseteq Times
    /\ reenableAfter \in {Never} \cup Nat

\* The event of v was withheld, or reached the receiver.
Reached(v) == job[v] = "withheld" \/ known >= v

\* An event the receiver processed, acknowledged or not, is in what it stored,
\* and a job is for a version that was committed.
JobsReached ==
    \A v \in Versions :
        /\ job[v] \in {"received", "done"} => known >= v
        /\ v <= Len(log) => job[v] # "none"

\* What is signed, and what the receiver or a copy of its store heard, is of the
\* past, and every event committed before it was reached.
Vouched ==
    /\ \A v \in 1 .. Len(log) : log[v].at <= now
    /\ store.live <= now
    /\ \A v \in 1 .. Len(log) : log[v].at < store.live => Reached(v)
    /\ copy # NoCopy =>
        /\ copy.live <= now
        /\ \A v \in 1 .. Len(log) : log[v].at < copy.live => Reached(v)
    /\ probe.at \in {"signed", "handed"} =>
        /\ probe.iat \in 0 .. now
        /\ \A v \in 1 .. Len(log) : log[v].at < probe.iat => Reached(v)

SInv == IInv /\ EmitterTypeOK /\ JobsReached /\ Vouched

-----------------------------------------------------------------------------
(* Steps                                                                    *)

\* The ranges the arithmetic below needs.
LEMMA Ranges ==
    ASSUME IInv
    PROVE  /\ now \in Nat /\ known \in Nat /\ Len(log) \in Nat
           /\ MaxTime \in Nat /\ MaxCommits \in Nat /\ now <= MaxTime
           /\ Len(log) <= MaxCommits /\ 1 .. Len(log) \subseteq Versions
           /\ \A v \in 1 .. Len(log) : log[v] \in Commits /\ log[v].at \in Nat
           /\ store \in Stores /\ store.version \in Nat /\ store.live \in Int
           /\ copy # NoCopy => copy \in Stores /\ copy.live \in Int
<1> USE ConstantTypes
<1>1. ReceiverTypeOK
  BY DEF IInv
<1>2. /\ now \in Nat /\ known \in Nat /\ Len(log) \in Nat
      /\ MaxTime \in Nat /\ MaxCommits \in Nat /\ now <= MaxTime /\ Len(log) <= MaxCommits
      /\ store \in Stores /\ (copy # NoCopy => copy \in Stores)
  BY <1>1 DEF ReceiverTypeOK
<1>3. \A v \in 1 .. Len(log) : log[v] \in Commits /\ log[v].at \in Nat
  BY <1>1, LogType DEF Commits
<1>4. \A s \in Stores : s.version \in Nat /\ s.live \in Int
  BY DEF Stores, Never
<1> QED BY <1>2, <1>3, <1>4 DEF Versions

\* The highest version stored never falls.
LEMMA WriteGrows ==
    ASSUME IInv, NEW s, s.version \in Nat, Write(s)
    PROVE  known' >= known /\ known' >= s.version
  BY Ranges DEF Write, AtLeast

\* A step of the emitter alone keeps what was reached, if no job that was
\* withheld or received is lost.
LEMMA EmitterKeeps ==
    ASSUME SInv, UNCHANGED receiverVars, EmitterTypeOK', JobsReached',
           \A v \in Versions : job[v] = "withheld" => job'[v] = "withheld",
           probe'.at \in {"signed", "handed"} =>
                \/ probe.at \in {"signed", "handed"} /\ probe'.iat = probe.iat
                \/ ~LivenessBlocked /\ probe'.iat = now
    PROVE  SInv'
<1> USE DEF SInv
<1>1. IInv'
  BY StepIInv
<1>2. now' = now /\ log' = log /\ store' = store /\ copy' = copy /\ known' = known
  BY DEF receiverVars, storeVars
<1>3. \A v \in 1 .. Len(log) : Reached(v) => Reached(v)'
  BY <1>2, Ranges DEF Reached
<1>4. ~LivenessBlocked => \A v \in 1 .. Len(log) : Reached(v)
  <2> SUFFICES ASSUME ~LivenessBlocked, NEW v \in 1 .. Len(log)
               PROVE  Reached(v)
    OBVIOUS
  <2>1. v \in Versions /\ v <= Len(log)
    BY Ranges
  <2>2. job[v] \in {"done", "withheld"}
    BY <2>1 DEF LivenessBlocked, JobsReached, EmitterTypeOK
  <2> QED BY <2>1, <2>2 DEF JobsReached, Reached
<1>5. Vouched'
  BY <1>2, <1>3, <1>4, Ranges DEF Vouched
<1> QED BY <1>1, <1>5

\* A step of the receiver alone, which neither commits nor hears: what it heard
\* is what it or its copy heard before.
LEMMA ReceiverKeeps ==
    ASSUME SInv, IInv', job' = job, probe' = probe, EmitterTypeOK',
           log' = log, now' >= now, known' >= known,
           store'.live = store.live \/ (copy # NoCopy /\ store'.live = copy.live),
           copy' = copy \/ copy' = store
    PROVE  SInv'
<1> USE DEF SInv
<1>2. now' \in Nat /\ known' \in Nat
  BY ConstantTypes DEF IInv, ReceiverTypeOK
<1>3. JobsReached'
  BY <1>2, Ranges DEF JobsReached, Versions
<1>4. \A v \in 1 .. Len(log) : Reached(v) => Reached(v)'
  BY <1>2, Ranges DEF Reached
<1>5. Vouched'
  <2>1. /\ \A v \in 1 .. Len(log') : log'[v].at <= now'
        /\ store'.live <= now'
        /\ \A v \in 1 .. Len(log') : log'[v].at < store'.live => Reached(v)'
    BY <1>2, <1>4, Ranges DEF Vouched
  <2>2. copy' # NoCopy =>
            /\ copy'.live <= now'
            /\ \A v \in 1 .. Len(log') : log'[v].at < copy'.live => Reached(v)'
    BY <1>2, <1>4, Ranges DEF Vouched
  <2>3. probe'.at \in {"signed", "handed"} =>
            /\ probe'.iat \in 0 .. now'
            /\ \A v \in 1 .. Len(log') : log'[v].at < probe'.iat => Reached(v)'
    BY <1>2, <1>4, Ranges DEF Vouched
  <2> QED BY <2>1, <2>2, <2>3 DEF Vouched
<1> QED BY <1>3, <1>5


\* The window is an instant.
LEMMA WindowType ==
    ASSUME IInv
    PROVE  Window \in Nat
<1>1. store \in Stores
  BY Ranges
<1>2. store.maxStale \in Nat
  <2>1. store.maxStale \in MaxStales
    BY ONLY <1>1 DEF Stores
  <2> QED BY ONLY <2>1, ConstantTypes
<1>3. Heartbeat \in Nat /\ Tolerance \in Nat
  BY ConstantTypes, ToleranceAssumption
<1> QED BY ONLY <1>2, <1>3 DEF Window, AtLeast

LEMMA CommitVersionKeeps ==
    ASSUME SInv, NEW state \in States, NEW narrows \in BOOLEAN, NEW declared \in BOOLEAN,
           CommitVersion(state, narrows, declared)
    PROVE  SInv'
<1> USE DEF SInv
<1> DEFINE v == Len(log) + 1
<1>1. IInv'
  BY StepIInv DEF CommitVersion, ReceiverNext
<1>2. /\ log' = Append(log, [state |-> state, narrows |-> narrows, at |-> now])
      /\ Len(log) < MaxCommits
      /\ now' = now /\ store' = store /\ copy' = copy /\ known' = known
      /\ probe' = probe /\ handed' = handed
      /\ resolvedAt' = resolvedAt /\ reenabledAt' = reenabledAt
  BY DEF CommitVersion, Commit, storeVars
<1>3. v \in Versions /\ log \in Seq(Commits)
  BY <1>2, Ranges DEF Versions, IInv, ReceiverTypeOK
<1>4. /\ Len(log') = v
      /\ \A w \in 1 .. Len(log) : log'[w] = log[w]
      /\ log'[v].at = now
  BY <1>2, <1>3, Ranges
<1>5. job' = [job EXCEPT ![v] = "pending"] \/ job' = [job EXCEPT ![v] = "withheld"]
  BY DEF CommitVersion
<1>6. EmitterTypeOK'
  <2>1. CASE UNCHANGED <<status, notices, reenableAfter, pausedAt>>
    BY <1>2, <1>5, <2>1 DEF EmitterTypeOK, Undelivered
  <2>2. CASE PauseStream
    <3>1. Window \in Nat
      BY WindowType
    <3>2. PauseBase \in Nat
      BY Ranges DEF PauseBase, EmitterTypeOK, Times, Never
    <3>3. reenableAfter' \in Nat
      BY <2>2, <3>1, <3>2 DEF PauseStream, AtLeast, EmitterTypeOK, Never
    <3>4. pausedAt' \in Times /\ notices' \in 0 .. 2 /\ status' = "paused"
      BY <2>2, Ranges DEF PauseStream, EmitterTypeOK, Times
    <3> QED BY <1>2, <1>5, <3>3, <3>4 DEF EmitterTypeOK, Undelivered
  <2> QED BY <2>1, <2>2 DEF CommitVersion
<1>7. JobsReached'
  BY <1>2, <1>3, <1>4, <1>5, Ranges DEF JobsReached, Versions, EmitterTypeOK
<1>8. \A w \in 1 .. Len(log) : Reached(w) => Reached(w)'
  BY <1>2, <1>3, <1>5, Ranges DEF Reached, Versions, EmitterTypeOK
<1>9. Vouched'
  <2>1. \A w \in 1 .. Len(log') : w \in 1 .. Len(log) \/ log'[w].at = now
    BY <1>4, Ranges
  <2> QED BY <1>2, <1>4, <1>8, <2>1, Ranges DEF Vouched
<1> QED BY <1>1, <1>6, <1>7, <1>9

\* Processed, in order or not, the event is in what the receiver stored, unless
\* the Mission is held after a restore and the event not acknowledged.
LEMMA ReceiveKeeps ==
    ASSUME SInv, NEW v \in Versions, Receive(v)
    PROVE  SInv'
<1> USE DEF SInv
<1>1. IInv'
  <2>1. Apply(v) /\ v \in 1 .. Len(log)
    BY DEF Receive, Apply
  <2> QED BY <2>1, StepIInv DEF ReceiverNext
<1>2. /\ now' = now /\ log' = log /\ copy' = copy /\ probe' = probe /\ handed' = handed
      /\ status' = status /\ notices' = notices /\ pausedAt' = pausedAt
      /\ resolvedAt' = resolvedAt /\ reenabledAt' = reenabledAt
      /\ reenableAfter' = reenableAfter /\ v \in 1 .. Len(log)
      /\ job' = IF job[v] = "handed" /\ ~Recovering
                THEN [job EXCEPT ![v] = "received"] ELSE job
  BY DEF Receive, Apply, Write, storeVars
<1>3. /\ known' >= known /\ store'.live = store.live
      /\ ~Recovering => known' >= v
  <2> USE Ranges
  <2> DEFINE s == [store EXCEPT
                !.version = v, !.state = log[v].state, !.source = "signal",
                !.until = Reliance(log[v]),
                !.gapped = @ \/ v > store.version + 1,
                !.remat = Remat(v), !.lineage = Lineage]
  <2>1. CASE ~Recovering /\ Newer(v) /\ Write(s)
    <3>1. s.version = v /\ s.live = store.live /\ v \in Nat
      BY <1>2 DEF Stores
    <3>2. store' = s
      BY <2>1 DEF Write
    <3> HIDE DEF s
    <3> QED BY <2>1, <3>1, <3>2, WriteGrows
  <2>2. CASE ~Recovering /\ ~Newer(v) /\ Write(store)
    <3>1. store' = store /\ ~(v > store.version) /\ v \in Nat
      BY <1>2, <2>2 DEF Write, Newer
    <3>2. known' >= known /\ known' >= store.version
      BY <2>2, WriteGrows
    <3>3. known' \in Nat
      BY <1>1, ConstantTypes DEF IInv, ReceiverTypeOK
    <3> QED BY <3>1, <3>2, <3>3
  <2>3. CASE Recovering /\ UNCHANGED storeVars
    BY <2>3 DEF storeVars
  <2>4. \/ ~Recovering /\ Newer(v) /\ Write(s)
        \/ ~Recovering /\ ~Newer(v) /\ Write(store)
        \/ Recovering /\ UNCHANGED storeVars
    BY Zenon DEF Receive, Apply
  <2> HIDE DEF s
  <2> QED BY <2>1, <2>2, <2>3, <2>4, Zenon
<1>4. EmitterTypeOK'
  BY <1>2 DEF EmitterTypeOK, Undelivered
<1>5. known' \in Nat
  BY <1>1, ConstantTypes DEF IInv, ReceiverTypeOK
<1>6. JobsReached'
  BY <1>2, <1>3, <1>5, Ranges DEF JobsReached, Versions, EmitterTypeOK
<1>7. \A w \in 1 .. Len(log) : Reached(w) => Reached(w)'
  BY <1>2, <1>3, <1>5, Ranges DEF Reached, Versions, EmitterTypeOK
<1>8. Vouched'
  BY <1>2, <1>3, <1>7, Ranges DEF Vouched
<1> QED BY <1>1, <1>4, <1>6, <1>8

\* What the event attests was reached when it was signed.
LEMMA HearProbeKeeps ==
    ASSUME SInv, HearProbe
    PROVE  SInv'
<1> USE DEF SInv
<1>1. Hear(probe.iat) /\ probe.iat \in 0 .. now
  BY DEF HearProbe, Hear
<1>2. IInv'
  BY <1>1, StepIInv DEF ReceiverNext
<1>3. /\ now' = now /\ log' = log /\ copy' = copy /\ job' = job /\ handed' = handed
      /\ probe' = [probe EXCEPT !.heard = TRUE] /\ probe.at = "handed"
      /\ status' = status /\ notices' = notices /\ pausedAt' = pausedAt
      /\ resolvedAt' = resolvedAt /\ reenabledAt' = reenabledAt
      /\ reenableAfter' = reenableAfter
  BY <1>1 DEF HearProbe, Hear, Write
<1>4. known' >= known /\ store'.live = AtLeast(store.live, probe.iat)
  <2> DEFINE s == [store EXCEPT
            !.live = AtLeast(@, probe.iat),
            !.generation = IF StreamStale THEN @ + 1 ELSE @,
            !.staleHeld = FALSE]
  <2>1. Write(s)
    BY <1>1 DEF Hear
  <2>2. s.version = store.version /\ s.live = AtLeast(store.live, probe.iat)
    BY Ranges DEF Stores
  <2>3. store' = s
    BY <2>1 DEF Write
  <2> HIDE DEF s
  <2> QED BY <2>1, <2>2, <2>3, Ranges, WriteGrows
<1>5. EmitterTypeOK'
  BY <1>3 DEF EmitterTypeOK
<1>6. known' \in Nat
  BY <1>2, ConstantTypes DEF IInv, ReceiverTypeOK
<1>7. JobsReached'
  BY <1>3, <1>4, <1>6, Ranges DEF JobsReached, Versions, EmitterTypeOK
<1>8. \A w \in 1 .. Len(log) : Reached(w) => Reached(w)'
  BY <1>3, <1>4, <1>6, Ranges DEF Reached
<1>9. store'.live = store.live \/ store'.live = probe.iat
  BY <1>4 DEF AtLeast
<1>10. probe'.at = "handed" /\ probe'.iat = probe.iat
  BY <1>3 DEF EmitterTypeOK
<1>11. Vouched'
  BY <1>1, <1>3, <1>8, <1>9, <1>10, Ranges DEF Vouched
<1> QED BY <1>2, <1>5, <1>7, <1>11

\* A job handed off, acknowledged or to be retried.
LEMMA JobStepKeeps ==
    ASSUME SInv, NEW v \in Versions, HandOff(v) \/ Acknowledge(v) \/ FailHandOff(v)
    PROVE  SInv'
<1> USE DEF SInv
<1>1. /\ UNCHANGED <<receiverVars, probe, status, notices, resolvedAt, reenabledAt,
                     reenableAfter, pausedAt>>
      /\ handed' \subseteq Versions
      /\ \/ job[v] = "pending" /\ job' = [job EXCEPT ![v] = "handed"]
         \/ job[v] = "received" /\ job' = [job EXCEPT ![v] = "done"]
         \/ job[v] \in {"handed", "received"} /\ job' = [job EXCEPT ![v] = "pending"]
  BY DEF HandOff, Acknowledge, FailHandOff, EmitterTypeOK
<1>2. EmitterTypeOK'
  BY <1>1 DEF EmitterTypeOK, Undelivered
<1>3. known' = known /\ log' = log
  BY <1>1 DEF receiverVars, storeVars
<1>4. JobsReached'
  BY <1>1, <1>3 DEF JobsReached, EmitterTypeOK
<1>5. \A w \in Versions : job[w] = "withheld" => job'[w] = "withheld"
  BY <1>1 DEF EmitterTypeOK
<1> QED BY <1>1, <1>2, <1>4, <1>5, EmitterKeeps

\* No verification event is one of nothing.
LEMMA NoProbeType ==
    /\ NoProbe \in [at : {"none", "asked", "signed", "handed"}, iat : Times,
                    requested : BOOLEAN, heard : BOOLEAN]
    /\ NoProbe.at = "none"
  BY DEF NoProbe, Times, Never

\* A verification event asked for, signed, handed off or dropped.
LEMMA ProbeStepKeeps ==
    ASSUME SInv, RequestVerification \/ SignProbe \/ HandProbe \/ DropProbe
    PROVE  SInv'
<1> USE DEF SInv
<1>1. /\ UNCHANGED <<receiverVars, job, handed, status, notices,
                     resolvedAt, reenabledAt, reenableAfter, pausedAt>>
      /\ \/ probe' = NoProbe
         \/ probe' = [NoProbe EXCEPT !.at = "asked", !.requested = TRUE]
         \/ ~LivenessBlocked /\ probe' = [probe EXCEPT !.at = "signed", !.iat = now]
         \/ probe.at = "signed" /\ probe' = [probe EXCEPT !.at = "handed"]
  BY DEF RequestVerification, SignProbe, HandProbe, DropProbe, SetProbe
<1>2. NoProbe \in [at : {"none", "asked", "signed", "handed"}, iat : Times,
                   requested : BOOLEAN, heard : BOOLEAN]
  BY NoProbeType
<1>3. now \in Times
  BY Ranges DEF Times
<1>4. probe' \in [at : {"none", "asked", "signed", "handed"}, iat : Times,
                  requested : BOOLEAN, heard : BOOLEAN]
  BY <1>1, <1>2, <1>3 DEF EmitterTypeOK
<1>5. EmitterTypeOK'
  BY <1>1, <1>4 DEF EmitterTypeOK
<1>6. JobsReached'
  BY <1>1 DEF JobsReached, receiverVars, storeVars
<1>7. probe'.at \in {"signed", "handed"} =>
        \/ probe.at \in {"signed", "handed"} /\ probe'.iat = probe.iat
        \/ ~LivenessBlocked /\ probe'.iat = now
  <2>1. CASE probe' = NoProbe
    BY <2>1, NoProbeType
  <2>2. CASE probe' = [NoProbe EXCEPT !.at = "asked", !.requested = TRUE]
    BY <2>2, NoProbeType
  <2>3. CASE ~LivenessBlocked /\ probe' = [probe EXCEPT !.at = "signed", !.iat = now]
    BY <2>3 DEF EmitterTypeOK
  <2>4. CASE probe.at = "signed" /\ probe' = [probe EXCEPT !.at = "handed"]
    BY <2>4 DEF EmitterTypeOK
  <2> QED BY <1>1, <2>1, <2>2, <2>3, <2>4
<1> QED BY <1>1, <1>5, <1>6, <1>7, EmitterKeeps

\* An attempt that ends now, acknowledged or not.
LEMMA EndAttemptType ==
    ASSUME SInv, NEW acknowledged \in BOOLEAN, EndAttempt(acknowledged)
    PROVE  resolvedAt' \in Times /\ reenableAfter' \in {Never} \cup Nat
<1> USE DEF SInv
<1>1. Window \in Nat /\ now \in Nat /\ now \in 0 .. MaxTime
  BY WindowType, Ranges
<1>2. reenableAfter \in {Never} \cup Nat
  BY DEF EmitterTypeOK
<1> QED BY <1>1, <1>2 DEF EndAttempt, AtLeast, Times, Never

LEMMA EndProbeKeeps ==
    ASSUME SInv, NEW acknowledged \in BOOLEAN, EndProbe(acknowledged)
    PROVE  SInv'
<1> USE DEF SInv
<1>1. /\ UNCHANGED <<receiverVars, job, handed, status, notices, reenabledAt, pausedAt>>
      /\ EndAttempt(acknowledged) /\ probe.at = "handed"
      /\ probe' = NoProbe \/ probe' = [probe EXCEPT !.at = "signed"]
  BY DEF EndProbe
<1>2. resolvedAt' \in Times /\ reenableAfter' \in {Never} \cup Nat
  BY <1>1, EndAttemptType
<1>3. probe' \in [at : {"none", "asked", "signed", "handed"}, iat : Times,
                  requested : BOOLEAN, heard : BOOLEAN]
  BY <1>1, NoProbeType DEF EmitterTypeOK
<1>4. EmitterTypeOK'
  BY <1>1, <1>2, <1>3 DEF EmitterTypeOK
<1>5. JobsReached'
  BY <1>1 DEF JobsReached, receiverVars, storeVars
<1>6. probe'.at \in {"signed", "handed"} => probe'.iat = probe.iat
  BY <1>1, NoProbeType DEF EmitterTypeOK
<1> QED BY <1>1, <1>4, <1>5, <1>6, EmitterKeeps

LEMMA ResumeKeeps ==
    ASSUME SInv, Resume
    PROVE  SInv'
<1> USE DEF SInv
<1>1. /\ UNCHANGED <<receiverVars, job, handed, probe, resolvedAt, pausedAt>>
      /\ status' = "enabled" /\ notices' = 1
      /\ reenabledAt' = now /\ reenableAfter' = Never
  BY DEF Resume
<1>2. now \in Times
  BY Ranges DEF Times
<1>3. EmitterTypeOK'
  BY <1>1, <1>2 DEF EmitterTypeOK
<1>4. JobsReached'
  BY <1>1 DEF JobsReached, receiverVars, storeVars
<1> QED BY <1>1, <1>3, <1>4, EmitterKeeps

LEMMA RestartEmitterKeeps ==
    ASSUME SInv, RestartEmitter
    PROVE  SInv'
<1> USE DEF SInv
<1>1. /\ UNCHANGED <<receiverVars, handed, status, notices, reenabledAt, pausedAt>>
      /\ job' = [v \in Versions |->
                    IF job[v] \in {"handed", "received"} THEN "pending" ELSE job[v]]
      /\ \/ probe' = NoProbe
         \/ probe' = probe
         \/ probe.at = "handed" /\ probe' = [probe EXCEPT !.at = "signed"]
  <2>1. \/ probe' = NoProbe
        \/ probe' = probe
        \/ probe.at = "handed" /\ probe' = [probe EXCEPT !.at = "signed"]
    <3>1. probe' = IF ~probe.requested THEN NoProbe
                   ELSE IF probe.at = "handed" THEN [probe EXCEPT !.at = "signed"] ELSE probe
      BY Zenon DEF RestartEmitter
    <3>2. CASE probe.requested = TRUE /\ probe.at = "handed"
      BY <3>1, <3>2, Zenon
    <3>3. CASE probe.requested = TRUE /\ probe.at # "handed"
      BY <3>1, <3>3, Zenon
    <3>4. CASE probe.requested = FALSE
      BY <3>1, <3>4, Zenon
    <3>5. probe.requested \in BOOLEAN
      BY DEF EmitterTypeOK
    <3> QED BY <3>2, <3>3, <3>4, <3>5
  <2> QED BY <2>1 DEF RestartEmitter
<1>2. resolvedAt' \in Times /\ reenableAfter' \in {Never} \cup Nat
  BY EndAttemptType DEF RestartEmitter, EmitterTypeOK
<1>3. probe' \in [at : {"none", "asked", "signed", "handed"}, iat : Times,
                  requested : BOOLEAN, heard : BOOLEAN]
  BY <1>1, NoProbeType DEF EmitterTypeOK
<1>4. EmitterTypeOK'
  BY <1>1, <1>2, <1>3 DEF EmitterTypeOK, Undelivered
<1>5. JobsReached'
  BY <1>1 DEF JobsReached, receiverVars, storeVars
<1>6. probe'.at \in {"signed", "handed"} =>
        probe.at \in {"signed", "handed"} /\ probe'.iat = probe.iat
  BY <1>1, NoProbeType DEF EmitterTypeOK
<1>7. \A w \in Versions : job[w] = "withheld" => job'[w] = "withheld"
  BY <1>1
<1> QED BY <1>1, <1>4, <1>5, <1>6, <1>7, EmitterKeeps

LEMMA AcknowledgeNoticeKeeps ==
    ASSUME SInv, AcknowledgeNotice
    PROVE  SInv'
<1> USE DEF SInv
<1>1. IInv'
  BY StepIInv DEF AcknowledgeNotice, ReceiverNext
<1>2. /\ UNCHANGED <<job, handed, probe, status, resolvedAt, reenabledAt, reenableAfter, pausedAt>>
      /\ notices > 0 /\ notices' = notices - 1
      /\ log' = log /\ now' = now /\ store' = store /\ copy' = copy /\ Write(store)
  BY DEF AcknowledgeNotice, HearUpdated, Write
<1>3. EmitterTypeOK'
  BY <1>2 DEF EmitterTypeOK
<1>4. known' >= known
  BY <1>2, Ranges, WriteGrows
<1>5. now' >= now
  BY <1>2, Ranges
<1> QED BY <1>1, <1>2, <1>3, <1>4, <1>5, ReceiverKeeps

\* A write that leaves the version, or raises it, and the last attested instant.
LEMMA WriteOfReceiver ==
    ASSUME SInv, NEW s, s.version \in Nat, s.live = store.live, Write(s)
    PROVE  known' >= known /\ store'.live = store.live /\ copy' = copy
<1> USE DEF SInv
<1>1. store' = s /\ copy' = copy
  BY DEF Write
<1> QED BY <1>1, WriteGrows

LEMMA ReceiverStepKeeps ==
    ASSUME SInv, ReceiverStep
    PROVE  SInv'
<1> USE DEF SInv
<1>1. IInv'
  BY StepIInv DEF ReceiverStep, ReceiverNext
<1>2. job' = job /\ probe' = probe /\ EmitterTypeOK'
  BY DEF ReceiverStep, emitterVars, EmitterTypeOK
<1> DEFINE Kept ==
        /\ log' = log /\ now' >= now /\ known' >= known
        /\ store'.live = store.live \/ (copy # NoCopy /\ store'.live = copy.live)
        /\ copy' = copy \/ copy' = store
<1>3. ASSUME NEW m \in MaxStales, Agree(m)
      PROVE  Kept
  <2> DEFINE s == [store EXCEPT !.maxStale = m, !.generation = @ + 1, !.staleHeld = StreamStale]
  <2>1. Write(s) /\ log' = log /\ now' = now
    BY <1>3 DEF Agree
  <2>2. s.version = store.version /\ s.live = store.live
    BY Ranges DEF Stores
  <2> HIDE DEF s
  <2> QED BY <2>1, <2>2, Ranges, WriteOfReceiver
<1>4. ASSUME NEW q \in Reads, AskStatus(q)
      PROVE  Kept
  <2> DEFINE s == [store EXCEPT !.nonce[q] = store.recovery]
  <2>1. Write(s) /\ log' = log /\ now' = now
    BY <1>4 DEF AskStatus
  <2>2. s.version = store.version /\ s.live = store.live
    BY Ranges DEF Stores
  <2> HIDE DEF s
  <2> QED BY <2>1, <2>2, Ranges, WriteOfReceiver
<1>5. ASSUME NEW q \in Reads, AnswerStatus(q) \/ LoseStatus(q)
      PROVE  Kept
  BY <1>5, Ranges DEF AnswerStatus, LoseStatus, storeVars
<1>6. ASSUME NEW q \in Reads, TakeStatus(q)
      PROVE  Kept
  <2> DEFINE m == reads[q]
             s == [store EXCEPT
                !.version = m.version, !.state = m.state, !.source = "status",
                !.until = StatusReliance(m), !.gapped = FALSE,
                !.remat = IF Latches(m) THEN m.version ELSE @,
                !.lineage = store.generation,
                !.released = IF Recovering THEN store.recovery ELSE @,
                !.nonce = [p \in Reads |-> Never]]
  <2>1. Write(s) \/ UNCHANGED storeVars
    BY <1>6 DEF TakeStatus
  <2>2. log' = log /\ now' = now
    BY <1>6 DEF TakeStatus
  <2>3. m.version \in Nat
    BY ConstantTypes DEF IInv, ReceiverTypeOK
  <2>4. s.version = m.version /\ s.live = store.live
    BY Ranges DEF Stores
  <2> HIDE DEF s, m
  <2>5. CASE Write(s)
    BY <2>2, <2>3, <2>4, <2>5, Ranges, WriteOfReceiver
  <2>6. CASE UNCHANGED storeVars
    BY <2>2, <2>6, Ranges DEF storeVars
  <2> QED BY <2>1, <2>5, <2>6
<1>7. ASSUME Refresh \/ MarkRematerialized \/ Backup \/ Restore \/ CrashInWrite \/ Tick
      PROVE  Kept
  <2>1. CASE Refresh \/ Backup \/ Tick
    BY <2>1, Ranges DEF Refresh, Backup, Tick, storeVars
  <2>2. CASE MarkRematerialized
    <3>1. store'.live = store.live
      BY <2>2, Ranges DEF MarkRematerialized, Stores
    <3> QED BY <2>2, <3>1, Ranges DEF MarkRematerialized
  <2>3. CASE Restore
    <3>1. copy # NoCopy /\ store'.live = copy.live
      BY <2>3, Ranges DEF Restore, Admitted, Stores
    <3> QED BY <2>3, <3>1, Ranges DEF Restore
  <2>4. CASE CrashInWrite
    <3>1. store'.live = store.live
      BY <2>4, Ranges DEF CrashInWrite, Admitted, Stores
    <3> QED BY <2>4, <3>1, Ranges DEF CrashInWrite
  <2> QED BY <1>7, <2>1, <2>2, <2>3, <2>4
<1>8. Kept
  BY <1>3, <1>4, <1>5, <1>6, <1>7 DEF ReceiverStep
<1> QED BY <1>1, <1>2, <1>8, ReceiverKeeps

-----------------------------------------------------------------------------
(* The stream's promises                                                    *)

\* No job, no probe, nothing committed.
THEOREM InitSInv == Init => SInv
<1> SUFFICES ASSUME Init PROVE SInv
  OBVIOUS
<1>1. IInv
  BY InitIInv DEF Init
<1>2. EmitterTypeOK
  BY DEF Init, EmitterTypeOK, NoProbe, Times, Never
<1>3. log = <<>> /\ now = 0 /\ store.live = Never /\ copy = NoCopy /\ probe.at = "none"
  BY DEF Init, ReceiverInit, NewStore, NoProbe
<1>4. JobsReached
  BY <1>3 DEF JobsReached, Init, Versions
<1>5. Vouched
  BY <1>3 DEF Vouched, Never
<1> QED BY <1>1, <1>2, <1>4, <1>5 DEF SInv

\* One case for each action of the stream.
THEOREM StepSInv == SInv /\ [Next]_vars => SInv'
<1> SUFFICES ASSUME SInv, [Next]_vars PROVE SInv'
  OBVIOUS
<1>1. ASSUME NEW state \in States, NEW narrows \in BOOLEAN, NEW declared \in BOOLEAN,
             CommitVersion(state, narrows, declared)
      PROVE  SInv'
  BY <1>1, CommitVersionKeeps
<1>2. ASSUME NEW v \in Versions, HandOff(v) \/ Receive(v) \/ Acknowledge(v) \/ FailHandOff(v)
      PROVE  SInv'
  BY <1>2, JobStepKeeps, ReceiveKeeps
<1>3. ASSUME NEW acknowledged \in BOOLEAN, EndProbe(acknowledged)
      PROVE  SInv'
  BY <1>3, EndProbeKeeps
<1>4. CASE RequestVerification \/ SignProbe \/ HandProbe \/ DropProbe \/ HearProbe
  BY <1>4, ProbeStepKeeps, HearProbeKeeps
<1>5. CASE AcknowledgeNotice \/ Resume \/ RestartEmitter \/ ReceiverStep
  BY <1>5, AcknowledgeNoticeKeeps, ResumeKeeps, RestartEmitterKeeps, ReceiverStepKeeps
<1>6. CASE UNCHANGED vars
  <2>1. /\ UNCHANGED receiverVars /\ job' = job /\ probe' = probe /\ EmitterTypeOK' /\ JobsReached'
    BY <1>6 DEF vars, emitterVars, receiverVars, storeVars, SInv, EmitterTypeOK, JobsReached
  <2> QED BY <2>1, EmitterKeeps
<1> QED BY <1>1, <1>2, <1>3, <1>4, <1>5, <1>6 DEF Next

\* The types of both sides.
THEOREM StreamTypeCorrect == Spec => []TypeOK
<1>1. SInv => TypeOK
  BY DEF SInv, IInv, EmitterTypeOK, TypeOK
<1> QED BY <1>1, InitSInv, StepSInv, PTL DEF Spec

\* What the receiver takes for attested has reached it or was withheld: the
\* emitter's checks before and after it signs are enough, whatever is
\* overtaken, retried, or lost with the process.
THEOREM AttestationIsTrue == Spec => []AttestedIsDelivered
<1>1. SInv => AttestedIsDelivered
  <2> SUFFICES ASSUME SInv, NEW v \in 1 .. Len(log), log[v].at < store.live,
                      job[v] # "withheld", ~Recovering
               PROVE  store.version >= v
    BY DEF AttestedIsDelivered
  <2>1. known >= v
    BY DEF SInv, Vouched, Reached
  <2>2. store.version = known
    BY DEF SInv, IInv, Current
  <2> QED BY <2>1, <2>2
<1> QED BY <1>1, InitSInv, StepSInv, PTL DEF Spec

\* What the receiver promises of its leases it keeps over the stream.
THEOREM StreamLeases ==
    Spec => [](LeaseIsMaterialized /\ NeverBehindItself /\ LatchedAcrossStaleness)
<1>1. SInv => LeaseIsMaterialized /\ NeverBehindItself /\ LatchedAcrossStaleness
  BY RelianceFollows DEF SInv
<1> QED BY <1>1, InitSInv, StepSInv, PTL DEF Spec

-----------------------------------------------------------------------------
(* Pauses                                                                   *)

\* The receiver keeps the agreement it opened with. (A longer staleness limit
\* agreed during a pause would outlast it.)
OneAgreement == \A s, t \in MaxStales : s = t

\* What the receiver heard last, it heard by the end of the latest attempt; a
\* pause outlasts the window from there.
Timed ==
    /\ resolvedAt <= now
    /\ probe.at # "handed" =>
        store.live <= resolvedAt /\ (copy # NoCopy => copy.live <= resolvedAt)
    /\ status = "paused" => reenableAfter >= AtLeast(resolvedAt, 0) + Window

\* A narrowing withheld during a pause extends it.
Extended(v) ==
    \/ log[v].at <= pausedAt
    \/ status = "paused" /\ reenableAfter >= log[v].at + Window
    \/ status = "enabled" /\ now >= log[v].at + Window

Withholdings ==
    \A v \in Versions :
        /\ job[v] # "none" \/ v \in handed => v <= Len(log)
        /\ job[v] = "withheld" => v \notin handed /\ Extended(v)

\* A Mission Status response is of before the commits it does not report.
DatedStore(s) ==
    s.source = "status" =>
        /\ s.until <= now + StatusTtl
        /\ \A v \in s.version + 1 .. Len(log) : s.until <= log[v].at + StatusTtl

Dated ==
    /\ DatedStore(store)
    /\ copy # NoCopy => DatedStore(copy)
    /\ \A q \in Reads : reads[q].at = "answered" =>
        /\ reads[q].iat <= now
        /\ \A v \in reads[q].version + 1 .. Len(log) : reads[q].iat <= log[v].at

\* No event older than v is still to come.
Before(v) == \A u \in 1 .. v - 1 : Reached(u)

\* Nothing has been heard for longer than the window.
Quiet(s) == now - AtLeast(s.live, 0) > AtLeast(s.maxStale, Heartbeat)

\* What is held is not push state older than v that a heartbeat could renew.
Outdated(v) ==
    \/ Recovering \/ store.version >= v \/ store.version = NoVersion
    \/ store.source = "status" \/ store.lineage < store.generation

\* Since the pause that followed v: either nothing was heard, and the stream is
\* stale, or all that is older had arrived by the first heartbeat, which made it
\* state of an earlier generation.
Settled(v) ==
    \/ Quiet(store) /\ (copy # NoCopy => Quiet(copy))
    \/ Before(v) /\ Outdated(v)

Resumed ==
    status = "enabled" => \A v \in Versions : job[v] = "withheld" =>
        /\ Settled(v)
        /\ probe.at = "handed" => Before(v)

PInv == SInv /\ Timed /\ Withholdings /\ Dated /\ Resumed

\* With one agreement there is one window, and it covers every bound in it.
LEMMA WindowKept ==
    ASSUME OneAgreement, IInv, IInv'
    PROVE  /\ store'.maxStale = store.maxStale /\ Window' = Window
           /\ Window \in Nat /\ Heartbeat \in Nat /\ StatusTtl \in Nat
           /\ store.maxStale \in Nat /\ store.maxStale \in MaxStales
           /\ StatusTtl <= Window /\ AtLeast(store.maxStale, Heartbeat) <= Window
<1>1. store \in Stores /\ store' \in Stores
  BY DEF IInv, ReceiverTypeOK
<1>2. store.maxStale \in MaxStales /\ store'.maxStale \in MaxStales
  BY ONLY <1>1 DEF Stores
<1>3. store'.maxStale = store.maxStale
  BY <1>2 DEF OneAgreement
<1>4. store.maxStale \in Nat /\ Heartbeat \in Nat /\ StatusTtl \in Nat /\ Tolerance \in Nat
      /\ StatusTtl <= store.maxStale
  BY <1>2, ConstantTypes, ToleranceAssumption, StatusCapAssumption
<1>5. Window = AtLeast(store.maxStale, Heartbeat) + Tolerance
      /\ Window' = AtLeast(store'.maxStale, Heartbeat) + Tolerance
  BY DEF Window
<1> QED BY ONLY <1>2, <1>3, <1>4, <1>5 DEF AtLeast

\* The same agreement in the copy.
LEMMA CopyAgreement ==
    ASSUME OneAgreement, IInv, copy # NoCopy
    PROVE  copy.maxStale = store.maxStale
<1>1. store \in Stores /\ copy \in Stores
  BY DEF IInv, ReceiverTypeOK
<1>2. store.maxStale \in MaxStales /\ copy.maxStale \in MaxStales
  BY ONLY <1>1 DEF Stores
<1> QED BY <1>2 DEF OneAgreement

\* The numbers of the emitter.
LEMMA EmitterRanges ==
    ASSUME SInv
    PROVE  /\ resolvedAt \in Int /\ resolvedAt >= -1 /\ pausedAt \in Int
           /\ reenabledAt \in Int /\ reenableAfter \in Int
           /\ now \in Nat /\ Len(log) \in Nat
           /\ \A v \in 1 .. Len(log) : log[v].at \in Nat /\ log[v].at <= now
           /\ \A v \in Versions : v \in Nat /\ v >= 1 /\ (v <= Len(log) => v \in 1 .. Len(log))
<1>1. MaxTime \in Nat /\ MaxCommits \in Nat
  BY ConstantTypes
<1>2. resolvedAt \in Times /\ pausedAt \in Times /\ reenabledAt \in Times
      /\ reenableAfter \in {Never} \cup Nat
  BY DEF SInv, EmitterTypeOK
<1>3. \A v \in Versions : v \in Nat /\ v >= 1
  BY <1>1 DEF Versions
<1>4. now \in Nat /\ Len(log) \in Nat /\ \A v \in 1 .. Len(log) : log[v].at \in Nat /\ log[v].at <= now
  BY Ranges DEF SInv, Vouched
<1> QED BY <1>1, <1>2, <1>3, <1>4 DEF Times, Never

\* A step of the emitter alone that withholds, pauses and resumes nothing.
LEMMA EmitterStepPauses ==
    ASSUME OneAgreement, PInv, SInv', UNCHANGED <<receiverVars, status, pausedAt>>,
           \A v \in Versions : /\ job'[v] = "withheld" <=> job[v] = "withheld"
                               /\ job'[v] # "none" <=> job[v] # "none",
           \A v \in handed' : v \in handed \/ job[v] = "pending",
           \/ EndAttempt(TRUE)
           \/ /\ UNCHANGED <<resolvedAt, reenableAfter>>
              /\ probe'.at # "handed" => probe.at # "handed",
           probe'.at = "handed" => probe.at = "handed" \/ ~LivenessBlocked
    PROVE  PInv'
<1> USE DEF PInv
<1>1. /\ now' = now /\ log' = log /\ store' = store /\ copy' = copy /\ known' = known
      /\ reads' = reads /\ status' = status /\ pausedAt' = pausedAt
  BY DEF receiverVars, storeVars, consumerVars
<1>2. Window' = Window /\ Window \in Nat
  BY WindowKept DEF SInv
<1>3. handed \subseteq Versions /\ handed' \subseteq Versions
  BY DEF SInv, EmitterTypeOK
<1>4. store.live \in Int /\ store.live <= now
      /\ (copy # NoCopy => copy.live \in Int /\ copy.live <= now)
  BY Ranges DEF SInv, Vouched
<1>5. Timed' /\ (status = "paused" => reenableAfter' >= reenableAfter)
  <2>1. CASE EndAttempt(TRUE)
    <3>1. resolvedAt' = now
          /\ reenableAfter' = IF status = "paused" THEN AtLeast(reenableAfter, now + Window)
                              ELSE reenableAfter
      BY <2>1 DEF EndAttempt
    <3>2. status = "paused" => reenableAfter' >= reenableAfter /\ reenableAfter' >= now + Window
      BY <1>2, <3>1, EmitterRanges DEF AtLeast
    <3>3. AtLeast(resolvedAt, 0)' = now
      BY <3>1, EmitterRanges DEF AtLeast
    <3> QED BY <1>1, <1>2, <1>4, <3>1, <3>2, <3>3, EmitterRanges DEF Timed
  <2>2. CASE /\ UNCHANGED <<resolvedAt, reenableAfter>>
             /\ probe'.at # "handed" => probe.at # "handed"
    BY <1>1, <1>2, <2>2, EmitterRanges DEF Timed, AtLeast
  <2> QED BY <2>1, <2>2
<1>6. Withholdings'
  <2> SUFFICES ASSUME NEW v \in Versions
               PROVE  /\ job'[v] # "none" \/ v \in handed' => v <= Len(log)
                      /\ job'[v] = "withheld" => v \notin handed' /\ Extended(v)'
    BY <1>1 DEF Withholdings
  <2>1. job'[v] # "none" \/ v \in handed' => v <= Len(log)
    BY DEF Withholdings
  <2>2. job'[v] = "withheld" => v \notin handed' /\ Extended(v) /\ log[v].at \in Nat
    BY <2>1, EmitterRanges DEF Withholdings
  <2>3. Extended(v) /\ log[v].at \in Nat => Extended(v)'
    <3>1. reenableAfter' \in Int
      BY DEF SInv, EmitterTypeOK, Never
    <3> QED BY <1>1, <1>2, <1>5, <3>1, EmitterRanges DEF Extended
  <2> QED BY <2>1, <2>2, <2>3
<1>7. Dated'
  BY <1>1 DEF Dated, DatedStore
<1>8. \A v \in Versions : Before(v) => Before(v)'
  <2> SUFFICES ASSUME NEW v \in Versions, Before(v), NEW u \in 1 .. v - 1
               PROVE  Reached(u)'
    BY DEF Before
  <2>1. u \in Versions
    BY EmitterRanges, ConstantTypes DEF Versions
  <2> QED BY <1>1, <2>1 DEF Before, Reached
<1>9. ~LivenessBlocked => \A v \in Versions : job[v] = "withheld" => Before(v)
  <2> SUFFICES ASSUME ~LivenessBlocked, NEW v \in Versions, job[v] = "withheld",
                      NEW u \in 1 .. v - 1
               PROVE  Reached(u)
    BY DEF Before
  <2>1. u \in Versions /\ u <= Len(log)
    BY EmitterRanges, ConstantTypes DEF Versions, Withholdings
  <2>2. job[u] \in {"done", "withheld"}
    BY <2>1 DEF LivenessBlocked, SInv, JobsReached, EmitterTypeOK
  <2> QED BY <2>1, <2>2 DEF SInv, JobsReached, Reached
<1>10. \A v \in Versions : Settled(v) => Settled(v)'
  <2>1. \A v \in Versions : Outdated(v) => Outdated(v)'
    BY <1>1 DEF Outdated, Recovering
  <2>2. Quiet(store) /\ (copy # NoCopy => Quiet(copy))
        => (Quiet(store) /\ (copy # NoCopy => Quiet(copy)))'
    BY <1>1 DEF Quiet
  <2> QED BY <1>8, <2>1, <2>2 DEF Settled
<1>11. Resumed'
  BY <1>1, <1>8, <1>9, <1>10 DEF Resumed
<1> QED BY <1>5, <1>6, <1>7, <1>11

LEMMA JobStepPauses ==
    ASSUME OneAgreement, PInv, NEW v \in Versions,
           HandOff(v) \/ Acknowledge(v) \/ FailHandOff(v)
    PROVE  PInv'
<1>1. SInv'
  BY JobStepKeeps DEF PInv
<1>2. /\ UNCHANGED <<receiverVars, probe, status, resolvedAt, reenableAfter, pausedAt>>
      /\ \A w \in handed' : w \in handed \/ job[w] = "pending"
      /\ \/ job[v] = "pending" /\ job' = [job EXCEPT ![v] = "handed"]
         \/ job[v] = "received" /\ job' = [job EXCEPT ![v] = "done"]
         \/ job[v] \in {"handed", "received"} /\ job' = [job EXCEPT ![v] = "pending"]
  BY DEF HandOff, Acknowledge, FailHandOff
<1>3. \A w \in Versions : /\ job'[w] = "withheld" <=> job[w] = "withheld"
                          /\ job'[w] # "none" <=> job[w] # "none"
  BY <1>2 DEF PInv, SInv, EmitterTypeOK
<1> QED BY <1>1, <1>2, <1>3, EmitterStepPauses

LEMMA ProbeStepPauses ==
    ASSUME OneAgreement, PInv, RequestVerification \/ SignProbe \/ HandProbe \/ DropProbe
    PROVE  PInv'
<1>1. SInv'
  BY ProbeStepKeeps DEF PInv
<1>2. UNCHANGED <<receiverVars, job, handed, status, resolvedAt, reenableAfter, pausedAt>>
  BY DEF RequestVerification, SignProbe, HandProbe, DropProbe, SetProbe
<1>3. probe.at # "handed" /\ (probe'.at = "handed" => ~LivenessBlocked)
  <2>1. probe \in [at : {"none", "asked", "signed", "handed"}, iat : Times,
                   requested : BOOLEAN, heard : BOOLEAN]
    BY DEF PInv, SInv, EmitterTypeOK
  <2>2. CASE RequestVerification
    BY <2>2 DEF RequestVerification, SetProbe, NoProbe
  <2>3. CASE SignProbe
    BY <2>1, <2>3 DEF SignProbe, SetProbe
  <2>4. CASE HandProbe
    BY <2>4 DEF HandProbe, SetProbe
  <2>5. CASE DropProbe
    BY <2>5 DEF DropProbe, SetProbe, NoProbe
  <2> QED BY <2>2, <2>3, <2>4, <2>5
<1> QED BY <1>1, <1>2, <1>3, EmitterStepPauses

LEMMA EndProbePauses ==
    ASSUME OneAgreement, PInv, NEW acknowledged \in BOOLEAN, EndProbe(acknowledged)
    PROVE  PInv'
<1>1. SInv'
  BY EndProbeKeeps DEF PInv
<1>2. /\ UNCHANGED <<receiverVars, job, handed, status, pausedAt>>
      /\ EndAttempt(acknowledged) /\ probe.at = "handed"
  BY DEF EndProbe
<1>3. EndAttempt(TRUE)
  BY <1>2 DEF EndAttempt
<1> QED BY <1>1, <1>2, <1>3, EmitterStepPauses

LEMMA RestartEmitterPauses ==
    ASSUME OneAgreement, PInv, RestartEmitter
    PROVE  PInv'
<1>1. SInv'
  BY RestartEmitterKeeps DEF PInv
<1>2. /\ UNCHANGED <<receiverVars, handed, status, pausedAt>>
      /\ job' = [v \in Versions |->
                    IF job[v] \in {"handed", "received"} THEN "pending" ELSE job[v]]
  BY DEF RestartEmitter
<1>3. IF probe.at = "handed" THEN EndAttempt(FALSE) ELSE UNCHANGED <<resolvedAt, reenableAfter>>
  BY DEF RestartEmitter
<1>4. \/ EndAttempt(TRUE)
      \/ probe.at # "handed" /\ UNCHANGED <<resolvedAt, reenableAfter>>
  <2>1. CASE probe.at = "handed"
    <3>1. EndAttempt(FALSE)
      BY <1>3, <2>1
    <3> QED BY <3>1 DEF EndAttempt
  <2>2. CASE probe.at # "handed"
    BY <1>3, <2>2
  <2> QED BY <2>1, <2>2
<1>5. probe'.at # "handed"
  <2>1. probe \in [at : {"none", "asked", "signed", "handed"}, iat : Times,
                   requested : BOOLEAN, heard : BOOLEAN]
    BY DEF PInv, SInv, EmitterTypeOK
  <2>2. probe' = NoProbe \/ (probe.at = "handed" /\ probe' = [probe EXCEPT !.at = "signed"])
        \/ (probe.at # "handed" /\ probe' = probe)
    <3>1. probe' = IF ~probe.requested THEN NoProbe
                   ELSE IF probe.at = "handed" THEN [probe EXCEPT !.at = "signed"] ELSE probe
      BY Zenon DEF RestartEmitter
    <3>2. CASE probe.requested = TRUE /\ probe.at = "handed"
      BY <3>1, <3>2, Zenon
    <3>3. CASE probe.requested = TRUE /\ probe.at # "handed"
      BY <3>1, <3>3, Zenon
    <3>4. CASE probe.requested = FALSE
      BY <3>1, <3>4, Zenon
    <3>5. probe.requested \in BOOLEAN
      BY <2>1
    <3> QED BY <3>2, <3>3, <3>4, <3>5
  <2> QED BY <2>1, <2>2 DEF NoProbe
<1>6. \A w \in Versions : /\ job'[w] = "withheld" <=> job[w] = "withheld"
                          /\ job'[w] # "none" <=> job[w] # "none"
  BY <1>2
<1> QED BY <1>1, <1>2, <1>4, <1>5, <1>6, EmitterStepPauses

\* A step of the receiver, its consumer or the clock: time and what was stored
\* only grow.
LEMMA ReceiverStepPauses ==
    ASSUME OneAgreement, PInv, SInv',
           UNCHANGED <<log, handed, status, resolvedAt, reenableAfter, pausedAt>>,
           probe'.at = probe.at, now' >= now, known' >= known,
           \A v \in Versions : /\ job'[v] = "withheld" <=> job[v] = "withheld"
                               /\ job'[v] # "none" <=> job[v] # "none",
           probe.at # "handed" =>
                /\ store'.live = store.live \/ (copy # NoCopy /\ store'.live = copy.live)
                /\ copy' = copy \/ copy' = store,
           Dated',
           \A v \in Versions : job[v] = "withheld" /\ Settled(v) /\ (Before(v) => Before(v)')
                               /\ (probe.at = "handed" => Before(v))
                                    => Settled(v)'
    PROVE  PInv'
<1> USE DEF PInv
<1>1. Window' = Window /\ Window \in Nat
  BY WindowKept DEF SInv
<1>2. now' \in Nat /\ known' \in Nat /\ known \in Nat
  BY ConstantTypes, Ranges DEF SInv, IInv, ReceiverTypeOK
<1>3. store.live \in Int /\ (copy # NoCopy => copy.live \in Int)
  BY Ranges DEF SInv
<1>4. Timed'
  BY <1>1, <1>2, <1>3, EmitterRanges DEF Timed, AtLeast
<1>5. Withholdings'
  <2>1. \A v \in Versions : log[v].at \in Nat /\ Extended(v) => Extended(v)'
    BY <1>1, <1>2, EmitterRanges DEF Extended
  <2>2. \A v \in Versions : job[v] = "withheld" => log[v].at \in Nat
    BY EmitterRanges DEF Withholdings
  <2> QED BY <2>1, <2>2 DEF Withholdings
<1>6. \A v \in Versions : Before(v) => Before(v)'
  <2> SUFFICES ASSUME NEW v \in Versions, Before(v), NEW u \in 1 .. v - 1
               PROVE  Reached(u)'
    BY DEF Before
  <2>1. u \in Versions /\ u \in Nat
    BY EmitterRanges, ConstantTypes DEF Versions
  <2> QED BY <1>2, <2>1 DEF Before, Reached
<1>7. Resumed'
  BY <1>6 DEF Resumed
<1> QED BY <1>4, <1>5, <1>7

\* One that neither hears nor receives: what is quiet or outdated stays so.
LEMMA QuietStepPauses ==
    ASSUME OneAgreement, PInv, SInv',
           UNCHANGED <<log, emitterVars>>, now' >= now, known' >= known,
           store'.live = store.live \/ (copy # NoCopy /\ store'.live = copy.live),
           copy' = copy \/ copy' = store,
           Dated',
           \A v \in Versions : Outdated(v) => Outdated(v)'
    PROVE  PInv'
<1>1. UNCHANGED <<job, handed, probe, status, resolvedAt, reenableAfter, pausedAt>>
  BY DEF emitterVars
<1>2. Quiet(store) /\ (copy # NoCopy => Quiet(copy))
        => (Quiet(store) /\ (copy # NoCopy => Quiet(copy)))'
  <2>1. store'.maxStale = store.maxStale /\ store.maxStale \in Nat /\ Heartbeat \in Nat
    BY WindowKept DEF PInv, SInv
  <2>2. copy # NoCopy => copy.maxStale = store.maxStale
    BY CopyAgreement DEF PInv, SInv
  <2>3. store.live \in Int /\ (copy # NoCopy => copy.live \in Int) /\ now \in Nat /\ now' \in Nat
    BY Ranges, ConstantTypes DEF PInv, SInv, IInv, ReceiverTypeOK
  <2> DEFINE Quietly(live, t) == t - AtLeast(live, 0) > AtLeast(store.maxStale, Heartbeat)
  <2>4. \A live \in Int : Quietly(live, now) => Quietly(live, now')
    BY <2>1, <2>3 DEF AtLeast
  <2>5. /\ Quiet(store) = Quietly(store.live, now) /\ Quiet(store)' = Quietly(store'.live, now')
        /\ copy # NoCopy => Quiet(copy) = Quietly(copy.live, now)
        /\ copy' = copy /\ copy # NoCopy => Quiet(copy)' = Quietly(copy.live, now')
        /\ copy' = store => Quiet(copy)' = Quietly(store.live, now')
    BY <2>1, <2>2 DEF Quiet
  <2>6. Quietly(store.live, now) => Quietly(store.live, now')
    BY <2>3, <2>4
  <2>7. copy # NoCopy /\ Quietly(copy.live, now) => Quietly(copy.live, now')
    BY <2>3, <2>4
  <2> HIDE DEF Quietly
  <2>8. Quiet(store) /\ (copy # NoCopy => Quiet(copy)) => Quiet(store)'
    BY <2>5, <2>6, <2>7
  <2>9. Quiet(store) /\ (copy # NoCopy => Quiet(copy)) /\ copy' # NoCopy => Quiet(copy)'
    BY <2>5, <2>6, <2>7
  <2> QED BY <2>8, <2>9
<1>3. \A v \in Versions : Settled(v) /\ (Before(v) => Before(v)') => Settled(v)'
  BY <1>2 DEF Settled
<1> QED BY <1>1, <1>3, ReceiverStepPauses

\* The fields that say whether what is held is outdated.
SameStanding(s, t) ==
    /\ t.version = s.version /\ t.source = s.source /\ t.until = s.until
    /\ t.lineage = s.lineage /\ t.generation = s.generation
    /\ t.recovery = s.recovery /\ t.released = s.released

\* A store written by a step that answers no Mission Status.
LEMMA DatedStep ==
    ASSUME PInv, SInv', log' = log, now' >= now,
           \/ store'.source = "signal"
           \/ /\ store'.source = store.source /\ store'.version = store.version
              /\ store'.until = store.until
           \/ /\ copy # NoCopy /\ store'.source = copy.source
              /\ store'.version = copy.version /\ store'.until = copy.until,
           copy' = copy \/ copy' = store,
           \A q \in Reads : reads'[q] = reads[q] \/ reads'[q].at # "answered"
    PROVE  Dated'
<1>1. now \in Nat /\ now' \in Nat /\ StatusTtl \in Nat
  BY Ranges, ConstantTypes DEF PInv, SInv, IInv, ReceiverTypeOK
<1>2. /\ store.until \in Nat /\ store'.until \in Nat
      /\ copy # NoCopy => copy.until \in Nat
  BY DEF PInv, SInv, IInv, ReceiverTypeOK, Stores
<1>3. DatedStore(store)'
  BY <1>1, <1>2 DEF PInv, Dated, DatedStore
<1>4. copy' # NoCopy => DatedStore(copy)'
  BY <1>1, <1>2 DEF PInv, Dated, DatedStore
<1>5. \A q \in Reads : reads[q].iat \in Nat
  BY ConstantTypes DEF PInv, SInv, IInv, ReceiverTypeOK
<1>6. \A q \in Reads : reads'[q].at = "answered" =>
        /\ reads'[q].iat <= now'
        /\ \A v \in reads'[q].version + 1 .. Len(log') : reads'[q].iat <= log'[v].at
  BY <1>1, <1>5 DEF PInv, Dated
<1> QED BY <1>3, <1>4, <1>6 DEF Dated

LEMMA SameStandingOutdated ==
    ASSUME SameStanding(store, store'), NEW v, Outdated(v)
    PROVE  Outdated(v)'
  BY DEF SameStanding, Outdated, Recovering

\* The receiver's own steps but the answer of Mission Status it takes.
LEMMA SameStandingPauses ==
    ASSUME OneAgreement, PInv, SInv', UNCHANGED <<log, emitterVars>>, now' >= now,
           known' >= known, SameStanding(store, store'), store'.live = store.live,
           copy' = copy \/ copy' = store,
           \A q \in Reads : reads'[q] = reads[q] \/ reads'[q].at # "answered"
    PROVE  PInv'
<1>1. Dated'
  BY DatedStep DEF SameStanding
<1>2. \A v \in Versions : Outdated(v) => Outdated(v)'
  BY SameStandingOutdated
<1> QED BY <1>1, <1>2, QuietStepPauses

LEMMA AskStatusPauses ==
    ASSUME OneAgreement, PInv, SInv', UNCHANGED emitterVars, NEW q \in Reads, AskStatus(q)
    PROVE  PInv'
<1> DEFINE s == [store EXCEPT !.nonce[q] = store.recovery]
<1>1. /\ Write(s) /\ UNCHANGED <<now, log>>
      /\ reads' = [reads EXCEPT ![q].at = "asked"]
  BY DEF AskStatus
<1>2. SameStanding(store, s) /\ s.live = store.live
  BY Ranges DEF PInv, SInv, Stores, SameStanding
<1>3. s.version \in Nat
  BY <1>2, Ranges DEF PInv, SInv, SameStanding
<1>4. \A p \in Reads : reads'[p] = reads[p] \/ reads'[p].at # "answered"
  BY <1>1 DEF PInv, SInv, IInv, ReceiverTypeOK
<1> HIDE DEF s
<1>5. store' = s /\ copy' = copy
  BY <1>1 DEF Write
<1>6. known' >= known
  BY <1>1, <1>3, WriteGrows DEF PInv, SInv
<1> QED BY <1>1, <1>2, <1>4, <1>5, <1>6, Ranges, SameStandingPauses DEF PInv, SInv

LEMMA AnswerStatusPauses ==
    ASSUME OneAgreement, PInv, SInv', UNCHANGED emitterVars, NEW q \in Reads, AnswerStatus(q)
    PROVE  PInv'
<1>1. /\ UNCHANGED <<now, log, storeVars>>
      /\ reads' = [reads EXCEPT ![q] = [at |-> "answered", version |-> Len(log),
                                        state |-> log[Len(log)].state, iat |-> now]]
  BY DEF AnswerStatus
<1>2. UNCHANGED <<store, copy, known>>
  BY <1>1 DEF storeVars
<1>3. Dated'
  <2>1. DatedStore(store)' /\ (copy' # NoCopy => DatedStore(copy)')
    BY <1>1, <1>2 DEF PInv, Dated, DatedStore
  <2>2. \A p \in Reads : \/ reads'[p] = reads[p]
                         \/ reads'[p].version = Len(log) /\ reads'[p].iat = now
    BY <1>1 DEF PInv, SInv, IInv, ReceiverTypeOK
  <2>3. \A v \in Len(log) + 1 .. Len(log) : FALSE
    BY Ranges DEF PInv, SInv
  <2> QED BY <1>1, <2>1, <2>2, <2>3, Ranges DEF PInv, SInv, Dated
<1>4. \A v \in Versions : Outdated(v) => Outdated(v)'
  BY <1>2 DEF Outdated, Recovering
<1> QED BY <1>1, <1>2, <1>3, <1>4, Ranges, QuietStepPauses DEF PInv, SInv

LEMMA LoseStatusPauses ==
    ASSUME OneAgreement, PInv, SInv', UNCHANGED emitterVars, NEW q \in Reads, LoseStatus(q)
    PROVE  PInv'
<1>1. UNCHANGED <<now, log, store, copy, known>> /\ reads' = [reads EXCEPT ![q] = NoRead]
  BY DEF LoseStatus, storeVars
<1>2. \A p \in Reads : reads'[p] = reads[p] \/ reads'[p].at # "answered"
  BY <1>1 DEF PInv, SInv, IInv, ReceiverTypeOK, NoRead
<1> QED BY <1>1, <1>2, Ranges, SameStandingPauses DEF PInv, SInv, SameStanding

\* A response is of before the commits it does not report.
LEMMA TakeStatusPauses ==
    ASSUME OneAgreement, PInv, SInv', UNCHANGED emitterVars, NEW q \in Reads, TakeStatus(q)
    PROVE  PInv'
<1> DEFINE m == reads[q]
           s == [store EXCEPT
                !.version = m.version, !.state = m.state, !.source = "status",
                !.until = StatusReliance(m), !.gapped = FALSE,
                !.remat = IF Latches(m) THEN m.version ELSE @,
                !.lineage = store.generation,
                !.released = IF Recovering THEN store.recovery ELSE @,
                !.nonce = [p \in Reads |-> Never]]
<1>1. /\ UNCHANGED <<now, log>> /\ reads' = [reads EXCEPT ![q] = NoRead] /\ m.at = "answered"
      /\ Write(s) \/ UNCHANGED storeVars
  BY DEF TakeStatus
<1>2. \A p \in Reads : reads'[p] = reads[p] \/ reads'[p].at # "answered"
  BY <1>1 DEF PInv, SInv, IInv, ReceiverTypeOK, NoRead
<1>3. now' >= now
  BY <1>1, Ranges DEF PInv, SInv
<1>4. CASE UNCHANGED storeVars
  BY <1>1, <1>2, <1>3, <1>4, Ranges, SameStandingPauses DEF PInv, SInv, SameStanding, storeVars
<1>5. CASE Write(s)
  <2>1. /\ s.version = m.version /\ s.source = "status" /\ s.until = StatusReliance(m)
        /\ s.live = store.live
    BY Ranges DEF PInv, SInv, Stores
  <2>2. m.version \in Nat /\ m.iat \in Nat /\ now \in Nat /\ StatusTtl \in Nat
    BY ConstantTypes, Ranges DEF PInv, SInv, IInv, ReceiverTypeOK
  <2>3. StatusReliance(m) \in Nat /\ StatusReliance(m) <= m.iat + StatusTtl
    BY <2>2, ConstantTypes DEF StatusReliance, AtMost
  <2>4. m.iat <= now /\ \A v \in m.version + 1 .. Len(log) : m.iat <= log[v].at /\ log[v].at \in Nat
    <3>1. \A v \in m.version + 1 .. Len(log) : v \in 1 .. Len(log)
      BY <2>2, Ranges DEF PInv, SInv
    <3> QED BY <1>1, <3>1, Ranges DEF PInv, SInv, Dated
  <2> HIDE DEF s, m
  <2>5. store' = s /\ copy' = copy
    BY <1>5 DEF Write
  <2>6. known' >= known
    <3>1. IInv /\ s.version \in Nat
      BY <2>1, <2>2 DEF PInv, SInv
    <3> QED BY ONLY <1>5, <3>1, WriteGrows
  <2>7. Dated'
    <3>1. DatedStore(store)'
      <4>1. /\ store'.version = m.version /\ store'.until = StatusReliance(m)
            /\ now' = now /\ log' = log
        BY <1>1, <2>1, <2>5
      <4>2. StatusReliance(m) <= now + StatusTtl
        BY ONLY <2>2, <2>3, <2>4
      <4>3. \A v \in m.version + 1 .. Len(log) : StatusReliance(m) <= log[v].at + StatusTtl
        BY ONLY <2>2, <2>3, <2>4
      <4> QED BY ONLY <4>1, <4>2, <4>3 DEF DatedStore
    <3>2. copy' # NoCopy => DatedStore(copy)'
      BY <1>1, <2>5 DEF PInv, Dated, DatedStore
    <3> QED BY <1>1, <1>2, <3>1, <3>2 DEF PInv, Dated
  <2>8. \A v \in Versions : Outdated(v)'
    BY <2>1, <2>5 DEF Outdated
  <2> QED BY <1>1, <1>3, <2>1, <2>5, <2>6, <2>7, <2>8, QuietStepPauses
<1> QED BY <1>1, <1>4, <1>5

\* A copy the witness is not ahead of is what was held; any other is held back.
LEMMA RestorePauses ==
    ASSUME OneAgreement, PInv, SInv', UNCHANGED emitterVars, Restore
    PROVE  PInv'
<1>1. /\ copy # NoCopy /\ UNCHANGED <<now, log, copy, known, reads>>
      /\ \/ lag /\ Admitted(copy)
         \/ ~lag /\ store' = copy
  BY DEF Restore, consumerVars
<1>2. copy \in Stores /\ store \in Stores
  BY <1>1 DEF PInv, SInv, IInv, ReceiverTypeOK
<1>3. /\ store'.source = copy.source /\ store'.version = copy.version
      /\ store'.until = copy.until /\ store'.live = copy.live
  BY <1>1, <1>2 DEF Admitted, Stores
<1>4. \A v \in Versions : Outdated(v) => Outdated(v)'
  <2>1. CASE lag /\ Admitted(copy)
    <3>1. /\ store' = [copy EXCEPT !.recovery = NextRecovery(copy)]
          /\ NextRecovery(copy) \in Nat /\ NextRecovery(copy) > copy.recovery
      BY <1>2, <2>1, AdmittedType DEF PInv, SInv, IInv
    <3>2. copy.released <= copy.recovery /\ copy.recovery \in Nat /\ copy.released \in Nat
      BY <1>1, <1>2, ConstantTypes DEF PInv, SInv, IInv, Ordered, Stores
    <3>3. store'.recovery = NextRecovery(copy) /\ store'.released = copy.released
      BY <1>2, <3>1 DEF Stores
    <3>4. Recovering'
      BY <3>1, <3>2, <3>3 DEF Recovering
    <3> QED BY <3>4 DEF Outdated
  <2>2. CASE ~lag /\ store' = copy
    <3>1. store = [copy EXCEPT !.remat = store.remat]
      BY <1>1, <2>2 DEF PInv, SInv, IInv, CopyIsStore
    <3>2. SameStanding(store, copy)
      BY <1>2, <3>1 DEF SameStanding, Stores
    <3> QED BY <2>2, <3>2, SameStandingOutdated
  <2> QED BY <1>1, <2>1, <2>2
<1>5. Dated'
  BY <1>1, <1>3, Ranges, DatedStep DEF PInv, SInv
<1> QED BY <1>1, <1>3, <1>4, <1>5, Ranges, QuietStepPauses DEF PInv, SInv

LEMMA CrashInWritePauses ==
    ASSUME OneAgreement, PInv, SInv', UNCHANGED emitterVars, CrashInWrite
    PROVE  PInv'
<1>1. UNCHANGED <<now, log, copy, known, reads>> /\ Admitted(store)
  BY DEF CrashInWrite, consumerVars
<1>2. store \in Stores
  BY Ranges DEF PInv, SInv
<1>3. /\ store' = [store EXCEPT !.recovery = NextRecovery(store)]
      /\ NextRecovery(store) \in Nat /\ NextRecovery(store) > store.recovery
  BY <1>1, <1>2, AdmittedType DEF PInv, SInv, IInv
<1>4. /\ store'.source = store.source /\ store'.version = store.version
      /\ store'.until = store.until /\ store'.live = store.live
      /\ store'.recovery = NextRecovery(store) /\ store'.released = store.released
  BY <1>2, <1>3 DEF Stores
<1>5. Recovering'
  <2>1. store.released <= store.recovery /\ store.recovery \in Nat /\ store.released \in Nat
    BY <1>2, ConstantTypes DEF PInv, SInv, IInv, Ordered, Stores
  <2> QED BY <1>3, <1>4, <2>1 DEF Recovering
<1>6. \A v \in Versions : Outdated(v)'
  BY <1>5 DEF Outdated
<1>7. Dated'
  BY <1>1, <1>4, Ranges, DatedStep DEF PInv, SInv
<1> QED BY <1>1, <1>4, <1>6, <1>7, Ranges, QuietStepPauses DEF PInv, SInv

LEMMA ReceiverStepSettles ==
    ASSUME OneAgreement, PInv, ReceiverStep
    PROVE  PInv'
<1>1. SInv' /\ UNCHANGED emitterVars
  BY ReceiverStepKeeps DEF PInv, ReceiverStep
<1>2. store \in Stores /\ now \in Nat /\ known \in Nat
  BY Ranges DEF PInv, SInv
<1>3. ASSUME NEW s \in MaxStales, Agree(s) PROVE FALSE
  <2>1. store.maxStale \in MaxStales
    BY <1>2 DEF Stores
  <2> QED BY <1>3, <2>1 DEF Agree, OneAgreement
<1>4. ASSUME NEW q \in Reads, AskStatus(q) \/ AnswerStatus(q) \/ LoseStatus(q) \/ TakeStatus(q)
      PROVE  PInv'
  BY <1>1, <1>4, AskStatusPauses, AnswerStatusPauses, LoseStatusPauses, TakeStatusPauses
<1>5. ASSUME Refresh \/ Backup \/ Tick PROVE PInv'
  <2>1. /\ UNCHANGED <<log, store, known, reads>> /\ now' >= now
        /\ copy' = copy \/ copy' = store
    BY <1>2, <1>5 DEF Refresh, Backup, Tick, storeVars, consumerVars
  <2> QED BY <1>1, <1>2, <2>1, SameStandingPauses DEF SameStanding
<1>6. ASSUME MarkRematerialized PROVE PInv'
  <2>1. UNCHANGED <<now, log, copy, known, reads>> /\ store' = [store EXCEPT !.remat = NoVersion]
    BY <1>6 DEF MarkRematerialized, consumerVars
  <2>2. SameStanding(store, store') /\ store'.live = store.live
    BY <1>2, <2>1 DEF SameStanding, Stores
  <2> QED BY <1>1, <1>2, <2>1, <2>2, SameStandingPauses
<1> QED BY <1>1, <1>3, <1>4, <1>5, <1>6, RestorePauses, CrashInWritePauses DEF ReceiverStep

LEMMA AcknowledgeNoticePauses ==
    ASSUME OneAgreement, PInv, AcknowledgeNotice
    PROVE  PInv'
<1>1. SInv'
  BY AcknowledgeNoticeKeeps DEF PInv
<1>2. /\ UNCHANGED <<job, handed, probe, status, resolvedAt, reenableAfter, pausedAt>>
      /\ UNCHANGED <<now, log, store, copy, reads>> /\ Write(store)
  BY DEF AcknowledgeNotice, HearUpdated, Write, consumerVars
<1>3. known' >= known /\ now' >= now
  BY <1>2, Ranges, WriteGrows DEF PInv, SInv
<1>4. Dated'
  BY <1>1, <1>2, <1>3, DatedStep
<1>5. \A v \in Versions : Settled(v) /\ (Before(v) => Before(v)') => Settled(v)'
  BY <1>2 DEF Settled, Quiet, Outdated, Recovering
<1> QED BY <1>1, <1>2, <1>3, <1>4, <1>5, ReceiverStepPauses

\* An event older than v, once all that is older has arrived, is not newer than
\* what is held.
LEMMA ReceivePauses ==
    ASSUME OneAgreement, PInv, NEW v \in Versions, Receive(v)
    PROVE  PInv'
<1> DEFINE s == [store EXCEPT
                !.version = v, !.state = log[v].state, !.source = "signal",
                !.until = Reliance(log[v]),
                !.gapped = @ \/ v > store.version + 1,
                !.remat = Remat(v), !.lineage = Lineage]
<1>1. SInv'
  BY ReceiveKeeps DEF PInv
<1>2. /\ UNCHANGED <<now, log, probe, handed, status, resolvedAt, reenableAfter, pausedAt>>
      /\ UNCHANGED <<copy, reads>> /\ v \in handed
      /\ job' = IF job[v] = "handed" /\ ~Recovering
                THEN [job EXCEPT ![v] = "received"] ELSE job
  BY DEF Receive, Apply, Write, storeVars, consumerVars
<1>3. \A w \in Versions : /\ job'[w] = "withheld" <=> job[w] = "withheld"
                          /\ job'[w] # "none" <=> job[w] # "none"
  BY <1>2 DEF PInv, SInv, EmitterTypeOK
<1>4. \/ ~Recovering /\ Newer(v) /\ Write(s)
      \/ store' = store /\ known' >= known
  <2>1. \/ ~Recovering /\ Newer(v) /\ Write(s)
        \/ ~Recovering /\ ~Newer(v) /\ Write(store)
        \/ Recovering /\ UNCHANGED storeVars
    BY Zenon DEF Receive, Apply
  <2>2. Write(store) => store' = store /\ known' >= known
    BY Ranges, WriteGrows DEF PInv, SInv, Write
  <2>3. UNCHANGED storeVars => store' = store /\ known' >= known
    BY Ranges DEF PInv, SInv, storeVars
  <2> HIDE DEF s
  <2> QED BY <2>1, <2>2, <2>3
<1>5. /\ s.version = v /\ s.source = "signal" /\ s.live = store.live
      /\ s.maxStale = store.maxStale /\ v \in Nat
  BY Ranges, EmitterRanges DEF PInv, SInv, Stores
<1> HIDE DEF s
<1>6. Write(s) => store' = s /\ known' >= known
  BY <1>5, WriteGrows DEF PInv, SInv, Write
<1>7. known' >= known /\ store'.live = store.live /\ store'.maxStale = store.maxStale
  BY <1>4, <1>5, <1>6
<1>8. now' >= now /\ known \in Nat /\ store.version \in Nat
  BY <1>2, Ranges DEF PInv, SInv
<1>9. Dated'
  BY <1>1, <1>2, <1>4, <1>5, <1>6, <1>8, DatedStep
<1>10. ASSUME NEW w \in Versions, job[w] = "withheld", Before(w), Outdated(w)
       PROVE  Outdated(w)'
  <2>1. CASE store' = store
    BY <1>10, <2>1 DEF Outdated, Recovering
  <2>2. CASE ~Recovering /\ Newer(v) /\ Write(s)
    <3>1. store.version = known
      BY <2>2 DEF PInv, SInv, IInv, Current
    <3>2. v > known
      BY <2>2, <3>1 DEF Newer
    <3>3. ~(v < w)
      <4>1. v < w => v \in 1 .. w - 1
        BY EmitterRanges DEF PInv
      <4>2. v < w => job[v] = "withheld" \/ known >= v
        BY <1>10, <4>1 DEF Before, Reached
      <4>3. job[v] # "withheld"
        BY <1>2 DEF PInv, Withholdings
      <4> QED BY <1>5, <1>8, <3>2, <4>2, <4>3
    <3>4. v >= w
      BY <3>3, EmitterRanges DEF PInv
    <3> QED BY <1>5, <1>6, <2>2, <3>4 DEF Outdated
  <2> QED BY <1>4, <2>1, <2>2
<1>11. Quiet(store) /\ (copy # NoCopy => Quiet(copy))
        => (Quiet(store) /\ (copy # NoCopy => Quiet(copy)))'
  BY <1>2, <1>7 DEF Quiet
<1>12. \A w \in Versions : job[w] = "withheld" /\ Settled(w) /\ (Before(w) => Before(w)')
                              => Settled(w)'
  BY <1>10, <1>11 DEF Settled
<1> QED BY <1>1, <1>2, <1>3, <1>7, <1>8, <1>9, <1>12, ReceiverStepPauses

\* The first heartbeat after a pause makes what is held state of an earlier
\* generation.
LEMMA HearProbePauses ==
    ASSUME OneAgreement, PInv, HearProbe
    PROVE  PInv'
<1> DEFINE s == [store EXCEPT
            !.live = AtLeast(@, probe.iat),
            !.generation = IF StreamStale THEN @ + 1 ELSE @,
            !.staleHeld = FALSE]
<1>1. SInv'
  BY HearProbeKeeps DEF PInv
<1>2. /\ UNCHANGED <<job, handed, status, resolvedAt, reenableAfter, pausedAt>>
      /\ UNCHANGED <<now, log, copy, reads>> /\ Write(s)
      /\ probe.at = "handed" /\ probe' = [probe EXCEPT !.heard = TRUE]
  BY DEF HearProbe, Hear, Write, consumerVars
<1>3. store \in Stores /\ store.generation \in Nat /\ store.lineage \in Nat
  BY Ranges, ConstantTypes DEF PInv, SInv, Stores
<1>4. /\ s.version = store.version /\ s.source = store.source /\ s.until = store.until
      /\ s.lineage = store.lineage /\ s.recovery = store.recovery /\ s.released = store.released
      /\ s.generation = IF StreamStale THEN store.generation + 1 ELSE store.generation
  BY <1>3 DEF Stores
<1> HIDE DEF s
<1>5. store' = s
  BY <1>2 DEF Write
<1>6. known' >= known /\ now' >= now
  BY <1>2, <1>4, Ranges, WriteGrows DEF PInv, SInv
<1>7. probe'.at = probe.at
  BY <1>2 DEF PInv, SInv, EmitterTypeOK
<1>8. Dated'
  BY <1>1, <1>2, <1>4, <1>5, <1>6, DatedStep
<1>9. store.lineage <= store.generation
  BY DEF PInv, SInv, IInv, Ordered
<1>10. Quiet(store) => StreamStale
  <2>1. store.maxStale \in Nat /\ Heartbeat \in Nat
    BY WindowKept, <1>1 DEF PInv, SInv
  <2>2. now \in Nat /\ store.live \in Int
    BY Ranges DEF PInv, SInv
  <2> QED BY <2>1, <2>2 DEF Quiet, StreamStale, StaleAt, VerifiedLive, Silence, AtLeast
<1>11. \A v \in Versions : Settled(v) => Outdated(v)'
  <2>1. Quiet(store) => store'.lineage < store'.generation
    BY <1>3, <1>4, <1>5, <1>9, <1>10
  <2>2. \A v \in Versions : Outdated(v) => Outdated(v)'
    BY <1>3, <1>4, <1>5 DEF Outdated, Recovering
  <2> QED BY <2>1, <2>2 DEF Settled, Outdated
<1>12. \A v \in Versions : Settled(v) /\ Before(v) /\ (Before(v) => Before(v)') => Settled(v)'
  BY <1>11 DEF Settled
<1> QED BY <1>1, <1>2, <1>6, <1>7, <1>8, <1>12, ReceiverStepPauses

\* A withholding pauses the stream or extends its pause; a delivered commit is
\* younger than anything withheld.
LEMMA CommitVersionPauses ==
    ASSUME OneAgreement, PInv, NEW state \in States, NEW narrows \in BOOLEAN,
           NEW declared \in BOOLEAN, CommitVersion(state, narrows, declared)
    PROVE  PInv'
<1> DEFINE v == Len(log) + 1
<1>1. SInv'
  BY CommitVersionKeeps DEF PInv
<1>2. /\ log' = Append(log, [state |-> state, narrows |-> narrows, at |-> now])
      /\ Len(log) < MaxCommits
      /\ UNCHANGED <<now, store, copy, known, reads, handed, probe, resolvedAt>>
  BY DEF CommitVersion, Commit, storeVars, consumerVars
<1>3. v \in Versions /\ log \in Seq(Commits)
  BY <1>2, Ranges DEF Versions, PInv, SInv, IInv, ReceiverTypeOK
<1>4. /\ Len(log') = v /\ Len(log) \in Nat
      /\ \A w \in 1 .. Len(log) : log'[w] = log[w]
      /\ log'[v].at = now
  BY <1>2, <1>3, Ranges DEF PInv, SInv
<1>5. \/ /\ job' = [job EXCEPT ![v] = "pending"]
         /\ UNCHANGED <<status, reenableAfter, pausedAt>>
      \/ job' = [job EXCEPT ![v] = "withheld"] /\ PauseStream
  BY DEF CommitVersion
<1>6. \A w \in Versions : w # v => job'[w] = job[w]
  BY <1>5 DEF PInv, SInv, EmitterTypeOK
<1> HIDE DEF v
<1>7. Window' = Window /\ Window \in Nat
  BY <1>1, WindowKept DEF PInv, SInv
<1>8. PauseStream =>
        /\ status' = "paused" /\ reenableAfter' \in Int
        /\ status = "paused" => reenableAfter' >= reenableAfter /\ reenableAfter' >= now + Window
                                /\ pausedAt' = pausedAt
        /\ status # "paused" => pausedAt' = now
        /\ reenableAfter' >= AtLeast(resolvedAt, 0) + Window
  <2>1. /\ PauseBase \in Int /\ PauseBase >= AtLeast(resolvedAt, 0)
        /\ status = "paused" => PauseBase = now
    <3>1. resolvedAt <= now
      BY DEF PInv, Timed
    <3> QED BY <3>1, EmitterRanges DEF PInv, PauseBase, AtLeast, Never
  <2>2. AtLeast(resolvedAt, 0) \in Int
    BY EmitterRanges DEF PInv, AtLeast
  <2>3. LET after == AtLeast(PauseBase + Window, reenableAfter) IN
        after \in Int /\ after >= reenableAfter /\ after >= PauseBase + Window
    <3>1. PauseBase + Window \in Int /\ reenableAfter \in Int
      BY <1>7, <2>1, EmitterRanges DEF PInv
    <3>2. \A m, n \in Int : AtLeast(m, n) \in Int /\ AtLeast(m, n) >= n /\ AtLeast(m, n) >= m
      BY DEF AtLeast
    <3> QED BY ONLY <3>1, <3>2
  <2>4. PauseStream => reenableAfter' = AtLeast(PauseBase + Window, reenableAfter)
                       /\ status' = "paused"
                       /\ pausedAt' = IF status = "paused" THEN pausedAt ELSE now
    BY DEF PauseStream
  <2> SUFFICES ASSUME PauseStream
               PROVE  /\ status' = "paused" /\ reenableAfter' \in Int
                      /\ status = "paused" => /\ reenableAfter' >= reenableAfter
                                             /\ reenableAfter' >= now + Window
                                             /\ pausedAt' = pausedAt
                      /\ status # "paused" => pausedAt' = now
                      /\ reenableAfter' >= AtLeast(resolvedAt, 0) + Window
    OBVIOUS
  <2>5. reenableAfter' = AtLeast(PauseBase + Window, reenableAfter)
    BY <2>4
  <2>6. /\ reenableAfter' \in Int /\ reenableAfter' >= reenableAfter
        /\ reenableAfter' >= PauseBase + Window
    BY ONLY <2>1, <2>3, <2>5
  <2>7. reenableAfter' >= AtLeast(resolvedAt, 0) + Window
    BY ONLY <1>7, <2>1, <2>2, <2>6
  <2> QED BY <2>1, <2>4, <2>6, <2>7
<1>9. Timed'
  <2>1. Timed /\ resolvedAt \in Int /\ now \in Nat
    BY EmitterRanges DEF PInv
  <2> QED BY <1>2, <1>5, <1>7, <1>8, <2>1 DEF Timed, AtLeast
<1>10. Withholdings'
  <2> SUFFICES ASSUME NEW w \in Versions
               PROVE  /\ job'[w] # "none" \/ w \in handed' => w <= Len(log')
                      /\ job'[w] = "withheld" => w \notin handed' /\ Extended(w)'
    BY DEF Withholdings
  <2>1. CASE w = v
    <3>1. w \notin handed
      BY <1>4, <2>1, EmitterRanges DEF PInv, Withholdings, v
    <3>2. job'[w] = "withheld" => PauseStream
      BY <1>3, <1>5, <2>1 DEF PInv, SInv, EmitterTypeOK
    <3>3. job'[w] = "withheld" => Extended(w)'
      <4>1. CASE status = "paused"
        BY <1>4, <1>7, <1>8, <2>1, <3>2, <4>1 DEF Extended
      <4>2. CASE status # "paused"
        BY <1>2, <1>4, <1>8, <2>1, <3>2, <4>2, EmitterRanges DEF PInv, Extended
      <4> QED BY <4>1, <4>2
    <3> QED BY <1>2, <1>4, <2>1, <3>1, <3>3
  <2>2. CASE w # v
    <3>1. job'[w] = job[w] /\ Withholdings
      BY <1>6, <2>2 DEF PInv
    <3>2. job'[w] # "none" \/ w \in handed' => w <= Len(log)
      BY <1>2, <3>1 DEF Withholdings
    <3>3. job'[w] = "withheld" => w \notin handed' /\ Extended(w) /\ w \in 1 .. Len(log)
      BY <1>2, <3>1, <3>2, EmitterRanges DEF PInv, Withholdings
    <3>4. w \in 1 .. Len(log) => log'[w].at = log[w].at /\ log[w].at \in Nat /\ log[w].at <= now
      BY <1>4, EmitterRanges DEF PInv
    <3>5. w \in 1 .. Len(log) /\ Extended(w) => Extended(w)'
      <4>1. CASE PauseStream
        BY <1>2, <1>7, <1>8, <3>4, <4>1, EmitterRanges DEF PInv, SInv, EmitterTypeOK, Extended
      <4>2. CASE UNCHANGED <<status, reenableAfter, pausedAt>>
        BY <1>2, <1>7, <3>4, <4>2 DEF Extended
      <4> QED BY <1>5, <4>1, <4>2
    <3> QED BY <1>4, <3>2, <3>3, <3>5, EmitterRanges DEF PInv, v
  <2> QED BY <2>1, <2>2
<1>11. Dated'
  <2>1. \A w \in 1 .. Len(log') : w \in 1 .. Len(log) \/ w = v
    BY <1>4 DEF v
  <2>2. /\ store.until \in Nat /\ store.version \in Nat
        /\ copy # NoCopy => copy.until \in Nat /\ copy.version \in Nat
        /\ now \in Nat /\ StatusTtl \in Nat
        /\ \A q \in Reads : reads[q].iat \in Nat /\ reads[q].version \in Nat
    <3>1. now \in Nat /\ StatusTtl \in Nat /\ store \in Stores /\ (copy # NoCopy => copy \in Stores)
      BY ConstantTypes, Ranges DEF PInv, SInv
    <3>2. \A t \in Stores : t.until \in Nat /\ t.version \in Nat
      BY ConstantTypes DEF Stores
    <3>3. \A q \in Reads : reads[q].iat \in Nat /\ reads[q].version \in Nat
      BY ConstantTypes DEF PInv, SInv, IInv, ReceiverTypeOK
    <3> QED BY ONLY <3>1, <3>2, <3>3
  <2>3. \A n \in Nat : \A w \in n + 1 .. Len(log') :
            \/ log'[w].at = now
            \/ w \in n + 1 .. Len(log) /\ log'[w].at = log[w].at
    BY <1>4 DEF v
  <2>4. DatedStore(store)'
    BY <1>2, <2>2, <2>3 DEF PInv, Dated, DatedStore
  <2>5. copy' # NoCopy => DatedStore(copy)'
    BY <1>2, <2>2, <2>3 DEF PInv, Dated, DatedStore
  <2>6. \A q \in Reads : reads'[q].at = "answered" =>
            /\ reads'[q].iat <= now'
            /\ \A w \in reads'[q].version + 1 .. Len(log') : reads'[q].iat <= log'[w].at
    BY <1>2, <2>2, <2>3 DEF PInv, Dated
  <2> QED BY <2>4, <2>5, <2>6 DEF Dated
<1>12. Resumed'
  <2> SUFFICES ASSUME status' = "enabled", NEW w \in Versions, job'[w] = "withheld"
               PROVE  Settled(w)' /\ (probe'.at = "handed" => Before(w)')
    BY DEF Resumed
  <2>1. job' = [job EXCEPT ![v] = "pending"] /\ status = "enabled"
    BY <1>5, <1>8
  <2>2. w # v /\ job[w] = "withheld"
    BY <1>3, <1>6, <2>1 DEF PInv, SInv, EmitterTypeOK
  <2>3. Settled(w) /\ (probe.at = "handed" => Before(w))
    BY <2>1, <2>2 DEF PInv, Resumed
  <2>4. Before(w) => Before(w)'
    <3> SUFFICES ASSUME Before(w), NEW u \in 1 .. w - 1
                 PROVE  Reached(u)'
      BY DEF Before
    <3>1. u \in Versions /\ u # v
      BY <2>2, EmitterRanges, ConstantTypes DEF PInv, Withholdings, Versions, v
    <3> QED BY <1>2, <1>6, <3>1 DEF Before, Reached
  <2>5. Settled(w)'
    BY <1>2, <2>3, <2>4 DEF Settled, Quiet, Outdated, Recovering
  <2> QED BY <1>2, <2>3, <2>4, <2>5
<1> QED BY <1>1, <1>9, <1>10, <1>11, <1>12 DEF PInv

\* When a stream is enabled again, nothing was heard for longer than the window.
LEMMA ResumePauses ==
    ASSUME OneAgreement, PInv, Resume
    PROVE  PInv'
<1>1. SInv'
  BY ResumeKeeps DEF PInv
<1>2. /\ UNCHANGED <<receiverVars, job, handed, probe, resolvedAt, pausedAt>>
      /\ status = "paused" /\ status' = "enabled" /\ probe.at # "handed"
      /\ reenableAfter < now
  BY DEF Resume
<1>3. UNCHANGED <<now, log, store, copy, known, reads>>
  BY <1>2 DEF receiverVars, storeVars, consumerVars
<1>4. Window' = Window /\ Window \in Nat /\ store.maxStale \in Nat /\ Heartbeat \in Nat
      /\ AtLeast(store.maxStale, Heartbeat) <= Window
  BY <1>1, WindowKept DEF PInv, SInv
<1>5. Timed'
  BY <1>2, <1>3 DEF PInv, Timed
<1>6. Withholdings'
  <2>1. \A v \in Versions : job[v] = "withheld" => v \notin handed /\ Extended(v) /\ log[v].at \in Nat
    BY EmitterRanges DEF PInv, Withholdings
  <2>2. \A v \in Versions : log[v].at \in Nat /\ Extended(v) => Extended(v)'
    BY <1>2, <1>3, <1>4, EmitterRanges DEF PInv, Extended
  <2> QED BY <1>2, <1>3, <2>1, <2>2 DEF PInv, Withholdings
<1>7. Dated'
  BY <1>3 DEF PInv, Dated, DatedStore
<1>8. Quiet(store)' /\ (copy # NoCopy => Quiet(copy)')
  <2>1. store.live \in Int /\ (copy # NoCopy => copy.live \in Int /\ copy.maxStale = store.maxStale)
    BY Ranges, CopyAgreement DEF PInv, SInv
  <2>2. /\ store.live <= resolvedAt /\ (copy # NoCopy => copy.live <= resolvedAt)
        /\ now > AtLeast(resolvedAt, 0) + Window
    BY <1>2, <1>4, EmitterRanges DEF PInv, Timed, AtLeast
  <2>3. \A live \in Int : live <= resolvedAt => now - AtLeast(live, 0) > Window
    BY <1>4, <2>2, EmitterRanges DEF PInv, AtLeast
  <2>4. AtLeast(store.maxStale, Heartbeat) \in Int
    BY <1>4 DEF AtLeast
  <2>5. \A live \in Int : AtLeast(live, 0) \in Int
    BY DEF AtLeast
  <2>6. \A s \in {store, copy} : s.live \in Int /\ s.live <= resolvedAt /\ s.maxStale = store.maxStale
            => now - AtLeast(s.live, 0) > AtLeast(s.maxStale, Heartbeat)
    <3> SUFFICES ASSUME NEW s \in {store, copy}, s.live \in Int, s.live <= resolvedAt,
                        s.maxStale = store.maxStale
                 PROVE  now - AtLeast(s.live, 0) > AtLeast(s.maxStale, Heartbeat)
      OBVIOUS
    <3>1. now - AtLeast(s.live, 0) > Window /\ AtLeast(s.live, 0) \in Int
      BY <2>3, <2>5
    <3>2. AtLeast(s.maxStale, Heartbeat) = AtLeast(store.maxStale, Heartbeat)
      OBVIOUS
    <3>3. now \in Nat
      BY EmitterRanges DEF PInv
    <3> QED BY ONLY <1>4, <2>4, <3>1, <3>2, <3>3
  <2> QED BY <1>3, <2>1, <2>2, <2>6 DEF Quiet
<1>9. Resumed'
  BY <1>2, <1>3, <1>8 DEF Resumed, Settled
<1> QED BY <1>1, <1>5, <1>6, <1>7, <1>9 DEF PInv

LEMMA InitPInv == Init => PInv
<1> SUFFICES ASSUME Init PROVE PInv
  OBVIOUS
<1>1. SInv
  BY InitSInv
<1>2. /\ now = 0 /\ log = <<>> /\ store.live = Never /\ store.source = "signal" /\ copy = NoCopy
      /\ resolvedAt = Never /\ status = "enabled" /\ handed = {}
      /\ \A v \in Versions : job[v] = "none"
      /\ \A q \in Reads : reads[q].at = "idle"
  BY DEF Init, ReceiverInit, NewStore, NoRead
<1> QED BY <1>1, <1>2 DEF PInv, Timed, Withholdings, Dated, DatedStore, Resumed, Never

LEMMA StepPInv == OneAgreement /\ PInv /\ [Next]_vars => PInv'
<1> SUFFICES ASSUME OneAgreement, PInv, [Next]_vars PROVE PInv'
  OBVIOUS
<1>1. ASSUME NEW state \in States, NEW narrows \in BOOLEAN, NEW declared \in BOOLEAN,
             CommitVersion(state, narrows, declared)
      PROVE  PInv'
  BY <1>1, CommitVersionPauses
<1>2. ASSUME NEW v \in Versions, HandOff(v) \/ Receive(v) \/ Acknowledge(v) \/ FailHandOff(v)
      PROVE  PInv'
  BY <1>2, JobStepPauses, ReceivePauses
<1>3. ASSUME NEW acknowledged \in BOOLEAN, EndProbe(acknowledged)
      PROVE  PInv'
  BY <1>3, EndProbePauses
<1>4. CASE RequestVerification \/ SignProbe \/ HandProbe \/ DropProbe \/ HearProbe
  BY <1>4, ProbeStepPauses, HearProbePauses
<1>5. CASE AcknowledgeNotice \/ Resume \/ RestartEmitter \/ ReceiverStep
  BY <1>5, AcknowledgeNoticePauses, ResumePauses, RestartEmitterPauses, ReceiverStepSettles
<1>6. CASE UNCHANGED vars
  <2>1. SInv'
    BY StepSInv DEF PInv
  <2>2. UNCHANGED <<receiverVars, job, handed, probe, status, resolvedAt, reenableAfter, pausedAt>>
    BY <1>6 DEF vars, emitterVars
  <2> QED BY <2>1, <2>2, EmitterStepPauses
<1> QED BY <1>1, <1>2, <1>3, <1>4, <1>5, <1>6 DEF Next

\* While the receiver keeps the agreement it opened with: a stream carries events
\* again only once push state older than what it withheld is stale, and a
\* Mission Status response taken during the pause has expired (pauseStream).
THEOREM PausesOutlastReliance ==
    ASSUME OneAgreement
    PROVE  Spec => []ResumedMeansAged
<1>1. PInv => ResumedMeansAged
  <2> SUFFICES ASSUME PInv, status = "enabled", Relied, NEW v \in Versions,
                      job[v] = "withheld", store.version < v
               PROVE  store.source = "status" /\ store.until - StatusTtl <= pausedAt
    BY DEF ResumedMeansAged
  <2>1. ~Recovering /\ store.version # NoVersion /\ now < store.until /\ ~PushStale
        /\ store.state = "active"
    BY DEF Relied, Lease
  <2>2. /\ store \in Stores /\ store.version \in Nat /\ store.until \in Nat
        /\ store.lineage \in Nat /\ store.generation \in Nat
        /\ store.maxStale \in Nat /\ Heartbeat \in Nat /\ store.live \in Int /\ now \in Nat
    <3>1. store \in Stores /\ store.live \in Int /\ now \in Nat
      BY Ranges DEF PInv, SInv
    <3> QED BY <3>1, ConstantTypes DEF Stores
  <2>3. store.source = "status"
    <3> SUFFICES ASSUME store.source # "status" PROVE FALSE
      OBVIOUS
    <3>1. store.source = "signal"
      BY <2>2 DEF Stores
    <3>2. ~(store.lineage < store.generation) /\ ~StreamStale
      BY <2>1, <3>1 DEF PushStale
    <3>3. ~Quiet(store)
      BY <2>2, <3>2 DEF Quiet, StreamStale, StaleAt, VerifiedLive, Silence, AtLeast
    <3>4. ~Outdated(v)
      BY <2>1, <2>2, <3>1, <3>2, EmitterRanges DEF PInv, Outdated
    <3> QED BY <3>3, <3>4 DEF PInv, Resumed, Settled
  <2>4. v \in store.version + 1 .. Len(log) /\ log[v].at \in Nat
    BY <2>2, EmitterRanges DEF PInv, Withholdings
  <2>5. store.until <= log[v].at + StatusTtl
    BY <2>3, <2>4 DEF PInv, Dated, DatedStore
  <2>6. StatusTtl \in Nat /\ Window \in Nat /\ StatusTtl <= Window
    <3>1. store.maxStale \in MaxStales
      BY <2>2 DEF Stores
    <3> QED BY <2>2, <3>1, ConstantTypes, ToleranceAssumption, StatusCapAssumption
            DEF Window, AtLeast
  <2>7. ~(now >= log[v].at + Window)
    BY <2>1, <2>2, <2>4, <2>5, <2>6
  <2>8. log[v].at <= pausedAt
    BY <2>7 DEF PInv, Withholdings, Extended
  <2> QED BY <2>2, <2>3, <2>4, <2>5, <2>6, <2>8, EmitterRanges DEF PInv
<1> QED BY <1>1, InitPInv, StepPInv, PTL DEF Spec

=============================================================================
