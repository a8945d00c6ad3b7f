---------------------------- MODULE SignalReceiver -----------------------------
(***************************************************************************)
(* The consumer's receiver of lifecycle signals (packages/mission-signals, *)
(* MissionSignalReceiver) for one Mission and one stream, over a network   *)
(* that delays, reorders, duplicates and loses, a clock, Mission Status    *)
(* reads that overtake one another, and a store restored from an older     *)
(* copy under its recovery witness.                                        *)
(*                                                                         *)
(* A step is one transaction of the receiver's store. Here any committed   *)
(* event and any liveness event may arrive at any time; SignalStream puts  *)
(* the issuer's emitter in the place of that network.                      *)
(***************************************************************************)
EXTENDS Integers, Sequences

CONSTANTS
    States,         \* the lifecycle states that occur
    Reads,          \* Mission Status requests a consumer has under way at once
    Heartbeat,      \* the agreed heartbeat interval
    MaxStales,      \* the values mission_max_stale_seconds is agreed at
    StatusTtl,      \* how long a Mission Status response may be relied on
    ExpiresAt,      \* the Mission's expiry
    MaxTime,        \* bound: the clock's last value
    MaxCommits,     \* bound: transitions of the Mission
    MaxRestores,    \* bound: restores of the receiver's store, and crashes in a write
    MaxGenerations  \* bound: generations of the stream

ASSUME SignalAssumption ==
    /\ States \subseteq {"active", "suspended", "terminated"}
    /\ "active" \in States
    /\ MaxStales \subseteq Nat \ {0} /\ MaxStales # {}
    /\ {Heartbeat, StatusTtl, ExpiresAt, MaxTime, MaxCommits, MaxRestores, MaxGenerations} \subseteq Nat

VARIABLES
    now,        \* the clock
    log,        \* log[v]: the commit of the Mission's version v, at the issuer
    store,      \* the receiver's store
    copy,       \* an earlier copy of it, or NoCopy
    lag,        \* whether the witness is ahead of the copy
    witness,    \* the recovery generation the witness holds
    reads,      \* reads[q]: the Mission Status request q
    view,       \* the version at which the consumer last took effective authority
    \* History:
    known,      \* the highest version ever stored
    tainted     \* whether the stream was stale at some instant since the push
                \* state's first event

storeVars == <<store, copy, lag, witness, known, tainted>>
consumerVars == <<reads, view>>
receiverVars == <<now, log, storeVars, consumerVars>>

-----------------------------------------------------------------------------
\* narrows: the commit carries authority_changed, or advances containment.
Commits == [state : States, narrows : BOOLEAN, at : 0 .. MaxTime]

Never == -1
NoVersion == 0

\* The Mission's row, the stream's record, the recovery generation with the one
\* the Mission was released from, and the generation of each recorded nonce.
\* remat is the version a baseline must cover, live the last attested instant.
NewStore ==
    [version |-> NoVersion, state |-> "active", source |-> "signal",
     until |-> 0, gapped |-> FALSE, remat |-> NoVersion, lineage |-> 0,
     live |-> Never, generation |-> 0, staleHeld |-> FALSE,
     maxStale |-> CHOOSE s \in MaxStales : TRUE,
     recovery |-> 0, released |-> 0, nonce |-> [q \in Reads |-> Never]]

Stores ==
    [version : 0 .. MaxCommits, state : States, source : {"signal", "status"},
     until : Nat, gapped : BOOLEAN, remat : 0 .. MaxCommits,
     lineage : 0 .. MaxGenerations, live : {Never} \cup (0 .. MaxTime),
     generation : 0 .. MaxGenerations, staleHeld : BOOLEAN, maxStale : MaxStales,
     recovery : 0 .. MaxRestores, released : 0 .. MaxRestores,
     nonce : [Reads -> {Never} \cup (0 .. MaxRestores)]]

NoCopy == [version |-> Never]

NoRead == [at |-> "idle", version |-> NoVersion, state |-> "active", iat |-> 0]

AtMost(a, b) == IF a <= b THEN a ELSE b
AtLeast(a, b) == IF a >= b THEN a ELSE b

-----------------------------------------------------------------------------
(* What the receiver answers                                               *)

\* Held since a restore that no Mission Status has released it from.
Recovering == store.recovery > 0 /\ store.released < store.recovery

Silence(at) == at - AtLeast(store.live, 0)

VerifiedLive(at) == store.live # Never /\ Silence(at) <= Heartbeat

StaleAt(at) == store.staleHeld \/ (~VerifiedLive(at) /\ Silence(at) > store.maxStale)

StreamStale == StaleAt(now)

PushStale ==
    /\ store.source = "signal" /\ store.state = "active"
    /\ store.lineage < store.generation \/ StreamStale

Lease ==
    /\ ~Recovering
    /\ store.version # NoVersion
    /\ ~store.gapped /\ store.remat = NoVersion
    /\ now < store.until
    /\ ~PushStale

\* The consumer may act on the Mission: the lease says active.
Relied == Lease /\ store.state = "active"

-----------------------------------------------------------------------------
(* The store and its witness                                               *)

\* A witnessed write: the witness moves ahead of any copy.
Write(s) ==
    /\ store' = s
    /\ lag' = TRUE
    /\ known' = AtLeast(known, s.version)
    /\ UNCHANGED <<copy, witness>>

\* The generation admit opens when the witness is ahead of the store s.
NextRecovery(s) == AtLeast(s.recovery, witness) + 1

\* admit: the generation is committed in the store, then written in the witness,
\* and the process may be lost between the two.
Admitted(s) ==
    /\ NextRecovery(s) <= MaxRestores
    /\ store' = [s EXCEPT !.recovery = NextRecovery(s)]
    /\ witness' \in {witness, NextRecovery(s)}

-----------------------------------------------------------------------------
(* Lifecycle events                                                        *)

\* signalReliance: from the issuer's commit, never from the receipt.
Reliance(c) ==
    IF c.state = "active" THEN AtMost(c.at + store.maxStale, ExpiresAt) ELSE ExpiresAt

\* Mutant: each event takes the stream's generation as of its arrival.
LineageOfArrival == store.generation

\* Push state keeps the generation it was first established under.
Lineage ==
    IF store.version = NoVersion \/ store.source = "status"
    THEN store.generation ELSE store.lineage

\* Raised by a narrowing and by a gap; an event never clears it.
Remat(v) == IF log[v].narrows \/ v > store.version + 1 THEN v ELSE store.remat

\* Anti-revive: at or below the last applied, an event records only its jti.
Newer(v) == v > store.version

\* verifyAndApply, applyInTx: the event of version v arrives.
Apply(v) ==
    /\ v \in 1 .. Len(log)
    /\ \/ /\ ~Recovering /\ Newer(v)
          /\ Write([store EXCEPT
                !.version = v, !.state = log[v].state, !.source = "signal",
                !.until = Reliance(log[v]),
                !.gapped = @ \/ v > store.version + 1,
                !.remat = Remat(v), !.lineage = Lineage])
          /\ tainted' = (StreamStale \/ (tainted /\ store.version # NoVersion /\ store.source = "signal"))
       \/ /\ ~Recovering /\ ~Newer(v)
          /\ Write(store)
          /\ UNCHANGED tainted
       \/ /\ Recovering
          /\ UNCHANGED storeVars
    /\ UNCHANGED <<now, log, consumerVars>>

\* Mutant: every liveness event starts a generation.
HearLatching(iat) ==
    /\ iat \in 0 .. now
    /\ Write([store EXCEPT !.live = AtLeast(@, iat), !.generation = @ + 1,
                           !.staleHeld = FALSE])
    /\ UNCHANGED <<now, log, tainted, consumerVars>>

\* applyStreamControlInTx: a verification event signed at iat arrives.
Hear(iat) ==
    /\ iat \in 0 .. now
    /\ StreamStale => store.generation < MaxGenerations
    /\ Write([store EXCEPT
            !.live = AtLeast(@, iat),
            !.generation = IF StreamStale THEN @ + 1 ELSE @,
            !.staleHeld = FALSE])
    /\ UNCHANGED <<now, log, tainted, consumerVars>>

\* applyStreamControlInTx: a Stream Updated event arrives; its status
\* enters no answer modelled here.
HearUpdated ==
    /\ Write(store)
    /\ UNCHANGED <<now, log, tainted, consumerVars>>

\* openStream: the receiver opens under another agreement.
Agree(maxStale) ==
    /\ maxStale \in MaxStales /\ maxStale # store.maxStale
    /\ store.generation < MaxGenerations
    /\ Write([store EXCEPT !.maxStale = maxStale, !.generation = @ + 1,
                           !.staleHeld = StreamStale])
    /\ UNCHANGED <<now, log, tainted, consumerVars>>

-----------------------------------------------------------------------------
(* Mission Status                                                          *)

\* statusNonce: a fresh nonce, under the recovery generation of its request.
AskStatus(q) ==
    /\ reads[q].at = "idle"
    /\ Write([store EXCEPT !.nonce[q] = store.recovery])
    /\ reads' = [reads EXCEPT ![q].at = "asked"]
    /\ UNCHANGED <<now, log, view, tainted>>

\* The issuer answers with the Mission as it is.
AnswerStatus(q) ==
    /\ reads[q].at = "asked" /\ log # <<>>
    /\ reads' = [reads EXCEPT ![q] = [at |-> "answered", version |-> Len(log),
                                      state |-> log[Len(log)].state, iat |-> now]]
    /\ UNCHANGED <<now, log, storeVars, view>>

LoseStatus(q) ==
    /\ reads[q].at # "idle"
    /\ reads' = [reads EXCEPT ![q] = NoRead]
    /\ UNCHANGED <<now, log, storeVars, view>>

StatusReliance(m) ==
    IF m.state = "active" THEN AtMost(m.iat + StatusTtl, ExpiresAt) ELSE m.iat + StatusTtl

\* Mutant: a nonce of any recovery generation will do.
AcceptableAnyGeneration(q) ==
    /\ now < StatusReliance(reads[q])
    /\ store.nonce[q] # Never
    /\ reads[q].version >= store.version

\* Refused when expired, without a nonce of this generation, or behind.
Acceptable(q) ==
    /\ now < StatusReliance(reads[q])
    /\ store.nonce[q] = store.recovery
    /\ reads[q].version >= store.version

\* Mutant: only a gap latches what was skipped.
LatchesOnRead(m) == FALSE

\* A release after a restore, or a version the receiver has not seen, latches.
Latches(m) == Recovering \/ m.version > store.version

\* resynchronize
TakeStatus(q) ==
    LET m == reads[q] IN
    /\ m.at = "answered"
    /\ reads' = [reads EXCEPT ![q] = NoRead]
    /\ \/ /\ Acceptable(q)
          /\ Write([store EXCEPT
                !.version = m.version, !.state = m.state, !.source = "status",
                !.until = StatusReliance(m), !.gapped = FALSE,
                !.remat = IF Latches(m) THEN m.version ELSE @,
                !.lineage = store.generation,
                !.released = IF Recovering THEN store.recovery ELSE @,
                !.nonce = [p \in Reads |-> Never]])
          /\ tainted' = FALSE
       \/ /\ ~Acceptable(q)
          /\ UNCHANGED storeVars
    /\ UNCHANGED <<now, log, view>>

\* The consumer refreshes its effective authority, maybe from an answer given
\* some commits ago.
Refresh ==
    /\ \E v \in view + 1 .. Len(log) : view' = v
    /\ UNCHANGED <<now, log, storeVars, reads>>

Covers(baseline) == baseline >= store.remat

\* markRematerialized, not witnessed: losing it latches again.
MarkRematerialized ==
    /\ ~(store.remat = NoVersion) /\ Covers(view)
    /\ store' = [store EXCEPT !.remat = NoVersion]
    /\ UNCHANGED <<now, log, copy, lag, witness, known, tainted, consumerVars>>

-----------------------------------------------------------------------------
(* The issuer, faults and time                                             *)

StateNow == log[Len(log)].state

\* The Mission is activated, and then changes its state, is narrowed or has its
\* schedule replaced, until it is terminated.
Commit(state, narrows) ==
    /\ Len(log) < MaxCommits
    /\ IF log = <<>> THEN state = "active" /\ ~narrows
       ELSE StateNow # "terminated" /\ (narrows => state = StateNow)
    /\ log' = Append(log, [state |-> state, narrows |-> narrows, at |-> now])
    /\ UNCHANGED <<now, storeVars, consumerVars>>

\* The store's files are copied.
Backup ==
    /\ MaxRestores > 0
    /\ copy = NoCopy
    /\ copy' = store /\ lag' = FALSE
    /\ UNCHANGED <<now, log, store, witness, known, tainted, consumerVars>>

\* The copy takes the store's place and the receiver opens it.
Restore ==
    /\ copy # NoCopy
    /\ \/ lag /\ Admitted(copy)
       \/ ~lag /\ store' = copy /\ UNCHANGED witness
    /\ UNCHANGED <<now, log, copy, lag, known, tainted, consumerVars>>

\* Lost between the witness's write and the commit; the receiver opens again.
CrashInWrite ==
    /\ Admitted(store)
    /\ lag' = TRUE
    /\ UNCHANGED <<now, log, copy, known, tainted, consumerVars>>

\* The clock moves. History: a stale instant taints the push state.
Tick ==
    /\ now < MaxTime
    /\ now' = now + 1
    /\ tainted' = (tainted \/ (store.version # NoVersion /\ store.source = "signal" /\ StaleAt(now + 1)))
    /\ UNCHANGED <<log, store, copy, lag, witness, known, consumerVars>>

-----------------------------------------------------------------------------
ReceiverInit ==
    /\ now = 0 /\ log = <<>>
    /\ store = NewStore
    /\ copy = NoCopy /\ lag = TRUE /\ witness = 0
    /\ reads = [q \in Reads |-> NoRead]
    /\ view = NoVersion
    /\ known = NoVersion /\ tainted = FALSE

ReceiverNext ==
    \/ \E state \in States, narrows \in BOOLEAN : Commit(state, narrows)
    \/ \E v \in 1 .. Len(log) : Apply(v)
    \/ \E iat \in 0 .. now : Hear(iat)
    \/ HearUpdated
    \/ \E s \in MaxStales : Agree(s)
    \/ \E q \in Reads : AskStatus(q) \/ AnswerStatus(q) \/ LoseStatus(q) \/ TakeStatus(q)
    \/ Refresh \/ MarkRematerialized
    \/ Backup \/ Restore \/ CrashInWrite
    \/ Tick

ReceiverSpec == ReceiverInit /\ [][ReceiverNext]_receiverVars

-----------------------------------------------------------------------------
(* Properties                                                              *)

\* Every variable keeps to its range.
ReceiverTypeOK ==
    /\ now \in 0 .. MaxTime
    /\ log \in Seq(Commits) /\ Len(log) <= MaxCommits
    /\ store \in Stores
    /\ copy \in Stores \cup {NoCopy}
    /\ lag \in BOOLEAN /\ tainted \in BOOLEAN
    /\ witness \in 0 .. MaxRestores
    /\ reads \in [Reads -> [at : {"idle", "asked", "answered"}, version : 0 .. MaxCommits,
                            state : States, iat : 0 .. MaxTime]]
    /\ view \in 0 .. MaxCommits /\ known \in 0 .. MaxCommits

\* No lease rests on authority taken before a narrowing the leased version
\* includes: not one whose event was lost, withheld, skipped by a Mission Status
\* read, or lost with a store that was restored.
LeaseIsMaterialized ==
    Relied => \A v \in 1 .. store.version : log[v].narrows => v <= view

\* No lease reports a version older than one the receiver ever stored, although
\* its store may have been replaced by an older copy, more than once.
NeverBehindItself == Lease => store.version = known

\* Active push state that was held across a stale instant of its stream, under
\* whichever agreement, is not relied on until Mission Status.
LatchedAcrossStaleness == Relied /\ store.source = "signal" => ~tainted

=============================================================================
