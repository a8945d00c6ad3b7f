-------------------------- MODULE MissionLifecycle --------------------------
(***************************************************************************)
(* The Mission records of one issuer and the lifecycle operations on them: *)
(* creation, child creation, supersession, suspend / resume / revoke /     *)
(* complete, suspension schedules, the expiry clock and the projections    *)
(* down the child tree (kernel/kernel.ts, kernel/termination.ts).          *)
(*                                                                         *)
(* Every action is one transaction of the datastore (withTransaction).     *)
(* The in-transaction recursion over children is written in closed form:   *)
(* Reach(S, m) is the set of descendants the walk from m visits when it    *)
(* goes on only through members of S.                                      *)
(***************************************************************************)
EXTENDS Integers, FiniteSets

CONSTANTS
    Missions,       \* the Mission identifiers that may be created
    Root,           \* the parent of a Mission created by an approval
    Parent,         \* Parent[m]: the immutable parent of m, or Root
    Ancestors,      \* Ancestors[m]: the missions above m
    Predecessor,    \* Predecessor[m]: the Mission m replaces, or Root
    ExpiresAt,      \* ExpiresAt[m]: the immutable expiry instant of m
    Horizon,        \* bound on the clock
    MaxVersion,     \* bound on the state version operators may drive
    DerivationLimit \* the derivation_limit of every Mission

ASSUME RootAssumption == Root \notin Missions

ASSUME TreeAssumption ==
    /\ Parent \in [Missions -> Missions \cup {Root}]
    /\ Ancestors \in [Missions -> SUBSET Missions]
    /\ \A m \in Missions :
          /\ m \notin Ancestors[m]
          /\ Ancestors[m] = IF Parent[m] = Root THEN {}
                            ELSE {Parent[m]} \cup Ancestors[Parent[m]]
          /\ \A a \in Ancestors[m] : Ancestors[a] \subseteq Ancestors[m]
          \* The way up is a finite chain: any of its missions have a lowest.
          /\ \A S \in SUBSET (Ancestors[m] \cup {m}) : S # {} =>
                \E a \in S : \A b \in S : b = a \/ b \in Ancestors[a]

\* A child never expires later than its parent (resolveEffectiveExpiry with
\* the parent as a ceiling).
ASSUME ExpiryAssumption ==
    /\ ExpiresAt \in [Missions -> Nat]
    /\ \A m \in Missions : \A a \in Ancestors[m] : ExpiresAt[m] <= ExpiresAt[a]

\* A successor is approved like a first Mission: it has no parent.
ASSUME SuccessorAssumption ==
    /\ Predecessor \in [Missions -> Missions \cup {Root}]
    /\ \A m \in Missions : Predecessor[m] # Root => Parent[m] = Root

ASSUME BoundAssumption ==
    Horizon \in Nat /\ MaxVersion \in Nat /\ DerivationLimit \in Nat

VARIABLES
    row,   \* row[m]: the stored Mission Record
    now    \* the issuer's clock

vars == <<row, now>>

-----------------------------------------------------------------------------
(* Records                                                                 *)

MissionState == {"absent", "active", "suspended", "terminated"}
Live == {"active", "suspended"}

\* A termination's reason; an own cause is every one but parent_terminated.
Reason == {"none", "revoked", "completed", "expired", "superseded",
           "parent_terminated"}

OnExpiry == {"resume", "revoke"}
NoSchedule == [until |-> 0, on |-> "none", generation |-> 0]
Schedule == [until : Nat, on : OnExpiry, generation : Nat \ {0}]
ScheduleRequest == [until : 1..Horizon, on : OnExpiry]

\* projected is projected_from, whose only stored value is "active"; origin
\* is the mission whose own termination began the cascade (itself for an own
\* cause).
MissionRecord ==
    [state : MissionState, reason : Reason, origin : Missions \cup {Root},
     projected : BOOLEAN, schedule : Schedule \cup {NoSchedule},
     version : Nat,
     derivations : 0..DerivationLimit]

Absent == [state |-> "absent", reason |-> "none", origin |-> Root,
           projected |-> FALSE, schedule |-> NoSchedule, version |-> 0,
           derivations |-> 0]

Lineage(m) == Ancestors[m] \cup {m}
Descendants(m) == {d \in Missions : m \in Ancestors[d]}

\* The missions from a (exclusive) down to its descendant d.
Path(a, d) == {b \in Lineage(d) : a \in Ancestors[b]}

\* The descendants of m a walk that continues only through S visits.
Reach(S, m) == {d \in Descendants(m) : Path(m, d) \subseteq S}

-----------------------------------------------------------------------------
(* Observation: what every decision sees, with no write                    *)

Expired(rw, m) == rw[m].state \in Live /\ ExpiresAt[m] <= now

\* Terminated as recorded, or by its own expiry.
Ended(rw, m) == rw[m].state = "terminated" \/ Expired(rw, m)

EndedInLineage(rw, m) == {a \in Lineage(m) : Ended(rw, a)}

ObservedTerminated(rw, m) == EndedInLineage(rw, m) # {}

Nearest(S) == CHOOSE a \in S : \A b \in S : b = a \/ b \in Ancestors[a]

Cause(reason, origin) == [reason |-> reason, origin |-> origin]

\* The termination an observation gives m: its own expiry first, else
\* parent_terminated with the origin the nearest ended ancestor has.
ObservedCause(rw, m) ==
    LET a == Nearest(EndedInLineage(rw, m)) IN
    IF a = m THEN Cause("expired", m)
    ELSE Cause("parent_terminated",
               IF rw[a].state = "terminated" THEN rw[a].origin ELSE a)

DueSchedule(rw, m) ==
    /\ rw[m].state = "suspended"
    /\ rw[m].schedule # NoSchedule
    /\ rw[m].schedule.until <= now

DueRevoke(rw, m) == DueSchedule(rw, m) /\ rw[m].schedule.on = "revoke"

-----------------------------------------------------------------------------
(* The one state-writing funnel and its walks over the children            *)

Terminated(r, cause) ==
    [r EXCEPT !.state = "terminated", !.reason = cause.reason,
              !.origin = cause.origin, !.schedule = NoSchedule,
              !.version = @ + 1]

\* Mutant: the parent is named, and its own origin not inherited.
CascadeCauseOfParent(rw, m, cause, d) ==
    IF Expired(rw, d) THEN Cause("expired", d)
    ELSE Cause("parent_terminated", Parent[d])

\* The cascade's cause for a live descendant d of a mission terminated with
\* `cause`: its own expiry, else the nearest expired mission on the way down,
\* else the root of the cascade.
CascadeCause(rw, m, cause, d) ==
    LET lapsed == {b \in Path(m, d) : Expired(rw, b)} IN
    IF d \in lapsed THEN Cause("expired", d)
    ELSE Cause("parent_terminated",
               IF lapsed = {} THEN cause.origin ELSE Nearest(lapsed))

\* Mutant: the cascade skips the suspended children.
LiveInActiveOnly(rw) == {d \in Missions : rw[d].state = "active"}

LiveIn(rw) == {d \in Missions : rw[d].state \in Live}

\* setState(roots, terminated) with cascadeChildren, for missions none of
\* which is an ancestor of another.
TerminateAll(rw, roots, cause) ==
    [d \in Missions |->
        IF d \in roots THEN Terminated(rw[d], cause[d])
        ELSE IF \E m \in roots : d \in Reach(LiveIn(rw), m)
        THEN LET m == CHOOSE m \in roots : d \in Reach(LiveIn(rw), m)
             IN Terminated(rw[d], CascadeCause(rw, m, cause[m], d))
        ELSE rw[d]]

Terminate(rw, m, cause) == TerminateAll(rw, {m}, [r \in {m} |-> cause])

\* setState(_, suspended), and under projectedFrom for a held child.
Suspended(r, schedule) ==
    [r EXCEPT !.state = "suspended", !.schedule = schedule, !.version = @ + 1]

SuspendedByParent(r) ==
    [r EXCEPT !.state = "suspended", !.projected = TRUE,
              !.schedule = NoSchedule, !.version = @ + 1]

\* setState(_, active)
Activated(r) ==
    [r EXCEPT !.state = "active", !.projected = FALSE,
              !.schedule = NoSchedule, !.version = @ + 1]

\* setState(m, suspended) with projectSuspendedChildren: an unexpired active
\* descendant is held, and stamped with the state to restore.
SuspendTree(rw, m, schedule) ==
    LET held == Reach({d \in Missions :
                         rw[d].state = "active" /\ ~Expired(rw, d)}, m)
    IN [d \in Missions |->
          IF d = m THEN Suspended(rw[d], schedule)
          ELSE IF d \in held THEN SuspendedByParent(rw[d])
          ELSE rw[d]]

Held(rw) == {d \in Missions : rw[d].state = "suspended" /\ rw[d].projected}

\* Mutant: a restore does not run the expiry clock.
LapsesOnRevokeOnly(rw, d) == DueRevoke(rw, d)

\* The expiry clock run first on a held child ends it instead of restoring it.
LapsesOnRestore(rw, d) == Expired(rw, d) \/ DueRevoke(rw, d)

\* Mutant: a resume restores the children and not their descendants.
ActivateChildrenOnly(rw, m) ==
    [d \in Missions |->
        IF d = m \/ (Parent[d] = m /\ d \in Held(rw) /\ ~LapsesOnRestore(rw, d))
        THEN Activated(rw[d]) ELSE rw[d]]

\* setState(m, active) with restoreProjectedChildren.
ActivateTree(rw, m) ==
    LET restored == Reach({d \in Held(rw) : ~LapsesOnRestore(rw, d)}, m)
        lapsed   == {d \in Held(rw) : LapsesOnRestore(rw, d)
                                      /\ Parent[d] \in restored \cup {m}}
        ended    == TerminateAll(rw, lapsed,
                      [d \in lapsed |->
                         Cause(IF Expired(rw, d) THEN "expired" ELSE "revoked", d)])
    IN [d \in Missions |->
          IF d \in restored \cup {m} THEN Activated(rw[d]) ELSE ended[d]]

\* Mutant: a recorded termination is observed again.
ApplyExpiryToTerminated(rw, m) ==
    IF rw[m].state = "absent" THEN rw
    ELSE IF ObservedTerminated(rw, m)
    THEN Terminate(rw, m, Cause("expired", m))
    ELSE rw

\* applyExpiry: commit the observed termination, else a due schedule.
ApplyExpiry(rw, m) ==
    IF rw[m].state \notin Live THEN rw
    ELSE IF ObservedTerminated(rw, m) THEN Terminate(rw, m, ObservedCause(rw, m))
    ELSE IF ~DueSchedule(rw, m) THEN rw
    ELSE IF DueRevoke(rw, m) THEN Terminate(rw, m, Cause("revoked", m))
    ELSE ActivateTree(rw, m)

-----------------------------------------------------------------------------
(* Operations                                                              *)

\* The bound on versions, for the actions an operator starts.
Bounded == \A m \in Missions : row[m].version < MaxVersion

Created == [Absent EXCEPT !.state = "active", !.version = 1]

\* insertRecord: an identifier is used once and never after its expiry. A
\* child needs its parent active once the expiry clock ran; nothing above the
\* parent is asked.
Create(m) ==
    /\ row[m].state = "absent"
    /\ Predecessor[m] = Root
    /\ now < ExpiresAt[m]
    /\ LET rw == IF Parent[m] = Root THEN row ELSE ApplyExpiry(row, Parent[m])
       IN row' = IF Parent[m] = Root \/ rw[Parent[m]].state = "active"
                 THEN [rw EXCEPT ![m] = Created] ELSE rw
    /\ UNCHANGED now

\* Mutant: the successor is inserted and its predecessor left for later.
SupersedeInsertOnly(m) ==
    /\ row[m].state = "absent"
    /\ Predecessor[m] # Root
    /\ now < ExpiresAt[m]
    /\ row[Predecessor[m]].state = "active"
    /\ row' = [row EXCEPT ![m] = Created]
    /\ UNCHANGED now

\* An approved expansion's completion: the successor is inserted and its
\* predecessor, active as stored and as observed, ends with it, in one
\* transaction that cascades to the predecessor's children.
Supersede(m) ==
    LET p == Predecessor[m] IN
    /\ row[m].state = "absent"
    /\ p # Root
    /\ now < ExpiresAt[m]
    /\ row[p].state = "active"
    /\ ~ObservedTerminated(row, p)
    /\ row' = [Terminate(row, p, Cause("superseded", p)) EXCEPT ![m] = Created]
    /\ UNCHANGED now

\* A decision that reads m: it may persist what it observed.
Observe(m) ==
    /\ row' = ApplyExpiry(row, m)
    /\ UNCHANGED now

NoRequest == [until |-> 0, on |-> "none"]

\* A schedule committed now: its generation is its commit's version.
Armed(request, r) ==
    IF request = NoRequest THEN NoSchedule
    ELSE [until |-> request.until, on |-> request.on, generation |-> r.version + 1]

SameSchedule(r, request) ==
    r.schedule.until = request.until /\ r.schedule.on = request.on

\* transition(suspend), after the expiry clock. Against a suspended Mission
\* only a differing schedule writes anything.
SuspendOp(rw, m, request) ==
    LET schedule == Armed(request, rw[m]) IN
    CASE rw[m].state = "active" -> SuspendTree(rw, m, schedule)
      [] rw[m].state = "suspended" /\ request # NoRequest
                                   /\ ~SameSchedule(rw[m], request) ->
           [rw EXCEPT ![m] = Suspended(@, schedule)]
      [] OTHER -> rw

\* The lifecycle endpoint refuses a deadline already passed.
Suspend(m, request) ==
    /\ Bounded
    /\ request # NoRequest => request.until > now
    /\ row' = SuspendOp(ApplyExpiry(row, m), m, request)
    /\ UNCHANGED now

\* transition(resume): legal only from suspended.
Resume(m) ==
    /\ Bounded
    /\ LET rw == ApplyExpiry(row, m)
       IN row' = IF rw[m].state = "suspended" THEN ActivateTree(rw, m) ELSE rw
    /\ UNCHANGED now

\* transition(revoke) and transition(complete): from any live state.
End(m, reason) ==
    /\ LET rw == ApplyExpiry(row, m)
       IN row' = IF rw[m].state \in Live
                 THEN Terminate(rw, m, Cause(reason, m)) ELSE rw
    /\ UNCHANGED now

\* The derivation gate that admits: the expiry clock changes neither m nor
\* any ancestor, all of them are active, and the conditional count is
\* written. (The clock's own commits are Observe steps; a refusal writes
\* nothing else.)
GateOpen(m) ==
    \A a \in Lineage(m) : row[a].state = "active" /\ ~ObservedTerminated(row, a)

\* Mutant: the count is not conditional on the stored count.
DeriveUncapped(m) ==
    /\ GateOpen(m)
    /\ row' = [row EXCEPT ![m].derivations = @ + 1]
    /\ UNCHANGED now

Derive(m) ==
    /\ GateOpen(m)
    /\ row[m].derivations < DerivationLimit
    /\ row' = [row EXCEPT ![m].derivations = @ + 1]
    /\ UNCHANGED now

Tick ==
    /\ now < Horizon
    /\ now' = now + 1
    /\ UNCHANGED row

-----------------------------------------------------------------------------
Init ==
    /\ row = [m \in Missions |-> Absent]
    /\ now = 0

Operation ==
    \/ \E m \in Missions : Create(m)
    \/ \E m \in Missions : Supersede(m)
    \/ \E m \in Missions : Observe(m)
    \/ \E m \in Missions, request \in ScheduleRequest \cup {NoRequest} :
          Suspend(m, request)
    \/ \E m \in Missions : Resume(m)
    \/ \E m \in Missions, reason \in {"revoked", "completed"} : End(m, reason)
    \/ \E m \in Missions : Derive(m)

Next == Operation \/ Tick

Spec == Init /\ [][Next]_vars

-----------------------------------------------------------------------------
(* Properties                                                              *)

\* Every variable has its type.
TypeOK ==
    /\ row \in [Missions -> MissionRecord]
    /\ now \in 0..Horizon

\* The cascade is complete: no live Mission ever stands under a terminated
\* ancestor, whichever path ended the ancestor (operator, expiry, schedule,
\* supersession) and whatever was suspended or held below it.
NoLiveUnderTerminated ==
    \A m \in Missions : row[m].state \in Live =>
        \A a \in Ancestors[m] : row[a].state # "terminated"

\* A cascaded termination names a root cause: an ancestor that ended by a
\* cause of its own, never one that was itself cascaded
\* (parentTerminatedTermination inherits the origin instead).
OriginIsRootCause ==
    \A m \in Missions : row[m].reason = "parent_terminated" =>
        /\ row[m].origin \in Ancestors[m]
        /\ Ended(row, row[m].origin)
        /\ row[row[m].origin].reason # "parent_terminated"

\* No child is stranded: a child held by a suspend projection always stands
\* under a suspended parent, whose resume or end will free it.
HeldUnderSuspendedParent ==
    \A m \in Missions : row[m].state = "suspended" /\ row[m].projected =>
        Parent[m] # Root /\ row[Parent[m]].state = "suspended"

\* A terminated record is final: neither a second cause, nor a restore, nor
\* an expiry that came later ever rewrites it.
TerminationIsFinal ==
    [][\A m \in Missions : row[m].state = "terminated" => row'[m] = row[m]]_vars

\* Nothing becomes active again at or after its own expiry or an ancestor's,
\* by a resume, a due schedule or a parent's restore (expiry precedence).
NeverRevivedPastExpiry ==
    [][\A m \in Missions :
         row[m].state = "suspended" /\ row'[m].state = "active" =>
            \A a \in Lineage(m) : now < ExpiresAt[a]]_vars

\* Of a Mission and its successor at most one is ever live: the successor's
\* insertion and the predecessor's end are one commit.
OneLiveGeneration ==
    \A m \in Missions : Predecessor[m] # Root =>
        ~(row[m].state \in Live /\ row[Predecessor[m]].state \in Live)

-----------------------------------------------------------------------------
(* A claim of the documents the code does not keep                         *)

\* "While a parent is suspended, the issuer MUST report each dependent
\* child's state as suspended": a child resumed on its own, or by its own
\* schedule, is stored and observed active under its suspended parent.
ChildNeverActiveUnderSuspendedParent ==
    \A m \in Missions :
        /\ Parent[m] # Root
        /\ row[Parent[m]].state = "suspended"
        /\ row[m].state = "active"
        => ObservedTerminated(row, m)

=============================================================================
