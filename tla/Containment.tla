----------------------------- MODULE Containment ------------------------------
(***************************************************************************)
(* Mission Containment: an issuer-held overlay that narrows what a Mission *)
(* may derive, and its walk down the child tree (MissionKernel.contain,    *)
(* containOnEvent, propagateContainmentToChildren, and the selectors of    *)
(* mission-core).                                                          *)
(*                                                                         *)
(* A removal comes in two ways. The lifecycle endpoint calls contain       *)
(* inside one transaction, so its walk commits as a whole or not at all. A *)
(* protected event calls it outside any: the parent and every child commit *)
(* one by one. The walk is synchronous, so only the clock, a fault or the  *)
(* loss of the process comes between two of its commits.                   *)
(***************************************************************************)
EXTENDS Integers, Sequences, FiniteSets

CONSTANTS
    Missions,    \* the Mission identifiers
    Root,        \* the parent of a Mission created by an approval
    Parent,      \* Parent[m]: the parent of m, or Root
    Ancestors,   \* Ancestors[m]: the missions above m
    Actions,     \* the actions an entry may permit
    Trees,       \* the resource sets a side can name: one resource, a prefix's tree
    Approved,    \* Approved[m]: the approved Authority Set of m
    Events,      \* event identifiers
    NoEvent,     \* the event of no call
    Manual,      \* the events the lifecycle endpoint takes, with a removal
    Subject,     \* Subject[e]: the one Mission e is reported against
    Remove       \* Remove[e]: the removal of e, the rule's or the request's

\* An Authority Set entry, or a containment selector: a resource set, the one
\* resource of an exact side or the tree of a prefix, and the actions. A
\* selector with no actions member removes an entry whole: every action.
Entry == [over : Trees, actions : (SUBSET Actions) \ {{}}]

\* Two of them that share a resource are nested: a prefix ends at a segment.
ASSUME TreesAssumption ==
    \A s, t \in Trees : s # {} /\ (s \cap t = {} \/ s \subseteq t \/ t \subseteq s)

ASSUME TreeAssumption ==
    /\ Root \notin Missions
    /\ Parent \in [Missions -> Missions \cup {Root}]
    /\ Ancestors \in [Missions -> SUBSET Missions]
    /\ \A m \in Missions :
          Ancestors[m] = IF Parent[m] = Root THEN {}
                         ELSE {Parent[m]} \cup Ancestors[Parent[m]]

ASSUME AuthorityAssumption == Approved \in [Missions -> SUBSET Entry]

ASSUME EventAssumption ==
    /\ NoEvent \notin Events
    /\ Manual \subseteq Events
    /\ Subject \in [Events -> Missions]
    /\ Remove \in [Events -> (SUBSET Entry) \ {{}}]

VARIABLES
    standing,   \* standing[m]: absent, live (active or suspended), or ended
    contained,  \* contained[m]: the committed overlay, merged selectors
    applied,    \* applied[m]: the events of m's containment ledger
    draft,      \* the two of them as the call in progress sees them
    call,       \* the contain call in progress
    answered,   \* the events a caller was told are applied
    cut         \* the protected events whose walk stopped part of the way

vars == <<standing, contained, applied, draft, call, answered, cut>>

-----------------------------------------------------------------------------
\* target is the mission contain is called on, Root between two calls, and
\* frames the walks begun and not finished, the innermost first.
Idle == [event |-> NoEvent, target |-> Root, removal |-> {}, frames |-> <<>>]

-----------------------------------------------------------------------------
(* Selectors and the effective set                                         *)

\* Sets of resources overlap when one lies within the other.
Overlaps(s, e) == s.over \subseteq e.over \/ e.over \subseteq s.over

\* What the selectors S remove from an entry: the union over the overlapping.
RemovalFor(e, S) == UNION {s.actions : s \in {t \in S : Overlaps(t, e)}}

\* Mutant: of two selectors of one resource set the newer is kept.
MergeReplaces(old, new) ==
    {s \in old : \A t \in new : t.over # s.over} \cup new

\* Selectors of one resource set become one, with the union of their actions.
Merge(old, new) ==
    {[over |-> o,
      actions |-> UNION {s.actions : s \in {t \in old \cup new : t.over = o}}] :
        o \in {s.over : s \in old \cup new}}

\* Mutant: the removal is not widened onto the entries.
AtNoEntries(entries, S) == {}

\* Mutant: an entry a selector touches is lost whole.
AtEntriesWhole(entries, S) ==
    {[e EXCEPT !.actions = Actions] : e \in {f \in entries : RemovalFor(f, S) # {}}}

\* The removal as it lands on the entries: each one a selector touches, whole.
AtEntries(entries, S) ==
    Merge({}, {[over |-> e.over, actions |-> RemovalFor(e, S)] :
                 e \in {f \in entries : RemovalFor(f, S) # {}}})

\* effectiveAuthoritySet: the approved entries minus the overlay.
EffectiveUnder(m, overlay) ==
    {f \in {[e EXCEPT !.actions = @ \ RemovalFor(e, overlay)] : e \in Approved[m]} :
        f.actions # {}}

Effective(m) == EffectiveUnder(m, contained[m])

\* isSubsetSet: every entry lies within one entry of the other set.
Within(A, B) ==
    \A a \in A : \E b \in B : a.over \subseteq b.over /\ a.actions \subseteq b.actions

Children(m) == {c \in Missions : Parent[c] = m /\ standing[c] # "absent"}

Descendants(m) == {d \in Missions : m \in Ancestors[d]}

-----------------------------------------------------------------------------
(* The missions themselves                                                 *)

\* createChildMission: the parent's effective set is the child's ceiling.
Create(m) ==
    /\ call = Idle
    /\ standing[m] = "absent"
    /\ Parent[m] # Root => /\ standing[Parent[m]] = "live"
                           /\ Within(Approved[m], Effective(Parent[m]))
    /\ standing' = [standing EXCEPT ![m] = "live"]
    /\ UNCHANGED <<contained, applied, draft, call, answered, cut>>

\* A termination, by a request or by the clock, and its cascade. The clock
\* runs during a call too.
End(m) ==
    /\ standing[m] = "live"
    /\ standing' = [d \in Missions |->
                      IF d \in {m} \cup Descendants(m) /\ standing[d] = "live"
                      THEN "ended" ELSE standing[d]]
    /\ UNCHANGED <<contained, applied, draft, call, answered, cut>>

-----------------------------------------------------------------------------
(* A contain call                                                          *)

\* The request, or the protected event's report.
Report(e) ==
    /\ call = Idle
    /\ standing[Subject[e]] # "absent"
    /\ call' = [event |-> e, target |-> Subject[e], removal |-> Remove[e],
                frames |-> <<>>]
    /\ UNCHANGED <<standing, contained, applied, draft, answered, cut>>

\* contain's own write: under the lifecycle endpoint only the transaction's
\* draft has it, under a protected event it is committed at once.
Write(m, removal) ==
    LET written ==
          [contained |-> [draft.contained EXCEPT ![m] = Merge(@, removal)],
           applied   |-> [draft.applied EXCEPT ![m] = @ \cup {call.event}]]
    IN /\ draft' = written
       /\ IF call.event \in Manual THEN UNCHANGED <<contained, applied>>
          ELSE contained' = written.contained /\ applied' = written.applied

\* contain on a live mission: an event its ledger holds is answered as it
\* stands, with no walk; any other is written and the children come next.
Contain ==
    LET m == call.target IN
    /\ m # Root
    /\ standing[m] = "live"
    /\ IF call.event \in draft.applied[m]
       THEN /\ call' = [call EXCEPT !.target = Root, !.removal = {}]
            /\ UNCHANGED <<contained, applied, draft>>
       ELSE /\ Write(m, Merge({}, call.removal))
            /\ call' = [call EXCEPT
                  !.target = Root, !.removal = {},
                  !.frames = <<[of |-> m, removal |-> Merge({}, call.removal),
                                todo |-> Children(m)]>> \o @]
    /\ UNCHANGED <<standing, answered, cut>>

\* The removals of a frame that reach the child c: widened onto the entries
\* of its parent, and of those the ones that touch an entry of c.
Reaching(frame, c) ==
    {s \in Merge(frame.removal, AtEntries(Approved[frame.of], frame.removal)) :
        \E e \in Approved[c] : Overlaps(s, e)}

\* propagateContainmentToChildren, one child: its clock first, then the
\* removals that reach it. The order of the children is left open.
Visit ==
    /\ call.target = Root
    /\ call.frames # <<>>
    /\ LET frame == Head(call.frames) IN
       \E c \in frame.todo :
          call' = [call EXCEPT
             !.frames = <<[frame EXCEPT !.todo = @ \ {c}]>> \o Tail(@),
             !.target = IF standing[c] = "live" /\ Reaching(frame, c) # {}
                        THEN c ELSE Root,
             !.removal = IF standing[c] = "live" THEN Reaching(frame, c) ELSE {}]
    /\ UNCHANGED <<standing, contained, applied, draft, answered, cut>>

Leave ==
    /\ call.target = Root
    /\ call.frames # <<>>
    /\ Head(call.frames).todo = {}
    /\ call' = [call EXCEPT !.frames = Tail(@)]
    /\ UNCHANGED <<standing, contained, applied, draft, answered, cut>>

\* The call returns and its transaction, if it has one, commits.
Answer ==
    /\ call # Idle
    /\ call.target = Root
    /\ call.frames = <<>>
    /\ contained' = draft.contained
    /\ applied' = draft.applied
    /\ answered' = answered \cup {call.event}
    /\ call' = Idle
    /\ UNCHANGED <<standing, draft, cut>>

\* Mutant: a transaction is left without its rollback.
StopKeepsDraft ==
    /\ call' = Idle
    /\ cut' = IF call.event \notin Manual /\ call.frames # <<>>
              THEN cut \cup {call.event} ELSE cut
    /\ UNCHANGED <<standing, contained, applied, draft, answered>>

\* Nothing catches inside the walk: it ends where it stands, and a
\* transaction is rolled back.
Stop ==
    /\ call' = Idle
    /\ draft' = [contained |-> contained, applied |-> applied]
    /\ cut' = IF call.event \notin Manual /\ call.frames # <<>>
              THEN cut \cup {call.event} ELSE cut
    /\ UNCHANGED <<standing, contained, applied, answered>>

\* contain is refused from a terminal state, which the clock may reach after
\* the walk looked at the child.
Refuse ==
    /\ call.target # Root
    /\ standing[call.target] = "ended"
    /\ Stop

\* A fault of the store, or the loss of the process.
Fail == call # Idle /\ Stop

-----------------------------------------------------------------------------
Init ==
    /\ standing = [m \in Missions |-> "absent"]
    /\ contained = [m \in Missions |-> {}]
    /\ applied = [m \in Missions |-> {}]
    /\ draft = [contained |-> contained, applied |-> applied]
    /\ call = Idle
    /\ answered = {}
    /\ cut = {}

Next ==
    \/ \E m \in Missions : Create(m)
    \/ \E m \in Missions : End(m)
    \/ \E e \in Events : Report(e)
    \/ Contain
    \/ Visit
    \/ Leave
    \/ Answer
    \/ Refuse
    \/ Fail

Spec == Init /\ [][Next]_vars

-----------------------------------------------------------------------------
(* Properties                                                              *)

Overlay == [Missions -> SUBSET Entry]
Ledger == [Missions -> SUBSET Events]
Frame == [of : Missions, removal : SUBSET Entry, todo : SUBSET Missions]

\* Every variable has its type, and outside a transaction what a call would
\* see is what is committed.
TypeOK ==
    /\ standing \in [Missions -> {"absent", "live", "ended"}]
    /\ contained \in Overlay /\ applied \in Ledger
    /\ draft \in [contained : Overlay, applied : Ledger]
    /\ call \in [event : Events \cup {NoEvent}, target : Missions \cup {Root},
                 removal : SUBSET Entry, frames : Seq(Frame)]
    /\ answered \subseteq Events
    /\ cut \subseteq Events
    /\ call.event \notin Manual =>
          draft = [contained |-> contained, applied |-> applied]

\* Between calls no child may derive what its parent lost, in any generation
\* and whenever it was created, a removal finer than the parent's entry
\* included, unless a protected event above it stopped part of the way.
ChildWithinParent ==
    call = Idle =>
        \A m \in Missions :
            /\ standing[m] = "live"
            /\ Parent[m] # Root
            /\ \A e \in cut : Subject[e] \notin Ancestors[m]
            => Within(Effective(m), Effective(Parent[m]))

\* An effective set only narrows: no call, retry, rollback or stop gives an
\* action back.
NarrowsOnly ==
    [][\A m \in Missions : Within(Effective(m)', Effective(m))]_vars

\* What an entry lost, an event against its own mission selects, or an entry
\* of the parent it overlaps lost as well: the walk over-contains no further
\* than the entries of the parent.
LossIsJustified ==
    \A m \in Missions : \A x \in Approved[m] :
        \A a \in x.actions \cap RemovalFor(x, contained[m]) :
            \/ \E e \in applied[m] : Subject[e] = m /\ a \in RemovalFor(x, Remove[e])
            \/ /\ Parent[m] # Root
               /\ \E y \in Approved[Parent[m]] :
                     Overlaps(x, y) /\ a \in RemovalFor(y, contained[Parent[m]])

-----------------------------------------------------------------------------
(* A claim of the comments the code does not keep                          *)

\* "Replaying the same event is safe at every level": a report that was
\* answered as applied has reached every live child below its subject.
AnsweredIsPropagated ==
    call = Idle =>
        \A e \in answered : \A m \in Descendants(Subject[e]) :
            standing[m] = "live" => Within(Effective(m), Effective(Parent[m]))

=============================================================================
