--------------------------- MODULE Containment_proofs --------------------------
(* Proofs about containment: that an effective set only narrows, that what an *)
(* entry lost was selected against it or against the entry above it, and that *)
(* between two calls no child may derive what its parent lost, for any tree   *)
(* of missions, any entries and any events.                                   *)
EXTENDS Containment, SequenceTheorems, TLAPS

-----------------------------------------------------------------------------
(* The inductive invariant                                                  *)

Exists(m) == standing[m] # "absent"
Live(m) == standing[m] = "live"

\* Who exists has ancestors that exist, none of them itself, and authority
\* within its parent's.
Family ==
    \A m \in Missions : Exists(m) =>
        /\ m \notin Ancestors[m]
        /\ \A a \in Ancestors[m] : Exists(a)
        /\ Parent[m] # Root => Within(Approved[m], Approved[Parent[m]])

\* What a walk did of m and is still to do: its removal is in the draft, its
\* event in the ledger of m and in none of those to come.
FrameOf(frame) ==
    /\ Exists(frame.of)
    /\ Subject[call.event] \in {frame.of} \cup Ancestors[frame.of]
    /\ call.event \in draft.applied[frame.of]
    /\ \A x \in Entry : RemovalFor(x, frame.removal) \subseteq RemovalFor(x, draft.contained[frame.of])
    /\ \A c \in frame.todo :
        Exists(c) /\ Parent[c] = frame.of /\ call.event \notin draft.applied[c]

\* The walks begun lie on one path down from the event's subject, and the next
\* mission is a child of the last.
Walk ==
    /\ call.event = NoEvent => call = Idle
    /\ \A i \in DOMAIN call.frames :
        /\ FrameOf(call.frames[i])
        /\ \A j \in DOMAIN call.frames : i < j => call.frames[j].of \in Ancestors[call.frames[i].of]
    /\ call.target # Root =>
        /\ Exists(call.target)
        /\ call.frames = <<>> => call.target = Subject[call.event] /\ call.removal = Remove[call.event]
        /\ call.frames # <<>> =>
            /\ Parent[call.target] = call.frames[1].of
            /\ call.target \notin call.frames[1].todo
            /\ call.event \notin draft.applied[call.target]
            /\ call.removal = Reaching(call.frames[1], call.target)

\* An event in a ledger is of the mission or in the ledger above it.
FromAbove(ledger) ==
    \A m \in Missions : \A e \in ledger[m] :
        Subject[e] = m \/ (Parent[m] # Root /\ e \in ledger[Parent[m]])

\* LossIsJustified, of an overlay and a ledger.
Justified(overlay, ledger) ==
    \A m \in Missions : \A x \in Approved[m] :
        \A a \in x.actions \cap RemovalFor(x, overlay[m]) :
            \/ \E e \in ledger[m] : Subject[e] = m /\ a \in RemovalFor(x, Remove[e])
            \/ /\ Parent[m] # Root
               /\ \E y \in Approved[Parent[m]] :
                     Overlaps(x, y) /\ a \in RemovalFor(y, overlay[Parent[m]])

\* The draft has every removal that is committed.
Grown ==
    \A m \in Missions : \A x \in Entry :
        RemovalFor(x, contained[m]) \subseteq RemovalFor(x, draft.contained[m])

\* Each entry of m lies within one of its parent's and lost what that one lost,
\* except what the removal still does to it.
Covered(overlay, m, removal) ==
    Parent[m] # Root =>
        \A x \in Approved[m] : \E y \in Approved[Parent[m]] :
            /\ x.over \subseteq y.over /\ x.actions \subseteq y.actions
            /\ x.actions \cap RemovalFor(y, overlay[Parent[m]])
                \subseteq RemovalFor(x, overlay[m]) \cup RemovalFor(y, removal)

\* A protected event's walk above m was cut short.
Excused(m) == \E e \in cut : Subject[e] \in Ancestors[m]

\* The walk is still to reach m.
Pending(m) ==
    \/ \E i \in DOMAIN call.frames : m \in call.frames[i].todo
    \/ call.target = m /\ call.frames # <<>>

Propagated ==
    /\ \A m \in Missions : Live(m) /\ ~Excused(m) /\ ~Pending(m) => Covered(draft.contained, m, {})
    /\ \A i \in DOMAIN call.frames : \A c \in call.frames[i].todo :
        Live(c) /\ ~Excused(c) => Covered(draft.contained, c, call.frames[i].removal)
    /\ call.target # Root /\ call.frames # <<>> /\ Live(call.target) /\ ~Excused(call.target)
        => Covered(draft.contained, call.target, call.frames[1].removal)

\* What a transaction has not committed changes nothing.
Standing ==
    call.event \in Manual \cup {NoEvent} =>
        \A m \in Missions : Live(m) /\ ~Excused(m) => Covered(contained, m, {})

\* The inductive invariant. Between two calls it is Standing alone that says a
\* child is within its parent; during one, Propagated accounts for the children
\* the walk is still to reach, and Walk for why it reaches each of them once.
IInv ==
    /\ TypeOK /\ Family /\ Walk
    /\ FromAbove(applied) /\ FromAbove(draft.applied)
    /\ Justified(contained, applied) /\ Justified(draft.contained, draft.applied)
    /\ Grown /\ Propagated /\ Standing

-----------------------------------------------------------------------------
(* Selectors                                                                *)

\* A removal from an entry, one selector at a time.
LEMMA RemovalIs ==
    ASSUME NEW x, NEW S, NEW a
    PROVE  a \in RemovalFor(x, S) <=> \E s \in S : Overlaps(s, x) /\ a \in s.actions
  BY DEF RemovalFor

LEMMA EntryParts ==
    ASSUME NEW s \in Entry
    PROVE  /\ s.over \in Trees /\ s.actions \subseteq Actions /\ s.actions # {}
           /\ \A A \in (SUBSET Actions) \ {{}} : [over |-> s.over, actions |-> A] \in Entry
  BY DEF Entry

\* What merged selectors are: of every resource set the actions of all.
LEMMA MergeIs ==
    ASSUME NEW old, NEW new
    PROVE  /\ \A s \in old : \E t \in Merge(old, new) : t.over = s.over /\ s.actions \subseteq t.actions
           /\ \A s \in new : \E t \in Merge(old, new) : t.over = s.over /\ s.actions \subseteq t.actions
           /\ \A t \in Merge(old, new) : \A a \in t.actions : \E s \in old \cup new :
                 s.over = t.over /\ a \in s.actions
<1> DEFINE all == old \cup new
           merged(o) == [over |-> o, actions |-> UNION {s.actions : s \in {t \in all : t.over = o}}]
<1>1. Merge(old, new) = {merged(o) : o \in {s.over : s \in all}}
  BY DEF Merge
<1>2. \A o : merged(o).over = o /\ \A a : a \in merged(o).actions <=> \E s \in all : s.over = o /\ a \in s.actions
  OBVIOUS
<1> HIDE DEF merged, all
<1>3. \A s \in all : \E t \in Merge(old, new) : t.over = s.over /\ s.actions \subseteq t.actions
  BY <1>1, <1>2
<1>4. \A t \in Merge(old, new) : \A a \in t.actions : \E s \in all : s.over = t.over /\ a \in s.actions
  BY <1>1, <1>2
<1> QED BY <1>3, <1>4 DEF all

LEMMA MergeTyped ==
    ASSUME NEW old, NEW new, old \subseteq Entry, new \subseteq Entry
    PROVE  Merge(old, new) \subseteq Entry
<1> SUFFICES ASSUME NEW s \in old \cup new
             PROVE  [over |-> s.over, actions |-> UNION {t.actions : t \in {u \in old \cup new : u.over = s.over}}] \in Entry
  BY DEF Merge
<1> DEFINE A == UNION {t.actions : t \in {u \in old \cup new : u.over = s.over}}
<1>1. s.over \in Trees /\ s.actions \subseteq Actions /\ s.actions # {}
  BY EntryParts
<1>2. A \subseteq Actions
  BY EntryParts
<1>3. s.actions \subseteq A
  OBVIOUS
<1> HIDE DEF A
<1>4. A \in (SUBSET Actions) \ {{}}
  BY <1>1, <1>2, <1>3
<1> QED BY <1>1, <1>4 DEF A, Entry

\* Merging removes what the selectors remove.
LEMMA MergeRemoves ==
    ASSUME NEW old, NEW new, NEW x
    PROVE  RemovalFor(x, Merge(old, new)) = RemovalFor(x, old) \cup RemovalFor(x, new)
<1>1. ASSUME NEW a \in RemovalFor(x, Merge(old, new))
      PROVE  a \in RemovalFor(x, old) \cup RemovalFor(x, new)
  <2>1. PICK t \in Merge(old, new) : Overlaps(t, x) /\ a \in t.actions
    BY RemovalIs
  <2>2. PICK s \in old \cup new : s.over = t.over /\ a \in s.actions
    BY <2>1, MergeIs
  <2>3. Overlaps(s, x)
    BY <2>1, <2>2 DEF Overlaps
  <2> QED BY <2>2, <2>3, RemovalIs
<1>2. ASSUME NEW a \in RemovalFor(x, old) \cup RemovalFor(x, new)
      PROVE  a \in RemovalFor(x, Merge(old, new))
  <2>1. PICK s \in old \cup new : Overlaps(s, x) /\ a \in s.actions
    BY RemovalIs
  <2>2. PICK t \in Merge(old, new) : t.over = s.over /\ s.actions \subseteq t.actions
    BY MergeIs
  <2>3. Overlaps(t, x)
    BY <2>1, <2>2 DEF Overlaps
  <2> QED BY <2>1, <2>2, <2>3, RemovalIs
<1> QED BY <1>1, <1>2

LEMMA NothingRemoved == \A x : RemovalFor(x, {}) = {}
  BY DEF RemovalFor

\* A removal widened onto entries: of each it touches, what it removes from it.
LEMMA AtEntriesIs ==
    ASSUME NEW entries, NEW S
    PROVE  /\ \A y \in entries : \A a \in RemovalFor(y, S) :
                 \E t \in AtEntries(entries, S) : t.over = y.over /\ a \in t.actions
           /\ \A t \in AtEntries(entries, S) : \A a \in t.actions :
                 \E y \in entries : y.over = t.over /\ a \in RemovalFor(y, S)
<1> DEFINE selected == {[over |-> y.over, actions |-> RemovalFor(y, S)] :
                          y \in {f \in entries : RemovalFor(f, S) # {}}}
<1>1. AtEntries(entries, S) = Merge({}, selected)
  BY DEF AtEntries
<1>2. ASSUME NEW y \in entries, NEW a \in RemovalFor(y, S)
      PROVE  [over |-> y.over, actions |-> RemovalFor(y, S)] \in selected
  OBVIOUS
<1>3. \A s \in selected : \E y \in entries : y.over = s.over /\ s.actions = RemovalFor(y, S)
  OBVIOUS
<1> HIDE DEF selected
<1>4. /\ \A s \in selected : \E t \in Merge({}, selected) : t.over = s.over /\ s.actions \subseteq t.actions
      /\ \A t \in Merge({}, selected) : \A a \in t.actions : \E s \in selected : s.over = t.over /\ a \in s.actions
  BY MergeIs
<1>5. ASSUME NEW y \in entries, NEW a \in RemovalFor(y, S)
      PROVE  \E t \in AtEntries(entries, S) : t.over = y.over /\ a \in t.actions
  <2>1. PICK s \in selected : s.over = y.over /\ s.actions = RemovalFor(y, S)
    BY <1>2
  <2> QED BY <1>1, <1>4, <2>1
<1>6. ASSUME NEW t \in AtEntries(entries, S), NEW a \in t.actions
      PROVE  \E y \in entries : y.over = t.over /\ a \in RemovalFor(y, S)
  BY <1>1, <1>3, <1>4
<1> QED BY <1>5, <1>6

LEMMA AtEntriesTyped ==
    ASSUME NEW entries, NEW S, entries \subseteq Entry, S \subseteq Entry
    PROVE  AtEntries(entries, S) \subseteq Entry
<1> DEFINE selected == {[over |-> y.over, actions |-> RemovalFor(y, S)] :
                          y \in {f \in entries : RemovalFor(f, S) # {}}}
<1>1. selected \subseteq Entry
  <2> SUFFICES ASSUME NEW y \in entries, RemovalFor(y, S) # {}
               PROVE  [over |-> y.over, actions |-> RemovalFor(y, S)] \in Entry
    OBVIOUS
  <2>1. RemovalFor(y, S) \subseteq Actions
    BY RemovalIs, EntryParts
  <2> QED BY <2>1, EntryParts
<1>2. AtEntries(entries, S) = Merge({}, selected) /\ {} \subseteq Entry
  BY DEF AtEntries
<1> HIDE DEF selected
<1> QED BY <1>1, <1>2, MergeTyped

\* Mutually overlapping is symmetric; resource sets that share one overlap.
LEMMA OverlapsNested ==
    ASSUME NEW s \in Entry, NEW x \in Entry, NEW y \in Entry, x.over \subseteq y.over
    PROVE  /\ Overlaps(s, x) <=> Overlaps(x, s)
           /\ Overlaps(s, x) => Overlaps(s, y)
           /\ Overlaps(x, y)
<1>1. /\ s.over \in Trees /\ x.over \in Trees /\ y.over \in Trees
      /\ x.over # {} /\ (s.over \cap y.over = {} \/ s.over \subseteq y.over \/ y.over \subseteq s.over)
  BY EntryParts, TreesAssumption
<1> QED BY <1>1 DEF Overlaps

\* What reaches a child: what the parent's entries lose, where it touches it.
LEMMA ReachingIs ==
    ASSUME NEW frame \in Frame, NEW c \in Missions,
           NEW x \in Approved[c], NEW y \in Approved[frame.of], x.over \subseteq y.over
    PROVE  /\ RemovalFor(y, frame.removal) \subseteq RemovalFor(x, Reaching(frame, c))
           /\ \A a \in RemovalFor(x, Reaching(frame, c)) :
                 \E z \in Approved[frame.of] : Overlaps(x, z) /\ a \in RemovalFor(z, frame.removal)
<1> DEFINE R == frame.removal
           above == Approved[frame.of]
           widened == AtEntries(above, R)
           merged == Merge(R, widened)
<1>1. R \in SUBSET Entry /\ above \in SUBSET Entry /\ x \in Entry /\ y \in Entry /\ y \in above
  BY AuthorityAssumption DEF Frame
<1>2. widened \in SUBSET Entry
  BY <1>1, AtEntriesTyped
<1>3. merged \in SUBSET Entry
  BY <1>1, <1>2, MergeTyped
<1>4. Reaching(frame, c) = {s \in merged : \E e \in Approved[c] : Overlaps(s, e)}
  BY DEF Reaching
<1> HIDE DEF R, above, widened, merged
<1>5. ASSUME NEW a \in RemovalFor(y, R)
      PROVE  a \in RemovalFor(x, Reaching(frame, c))
  <2>1. PICK t \in widened : t.over = y.over /\ a \in t.actions
    BY <1>1, AtEntriesIs DEF widened
  <2>2. PICK s \in merged : s.over = t.over /\ t.actions \subseteq s.actions
    BY MergeIs DEF merged
  <2>3. Overlaps(s, x)
    BY <2>1, <2>2 DEF Overlaps
  <2>4. s \in Reaching(frame, c)
    BY <1>4, <2>3
  <2> QED BY <2>1, <2>2, <2>3, <2>4, RemovalIs
<1>6. ASSUME NEW a \in RemovalFor(x, Reaching(frame, c))
      PROVE  \E z \in above : Overlaps(x, z) /\ a \in RemovalFor(z, R)
  <2>1. PICK s \in merged : Overlaps(s, x) /\ a \in s.actions
    BY <1>4, RemovalIs
  <2>2. PICK t \in R \cup widened : t.over = s.over /\ a \in t.actions
    BY <2>1, MergeIs DEF merged
  <2>3. Overlaps(t, x) /\ t \in Entry
    BY <1>1, <1>2, <2>1, <2>2 DEF Overlaps
  <2>4. CASE t \in R
    <3>1. Overlaps(t, y) /\ Overlaps(x, y)
      BY <1>1, <2>3, OverlapsNested DEF above
    <3> QED BY <1>1, <2>2, <2>4, <3>1, RemovalIs
  <2>5. CASE t \in widened
    <3>1. PICK z \in above : z.over = t.over /\ a \in RemovalFor(z, R)
      BY <2>2, <2>5, AtEntriesIs DEF widened
    <3>2. Overlaps(x, z)
      BY <2>3, <3>1 DEF Overlaps
    <3> QED BY <3>1, <3>2
  <2> QED BY <2>4, <2>5
<1> QED BY <1>5, <1>6 DEF R, above

-----------------------------------------------------------------------------
(* Frames and types                                                         *)

LEMMA PushedFrame ==
    ASSUME NEW S, NEW fs \in Seq(S), NEW f \in S
    PROVE  /\ <<f>> \o fs \in Seq(S) /\ <<f>> \o fs # <<>>
           /\ 1 \in DOMAIN (<<f>> \o fs) /\ (<<f>> \o fs)[1] = f
           /\ \A i \in DOMAIN (<<f>> \o fs) :
                i \in Nat /\ (i = 1 \/ (i > 1 /\ i - 1 \in DOMAIN fs /\ (<<f>> \o fs)[i] = fs[i - 1]))
           /\ \A i \in DOMAIN fs :
                i \in Nat /\ i + 1 \in DOMAIN (<<f>> \o fs) /\ (<<f>> \o fs)[i + 1] = fs[i]
<1>1. <<f>> \in Seq(S) /\ Len(<<f>>) = 1 /\ <<f>>[1] = f /\ Len(fs) \in Nat
  OBVIOUS
<1>2. /\ <<f>> \o fs \in Seq(S) /\ Len(<<f>> \o fs) = 1 + Len(fs)
      /\ \A i \in 1..1 + Len(fs) : (<<f>> \o fs)[i] = IF i <= 1 THEN <<f>>[i] ELSE fs[i - 1]
  BY <1>1
<1>3. DOMAIN (<<f>> \o fs) = 1..1 + Len(fs) /\ DOMAIN fs = 1..Len(fs)
  BY <1>2
<1>4. <<f>> \o fs # <<>>
  BY <1>1, <1>2
<1>5. 1 \in 1..1 + Len(fs) /\ (<<f>> \o fs)[1] = f
  BY <1>1, <1>2
<1>6. \A i \in 1..1 + Len(fs) :
        i \in Nat /\ (i = 1 \/ (i > 1 /\ i - 1 \in 1..Len(fs) /\ (<<f>> \o fs)[i] = fs[i - 1]))
  BY <1>1, <1>2
<1>7. \A i \in 1..Len(fs) :
        i \in Nat /\ i + 1 \in 1..1 + Len(fs) /\ (<<f>> \o fs)[i + 1] = fs[i]
  BY <1>1, <1>2
<1> QED BY <1>2, <1>3, <1>4, <1>5, <1>6, <1>7

LEMMA PoppedFrame ==
    ASSUME NEW S, NEW fs \in Seq(S), fs # <<>>
    PROVE  /\ Tail(fs) \in Seq(S) /\ Head(fs) = fs[1] /\ 1 \in DOMAIN fs
           /\ \A i \in DOMAIN fs :
                /\ i \in Nat /\ fs[i] \in S
                /\ i = 1 \/ (i > 1 /\ i - 1 \in DOMAIN Tail(fs) /\ fs[i] = Tail(fs)[i - 1])
           /\ \A i \in DOMAIN Tail(fs) :
                i \in Nat /\ i >= 1 /\ i + 1 \in DOMAIN fs /\ Tail(fs)[i] = fs[i + 1]
<1>1. /\ Len(fs) \in Nat /\ Len(fs) > 0 /\ DOMAIN fs = 1..Len(fs) /\ Head(fs) = fs[1]
      /\ Tail(fs) \in Seq(S) /\ Len(Tail(fs)) = Len(fs) - 1
      /\ \A i \in 1..Len(fs) - 1 : Tail(fs)[i] = fs[i + 1]
      /\ \A i \in 1..Len(fs) : fs[i] \in S
  OBVIOUS
<1>2. DOMAIN Tail(fs) = 1..Len(fs) - 1
  BY <1>1
<1>3. \A i \in 1..Len(fs) :
        i \in Nat /\ (i = 1 \/ (i > 1 /\ i - 1 \in 1..Len(fs) - 1 /\ fs[i] = Tail(fs)[i - 1]))
  BY <1>1
<1>4. \A i \in 1..Len(fs) - 1 : i \in Nat /\ i >= 1 /\ i + 1 \in 1..Len(fs) /\ Tail(fs)[i] = fs[i + 1]
  BY <1>1
<1> QED BY <1>1, <1>2, <1>3, <1>4

\* What the types say of the call and its frames.
LEMMA CallTypes ==
    ASSUME TypeOK, Walk
    PROVE  /\ call.frames \in Seq(Frame)
           /\ \A i \in DOMAIN call.frames : i \in Nat /\ call.frames[i] \in Frame
           /\ call # Idle => call.event \in Events
           /\ call.target # Root => call.target \in Missions /\ call # Idle
           /\ call.frames # <<>> => call # Idle
           /\ call.removal \in SUBSET Entry
           /\ \A m \in Missions : draft.contained[m] \in SUBSET Entry /\ contained[m] \in SUBSET Entry
           /\ \A m \in Missions : Approved[m] \in SUBSET Entry
<1>1. call \in [event : Events \cup {NoEvent}, target : Missions \cup {Root},
                removal : SUBSET Entry, frames : Seq(Frame)]
  BY DEF TypeOK
<1>2. call.frames \in Seq(Frame) /\ call.removal \in SUBSET Entry /\ call.target \in Missions \cup {Root}
      /\ call.event \in Events \cup {NoEvent}
  BY <1>1
<1>3. \A i \in DOMAIN call.frames : i \in Nat /\ call.frames[i] \in Frame
  BY <1>2
<1>4. Idle.target = Root /\ Idle.frames = <<>>
  BY DEF Idle
<1>5. call # Idle => call.event \in Events
  BY <1>2 DEF Walk
<1>6. \A m \in Missions : draft.contained[m] \in SUBSET Entry /\ contained[m] \in SUBSET Entry
  BY DEF TypeOK, Overlay
<1> QED BY <1>2, <1>3, <1>4, <1>5, <1>6, AuthorityAssumption

LEMMA FrameParts ==
    ASSUME NEW f \in Frame
    PROVE  f.of \in Missions /\ f.removal \in SUBSET Entry /\ f.todo \in SUBSET Missions
  BY DEF Frame

\* What is above a child: its parent and what is above that.
LEMMA AncestorsOf ==
    ASSUME NEW m \in Missions, Parent[m] # Root
    PROVE  Parent[m] \in Missions /\ Ancestors[m] = {Parent[m]} \cup Ancestors[Parent[m]]
  BY TreeAssumption

\* The walk is at a mission it has not begun and is not to visit again.
LEMMA WalkIsFresh ==
    ASSUME TypeOK, Family, Walk, call.target # Root
    PROVE  /\ call.target \in Missions /\ call.event \in Events
           /\ call.target \notin Ancestors[call.target] /\ Parent[call.target] # call.target
           /\ Subject[call.event] \in {call.target} \cup Ancestors[call.target]
           /\ \A i \in DOMAIN call.frames :
                /\ call.frames[i].of \in Ancestors[call.target]
                /\ \A c \in call.frames[i].todo : c # call.target /\ Parent[c] # call.target
<1> DEFINE m == call.target
<1>1. m \in Missions /\ call.event \in Events /\ Exists(m)
  BY CallTypes DEF Walk
<1>2. m \notin Ancestors[m] /\ Parent[m] # m
  <2>1. m \notin Ancestors[m]
    BY <1>1 DEF Family
  <2> QED BY <1>1, <2>1, AncestorsOf, TreeAssumption
<1>3. CASE call.frames = <<>>
  BY <1>1, <1>2, <1>3 DEF Walk
<1>4. CASE call.frames # <<>>
  <2>1. /\ call.frames \in Seq(Frame) /\ 1 \in DOMAIN call.frames
        /\ \A i \in DOMAIN call.frames : i \in Nat /\ (i = 1 \/ i > 1)
    BY <1>4, CallTypes, PoppedFrame
  <2>2. Parent[m] = call.frames[1].of /\ m \notin call.frames[1].todo
    BY <1>4 DEF Walk
  <2>3. call.frames[1].of \in Missions /\ Parent[m] # Root
    BY <2>1, <2>2, CallTypes, FrameParts, TreeAssumption
  <2>4. Ancestors[m] = {call.frames[1].of} \cup Ancestors[call.frames[1].of]
    BY <1>1, <2>2, <2>3, AncestorsOf
  <2>5. \A i \in DOMAIN call.frames : FrameOf(call.frames[i])
    BY DEF Walk
  <2>6. ASSUME NEW i \in DOMAIN call.frames
        PROVE  /\ call.frames[i].of \in Ancestors[m]
               /\ i # 1 => call.frames[i].of # call.frames[1].of
    <3>1. CASE i = 1
      BY <2>4, <3>1
    <3>2. CASE i > 1
      <4>1. call.frames[i].of \in Ancestors[call.frames[1].of]
        BY <2>1, <3>2 DEF Walk
      <4>2. call.frames[1].of \notin Ancestors[call.frames[1].of]
        BY <2>1, <2>3, <2>5 DEF FrameOf, Family
      <4> QED BY <2>4, <4>1, <4>2
    <3> QED BY <2>1, <3>1, <3>2
  <2>7. ASSUME NEW i \in DOMAIN call.frames, NEW c \in call.frames[i].todo
        PROVE  c # m /\ Parent[c] # m
    <3>1. Parent[c] = call.frames[i].of
      BY <2>5 DEF FrameOf
    <3> QED BY <1>2, <2>2, <2>6, <3>1
  <2>8. Subject[call.event] \in Ancestors[m]
    BY <2>1, <2>4, <2>5 DEF FrameOf
  <2> QED BY <1>1, <1>2, <2>6, <2>7, <2>8
<1> QED BY <1>3, <1>4

LEMMA ReachingTyped ==
    ASSUME NEW frame \in Frame, NEW c \in Missions
    PROVE  Reaching(frame, c) \in SUBSET Entry
<1>1. frame.removal \subseteq Entry /\ Approved[frame.of] \subseteq Entry
  BY FrameParts, AuthorityAssumption
<1>2. AtEntries(Approved[frame.of], frame.removal) \subseteq Entry
  BY <1>1, AtEntriesTyped
<1>3. Merge(frame.removal, AtEntries(Approved[frame.of], frame.removal)) \subseteq Entry
  BY <1>1, <1>2, MergeTyped
<1> QED BY <1>3 DEF Reaching

-----------------------------------------------------------------------------
(* Coverage and justification                                               *)

\* A child stays covered when only the removal still to come is new above it.
LEMMA CoveredKeeps ==
    ASSUME NEW o1, NEW o2, NEW m \in Missions, NEW R1, NEW R2, Covered(o1, m, R1),
           \A x \in Entry :
              /\ RemovalFor(x, o1[m]) \subseteq RemovalFor(x, o2[m])
              /\ RemovalFor(x, R1) \subseteq RemovalFor(x, R2),
           Parent[m] # Root => \A x \in Entry :
              RemovalFor(x, o2[Parent[m]]) \subseteq RemovalFor(x, o1[Parent[m]]) \cup RemovalFor(x, R2)
    PROVE  Covered(o2, m, R2)
<1> SUFFICES ASSUME Parent[m] # Root, NEW x \in Approved[m]
             PROVE  \E y \in Approved[Parent[m]] :
                      /\ x.over \subseteq y.over /\ x.actions \subseteq y.actions
                      /\ x.actions \cap RemovalFor(y, o2[Parent[m]])
                          \subseteq RemovalFor(x, o2[m]) \cup RemovalFor(y, R2)
  BY DEF Covered
<1>1. PICK y \in Approved[Parent[m]] :
        /\ x.over \subseteq y.over /\ x.actions \subseteq y.actions
        /\ x.actions \cap RemovalFor(y, o1[Parent[m]])
            \subseteq RemovalFor(x, o1[m]) \cup RemovalFor(y, R1)
  BY DEF Covered
<1>2. x \in Entry /\ y \in Entry
  BY AncestorsOf, AuthorityAssumption
<1>3. /\ RemovalFor(x, o1[m]) \subseteq RemovalFor(x, o2[m])
      /\ RemovalFor(y, R1) \subseteq RemovalFor(y, R2)
      /\ RemovalFor(y, o2[Parent[m]]) \subseteq RemovalFor(y, o1[Parent[m]]) \cup RemovalFor(y, R2)
  BY <1>2
<1> QED BY <1>1, <1>3

\* A child that took what reaches it is covered whole.
LEMMA CoveredByReach ==
    ASSUME NEW o1, NEW o2, NEW m \in Missions, NEW f \in Frame,
           Parent[m] # Root, f.of = Parent[m], Covered(o1, m, f.removal),
           \A x \in Entry :
              /\ RemovalFor(x, o1[m]) \cup RemovalFor(x, Reaching(f, m)) \subseteq RemovalFor(x, o2[m])
              /\ RemovalFor(x, o2[Parent[m]]) \subseteq RemovalFor(x, o1[Parent[m]])
    PROVE  Covered(o2, m, {})
<1> SUFFICES ASSUME NEW x \in Approved[m]
             PROVE  \E y \in Approved[Parent[m]] :
                      /\ x.over \subseteq y.over /\ x.actions \subseteq y.actions
                      /\ x.actions \cap RemovalFor(y, o2[Parent[m]])
                          \subseteq RemovalFor(x, o2[m]) \cup RemovalFor(y, {})
  BY DEF Covered
<1>1. PICK y \in Approved[Parent[m]] :
        /\ x.over \subseteq y.over /\ x.actions \subseteq y.actions
        /\ x.actions \cap RemovalFor(y, o1[Parent[m]])
            \subseteq RemovalFor(x, o1[m]) \cup RemovalFor(y, f.removal)
  BY DEF Covered
<1>2. x \in Entry /\ y \in Entry
  BY AncestorsOf, AuthorityAssumption
<1>3. RemovalFor(y, f.removal) \subseteq RemovalFor(x, Reaching(f, m))
  BY <1>1, ReachingIs
<1>4. /\ RemovalFor(x, o1[m]) \cup RemovalFor(x, Reaching(f, m)) \subseteq RemovalFor(x, o2[m])
      /\ RemovalFor(y, o2[Parent[m]]) \subseteq RemovalFor(y, o1[Parent[m]])
  BY <1>2
<1> QED BY <1>1, <1>3, <1>4

\* An entry's effective form.
LEMMA EffectiveIs ==
    ASSUME NEW m \in Missions, NEW overlay
    PROVE  /\ \A f \in EffectiveUnder(m, overlay) : \E e \in Approved[m] :
                f.over = e.over /\ f.actions = e.actions \ RemovalFor(e, overlay) /\ f.actions # {}
           /\ \A e \in Approved[m] : e.actions \ RemovalFor(e, overlay) # {} =>
                \E f \in EffectiveUnder(m, overlay) :
                    f.over = e.over /\ f.actions = e.actions \ RemovalFor(e, overlay)
<1> DEFINE form(e) == [e EXCEPT !.actions = @ \ RemovalFor(e, overlay)]
<1>1. \A e \in Entry : form(e).over = e.over /\ form(e).actions = e.actions \ RemovalFor(e, overlay)
  BY DEF Entry
<1>2. EffectiveUnder(m, overlay) = {f \in {form(e) : e \in Approved[m]} : f.actions # {}}
  BY DEF EffectiveUnder
<1>3. \A e \in Approved[m] : e \in Entry
  BY AuthorityAssumption
<1> HIDE DEF form
<1> QED BY <1>1, <1>2, <1>3

LEMMA CoveredWithin ==
    ASSUME NEW o, NEW m \in Missions, Parent[m] # Root, Covered(o, m, {})
    PROVE  Within(EffectiveUnder(m, o[m]), EffectiveUnder(Parent[m], o[Parent[m]]))
<1> SUFFICES ASSUME NEW f \in EffectiveUnder(m, o[m])
             PROVE  \E g \in EffectiveUnder(Parent[m], o[Parent[m]]) :
                      f.over \subseteq g.over /\ f.actions \subseteq g.actions
  BY DEF Within
<1>1. PICK x \in Approved[m] :
        f.over = x.over /\ f.actions = x.actions \ RemovalFor(x, o[m]) /\ f.actions # {}
  BY EffectiveIs
<1>2. PICK y \in Approved[Parent[m]] :
        /\ x.over \subseteq y.over /\ x.actions \subseteq y.actions
        /\ x.actions \cap RemovalFor(y, o[Parent[m]]) \subseteq RemovalFor(x, o[m]) \cup RemovalFor(y, {})
  BY DEF Covered
<1>3. f.actions \subseteq y.actions \ RemovalFor(y, o[Parent[m]])
  BY <1>1, <1>2, NothingRemoved
<1>4. y.actions \ RemovalFor(y, o[Parent[m]]) # {}
  BY <1>1, <1>3
<1>5. PICK g \in EffectiveUnder(Parent[m], o[Parent[m]]) :
        g.over = y.over /\ g.actions = y.actions \ RemovalFor(y, o[Parent[m]])
  BY <1>4, AncestorsOf, EffectiveIs
<1> QED BY <1>1, <1>2, <1>3, <1>5

\* More removals narrow an effective set.
LEMMA MoreIsNarrower ==
    ASSUME NEW m \in Missions, NEW o1, NEW o2,
           \A x \in Entry : RemovalFor(x, o1) \subseteq RemovalFor(x, o2)
    PROVE  Within(EffectiveUnder(m, o2), EffectiveUnder(m, o1))
<1> SUFFICES ASSUME NEW f \in EffectiveUnder(m, o2)
             PROVE  \E g \in EffectiveUnder(m, o1) : f.over \subseteq g.over /\ f.actions \subseteq g.actions
  BY DEF Within
<1>1. PICK x \in Approved[m] :
        f.over = x.over /\ f.actions = x.actions \ RemovalFor(x, o2) /\ f.actions # {}
  BY EffectiveIs
<1>2. x \in Entry
  BY AuthorityAssumption
<1>3. f.actions \subseteq x.actions \ RemovalFor(x, o1)
  BY <1>1, <1>2
<1>4. x.actions \ RemovalFor(x, o1) # {}
  BY <1>1, <1>3
<1>5. PICK g \in EffectiveUnder(m, o1) : g.over = x.over /\ g.actions = x.actions \ RemovalFor(x, o1)
  BY <1>4, EffectiveIs
<1> QED BY <1>1, <1>3, <1>5

\* A child created within its parent's effective set is covered.
LEMMA CreatedIsCovered ==
    ASSUME NEW o, NEW m \in Missions,
           Parent[m] # Root => Within(Approved[m], EffectiveUnder(Parent[m], o[Parent[m]]))
    PROVE  /\ Covered(o, m, {})
           /\ Parent[m] # Root => Within(Approved[m], Approved[Parent[m]])
<1> SUFFICES ASSUME Parent[m] # Root
             PROVE  \A x \in Approved[m] : \E y \in Approved[Parent[m]] :
                        /\ x.over \subseteq y.over /\ x.actions \subseteq y.actions
                        /\ x.actions \cap RemovalFor(y, o[Parent[m]])
                            \subseteq RemovalFor(x, o[m]) \cup RemovalFor(y, {})
  BY DEF Covered, Within
<1> TAKE x \in Approved[m]
<1>1. PICK g \in EffectiveUnder(Parent[m], o[Parent[m]]) :
        x.over \subseteq g.over /\ x.actions \subseteq g.actions
  BY DEF Within
<1>2. PICK y \in Approved[Parent[m]] :
        g.over = y.over /\ g.actions = y.actions \ RemovalFor(y, o[Parent[m]])
  BY AncestorsOf, EffectiveIs
<1> QED BY <1>1, <1>2

-----------------------------------------------------------------------------
(* The missions' own steps                                                  *)

\* Between two calls nothing is pending and the draft is what is committed.
LEMMA AtRest ==
    ASSUME TypeOK, call = Idle
    PROVE  /\ call.event = NoEvent /\ call.target = Root /\ call.frames = <<>> /\ call.removal = {}
           /\ DOMAIN call.frames = {}
           /\ draft.contained = contained /\ draft.applied = applied
           /\ \A m \in Missions : ~Pending(m)
<1>1. call.event = NoEvent /\ call.target = Root /\ call.frames = <<>> /\ call.removal = {}
  BY DEF Idle
<1>2. call.event \notin Manual
  BY <1>1, EventAssumption
<1>3. draft = [contained |-> contained, applied |-> applied]
  BY <1>2 DEF TypeOK
<1>4. DOMAIN call.frames = {}
  BY <1>1
<1>5. \A m \in Missions : ~Pending(m)
  BY <1>1, <1>4 DEF Pending
<1> QED BY <1>1, <1>3, <1>4, <1>5

\* A child is created at rest: nothing lies below it, and its entries lie
\* within what its parent's entries have left.
LEMMA CreateKeeps ==
    ASSUME IInv, NEW m \in Missions, Create(m)
    PROVE  IInv'
<1> USE DEF IInv
<1>1. /\ call = Idle /\ ~Exists(m) /\ standing' = [standing EXCEPT ![m] = "live"]
      /\ Parent[m] # Root => Live(Parent[m]) /\ Within(Approved[m], EffectiveUnder(Parent[m], contained[Parent[m]]))
      /\ UNCHANGED <<contained, applied, draft, call, answered, cut>>
  BY DEF Create, Exists, Live, Effective
<1>2. TypeOK'
  BY <1>1 DEF TypeOK
<1>3. \A d \in Missions : (d # m => standing'[d] = standing[d]) /\ standing'[m] = "live"
  BY <1>1 DEF TypeOK
<1>4. Family'
  <2> SUFFICES ASSUME NEW d \in Missions, Exists(d)'
               PROVE  /\ d \notin Ancestors[d]
                      /\ \A a \in Ancestors[d] : Exists(a)'
                      /\ Parent[d] # Root => Within(Approved[d], Approved[Parent[d]])
    BY DEF Family
  <2>1. \A a \in Missions : Exists(a) => Exists(a)'
    BY <1>3 DEF Exists
  <2>2. \A a \in Ancestors[d] : a \in Missions
    BY TreeAssumption
  <2>3. CASE d # m
    BY <1>3, <2>1, <2>2, <2>3 DEF Family, Exists
  <2>4. CASE d = m
    <3>1. CASE Parent[m] = Root
      <4>1. Ancestors[m] = {}
        BY <3>1, TreeAssumption
      <4> QED BY <2>4, <3>1, <4>1
    <3>2. CASE Parent[m] # Root
      <4>1. /\ Parent[m] \in Missions /\ Exists(Parent[m])
            /\ Ancestors[m] = {Parent[m]} \cup Ancestors[Parent[m]]
        BY <1>1, <3>2, AncestorsOf DEF Exists, Live
      <4>2. \A a \in Ancestors[m] : Exists(a)
        BY <4>1 DEF Family
      <4>3. m \notin Ancestors[m]
        BY <1>1, <4>2
      <4>4. Within(Approved[m], Approved[Parent[m]])
        BY <1>1, <3>2, CreatedIsCovered
      <4> QED BY <2>1, <2>2, <2>4, <4>2, <4>3, <4>4
    <3> QED BY <3>1, <3>2
  <2> QED BY <2>3, <2>4
<1>5. Standing'
  <2> SUFFICES ASSUME NEW d \in Missions, Live(d)', ~Excused(d)'
               PROVE  Covered(contained, d, {})
    BY <1>1 DEF Standing, Covered
  <2>1. CASE d = m
    BY <1>1, <2>1, CreatedIsCovered
  <2>2. CASE d # m
    BY <1>1, <1>3, <2>2, AtRest DEF Standing, Live, Excused
  <2> QED BY <2>1, <2>2
<1>6. Walk' /\ Propagated'
  <2>1. /\ call'.event = NoEvent /\ call'.target = Root /\ DOMAIN call'.frames = {}
        /\ call' = Idle /\ draft'.contained = contained'
    BY <1>1, AtRest
  <2>2. Walk'
    BY <2>1 DEF Walk, Idle
  <2>3. Propagated'
    BY <1>5, <2>1 DEF Standing, Propagated
  <2> QED BY <2>2, <2>3
<1>7. FromAbove(applied)' /\ FromAbove(draft.applied)'
  BY <1>1 DEF FromAbove
<1>8. Justified(contained, applied)' /\ Justified(draft.contained, draft.applied)'
  BY <1>1 DEF Justified
<1>9. Grown'
  BY <1>1 DEF Grown
<1> QED BY <1>2, <1>4, <1>5, <1>6, <1>7, <1>8, <1>9

\* Who ends still exists, and is owed nothing more.
LEMMA EndKeeps ==
    ASSUME IInv, NEW m \in Missions, End(m)
    PROVE  IInv'
<1> USE DEF IInv
<1>1. UNCHANGED <<contained, applied, draft, call, answered, cut>>
  BY DEF End
<1>2. TypeOK'
  BY DEF TypeOK, End
<1>3. \A d \in Missions : (Live(d)' => Live(d)) /\ (Exists(d)' <=> Exists(d))
  BY DEF End, Live, Exists, TypeOK
<1>4. Family'
  <2>1. \A d \in Missions : Ancestors[d] \subseteq Missions
    BY TreeAssumption
  <2> QED BY <1>3, <2>1 DEF Family
<1>6. \A i \in DOMAIN call.frames : call.frames[i].of \in Missions /\ call.frames[i].todo \subseteq Missions
  BY CallTypes, FrameParts
<1>7. Walk'
  <2>1. ASSUME NEW i \in DOMAIN call.frames
        PROVE  FrameOf(call.frames[i])'
    <3>1. FrameOf(call.frames[i]) /\ call.frames[i]' = call.frames[i]
      BY <1>1 DEF Walk
    <3>2. Exists(call.frames[i].of)' /\ \A c \in call.frames[i].todo : Exists(c)'
      BY <1>1, <1>3, <1>6, <3>1 DEF FrameOf, Exists
    <3> QED BY <1>1, <3>1, <3>2 DEF FrameOf
  <2>2. call.target # Root => Exists(call.target)'
    BY <1>1, <1>3, CallTypes DEF Walk, Exists
  <2> QED BY <1>1, <2>1, <2>2 DEF Walk
<1>8. \A d \in Missions : (Excused(d)' <=> Excused(d)) /\ (Pending(d)' <=> Pending(d))
  BY <1>1 DEF Excused, Pending
<1>9. Propagated'
  <2>1. \A i \in DOMAIN call.frames : \A c \in call.frames[i].todo : c \in Missions
    BY <1>6
  <2>2. call.target # Root => call.target \in Missions
    BY CallTypes
  <2> QED BY <1>1, <1>3, <1>8, <2>1, <2>2 DEF Propagated, Covered
<1>10. Standing'
  BY <1>1, <1>3, <1>8 DEF Standing, Covered
<1>11. FromAbove(applied)' /\ FromAbove(draft.applied)'
  BY <1>1 DEF FromAbove
<1>12. Justified(contained, applied)' /\ Justified(draft.contained, draft.applied)'
  BY <1>1 DEF Justified
<1>13. Grown'
  BY <1>1 DEF Grown
<1> QED BY <1>2, <1>4, <1>7, <1>9, <1>10, <1>11, <1>12, <1>13

-----------------------------------------------------------------------------
(* The call                                                                 *)

\* A call that changes alone leaves what is stored as it stands.
LEMMA StoresKept ==
    ASSUME IInv, UNCHANGED <<standing, contained, applied, draft>>
    PROVE  /\ Family' /\ FromAbove(applied)' /\ FromAbove(draft.applied)'
           /\ Justified(contained, applied)' /\ Justified(draft.contained, draft.applied)'
           /\ Grown'
<1>1. Family'
  BY DEF IInv, Family, Exists
<1>2. FromAbove(applied)' /\ FromAbove(draft.applied)'
  BY DEF IInv, FromAbove
<1>3. Justified(contained, applied)' /\ Justified(draft.contained, draft.applied)'
  BY DEF IInv, Justified
<1>4. Grown'
  BY DEF IInv, Grown
<1> QED BY <1>1, <1>2, <1>3, <1>4

\* A report begins a call, with nothing walked.
LEMMA ReportKeeps ==
    ASSUME IInv, NEW e \in Events, Report(e)
    PROVE  IInv'
<1> USE DEF IInv
<1>1. /\ call = Idle /\ Exists(Subject[e]) /\ e # NoEvent
      /\ call' = [event |-> e, target |-> Subject[e], removal |-> Remove[e], frames |-> <<>>]
      /\ UNCHANGED <<standing, contained, applied, draft, answered, cut>>
  BY EventAssumption DEF Report, Exists
<1>2. /\ call'.event = e /\ call'.target = Subject[e] /\ call'.removal = Remove[e] /\ call'.frames = <<>>
      /\ DOMAIN call'.frames = {}
  BY <1>1
<1>3. TypeOK'
  <2>1. call' \in [event : Events \cup {NoEvent}, target : Missions \cup {Root},
                   removal : SUBSET Entry, frames : Seq(Frame)]
    <3>1. Subject[e] \in Missions /\ Remove[e] \in SUBSET Entry /\ <<>> \in Seq(Frame)
      BY EventAssumption
    <3> QED BY <1>1, <3>1
  <2>2. draft = [contained |-> contained, applied |-> applied]
    BY <1>1, AtRest, EventAssumption DEF TypeOK
  <2> QED BY <1>1, <2>1, <2>2 DEF TypeOK
<1>4. Walk'
  BY <1>1, <1>2 DEF Walk, Exists
<1>5. \A m \in Missions : Live(m) /\ ~Excused(m) => Covered(contained, m, {})
  BY <1>1, AtRest DEF Standing
<1>6. Propagated'
  BY <1>1, <1>2, <1>5, AtRest DEF Propagated, Live, Excused, Covered
<1>7. Standing'
  BY <1>1, <1>5 DEF Standing, Live, Excused, Covered
<1> QED BY <1>1, <1>3, <1>4, <1>6, <1>7, StoresKept

\* A walk at its end is forgotten.
LEMMA LeaveKeeps ==
    ASSUME IInv, Leave
    PROVE  IInv'
<1> USE DEF IInv
<1> DEFINE fs == call.frames
<1>1. /\ call.target = Root /\ fs # <<>> /\ Head(fs).todo = {}
      /\ call' = [call EXCEPT !.frames = Tail(fs)]
      /\ UNCHANGED <<standing, contained, applied, draft, answered, cut>>
  BY DEF Leave
<1>2. /\ call'.event = call.event /\ call'.target = Root /\ call'.frames = Tail(fs)
      /\ call.event \in Events /\ call.event # NoEvent
  BY <1>1, CallTypes, EventAssumption DEF TypeOK
<1>3. /\ Tail(fs) \in Seq(Frame) /\ Head(fs) = fs[1]
      /\ \A i \in DOMAIN fs : i \in Nat /\ (i = 1 \/ (i > 1 /\ i - 1 \in DOMAIN Tail(fs) /\ fs[i] = Tail(fs)[i - 1]))
      /\ \A i \in DOMAIN Tail(fs) : i \in Nat /\ i + 1 \in DOMAIN fs /\ Tail(fs)[i] = fs[i + 1]
  <2>1. call.frames \in Seq(Frame) /\ call.frames # <<>>
    BY <1>1, CallTypes
  <2> QED BY ONLY <2>1, PoppedFrame
<1>4. TypeOK'
  BY <1>1, <1>3 DEF TypeOK
<1>6. Walk'
  <2>1. ASSUME NEW i \in DOMAIN call'.frames
        PROVE  FrameOf(call.frames[i])'
    <3>1. i + 1 \in DOMAIN fs /\ call'.frames[i] = fs[i + 1]
      BY <1>2, <1>3
    <3>2. FrameOf(fs[i + 1])
      BY <3>1 DEF Walk
    <3> QED BY <1>1, <1>2, <3>1, <3>2 DEF FrameOf, Exists
  <2>2. ASSUME NEW i \in DOMAIN Tail(fs), NEW j \in DOMAIN Tail(fs), i < j
        PROVE  Tail(fs)[j].of \in Ancestors[Tail(fs)[i].of]
    <3>1. i + 1 \in DOMAIN fs /\ j + 1 \in DOMAIN fs /\ i + 1 < j + 1
      BY <1>3, <2>2
    <3>2. fs[j + 1].of \in Ancestors[fs[i + 1].of]
      BY <3>1 DEF Walk
    <3> QED BY <1>3, <3>2
  <2> QED BY <1>2, <2>1, <2>2 DEF Walk
<1>7. \A m \in Missions : Pending(m) => Pending(m)'
  <2> SUFFICES ASSUME NEW m \in Missions, Pending(m)
               PROVE  Pending(m)'
    OBVIOUS
  <2>1. PICK i \in DOMAIN fs : m \in fs[i].todo
    <3>1. m # Root
      BY TreeAssumption
    <3> QED BY <1>1, <3>1 DEF Pending
  <2>2. i # 1
    BY <1>1, <1>3, <2>1
  <2>3. i - 1 \in DOMAIN Tail(fs) /\ m \in Tail(fs)[i - 1].todo
    BY <1>3, <2>1, <2>2
  <2> QED BY <1>2, <2>3 DEF Pending
<1>8. \A m \in Missions : (Live(m)' <=> Live(m)) /\ (Excused(m)' <=> Excused(m))
  BY <1>1 DEF Live, Excused
<1>9. Propagated'
  <2>1. \A m \in Missions : Live(m)' /\ ~Excused(m)' /\ ~Pending(m)' => Covered(draft.contained, m, {})
    BY <1>7, <1>8 DEF Propagated
  <2>2. \A i \in DOMAIN Tail(fs) : \A c \in Tail(fs)[i].todo :
            Live(c)' /\ ~Excused(c)' => Covered(draft.contained, c, Tail(fs)[i].removal)
    BY <1>1, <1>3 DEF Propagated, Live, Excused
  <2>3. (draft.contained)' = draft.contained
    BY <1>1
  <2> QED BY <1>2, <2>1, <2>2, <2>3 DEF Propagated, Covered
<1>10. Standing'
  BY <1>1, <1>2, <1>8 DEF Standing, Covered
<1> QED BY <1>1, <1>4, <1>6, <1>9, <1>10, StoresKept

\* A step that ends the call owes nothing when every child it leaves is covered.
LEMMA CallEnds ==
    ASSUME call' = Idle, draft'.contained = contained', standing' = standing,
           \A m \in Missions : Live(m) /\ ~Excused(m)' => Covered(contained', m, {})
    PROVE  Walk' /\ Propagated' /\ Standing'
<1>1. call'.event = NoEvent /\ call'.target = Root /\ DOMAIN call'.frames = {}
  BY DEF Idle
<1>2. Walk'
  BY <1>1 DEF Walk, Idle
<1>3. Propagated' /\ Standing'
  BY <1>1 DEF Propagated, Standing, Live
<1> QED BY <1>2, <1>3

\* Who is pending has the event's subject above it.
LEMMA PendingIsBelow ==
    ASSUME TypeOK, Walk, NEW m \in Missions, Pending(m)
    PROVE  Subject[call.event] \in Ancestors[m] /\ call.frames # <<>>
<1>1. PICK i \in DOMAIN call.frames : Parent[m] = call.frames[i].of
  <2>1. CASE \E i \in DOMAIN call.frames : m \in call.frames[i].todo
    BY <2>1 DEF Walk, FrameOf
  <2>2. CASE call.target = m /\ call.frames # <<>>
    <3>1. 1 \in DOMAIN call.frames
      BY <2>2, CallTypes, PoppedFrame
    <3>2. m # Root
      BY TreeAssumption
    <3> QED BY <2>2, <3>1, <3>2 DEF Walk
  <2> QED BY <2>1, <2>2 DEF Pending
<1>2. Subject[call.event] \in {call.frames[i].of} \cup Ancestors[call.frames[i].of]
  BY DEF Walk, FrameOf
<1>3. call.frames[i].of \in Missions
  BY CallTypes, FrameParts
<1>4. Parent[m] # Root
  BY <1>1, <1>3, TreeAssumption
<1>5. call.frames # <<>>
  BY <1>1
<1> QED BY <1>1, <1>2, <1>4, <1>5, AncestorsOf

\* A call that stops leaves covered whom no cut walk is above.
LEMMA StopKeeps ==
    ASSUME IInv, Stop
    PROVE  IInv'
<1> USE DEF IInv
<1>1. /\ call' = Idle /\ draft' = [contained |-> contained, applied |-> applied]
      /\ cut' = IF call.event \notin Manual /\ call.frames # <<>> THEN cut \cup {call.event} ELSE cut
      /\ UNCHANGED <<standing, contained, applied, answered>>
  BY DEF Stop
<1>2. draft'.contained = contained /\ draft'.applied = applied
  BY <1>1
<1>3. TypeOK'
  <2>1. Idle \in [event : Events \cup {NoEvent}, target : Missions \cup {Root},
                  removal : SUBSET Entry, frames : Seq(Frame)]
    BY DEF Idle
  <2>2. cut' \subseteq Events
    BY <1>1, CallTypes DEF TypeOK
  <2> QED BY <1>1, <2>1, <2>2 DEF TypeOK
<1>4. ASSUME NEW m \in Missions, Live(m), ~Excused(m)'
      PROVE  Covered(contained, m, {})
  <2>1. ~Excused(m)
    BY <1>1, <1>4 DEF Excused
  <2>2. CASE call.event \in Manual \cup {NoEvent}
    BY <1>4, <2>1, <2>2 DEF Standing
  <2>3. CASE call.event \notin Manual \cup {NoEvent}
    <3>1. draft.contained = contained
      BY <2>3 DEF TypeOK
    <3>2. ~Pending(m)
      <4>1. CASE call.frames = <<>>
        BY <4>1, PendingIsBelow
      <4>2. CASE call.frames # <<>>
        <5>1. Subject[call.event] \notin Ancestors[m]
          BY <1>1, <1>4, <2>3, <4>2 DEF Excused
        <5> QED BY <5>1, PendingIsBelow
      <4> QED BY <4>1, <4>2
    <3> QED BY <1>4, <2>1, <3>1, <3>2 DEF Propagated
  <2> QED BY <2>2, <2>3
<1>5. Walk' /\ Propagated' /\ Standing'
  BY <1>1, <1>2, <1>4, CallEnds
<1>6. Family'
  BY <1>1 DEF Family, Exists
<1>7. FromAbove(applied)' /\ FromAbove(draft.applied)'
  BY <1>1, <1>2 DEF FromAbove
<1>8. Justified(contained, applied)' /\ Justified(draft.contained, draft.applied)'
  BY <1>1, <1>2 DEF Justified
<1>9. Grown'
  BY <1>1, <1>2 DEF Grown
<1> QED BY <1>3, <1>5, <1>6, <1>7, <1>8, <1>9

\* A call that is answered has reached everyone.
LEMMA AnswerKeeps ==
    ASSUME IInv, Answer
    PROVE  IInv'
<1> USE DEF IInv
<1>1. /\ call # Idle /\ call.target = Root /\ call.frames = <<>> /\ call' = Idle
      /\ contained' = draft.contained /\ applied' = draft.applied
      /\ answered' = answered \cup {call.event} /\ UNCHANGED <<standing, draft, cut>>
  BY DEF Answer
<1>2. TypeOK'
  <2>1. Idle \in [event : Events \cup {NoEvent}, target : Missions \cup {Root},
                  removal : SUBSET Entry, frames : Seq(Frame)]
    BY DEF Idle
  <2>2. answered' \subseteq Events
    BY <1>1, CallTypes DEF TypeOK
  <2>3. draft' = [contained |-> contained', applied |-> applied']
        /\ contained' \in Overlay /\ applied' \in Ledger
    BY <1>1 DEF TypeOK
  <2> QED BY <1>1, <2>1, <2>2, <2>3 DEF TypeOK
<1>3. ASSUME NEW m \in Missions, Live(m), ~Excused(m)'
      PROVE  Covered(contained', m, {})
  <2>1. ~Excused(m) /\ ~Pending(m)
    BY <1>1, <1>3, PendingIsBelow DEF Excused
  <2> QED BY <1>1, <1>3, <2>1 DEF Propagated
<1>4. Walk' /\ Propagated' /\ Standing'
  BY <1>1, <1>3, CallEnds
<1>5. Family'
  BY <1>1 DEF Family, Exists
<1>6. FromAbove(applied)' /\ FromAbove(draft.applied)'
  BY <1>1 DEF FromAbove
<1>7. Justified(contained, applied)' /\ Justified(draft.contained, draft.applied)'
  BY <1>1 DEF Justified
<1>8. Grown'
  BY <1>1 DEF Grown
<1> QED BY <1>2, <1>4, <1>5, <1>6, <1>7, <1>8

\* The walk looks at one child: what reaches it is what it is still owed.
LEMMA VisitKeeps ==
    ASSUME IInv, Visit
    PROVE  IInv'
<1> USE DEF IInv
<1> DEFINE fs == call.frames
           frame == Head(fs)
<1>1. /\ call.target = Root /\ fs # <<>> /\ fs \in Seq(Frame)
      /\ UNCHANGED <<standing, contained, applied, draft, answered, cut>>
  BY CallTypes DEF Visit
<1>2. PICK c \in frame.todo :
        call' = [call EXCEPT
             !.frames = <<[frame EXCEPT !.todo = @ \ {c}]>> \o Tail(@),
             !.target = IF standing[c] = "live" /\ Reaching(frame, c) # {} THEN c ELSE Root,
             !.removal = IF standing[c] = "live" THEN Reaching(frame, c) ELSE {}]
  BY DEF Visit
<1> DEFINE g == [frame EXCEPT !.todo = @ \ {c}]
           gs == <<g>> \o Tail(fs)
<1>3. /\ Tail(fs) \in Seq(Frame) /\ frame = fs[1] /\ 1 \in DOMAIN fs
      /\ \A i \in DOMAIN fs : i \in Nat /\ fs[i] \in Frame
            /\ (i = 1 \/ (i > 1 /\ i - 1 \in DOMAIN Tail(fs) /\ fs[i] = Tail(fs)[i - 1]))
      /\ \A i \in DOMAIN Tail(fs) : i \in Nat /\ i >= 1 /\ i + 1 \in DOMAIN fs /\ Tail(fs)[i] = fs[i + 1]
  BY ONLY <1>1, PoppedFrame
<1>4. /\ g \in Frame /\ g.of = frame.of /\ g.removal = frame.removal /\ g.todo = frame.todo \ {c}
      /\ frame \in Frame /\ c \in Missions
  BY <1>3 DEF Frame
<1> HIDE DEF g
<1>5. /\ gs \in Seq(Frame) /\ gs # <<>> /\ 1 \in DOMAIN gs /\ gs[1] = g
      /\ \A i \in DOMAIN gs :
            i \in Nat /\ (i = 1 \/ (i > 1 /\ i - 1 \in DOMAIN Tail(fs) /\ gs[i] = Tail(fs)[i - 1]))
      /\ \A i \in DOMAIN Tail(fs) :
            i \in Nat /\ i + 1 \in DOMAIN gs /\ gs[i + 1] = Tail(fs)[i]
  BY ONLY <1>3, <1>4, PushedFrame
<1> HIDE DEF gs, fs, frame
<1>6. \A i \in DOMAIN gs : /\ i \in DOMAIN fs /\ gs[i].of = fs[i].of /\ gs[i].removal = fs[i].removal
                           /\ gs[i].todo \subseteq fs[i].todo
  <2> SUFFICES ASSUME NEW i \in DOMAIN gs
               PROVE  /\ i \in DOMAIN fs /\ gs[i].of = fs[i].of /\ gs[i].removal = fs[i].removal
                      /\ gs[i].todo \subseteq fs[i].todo
    OBVIOUS
  <2>1. CASE i = 1
    BY <1>3, <1>4, <1>5, <2>1
  <2>2. CASE i > 1
    <3>1. i \in Nat /\ i - 1 \in DOMAIN Tail(fs) /\ gs[i] = Tail(fs)[i - 1]
      BY <1>5, <2>2
    <3>2. (i - 1) + 1 = i
      BY <3>1
    <3>3. i \in DOMAIN fs /\ gs[i] = fs[i]
      BY <1>3, <3>1, <3>2
    <3> QED BY <3>3
  <2> QED BY <1>5, <2>1, <2>2
<1>7. \A i \in DOMAIN fs : i # 1 => i \in DOMAIN gs /\ gs[i] = fs[i]
  <2> SUFFICES ASSUME NEW i \in DOMAIN fs, i # 1 PROVE i \in DOMAIN gs /\ gs[i] = fs[i]
    OBVIOUS
  <2>1. i \in Nat /\ i - 1 \in DOMAIN Tail(fs) /\ fs[i] = Tail(fs)[i - 1]
    BY <1>3
  <2>2. (i - 1) + 1 = i
    BY <2>1
  <2> QED BY <1>5, <2>1, <2>2
<1>8. /\ call'.event = call.event /\ call'.frames = gs
      /\ call'.target = IF Live(c) /\ Reaching(frame, c) # {} THEN c ELSE Root
      /\ call'.removal = IF Live(c) THEN Reaching(frame, c) ELSE {}
      /\ call.event \in Events /\ call.event # NoEvent
  BY <1>1, <1>2, CallTypes, EventAssumption DEF TypeOK, gs, g, fs, frame, Live
<1>9. TypeOK'
  <2>1. call' \in [event : Events \cup {NoEvent}, target : Missions \cup {Root},
                   removal : SUBSET Entry, frames : Seq(Frame)]
    <3>1. call' = [call EXCEPT !.frames = gs, !.target = call'.target, !.removal = call'.removal]
      BY <1>2 DEF gs, g, fs, frame, TypeOK
    <3>2. call'.target \in Missions \cup {Root} /\ call'.removal \in SUBSET Entry
      BY <1>4, <1>8, ReachingTyped
    <3> QED BY <1>5, <3>1, <3>2 DEF TypeOK
  <2> QED BY <1>1, <1>8, <2>1 DEF TypeOK
<1>10. \A i \in DOMAIN fs : FrameOf(fs[i])
  BY DEF Walk, fs
<1>11. /\ Exists(c) /\ Parent[c] = frame.of /\ call.event \notin draft.applied[c] /\ frame.of \in Missions
       /\ Parent[c] # Root
  BY <1>3, <1>4, <1>10, FrameParts, TreeAssumption DEF FrameOf
<1>12. Walk'
  <2>1. ASSUME NEW i \in DOMAIN call'.frames
        PROVE  FrameOf(call.frames[i])'
    <3>1. i \in DOMAIN gs
      BY <1>8
    <3>2. /\ i \in DOMAIN fs /\ gs[i].of = fs[i].of /\ gs[i].removal = fs[i].removal
          /\ gs[i].todo \subseteq fs[i].todo
      BY <1>6, <3>1
    <3>3. /\ Exists(gs[i].of) /\ Subject[call.event] \in {gs[i].of} \cup Ancestors[gs[i].of]
          /\ call.event \in draft.applied[gs[i].of]
          /\ \A x \in Entry : RemovalFor(x, gs[i].removal) \subseteq RemovalFor(x, draft.contained[gs[i].of])
          /\ \A d \in gs[i].todo :
                Exists(d) /\ Parent[d] = gs[i].of /\ call.event \notin draft.applied[d]
      BY <1>10, <3>2 DEF FrameOf
    <3> QED BY <1>1, <1>8, <3>3 DEF FrameOf, Exists
  <2>2. ASSUME NEW i \in DOMAIN gs, NEW j \in DOMAIN gs, i < j
        PROVE  gs[j].of \in Ancestors[gs[i].of]
    BY <1>6, <2>2 DEF Walk, fs
  <2>3. call'.target # Root =>
            /\ call'.target = c /\ Exists(c)' /\ gs # <<>>
            /\ Parent[c] = gs[1].of /\ c \notin gs[1].todo
            /\ call'.event \notin draft'.applied[c]
            /\ call'.removal = Reaching(gs[1], c)
    <3>1. Reaching(g, c) = Reaching(frame, c)
      BY <1>4 DEF Reaching
    <3> QED BY <1>1, <1>4, <1>5, <1>8, <1>11, <3>1 DEF Exists
  <2> QED BY <1>8, <2>1, <2>2, <2>3 DEF Walk
<1>13. \A m \in Missions : (Live(m)' <=> Live(m)) /\ (Excused(m)' <=> Excused(m))
  BY <1>1 DEF Live, Excused
<1>14. Live(c) /\ ~Excused(c) => Covered(draft.contained, c, frame.removal)
  BY <1>3 DEF Propagated, fs
<1>15. \A m \in Missions : Live(m)' /\ ~Excused(m)' /\ ~Pending(m)' => Covered(draft.contained, m, {})
  <2> SUFFICES ASSUME NEW m \in Missions, Live(m), ~Excused(m), ~Pending(m)'
               PROVE  Covered(draft.contained, m, {})
    BY <1>13
  <2>1. CASE ~Pending(m)
    BY <2>1 DEF Propagated
  <2>2. CASE Pending(m)
    <3>1. PICK i \in DOMAIN fs : m \in fs[i].todo
      <4>1. m # Root
        BY TreeAssumption
      <4> QED BY <1>1, <2>2, <4>1 DEF Pending, fs
    <3>2. i = 1 /\ m = c
      <4>1. \A j \in DOMAIN gs : m \notin gs[j].todo
        BY <1>8 DEF Pending
      <4> QED BY <1>3, <1>4, <1>5, <1>7, <3>1, <4>1
    <3>3. Reaching(frame, c) = {}
      <4>1. call'.target # c
        BY <1>5, <1>8, <3>2 DEF Pending
      <4> QED BY <1>8, <3>2, <4>1
    <3>4. Covered(draft.contained, c, frame.removal)
      BY <1>14, <3>2
    <3>5. \A x \in Entry :
            /\ RemovalFor(x, draft.contained[c]) \cup RemovalFor(x, Reaching(frame, c))
                  \subseteq RemovalFor(x, draft.contained[c])
            /\ RemovalFor(x, draft.contained[Parent[c]]) \subseteq RemovalFor(x, draft.contained[Parent[c]])
      BY <3>3, NothingRemoved
    <3> QED BY <1>4, <1>11, <3>2, <3>4, <3>5, CoveredByReach
  <2> QED BY <2>1, <2>2
<1>16. Propagated'
  <2>1. \A i \in DOMAIN gs : \A d \in gs[i].todo :
            Live(d)' /\ ~Excused(d)' => Covered(draft.contained, d, gs[i].removal)
    <3> SUFFICES ASSUME NEW i \in DOMAIN gs, NEW d \in gs[i].todo, Live(d)', ~Excused(d)'
                 PROVE  Covered(draft.contained, d, gs[i].removal)
      OBVIOUS
    <3>1. i \in DOMAIN fs /\ d \in fs[i].todo /\ gs[i].removal = fs[i].removal
      BY <1>6
    <3>2. Live(d) /\ ~Excused(d)
      BY <1>1 DEF Live, Excused
    <3> QED BY <3>1, <3>2 DEF Propagated, fs
  <2>2. call'.target # Root /\ Live(call.target)' /\ ~Excused(call.target)'
            => Covered(draft.contained, call'.target, gs[1].removal)
    <3>1. call'.target # Root => call'.target = c
      BY <1>8
    <3>2. gs[1].removal = frame.removal
      BY <1>4, <1>5
    <3>3. Live(call.target)' /\ ~Excused(call.target)' /\ call'.target = c => Live(c) /\ ~Excused(c)
      BY <1>1 DEF Live, Excused
    <3> QED BY <1>14, <3>1, <3>2, <3>3
  <2>3. draft' = draft
    BY <1>1
  <2> QED BY <1>8, <1>15, <2>1, <2>2, <2>3 DEF Propagated
<1>17. Standing'
  BY <1>1, <1>8, <1>13 DEF Standing, Covered
<1> QED BY <1>1, <1>9, <1>12, <1>16, <1>17, StoresKept

-----------------------------------------------------------------------------
(* The write                                                                *)

\* What contain writes on its target, and the walk it begins there.
Written(m, R) ==
    /\ draft' = [contained |-> [draft.contained EXCEPT ![m] = Merge(@, R)],
                 applied   |-> [draft.applied EXCEPT ![m] = @ \cup {call.event}]]
    /\ IF call.event \in Manual THEN UNCHANGED <<contained, applied>>
       ELSE contained' = draft'.contained /\ applied' = draft'.applied

\* The stores after the write: more is removed from the target, by what the
\* call brings, and from nobody else.
LEMMA WrittenIs ==
    ASSUME IInv, NEW m \in Missions, Written(m, Merge({}, call.removal)), call.event \in Events
    PROVE  /\ \A x : RemovalFor(x, draft'.contained[m])
                       = RemovalFor(x, draft.contained[m]) \cup RemovalFor(x, call.removal)
           /\ \A x : RemovalFor(x, Merge({}, call.removal)) = RemovalFor(x, call.removal)
           /\ \A d \in Missions : d # m =>
                draft'.contained[d] = draft.contained[d] /\ draft'.applied[d] = draft.applied[d]
           /\ draft'.applied[m] = draft.applied[m] \cup {call.event}
           /\ Merge({}, call.removal) \in SUBSET Entry
           /\ draft' \in [contained : Overlay, applied : Ledger]
           /\ call.event \in Manual => contained' = contained /\ applied' = applied
           /\ call.event \notin Manual =>
                /\ contained = draft.contained /\ applied = draft.applied
                /\ contained' = draft'.contained /\ applied' = draft'.applied
                /\ draft' = [contained |-> contained', applied |-> applied']
<1> DEFINE R == Merge({}, call.removal)
<1>1. call.removal \in SUBSET Entry /\ draft.contained \in Overlay /\ draft.applied \in Ledger
      /\ draft \in [contained : Overlay, applied : Ledger]
  BY DEF IInv, TypeOK
<1>2. R \in SUBSET Entry
  BY <1>1, MergeTyped
<1>3. \A x : RemovalFor(x, R) = RemovalFor(x, call.removal)
  BY MergeRemoves, NothingRemoved
<1> HIDE DEF R
<1>4. /\ draft' = [contained |-> [draft.contained EXCEPT ![m] = Merge(@, R)],
                   applied   |-> [draft.applied EXCEPT ![m] = @ \cup {call.event}]]
      /\ IF call.event \in Manual THEN UNCHANGED <<contained, applied>>
         ELSE contained' = draft'.contained /\ applied' = draft'.applied
  BY DEF Written, R
<1>5. /\ draft'.contained = [draft.contained EXCEPT ![m] = Merge(@, R)]
      /\ draft'.applied = [draft.applied EXCEPT ![m] = @ \cup {call.event}]
  BY <1>4
<1>6. /\ draft'.contained[m] = Merge(draft.contained[m], R)
      /\ draft'.applied[m] = draft.applied[m] \cup {call.event}
      /\ \A d \in Missions : d # m =>
                draft'.contained[d] = draft.contained[d] /\ draft'.applied[d] = draft.applied[d]
  BY <1>1, <1>5 DEF Overlay, Ledger
<1>7. \A x : RemovalFor(x, draft'.contained[m])
               = RemovalFor(x, draft.contained[m]) \cup RemovalFor(x, call.removal)
  BY <1>3, <1>6, MergeRemoves
<1>8. draft'.contained \in Overlay /\ draft'.applied \in Ledger
  <2>1. Merge(draft.contained[m], R) \in SUBSET Entry
    BY <1>1, <1>2, MergeTyped DEF Overlay
  <2> QED BY <1>1, <1>5, <2>1 DEF Overlay, Ledger
<1>9. draft' = [contained |-> draft'.contained, applied |-> draft'.applied]
  BY <1>4, <1>5
<1>10. call.event \notin Manual => contained = draft.contained /\ applied = draft.applied
  BY DEF IInv, TypeOK
<1> QED BY <1>2, <1>3, <1>4, <1>6, <1>7, <1>8, <1>9, <1>10 DEF R

\* What the write adds to the ledgers comes from above.
LEMMA WriteFromAbove ==
    ASSUME IInv, call.target # Root, Written(call.target, Merge({}, call.removal))
    PROVE  FromAbove(applied)' /\ FromAbove(draft.applied)'
<1> DEFINE m == call.target
<1> USE DEF IInv
<1>1. m \in Missions /\ call.event \in Events
  BY WalkIsFresh
<1>2. /\ \A d \in Missions : d # m => draft'.applied[d] = draft.applied[d]
      /\ draft'.applied[m] = draft.applied[m] \cup {call.event}
      /\ call.event \in Manual => applied' = applied
      /\ call.event \notin Manual => applied' = draft'.applied
  BY <1>1, WrittenIs
<1>3. Subject[call.event] = m \/ (Parent[m] # Root /\ call.event \in draft.applied[Parent[m]])
  <2>1. CASE call.frames = <<>>
    BY <2>1 DEF Walk
  <2>2. CASE call.frames # <<>>
    <3>1. 1 \in DOMAIN call.frames
      BY <2>2, CallTypes, PoppedFrame
    <3>2. Parent[m] = call.frames[1].of /\ call.event \in draft.applied[call.frames[1].of]
      BY <2>2, <3>1 DEF Walk, FrameOf
    <3>3. Parent[m] # Root
      BY <3>1, <3>2, CallTypes, FrameParts, TreeAssumption
    <3> QED BY <3>2, <3>3
  <2> QED BY <2>1, <2>2
<1> HIDE DEF m
<1>4. \A d \in Missions : Parent[d] # Root => Parent[d] \in Missions
  BY AncestorsOf
<1>5. FromAbove(draft.applied)'
  <2> SUFFICES ASSUME NEW d \in Missions, NEW e \in draft'.applied[d]
               PROVE  Subject[e] = d \/ (Parent[d] # Root /\ e \in draft'.applied[Parent[d]])
    BY DEF FromAbove
  <2>1. \A p \in Missions : draft.applied[p] \subseteq draft'.applied[p]
    BY <1>2
  <2>2. CASE e \in draft.applied[d]
    BY <1>4, <2>1, <2>2 DEF FromAbove
  <2>3. CASE e \notin draft.applied[d]
    <3>1. d = m /\ e = call.event
      BY <1>2, <2>3
    <3> QED BY <1>3, <1>4, <2>1, <3>1
  <2> QED BY <2>2, <2>3
<1>6. FromAbove(applied)'
  <2>1. CASE call.event \in Manual
    BY <1>2, <2>1 DEF FromAbove
  <2>2. CASE call.event \notin Manual
    BY <1>2, <1>5, <2>2 DEF FromAbove
  <2> QED BY <2>1, <2>2
<1> QED BY <1>5, <1>6

\* What the write removes, the event selects or the parent's entry lost.
LEMMA WriteJustified ==
    ASSUME IInv, call.target # Root, Written(call.target, Merge({}, call.removal))
    PROVE  Justified(contained, applied)' /\ Justified(draft.contained, draft.applied)'
<1> DEFINE m == call.target
           o == draft'.contained
           l == draft'.applied
<1> USE DEF IInv
<1>1. m \in Missions /\ call.event \in Events /\ Parent[m] # m
  BY WalkIsFresh
<1>2. /\ \A x : RemovalFor(x, o[m]) = RemovalFor(x, draft.contained[m]) \cup RemovalFor(x, call.removal)
      /\ \A d \in Missions : d # m => o[d] = draft.contained[d] /\ l[d] = draft.applied[d]
      /\ l[m] = draft.applied[m] \cup {call.event}
      /\ call.event \in Manual => contained' = contained /\ applied' = applied
      /\ call.event \notin Manual => contained' = o /\ applied' = l
  BY <1>1, WrittenIs
<1>3. \A x \in Approved[m] : \A a \in RemovalFor(x, call.removal) :
        \/ \E e \in l[m] : Subject[e] = m /\ a \in RemovalFor(x, Remove[e])
        \/ /\ Parent[m] # Root
           /\ \E y \in Approved[Parent[m]] : Overlaps(x, y) /\ a \in RemovalFor(y, o[Parent[m]])
  <2>1. CASE call.frames = <<>>
    BY <1>2, <2>1 DEF Walk
  <2>2. CASE call.frames # <<>>
    <3> DEFINE f == call.frames[1]
    <3>1. 1 \in DOMAIN call.frames /\ f \in Frame
      BY <2>2, CallTypes, PoppedFrame
    <3>2. Parent[m] = f.of /\ call.removal = Reaching(f, m)
      BY <2>2 DEF Walk
    <3>3. Parent[m] # Root /\ Parent[m] \in Missions
      BY <3>1, <3>2, FrameParts, TreeAssumption
    <3>4. \A x \in Entry : RemovalFor(x, f.removal) \subseteq RemovalFor(x, draft.contained[f.of])
      BY <3>1 DEF Walk, FrameOf
    <3>5. Within(Approved[m], Approved[Parent[m]])
      BY <1>1, <3>3 DEF Walk, Family
    <3> HIDE DEF f, m, o, l
    <3> SUFFICES ASSUME NEW x \in Approved[m], NEW a \in RemovalFor(x, call.removal)
                 PROVE  \E y \in Approved[Parent[m]] : Overlaps(x, y) /\ a \in RemovalFor(y, o[Parent[m]])
      BY <3>3
    <3>6. PICK y \in Approved[f.of] : x.over \subseteq y.over
      BY <3>2, <3>5 DEF Within
    <3>7. PICK z \in Approved[f.of] : Overlaps(x, z) /\ a \in RemovalFor(z, f.removal)
      BY <1>1, <3>1, <3>2, <3>6, ReachingIs
    <3>8. z \in Entry
      BY <3>2, <3>3, AuthorityAssumption
    <3>9. a \in RemovalFor(z, draft.contained[Parent[m]])
      BY <3>2, <3>4, <3>7, <3>8
    <3>10. o[Parent[m]] = draft.contained[Parent[m]]
      BY <1>1, <1>2, <3>3
    <3> QED BY <3>2, <3>7, <3>9, <3>10
  <2> QED BY <2>1, <2>2
<1>4. \A d \in Missions : draft.applied[d] \subseteq l[d]
  BY <1>2
<1>5. \A d \in Missions : \A x \in Entry : RemovalFor(x, draft.contained[d]) \subseteq RemovalFor(x, o[d])
  BY <1>2
<1>6. \A x \in Approved[m] : \A a \in x.actions \cap RemovalFor(x, o[m]) :
        \/ a \in RemovalFor(x, draft.contained[m])
        \/ \E e \in l[m] : Subject[e] = m /\ a \in RemovalFor(x, Remove[e])
        \/ /\ Parent[m] # Root
           /\ \E y \in Approved[Parent[m]] : Overlaps(x, y) /\ a \in RemovalFor(y, o[Parent[m]])
  BY <1>2, <1>3
<1>7. Justified(draft.contained, draft.applied)
  OBVIOUS
<1> HIDE DEF m, o, l
<1>8. Justified(o, l)
  <2> DEFINE p == draft.contained
             k == draft.applied
  <2>1. /\ \A d \in Missions : (d # m => o[d] = p[d]) /\ k[d] \subseteq l[d]
        /\ \A d \in Missions : \A x \in Entry : RemovalFor(x, p[d]) \subseteq RemovalFor(x, o[d])
        /\ Justified(p, k)
    BY <1>2, <1>4, <1>5, <1>7
  <2> HIDE DEF p, k
  <2> SUFFICES ASSUME NEW d \in Missions, NEW x \in Approved[d], NEW a \in x.actions \cap RemovalFor(x, o[d])
               PROVE  \/ \E e \in l[d] : Subject[e] = d /\ a \in RemovalFor(x, Remove[e])
                      \/ /\ Parent[d] # Root
                         /\ \E y \in Approved[Parent[d]] :
                               Overlaps(x, y) /\ a \in RemovalFor(y, o[Parent[d]])
    BY DEF Justified
  <2>2. CASE a \in RemovalFor(x, p[d])
    <3>1. CASE \E e \in k[d] : Subject[e] = d /\ a \in RemovalFor(x, Remove[e])
      BY <2>1, <3>1
    <3>2. CASE Parent[d] # Root /\ \E y \in Approved[Parent[d]] :
                 Overlaps(x, y) /\ a \in RemovalFor(y, p[Parent[d]])
      <4>1. PICK y \in Approved[Parent[d]] : Overlaps(x, y) /\ a \in RemovalFor(y, p[Parent[d]])
        BY <3>2
      <4>2. y \in Entry /\ Parent[d] \in Missions
        BY <3>2, AncestorsOf, AuthorityAssumption
      <4> QED BY <2>1, <3>2, <4>1, <4>2
    <3> QED BY <2>1, <2>2, <3>1, <3>2 DEF Justified
  <2>3. CASE a \notin RemovalFor(x, p[d])
    <3>1. d = m
      BY <2>1, <2>3
    <3> QED BY <1>6, <2>3, <3>1 DEF p
  <2> QED BY <2>2, <2>3
<1>9. Justified(contained, applied)'
  BY <1>2, <1>8 DEF Justified
<1> QED BY <1>8, <1>9 DEF o, l, Justified

\* The walk the write begins reaches children that the event has not reached.
LEMMA WriteWalks ==
    ASSUME IInv, call.target # Root, Written(call.target, Merge({}, call.removal)),
           call.event \notin draft.applied[call.target], standing' = standing,
           call'.event = call.event, call'.target = Root,
           call'.frames = <<[of |-> call.target, removal |-> Merge({}, call.removal),
                             todo |-> Children(call.target)]>> \o call.frames
    PROVE  /\ Walk'
           /\ call'.frames \in Seq(Frame) /\ call'.frames # <<>> /\ 1 \in DOMAIN call'.frames
           /\ call'.frames[1] = [of |-> call.target, removal |-> Merge({}, call.removal),
                                 todo |-> Children(call.target)]
           /\ \A i \in DOMAIN call'.frames :
                i \in Nat /\ (i = 1 \/ (i > 1 /\ i - 1 \in DOMAIN call.frames /\ call'.frames[i] = call.frames[i - 1]))
           /\ \A i \in DOMAIN call.frames :
                i \in Nat /\ i + 1 \in DOMAIN call'.frames /\ call'.frames[i + 1] = call.frames[i]
<1> DEFINE m == call.target
           e == call.event
           R == Merge({}, call.removal)
           f == [of |-> m, removal |-> R, todo |-> Children(m)]
           fs == call.frames
           gs == call'.frames
<1> USE DEF IInv
<1>1. /\ m \in Missions /\ e \in Events /\ m \notin Ancestors[m] /\ Parent[m] # m /\ Exists(m)
      /\ Subject[e] \in {m} \cup Ancestors[m]
      /\ \A i \in DOMAIN fs : fs[i].of \in Ancestors[m] /\ \A c \in fs[i].todo : c # m /\ Parent[c] # m
  BY WalkIsFresh DEF Walk
<1>2. /\ \A x : RemovalFor(x, draft'.contained[m])
                  = RemovalFor(x, draft.contained[m]) \cup RemovalFor(x, call.removal)
      /\ \A x : RemovalFor(x, R) = RemovalFor(x, call.removal)
      /\ \A d \in Missions : d # m =>
           draft'.contained[d] = draft.contained[d] /\ draft'.applied[d] = draft.applied[d]
      /\ draft'.applied[m] = draft.applied[m] \cup {e}
      /\ R \in SUBSET Entry
  BY <1>1, WrittenIs
<1>3. f \in Frame /\ fs \in Seq(Frame) /\ \A i \in DOMAIN fs : fs[i] \in Frame
  BY <1>1, <1>2, CallTypes DEF Frame, Children
<1>4. f.of = m /\ f.removal = R /\ f.todo = Children(m)
  OBVIOUS
<1> HIDE DEF f, R, m
<1>5. gs = <<f>> \o fs
  BY DEF f, R, m
<1>6. /\ gs \in Seq(Frame) /\ gs # <<>> /\ 1 \in DOMAIN gs /\ gs[1] = f
      /\ \A i \in DOMAIN gs : i \in Nat /\ (i = 1 \/ (i > 1 /\ i - 1 \in DOMAIN fs /\ gs[i] = fs[i - 1]))
      /\ \A i \in DOMAIN fs : i \in Nat /\ i + 1 \in DOMAIN gs /\ gs[i + 1] = fs[i]
  BY ONLY <1>3, <1>5, PushedFrame
<1>7. \A c \in Children(m) : Exists(c) /\ Parent[c] = m /\ e \notin draft'.applied[c]
  <2> SUFFICES ASSUME NEW c \in Children(m)
               PROVE  Exists(c) /\ Parent[c] = m /\ e \notin draft'.applied[c]
    OBVIOUS
  <2>1. c \in Missions /\ Parent[c] = m /\ Exists(c) /\ c # m /\ Parent[c] # Root
    BY <1>1, TreeAssumption DEF Children, Exists
  <2>2. draft'.applied[c] = draft.applied[c] /\ e \notin draft.applied[m]
    BY <1>2, <2>1 DEF m
  <2>3. Ancestors[c] = {m} \cup Ancestors[m] /\ c \notin Ancestors[c]
    BY <2>1, AncestorsOf DEF Family
  <2>4. Subject[e] # c
    BY <1>1, <2>1, <2>3
  <2> QED BY <2>1, <2>2, <2>4 DEF FromAbove
<1>8. \A i \in DOMAIN fs :
        /\ Exists(fs[i].of) /\ Subject[e] \in {fs[i].of} \cup Ancestors[fs[i].of]
        /\ e \in draft'.applied[fs[i].of]
        /\ \A x \in Entry : RemovalFor(x, fs[i].removal) \subseteq RemovalFor(x, draft'.contained[fs[i].of])
        /\ \A c \in fs[i].todo : Exists(c) /\ Parent[c] = fs[i].of /\ e \notin draft'.applied[c]
  <2> SUFFICES ASSUME NEW i \in DOMAIN fs
               PROVE  /\ Exists(fs[i].of) /\ Subject[e] \in {fs[i].of} \cup Ancestors[fs[i].of]
                      /\ e \in draft'.applied[fs[i].of]
                      /\ \A x \in Entry : RemovalFor(x, fs[i].removal)
                                            \subseteq RemovalFor(x, draft'.contained[fs[i].of])
                      /\ \A c \in fs[i].todo : Exists(c) /\ Parent[c] = fs[i].of /\ e \notin draft'.applied[c]
    OBVIOUS
  <2>1. FrameOf(fs[i])
    BY DEF Walk
  <2>2. fs[i].of \in Missions /\ fs[i].of # m /\ fs[i].todo \subseteq Missions
    BY <1>1, <1>3, FrameParts
  <2>3. \A c \in fs[i].todo : c \in Missions /\ c # m
    BY <1>1, <2>2
  <2> QED BY <1>2, <2>1, <2>2, <2>3 DEF FrameOf
<1>9. Walk'
  <2>1. ASSUME NEW i \in DOMAIN call'.frames
        PROVE  FrameOf(call.frames[i])'
    <3>1. CASE i = 1
      <4>1. gs[i].of = m /\ gs[i].removal = R /\ gs[i].todo = Children(m)
        BY <1>4, <1>6, <3>1
      <4>2. /\ e \in draft'.applied[m]
            /\ \A x \in Entry : RemovalFor(x, R) \subseteq RemovalFor(x, draft'.contained[m])
        BY <1>2
      <4> QED BY <1>1, <1>7, <4>1, <4>2 DEF FrameOf, Exists
    <3>2. CASE i > 1
      <4>1. i - 1 \in DOMAIN fs /\ gs[i] = fs[i - 1]
        BY <1>6, <3>2
      <4>2. /\ Exists(gs[i].of) /\ Subject[e] \in {gs[i].of} \cup Ancestors[gs[i].of]
            /\ e \in draft'.applied[gs[i].of]
            /\ \A x \in Entry : RemovalFor(x, gs[i].removal) \subseteq RemovalFor(x, draft'.contained[gs[i].of])
            /\ \A c \in gs[i].todo : Exists(c) /\ Parent[c] = gs[i].of /\ e \notin draft'.applied[c]
        BY ONLY <1>8, <4>1
      <4> QED BY <4>2 DEF FrameOf, Exists
    <3> QED BY <1>6, <3>1, <3>2
  <2>2. ASSUME NEW i \in DOMAIN gs, NEW j \in DOMAIN gs, i < j
        PROVE  gs[j].of \in Ancestors[gs[i].of]
    <3>1. i \in Nat /\ j \in Nat /\ i >= 1 /\ j > 1 /\ j - 1 \in DOMAIN fs /\ gs[j] = fs[j - 1]
      BY <1>6, <2>2
    <3>2. CASE i = 1
      BY <1>1, <1>4, <1>6, <3>1, <3>2
    <3>3. CASE i > 1
      <4>1. i - 1 \in DOMAIN fs /\ gs[i] = fs[i - 1] /\ i - 1 < j - 1
        BY <1>6, <2>2, <3>1, <3>3
      <4> QED BY <3>1, <4>1 DEF Walk
    <3> QED BY <3>1, <3>2, <3>3
  <2>3. e # NoEvent
    BY <1>1, EventAssumption
  <2> QED BY <2>1, <2>2, <2>3 DEF Walk
<1> QED BY <1>6, <1>9 DEF f, R, m

\* Who was owed the removal is covered by the write, and its children are owed
\* what it lost.
LEMMA WritePropagates ==
    ASSUME IInv, call.target # Root, Written(call.target, Merge({}, call.removal)),
           call.event \notin draft.applied[call.target], standing' = standing, cut' = cut,
           call'.event = call.event, call'.target = Root,
           call'.frames = <<[of |-> call.target, removal |-> Merge({}, call.removal),
                             todo |-> Children(call.target)]>> \o call.frames
    PROVE  Propagated'
<1> DEFINE m == call.target
           R == Merge({}, call.removal)
           f == [of |-> m, removal |-> R, todo |-> Children(m)]
           fs == call.frames
           gs == call'.frames
           o == draft.contained
           p == draft'.contained
<1> USE DEF IInv
<1>1. /\ m \in Missions /\ call.event \in Events /\ Parent[m] # m
      /\ \A i \in DOMAIN fs : \A c \in fs[i].todo : c # m /\ Parent[c] # m
  BY WalkIsFresh
<1>2. /\ \A x : RemovalFor(x, p[m]) = RemovalFor(x, o[m]) \cup RemovalFor(x, call.removal)
      /\ \A x : RemovalFor(x, R) = RemovalFor(x, call.removal)
      /\ \A d \in Missions : d # m => p[d] = o[d]
  BY <1>1, WrittenIs
<1>3. /\ 1 \in DOMAIN gs /\ gs[1] = f
      /\ \A i \in DOMAIN gs : i \in Nat /\ (i = 1 \/ (i > 1 /\ i - 1 \in DOMAIN fs /\ gs[i] = fs[i - 1]))
      /\ \A i \in DOMAIN fs : i \in Nat /\ i + 1 \in DOMAIN gs /\ gs[i + 1] = fs[i]
  BY WriteWalks
<1>4. f.removal = R /\ f.todo = Children(m)
  OBVIOUS
<1>5. \A d \in Missions : Parent[d] # Root => Parent[d] \in Missions
  BY AncestorsOf
<1>6. \A i \in DOMAIN fs : fs[i] \in Frame /\ fs[i].todo \subseteq Missions
  BY CallTypes, FrameParts
<1>7. \A d \in Missions : Live(d) /\ ~Excused(d) /\ ~Pending(d) => Covered(o, d, {})
  BY DEF Propagated
<1>8. \A i \in DOMAIN fs : \A c \in fs[i].todo : Live(c) /\ ~Excused(c) => Covered(o, c, fs[i].removal)
  BY DEF Propagated
<1>9. fs # <<>> /\ Live(m) /\ ~Excused(m) => Covered(o, m, fs[1].removal)
  BY DEF Propagated
<1>10. \A d \in Missions : Pending(d) => d = m \/ \E i \in DOMAIN fs : d \in fs[i].todo
  BY DEF Pending
<1>11. Pending(m) => fs # <<>>
  BY <1>1 DEF Pending
<1>12. fs # <<>> => /\ 1 \in DOMAIN fs /\ Parent[m] = fs[1].of /\ call.removal = Reaching(fs[1], m)
                    /\ Parent[m] # Root
  <2> SUFFICES ASSUME fs # <<>>
               PROVE  1 \in DOMAIN fs /\ Parent[m] = fs[1].of /\ call.removal = Reaching(fs[1], m) /\ Parent[m] # Root
    OBVIOUS
  <2>1. 1 \in DOMAIN fs
    BY CallTypes, PoppedFrame
  <2>2. Parent[m] = fs[1].of /\ call.removal = Reaching(fs[1], m)
    BY DEF Walk
  <2>3. fs[1].of \in Missions
    BY <1>6, <2>1, FrameParts
  <2> QED BY <2>1, <2>2, <2>3, TreeAssumption
<1>13. \A c \in Missions : Exists(c) /\ Parent[c] = m => c \in Children(m)
  BY DEF Children, Exists
<1>14. \A d : (Live(d)' <=> Live(d)) /\ (Excused(d)' <=> Excused(d)) /\ (Live(d) => Exists(d))
  BY DEF Live, Excused, Exists
<1> HIDE DEF m, R, f, fs, o, p
\* Neither its own removals nor its parent's change.
<1>15. ASSUME NEW d \in Missions, d # m, Parent[d] # m, NEW R1, Covered(o, d, R1)
       PROVE  Covered(p, d, R1)
  <2>1. \A x \in Entry : /\ RemovalFor(x, o[d]) \subseteq RemovalFor(x, p[d])
                         /\ RemovalFor(x, R1) \subseteq RemovalFor(x, R1)
    BY <1>2, <1>15
  <2>2. Parent[d] # Root => \A x \in Entry :
            RemovalFor(x, p[Parent[d]]) \subseteq RemovalFor(x, o[Parent[d]]) \cup RemovalFor(x, R1)
    BY <1>2, <1>5, <1>15
  <2> QED BY ONLY <1>15, <2>1, <2>2, CoveredKeeps
\* A child of the target is owed what the target lost.
<1>16. ASSUME NEW d \in Missions, d # m, Parent[d] = m, Covered(o, d, {})
       PROVE  Covered(p, d, R)
  <2>1. \A x \in Entry : /\ RemovalFor(x, o[d]) \subseteq RemovalFor(x, p[d])
                         /\ RemovalFor(x, {}) \subseteq RemovalFor(x, R)
    BY <1>2, <1>16, NothingRemoved
  <2>2. Parent[d] # Root => \A x \in Entry :
            RemovalFor(x, p[Parent[d]]) \subseteq RemovalFor(x, o[Parent[d]]) \cup RemovalFor(x, R)
    BY <1>2, <1>16
  <2> QED BY ONLY <1>16, <2>1, <2>2, CoveredKeeps
\* The target took what reaches it, or was owed nothing.
<1>17. ASSUME Live(m), ~Excused(m)
       PROVE  Covered(p, m, {})
  <2>1. CASE fs = <<>>
    <3>1. Covered(o, m, {})
      BY <1>1, <1>7, <1>11, <1>17, <2>1
    <3>2. \A x \in Entry : /\ RemovalFor(x, o[m]) \subseteq RemovalFor(x, p[m])
                           /\ RemovalFor(x, {}) \subseteq RemovalFor(x, {})
      BY <1>2
    <3>3. Parent[m] # Root => \A x \in Entry :
              RemovalFor(x, p[Parent[m]]) \subseteq RemovalFor(x, o[Parent[m]]) \cup RemovalFor(x, {})
      BY <1>1, <1>2, <1>5
    <3> QED BY ONLY <1>1, <3>1, <3>2, <3>3, CoveredKeeps
  <2>2. CASE fs # <<>>
    <3>1. /\ fs[1] \in Frame /\ Parent[m] # Root /\ fs[1].of = Parent[m]
          /\ Covered(o, m, fs[1].removal)
      BY <1>6, <1>9, <1>12, <1>17, <2>2
    <3>2. \A x \in Entry :
            /\ RemovalFor(x, o[m]) \cup RemovalFor(x, Reaching(fs[1], m)) \subseteq RemovalFor(x, p[m])
            /\ RemovalFor(x, p[Parent[m]]) \subseteq RemovalFor(x, o[Parent[m]])
      BY <1>1, <1>2, <1>5, <1>12, <2>2
    <3> QED BY ONLY <1>1, <3>1, <3>2, CoveredByReach
  <2> QED BY <2>1, <2>2
<1>18. \A d \in Missions : Live(d) /\ ~Excused(d) /\ ~Pending(d)' => Covered(p, d, {})
  <2> SUFFICES ASSUME NEW d \in Missions, Live(d), ~Excused(d), ~Pending(d)'
               PROVE  Covered(p, d, {})
    OBVIOUS
  <2>1. \A i \in DOMAIN gs : d \notin gs[i].todo
    BY DEF Pending
  <2>2. Parent[d] # m
    BY <1>3, <1>4, <1>13, <1>14, <2>1
  <2>3. \A i \in DOMAIN fs : d \notin fs[i].todo
    BY <1>3, <2>1
  <2>4. CASE d = m
    BY <1>17, <2>4
  <2>5. CASE d # m
    <3>1. Covered(o, d, {})
      BY <1>7, <1>10, <2>3, <2>5
    <3> QED BY <1>15, <2>2, <2>5, <3>1
  <2> QED BY <2>4, <2>5
<1>19. \A i \in DOMAIN gs : \A d \in gs[i].todo :
          Live(d) /\ ~Excused(d) => Covered(p, d, gs[i].removal)
  <2> SUFFICES ASSUME NEW i \in DOMAIN gs, NEW d \in gs[i].todo, Live(d), ~Excused(d)
               PROVE  Covered(p, d, gs[i].removal)
    OBVIOUS
  <2>1. CASE i = 1
    <3>1. d \in Missions /\ Parent[d] = m /\ gs[i].removal = R
      BY <1>3, <1>4, <2>1 DEF Children
    <3>2. d # m
      BY <1>1, <3>1
    <3>3. \A j \in DOMAIN fs : d \notin fs[j].todo
      BY <1>1, <3>1 DEF fs, m
    <3>4. Covered(o, d, {})
      BY <1>7, <1>10, <3>1, <3>2, <3>3
    <3> QED BY <1>16, <3>1, <3>2, <3>4
  <2>2. CASE i > 1
    <3>1. i - 1 \in DOMAIN fs /\ gs[i] = fs[i - 1]
      BY <1>3, <2>2
    <3>2. d \in Missions /\ d # m /\ Parent[d] # m
      BY <1>1, <1>6, <3>1 DEF fs, m
    <3>3. Covered(o, d, gs[i].removal)
      BY <1>8, <3>1
    <3> QED BY <1>15, <3>2, <3>3
  <2> QED BY <1>3, <2>1, <2>2
<1> QED BY <1>14, <1>18, <1>19 DEF Propagated, p

\* A report of what the ledger of its subject holds already ends there: below
\* its subject the walk meets no mission twice.
LEMMA AppliedKeeps ==
    ASSUME IInv, Contain, call.event \in draft.applied[call.target]
    PROVE  IInv'
<1> USE DEF IInv
<1>1. /\ call.target # Root /\ call' = [call EXCEPT !.target = Root, !.removal = {}]
      /\ UNCHANGED <<standing, contained, applied, draft, answered, cut>>
  BY DEF Contain
<1>2. call.frames = <<>> /\ call.event \in Events
  BY <1>1, WalkIsFresh DEF Walk
<1>3. /\ call' \in [event : Events \cup {NoEvent}, target : Missions \cup {Root},
                    removal : SUBSET Entry, frames : Seq(Frame)]
      /\ call'.event = call.event /\ call'.target = Root /\ call'.frames = <<>>
  BY <1>1, <1>2 DEF TypeOK
<1>4. DOMAIN call'.frames = {} /\ DOMAIN call.frames = {}
  BY <1>2, <1>3
<1>5. TypeOK'
  BY <1>1, <1>3 DEF TypeOK
<1>6. Walk'
  BY <1>2, <1>3, <1>4, EventAssumption DEF Walk
<1>7. Propagated'
  <2>1. \A m \in Missions : ~Pending(m)
    BY <1>2, <1>4 DEF Pending
  <2>2. \A m \in Missions : Live(m) /\ ~Excused(m) => Covered(draft.contained, m, {})
    BY <2>1 DEF Propagated
  <2>3. \A m \in Missions : Live(m)' /\ ~Excused(m)' => Covered(draft'.contained, m, {})
    BY <1>1, <2>2 DEF Live, Excused
  <2> QED BY <1>3, <1>4, <2>3 DEF Propagated
<1>8. Standing'
  BY <1>1, <1>3 DEF Standing, Live, Excused, Covered
<1>9. /\ Family' /\ FromAbove(applied)' /\ FromAbove(draft.applied)'
      /\ Justified(contained, applied)' /\ Justified(draft.contained, draft.applied)'
      /\ Grown'
  BY <1>1, StoresKept
<1> QED BY <1>5, <1>6, <1>7, <1>8, <1>9

\* The write, and the walk it begins.
LEMMA ContainWrites ==
    ASSUME Contain, call.event \notin draft.applied[call.target], TypeOK
    PROVE  /\ call.target # Root /\ Written(call.target, Merge({}, call.removal))
           /\ standing' = standing /\ cut' = cut /\ answered' = answered
           /\ call'.event = call.event /\ call'.target = Root /\ call'.removal = {}
           /\ call'.frames = <<[of |-> call.target, removal |-> Merge({}, call.removal),
                                todo |-> Children(call.target)]>> \o call.frames
           /\ call' = [event |-> call'.event, target |-> call'.target,
                       removal |-> call'.removal, frames |-> call'.frames]
<1>1. /\ call.target # Root /\ Write(call.target, Merge({}, call.removal))
      /\ call' = [call EXCEPT
            !.target = Root, !.removal = {},
            !.frames = <<[of |-> call.target, removal |-> Merge({}, call.removal),
                          todo |-> Children(call.target)]>> \o @]
      /\ UNCHANGED <<standing, answered, cut>>
  BY DEF Contain
<1>2. Written(call.target, Merge({}, call.removal))
  BY <1>1 DEF Write, Written
<1>3. call \in [event : Events \cup {NoEvent}, target : Missions \cup {Root},
                removal : SUBSET Entry, frames : Seq(Frame)]
  BY DEF TypeOK
<1> QED BY <1>1, <1>2, <1>3

LEMMA ContainKeeps ==
    ASSUME IInv, Contain
    PROVE  IInv'
<1> USE DEF IInv
<1>1. CASE call.event \in draft.applied[call.target]
  BY <1>1, AppliedKeeps
<1>2. CASE call.event \notin draft.applied[call.target]
  <2>1. /\ call.target # Root /\ Written(call.target, Merge({}, call.removal))
        /\ standing' = standing /\ cut' = cut /\ answered' = answered
        /\ call'.event = call.event /\ call'.target = Root /\ call'.removal = {}
        /\ call'.frames = <<[of |-> call.target, removal |-> Merge({}, call.removal),
                             todo |-> Children(call.target)]>> \o call.frames
        /\ call' = [event |-> call'.event, target |-> call'.target,
                    removal |-> call'.removal, frames |-> call'.frames]
    BY <1>2, ContainWrites
  <2>2. call.target \in Missions /\ call.event \in Events
    BY <2>1, WalkIsFresh
  <2>3. /\ \A x : RemovalFor(x, draft'.contained[call.target])
                    = RemovalFor(x, draft.contained[call.target]) \cup RemovalFor(x, call.removal)
        /\ \A d \in Missions : d # call.target => draft'.contained[d] = draft.contained[d]
        /\ draft' \in [contained : Overlay, applied : Ledger]
        /\ call.event \in Manual => contained' = contained /\ applied' = applied
        /\ call.event \notin Manual =>
              contained' = draft'.contained /\ applied' = draft'.applied
              /\ draft' = [contained |-> contained', applied |-> applied']
    BY <2>1, <2>2, WrittenIs
  <2>4. Walk' /\ call'.frames \in Seq(Frame)
    BY <1>2, <2>1, WriteWalks
  <2>5. Propagated'
    BY <1>2, <2>1, WritePropagates
  <2>6. FromAbove(applied)' /\ FromAbove(draft.applied)'
    BY <2>1, WriteFromAbove
  <2>7. Justified(contained, applied)' /\ Justified(draft.contained, draft.applied)'
    BY <2>1, WriteJustified
  <2>8. Family'
    BY <2>1 DEF Family, Exists
  <2>9. TypeOK'
    <3>1. contained' \in Overlay /\ applied' \in Ledger
      BY <2>3 DEF TypeOK
    <3>2. call' \in [event : Events \cup {NoEvent}, target : Missions \cup {Root},
                     removal : SUBSET Entry, frames : Seq(Frame)]
      BY <2>1, <2>2, <2>4
    <3> QED BY <2>1, <2>3, <3>1, <3>2 DEF TypeOK
  <2>10. Grown'
    <3>1. \A m \in Missions : \A x \in Entry :
             RemovalFor(x, draft.contained[m]) \subseteq RemovalFor(x, draft'.contained[m])
      BY <2>3
    <3>2. CASE call.event \in Manual
      BY <2>3, <3>1, <3>2 DEF Grown
    <3>3. CASE call.event \notin Manual
      BY <2>3, <3>3 DEF Grown
    <3> QED BY <3>2, <3>3
  <2>11. Standing'
    <3>1. CASE call.event \in Manual
      BY <2>1, <2>3, <3>1 DEF Standing, Live, Excused, Covered
    <3>2. CASE call.event \notin Manual
      BY <2>1, <2>2, <3>2, EventAssumption DEF Standing
    <3> QED BY <3>1, <3>2
  <2> QED BY <2>4, <2>5, <2>6, <2>7, <2>8, <2>9, <2>10, <2>11
<1> QED BY <1>1, <1>2

-----------------------------------------------------------------------------
(* The theorems                                                             *)

LEMMA InitIInv == Init => IInv
<1> SUFFICES ASSUME Init
             PROVE  IInv
  OBVIOUS
<1>1. /\ standing = [m \in Missions |-> "absent"] /\ contained = [m \in Missions |-> {}]
      /\ applied = [m \in Missions |-> {}]
      /\ draft = [contained |-> contained, applied |-> applied]
      /\ call = Idle /\ answered = {} /\ cut = {}
  BY DEF Init
<1>2. call.event = NoEvent /\ call.target = Root /\ call.frames = <<>> /\ DOMAIN call.frames = {}
  BY <1>1 DEF Idle
<1>3. TypeOK
  BY <1>1 DEF TypeOK, Overlay, Ledger, Idle
<1>4. \A m \in Missions : ~Exists(m) /\ ~Live(m) /\ contained[m] = {} /\ applied[m] = {}
  BY <1>1 DEF Exists, Live
<1>5. Family /\ Walk /\ Propagated /\ Standing
  BY <1>1, <1>2, <1>4 DEF Family, Walk, Propagated, Standing
<1>6. FromAbove(applied) /\ FromAbove(draft.applied)
  BY <1>1, <1>4 DEF FromAbove
<1>7. Justified(contained, applied) /\ Justified(draft.contained, draft.applied)
  BY <1>1, <1>4, NothingRemoved DEF Justified
<1>8. Grown
  BY <1>1 DEF Grown
<1> QED BY <1>3, <1>5, <1>6, <1>7, <1>8 DEF IInv

LEMMA Inductive == IInv /\ [Next]_vars => IInv'
<1> SUFFICES ASSUME IInv, [Next]_vars
             PROVE  IInv'
  OBVIOUS
<1>1. ASSUME NEW m \in Missions, Create(m)
      PROVE  IInv'
  BY <1>1, CreateKeeps
<1>2. ASSUME NEW m \in Missions, End(m)
      PROVE  IInv'
  BY <1>2, EndKeeps
<1>3. ASSUME NEW e \in Events, Report(e)
      PROVE  IInv'
  BY <1>3, ReportKeeps
<1>4. CASE Contain
  BY <1>4, ContainKeeps
<1>5. CASE Visit
  BY <1>5, VisitKeeps
<1>6. CASE Leave
  BY <1>6, LeaveKeeps
<1>7. CASE Answer
  BY <1>7, AnswerKeeps
<1>8. CASE Refuse
  BY <1>8, StopKeeps DEF Refuse
<1>9. CASE Fail
  BY <1>9, StopKeeps DEF Fail
<1>10. CASE UNCHANGED vars
  <2>1. UNCHANGED <<standing, contained, applied, draft, call, answered, cut>>
    BY <1>10 DEF vars
  <2>2. /\ Family' /\ FromAbove(applied)' /\ FromAbove(draft.applied)'
        /\ Justified(contained, applied)' /\ Justified(draft.contained, draft.applied)' /\ Grown'
    BY <2>1, StoresKept
  <2>3. TypeOK'
    BY <2>1 DEF IInv, TypeOK
  <2>4. Walk'
    BY <2>1 DEF IInv, Walk, FrameOf, Exists
  <2>5. Propagated'
    BY <2>1 DEF IInv, Propagated, Live, Excused, Pending
  <2>6. Standing'
    BY <2>1 DEF IInv, Standing, Live, Excused
  <2> QED BY <2>2, <2>3, <2>4, <2>5, <2>6 DEF IInv
<1> QED BY <1>1, <1>2, <1>3, <1>4, <1>5, <1>6, <1>7, <1>8, <1>9, <1>10 DEF Next

LEMMA Always == Spec => []IInv
  BY InitIInv, Inductive, PTL DEF Spec

\* Every variable has its type; outside a transaction a call reads and writes
\* what is committed.
THEOREM ContainmentTypes == Spec => []TypeOK
<1>1. IInv => TypeOK
  BY DEF IInv
<1> QED BY <1>1, Always, PTL

\* Between two calls no live child may derive what its parent lost, unless a
\* protected event's walk above it was cut short: containOnEvent commits mission
\* by mission, so a fault leaves the children it had not reached.
THEOREM ChildrenWithinParents == Spec => []ChildWithinParent
<1>1. IInv => ChildWithinParent
  <2> SUFFICES ASSUME IInv, call = Idle, NEW m \in Missions, Live(m), Parent[m] # Root, ~Excused(m)
               PROVE  Within(Effective(m), Effective(Parent[m]))
    BY DEF ChildWithinParent, Live, Excused
  <2>1. call.event = NoEvent
    BY DEF Idle
  <2>2. Covered(contained, m, {})
    BY <2>1 DEF IInv, Standing
  <2> QED BY <2>2, CoveredWithin DEF Effective
<1> QED BY <1>1, Always, PTL

\* What an entry lost, an event against its own mission selects, or an entry of
\* the parent that it overlaps lost as well.
THEOREM LossesJustified == Spec => []LossIsJustified
<1>1. IInv => LossIsJustified
  BY DEF IInv, Justified, LossIsJustified
<1> QED BY <1>1, Always, PTL

\* No call, retry, rollback or stop gives back an action that was removed.
THEOREM OnlyNarrows == Spec => NarrowsOnly
<1>1. IInv /\ [Next]_vars => \A m \in Missions : Within(Effective(m)', Effective(m))
  <2> SUFFICES ASSUME IInv, [Next]_vars, NEW m \in Missions
               PROVE  Within(Effective(m)', Effective(m))
    OBVIOUS
  <2>1. \A x \in Entry : RemovalFor(x, contained[m]) \subseteq RemovalFor(x, contained'[m])
    <3>1. CASE Contain /\ call.event \notin draft.applied[call.target]
      <4>1. TypeOK /\ Family /\ Walk
        BY DEF IInv
      <4>2. call.target \in Missions /\ call.event \in Events /\ Written(call.target, Merge({}, call.removal))
        BY <3>1, <4>1, ContainWrites, WalkIsFresh
      <4>3. /\ \A x : RemovalFor(x, draft'.contained[call.target])
                        = RemovalFor(x, draft.contained[call.target]) \cup RemovalFor(x, call.removal)
            /\ \A d \in Missions : d # call.target => draft'.contained[d] = draft.contained[d]
            /\ call.event \in Manual => contained' = contained
            /\ call.event \notin Manual => contained = draft.contained /\ contained' = draft'.contained
        BY <4>2, WrittenIs
      <4> QED BY <4>3
    <3>2. CASE Answer
      BY <3>2 DEF Answer, IInv, Grown
    <3>3. CASE UNCHANGED contained
      BY <3>3
    <3>4. \/ Contain /\ call.event \notin draft.applied[call.target]
          \/ Answer
          \/ UNCHANGED contained
      <4>1. \/ \E d \in Missions : Create(d) \/ End(d)
            \/ \E e \in Events : Report(e)
            \/ Contain \/ Visit \/ Leave \/ Answer \/ Refuse \/ Fail \/ UNCHANGED vars
        BY DEF Next
      <4>2. \A d \in Missions : Create(d) \/ End(d) => UNCHANGED contained
        BY DEF Create, End
      <4>3. \A e \in Events : Report(e) => UNCHANGED contained
        BY DEF Report
      <4>4. Contain /\ call.event \in draft.applied[call.target] => UNCHANGED contained
        BY DEF Contain
      <4>5. Visit => UNCHANGED contained
        BY Zenon DEF Visit
      <4>6. Leave => UNCHANGED contained
        BY DEF Leave
      <4>7. Refuse \/ Fail \/ UNCHANGED vars => UNCHANGED contained
        BY DEF Refuse, Fail, Stop, vars
      <4> QED BY <4>1, <4>2, <4>3, <4>4, <4>5, <4>6, <4>7
    <3> QED BY <3>1, <3>2, <3>3, <3>4
  <2>2. Within(EffectiveUnder(m, contained'[m]), EffectiveUnder(m, contained[m]))
    BY ONLY <2>1, MoreIsNarrower, m \in Missions
  <2>3. Effective(m)' = EffectiveUnder(m, contained'[m])
    BY DEF Effective, EffectiveUnder
  <2> QED BY <2>2, <2>3 DEF Effective, Within
<1> QED BY <1>1, Always, PTL DEF Spec, NarrowsOnly

=============================================================================
