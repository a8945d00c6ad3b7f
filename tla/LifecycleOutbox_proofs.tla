------------------------- MODULE LifecycleOutbox_proofs -------------------------
(* Proofs about the lifecycle outbox: that nothing owed is lost, that a        *)
(* settled delivery stays as it is, and that a drain covers its caller, for    *)
(* any events, subscribers and callers, and any number of faults and crashes.  *)
EXTENDS LifecycleOutbox, FiniteSetTheorems, TLAPS

-----------------------------------------------------------------------------
(* The inductive invariant                                                  *)

Row == Events \X Subscribers \X (0..MaxAttempts)

Types ==
    /\ phase \in Phase /\ registered \subseteq Subscribers /\ unread \subseteq Events
    /\ event \in [Events -> EventState]
    /\ delivery \in [Events -> [Subscribers -> DeliveryRow]]
    /\ caller \in [Drainers -> CallerState]
    /\ pass \in [running : BOOLEAN, rows : SUBSET Row, awaits : SUBSET Row]
    /\ covers \in [Drainers -> SUBSET Rows]
    /\ queued \in BOOLEAN

\* A pass awaits one delivery at a time, runs for its callers, and is followed
\* by one pass for those that found it running.
Passes ==
    /\ \A r1, r2 \in pass.awaits : r1 = r2
    /\ queued <=> \E c \in Drainers : caller[c] = "follow"
    /\ pass.running <=> \E c \in Drainers : caller[c] = "pass"

\* A row pending has attempts left, and only a pending row is waiting.
Owed ==
    \A s \in Events, b \in Subscribers :
        /\ event[s] = "none" => delivery[s][b].disposition = "none"
        /\ delivery[s][b].waiting => delivery[s][b].disposition = "pending"
        /\ delivery[s][b].disposition = "pending" => delivery[s][b].attempts < MaxAttempts

\* Requests are served when boot is over, and boot when there are none.
Phases ==
    /\ phase \in {"down", "starting"} => caller[Boot] = "idle"
    /\ phase = "serving" => caller[Boot] = "idle"
    /\ phase # "serving" => \A c \in Callers : caller[c] = "idle"

\* What was runnable when a caller came is selected by its pass, or is runnable
\* still.
Covering ==
    \A c \in Drainers :
        /\ caller[c] = "follow" => covers[c] \subseteq Runnable
        /\ caller[c] = "pass" =>
              \A r \in covers[c] : \E row \in pass.rows \cup pass.awaits : r = <<row[1], row[2]>>

IInv == Types /\ Passes /\ Owed /\ Phases /\ NothingLost /\ Covering

-----------------------------------------------------------------------------
(* Rows                                                                     *)

LEMMA RowParts ==
    ASSUME NEW row \in Row
    PROVE  /\ row[1] \in Events /\ row[2] \in Subscribers /\ row[3] \in Nat /\ row[3] <= MaxAttempts
           /\ <<row[1], row[2]>> \in Rows
  BY BoundAssumption DEF Row, Rows

LEMMA CellTyped ==
    ASSUME Types, NEW s \in Events, NEW b \in Subscribers
    PROVE  /\ delivery[s][b] \in DeliveryRow /\ delivery[s] \in [Subscribers -> DeliveryRow]
           /\ delivery[s][b].attempts \in Nat /\ delivery[s][b].attempts <= MaxAttempts
           /\ delivery[s][b].disposition \in Disposition /\ delivery[s][b].waiting \in BOOLEAN
  BY BoundAssumption DEF Types, DeliveryRow

LEMMA RunnableIs ==
    ASSUME NEW s \in Events, NEW b \in Subscribers
    PROVE  <<s, b>> \in Runnable <=> /\ Stored(s)
                                     /\ delivery[s][b].disposition = "pending"
                                     /\ ~delivery[s][b].waiting
  BY DEF Runnable, Rows

LEMMA NewRows ==
    /\ NoRow \in DeliveryRow /\ PendingRow \in DeliveryRow
    /\ NoRow.disposition = "none" /\ ~NoRow.waiting /\ NoRow.attempts = 0
    /\ PendingRow.disposition = "pending" /\ ~PendingRow.waiting /\ PendingRow.attempts < MaxAttempts
<1>1. NoRow = [disposition |-> "none", attempts |-> 0, waiting |-> FALSE]
  BY DEF NoRow
<1>2. 0 \in 0..MaxAttempts /\ 0 < MaxAttempts
  BY BoundAssumption
<1>3. NoRow \in DeliveryRow /\ NoRow.disposition = "none" /\ ~NoRow.waiting /\ NoRow.attempts = 0
  BY <1>1, <1>2 DEF DeliveryRow, Disposition
<1>4. /\ PendingRow \in DeliveryRow /\ PendingRow.disposition = "pending" /\ ~PendingRow.waiting
      /\ PendingRow.attempts = 0
  BY <1>3 DEF PendingRow, DeliveryRow, Disposition
<1> QED BY <1>2, <1>3, <1>4

\* An event published, or left as it is, owes what it owed.
LEMMA PublishKeeps ==
    ASSUME Owed, NothingLost,
           \A s \in Events : \/ event'[s] = event[s]
                             \/ event[s] = "pending" /\ event'[s] = "published" /\ s \in heard',
           heard \subseteq heard', received \subseteq received', delivery' = delivery
    PROVE  /\ Owed' /\ NothingLost'
           /\ \A s \in Events : Stored(s)' <=> Stored(s)
           /\ Runnable' = Runnable
<1>1. Owed'
  BY DEF Owed
<1>2. NothingLost'
  BY DEF NothingLost
<1>3. \A s \in Events : Stored(s)' <=> Stored(s)
  BY DEF Stored
<1>4. Runnable' = Runnable
  BY <1>3 DEF Runnable, Rows
<1> QED BY <1>1, <1>2, <1>3, <1>4

\* The rows selected are those runnable.
LEMMA StartPassIs ==
    ASSUME Types, StartPass
    PROVE  /\ \A s \in Events : \/ event'[s] = event[s]
                                \/ event[s] = "pending" /\ event'[s] = "published" /\ s \in heard'
           /\ event' \in [Events -> EventState] /\ heard \subseteq heard'
           /\ pass' \in [running : BOOLEAN, rows : SUBSET Row, awaits : SUBSET Row]
           /\ pass'.running = TRUE /\ pass'.awaits = {}
           /\ \A r \in Runnable : \E row \in pass'.rows : r = <<row[1], row[2]>>
<1>1. PICK failing \in SUBSET {s \in Events : event[s] = "pending"} :
        /\ event' = [s \in Events |-> IF s \in {t \in Events : event[t] = "pending"} \ failing
                                      THEN "published" ELSE event[s]]
        /\ heard' = heard \cup ({s \in Events : event[s] = "pending"} \ failing)
  BY DEF StartPass
<1>2. /\ \A s \in Events : \/ event'[s] = event[s]
                           \/ event[s] = "pending" /\ event'[s] = "published" /\ s \in heard'
      /\ heard \subseteq heard'
  BY <1>1
<1>3. event' \in [Events -> EventState]
  BY <1>1 DEF Types, EventState
<1> DEFINE selected == {<<r[1], r[2], delivery[r[1]][r[2]].attempts>> : r \in Runnable}
<1>4. pass' = [running |-> TRUE, rows |-> selected, awaits |-> {}]
  BY DEF StartPass
<1>5. selected \subseteq Row
  <2> SUFFICES ASSUME NEW r \in Runnable
               PROVE  <<r[1], r[2], delivery[r[1]][r[2]].attempts>> \in Row
    OBVIOUS
  <2>1. r[1] \in Events /\ r[2] \in Subscribers
    BY DEF Runnable, Rows
  <2>2. delivery[r[1]][r[2]].attempts \in 0..MaxAttempts
    BY <2>1 DEF Types, DeliveryRow
  <2> QED BY <2>1, <2>2 DEF Row
<1>6. \A r \in Runnable : \E row \in selected : r = <<row[1], row[2]>>
  <2> SUFFICES ASSUME NEW r \in Runnable
               PROVE  \E row \in selected : r = <<row[1], row[2]>>
    OBVIOUS
  <2> DEFINE row == <<r[1], r[2], delivery[r[1]][r[2]].attempts>>
  <2>1. row \in selected
    OBVIOUS
  <2>2. r = <<row[1], row[2]>>
    BY DEF Runnable, Rows
  <2> QED BY <2>1, <2>2
<1> HIDE DEF selected
<1>7. /\ pass' \in [running : BOOLEAN, rows : SUBSET Row, awaits : SUBSET Row]
      /\ pass'.running = TRUE /\ pass'.awaits = {} /\ pass'.rows = selected
  BY <1>4, <1>5
<1> QED BY <1>2, <1>3, <1>6, <1>7

\* A disposition moves the row that its attempt read, and no other; and it
\* moves no row that is settled.
LEMMA DisposeKeeps ==
    ASSUME Types, Owed, NothingLost, NEW row \in Row, NEW after, Dispose(row, after),
           Guarded(row) => /\ after \in DeliveryRow /\ after.disposition # "none"
                           /\ after.waiting => after.disposition = "pending"
                           /\ after.disposition = "pending" => after.attempts < MaxAttempts
                           /\ after.disposition = "accepted" => <<row[1], row[2]>> \in received'
                           /\ after.disposition = "abandoned" => after.attempts = MaxAttempts,
           event' = event, heard' = heard, received \subseteq received'
    PROVE  /\ delivery' \in [Events -> [Subscribers -> DeliveryRow]]
           /\ Owed' /\ NothingLost'
           /\ \A s \in Events, b \in Subscribers :
                /\ <<s, b>> # <<row[1], row[2]>> => delivery'[s][b] = delivery[s][b]
                /\ delivery[s][b].disposition \in Final => delivery'[s][b] = delivery[s][b]
<1> DEFINE e == row[1]
           d == row[2]
<1>1. e \in Events /\ d \in Subscribers
  BY RowParts
<1>2. CASE ~Guarded(row)
  <2>1. delivery' = delivery
    BY <1>2 DEF Dispose
  <2>2. Owed' /\ NothingLost'
    BY <2>1, PublishKeeps
  <2> QED BY <2>1, <2>2 DEF Types
<1>3. CASE Guarded(row)
  <2>1. delivery' = [delivery EXCEPT ![e][d] = after] /\ after \in DeliveryRow
    BY <1>3 DEF Dispose
  <2>2. delivery[e][d].disposition = "pending"
    BY <1>3 DEF Guarded
  <2>3. delivery' \in [Events -> [Subscribers -> DeliveryRow]]
    BY <1>1, <2>1 DEF Types
  <2>4. /\ delivery'[e][d] = after
        /\ \A s \in Events, b \in Subscribers : s # e \/ b # d => delivery'[s][b] = delivery[s][b]
    BY <1>1, <2>1 DEF Types
  <2> HIDE DEF e, d
  <2>5. Owed'
    <3> SUFFICES ASSUME NEW s \in Events, NEW b \in Subscribers
                 PROVE  /\ event[s] = "none" => delivery'[s][b].disposition = "none"
                        /\ delivery'[s][b].waiting => delivery'[s][b].disposition = "pending"
                        /\ delivery'[s][b].disposition = "pending" => delivery'[s][b].attempts < MaxAttempts
      BY DEF Owed
    <3>1. CASE s = e /\ b = d
      BY <1>1, <1>3, <2>2, <2>4, <3>1 DEF Owed
    <3>2. CASE s # e \/ b # d
      BY <2>4, <3>2 DEF Owed
    <3> QED BY <3>1, <3>2
  <2>6. NothingLost'
    <3> SUFFICES ASSUME NEW s \in Events, NEW b \in Subscribers
                 PROVE  /\ event[s] = "pruned" => delivery'[s][b].disposition # "pending"
                        /\ delivery'[s][b].disposition = "accepted" => <<s, b>> \in received'
                        /\ delivery'[s][b].disposition = "abandoned" => delivery'[s][b].attempts = MaxAttempts
      BY DEF NothingLost
    <3>1. CASE s = e /\ b = d
      <4>1. event[s] # "pruned"
        BY <1>1, <2>2, <3>1 DEF NothingLost
      <4>2. <<row[1], row[2]>> = <<s, b>>
        BY <3>1 DEF e, d
      <4> QED BY <1>3, <2>4, <3>1, <4>1, <4>2
    <3>2. CASE s # e \/ b # d
      BY <2>4, <3>2 DEF NothingLost
    <3> QED BY <3>1, <3>2
  <2>7. \A s \in Events, b \in Subscribers :
          /\ <<s, b>> # <<row[1], row[2]>> => delivery'[s][b] = delivery[s][b]
          /\ delivery[s][b].disposition \in Final => delivery'[s][b] = delivery[s][b]
    BY <2>2, <2>4 DEF e, d, Final
  <2> QED BY <2>3, <2>5, <2>6, <2>7
<1> QED BY <1>2, <1>3

\* An insertion adds rows of an event that had none.
LEMMA InsertKeeps ==
    ASSUME Types, Owed, NothingLost, NEW s \in Events, NEW owing \in SUBSET Subscribers,
           Insert(s, owing), NEW to \in {"pending", "published"},
           event' = [event EXCEPT ![s] = to], to = "published" => s \in heard',
           heard \subseteq heard', received \subseteq received'
    PROVE  /\ event' \in [Events -> EventState]
           /\ delivery' \in [Events -> [Subscribers -> DeliveryRow]]
           /\ Owed' /\ NothingLost'
           /\ Runnable \subseteq Runnable'
           /\ \A t \in Events, b \in Subscribers :
                delivery[t][b].disposition \in Final => delivery'[t][b] = delivery[t][b]
<1>1. /\ event[s] = "none" /\ phase = "serving"
      /\ delivery' = [delivery EXCEPT ![s] = [b \in Subscribers |-> IF b \in owing THEN PendingRow ELSE NoRow]]
  BY DEF Insert, NextEvent
<1>2. event' \in [Events -> EventState] /\ event'[s] = to /\ \A t \in Events : t # s => event'[t] = event[t]
  BY DEF Types, EventState
<1>3. [b \in Subscribers |-> IF b \in owing THEN PendingRow ELSE NoRow] \in [Subscribers -> DeliveryRow]
  BY NewRows
<1>4. /\ delivery' \in [Events -> [Subscribers -> DeliveryRow]]
      /\ \A t \in Events : t # s => delivery'[t] = delivery[t]
      /\ \A b \in Subscribers : delivery'[s][b] = IF b \in owing THEN PendingRow ELSE NoRow
  BY <1>1, <1>3 DEF Types
<1>5. Owed'
  <2> SUFFICES ASSUME NEW t \in Events, NEW b \in Subscribers
               PROVE  /\ event'[t] = "none" => delivery'[t][b].disposition = "none"
                      /\ delivery'[t][b].waiting => delivery'[t][b].disposition = "pending"
                      /\ delivery'[t][b].disposition = "pending" => delivery'[t][b].attempts < MaxAttempts
    BY DEF Owed
  <2>1. CASE t = s
    BY <1>2, <1>4, <2>1, NewRows
  <2>2. CASE t # s
    BY <1>2, <1>4, <2>2 DEF Owed
  <2> QED BY <2>1, <2>2
<1>6. NothingLost'
  <2> SUFFICES ASSUME NEW t \in Events
               PROVE  /\ event'[t] \in {"published", "pruned"} => t \in heard'
                      /\ \A b \in Subscribers :
                          /\ event'[t] = "pruned" => delivery'[t][b].disposition # "pending"
                          /\ delivery'[t][b].disposition = "accepted" => <<t, b>> \in received'
                          /\ delivery'[t][b].disposition = "abandoned" => delivery'[t][b].attempts = MaxAttempts
    BY DEF NothingLost
  <2>1. CASE t = s
    <3>1. event'[t] # "pruned" /\ (event'[t] \in {"published", "pruned"} => t \in heard')
      BY <1>2, <2>1
    <3>2. \A b \in Subscribers : delivery'[t][b].disposition \in {"none", "pending"}
      BY <1>4, <2>1, NewRows
    <3> QED BY <3>1, <3>2
  <2>2. CASE t # s
    BY <1>2, <1>4, <2>2 DEF NothingLost
  <2> QED BY <2>1, <2>2
<1>7. Runnable \subseteq Runnable'
  <2> SUFFICES ASSUME NEW r \in Runnable
               PROVE  r \in Runnable'
    OBVIOUS
  <2>1. r \in Rows /\ r[1] \in Events /\ Stored(r[1])
        /\ delivery[r[1]][r[2]].disposition = "pending" /\ ~delivery[r[1]][r[2]].waiting
    BY DEF Runnable, Rows
  <2>2. r[1] # s
    BY <1>1, <2>1 DEF Stored
  <2>3. event'[r[1]] = event[r[1]] /\ delivery'[r[1]] = delivery[r[1]]
    BY <1>2, <1>4, <2>1, <2>2
  <2> QED BY <2>1, <2>3 DEF Runnable, Stored
<1>8. \A t \in Events, b \in Subscribers :
        delivery[t][b].disposition \in Final => delivery'[t][b] = delivery[t][b]
  BY <1>1, <1>4 DEF Owed, Final
<1> QED BY <1>2, <1>4, <1>5, <1>6, <1>7, <1>8

-----------------------------------------------------------------------------
(* Passes and callers                                                       *)

\* A lost process takes its pass and its callers with it.
LEMMA LoseIs ==
    ASSUME Types, Lose
    PROVE  /\ phase' \in Phase /\ queued' \in BOOLEAN
           /\ pass' \in [running : BOOLEAN, rows : SUBSET Row, awaits : SUBSET Row]
           /\ caller' \in [Drainers -> CallerState] /\ covers' \in [Drainers -> SUBSET Rows]
           /\ Passes' /\ Phases' /\ Covering'
           /\ phase' = "down"
<1>1. /\ phase' = "down" /\ queued' = FALSE /\ pass' = NoPass
      /\ caller' = [c \in Drainers |-> "idle"] /\ covers' = [c \in Drainers |-> {}]
  BY DEF Lose
<1>2. /\ pass' \in [running : BOOLEAN, rows : SUBSET Row, awaits : SUBSET Row]
      /\ pass'.running = FALSE /\ pass'.awaits = {}
  BY <1>1 DEF NoPass
<1>3. caller' \in [Drainers -> CallerState] /\ covers' \in [Drainers -> SUBSET Rows]
  BY <1>1 DEF CallerState
<1>4. \A c \in Drainers : caller'[c] = "idle"
  BY <1>1
<1>5. Passes'
  BY <1>1, <1>2, <1>4 DEF Passes
<1>6. Phases'
  BY <1>4 DEF Phases, Drainers
<1>7. Covering'
  BY <1>4 DEF Covering
<1> QED BY <1>1, <1>2, <1>3, <1>5, <1>6, <1>7 DEF Phase

\* A pass ends with its callers.
LEMMA EndPassIs ==
    ASSUME Types, Passes, Phases, Covering, NEW outcome \in {"idle", "faulted", "unreadable"},
           EndPass(outcome), phase' = phase, queued' = queued, event' = event, delivery' = delivery
    PROVE  /\ pass' \in [running : BOOLEAN, rows : SUBSET Row, awaits : SUBSET Row]
           /\ caller' \in [Drainers -> CallerState] /\ covers' \in [Drainers -> SUBSET Rows]
           /\ Passes' /\ Phases' /\ Covering'
<1>1. /\ pass' = NoPass
      /\ caller' = [c \in Drainers |-> IF caller[c] = "pass" THEN outcome ELSE caller[c]]
      /\ covers' = [c \in Drainers |-> IF caller[c] = "pass" THEN {} ELSE covers[c]]
  BY DEF EndPass
<1>2. /\ pass' \in [running : BOOLEAN, rows : SUBSET Row, awaits : SUBSET Row]
      /\ pass'.running = FALSE /\ pass'.awaits = {}
  BY <1>1 DEF NoPass
<1>3. caller' \in [Drainers -> CallerState] /\ covers' \in [Drainers -> SUBSET Rows]
  BY <1>1 DEF Types, CallerState
<1>4. \A c \in Drainers : /\ caller'[c] # "pass"
                          /\ caller[c] # "pass" => caller'[c] = caller[c] /\ covers'[c] = covers[c]
                          /\ caller'[c] = "follow" => caller[c] = "follow"
  BY <1>1
<1>5. Passes'
  BY <1>2, <1>4 DEF Passes
<1>6. Phases'
  BY <1>4 DEF Phases, Drainers
<1>7. Runnable' = Runnable
  BY DEF Runnable, Stored
<1>8. Covering'
  BY <1>4, <1>7 DEF Covering
<1> QED BY <1>2, <1>3, <1>5, <1>6, <1>8

\* drain(): a pass of its own, or the one that follows.
LEMMA DrainIs ==
    ASSUME IInv, NEW c \in Drainers, Drain(c), phase' \in Phase
    PROVE  /\ Types' /\ Passes' /\ Owed' /\ NothingLost' /\ Covering'
           /\ delivery' = delivery /\ caller[c] = "idle"
           /\ \A d \in Drainers : d # c => caller'[d] = caller[d]
<1> USE DEF IInv
<1>1. /\ caller[c] = "idle" /\ covers' = [covers EXCEPT ![c] = Runnable]
      /\ UNCHANGED <<registered, unread, delivery, crashes, received>>
  BY DEF Drain
<1>2. /\ covers' \in [Drainers -> SUBSET Rows] /\ covers'[c] = Runnable
      /\ \A d \in Drainers : d # c => covers'[d] = covers[d]
  BY <1>1 DEF Types, Runnable
<1>3. CASE ~pass.running /\ ~queued /\ caller' = [caller EXCEPT ![c] = "pass"] /\ StartPass /\ UNCHANGED queued
  <2>1. /\ caller' \in [Drainers -> CallerState] /\ caller'[c] = "pass"
        /\ \A d \in Drainers : d # c => caller'[d] = caller[d]
    BY <1>3 DEF Types, CallerState
  <2>2. /\ \A s \in Events : \/ event'[s] = event[s]
                             \/ event[s] = "pending" /\ event'[s] = "published" /\ s \in heard'
        /\ event' \in [Events -> EventState] /\ heard \subseteq heard'
        /\ pass' \in [running : BOOLEAN, rows : SUBSET Row, awaits : SUBSET Row]
        /\ pass'.running = TRUE /\ pass'.awaits = {}
        /\ \A r \in Runnable : \E row \in pass'.rows : r = <<row[1], row[2]>>
    BY <1>3, StartPassIs
  <2>3. received \subseteq received' /\ delivery' = delivery
    BY <1>1
  <2>4. Owed' /\ NothingLost' /\ Runnable' = Runnable
    BY ONLY <2>2, <2>3, Owed, NothingLost, PublishKeeps
  <2>5. \A d \in Drainers : caller[d] # "pass" /\ caller[d] # "follow"
    BY <1>3 DEF Passes
  <2>6. Passes'
    BY <1>3, <2>1, <2>2, <2>5 DEF Passes
  <2>7. Covering'
    BY <1>2, <2>1, <2>2, <2>5 DEF Covering
  <2>8. Types'
    BY <1>1, <1>2, <1>3, <2>1, <2>2 DEF Types
  <2> QED BY <1>1, <2>1, <2>4, <2>6, <2>7, <2>8
<1>4. CASE /\ pass.running \/ queued
           /\ caller' = [caller EXCEPT ![c] = "follow"] /\ queued' = TRUE
           /\ UNCHANGED <<pass, event, heard, faults>>
  <2>1. /\ caller' \in [Drainers -> CallerState] /\ caller'[c] = "follow"
        /\ \A d \in Drainers : d # c => caller'[d] = caller[d]
    BY <1>4 DEF Types, CallerState
  <2>2. Owed' /\ NothingLost' /\ Runnable' = Runnable
    BY <1>1, <1>4 DEF Owed, NothingLost, Runnable, Stored
  <2>3. Passes'
    BY <1>1, <1>4, <2>1 DEF Passes
  <2>4. Covering'
    BY <1>1, <1>2, <1>4, <2>1, <2>2 DEF Covering
  <2>5. Types'
    BY <1>1, <1>2, <1>4, <2>1 DEF Types
  <2> QED BY <1>1, <2>1, <2>2, <2>3, <2>4, <2>5
<1> QED BY <1>3, <1>4 DEF Drain

-----------------------------------------------------------------------------
(* The steps                                                                *)

\* A commit's insertion, in a process that goes on.
LEMMA CommitKeeps ==
    ASSUME IInv, NEW s \in Events, NEW owing \in SUBSET Subscribers,
           Commit(s, owing) \/ CommitUnpublished(s, owing)
    PROVE  IInv'
<1> USE DEF IInv
<1>1. PICK to \in {"pending", "published"} :
        /\ Insert(s, owing) /\ event' = [event EXCEPT ![s] = to]
        /\ to = "published" => s \in heard'
        /\ heard \subseteq heard'
        /\ UNCHANGED <<phase, registered, unread, pass, queued, caller, received, covers>>
  BY DEF Commit, CommitUnpublished
<1>2. received \subseteq received'
  BY <1>1
<1>3. /\ event' \in [Events -> EventState] /\ delivery' \in [Events -> [Subscribers -> DeliveryRow]]
      /\ Owed' /\ NothingLost' /\ Runnable \subseteq Runnable'
  BY <1>1, <1>2, InsertKeeps
<1>4. Types'
  BY <1>1, <1>3 DEF Types
<1>5. Passes' /\ Phases'
  BY <1>1 DEF Passes, Phases
<1>6. Covering'
  BY <1>1, <1>3 DEF Covering
<1> QED BY <1>3, <1>4, <1>5, <1>6

LEMMA CommitAndCrashKeeps ==
    ASSUME IInv, NEW s \in Events, NEW owing \in SUBSET Subscribers, CommitAndCrash(s, owing)
    PROVE  IInv'
<1> USE DEF IInv
<1>1. /\ Insert(s, owing) /\ Lose /\ event' = [event EXCEPT ![s] = "pending"]
      /\ UNCHANGED <<registered, unread, faults, heard, received>>
  BY DEF CommitAndCrash
<1>2. heard \subseteq heard' /\ received \subseteq received'
  BY <1>1
<1>3. /\ event' \in [Events -> EventState] /\ delivery' \in [Events -> [Subscribers -> DeliveryRow]]
      /\ Owed' /\ NothingLost'
  BY <1>1, <1>2, InsertKeeps
<1>4. /\ phase' \in Phase /\ queued' \in BOOLEAN
      /\ pass' \in [running : BOOLEAN, rows : SUBSET Row, awaits : SUBSET Row]
      /\ caller' \in [Drainers -> CallerState] /\ covers' \in [Drainers -> SUBSET Rows]
      /\ Passes' /\ Phases' /\ Covering'
  BY <1>1, LoseIs
<1>5. Types'
  BY <1>1, <1>3, <1>4 DEF Types
<1> QED BY <1>3, <1>4, <1>5

LEMMA CrashKeeps ==
    ASSUME IInv, Crash
    PROVE  IInv'
<1> USE DEF IInv
<1>1. Lose /\ UNCHANGED <<registered, unread, event, delivery, faults, heard>>
  BY DEF Crash
<1>2. received \subseteq received'
  BY DEF Crash
<1>3. Owed' /\ NothingLost'
  BY <1>1, <1>2 DEF Owed, NothingLost
<1>4. /\ phase' \in Phase /\ queued' \in BOOLEAN
      /\ pass' \in [running : BOOLEAN, rows : SUBSET Row, awaits : SUBSET Row]
      /\ caller' \in [Drainers -> CallerState] /\ covers' \in [Drainers -> SUBSET Rows]
      /\ Passes' /\ Phases' /\ Covering'
  BY <1>1, LoseIs
<1>5. Types'
  BY <1>1, <1>4 DEF Types
<1> QED BY <1>3, <1>4, <1>5

LEMMA RequestKeeps ==
    ASSUME IInv, NEW c \in Callers, Request(c)
    PROVE  IInv'
<1>1. phase = "serving" /\ phase' = phase /\ Drain(c) /\ c \in Drainers /\ c # Boot
  BY BoundAssumption DEF Request, Drainers
<1>2. phase' \in Phase
  BY <1>1 DEF Phase
<1>3. /\ Types' /\ Passes' /\ Owed' /\ NothingLost' /\ Covering'
      /\ \A d \in Drainers : d # c => caller'[d] = caller[d]
  BY <1>1, <1>2, DrainIs
<1>4. Phases'
  BY <1>1, <1>3 DEF IInv, Phases, Drainers
<1> QED BY <1>3, <1>4 DEF IInv

LEMMA RecoverKeeps ==
    ASSUME IInv, Recover
    PROVE  IInv'
<1>1. phase = "starting" /\ phase' = "recovering" /\ Drain(Boot) /\ Boot \in Drainers /\ Boot \notin Callers
  BY BoundAssumption DEF Recover, Drainers
<1>2. phase' \in Phase
  BY <1>1 DEF Phase
<1>3. /\ Types' /\ Passes' /\ Owed' /\ NothingLost' /\ Covering'
      /\ \A d \in Drainers : d # Boot => caller'[d] = caller[d]
  BY <1>1, <1>2, DrainIs
<1>4. Phases'
  BY <1>1, <1>3 DEF IInv, Phases, Drainers
<1> QED BY <1>3, <1>4 DEF IInv

\* The row goes from those selected to the one awaited.
LEMMA AttemptKeeps ==
    ASSUME IInv, NEW row \in pass.rows, Attempt(row)
    PROVE  IInv'
<1> USE DEF IInv
<1>1. /\ pass.awaits = {}
      /\ pass' = [pass EXCEPT !.rows = @ \ {row}, !.awaits = {row}]
      /\ UNCHANGED <<phase, registered, unread, event, delivery, queued, caller, faults,
                     crashes, heard, received, covers>>
  BY DEF Attempt
<1>2. /\ pass' \in [running : BOOLEAN, rows : SUBSET Row, awaits : SUBSET Row]
      /\ pass'.running = pass.running /\ pass'.awaits = {row} /\ pass'.rows = pass.rows \ {row}
  BY <1>1 DEF Types
<1>3. Types'
  BY <1>1, <1>2 DEF Types
<1>4. Passes'
  BY <1>1, <1>2 DEF Passes
<1>5. Owed' /\ NothingLost' /\ Phases' /\ Runnable' = Runnable
  BY <1>1 DEF Owed, NothingLost, Phases, Runnable, Stored
<1>6. Covering'
  BY <1>1, <1>2, <1>5 DEF Covering
<1> QED BY <1>3, <1>4, <1>5, <1>6

\* An attempt has its answer: its row is tried, and no other is touched.
LEMMA AnswerKeeps ==
    ASSUME IInv, NEW row \in pass.awaits, NEW after,
           Dispose(row, after), Tried(row), pass' = [pass EXCEPT !.awaits = {}],
           Guarded(row) => /\ after \in DeliveryRow /\ after.disposition # "none"
                           /\ after.waiting => after.disposition = "pending"
                           /\ after.disposition = "pending" => after.attempts < MaxAttempts
                           /\ after.disposition = "accepted" => <<row[1], row[2]>> \in received'
                           /\ after.disposition = "abandoned" => after.attempts = MaxAttempts,
           received \subseteq received',
           UNCHANGED <<phase, registered, unread, event, queued, caller, heard>>
    PROVE  /\ IInv'
           /\ \A s \in Events, b \in Subscribers :
                delivery[s][b].disposition \in Final => delivery'[s][b] = delivery[s][b]
<1> USE DEF IInv
<1>1. row \in Row
  BY DEF Types
<1>2. /\ delivery' \in [Events -> [Subscribers -> DeliveryRow]]
      /\ Owed' /\ NothingLost'
      /\ \A s \in Events, b \in Subscribers :
            /\ <<s, b>> # <<row[1], row[2]>> => delivery'[s][b] = delivery[s][b]
            /\ delivery[s][b].disposition \in Final => delivery'[s][b] = delivery[s][b]
  BY <1>1, DisposeKeeps
<1>3. /\ pass' \in [running : BOOLEAN, rows : SUBSET Row, awaits : SUBSET Row]
      /\ pass'.running = pass.running /\ pass'.awaits = {} /\ pass'.rows = pass.rows
  BY DEF Types
<1>4. /\ covers' \in [Drainers -> SUBSET Rows]
      /\ \A c \in Drainers : covers'[c] = covers[c] \ {<<row[1], row[2]>>}
  BY DEF Types, Tried
<1>5. Types'
  BY <1>2, <1>3, <1>4 DEF Types
<1>6. Passes' /\ Phases'
  BY <1>3 DEF Passes, Phases
<1>7. \A r \in Runnable : r # <<row[1], row[2]>> => r \in Runnable'
  <2> SUFFICES ASSUME NEW r \in Runnable, r # <<row[1], row[2]>>
               PROVE  r \in Runnable'
    OBVIOUS
  <2>1. /\ r \in Rows /\ r[1] \in Events /\ r[2] \in Subscribers /\ r = <<r[1], r[2]>> /\ Stored(r[1])
        /\ delivery[r[1]][r[2]].disposition = "pending" /\ ~delivery[r[1]][r[2]].waiting
    BY DEF Runnable, Rows
  <2>2. delivery'[r[1]][r[2]] = delivery[r[1]][r[2]]
    BY <1>2, <2>1
  <2> QED BY <2>1, <2>2 DEF Runnable, Stored
<1>8. Covering'
  <2> SUFFICES ASSUME NEW c \in Drainers
               PROVE  /\ caller[c] = "follow" => covers'[c] \subseteq Runnable'
                      /\ caller[c] = "pass" => \A r \in covers'[c] : \E q \in pass.rows : r = <<q[1], q[2]>>
    BY <1>3 DEF Covering
  <2>1. ASSUME caller[c] = "follow"
        PROVE  covers'[c] \subseteq Runnable'
    BY <1>4, <1>7, <2>1 DEF Covering
  <2>2. ASSUME caller[c] = "pass", NEW r \in covers'[c]
        PROVE  \E q \in pass.rows : r = <<q[1], q[2]>>
    <3>1. r \in covers[c] /\ r # <<row[1], row[2]>>
      BY <1>4
    <3>2. PICK q \in pass.rows \cup pass.awaits : r = <<q[1], q[2]>>
      BY <2>2, <3>1 DEF Covering
    <3>3. q \in pass.awaits => q = row
      BY DEF Passes
    <3> QED BY <3>1, <3>2, <3>3
  <2> QED BY <2>1, <2>2
<1> QED BY <1>2, <1>5, <1>6, <1>8

LEMMA AcceptKeeps ==
    ASSUME IInv, NEW row \in pass.awaits, Accept(row)
    PROVE  /\ IInv'
           /\ \A s \in Events, b \in Subscribers :
                delivery[s][b].disposition \in Final => delivery'[s][b] = delivery[s][b]
<1> DEFINE after == [disposition |-> "accepted", attempts |-> row[3] + 1, waiting |-> FALSE]
<1>1. /\ Dispose(row, after) /\ Tried(row) /\ pass' = [pass EXCEPT !.awaits = {}]
      /\ received' = received \cup {<<row[1], row[2]>>}
      /\ UNCHANGED <<phase, registered, unread, event, queued, caller, heard>>
  BY DEF Accept
<1>2. Guarded(row) => row[3] + 1 \in 0..MaxAttempts
  <2> SUFFICES ASSUME Guarded(row)
               PROVE  row[3] + 1 \in 0..MaxAttempts
    OBVIOUS
  <2>1. row \in Row
    BY DEF IInv, Types
  <2>2. row[1] \in Events /\ row[2] \in Subscribers /\ row[3] \in Nat
    BY <2>1, RowParts
  <2>3. row[3] < MaxAttempts
    BY <2>2 DEF Guarded, IInv, Owed
  <2> QED BY <2>2, <2>3, BoundAssumption
<1>3. Guarded(row) => after \in DeliveryRow
  BY <1>2 DEF DeliveryRow, Disposition
<1>4. after.disposition = "accepted" /\ ~after.waiting
  OBVIOUS
<1>5. <<row[1], row[2]>> \in received' /\ received \subseteq received'
  BY <1>1
<1> HIDE DEF after
<1> QED BY <1>1, <1>3, <1>4, <1>5, AnswerKeeps

LEMMA FailKeeps ==
    ASSUME IInv, NEW row \in pass.awaits, Fail(row)
    PROVE  /\ IInv'
           /\ \A s \in Events, b \in Subscribers :
                delivery[s][b].disposition \in Final => delivery'[s][b] = delivery[s][b]
<1> DEFINE after == AfterFailure(row)
<1>1. /\ Dispose(row, after) /\ Tried(row) /\ pass' = [pass EXCEPT !.awaits = {}]
      /\ UNCHANGED <<phase, registered, unread, event, queued, caller, heard>>
  BY DEF Fail
<1>2. received \subseteq received'
  BY DEF Fail
<1>3. Guarded(row) => row[3] + 1 \in 0..MaxAttempts /\ row[3] + 1 <= MaxAttempts /\ row[3] \in Nat
  <2> SUFFICES ASSUME Guarded(row)
               PROVE  row[3] + 1 \in 0..MaxAttempts /\ row[3] + 1 <= MaxAttempts /\ row[3] \in Nat
    OBVIOUS
  <2>1. row \in Row
    BY DEF IInv, Types
  <2>2. row[1] \in Events /\ row[2] \in Subscribers /\ row[3] \in Nat
    BY <2>1, RowParts
  <2>3. row[3] < MaxAttempts
    BY <2>2 DEF Guarded, IInv, Owed
  <2> QED BY <2>2, <2>3, BoundAssumption
<1>4. CASE row[3] + 1 >= MaxAttempts
  <2>1. after = [disposition |-> "abandoned", attempts |-> row[3] + 1, waiting |-> FALSE]
    BY <1>4 DEF AfterFailure
  <2>2. after.disposition = "abandoned" /\ ~after.waiting /\ after.attempts = row[3] + 1
    BY <2>1
  <2>3. Guarded(row) => after \in DeliveryRow
    BY <1>3, <2>1 DEF DeliveryRow, Disposition
  <2>4. Guarded(row) => after.attempts = MaxAttempts
    BY <1>3, <1>4, <2>2, BoundAssumption
  <2> HIDE DEF after
  <2> QED BY <1>1, <1>2, <2>2, <2>3, <2>4, AnswerKeeps
<1>5. CASE ~(row[3] + 1 >= MaxAttempts)
  <2>1. after = [disposition |-> "pending", attempts |-> row[3] + 1, waiting |-> TRUE]
    BY <1>5 DEF AfterFailure
  <2>2. after.disposition = "pending" /\ after.attempts = row[3] + 1
    BY <2>1
  <2>3. Guarded(row) => after \in DeliveryRow
    BY <1>3, <2>1 DEF DeliveryRow, Disposition
  <2>4. Guarded(row) => after.attempts < MaxAttempts
    BY <1>3, <1>5, <2>2, BoundAssumption
  <2> HIDE DEF after
  <2> QED BY <1>1, <1>2, <2>2, <2>3, <2>4, AnswerKeeps
<1> QED BY <1>4, <1>5

LEMMA BackoffKeeps ==
    ASSUME IInv, NEW s \in Events, NEW b \in Subscribers, BackoffEnds(s, b)
    PROVE  /\ IInv'
           /\ \A t \in Events, d \in Subscribers :
                delivery[t][d].disposition \in Final => delivery'[t][d] = delivery[t][d]
<1> USE DEF IInv
<1>1. /\ delivery[s][b].waiting
      /\ delivery' = [delivery EXCEPT ![s][b].waiting = FALSE]
      /\ UNCHANGED <<phase, registered, unread, event, pass, queued, caller, faults,
                     crashes, heard, received, covers>>
  BY DEF BackoffEnds
<1>2. delivery[s][b].disposition = "pending" /\ delivery[s][b] \in DeliveryRow
  BY <1>1, CellTyped DEF Owed
<1> DEFINE after == [delivery[s][b] EXCEPT !.waiting = FALSE]
<1>3. after \in DeliveryRow
  BY <1>2 DEF DeliveryRow
<1>4. /\ after.disposition = delivery[s][b].disposition /\ ~after.waiting
      /\ after.attempts = delivery[s][b].attempts
  BY <1>2 DEF DeliveryRow
<1>5. /\ delivery' \in [Events -> [Subscribers -> DeliveryRow]]
      /\ delivery'[s][b] = after
      /\ \A t \in Events, d \in Subscribers : t # s \/ d # b => delivery'[t][d] = delivery[t][d]
  BY <1>1, <1>3 DEF Types
<1> HIDE DEF after
<1>6. \A t \in Events, d \in Subscribers :
        /\ delivery'[t][d].disposition = delivery[t][d].disposition
        /\ delivery'[t][d].attempts = delivery[t][d].attempts
        /\ delivery'[t][d].waiting => delivery[t][d].waiting
  BY <1>4, <1>5
<1>7. Types'
  BY <1>1, <1>5 DEF Types
<1>8. Passes' /\ Phases'
  BY <1>1 DEF Passes, Phases
<1>9. Owed'
  BY <1>1, <1>6 DEF Owed
<1>10. NothingLost'
  BY <1>1, <1>6 DEF NothingLost
<1>11. Runnable \subseteq Runnable'
  <2> SUFFICES ASSUME NEW r \in Runnable
               PROVE  r \in Runnable'
    OBVIOUS
  <2>1. /\ r \in Rows /\ r[1] \in Events /\ r[2] \in Subscribers /\ Stored(r[1])
        /\ delivery[r[1]][r[2]].disposition = "pending" /\ ~delivery[r[1]][r[2]].waiting
    BY DEF Runnable, Rows
  <2>2. delivery'[r[1]][r[2]].disposition = "pending" /\ ~delivery'[r[1]][r[2]].waiting
    BY <1>6, <2>1
  <2> QED BY <1>1, <2>1, <2>2 DEF Runnable, Stored
<1>12. Covering'
  BY <1>1, <1>11 DEF Covering
<1>13. \A t \in Events, d \in Subscribers :
        delivery[t][d].disposition \in Final => delivery'[t][d] = delivery[t][d]
  BY <1>2, <1>5 DEF Final
<1> QED BY <1>7, <1>8, <1>9, <1>10, <1>12, <1>13

\* A pass that ends, well or not.
LEMMA PassEndKeeps ==
    ASSUME IInv, PassDone \/ PassFaults \/ PassUnreadable
    PROVE  IInv'
<1> USE DEF IInv
<1>1. PICK outcome \in {"idle", "faulted", "unreadable"} :
        /\ EndPass(outcome)
        /\ UNCHANGED <<phase, registered, unread, event, delivery, queued, heard>>
  BY DEF PassDone, PassFaults, PassUnreadable
<1>2. received \subseteq received'
  BY DEF PassDone, PassFaults, PassUnreadable
<1>3. /\ pass' \in [running : BOOLEAN, rows : SUBSET Row, awaits : SUBSET Row]
      /\ caller' \in [Drainers -> CallerState] /\ covers' \in [Drainers -> SUBSET Rows]
      /\ Passes' /\ Phases' /\ Covering'
  BY <1>1, EndPassIs
<1>4. Types'
  BY <1>1, <1>3 DEF Types
<1>5. Owed' /\ NothingLost'
  BY <1>1, <1>2 DEF Owed, NothingLost
<1> QED BY <1>3, <1>4, <1>5

\* The follow-up selects what its callers found runnable, for nothing has
\* attempted it since.
LEMMA FollowUpKeeps ==
    ASSUME IInv, FollowUp
    PROVE  IInv'
<1> USE DEF IInv
<1>1. /\ queued /\ ~pass.running /\ queued' = FALSE
      /\ caller' = [c \in Drainers |-> IF caller[c] = "follow" THEN "pass" ELSE caller[c]]
      /\ StartPass
      /\ UNCHANGED <<phase, registered, unread, delivery, crashes, received, covers>>
  BY DEF FollowUp
<1>2. /\ \A s \in Events : \/ event'[s] = event[s]
                           \/ event[s] = "pending" /\ event'[s] = "published" /\ s \in heard'
      /\ event' \in [Events -> EventState] /\ heard \subseteq heard'
      /\ pass' \in [running : BOOLEAN, rows : SUBSET Row, awaits : SUBSET Row]
      /\ pass'.running = TRUE /\ pass'.awaits = {}
      /\ \A r \in Runnable : \E row \in pass'.rows : r = <<row[1], row[2]>>
  BY <1>1, StartPassIs
<1>3. received \subseteq received' /\ delivery' = delivery
  BY <1>1
<1>4. Owed' /\ NothingLost'
  BY ONLY <1>2, <1>3, Owed, NothingLost, PublishKeeps
<1>5. /\ caller' \in [Drainers -> CallerState]
      /\ \A c \in Drainers : /\ caller[c] # "pass" /\ caller'[c] # "follow"
                             /\ caller'[c] = "pass" <=> caller[c] = "follow"
                             /\ caller[c] = "idle" => caller'[c] = "idle"
  BY <1>1 DEF Types, CallerState, Passes
<1>6. Types'
  BY <1>1, <1>2, <1>5 DEF Types
<1>7. Passes'
  BY <1>1, <1>2, <1>5 DEF Passes
<1>8. Phases'
  BY <1>1, <1>5 DEF Phases, Drainers
<1>9. Covering'
  BY <1>1, <1>2, <1>5 DEF Covering
<1> QED BY <1>4, <1>6, <1>7, <1>8, <1>9

LEMMA RequestFailsKeeps ==
    ASSUME IInv, NEW c \in Drainers, RequestFails(c)
    PROVE  IInv'
<1> USE DEF IInv
<1>1. /\ caller[c] \in {"faulted", "unreadable"}
      /\ caller' = [caller EXCEPT ![c] = "idle"]
      /\ phase' = IF c = Boot THEN "down" ELSE phase
      /\ UNCHANGED <<registered, unread, event, delivery, pass, queued, faults, crashes,
                     heard, received, covers>>
  BY DEF RequestFails
<1>2. /\ caller' \in [Drainers -> CallerState] /\ caller'[c] = "idle"
      /\ \A d \in Drainers : d # c => caller'[d] = caller[d]
  BY <1>1 DEF Types, CallerState
<1>3. Types'
  BY <1>1, <1>2 DEF Types, Phase
<1>4. Passes'
  BY <1>1, <1>2 DEF Passes
<1>5. Phases'
  <2>1. CASE c = Boot
    BY <1>1, <1>2, <2>1, BoundAssumption DEF Phases, Drainers
  <2>2. CASE c # Boot
    BY <1>1, <1>2, <2>2, BoundAssumption DEF Phases, Drainers
  <2> QED BY <2>1, <2>2
<1>6. Owed' /\ NothingLost' /\ Runnable' = Runnable
  BY <1>1 DEF Owed, NothingLost, Runnable, Stored
<1>7. Covering'
  BY <1>1, <1>2, <1>6 DEF Covering
<1> QED BY <1>3, <1>4, <1>5, <1>6, <1>7

\* A start reconciles the rows of subscribers that are gone, and those alone.
LEMMA StartKeeps ==
    ASSUME IInv, NEW subscribers \in SUBSET Subscribers, NEW newer \in SUBSET Events,
           Start(subscribers, newer)
    PROVE  /\ IInv'
           /\ \A s \in Events, b \in Subscribers :
                delivery[s][b].disposition \in Final => delivery'[s][b] = delivery[s][b]
<1> USE DEF IInv
<1>1. /\ phase = "down" /\ phase' = "starting" /\ unread' = newer /\ registered' = subscribers
      /\ delivery' = Removed(subscribers)
      /\ UNCHANGED <<event, pass, queued, caller, faults, crashes, heard, received, covers>>
  BY DEF Start
<1> DEFINE cell(s, b) == IF delivery[s][b].disposition = "pending" /\ b \notin subscribers
                         THEN [delivery[s][b] EXCEPT !.disposition = "subscriber_removed", !.waiting = FALSE]
                         ELSE delivery[s][b]
<1>2. ASSUME NEW s \in Events, NEW b \in Subscribers
      PROVE  /\ cell(s, b) \in DeliveryRow
             /\ \/ cell(s, b) = delivery[s][b]
                \/ /\ delivery[s][b].disposition = "pending"
                   /\ cell(s, b).disposition = "subscriber_removed" /\ ~cell(s, b).waiting
  <2>1. delivery[s][b] \in DeliveryRow
    BY CellTyped
  <2>2. CASE delivery[s][b].disposition = "pending" /\ b \notin subscribers
    BY <2>1, <2>2 DEF DeliveryRow, Disposition
  <2>3. CASE ~(delivery[s][b].disposition = "pending" /\ b \notin subscribers)
    BY <2>1, <2>3
  <2> QED BY <2>2, <2>3
<1>3. delivery' = [s \in Events |-> [b \in Subscribers |-> cell(s, b)]]
  BY <1>1 DEF Removed
<1> HIDE DEF cell
<1>4. /\ delivery' \in [Events -> [Subscribers -> DeliveryRow]]
      /\ \A s \in Events, b \in Subscribers :
            \/ delivery'[s][b] = delivery[s][b]
            \/ /\ delivery[s][b].disposition = "pending"
               /\ delivery'[s][b].disposition = "subscriber_removed" /\ ~delivery'[s][b].waiting
  BY <1>2, <1>3
<1>5. Types'
  BY <1>1, <1>4 DEF Types, Phase
<1>6. Passes'
  BY <1>1 DEF Passes
<1>7. Phases' /\ \A c \in Drainers : caller'[c] = "idle"
  BY <1>1 DEF Phases, Drainers
<1>8. Owed'
  BY <1>1, <1>4 DEF Owed
<1>9. NothingLost'
  BY <1>1, <1>4 DEF NothingLost
<1>10. Covering'
  BY <1>7 DEF Covering
<1>11. \A s \in Events, b \in Subscribers :
        delivery[s][b].disposition \in Final => delivery'[s][b] = delivery[s][b]
  BY <1>4 DEF Final
<1> QED BY <1>5, <1>6, <1>7, <1>8, <1>9, <1>10, <1>11

\* What boot prunes is settled, and nobody waits on a drain meanwhile.
LEMMA PruneKeeps ==
    ASSUME IInv, NEW horizon, PruneAndServe(horizon)
    PROVE  IInv'
<1> USE DEF IInv
<1>1. /\ phase = "recovering" /\ caller[Boot] = "idle" /\ phase' = "serving"
      /\ event' = [s \in Events |-> IF s <= horizon /\ Settled(s) THEN "pruned" ELSE event[s]]
      /\ UNCHANGED <<registered, unread, delivery, pass, queued, caller, faults, crashes,
                     heard, received, covers>>
  BY DEF PruneAndServe
<1>2. /\ event' \in [Events -> EventState]
      /\ \A s \in Events : \/ event'[s] = event[s]
                           \/ event'[s] = "pruned" /\ Settled(s)
  <2>1. \A s \in Events : event[s] \in EventState
    BY DEF Types
  <2>2. \A s \in Events : (IF s <= horizon /\ Settled(s) THEN "pruned" ELSE event[s]) \in {"pruned", event[s]}
    OBVIOUS
  <2>3. "pruned" \in EventState
    BY DEF EventState
  <2> QED BY <1>1, <2>1, <2>2, <2>3
<1>3. Types'
  BY <1>1, <1>2 DEF Types, Phase
<1>4. Passes'
  BY <1>1 DEF Passes
<1>5. Phases' /\ \A c \in Drainers : caller'[c] = "idle"
  BY <1>1 DEF Phases, Drainers
<1>6. Owed'
  BY <1>1, <1>2 DEF Owed
<1>7. NothingLost'
  BY <1>1, <1>2 DEF NothingLost, Settled
<1>8. Covering'
  BY <1>5 DEF Covering
<1> QED BY <1>3, <1>4, <1>5, <1>6, <1>7, <1>8

-----------------------------------------------------------------------------
(* The theorems                                                             *)

LEMMA InitIInv == Init => IInv
<1> SUFFICES ASSUME Init
             PROVE  IInv
  OBVIOUS
<1>1. /\ phase = "starting" /\ registered = Subscribers /\ unread = {}
      /\ event = [s \in Events |-> "none"]
      /\ delivery = [s \in Events |-> [b \in Subscribers |-> NoRow]]
      /\ pass = NoPass /\ queued = FALSE /\ caller = [c \in Drainers |-> "idle"]
      /\ covers = [c \in Drainers |-> {}]
  BY DEF Init
<1>2. /\ pass \in [running : BOOLEAN, rows : SUBSET Row, awaits : SUBSET Row]
      /\ pass.running = FALSE /\ pass.awaits = {}
  BY <1>1 DEF NoPass
<1>3. delivery \in [Events -> [Subscribers -> DeliveryRow]]
  BY <1>1, NewRows
<1>4. Types
  BY <1>1, <1>2, <1>3 DEF Types, Phase, EventState, CallerState
<1>5. /\ \A c \in Drainers : caller[c] = "idle"
      /\ \A s \in Events, b \in Subscribers : delivery[s][b] = NoRow
  BY <1>1
<1>6. Passes /\ Phases /\ Covering
  BY <1>1, <1>2, <1>5 DEF Passes, Phases, Covering, Drainers
<1>7. Owed
  BY <1>5, NewRows DEF Owed
<1>8. NothingLost
  BY <1>1, <1>5, NewRows DEF NothingLost
<1> QED BY <1>4, <1>6, <1>7, <1>8 DEF IInv

\* Every step keeps the invariant, and leaves a settled delivery as it is.
LEMMA Step ==
    ASSUME IInv, [Next]_vars
    PROVE  /\ IInv'
           /\ \A s \in Events, b \in Subscribers :
                delivery[s][b].disposition \in Final => delivery'[s][b] = delivery[s][b]
<1>1. ASSUME NEW s \in Events, NEW owing \in SUBSET Subscribers,
             Commit(s, owing) \/ CommitUnpublished(s, owing) \/ CommitAndCrash(s, owing)
      PROVE  /\ IInv'
             /\ \A t \in Events, b \in Subscribers :
                  delivery[t][b].disposition \in Final => delivery'[t][b] = delivery[t][b]
  <2>1. IInv'
    BY <1>1, CommitKeeps, CommitAndCrashKeeps
  <2>2. /\ event[s] = "none"
        /\ delivery' = [delivery EXCEPT ![s] = [b \in Subscribers |-> IF b \in owing THEN PendingRow ELSE NoRow]]
    BY <1>1 DEF Commit, CommitUnpublished, CommitAndCrash, Insert, NextEvent
  <2> QED BY <2>1, <2>2 DEF IInv, Types, Owed, Final
<1>2. CASE Crash
  <2>1. delivery' = delivery
    BY <1>2 DEF Crash
  <2> QED BY <1>2, <2>1, CrashKeeps
<1>3. ASSUME NEW c \in Callers, Request(c)
      PROVE  IInv' /\ delivery' = delivery
  <2>1. delivery' = delivery
    BY <1>3 DEF Request, Drain
  <2> QED BY <1>3, <2>1, RequestKeeps
<1>4. ASSUME NEW row \in pass.rows, Attempt(row)
      PROVE  IInv' /\ delivery' = delivery
  <2>1. delivery' = delivery
    BY <1>4 DEF Attempt
  <2> QED BY <1>4, <2>1, AttemptKeeps
<1>5. ASSUME NEW row \in pass.awaits, Accept(row) \/ Fail(row)
      PROVE  /\ IInv'
             /\ \A s \in Events, b \in Subscribers :
                  delivery[s][b].disposition \in Final => delivery'[s][b] = delivery[s][b]
  BY <1>5, AcceptKeeps, FailKeeps
<1>6. ASSUME NEW s \in Events, NEW b \in Subscribers, BackoffEnds(s, b)
      PROVE  /\ IInv'
             /\ \A t \in Events, d \in Subscribers :
                  delivery[t][d].disposition \in Final => delivery'[t][d] = delivery[t][d]
  BY <1>6, BackoffKeeps
<1>7. CASE PassDone \/ PassFaults \/ PassUnreadable
  <2>1. delivery' = delivery
    BY <1>7 DEF PassDone, PassFaults, PassUnreadable
  <2> QED BY <1>7, <2>1, PassEndKeeps
<1>8. CASE FollowUp
  <2>1. delivery' = delivery
    BY <1>8 DEF FollowUp
  <2> QED BY <1>8, <2>1, FollowUpKeeps
<1>9. ASSUME NEW c \in Drainers, RequestFails(c)
      PROVE  IInv' /\ delivery' = delivery
  <2>1. delivery' = delivery
    BY <1>9 DEF RequestFails
  <2> QED BY <1>9, <2>1, RequestFailsKeeps
<1>10. ASSUME NEW subscribers \in SUBSET Subscribers, NEW newer \in SUBSET Events, Start(subscribers, newer)
       PROVE  /\ IInv'
              /\ \A s \in Events, b \in Subscribers :
                   delivery[s][b].disposition \in Final => delivery'[s][b] = delivery[s][b]
  BY <1>10, StartKeeps
<1>11. CASE Recover
  <2>1. delivery' = delivery
    BY <1>11 DEF Recover, Drain
  <2> QED BY <1>11, <2>1, RecoverKeeps
<1>12. ASSUME NEW horizon \in Events \cup {0}, PruneAndServe(horizon)
       PROVE  IInv' /\ delivery' = delivery
  <2>1. delivery' = delivery
    BY <1>12 DEF PruneAndServe
  <2> QED BY <1>12, <2>1, PruneKeeps
<1>13. CASE UNCHANGED vars
  BY <1>13 DEF vars, IInv, Types, Passes, Owed, Phases, NothingLost, Covering, Runnable, Stored
<1> QED BY <1>1, <1>2, <1>3, <1>4, <1>5, <1>6, <1>7, <1>8, <1>9, <1>10, <1>11, <1>12, <1>13 DEF Next

LEMMA Inductive == IInv /\ [Next]_vars => IInv'
  BY Step

LEMMA Always == Spec => []IInv
  BY InitIInv, Inductive, PTL DEF Spec

\* Every variable has its type; a pass runs for its callers and awaits one
\* delivery at a time, and a follow-up is queued exactly while a caller waits
\* on it.
THEOREM OutboxTypes == Spec => []TypeOK
<1>1. IInv => TypeOK
  <2> SUFFICES ASSUME IInv
               PROVE  TypeOK
    OBVIOUS
  <2>1. Cardinality(pass.awaits) <= 1
    <3>1. pass.awaits = {} \/ \E row \in pass.awaits : pass.awaits = {row}
      BY DEF IInv, Passes
    <3>2. Cardinality({}) = 0 /\ \A row : Cardinality({row}) = 1
      BY FS_EmptySet, FS_Singleton
    <3> QED BY <3>1, <3>2
  <2>2. pass.rows \subseteq Events \X Subscribers \X (0..MaxAttempts)
    BY DEF IInv, Types, Row
  <2> QED BY <2>1, <2>2 DEF IInv, Types, Passes, TypeOK
<1> QED BY <1>1, Always, PTL

\* Nothing owed is lost, through failed publications and deliveries, storage
\* faults, crashes, releases that cannot read what is stored and the removal of
\* subscribers.
THEOREM NothingOwedIsLost == Spec => []NothingLost
<1>1. IInv => NothingLost
  BY DEF IInv
<1> QED BY <1>1, Always, PTL

\* A settled delivery is never moved, by a stale attempt, a reconciliation or
\* a commit.
THEOREM SettledStays == Spec => DispositionFinal
<1>1. IInv /\ [Next]_vars =>
        \A s \in Events, b \in Subscribers :
            delivery[s][b].disposition \in Final => delivery'[s][b] = delivery[s][b]
  BY Step
<1> QED BY <1>1, Always, PTL DEF Spec, DispositionFinal

\* When drain() returns to a caller, every delivery runnable at the call was
\* attempted since.
THEOREM DrainsCover == Spec => DrainCoversCaller
<1>1. IInv /\ [Next]_vars =>
        \A c \in Drainers :
            caller[c] = "pass" /\ caller'[c] = "idle" /\ phase' # "down" => covers[c] = {}
  <2> SUFFICES ASSUME IInv, [Next]_vars, NEW c \in Drainers,
                      caller[c] = "pass", caller'[c] = "idle", phase' # "down"
               PROVE  covers[c] = {}
    OBVIOUS
  <2>1. CASE PassDone
    <3>1. pass.rows = {} /\ pass.awaits = {}
      BY <2>1 DEF PassDone
    <3> QED BY <3>1 DEF IInv, Covering
  <2>2. CASE Crash \/ \E s \in Events, owing \in SUBSET Subscribers : CommitAndCrash(s, owing)
    BY <2>2 DEF Crash, CommitAndCrash, Lose
  <2>3. CASE PassFaults \/ PassUnreadable
    BY <2>3 DEF PassFaults, PassUnreadable, EndPass
  <2>4. CASE \E d \in Drainers : Drain(d)
    <3>1. PICK d \in Drainers : Drain(d)
      BY <2>4
    <3>2. \E to \in {"pass", "follow"} : caller[d] = "idle" /\ caller' = [caller EXCEPT ![d] = to]
      BY <3>1 DEF Drain
    <3> QED BY <3>2 DEF IInv, Types
  <2>5. CASE FollowUp
    BY <2>5 DEF FollowUp
  <2>6. CASE \E d \in Drainers : RequestFails(d)
    BY <2>6 DEF RequestFails, IInv, Types
  <2>7. CASE UNCHANGED caller
    BY <2>7
  <2>8. \/ Crash \/ \E s \in Events, owing \in SUBSET Subscribers : CommitAndCrash(s, owing)
        \/ PassDone \/ PassFaults \/ PassUnreadable \/ FollowUp
        \/ \E d \in Drainers : Drain(d)
        \/ \E d \in Drainers : RequestFails(d)
        \/ UNCHANGED caller
    <3>1. \A s \in Events, owing \in SUBSET Subscribers :
            Commit(s, owing) \/ CommitUnpublished(s, owing) => UNCHANGED caller
      BY DEF Commit, CommitUnpublished
    <3>2. /\ \A row \in pass.rows : Attempt(row) => UNCHANGED caller
          /\ \A row \in pass.awaits : Accept(row) \/ Fail(row) => UNCHANGED caller
      BY DEF Attempt, Accept, Fail
    <3>3. /\ \A s \in Events, b \in Subscribers : BackoffEnds(s, b) => UNCHANGED caller
          /\ \A subscribers \in SUBSET Subscribers, newer \in SUBSET Events :
                Start(subscribers, newer) => UNCHANGED caller
          /\ \A horizon \in Events \cup {0} : PruneAndServe(horizon) => UNCHANGED caller
      BY DEF BackoffEnds, Start, PruneAndServe
    <3>4. UNCHANGED vars => UNCHANGED caller
      BY DEF vars
    <3>5. /\ \A d \in Callers : Request(d) => d \in Drainers /\ Drain(d)
          /\ Recover => Boot \in Drainers /\ Drain(Boot)
      BY DEF Request, Recover, Drainers
    <3> QED BY <3>1, <3>2, <3>3, <3>4, <3>5 DEF Next
  <2> QED BY <2>1, <2>2, <2>3, <2>4, <2>5, <2>6, <2>7, <2>8
<1> QED BY <1>1, Always, PTL DEF Spec, DrainCoversCaller

=============================================================================
