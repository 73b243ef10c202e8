------------------------- MODULE CollectionsProofs -------------------------
(***************************************************************************)
(* Theorems about Collections.                                             *)
(*                                                                         *)
(* SettledWasCounted is not inductive: a sweep that had settled some rows  *)
(* must not read others afterwards.  SweepInv adds that the sweep a row is *)
(* settled by is done, while one that reads its rows is idle.              *)
(*                                                                         *)
(* CashAccountedFor is about sums.  CashInv says what an event's amount is *)
(* the sum of, and that, as long as no fault struck, the rows it read are  *)
(* in the same hands and leave the float with it.                          *)
(***************************************************************************)
EXTENDS Collections, SumProofs, TLAPS

\* The types of the variables the argument is about.
SweepType ==
    /\ settled \in [Rows -> Sweeps \cup {None}]
    /\ pc \in [Sweeps -> {"idle", "counted", "done", "refused", "dead"}]
    /\ rows \in [Sweeps -> SUBSET Rows]

SettledByDone == \A r \in Rows : settled[r] # None => pc[settled[r]] = "done"

SweepInv == SweepType /\ SettledByDone /\ SettledWasCounted

\* At the start no row is settled.
LEMMA SweepInit == Init => SweepInv
BY CollectionsAssumption DEF Init, SweepInv, SweepType, SettledByDone, SettledWasCounted

\* A step that commits an event: the sweep was idle, so nothing is settled by it.
LEMMA CommitKeeps ==
    ASSUME SweepInv, NEW c \in Sweeps, NEW a, NEW amount, NEW direction,
           pc[c] = "idle", Commit(c, a, amount, direction), settled' = settled
    PROVE  SweepInv'
<1>1. Unsettled(a) \subseteq Rows
  BY DEF Unsettled, Booked
<1>2. SweepType'
  BY <1>1 DEF SweepInv, SweepType, Commit, Goto
<1>3. ASSUME NEW r \in Rows, settled[r] # None
      PROVE  settled[r] # c /\ settled[r] \in Sweeps
  BY <1>3 DEF SweepInv, SweepType, SettledByDone
<1>4. SettledByDone' /\ SettledWasCounted'
  BY <1>3 DEF SweepInv, SweepType, SettledByDone, SettledWasCounted, Commit, Goto
<1> QED
  BY <1>2, <1>4 DEF SweepInv

\* Mark settles the rows the sweep has read, and the sweep is done then.
LEMMA MarkKeeps ==
    ASSUME SweepInv, NEW c \in Sweeps, Mark(c)
    PROVE  SweepInv'
<1>1. SweepType'
  BY DEF SweepInv, SweepType, Mark, Goto
<1>2. SettledByDone'
  <2> SUFFICES ASSUME NEW r \in Rows, settled'[r] # None
               PROVE  pc'[settled'[r]] = "done"
    BY DEF SettledByDone
  <2>1. CASE r \in rows[c]
    BY <2>1 DEF SweepInv, SweepType, Mark, Goto
  <2>2. CASE r \notin rows[c]
    BY <2>2 DEF SweepInv, SweepType, SettledByDone, Mark, Goto
  <2> QED
    BY <2>1, <2>2
<1>3. SettledWasCounted'
  BY DEF SweepInv, SweepType, SettledWasCounted, Mark
<1> QED
  BY <1>1, <1>2, <1>3 DEF SweepInv

\* A step that ends a sweep, and leaves rows and events alone.  The sweep was
\* not done, so that no row is settled by it.
LEMMA EndKeeps ==
    ASSUME SweepInv, NEW c \in Sweeps, NEW to \in {"refused", "dead"},
           pc[c] \in {"idle", "counted"}, Goto(c, to), UNCHANGED <<settled, rows>>
    PROVE  SweepInv'
BY DEF SweepInv, SweepType, SettledByDone, SettledWasCounted, Goto

\* Every step keeps SweepInv: one case per action.
LEMMA SweepStep == SweepInv /\ [Next]_vars => SweepInv'
<1> SUFFICES ASSUME SweepInv, [Next]_vars PROVE SweepInv'
  OBVIOUS
<1>1. ASSUME UNCHANGED <<settled, pc, rows>> PROVE SweepInv'
  BY <1>1 DEF SweepInv, SweepType, SettledByDone, SettledWasCounted
<1>2. ASSUME NEW r \in Recharges, BookRecharge(r) PROVE SweepInv'
  BY <1>1, <1>2 DEF BookRecharge
<1>3. ASSUME NEW r \in Expenses, RecordExpense(r) \/ MirrorExpense(r) \/ LoseExpense(r)
      PROVE  SweepInv'
  BY <1>1, <1>3 DEF RecordExpense, MirrorExpense, LoseExpense
<1>4. ASSUME NEW c \in Sweeps, NEW a \in Admins, Collect(c, a) \/ Pay(c, a)
      PROVE  SweepInv'
  <2>1. CASE Collect(c, a)
    BY <2>1, CommitKeeps DEF Collect
  <2>2. CASE Pay(c, a)
    BY <2>2, CommitKeeps DEF Pay
  <2> QED
    BY <1>4, <2>1, <2>2
<1>5. ASSUME NEW c \in Sweeps, NEW a \in Admins, NEW d \in Directions, Refused(c, a, d)
      PROVE  SweepInv'
  BY <1>5, EndKeeps DEF Refused
<1>6. ASSUME NEW c \in Sweeps, Mark(c) PROVE SweepInv'
  BY <1>6, MarkKeeps
<1>7. ASSUME NEW c \in Sweeps, RowGone(c) PROVE SweepInv'
  BY <1>7, EndKeeps DEF RowGone
<1>8. ASSUME NEW c \in Sweeps, HandlerDies(c) PROVE SweepInv'
  BY <1>8, EndKeeps DEF HandlerDies
<1>9. ASSUME NEW u \in Users, DeleteUser(u) PROVE SweepInv'
  BY <1>1, <1>9 DEF DeleteUser
<1>10. CASE UNCHANGED vars
  BY <1>1, <1>10 DEF vars
<1> QED
  BY <1>2, <1>3, <1>4, <1>5, <1>6, <1>7, <1>8, <1>9, <1>10 DEF Next

\* No row leaves an administrator's float without being counted, for any rows,
\* sweeps and users, and however the sweeps, bookings and deletions interleave.
THEOREM NothingLeftUncounted == Spec => []SettledWasCounted
<1>1. SweepInv => SettledWasCounted
  BY DEF SweepInv
<1> QED
  BY SweepInit, SweepStep, <1>1, PTL DEF Spec

-----------------------------------------------------------------------------
(* The cash.  An event's signed amount is what the rows it read add up to,   *)
(* and as long as nothing failed a row that was read is still there and in   *)
(* the same hands.                                                           *)

CashType ==
    /\ state \in [Rows -> {"new", "recorded", "booked", "lost", "gone"}]
    /\ actor \in [Rows -> Admins \cup {None}]
    /\ event \in [Sweeps -> EventType \cup {NoEvent}]
    /\ faults \in Nat
    /\ IsFiniteSet(Booked) /\ IsFiniteSet(Made)

\* What an event says of the rows it counted, and when there is one.
Counted(c) ==
    /\ event[c] = NoEvent <=> pc[c] \in {"idle", "refused"}
    /\ event[c] # NoEvent => IsFiniteSet(rows[c]) /\ Signed[c] = SumFunctionOnSet(Amount, rows[c])
    /\ event[c] = NoEvent => rows[c] = {}

RowIntact(r) ==
    /\ state[r] \in {"new", "recorded", "booked"}
    /\ state[r] = "booked" => actor[r] = Holder[r]

SweepIntact(c) ==
    /\ pc[c] \in {"counted", "done"}
    /\ \A r \in rows[c] : /\ state[r] = "booked" /\ actor[r] = event[c].admin
                          /\ pc[c] = "done" => settled[r] # None

Intact ==
    faults = 0 =>
       /\ users = Users
       /\ \A r \in Rows : RowIntact(r)
       /\ \A c \in Made : SweepIntact(c)

CashInv == CashType /\ (\A c \in Sweeps : Counted(c)) /\ Intact

LEMMA CashInit == Init => CashInv
<1> SUFFICES ASSUME Init PROVE CashInv
  OBVIOUS
<1>1. Booked = {} /\ Made = {}
  BY DEF Init, Booked, Made
<1>2. CashType
  BY <1>1, FS_EmptySet, CollectionsAssumption DEF Init, CashType
<1> QED
  BY <1>1, <1>2 DEF Init, CashInv, Counted, Intact, RowIntact

\* The amounts of booked rows have a sum.
LEMMA UnsettledSum ==
    ASSUME CashType, NEW a
    PROVE  /\ IsFiniteSet(Unsettled(a)) /\ Ints(Amount, Unsettled(a)) /\ Outstanding(a) \in Int
<1>1. Unsettled(a) \subseteq Booked /\ Booked \subseteq Rows
  BY DEF Unsettled, Booked
<1>2. IsFiniteSet(Unsettled(a))
  BY <1>1, FS_Subset DEF CashType
<1>3. Ints(Amount, Unsettled(a))
  BY <1>1, CollectionsAssumption DEF Ints
<1> QED
  BY <1>2, <1>3, SumType DEF Outstanding

\* An event's amount is what its rows add up to, as a positive magnitude.
LEMMA CommitCash ==
    ASSUME SweepInv, CashInv, NEW c \in Sweeps, NEW a \in Admins, Collect(c, a) \/ Pay(c, a)
    PROVE  CashInv'
<1>0. CashType /\ SweepType /\ Intact /\ pc[c] = "idle" /\ c \notin Made /\ event[c] = NoEvent
  BY DEF SweepInv, CashInv, Collect, Pay, Counted, Made
<1>1. Outstanding(a) \in Int /\ IsFiniteSet(Unsettled(a))
  BY <1>0, UnsettledSum
<1>2. PICK amount \in Nat \ {0}, direction \in Directions :
         /\ Commit(c, a, amount, direction)
         /\ Outstanding(a) = IF direction = "from_admin" THEN amount ELSE -amount
  <2>1. CASE Collect(c, a)
    BY <1>1, <2>1 DEF Collect, Directions
  <2>2. CASE Pay(c, a)
    <3>1. -Outstanding(a) \in Nat \ {0} /\ Commit(c, a, -Outstanding(a), "to_admin")
      BY <1>1, <2>2 DEF Pay
    <3> QED
      BY <1>1, <3>1 DEF Directions
  <2> QED
    BY <2>1, <2>2
<1>3. UNCHANGED <<users, state, actor, settled, faults>>
  BY DEF Collect, Pay
<1> DEFINE e == [admin |-> a, amount |-> amount, direction |-> direction]
<1>4. /\ event' = [event EXCEPT ![c] = e]
      /\ rows' = [rows EXCEPT ![c] = Unsettled(a)] /\ pc' = [pc EXCEPT ![c] = "counted"]
  BY <1>2 DEF Commit, Goto
<1>5. e \in EventType /\ e # NoEvent
  BY DEF EventType, NoEvent
<1>6. Made' = Made \cup {c}
  BY <1>0, <1>4, <1>5 DEF CashType, Made
<1>7. IsFiniteSet(Made \cup {c})
  BY <1>0, FS_AddElement DEF CashType
<1>8. CashType'
  <2>1. Booked' = Booked
    BY <1>3 DEF Booked
  <2> QED
    BY <1>0, <1>3, <1>4, <1>5, <1>6, <1>7, <2>1 DEF CashType
<1>9. Counted(c)'
  <2>1. event'[c] = e /\ rows'[c] = Unsettled(a) /\ pc'[c] = "counted"
    BY <1>0, <1>4 DEF CashType, SweepType
  <2>2. Signed'[c] = Outstanding(a)
    BY <1>2, <2>1 DEF Signed
  <2> HIDE DEF e
  <2> QED
    BY <1>1, <1>5, <2>1, <2>2 DEF Counted, Outstanding
<1>10. ASSUME NEW d \in Sweeps \ {c} PROVE Counted(d)'
  <2>1. event'[d] = event[d] /\ rows'[d] = rows[d] /\ pc'[d] = pc[d] /\ Signed'[d] = Signed[d]
    BY <1>0, <1>4 DEF CashType, SweepType, Signed
  <2> QED
    BY <2>1 DEF CashInv, Counted
<1>11. Intact'
  <2>1. \A r \in Unsettled(a) : state[r] = "booked" /\ actor[r] = a /\ r \in Rows
    BY DEF Unsettled, Booked
  <2>2. event'[c].admin = a /\ rows'[c] = Unsettled(a) /\ pc'[c] = "counted"
    BY <1>0, <1>4 DEF CashType, SweepType
  <2>3. \A d \in Made : d # c /\ event'[d] = event[d] /\ rows'[d] = rows[d] /\ pc'[d] = pc[d]
    BY <1>0, <1>4 DEF CashType, SweepType, Made
  <2> QED
    BY <1>0, <1>3, <1>6, <2>1, <2>2, <2>3 DEF Intact, RowIntact, SweepIntact
<1> QED
  BY <1>8, <1>9, <1>10, <1>11 DEF CashInv

\* A step that makes no event keeps what the events say of their rows.
LEMMA EventsStay ==
    ASSUME SweepType, CashInv, CashType', UNCHANGED rows,
           \A c \in Sweeps : /\ event'[c].amount = event[c].amount
                             /\ event'[c].direction = event[c].direction
                             /\ event'[c] = NoEvent <=> event[c] = NoEvent
                             /\ pc'[c] \in {"idle", "refused"} <=> pc[c] \in {"idle", "refused"}
    PROVE  \A c \in Sweeps : Counted(c)'
<1> SUFFICES ASSUME NEW c \in Sweeps PROVE Counted(c)'
  OBVIOUS
<1>1. Signed'[c] = Signed[c]
  BY DEF Signed
<1> QED
  BY <1>1 DEF CashInv, Counted

\* A row is booked, or an expense recorded or lost.
LEMMA RowCash ==
    ASSUME SweepInv, CashInv, NEW r \in Rows, state[r] \in {"new", "recorded"},
           NEW to \in {"recorded", "booked", "lost"}, state' = [state EXCEPT ![r] = to],
           \/ to = "booked" /\ actor' = [actor EXCEPT ![r] = Holder[r]] /\ faults' = faults
           \/ to # "booked" /\ actor' = actor /\ (faults' = faults \/ Fault),
           to = "lost" => faults' # 0,
           UNCHANGED <<users, settled, event, pc, rows>>
    PROVE  CashInv'
<1>0. CashType /\ SweepType /\ Intact /\ Holder[r] \in Admins
  BY CollectionsAssumption DEF SweepInv, CashInv
<1>1. faults' \in Nat /\ (faults' = 0 => faults = 0)
  BY <1>0 DEF CashType, Fault
<1>2. Made' = Made
  BY DEF Made
<1>3. IsFiniteSet(Booked')
  <2>1. Booked' = Booked \/ Booked' = Booked \cup {r}
    BY <1>0 DEF Booked, CashType
  <2> QED
    BY <1>0, <2>1, FS_AddElement DEF CashType
<1>4. CashType'
  BY <1>0, <1>1, <1>2, <1>3 DEF CashType
<1>5. \A c \in Sweeps : Counted(c)'
  BY <1>0, <1>4, EventsStay
<1>6. Intact'
  <2> SUFFICES ASSUME faults' = 0
               PROVE  /\ users' = Users
                      /\ \A q \in Rows : RowIntact(q)'
                      /\ \A c \in Made : SweepIntact(c)'
    BY <1>2 DEF Intact
  <2>1. /\ to # "lost" /\ users = Users
        /\ \A q \in Rows : RowIntact(q)
        /\ \A c \in Made : SweepIntact(c)
    BY <1>0, <1>1 DEF Intact
  <2>2. ASSUME NEW q \in Rows PROVE RowIntact(q)'
    BY <1>0, <2>1 DEF RowIntact, CashType
  <2>3. ASSUME NEW c \in Made PROVE SweepIntact(c)'
    <3>1. SweepIntact(c) /\ rows[c] \subseteq Rows
      BY <1>0, <2>1 DEF Made, SweepType
    <3>2. \A q \in rows[c] : q # r
      BY <3>1 DEF SweepIntact
    <3> QED
      BY <1>0, <3>1, <3>2 DEF SweepIntact, CashType
  <2> QED
    BY <2>1, <2>2, <2>3
<1> QED
  BY <1>4, <1>5, <1>6 DEF CashInv

\* Without a fault every user is there, so that no expense is lost.
LEMMA LoseCash ==
    ASSUME SweepInv, CashInv, NEW r \in Expenses, LoseExpense(r)
    PROVE  CashInv'
<1>1. r \in Rows /\ Holder[r] \in Users /\ faults \in Nat
  BY CollectionsAssumption DEF Rows, CashInv, CashType
<1>2. faults' # 0
  BY <1>1 DEF LoseExpense, Fault, CashInv, Intact
<1> QED
  BY <1>1, <1>2, RowCash DEF LoseExpense

\* The end of a sweep, in either way.
LEMMA EndCash ==
    ASSUME SweepInv, CashInv, NEW c \in Sweeps, Mark(c) \/ RowGone(c) \/ HandlerDies(c)
    PROVE  CashInv'
<1>0. CashType /\ SweepType /\ Intact /\ pc[c] = "counted" /\ event[c] # NoEvent /\ c \in Made
  BY DEF SweepInv, CashInv, Mark, RowGone, HandlerDies, Counted, Made
<1>1. UNCHANGED <<users, state, actor, event, rows>> /\ (faults' = faults \/ Fault)
  BY DEF Mark, RowGone, HandlerDies
<1>2. Made' = Made /\ Booked' = Booked
  BY <1>1 DEF Made, Booked
<1>3. CashType'
  BY <1>0, <1>1, <1>2 DEF CashType, Fault
<1>4. \E to \in {"done", "dead"} : pc' = [pc EXCEPT ![c] = to]
  BY DEF Mark, RowGone, HandlerDies, Goto
<1>5. \A d \in Sweeps : Counted(d)'
  BY <1>0, <1>1, <1>3, <1>4, EventsStay DEF SweepType
<1>6. Intact'
  <2> SUFFICES ASSUME faults' = 0
               PROVE  /\ users' = Users
                      /\ \A q \in Rows : RowIntact(q)'
                      /\ \A d \in Made : SweepIntact(d)'
    BY <1>2 DEF Intact
  <2>1. faults = 0 /\ ~Fault
    BY <1>0, <1>1 DEF CashType, Fault
  <2>2. /\ users = Users
        /\ \A q \in Rows : RowIntact(q)
        /\ \A d \in Made : SweepIntact(d) /\ rows[d] \subseteq Rows
    BY <1>0, <2>1 DEF Intact, Made, SweepType
  <2>3. rows[c] \subseteq Booked
    BY <1>0, <2>2 DEF SweepIntact, Booked
  <2>4. Mark(c)
    BY <2>1, <2>3 DEF RowGone, HandlerDies
  <2>5. /\ \A r \in Rows : settled'[r] = IF r \in rows[c] THEN c ELSE settled[r]
        /\ c # None /\ pc'[c] = "done" /\ \A d \in Made \ {c} : pc'[d] = pc[d]
    BY <1>0, <2>4, CollectionsAssumption DEF Mark, Goto, SweepType, Made
  <2>6. ASSUME NEW q \in Rows PROVE RowIntact(q)'
    BY <1>1, <2>2 DEF RowIntact
  <2>7. ASSUME NEW d \in Made PROVE SweepIntact(d)'
    <3>1. SweepIntact(d) /\ rows[d] \subseteq Rows
      BY <2>2
    <3>2. CASE d = c
      BY <1>1, <2>5, <3>1, <3>2 DEF SweepIntact
    <3>3. CASE d # c
      BY <1>1, <2>5, <3>1, <3>3 DEF SweepIntact
    <3> QED
      BY <3>2, <3>3
  <2> QED
    BY <1>1, <2>2, <2>6, <2>7
<1> QED
  BY <1>3, <1>5, <1>6 DEF CashInv

LEMMA RefusedCash ==
    ASSUME SweepInv, CashInv, NEW c \in Sweeps, NEW a \in Admins, NEW d \in Directions, Refused(c, a, d)
    PROVE  CashInv'
<1>0. CashType /\ SweepType /\ Intact /\ event[c] = NoEvent
  BY DEF SweepInv, CashInv, Refused, Counted
<1>1. UNCHANGED <<users, state, actor, settled, event, rows, faults>> /\ pc' = [pc EXCEPT ![c] = "refused"] /\ pc[c] = "idle"
  BY DEF Refused, Goto
<1>2. Made' = Made /\ Booked' = Booked /\ c \notin Made
  BY <1>0, <1>1 DEF Made, Booked
<1>3. CashType'
  BY <1>0, <1>1, <1>2 DEF CashType
<1>4. \A e \in Sweeps : Counted(e)'
  BY <1>0, <1>1, <1>3, EventsStay DEF SweepType
<1>5. \A e \in Made : pc'[e] = pc[e]
  BY <1>0, <1>1, <1>2 DEF Made, SweepType
<1>6. Intact'
  BY <1>0, <1>1, <1>2, <1>5 DEF Intact, RowIntact, SweepIntact
<1> QED
  BY <1>3, <1>4, <1>6 DEF CashInv

LEMMA DeletionCash ==
    ASSUME SweepInv, CashInv, NEW u \in Users, DeleteUser(u)
    PROVE  CashInv'
<1>0. CashType /\ SweepType /\ u # None
  BY CollectionsAssumption DEF SweepInv, CashInv
<1>1. /\ faults' = faults + 1 /\ UNCHANGED <<settled, pc, rows>>
      /\ state' = [r \in Rows |-> IF r \in Booked \cap Recharges /\ Customer[r] = u THEN "gone" ELSE state[r]]
      /\ actor' = [r \in Rows |-> IF actor[r] = u THEN None ELSE actor[r]]
      /\ event' = [c \in Sweeps |-> IF event[c].admin = u THEN [event[c] EXCEPT !.admin = None] ELSE event[c]]
  BY DEF DeleteUser, Fault
<1>2. ASSUME NEW c \in Sweeps
      PROVE  /\ event'[c] \in EventType \cup {NoEvent}
             /\ event'[c].amount = event[c].amount /\ event'[c].direction = event[c].direction
             /\ event'[c] = NoEvent <=> event[c] = NoEvent
  <2>1. CASE event[c] = NoEvent
    <3>1. event[c].admin # u
      BY <1>0, <2>1 DEF NoEvent
    <3> QED
      BY <1>1, <2>1, <3>1
  <2>2. CASE event[c] \in EventType
    <3>1. event'[c] = event[c] \/ event'[c] = [event[c] EXCEPT !.admin = None]
      BY <1>1
    <3>2. event'[c] \in EventType /\ event'[c].amount = event[c].amount /\ event'[c].direction = event[c].direction
      BY <2>2, <3>1 DEF EventType
    <3>3. event[c] # NoEvent /\ event'[c] # NoEvent
      BY <2>2, <3>2 DEF EventType, NoEvent
    <3> QED
      BY <3>2, <3>3
  <2> QED
    BY <1>0, <2>1, <2>2 DEF CashType
<1>3. Made' = Made
  BY <1>2 DEF Made
<1>4. IsFiniteSet(Booked')
  <2>1. Booked' \subseteq Booked
    BY <1>1 DEF Booked
  <2> QED
    BY <1>0, <2>1, FS_Subset DEF CashType
<1>5. CashType'
  <2>1. /\ state' \in [Rows -> {"new", "recorded", "booked", "lost", "gone"}]
        /\ actor' \in [Rows -> Admins \cup {None}] /\ faults' \in Nat
    BY <1>0, <1>1 DEF CashType
  <2>2. event' \in [Sweeps -> EventType \cup {NoEvent}]
    BY <1>1, <1>2
  <2> QED
    BY <1>0, <1>3, <1>4, <2>1, <2>2 DEF CashType
<1>6. \A c \in Sweeps : Counted(c)'
  BY <1>0, <1>1, <1>2, <1>5, EventsStay
<1>7. Intact'
  BY <1>0, <1>1 DEF CashType, Intact
<1> QED
  BY <1>5, <1>6, <1>7 DEF CashInv

LEMMA CashNext == SweepInv /\ CashInv /\ [Next]_vars => CashInv'
<1> SUFFICES ASSUME SweepInv, CashInv, [Next]_vars PROVE CashInv'
  OBVIOUS
<1>0. CashType
  BY DEF CashInv
<1>1. ASSUME NEW r \in Recharges, BookRecharge(r) PROVE CashInv'
  <2>1. r \in Rows
    BY DEF Rows
  <2> QED
    BY <1>1, <2>1, RowCash DEF BookRecharge
<1>2. ASSUME NEW r \in Expenses, RecordExpense(r) PROVE CashInv'
  <2>1. r \in Rows
    BY DEF Rows
  <2> QED
    BY <1>2, <2>1, RowCash DEF RecordExpense
<1>3. ASSUME NEW r \in Expenses, MirrorExpense(r) PROVE CashInv'
  <2>1. r \in Rows
    BY DEF Rows
  <2> QED
    BY <1>3, <2>1, RowCash DEF MirrorExpense
<1>4. CASE UNCHANGED vars
  BY <1>4 DEF vars, CashInv, CashType, Counted, Intact, RowIntact, SweepIntact, Booked, Made, Signed
<1> QED
  BY <1>1, <1>2, <1>3, <1>4, LoseCash, CommitCash, RefusedCash, EndCash, DeletionCash DEF Next

\* What an administrator has taken in less what they have fronted is what the events
\* moved plus what is outstanding, for any rows and amounts, unless two sweeps
\* overlapped, a fault struck, or a handler is between its two commits.
THEOREM CashAccounted == Spec => []CashAccountedFor
<1>1. ASSUME SweepInv, CashInv PROVE CashAccountedFor
  <2> SUFFICES ASSUME faults = 0, \A c \in Sweeps : pc[c] # "counted", \A r \in Rows : state[r] # "recorded",
                      \A c, d \in Sweeps : c # d => rows[c] \cap rows[d] = {},
                      NEW a \in Admins
               PROVE  SumFunctionOnSet(Amount, {r \in Rows : state[r] # "new" /\ Holder[r] = a})
                      = SumFunctionOnSet(Signed, MadeBy(a)) + Outstanding(a)
    BY DEF CashAccountedFor
  <2> DEFINE Taken == {r \in Rows : state[r] # "new" /\ Holder[r] = a}
             Swept == UNION {rows[c] : c \in MadeBy(a)}
  <2>0. CashType /\ SweepType /\ Intact
    BY <1>1 DEF SweepInv, CashInv
  <2>1. MadeBy(a) \subseteq Made /\ Made \subseteq Sweeps
    BY DEF MadeBy, Made
  <2>2. /\ IsFiniteSet(MadeBy(a))
        /\ \A c \in MadeBy(a) : /\ IsFiniteSet(rows[c]) /\ Signed[c] = SumFunctionOnSet(Amount, rows[c])
                                 /\ rows[c] \subseteq Rows
    BY <1>1, <2>0, <2>1, FS_Subset DEF CashType, CashInv, Counted, Made, SweepType
  <2>3. \A c \in MadeBy(a) : Ints(Amount, rows[c])
    BY <2>2, CollectionsAssumption DEF Ints
  <2>4. \A c, d \in MadeBy(a) : c # d => rows[c] \cap rows[d] = {}
    BY <2>1
  <2>5. IsFiniteSet(Swept) /\ SumFunctionOnSet(Amount, Swept) = SumFunctionOnSet(Signed, MadeBy(a))
    BY <2>2, <2>3, <2>4, SumFamily
  <2>6. /\ \A r \in Rows : state[r] # "new" => state[r] = "booked" /\ actor[r] = Holder[r]
        /\ \A c \in Made : SweepIntact(c) /\ pc[c] = "done"
    <3>1. (\A r \in Rows : RowIntact(r)) /\ (\A c \in Made : SweepIntact(c))
      BY <2>0 DEF Intact
    <3>2. \A c \in Made : c \in Sweeps
      BY <2>1
    <3> QED
      BY <3>1, <3>2 DEF RowIntact, SweepIntact
  <2>7. ASSUME NEW c \in MadeBy(a), NEW r \in rows[c] PROVE r \in Taken /\ settled[r] # None
    <3>1. SweepIntact(c) /\ pc[c] = "done" /\ r \in Rows /\ event[c].admin = a
      BY <2>1, <2>2, <2>6 DEF MadeBy
    <3>2. state[r] = "booked" /\ actor[r] = a /\ settled[r] # None
      BY <3>1 DEF SweepIntact
    <3> QED
      BY <2>6, <3>1, <3>2
  <2>8. ASSUME NEW r \in Taken, settled[r] # None PROVE r \in Swept
    <3>1. PICK c \in Sweeps : c = settled[r]
      BY <2>0, <2>8 DEF SweepType
    <3>2. r \in rows[c]
      BY <1>1, <2>8, <3>1 DEF SweepInv, SettledWasCounted
    <3>3. c \in Made
      BY <1>1, <3>2 DEF CashInv, Counted, Made
    <3>4. event[c].admin = actor[r]
      BY <2>6, <3>2, <3>3 DEF SweepIntact
    <3>5. actor[r] = a
      BY <2>6
    <3> QED
      BY <3>2, <3>3, <3>4, <3>5 DEF MadeBy
  <2>9. Unsettled(a) = {r \in Taken : settled[r] = None}
    BY <2>6 DEF Unsettled, Booked
  <2>10. Taken = Swept \cup Unsettled(a) /\ Swept \cap Unsettled(a) = {}
    BY <2>7, <2>8, <2>9
  <2>11. IsFiniteSet(Unsettled(a)) /\ Ints(Amount, Swept \cup Unsettled(a))
    <3>1. Swept \cup Unsettled(a) \subseteq Rows
      BY <2>10
    <3> QED
      BY <2>0, <3>1, UnsettledSum, CollectionsAssumption DEF Ints
  <2> HIDE DEF Taken, Swept
  <2>12. SumFunctionOnSet(Amount, Swept \cup Unsettled(a))
         = SumFunctionOnSet(Amount, Swept) + SumFunctionOnSet(Amount, Unsettled(a))
    BY <2>5, <2>10, <2>11, SumUnion
  <2> QED
    BY <2>5, <2>10, <2>12 DEF Outstanding, Taken
<1> QED
  BY <1>1, SweepInit, SweepStep, CashInit, CashNext, PTL DEF Spec
=============================================================================
