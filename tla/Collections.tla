---------------------------- MODULE Collections ----------------------------
(***************************************************************************)
(* The cash administrators hold for the house.  A recharge an              *)
(* administrator books puts cash into their hands, an expense they front   *)
(* takes some out (ExpenseService.create_expense), and a super             *)
(* administrator settles the difference in either direction                *)
(* (CollectionEventService).                                               *)
(*                                                                         *)
(* A step ends at a commit.  _settle commits the event before it marks the *)
(* rows the event counts, and with that commit the locks of                *)
(* _locked_unsettled_rows are given up.                                    *)
(***************************************************************************)
EXTENDS Integers, FiniteSets, Functions

CONSTANTS Users, Admins,     \* the users that may have a row, and those who administer
          Recharges,         \* RECHARGE transactions that may be booked
          Expenses,          \* expenses that may be recorded
          Amount,            \* Transaction.amount of each, in cents
          Holder,            \* who took the cash of a recharge or fronted an expense
          Recorder,          \* who typed an expense in
          Customer,          \* who was recharged
          Sweeps,            \* collect and pay calls; each makes at most one event
          MaxFaults,         \* bound on raised exceptions and deleted users
          None

Rows == Recharges \cup Expenses

ASSUME CollectionsAssumption ==
    /\ Admins \subseteq Users
    /\ Recharges \cap Expenses = {}
    /\ Amount \in [Rows -> Int]
    /\ \A r \in Expenses : Amount[r] < 0
    /\ Holder \in [Rows -> Admins] /\ Recorder \in [Expenses -> Admins]
    /\ Customer \in [Recharges -> Users]
    /\ MaxFaults \in Nat
    /\ None \notin Sweeps /\ None \notin Users

VARIABLES users,     \* the user rows that exist
          state,     \* of each row: new, recorded (the Expense only), booked, lost or gone
          actor,     \* Transaction.actor_id
          settled,   \* Transaction.collected_in_event_id
          event,     \* the CollectionEvent each sweep has committed
          pc, rows,  \* how far each sweep has come, and the rows it has read
          faults     \* exceptions and deletions so far

vars == <<users, state, actor, settled, event, pc, rows, faults>>

NoEvent    == [admin |-> None, amount |-> 0, direction |-> "none"]
Directions == {"from_admin", "to_admin"}

Booked        == {r \in Rows : state[r] = "booked"}
Unsettled(a)  == {r \in Booked : settled[r] = None /\ actor[r] = a}
Outstanding(a) == SumFunctionOnSet(Amount, Unsettled(a))

Fault       == faults < MaxFaults /\ faults' = faults + 1
Goto(c, to) == pc' = [pc EXCEPT ![c] = to]

Init ==
    /\ users = Users
    /\ state   = [r \in Rows |-> "new"]
    /\ actor   = [r \in Rows |-> None]
    /\ settled = [r \in Rows |-> None]
    /\ event   = [c \in Sweeps |-> NoEvent]
    /\ pc      = [c \in Sweeps |-> "idle"]
    /\ rows    = [c \in Sweeps |-> {}]
    /\ faults  = 0

-----------------------------------------------------------------------------
(* The transactions.                                                         *)

BookRecharge(r) ==
    /\ state[r] = "new" /\ {Holder[r], Customer[r]} \subseteq users
    /\ state' = [state EXCEPT ![r] = "booked"]
    /\ actor' = [actor EXCEPT ![r] = Holder[r]]
    /\ UNCHANGED <<users, settled, event, pc, rows, faults>>

RecordExpense(r) ==
    /\ state[r] = "new" /\ {Holder[r], Recorder[r]} \subseteq users
    /\ state' = [state EXCEPT ![r] = "recorded"]
    /\ UNCHANGED <<users, actor, settled, event, pc, rows, faults>>

\* Mutant: the float of whoever typed the expense in is reduced.
MirrorForRecorder(r) ==
    /\ state[r] = "recorded" /\ Recorder[r] \in users
    /\ state' = [state EXCEPT ![r] = "booked"]
    /\ actor' = [actor EXCEPT ![r] = Recorder[r]]
    /\ UNCHANGED <<users, settled, event, pc, rows, faults>>

\* The EXPENSE transaction, whose actor is the payer.
MirrorExpense(r) ==
    /\ state[r] = "recorded" /\ Holder[r] \in users
    /\ state' = [state EXCEPT ![r] = "booked"]
    /\ actor' = [actor EXCEPT ![r] = Holder[r]]
    /\ UNCHANGED <<users, settled, event, pc, rows, faults>>

\* The payer is deleted, or the handler raises, between the two commits.
LoseExpense(r) ==
    /\ state[r] = "recorded"
    /\ \/ Holder[r] \notin users /\ UNCHANGED faults
       \/ Fault
    /\ state' = [state EXCEPT ![r] = "lost"]
    /\ UNCHANGED <<users, actor, settled, event, pc, rows>>

-----------------------------------------------------------------------------
(* POST /collections/{admin}/collect and /pay.                               *)

Commit(c, a, amount, direction) ==
    /\ event' = [event EXCEPT ![c] = [admin |-> a, amount |-> amount, direction |-> direction]]
    /\ rows' = [rows EXCEPT ![c] = Unsettled(a)]
    /\ Goto(c, "counted")

\* The unsettled rows are read under a lock that lasts to the commit of the event.
Collect(c, a) ==
    /\ pc[c] = "idle" /\ a \in users
    /\ Outstanding(a) > 0
    /\ Commit(c, a, Outstanding(a), "from_admin")
    /\ UNCHANGED <<users, state, actor, settled, faults>>

Pay(c, a) ==
    /\ pc[c] = "idle" /\ a \in users
    /\ Outstanding(a) < 0
    /\ Commit(c, a, -Outstanding(a), "to_admin")
    /\ UNCHANGED <<users, state, actor, settled, faults>>

\* 409: the float is zero, or of the other sign.
Refused(c, a, direction) ==
    /\ pc[c] = "idle" /\ a \in users
    /\ \/ direction = "from_admin" /\ Outstanding(a) <= 0
       \/ direction = "to_admin" /\ Outstanding(a) >= 0
    /\ Goto(c, "refused")
    /\ UNCHANGED <<users, state, actor, settled, event, rows, faults>>

\* Mutant: whatever is unsettled by now is marked.
MarkUnsettled(c) ==
    /\ pc[c] = "counted" /\ rows[c] \subseteq Booked
    /\ settled' = [r \in Rows |-> IF r \in rows[c] \cup Unsettled(event[c].admin)
                                  THEN c ELSE settled[r]]
    /\ Goto(c, "done")
    /\ UNCHANGED <<users, state, actor, event, rows, faults>>

\* Mutant: the rows are marked in one branch only.
MarkCollected(c) ==
    /\ pc[c] = "counted" /\ rows[c] \subseteq Booked
    /\ settled' = [r \in Rows |-> IF r \in rows[c] /\ event[c].direction = "from_admin"
                                  THEN c ELSE settled[r]]
    /\ Goto(c, "done")
    /\ UNCHANGED <<users, state, actor, event, rows, faults>>

\* Each row is read again for its id; then the UPDATE takes them by id, also
\* those that another sweep has marked meanwhile.
Mark(c) ==
    /\ pc[c] = "counted" /\ rows[c] \subseteq Booked
    /\ settled' = [r \in Rows |-> IF r \in rows[c] THEN c ELSE settled[r]]
    /\ Goto(c, "done")
    /\ UNCHANGED <<users, state, actor, event, rows, faults>>

\* A row was deleted with its user after the event was committed: the read raises.
RowGone(c) ==
    /\ pc[c] = "counted" /\ ~(rows[c] \subseteq Booked)
    /\ Goto(c, "dead")
    /\ UNCHANGED <<users, state, actor, settled, event, rows, faults>>

HandlerDies(c) ==
    /\ pc[c] = "counted" /\ Fault
    /\ Goto(c, "dead")
    /\ UNCHANGED <<users, state, actor, settled, event, rows>>

\* user_id cascades, actor_id and standard_admin_id become NULL; an event keeps
\* its rows' money.
DeleteUser(u) ==
    /\ u \in users /\ Fault
    /\ users' = users \ {u}
    /\ state' = [r \in Rows |-> IF r \in Booked \cap Recharges /\ Customer[r] = u
                                THEN "gone" ELSE state[r]]
    /\ actor' = [r \in Rows |-> IF actor[r] = u THEN None ELSE actor[r]]
    /\ event' = [c \in Sweeps |-> IF event[c].admin = u THEN [event[c] EXCEPT !.admin = None]
                                  ELSE event[c]]
    /\ UNCHANGED <<settled, pc, rows>>

Next ==
    \/ \E r \in Recharges : BookRecharge(r)
    \/ \E r \in Expenses : RecordExpense(r) \/ MirrorExpense(r) \/ LoseExpense(r)
    \/ \E c \in Sweeps :
          \/ \E a \in Admins : Collect(c, a) \/ Pay(c, a)
          \/ \E a \in Admins, d \in Directions : Refused(c, a, d)
          \/ Mark(c) \/ RowGone(c) \/ HandlerDies(c)
    \/ \E u \in Users : DeleteUser(u)

\* Handlers that have started run on.
Fairness ==
    /\ \A r \in Expenses : WF_vars(MirrorExpense(r) \/ LoseExpense(r))
    /\ \A c \in Sweeps : WF_vars(Mark(c) \/ RowGone(c))

Spec == Init /\ [][Next]_vars /\ Fairness

-----------------------------------------------------------------------------
EventType == [admin : Admins \cup {None}, amount : Nat \ {0}, direction : Directions]

\* Every variable keeps its type; an event's amount is a positive magnitude.
TypeOK ==
    /\ users \subseteq Users
    /\ state \in [Rows -> {"new", "recorded", "booked", "lost", "gone"}]
    /\ actor \in [Rows -> Admins \cup {None}]
    /\ settled \in [Rows -> Sweeps \cup {None}]
    /\ event \in [Sweeps -> EventType \cup {NoEvent}]
    /\ pc \in [Sweeps -> {"idle", "counted", "done", "refused", "dead"}]
    /\ rows \in [Sweeps -> SUBSET Rows]
    /\ faults \in 0 .. MaxFaults

Made      == {c \in Sweeps : event[c] # NoEvent}
Signed    == [c \in Sweeps |-> IF event[c].direction = "from_admin" THEN event[c].amount
                                                                   ELSE -event[c].amount]
MadeBy(a) == {c \in Made : event[c].admin = a}

\* A row is only ever taken out of an administrator's float by an event whose
\* amount includes it: what is booked while a sweep is under way stays owed.
SettledWasCounted ==
    \A r \in Rows : settled[r] # None => r \in rows[settled[r]]

\* What an administrator has taken in less what they have fronted, by the
\* recharges and by the table of expenses, is what the events moved plus what
\* is outstanding, unless two sweeps overlapped, a fault struck, or a handler
\* is between its two commits.
CashAccountedFor ==
    (/\ faults = 0 /\ \A c \in Sweeps : pc[c] # "counted"
     /\ \A r \in Rows : state[r] # "recorded"
     /\ \A c, d \in Sweeps : c # d => rows[c] \cap rows[d] = {})
    => \A a \in Admins :
          SumFunctionOnSet(Amount, {r \in Rows : state[r] # "new" /\ Holder[r] = a})
          = SumFunctionOnSet(Signed, MadeBy(a)) + Outstanding(a)

\* Every row an event counted is settled in the end, whichever way the money
\* went, unless a fault strikes between the two commits.
CountedIsSettled ==
    \A c \in Sweeps :
       c \in Made ~> ((\A r \in rows[c] : settled[r] # None) \/ faults > 0)
=============================================================================
