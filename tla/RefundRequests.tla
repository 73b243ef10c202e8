--------------------------- MODULE RefundRequests ---------------------------
(***************************************************************************)
(* Refunds of completed print jobs (routes/refund.py): a user asks for     *)
(* one, an administrator approves or denies it, or refunds a job nobody    *)
(* asked about (override).                                                 *)
(*                                                                         *)
(* No handler locks anything: each reads, decides, and then commits in up  *)
(* to three steps.  The jobs here are completed, which PrintJobs shows to  *)
(* be final, so the poll does not touch them.                              *)
(***************************************************************************)
EXTENDS Accounts, FiniteSets, Functions

CONSTANTS Calls,          \* handler invocations; the creating ones make a row each
          Jobs, Owner,    \* completed PrintJob rows, and the user of each
          Cost,           \* PrintJob.cost, in cents
          InitBalance,
          MaxFaults,      \* bound on raised exceptions and deletions of rows
          NoCall

ASSUME RefundAssumption ==
    /\ Owner \in [Jobs -> Users] /\ Cost \in [Jobs -> Nat]
    /\ InitBalance \in [Users -> Int]
    /\ MaxFaults \in Nat
    /\ NoCall \notin Calls

VARIABLES jobs,        \* the PrintJob rows that exist
          refund,      \* status of the RefundRequest row each call made
          pc, call,    \* how far each invocation has come, and what it is about
          credited,    \* history: the invocations whose adjust_balance succeeded
          tx,          \* REFUND Transaction rows
          met,         \* history: jobs that two invocations dealt with at a time
          faults       \* exceptions and deletions so far

vars == <<users, balance, jobs, refund, pc, call, credited, tx, met, faults>>

Open     == {"pending"}
Resolved == {"approved", "denied"}
Creators == {"ask", "override"}
Verdict  == [approve |-> "approved", deny |-> "denied"]
Kinds    == Creators \cup DOMAIN Verdict
NoJob    == NoCall
Idle     == [kind |-> "none", job |-> NoJob, req |-> NoCall]

InFlight    == {c \in Calls : pc[c] \notin {"idle", "refused", "done", "dead"}}
Existing(j) == {r \in Calls : call[r].job = j /\ refund[r] \in Open \cup Resolved}
CreditsOf(j) == {c \in credited : call[c].job = j}

Fault       == faults < MaxFaults /\ faults' = faults + 1
Goto(c, to) == pc' = [pc EXCEPT ![c] = to]

\* Invocation c begins: it deals with job j and with request r, if any.
Begin(c, kind, j, r, to) ==
    /\ pc[c] = "idle"
    /\ call' = [call EXCEPT ![c] = [kind |-> kind, job |-> j, req |-> r]]
    /\ met' = IF to # "refused" /\ \E d \in InFlight : call[d].job = j
              THEN met \cup {j} ELSE met
    /\ Goto(c, to)
    /\ UNCHANGED <<users, balance, jobs, refund, credited, tx, faults>>

Init ==
    /\ users = Users /\ jobs = Jobs
    /\ balance = InitBalance
    /\ refund = [c \in Calls |-> "none"]
    /\ pc     = [c \in Calls |-> "idle"]
    /\ call   = [c \in Calls |-> Idle]
    /\ credited = {} /\ tx = {} /\ met = {} /\ faults = 0

-----------------------------------------------------------------------------
(* POST /refund/{job} and /refund/override/{job}.                            *)

\* Mutant: only a pending request stands in the way of another.
AskUnlessPending(c, kind, j) ==
    /\ j \in jobs
    /\ \/ /\ \A r \in Existing(j) : refund[r] # "pending"
          /\ Begin(c, kind, j, NoCall, "create")
       \/ \E r \in Existing(j) :
             Begin(c, kind, j, r, IF refund[r] = "denied" THEN "drop" ELSE "refused")

\* first() takes any request of the job; one that is not denied means 409.
Ask(c, kind, j) ==
    /\ j \in jobs
    /\ \/ Existing(j) = {} /\ Begin(c, kind, j, NoCall, "create")
       \/ \E r \in Existing(j) :
             Begin(c, kind, j, r, IF refund[r] = "denied" THEN "drop" ELSE "refused")

\* The request that was read as denied is deleted, whatever it is by now; the
\* transactions that name it stay (ON DELETE SET NULL).
Drop(c) ==
    LET r == call[c].req
    IN  /\ pc[c] = "drop"
        /\ refund' = [refund EXCEPT ![r] = "gone"]
        /\ tx' = {IF t.req = r THEN [t EXCEPT !.req = NoCall] ELSE t : t \in tx}
        /\ Goto(c, "create")
        /\ UNCHANGED <<users, balance, jobs, call, credited, met, faults>>

Create(c) ==
    /\ pc[c] = "create" /\ call[c].job \in jobs
    /\ \/ /\ call[c].kind = "ask"
          /\ refund' = [refund EXCEPT ![c] = "pending"]
          /\ Goto(c, "done")
          /\ UNCHANGED call
       \/ /\ call[c].kind = "override"
          /\ refund' = [refund EXCEPT ![c] = "approved"]
          /\ Goto(c, "credit")
          /\ call' = [call EXCEPT ![c].req = c]
    /\ UNCHANGED <<users, balance, jobs, credited, tx, met, faults>>

-----------------------------------------------------------------------------
(* PATCH /refund/{id}.                                                       *)

\* Mutant: an approval marks the request before it moves the money.
MarkFirst(c, r, kind) ==
    /\ refund[r] = "pending" /\ pc[c] = "idle"
    /\ call' = [call EXCEPT ![c] = [kind |-> kind, job |-> call[r].job, req |-> r]]
    /\ met' = IF \E d \in InFlight : call[d].job = call[r].job
              THEN met \cup {call[r].job} ELSE met
    /\ refund' = [refund EXCEPT ![r] = Verdict[kind]]
    /\ Goto(c, IF kind = "approve" THEN "credit" ELSE "done")
    /\ UNCHANGED <<users, balance, jobs, credited, tx, faults>>

\* Mutant: any request can be resolved.
ResolveAnyway(c, r, kind) ==
    /\ refund[r] \notin {"none", "gone"}
    /\ Begin(c, kind, call[r].job, r, IF kind = "approve" THEN "credit" ELSE "mark")

\* The status is read without a lock.
Resolve(c, r, kind) ==
    /\ refund[r] = "pending"
    /\ Begin(c, kind, call[r].job, r, IF kind = "approve" THEN "credit" ELSE "mark")

ResolveRefused(c, r, kind) ==
    /\ refund[r] \in Resolved \cup {"gone"}
    /\ Begin(c, kind, call[r].job, r, "refused")

\* The job went, and its requests with it, before the approval read it.
NothingToCredit(c) ==
    /\ pc[c] = "credit" /\ call[c].kind = "approve" /\ call[c].job \notin jobs
    /\ Goto(c, "mark")
    /\ UNCHANGED <<users, balance, jobs, refund, call, credited, tx, met, faults>>

\* The status is overwritten whatever it is by now; a row that is gone is no error.
Mark(c) ==
    LET r == call[c].req
    IN  /\ pc[c] = "mark"
        /\ refund' = IF refund[r] = "gone" THEN refund
                     ELSE [refund EXCEPT ![r] = Verdict[call[c].kind]]
        /\ Goto(c, "done")
        /\ UNCHANGED <<users, balance, jobs, call, credited, tx, met, faults>>

-----------------------------------------------------------------------------
(* _credit_refund.                                                           *)

\* An approval has read the job; an override reads it again after its commit.
Credit(c) ==
    LET j == call[c].job
    IN  /\ pc[c] = "credit" /\ (call[c].kind = "override" => j \in jobs)
        /\ AdjustBalance(Owner[j], Cost[j], FALSE)
        /\ credited' = credited \cup {c}
        /\ Goto(c, "credited")
        /\ UNCHANGED <<users, jobs, refund, call, tx, met, faults>>

\* 404; the request of an override is deleted again.
CreditRefused(c) ==
    /\ pc[c] = "credit" /\ ~CanAdjust(Owner[call[c].job], Cost[call[c].job], FALSE)
    /\ refund' = IF call[c].kind = "override" THEN [refund EXCEPT ![c] = "gone"] ELSE refund
    /\ Goto(c, "refused")
    /\ UNCHANGED <<users, balance, jobs, call, credited, tx, met, faults>>

\* Mutant: the transaction of a denied request that was credited is left out.
BookIfPending(c) ==
    LET r == call[c].req
    IN  /\ pc[c] = "credited" /\ call[c].job \in jobs /\ refund[r] # "gone"
        /\ tx' = IF call[c].kind = "override" \/ refund[r] = "pending"
                 THEN tx \cup {[by |-> c, job |-> call[c].job, req |-> r]} ELSE tx
        /\ Goto(c, IF call[c].kind = "approve" THEN "mark" ELSE "done")
        /\ UNCHANGED <<users, balance, jobs, refund, call, credited, met, faults>>

Book(c) ==
    LET r == call[c].req
    IN  /\ pc[c] = "credited" /\ call[c].job \in jobs /\ refund[r] # "gone"
        /\ tx' = tx \cup {[by |-> c, job |-> call[c].job, req |-> r]}
        /\ Goto(c, IF call[c].kind = "approve" THEN "mark" ELSE "done")
        /\ UNCHANGED <<users, balance, jobs, refund, call, credited, met, faults>>

-----------------------------------------------------------------------------
\* The handler reads or references a row that is gone and raises.
RowGone(c) ==
    /\ \/ pc[c] \in {"create", "credited"} /\ call[c].job \notin jobs
       \/ pc[c] = "credit" /\ call[c].kind = "override" /\ call[c].job \notin jobs
       \/ pc[c] = "credited" /\ refund[call[c].req] = "gone"
    /\ Goto(c, "dead")
    /\ UNCHANGED <<users, balance, jobs, refund, call, credited, tx, met, faults>>

HandlerDies(c) ==
    /\ c \in InFlight /\ Fault
    /\ Goto(c, "dead")
    /\ UNCHANGED <<users, balance, jobs, refund, call, credited, tx, met>>

\* The jobs' requests go with them, their transactions stay.
DropJobs(gone) ==
    /\ jobs' = jobs \ gone
    /\ refund' = [r \in Calls |-> IF call[r].job \in gone /\ refund[r] # "none"
                                  THEN "gone" ELSE refund[r]]

\* A job goes with its printer.
DeletePrinter(gone) ==
    /\ gone # {} /\ gone \subseteq jobs /\ Fault
    /\ DropJobs(gone)
    /\ tx' = {IF t.job \in gone THEN [t EXCEPT !.req = NoCall] ELSE t : t \in tx}
    /\ UNCHANGED <<users, balance, pc, call, credited, met>>

DeleteUser(u) ==
    /\ u \in users /\ Fault
    /\ users' = users \ {u}
    /\ DropJobs({j \in jobs : Owner[j] = u})
    /\ tx' = {t \in tx : Owner[t.job] # u}
    /\ UNCHANGED <<balance, pc, call, credited, met>>

Handler(c) == \/ Drop(c) \/ Create(c) \/ NothingToCredit(c) \/ Mark(c)
              \/ Credit(c) \/ CreditRefused(c) \/ Book(c) \/ RowGone(c)

Next ==
    \/ \E c \in Calls :
          \/ \E kind \in Creators, j \in Jobs : Ask(c, kind, j)
          \/ \E kind \in DOMAIN Verdict, r \in Calls :
                Resolve(c, r, kind) \/ ResolveRefused(c, r, kind)
          \/ Handler(c)
          \/ HandlerDies(c)
    \/ \E gone \in SUBSET Jobs : DeletePrinter(gone)
    \/ \E u \in Users : DeleteUser(u)

Spec == Init /\ [][Next]_vars

-----------------------------------------------------------------------------
\* Every variable keeps its type.
TypeOK ==
    /\ users \subseteq Users /\ balance \in [Users -> Int] /\ jobs \subseteq Jobs
    /\ refund \in [Calls -> {"none", "gone"} \cup Open \cup Resolved]
    /\ pc \in [Calls -> {"idle", "drop", "create", "credit", "credited", "mark",
                         "refused", "done", "dead"}]
    /\ call \in [Calls -> [kind : Kinds \cup {"none"}, job : Jobs \cup {NoJob},
                           req : Calls \cup {NoCall}]]
    /\ credited \subseteq Calls
    /\ tx \subseteq [by : Calls, job : Jobs, req : Calls \cup {NoCall}]
    /\ met \subseteq Jobs
    /\ faults \in 0 .. MaxFaults

\* Invocations that deal with a job one after the other, in whatever order of
\* asking, denying, asking again, approving and overriding, and none of which
\* was cut short, refund it at most once.
InTurn(j) == j \notin met /\ \A c \in Calls : call[c].job = j => pc[c] # "dead"

RefundedOnceInTurn == \A j \in Jobs : InTurn(j) => Cardinality(CreditsOf(j)) <= 1

\* A request shown as approved has moved money, also when approvals, denials and
\* overrides overlap: an override alone may still be on its way or cut short.
ApprovedIsCredited ==
    \A r \in Calls : refund[r] = "approved" =>
       \/ r \in credited
       \/ \E c \in credited : call[c].kind = "approve" /\ call[c].req = r
       \/ call[r].kind = "override" /\ pc[r] \in {"credit", "dead"}

\* In turn, a verdict is final: a late one changes nothing, a denied request can
\* only make room for another, an approved one only goes with its job.
VerdictStands ==
    [][\A r \in Calls : refund[r] \in Resolved /\ InTurn(call[r].job)' =>
          \/ refund'[r] = refund[r]
          \/ refund'[r] = "gone" /\ (refund[r] = "approved" => call[r].job \notin jobs')]_vars

\* The Transaction rows of user u.
TxOf(u) == {t \in tx : Owner[t.job] = u}
Booked  == [t \in tx |-> Cost[t.job]]

\* Whenever every refund has got past its Transaction, the transactions explain
\* the balance, also when a job was refunded twice or its request deleted.
LedgerExplainsBalance ==
    \A u \in users :
       (\A c \in credited : Owner[call[c].job] = u => pc[c] \notin {"credited", "dead"}) =>
          balance[u] = InitBalance[u] + SumFunctionOnSet(Booked, TxOf(u))
=============================================================================
