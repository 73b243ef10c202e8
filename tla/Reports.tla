------------------------------ MODULE Reports ------------------------------
(***************************************************************************)
(* What administrators and users are shown of what happened: the figures   *)
(* of api/routes/stats.py, the workbook of core/finance_export_service.py  *)
(* and the activity log of api/routes/settings.py.                         *)
(*                                                                         *)
(* The history is the sequence of the things that happened, each to its    *)
(* end, as the other modules of this project describe them.  Time is the   *)
(* position in it, and the rows of the tables follow from it and from the  *)
(* users and printers that still exist: the rest has gone by cascade.      *)
(***************************************************************************)
EXTENDS Groups, Functions, Sequences

CONSTANTS Amounts,      \* amounts of adjustments, purchases and expenses
          Recharges,    \* amounts of recharges; by Telegram they may be negative
          MaxHistory,   \* bound on what happens
          MaxChanges    \* bound on the changes of users, groups and printers

ASSUME ReportAssumption ==
    /\ IsFiniteSet(AllUsers) /\ IsFiniteSet(AllPrinters)
    /\ Amounts \subseteq Nat \ {0} /\ Recharges \subseteq Int
    /\ MaxHistory \in Nat /\ MaxChanges \in Nat

VARIABLES history,   \* what happened
          funds,     \* User.balance of every user
          changes

reportVars == <<groupVars, history, funds, changes>>

ReportInit == GroupInit /\ history = <<>> /\ funds = [u \in AllUsers |-> 0] /\ changes = 0

-----------------------------------------------------------------------------
(* What happens.                                                             *)

NoJob == [job |-> 0]

\* An event: what, who, its amount, how it moved the balance, and its job.
Happens(what, u, amount, delta, details) ==
    /\ u \in people /\ Len(history) < MaxHistory
    /\ funds' = [funds EXCEPT ![u] = @ + delta]
    /\ history' = Append(history, [what |-> what, who |-> u, amount |-> amount, details |-> details,
                                   after |-> funds'[u]])
    /\ UNCHANGED <<groupVars, changes>>

\* No credit limit is asked of it.
Recharge(u, a)      == Happens("recharge", u, a, a, NoJob)
\* To a balance of a, from whatever it is.
Adjust(u, a)        == a # funds[u] /\ Happens("adjustment", u, a - funds[u], a - funds[u], NoJob)
\* A purchase that was handed over, and one that was rejected and paid back.
Fulfilled(u, a)     == funds[u] >= a /\ Happens("fulfilled", u, a, -a, NoJob)
Rejected(u, a)      == funds[u] >= a /\ Happens("rejected", u, a, 0, NoJob)
\* PATCH /user/{id} may set the balance itself, and no transaction tells of it.
Patch(u, a)         == a # funds[u] /\ Happens("patched", u, a - funds[u], a - funds[u], NoJob)
Spend(u, a)         == Happens("expense", u, a, 0, NoJob)

\* A job that ended completed or failed, at the cost of its moment.
Printed(u, p, total, opts, end) ==
    LET cost == Cost(u, p, total, opts)
    IN  /\ MayPrint(u, p, opts.mode) /\ PagesOf(opts.ranges, total) > 0 /\ funds[u] >= cost
        /\ Happens(end, u, cost, IF end = "completed" THEN -cost ELSE 0, [printer |-> p])

\* The jobs and refund requests whose rows are left.
Events     == DOMAIN history
OfPeople   == {i \in Events : history[i].who \in people}
HasJob(i)  == i \in OfPeople /\ history[i].details.printer \in DOMAIN printers
Jobs(ends) == {i \in Events : history[i].what \in ends /\ HasJob(i)}
VerdictsOn(i, verdicts) ==
    {k \in Events : history[k].what \in verdicts /\ history[k].details.job = i}

\* A refund of a completed job is approved or denied; a denied one may be overridden.
ResolveRefund(i, verdict) ==
    /\ i \in Jobs({"completed"})
    /\ VerdictsOn(i, IF verdict = "approved" THEN {"approved"} ELSE {"approved", "denied"}) = {}
    /\ Happens(verdict, history[i].who, history[i].amount,
               IF verdict = "approved" THEN history[i].amount ELSE 0, [job |-> i])

ChangeGroups ==
    /\ changes < MaxChanges /\ changes' = changes + 1
    /\ GroupNext
    /\ UNCHANGED <<history, funds>>

ReportNext ==
    \/ \E u \in AllUsers :
          \/ \E a \in Recharges : Recharge(u, a)
          \/ \E a \in Amounts : \/ Fulfilled(u, a) \/ Rejected(u, a)
                                \/ Spend(u, a) \/ Adjust(u, a) \/ Patch(u, a)
          \/ \E p \in AllPrinters, d \in Documents, o \in Options, end \in {"completed", "failed"} :
                Printed(u, p, d, o, end)
    \/ \E i \in 1 .. MaxHistory, v \in {"approved", "denied"} : ResolveRefund(i, v)
    \/ ChangeGroups

ReportSpec == ReportInit /\ [][ReportNext]_reportVars

-----------------------------------------------------------------------------
(* The rows.                                                                 *)

Amount(i) == history[i].amount
Of(what, T) == {i \in T : history[i].what \in what}

\* Transactions of a type created in the window W of time, and their amounts.  The
\* user_id of an expense is NULL, so that it outlives everybody.
TxOf(type, W) ==
    LET T == W \cap OfPeople
    IN  CASE type = "recharge"   -> [i \in Of({"recharge"}, T) |-> Amount(i)]
          [] type = "adjustment" -> [i \in Of({"adjustment"}, T) |-> Amount(i)]
          [] type = "print"      -> [i \in Of({"completed", "failed"}, T) |-> -Amount(i)]
          [] type = "refund"     -> [i \in Of({"failed", "approved", "rejected"}, T) |-> Amount(i)]
          [] type = "purchase"   -> [i \in Of({"fulfilled", "rejected"}, T) |-> -Amount(i)]
          [] type = "expense"    -> [i \in Of({"expense"}, W) |-> -Amount(i)]

-----------------------------------------------------------------------------
(* api/routes/stats.py.                                                      *)

RawSum(tx) == SumFunction(tx)
PosSum(tx) == SumFunction([i \in DOMAIN tx |-> IF tx[i] > 0 THEN tx[i] ELSE 0])
AbsSum(tx) == SumFunction([i \in DOMAIN tx |-> IF tx[i] < 0 THEN -tx[i] ELSE tx[i]])

\* Mutant: adjustments are summed like recharges.
FinancePositive(W) ==
    [recharged |-> PosSum(TxOf("recharge", W)), printed  |-> AbsSum(TxOf("print", W)),
     refunded  |-> PosSum(TxOf("refund", W)),   adjusted |-> PosSum(TxOf("adjustment", W)),
     spent     |-> AbsSum(TxOf("expense", W)),  bought   |-> AbsSum(TxOf("purchase", W))]

\* get_stats_overview: positive, absolute and raw sums by type, of a window of time.
Finance(W) ==
    [recharged |-> PosSum(TxOf("recharge", W)), printed  |-> AbsSum(TxOf("print", W)),
     refunded  |-> PosSum(TxOf("refund", W)),   adjusted |-> RawSum(TxOf("adjustment", W)),
     spent     |-> AbsSum(TxOf("expense", W)),  bought   |-> AbsSum(TxOf("purchase", W))]

\* The total balance is a live sum, whatever the window.
CurrentBalance == SumFunctionOnSet(funds, people)

\* build_finance_workbook: the rows of the first two sheets.
RechargesSheet(W) == [i \in DOMAIN TxOf("recharge", W) |-> Amount(i)]
ExpensesSheet(W)  == [i \in Of({"expense"}, W) |-> Amount(i)]

\* The jobs of a user completed in the window W of time, and what events amount to.
JobsOf(u, W) == {i \in W \cap Jobs({"completed"}) : history[i].who = u}
CostOf(S)    == SumFunction([i \in S |-> Amount(i)])

\* The refunds of a user made in the window, of jobs or of purchases.
RefundsOf(u, W) == {k \in DOMAIN TxOf("refund", W) : history[k].who = u}

\* Mutant: the window is applied to the jobs only.
SpentLessAll(u, W) == Max({0, CostOf(JobsOf(u, W)) - CostOf(RefundsOf(u, Events))})

\* get_my_stats: what completed jobs cost, less every refund of the user, both of a
\* window of time.
TotalSpent(u, W) == Max({0, CostOf(JobsOf(u, W)) - CostOf(RefundsOf(u, W))})

-----------------------------------------------------------------------------
(* get_activity_log.                                                         *)

\* Its three sources: transactions by administrators, resolved refunds, and
\* resolved purchases.  An override deletes the denied request it follows.
Sources ==
    << Of({"recharge", "adjustment"}, OfPeople),
       {k \in Of({"approved", "denied"}, OfPeople) :
           LET i == history[k].details.job
           IN  HasJob(i) /\ (history[k].what = "denied" => VerdictsOn(i, {"approved"}) = {})},
       Of({"fulfilled", "rejected"}, OfPeople) >>

\* order_by(... desc()), limit(n), and a page of the result.
Rank(i, S)    == Cardinality({k \in S : k > i})
Newest(S, n)  == {i \in S : Rank(i, S) < n}
Descending(S) == [k \in 1 .. Cardinality(S) |-> CHOOSE i \in S : Rank(i, S) = k - 1]
Page(s, offset, limit) == SubSeq(s, offset + 1, Min({offset + limit, Len(s)}))

\* Mutant: every source is read to the limit only.
LogPageOfLimit(offset, limit) ==
    Page(Descending(UNION {Newest(Sources[k], limit) : k \in 1 .. 3}), offset, limit)

\* The newest offset + limit entries of each source, merged, sorted and cut.
LogPage(offset, limit) ==
    Page(Descending(UNION {Newest(Sources[k], offset + limit) : k \in 1 .. 3}), offset, limit)

-----------------------------------------------------------------------------
\* The balance of a user after the first n events, and of all that there are today.
HeldBy(u, n) == LET mine == {i \in 1 .. n : history[i].who = u}
                IN  IF mine = {} THEN 0 ELSE history[Max(mine)].after
Held(n)      == SumFunction([u \in people |-> HeldBy(u, n)])

\* The figures of any period explain how the balances of today's users moved in it
\* (stats.py:220-263), nothing counted twice or with the wrong sign, but for two
\* movements they leave out: balances that were set directly (user.py:231,
\* schemas/user.py:75), and recharges by negative amounts (telegram.py:207-215), which
\* pos_sum drops from total_recharged (as tests/test_stats.py:96,166 want it) and the
\* recharges sheet lists.  Up to the present the balances come to the live total, and
\* the expenses sheet adds up to the figure.
FinanceExplainsBalances ==
    \A a, b \in 0 .. Len(history) :
       LET W       == (a + 1) .. b
           f       == Finance(W)
           patched == CostOf(Of({"patched"}, W \cap OfPeople))
           dropped == CostOf({i \in Of({"recharge"}, W \cap OfPeople) : Amount(i) < 0})
       IN  a <= b =>
             /\ Held(b) - Held(a) =
                   f.recharged + f.adjusted + f.refunded - f.printed - f.bought + patched + dropped
             /\ b = Len(history) => Held(b) = CurrentBalance
             /\ RawSum(RechargesSheet(W)) = f.recharged + dropped
             /\ RawSum(ExpensesSheet(W)) = f.spent

\* The pages of the activity log (settings.py:344-430) are those of the whole log,
\* newest first, however its three sources take turns, although no source is read
\* beyond the end of the page.
LogPagesAreOfWhole ==
    \A offset \in 0 .. MaxHistory, limit \in 1 .. MaxHistory :
       LogPage(offset, limit) =
          Page(Descending(Sources[1] \cup Sources[2] \cup Sources[3]), offset, limit)

\* The money a user is told to have spent in a period (stats.py:65-134) is never more
\* than what the jobs completed in it cost less what was refunded of them, but for
\* refunds made after the period: these count in the period they are made in.  It is
\* less only by refunds made in the period of anything else: of failed jobs, of rejected
\* purchases, of jobs completed earlier or deleted with their printer.
OwnFiguresAreHonest ==
    \A u \in people : \A a, b \in 0 .. Len(history) :
       LET W       == (a + 1) .. b
           jobs    == JobsOf(u, W)
           refunds == {k \in Of({"approved"}, OfPeople) : history[k].details.job \in jobs}
           spent   == CostOf(jobs) - CostOf({k \in refunds : k <= b})
       IN  a <= b =>
             /\ TotalSpent(u, W) <= spent
             /\ RefundsOf(u, W) \subseteq refunds => TotalSpent(u, W) = spent
=============================================================================
