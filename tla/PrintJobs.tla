----------------------------- MODULE PrintJobs -----------------------------
(***************************************************************************)
(* A print job from the HTTP request to its settlement: the request        *)
(* handlers (PrintAssistant.send_print_job and send_free_reprint), CUPS,   *)
(* and the scheduler's job poll (Scheduler.update_jobs_sync).              *)
(*                                                                         *)
(* Handlers run in worker threads, each with a database session of its     *)
(* own, and the poll runs in an executor thread.  A step is what one       *)
(* session does up to a commit, or one exchange with CUPS; between two     *)
(* steps every other actor may move, the process may be restarted, and an  *)
(* administrator or a user may delete the rows the handler is using.       *)
(***************************************************************************)
EXTENDS Accounts, FiniteSets, Functions

CONSTANTS Calls,          \* handler invocations; each makes at most one PrintJob row
          Files, Owner,   \* File rows, and the user each belongs to
          Printers,       \* Printer rows
          Costs,          \* the prices a print request may come to, in cents
          Transit, Error, \* TRANSIT_STATUS and ERROR_STATUS
          InitBalance,    \* the balances of Init
          MaxTries,       \* CUPSManager.MAX_TRIES
          MaxFaults,      \* bound on restarts, raised exceptions and deletions of rows
          NoCall          \* "not a reprint of any job"

ASSUME PrintJobsAssumption ==
    /\ Owner \in [Files -> Users]
    /\ Costs \subseteq Nat
    /\ "pending" \in Transit
    /\ "aborted" \in Error
    /\ Transit \cap Error = {}
    /\ "completed" \notin Transit \cup Error
    /\ "none" \notin Transit \cup Error
    /\ InitBalance \in [Users -> Int]
    /\ \A u \in Users : InitBalance[u] + CreditLimit[u] >= 0
    /\ MaxTries \in Nat /\ MaxFaults \in Nat
    /\ NoCall \notin Calls \cup Users

VARIABLES files, printers, \* the File and Printer rows that exist
          pc,              \* how far each handler invocation has come
          args,            \* what it was asked to print
          row,             \* PrintJob.status of its job, "none" without a row
          linked,          \* jobs whose free_reprint_of_job_id is set
          tx,              \* Transaction rows of each type and job
          cups,            \* the state CUPS keeps of the job
          errs,            \* CUPSManager.jobs_with_error
          poll,            \* the scheduler's run of update_jobs_sync
          sheets,          \* inventory movements recorded for each job
          paid,            \* history: net cents adjust_balance took for each job
          torn,            \* history: jobs refunded by a poll that stopped before the row
          faults           \* restarts, exceptions and deletions so far

rows == <<users, files, printers>>
acct == <<balance, paid>>
vars == <<rows, acct, pc, args, row, linked, tx, cups, errs, poll, sheets, torn, faults>>

Prices  == Costs \cup {0}           \* a free reprint costs nothing
Status  == Transit \cup Error \cup {"completed"}
TxTypes == {"print", "refund", "free_reprint"}
NoPoll  == [pc |-> "idle", todo |-> {}, job |-> NoCall, new |-> "none"]
NoArgs  == [file |-> NoCall, printer |-> NoCall, user |-> NoCall, cost |-> 0, of |-> NoCall]

IsReprint(c) == args[c].of # NoCall
InFlight     == {c \in Calls : pc[c] \notin {"idle", "rejected", "failed", "done", "dead"}}

\* The File, Printer and User rows that create_job and dump_on_DB read again
\* after the debit's commit expired them, and that the INSERT references.
DocumentExists(c) == /\ args[c].file \in files
                     /\ args[c].printer \in printers
                     /\ args[c].user \in users

\* One more of the events that cut a run of the code short or take its rows away.
Fault == faults < MaxFaults /\ faults' = faults + 1

Goto(c, to)  == pc' = [pc EXCEPT ![c] = to]
Booked(t, c) == tx' = [tx EXCEPT ![t][c] = @ + 1]

Init ==
    /\ users = Users /\ files = Files /\ printers = Printers
    /\ balance = InitBalance
    /\ pc     = [c \in Calls |-> "idle"]
    /\ args   = [c \in Calls |-> NoArgs]
    /\ row    = [c \in Calls |-> "none"]
    /\ linked = {}
    /\ tx     = [t \in TxTypes |-> [c \in Calls |-> 0]]
    /\ cups   = [c \in Calls |-> "none"]
    /\ errs   = [c \in Calls |-> 0]
    /\ poll   = NoPoll
    /\ sheets = [c \in Calls |-> 0]
    /\ paid   = [c \in Calls |-> 0]
    /\ torn = {} /\ faults = 0

-----------------------------------------------------------------------------
(* POST /print/{printer}/{file}: the route's checks, then send_print_job.   *)

Request(c, f, p, cost) ==
    /\ pc[c] = "idle" /\ f \in files /\ p \in printers
    /\ args' = [args EXCEPT ![c] = [file |-> f, printer |-> p, user |-> Owner[f],
                                    cost |-> cost, of |-> NoCall]]
    /\ Goto(c, "checked")
    /\ UNCHANGED <<rows, acct, row, linked, tx, cups, errs, poll, sheets, torn, faults>>

\* The funds are reserved before anything is sent to CUPS; 402 or 404 otherwise.
Debit(c) ==
    /\ pc[c] = "checked"
    /\ AdjustBalance(args[c].user, -args[c].cost, TRUE)
    /\ paid' = [paid EXCEPT ![c] = @ + args[c].cost]
    /\ Goto(c, "ready")
    /\ UNCHANGED <<rows, args, row, linked, tx, cups, errs, poll, sheets, torn, faults>>

DebitRefused(c) ==
    /\ pc[c] = "checked"
    /\ ~CanAdjust(args[c].user, -args[c].cost, TRUE)
    /\ Goto(c, "rejected")
    /\ UNCHANGED <<rows, acct, args, row, linked, tx, cups, errs, poll, sheets, torn, faults>>

\* POST /print/jobs/{id}/free-reprint: nothing is debited, the cost is 0.
FreeReprint(c, o) ==
    /\ pc[c] = "idle" /\ row[o] # "none" /\ DocumentExists(o)
    /\ args' = [args EXCEPT ![c] = [args[o] EXCEPT !.cost = 0, !.of = o]]
    /\ Goto(c, "ready")
    /\ UNCHANGED <<rows, acct, row, linked, tx, cups, errs, poll, sheets, torn, faults>>

\* CUPSManager.print_file.  Any exception counts as a refusal, also one
\* raised after CUPS queued the document.
Submit(c) ==
    /\ pc[c] = "ready"
    /\ cups' = [cups EXCEPT ![c] = "pending"]
    /\ Goto(c, "accepted")
    /\ UNCHANGED <<rows, acct, args, row, linked, tx, errs, poll, sheets, torn, faults>>

SubmitFails(c) ==
    /\ pc[c] = "ready"
    /\ \E state \in {"none", "pending"} : cups' = [cups EXCEPT ![c] = state]
    /\ Goto(c, "refused")
    /\ UNCHANGED <<rows, acct, args, row, linked, tx, errs, poll, sheets, torn, faults>>

\* Mutant: the request fails and the debit stays.
UndoDebitForgotten(c) ==
    /\ pc[c] = "refused"
    /\ Goto(c, "failed")
    /\ UNCHANGED <<rows, acct, args, row, linked, tx, cups, errs, poll, sheets, torn, faults>>

\* Mutant: a refused free reprint gives back what the original job cost.
UndoDebitOfOriginal(c) ==
    LET cost == IF IsReprint(c) THEN args[args[c].of].cost ELSE args[c].cost
    IN  /\ pc[c] = "refused" /\ args[c].file \in files
        /\ AdjustBalance(args[c].user, cost, FALSE)
        /\ paid' = [paid EXCEPT ![c] = @ - cost]
        /\ Goto(c, "failed")
        /\ UNCHANGED <<rows, args, row, linked, tx, cups, errs, poll, sheets, torn, faults>>

\* 503.  The debit is given back, without a limit check and without a
\* Transaction row.  The log line before it reads file.filename, which raises
\* when the File row is gone: then the debit stays (RowGone).
UndoDebit(c) ==
    /\ pc[c] = "refused"
    /\ IF IsReprint(c)
       THEN UNCHANGED acct
       ELSE /\ args[c].file \in files
            /\ AdjustBalance(args[c].user, args[c].cost, FALSE)
            /\ paid' = [paid EXCEPT ![c] = @ - args[c].cost]
    /\ Goto(c, "failed")
    /\ UNCHANGED <<rows, args, row, linked, tx, cups, errs, poll, sheets, torn, faults>>

\* create_job commits the row; a row it references may be gone by then (RowGone).
SaveJob(c) ==
    /\ pc[c] = "accepted" /\ DocumentExists(c)
    /\ row' = [row EXCEPT ![c] = "pending"]
    /\ Goto(c, "saved")
    /\ UNCHANGED <<rows, acct, args, linked, tx, cups, errs, poll, sheets, torn, faults>>

BookPrint(c) ==
    /\ pc[c] = "saved" /\ ~IsReprint(c) /\ row[c] # "none"
    /\ Booked("print", c)
    /\ Goto(c, "done")
    /\ UNCHANGED <<rows, acct, args, row, linked, cups, errs, poll, sheets, torn, faults>>

LinkReprint(c) ==
    /\ pc[c] = "saved" /\ IsReprint(c) /\ row[c] # "none" /\ row[args[c].of] # "none"
    /\ linked' = linked \cup {c}
    /\ Goto(c, "linked")
    /\ UNCHANGED <<rows, acct, args, row, tx, cups, errs, poll, sheets, torn, faults>>

BookReprint(c) ==
    /\ pc[c] = "linked" /\ row[c] # "none" /\ row[args[c].of] # "none"
    /\ Booked("free_reprint", c)
    /\ Goto(c, "done")
    /\ UNCHANGED <<rows, acct, args, row, linked, cups, errs, poll, sheets, torn, faults>>

\* The handler reads or references a row that was deleted under it and raises.
RowGone(c) ==
    /\ \/ pc[c] = "refused" /\ ~IsReprint(c) /\ args[c].file \notin files
       \/ pc[c] = "accepted" /\ ~DocumentExists(c)
       \/ pc[c] \in {"saved", "linked"}
          /\ (row[c] = "none" \/ (IsReprint(c) /\ row[args[c].of] = "none"))
    /\ Goto(c, "dead")
    /\ UNCHANGED <<rows, acct, args, row, linked, tx, cups, errs, poll, sheets, torn, faults>>

\* One handler dies: a database error, or get_toner_levels raising something
\* other than IPPError after CUPS has the document.
HandlerDies(c) ==
    /\ c \in InFlight /\ Fault
    /\ Goto(c, "dead")
    /\ UNCHANGED <<rows, acct, args, row, linked, tx, cups, errs, poll, sheets, torn>>

Handler(c) ==
    \/ Debit(c) \/ DebitRefused(c) \/ Submit(c) \/ SubmitFails(c) \/ UndoDebit(c)
    \/ SaveJob(c) \/ BookPrint(c) \/ LinkReprint(c) \/ BookReprint(c) \/ RowGone(c)

-----------------------------------------------------------------------------
(* CUPS, and the deletions other routes may make meanwhile.                  *)

CupsStep(c) ==
    /\ cups[c] \in Transit
    /\ \E s \in Status \ {cups[c]} : cups' = [cups EXCEPT ![c] = s]
    /\ UNCHANGED <<rows, acct, pc, args, row, linked, tx, errs, poll, sheets, torn, faults>>

\* DELETE /file/{id} and the 24-hour cleaner; job rows keep a NULL file_id.
DeleteFile(f) ==
    /\ f \in files /\ Fault
    /\ files' = files \ {f}
    /\ UNCHANGED <<users, printers, acct, pc, args, row, linked, tx, cups, errs, poll, sheets,
                   torn>>

DropJobs(gone) == row' = [c \in Calls |-> IF c \in gone THEN "none" ELSE row[c]]

\* A printer's jobs go with it (ON DELETE CASCADE), their transactions stay.
DeletePrinter(p) ==
    /\ p \in printers /\ Fault
    /\ printers' = printers \ {p}
    /\ DropJobs({c \in Calls : args[c].printer = p})
    /\ UNCHANGED <<users, files, acct, pc, args, linked, tx, cups, errs, poll, sheets, torn>>

\* A user's files, jobs and transactions go with the user.
DeleteUser(u) ==
    /\ u \in users /\ Fault
    /\ users' = users \ {u}
    /\ files' = {f \in files : Owner[f] # u}
    /\ DropJobs({c \in Calls : args[c].user = u})
    /\ tx' = [t \in TxTypes |-> [c \in Calls |-> IF args[c].user = u THEN 0 ELSE tx[t][c]]]
    /\ UNCHANGED <<printers, acct, pc, args, linked, cups, errs, poll, sheets, torn>>

-----------------------------------------------------------------------------
(* Scheduler.update_jobs_sync, every five seconds, never two at once.        *)

\* Mutant: every job is asked about, settled or not.
PollStartAll ==
    LET found == {[job |-> c, status |-> row[c]] : c \in {d \in Calls : row[d] # "none"}}
    IN  /\ poll.pc = "idle" /\ found # {}
        /\ poll' = [NoPoll EXCEPT !.pc = "ask", !.todo = found]
        /\ UNCHANGED <<rows, acct, pc, args, row, linked, tx, cups, errs, sheets, torn, faults>>

\* The transitory jobs and the status each has now.
PollStart ==
    LET found == {[job |-> c, status |-> row[c]] : c \in {d \in Calls : row[d] \in Transit}}
    IN  /\ poll.pc = "idle" /\ found # {}
        /\ poll' = [NoPoll EXCEPT !.pc = "ask", !.todo = found]
        /\ UNCHANGED <<rows, acct, pc, args, row, linked, tx, cups, errs, sheets, torn, faults>>

\* The poll with `rest` still to do.
NextJob(rest) == IF rest = {} THEN NoPoll
                 ELSE [NoPoll EXCEPT !.pc = "ask", !.todo = rest]

\* Mutant: the run returns at the first job whose status has not changed.
PollAnsweredReturns(t) ==
    /\ poll.pc = "ask" /\ t \in poll.todo
    /\ poll' = IF cups[t.job] = t.status
               THEN NoPoll
               ELSE [pc |-> "write", todo |-> poll.todo \ {t}, job |-> t.job, new |-> cups[t.job]]
    /\ UNCHANGED <<rows, acct, pc, args, row, linked, tx, cups, errs, sheets, torn, faults>>

\* get_job_status answered: CUPSManager.JOB_STATE_MAP of the job's state.
PollAnswered(t) ==
    /\ poll.pc = "ask" /\ t \in poll.todo
    /\ poll' = IF cups[t.job] = t.status
               THEN NextJob(poll.todo \ {t})
               ELSE [pc |-> "write", todo |-> poll.todo \ {t}, job |-> t.job, new |-> cups[t.job]]
    /\ UNCHANGED <<rows, acct, pc, args, row, linked, tx, cups, errs, sheets, torn, faults>>

\* Mutant: the errors are counted and never given up on.
PollIPPErrorForever(t) ==
    /\ poll.pc = "ask" /\ t \in poll.todo
    /\ errs' = [errs EXCEPT ![t.job] = @ + 1]
    /\ poll' = NextJob(poll.todo \ {t})
    /\ UNCHANGED <<rows, acct, pc, args, row, linked, tx, cups, sheets, torn, faults>>

\* IPPError.  The count is never reset by an answer: the try after MAX_TRIES
\* errors over the job's whole life reports ABORTED.
PollIPPError(t) ==
    /\ poll.pc = "ask" /\ t \in poll.todo
    /\ IF errs[t.job] + 1 > MaxTries
       THEN /\ errs' = [errs EXCEPT ![t.job] = 0]
            /\ poll' = [pc |-> "write", todo |-> poll.todo \ {t}, job |-> t.job,
                        new |-> "aborted"]
       ELSE /\ errs' = [errs EXCEPT ![t.job] = @ + 1]
            /\ poll' = NextJob(poll.todo \ {t})
    /\ UNCHANGED <<rows, acct, pc, args, row, linked, tx, cups, sheets, torn, faults>>

\* Mutant: jobs in error are not followed up.
AfterWriteStockOnly == IF poll.new = "completed" THEN "stock" ELSE "ask"

\* What follows the commit of a job's new status.
AfterWrite == IF poll.new = "completed" THEN "stock"
              ELSE IF poll.new \in Error THEN "credit" ELSE "ask"

\* Mutant: stock and refund are settled without committing the new status.
PollWriteLate ==
    /\ poll.pc = "write"
    /\ IF row[poll.job] # "none" /\ AfterWrite # "ask"
       THEN poll' = [poll EXCEPT !.pc = AfterWrite] /\ row' = row
       ELSE poll' = NextJob(poll.todo) /\ row' = row
    /\ UNCHANGED <<rows, acct, pc, args, linked, tx, cups, errs, sheets, torn, faults>>

\* update_job_status: None when the row is gone, and then the next job.
PollWrite ==
    /\ poll.pc = "write"
    /\ IF row[poll.job] = "none"
       THEN poll' = NextJob(poll.todo) /\ row' = row
       ELSE /\ row' = [row EXCEPT ![poll.job] = poll.new]
            /\ poll' = IF AfterWrite = "ask" THEN NextJob(poll.todo)
                       ELSE [poll EXCEPT !.pc = AfterWrite]
    /\ UNCHANGED <<rows, acct, pc, args, linked, tx, cups, errs, sheets, torn, faults>>

\* _decrement_paper_stock, with a paper item set up for the printer.
PollStock ==
    /\ poll.pc = "stock" /\ row[poll.job] # "none"
    /\ sheets' = [sheets EXCEPT ![poll.job] = @ + 1]
    /\ poll' = NextJob(poll.todo)
    /\ UNCHANGED <<rows, acct, pc, args, row, linked, tx, cups, errs, torn, faults>>

PollCredit ==
    /\ poll.pc = "credit" /\ row[poll.job] # "none"
    /\ AdjustBalance(args[poll.job].user, args[poll.job].cost, FALSE)
    /\ paid' = [paid EXCEPT ![poll.job] = @ - args[poll.job].cost]
    /\ poll' = [poll EXCEPT !.pc = "book"]
    /\ UNCHANGED <<rows, pc, args, row, linked, tx, cups, errs, sheets, torn, faults>>

PollBook ==
    /\ poll.pc = "book" /\ row[poll.job] # "none"
    /\ Booked("refund", poll.job)
    /\ poll' = NextJob(poll.todo)
    /\ UNCHANGED <<rows, acct, pc, args, row, linked, cups, errs, sheets, torn, faults>>

\* The run ends before its last job; the rest waits for the next run.
AbandonPoll ==
    /\ poll' = NoPoll
    /\ torn' = IF poll.pc = "book" THEN torn \cup {poll.job} ELSE torn

\* The job read again after a commit has been deleted: ObjectDeletedError.
PollRowGone ==
    /\ poll.pc \in {"stock", "credit", "book"} /\ row[poll.job] = "none"
    /\ AbandonPoll
    /\ UNCHANGED <<rows, acct, pc, args, row, linked, tx, cups, errs, sheets, faults>>

\* A database error, or get_job_status raising something other than IPPError.
PollDies ==
    /\ poll.pc # "idle" /\ Fault
    /\ AbandonPoll
    /\ UNCHANGED <<rows, acct, pc, args, row, linked, tx, cups, errs, sheets>>

Poll == \/ PollStart
        \/ \E t \in poll.todo : PollAnswered(t) \/ PollIPPError(t)
        \/ PollWrite \/ PollStock \/ PollCredit \/ PollBook \/ PollRowGone

-----------------------------------------------------------------------------
\* The process is restarted: what is in memory is lost, the database stays.
Restart ==
    /\ Fault
    /\ pc' = [c \in Calls |-> IF c \in InFlight THEN "dead" ELSE pc[c]]
    /\ errs' = [c \in Calls |-> 0]
    /\ AbandonPoll
    /\ UNCHANGED <<rows, acct, args, row, linked, tx, cups, sheets>>

Next ==
    \/ \E c \in Calls :
          \/ \E f \in Files, p \in Printers, cost \in Costs : Request(c, f, p, cost)
          \/ \E o \in Calls : FreeReprint(c, o)
          \/ Handler(c)
          \/ HandlerDies(c)
          \/ CupsStep(c)
    \/ \E f \in Files : DeleteFile(f)
    \/ \E p \in Printers : DeletePrinter(p)
    \/ \E u \in Users : DeleteUser(u)
    \/ Poll \/ PollDies \/ Restart

\* Worker threads run on, and the interval trigger starts the poll again and again.
Fairness == /\ \A c \in Calls : WF_vars(Handler(c))
            /\ WF_vars(Poll)

Spec == Init /\ [][Next]_vars /\ Fairness

-----------------------------------------------------------------------------
Stages   == {"idle", "checked", "ready", "accepted", "refused", "saved", "linked",
             "rejected", "failed", "done", "dead"}
ArgsType == [file : Files \cup {NoCall}, printer : Printers \cup {NoCall},
             user : Users \cup {NoCall}, cost : Prices, of : Calls \cup {NoCall}]
PollType == [pc : {"idle", "ask", "write", "stock", "credit", "book"},
             todo : SUBSET [job : Calls, status : Transit],
             job : Calls \cup {NoCall}, new : Status \cup {"none"}]

\* Every variable keeps its type: the program counters, row statuses and
\* error counts of the handlers, the poll and CUPSManager.
TypeOK ==
    /\ users \subseteq Users /\ files \subseteq Files /\ printers \subseteq Printers
    /\ balance \in [Users -> Int]
    /\ pc \in [Calls -> Stages]
    /\ args \in [Calls -> ArgsType]
    /\ row \in [Calls -> Status \cup {"none"}]
    /\ linked \subseteq Calls
    /\ tx \in [TxTypes -> [Calls -> Nat]]
    /\ cups \in [Calls -> Status \cup {"none"}]
    /\ errs \in [Calls -> 0 .. MaxTries]
    /\ poll \in PollType
    /\ poll.pc \notin {"idle", "ask"} => poll.job \in Calls
    /\ sheets \in [Calls -> Nat]
    /\ paid \in [Calls -> Int]
    /\ torn \subseteq Calls
    /\ faults \in 0 .. MaxFaults

\* Whatever prints and refunds overlap, no balance goes below the user's credit
\* limit: the debit of send_print_job is one guarded UPDATE, not a check and
\* then an update.
WithinCreditLimit == \A u \in users : balance[u] + CreditLimit[u] >= 0

\* However often a job is polled, however often the process is restarted
\* between the steps of the poll, and whichever of the handler's own undo and
\* the poll gives the money back, a job gives back at most what it was charged,
\* and at most one REFUND row says so.
RefundedAtMostOnce ==
    \A c \in Calls : paid[c] \in {0, args[c].cost} /\ tx["refund"][c] <= 1

\* A job the database calls completed is paid for and has taken paper from the
\* stock at most once; no job that gave its charge back has taken any.
CompletedIsPaid ==
    \A c \in Calls : /\ row[c] = "completed" => paid[c] = args[c].cost
                     /\ sheets[c] > 0 => sheets[c] = 1 /\ paid[c] = args[c].cost

\* A status the poll no longer asks CUPS about (update_jobs_sync reads the
\* transitory jobs only) never changes again, whatever CUPS says later.
FinalStatusAbsorbing ==
    [][\A c \in Calls : row[c] \in Status \ Transit => row'[c] \in {row[c], "none"}]_vars

JobsOf(u) == {c \in Calls : args[c].user = u}

\* What the transactions of each job add to its owner's balance.
TxNet == [c \in Calls |-> args[c].cost * (tx["refund"][c] - tx["print"][c])]

\* No step on job c's money is under way or was cut short.
AtRest(c) == /\ pc[c] \in {"idle", "checked", "rejected", "failed", "done"}
             /\ c \notin torn
             /\ ~(poll.pc = "book" /\ poll.job = c)

\* Whenever none of a user's jobs is between its balance step and its
\* transaction row, the transaction rows alone explain the balance: every
\* commit of adjust_balance that stays is followed by exactly one row.
LedgerExplainsBalance ==
    \A u \in users :
       (\A c \in JobsOf(u) : AtRest(c)) =>
           balance[u] = InitBalance[u] + SumFunctionOnSet(TxNet, JobsOf(u))

\* The handlers, the poll, the deletions and the restarts together keep the
\* promise of module Charges: a balance moves only by charging a job within the
\* limit and by giving back, whole and once, what a job was charged.
C == INSTANCE Charges WITH Jobs <- Calls, Amounts <- Prices, Start <- InitBalance
ImplementsCharges == C!Spec

\* When CUPS is done with a job, the job's row reaches a final status, through
\* IPP errors, abandoned polls and restarts, unless the row is deleted.
StatusFollowsCups ==
    \A c \in Calls : (row[c] \in Transit /\ cups[c] \notin Transit) ~> (row[c] \notin Transit)

\* A job found aborted or cancelled is refunded and the refund booked, unless a
\* fault strikes (a refund a fault interrupts is never taken up again: the job
\* has left the transitory statuses).
FailedJobRefunded ==
    \A c \in Calls : row[c] \in Error ~> \/ paid[c] = 0 /\ tx["refund"][c] = 1
                                         \/ faults > 0
=============================================================================
