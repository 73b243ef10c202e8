# A TLA+ model of Print Buddy's server

Print Buddy is a FastAPI server with a PostgreSQL database that lets the
residents of a house print on shared CUPS printers against a prepaid balance.
This directory holds TLA+ modules for the parts of it that keep state, the TLC
runs that check them, and proofs for TLAPS.

Paths below are relative to the repository (`src/src/...` is the package).

## The system

| Component | State it keeps | Operations | Where |
|---|---|---|---|
| Balances | `user.balance`, `user.credit_limit` | `adjust_balance`, `update_user`, `delete_user` | `db/crud/user.py` |
| Print submission | none of its own: `printjob`, `transaction` rows | `send_print_job`, `send_free_reprint` | `core/print_assistant.py`, `api/routes/print.py` |
| Settlement poll | `printjob.status`, error counts in memory | `update_jobs_sync`, every 5 s | `core/scheduler.py`, `db/crud/printjob.py` |
| CUPS client | `jobs_with_error`, last markers | `print_file`, `get_job_status`, `get_toner_levels` | `core/cups_manager.py` |
| Ledger | `transaction` rows | `record_recharge`, `record_adjustment`, `create_transaction` | `core/ledger_service.py`, `db/crud/transaction.py` |
| Recharge requests | `rechargerequest` rows, a Telegram message each | create, `resolve`, edit of the message | `core/recharge_request_service.py`, `api/routes/recharge_request.py` |
| Telegram routes | `telegramadmin` rows | recharge, adjust, resolve, register | `api/routes/telegram.py` |
| Refund requests | `refundrequest` rows | create, approve, deny, override | `api/routes/refund.py` |
| Product purchases | `productpurchase` rows | create, fulfil, reject | `core/product_purchase_service.py` |
| Inventory | `inventoryitem.quantity`, movements | `record_movement` | `db/crud/inventory.py` |
| Collections, expenses | `collectionevent`, `expense` rows, `collected_in_event_id` | collect, pay, `create_expense` | `db/crud/collection_event.py`, `db/crud/expense.py` |
| Alerts | debounce records in `appconfig` | toner mails and stock messages, looked at every 60 s, repeated after hours | `core/scheduler.py`, `core/mail_assistant.py` |
| Printer synchronisation | `printer` rows, a copy of CUPS's list in memory | `update_printers_sync` | `core/scheduler.py`, `db/crud/printer.py` |
| Files | `file` rows, paths on disk | upload, delete, 24-hour cleaner | `core/file_manager.py`, `core/scheduler.py` |
| Prices | group permits | effective price, page ranges, sheets | `api/routes/print.py`, `db/crud/group.py`, `core/utils.py` |
| Administration, authentication | users, LDAP configuration | register, log in, import | `api/routes/user.py`, `api/routes/auth.py` |
| Reports | none (queries) | statistics, activity log, finance export | `api/routes/stats.py`, `core/finance_export_service.py` |

How they interact. Every request handler is a plain function that FastAPI runs
in a worker thread with a database session of its own; the scheduler's jobs run
in an executor thread each. Nothing but the database is shared, except the
CUPS client's error counts and marker cache (behind locks), the scheduler's
picture of the printers, and two `LDAPAssistant` objects whose attributes every
login and import sets anew. A handler calls several services in turn and most of
these *commit*: `adjust_balance`, `create_job`, `create_transaction`,
`update_job_status`, `record_movement`. A commit ends the transaction, gives up
every row lock taken with `SELECT ... FOR UPDATE`, and expires the rows the
handler holds, so that the next attribute access reads them again (and raises
if they were deleted).

What is hard, therefore:

* interleaving and atomicity: what may happen between two commits of one
  handler, including a commit in the middle of a section its author thought was
  under a row lock (`resolve`, `_settle`, `ProductPurchase` resolution);
* crashes and exceptions between two commits;
* rows that vanish, by `ON DELETE CASCADE` or `SET NULL`, under a handler;
* the poll: its snapshot of unsettled jobs is old by the time a job's turn comes,
  a run that raises is repeated five seconds later from the start;
* messages to CUPS and Telegram: a submission may have succeeded although the
  client saw an exception; a message is sent before its id is saved.

What makes each component correct: balances respect the credit limit; a job's
charge is given back at most once and only if the job failed; a final status is
final; transactions explain balances; a resolved request stays resolved and its
status agrees with the money; an event settles only rows it has counted; stock
equals the sum of its movements; alerts are not repeated within their interval,
and what stays low is told again; the table of printers gets to what CUPS says; a
file's row and its path go together; a price is the least of a user's permits;
figures and sheets agree with how balances moved; a person of the directory is let
in by the server that is configured, and imported once. The hazards in `PROJECT.json`
name the line where each of these may go wrong.

## Modules

| Module | Models |
|---|---|
| `Accounts` | the user rows and `adjust_balance`, one guarded `UPDATE` and its commit |
| `Charges` | abstract: what printing promises about money |
| `PrintJobs` | submission, free reprints, CUPS, the poll, deletions and restarts; implements `Charges` |
| `RechargeRequests` | recharge requests and their Telegram message, recharges, adjustments and edits of a balance |
| `Collections` | expenses, and the sweeps that settle administrators' cash |
| `RefundRequests` | refunds asked for, approved, denied, overridden |
| `ProductPurchases` | extras and the stock they are taken from |
| `Markers` | readings of toner levels and their cache, as operators |
| `Printers` | the printer table, the picture the scheduler keeps of CUPS, the marker cache |
| `Alerts` | the toner and the stock alert with their saved state |
| `Files` | rows and paths of uploaded files, and the cleaner |
| `Groups` | members, permits, access to printers, page ranges and prices |
| `Reports` | a history of events, and the figures, sheets and log made from it |
| `Members` | registration, logins through a directory, its import and its configuration |
| `PrintJobsProofs`, `RechargeRequestsProofs`, `RefundRequestsProofs`, `ProductPurchasesProofs`, `CollectionsProofs` | the theorems about the module of that name |
| `SchedulerProofs` | the theorems about `Alerts`, `Printers` and `Files` |
| `AdministrationProofs` | the theorems about `Members`, `Groups` and `Reports` |
| `SumProofs` | lemmas about sums over finite sets, for all of these |
| `MC*` | instances for TLC |

`PrintJobs`, `RechargeRequests`, `RefundRequests`, `ProductPurchases` and
`Charges` extend `Accounts`: they share the operator through which money moves,
as the code does. `Printers` extends `Markers`; `Reports` extends `Groups`, so
that what a print costs in its history is the price that the groups of the moment
give. The rest meet in their properties. `RefundRequests` starts from completed
jobs, and `FinalStatusAbsorbing` of `PrintJobs` is why nothing else refunds those.
`Collections` starts from the transactions that `Book` of `RechargeRequests`
writes. `Reports` starts from events that have come to their end, each moving a
balance as the ledger properties of the other modules say.

**Steps.** An action is what one session does up to a commit, or one exchange
with CUPS or Telegram, in the order of the code; `pc` says how far a handler
has come and `args`/`call` holds what it keeps in local variables. A section
under a row lock that lasts to the next commit is one action; a section whose
lock is given up by a commit in the middle is two. A row that a handler
re-reads after a commit appears in the guard of the action (`DocumentExists`,
`row[c] # "none"`), and its absence in `RowGone`. `HandlerDies`, `PollDies` and
`Restart` stand for exceptions and restarts at any such point; `DeleteUser`,
`DeletePrinter`, `DeleteFile` for the deletions other routes make.

**Data.** Amounts are whole cents: every amount goes through `round_money` into
a `NUMERIC(10,2)` column, and in cents the tolerance of -0.005 in the `WHERE`
clause of `adjust_balance` is the comparison with zero. A price is a member of
`Costs`; `Groups` says what it is. A CUPS job moves through
`Transit` states to a final one and CUPS job ids are not reused. The job has a
paper item set up for its printer.

### PrintJobs

`pc[c]`: idle, checked (route's checks done), ready (funds reserved), accepted or
refused (by CUPS), saved (row committed), linked (reprints only), then done,
failed, rejected or dead. `poll` is the run of `update_jobs_sync`: `todo` is the
list read at its start with the statuses of then, `job` and `new` the job whose
status was just read, and `poll.pc` the next of write, stock, credit, book.
`paid`, `torn` and `faults` are history variables; nothing in an action of the
program reads them (except the bound on `faults`).

A definition commented "Mutant" is a faulty form of the one after it. No
specification uses it: put in place of the right one it shows that a property
notices.

### RechargeRequests

`Resolve` and `ResolveByTelegram` are a press on Approve or Reject in either
channel: the web route edits the message whose id is saved, the bot the one with
the button (`Sync`). `Reject` is one action from the locked read to the commit. An
approval is `Approve` (locked read, credit, commit), `Book` (transaction),
`SetApproved` (status): `adjust_balance` commits inside, so that the lock taken by
`get_for_resolve` covers only the first. `Create`, `Notify` and `SaveMessage` are
the row, the message to the administrator and its id. `Recharge` and
`RechargeByTelegram` differ in the test of the sign. `moved` and `drift` are
history variables: which calls have moved money, and what plain edits of a user
row changed. `HandlerDies` also stands for Telegram refusing the edit in `Sync`.

### Collections

A row of `Rows` is a future RECHARGE or EXPENSE transaction. `RecordExpense` and
`MirrorExpense` are the two commits of `create_expense`. A sweep is two steps,
`Collect` or `Pay` (locked read, sum, event, commit) and `Mark` (re-read,
update by id, commit); the locks of the read are gone after the first.
`DeleteUser` applies the foreign keys of `transaction`: `user_id` cascades,
`actor_id` is set to NULL.

### RefundRequests

A row of `refundrequest` is named by the invocation that made it. Nothing is
locked, so the read of the status (`Resolve`, `Ask`), the credit (`Credit`), the
transaction (`Book`) and the status (`Mark`) are separate steps. `first()` over
several requests of one job may return any of them. `met` is a history variable:
the jobs that two invocations dealt with at the same time.

### ProductPurchases

A purchase is `Debit`, `Create`, `Book`. A fulfilment is `TakeStock` (locked read,
movement, commit) and `Fulfill`, or `FulfillUntracked` alone when nothing commits
in between; a rejection is `Refund` and `Reject`. `MoveStock` stands for the two
inventory routes, `UpdateProduct` and `DeleteProduct` for the product routes.
`linked` is the item a product is linked to, which an edit may change to another one;
`from` is the item a sale movement was written for, and a purchase does not name it.
`record_movement` is one `UPDATE` with its movement row and has no floor: `stock` may
go below zero. `StockMatchesSales` compares the stock with the table of purchases, not
with the movements. Whatever happens, what was handed over has left the stock of the
item it was taken from; that the item has lost nothing else is claimed for calls that
resolve their purchase in turn and get to the status.

### Printers and Markers

`See` is `get_printers` with `check_printer_changes`: the new picture replaces the
old one before anything is written. Then, for each printer of it in any order,
`Find` looks its row up and `Update` or `Insert` writes it, in a commit of its own;
`Invalid`, `UpdateGone` and `PassFails` end the pass. `Create` and `Delete` are the
administrator's routes, `ClearMarkers` the second half of the deletion. A reader
takes levels from CUPS (`ReadLevels`) and merges them under the lock (`Merge`).
Names are not unique in the table; ids are, and are not given twice. `failed`,
`removed`, `fresh`, `known` and `shown` are history variables.

### Alerts

One module for both jobs, which have one shape: `kind` says which. `Start` reads
configuration, state and recipients, `Check` one printer's toner, `Save` writes the
new state, `Send` is the mail or the message. Times are kept as ages, so that the
clock needs no bound. `Configure` and `RecipientsChange` may come at any time;
`PassCutShort` is an exception or a restart. `prev`, `mailed`, `dropped` and `spaced`
are history variables.

### Files

The uploads of one user under one file name: path 0 is the name, path k the one
with a number. `ChoosePath`, `Open`, `Write` (which may put a decrypted copy in
place), `TooLarge` and `InsertRow` are an upload; `DeleteFile`, `DeleteRow` and `Unlink` a deletion;
`Clean`, `CleanNext`, `CleanRow`, `CleanPath` and `CleanEnd` the cleaner with its
list; `DeleteUser` and `DeleteDirectory` the end of the user. No route asks whether the
user of a token still exists: an upload for a deleted one writes its file and fails at
the row. `met` and `cut` are
history variables: the paths two processes were at work on at a time, and those
somebody was at work on when it failed.

### Groups and Reports

`Groups` has an action for each route that changes members, permits or printers, and
operators for what a print costs: `CountPages`, `JobPages`, `Price`, `Cost`,
`MayPrint`, `Listed`. Prices are tenths of a cent and costs whole cents, so that
rounding half up shows. `Reports` starts from any arrangement of groups. Its
`history` is a sequence of finished events, and its rows follow from that and from
the users and printers there still are. `Finance`, `TotalSpent`, `RechargesSheet`,
`ExpensesSheet` and `LogPage` are the queries, the first four over a window of time: a
set of positions of the history. `total_spent` takes jobs by the time they were
completed and refunds by the time they were made. A recharge may be negative, as
Telegram's are.

### Members

A request is a record of where it is and what it has read; each check, write and
use of the directory is an action. `Configure` sets one attribute of a shared
`LDAPAssistant`; `Address` reads the domain, `Bind` the server and `Search` the base,
each whatever it is by then. `ImportNext` takes one name of the directory's list and
with it every other that differs in case only, as the growing set of
`import_ldap_users` does; `CreateAtLogin` may also fail at a value the schema refuses.
`Once` is for requests that are a single transaction. `accounts` is keyed by the
request that made the row; the unique columns are the guard `Unique`. `inForce` and
`before` are history variables: the configurations that were in force during a
request, and which request had ended before which began.

## Runs

| Run | What it asks |
|---|---|
| `print_jobs` | Two overlapping requests (prints, reprints, refused submissions), CUPS, the poll, restarts and deletions: the credit limit holds, a job is refunded at most once and never when completed, completed jobs are paid and take paper once, transactions explain the balance, final statuses are final, and every step is one that `Charges` allows. |
| `print_jobs_live` | Once CUPS is done with a job its row becomes final, and a failed job is refunded unless a fault came between. |
| `recharges` | Three overlapping administrator calls over both channels: a rejected request is not credited, a settled one stays settled, a credited one ends as approved, transactions and edits explain the balance, and a message whose id was saved in time loses its buttons. |
| `recharge_double` | Violated: two approvals of one request both credit. |
| `collections` | Three sweeps of one administrator's cash, two recharges and an expense: what is settled was counted, what was counted gets settled, and the sums agree. |
| `refunds` | Four invocations about one job: refunded once and verdicts final when they take turns; approved requests are credited and transactions explain the balance even when they overlap. |
| `purchases` | Two purchases of two products, two resolve calls, and edits, relinking and deletions of the products: one outcome per purchase when resolved in turn; a rejected purchase is paid back with a transaction; stock agrees with the purchases, through all of these and through faults; transactions explain the balance. |
| `printers` | Passes, administrators, failed answers of CUPS, restarts and two readers: the picture is never ahead of the table but after a pass cut short, a known level is never lost, and the table gets to what CUPS says. |
| `alerts` | Both alerts: spaced by their interval, a new episode told at once, a lasting one again and again although mails are lost. |
| `files` | Two uploads of one name, two deletions, the cleaner, the deletion of the user: a row has its own whole file and a file its row wherever no two processes met, and old rows go. |
| `reports` | Every history of three events over every arrangement of two groups: prices, the finance figures of every period and the sheets, negative recharges included, the pages of the log, and a user's own figures for every period. |
| `members` | Three overlapping requests of any kind: an import makes no second account for a person who had one, also where the directory spells them twice, and a login is accepted only by a server that was configured while it was under way. |

The properties say what holds of the code as it is, so several of them name the
case they leave out: calls that overlap (`RefundedOnceInTurn`, `VerdictStands`,
`SettledOnceInTurn`), a pass cut short (`PictureIsStored`), two processes on one
path (`RowHasItsFile`). Each such case is a behaviour of the code, and a hazard of
`PROJECT.json`, that a change of the code might do away with.

**Bounds.** One user in the runs about money, except `collections`: nothing in these
components relates two balances. Two print requests suffice for every pair of
overlapping handlers and for a reprint of a first job; three or four calls for the
others, so that a third comes late to the outcome of two that overlapped. Prices
and limits are chosen so that one debit succeeds and a second fails unless the
first is given back. `MaxFaults` (exceptions, restarts, deletions) is 1 or 2: each
property names at most one such event, and a second shows recovery interrupted.
`MaxTries` is 1 (3 in the code), which lets the error count pass it within a run.
`MaxMoves` is 1. In `MCProductPurchases` the buyer can afford both purchases, of 4 for
two pieces and of 3 for one; the first is of a product linked to an item with one
piece left, the second of a product linked to none, and there is a second item for
either to be linked to. `MaxChanges` is 2: both products can be relinked, or one
relinked and deleted, before, between and after the steps of two fulfilments.

`MCPrinters` has two printers, one of them with up to two markers, two readers and
three events of the environment: enough to create, delete and change one printer, or
to read twice around a deletion. `MCAlerts` has two subjects and the intervals 0
(which counts as an hour) and 2, with ages up to 2: not due, due under the shorter
one, due. `MCFiles` has two uploads, two deletions and one exception: a file can be
deleted twice with an upload of its name in between. `MCReports` has three lists of
prices (free in black, dearer than the printer by less than a cent, access without
a price), ranges that overlap or end after the file, recharges of 10 and of -5, and
three events with one change of groups, users or printers among them: enough for a page
of the log that begins beyond what its limit alone would read, and for a period that
holds a job and not its refund, or the refund and not its job. `MCMembers` has three
requests and two servers; one of them has a second person, and two entries for the
first that differ in case. Symmetry is used
over calls, purchases, groups and requests in runs of safety properties only.
`CHECK_DEADLOCK FALSE` everywhere but in `alerts`, where an hour can always pass: a
system with no more requests to serve stops.

**Fairness.** Weak fairness of each handler's next step: a worker thread that has
started runs on. Weak fairness of the scheduler's jobs (the poll, `SyncPass` of
`Printers`, `Pass` of `Alerts`, `CleanPass` of `Files`): interval triggers start them again
and again, and `run_in_executor` drops only overlapping runs. Weak fairness of
`Tick`: time passes. Nothing is assumed of users, administrators, CUPS or faults.
`StatusFollowsCups` supposes that the connection to CUPS was made at start-up;
without one the code asks for no status at all. The faults are bounded, so that
`LowIsReported` and `Synchronised` speak of a system that fails finitely often.

## Where the code and its words disagree

Run `recharge_double` shows the one disagreement that is kept as a run. An earlier
form of these models showed five more, each by a counterexample; the properties of
today are stated so as to hold with them.

* A purchase can end as fulfilled and be paid back: `resolve` commits inside
  (`product_purchase_service.py:104,110`), although a FULFILLED one "never does"
  refund (`db/models/product_purchase.py:19`).
* Two sweeps can count one row: `_settle` commits the event
  (`db/crud/collection_event.py:82`) before it marks the rows, although the model says
  "in the same DB transaction" (`db/models/collection_event.py:23`).
* These two and `recharge_double` are one mistake in three places: a helper that
  commits is called inside a section its author believed to be under a row lock. A
  helper that does not commit, or the status set before it, would mend each.
* An adjustment to a target applies a difference to a balance that may have moved
  (`core/ledger_service.py:75`), although the route sets "a user's balance to an
  absolute value" (`api/routes/user.py:329`).
* A recharge from Telegram may be negative and passes the credit limit
  (`api/routes/telegram.py:207`), although "adjust_balance's own atomic update guards
  the outcome either way" (`schemas/telegram.py:17-18`).
* A web-side resolution that comes before the message's id is saved
  (`api/routes/recharge_request.py:105`) leaves the "stale, still-clickable" message
  of line 235.

Met while modelling, and part of the models:

* Half sheets: `_sheets_expr` is said to be "plain integer division" and "`ceil(pages /
  2)` for positive integers" (`stats.py:23-25`), but `/` between integers is a true
  division in SQLAlchemy 2. A two-sided job with an even number of pages counts half a
  sheet too much; two of them at one printer make one sheet too many, and the half of
  an odd one is cut off. The counts of sheets are not modelled.
* `total_spent` takes off the refunds of failed jobs and of rejected purchases, whose
  costs it never added, and of jobs deleted with their printer (`stats.py:115-124`).
  Over a period it takes jobs by the date they were completed and refunds by their own:
  a refund made after the period is not in it, and one made in it of an earlier job is.
* A negative recharge from Telegram lowers a balance and is in none of the finance
  figures: `pos_sum` leaves it out (`stats.py:223,236`), as `tests/test_stats.py:96,166`
  expects. The sheet of recharges lists it.
* A product that is linked to another item (`db/crud/product.py:59-60`) sells the
  purchases that are pending from the new one. An edit cannot unlink a product.
* `PATCH /user/{id}` sets a balance with no transaction to show for it.
* One CUPS printer without a location, or in a state the enumeration lacks, ends every
  pass of the synchronisation at it (`scheduler.py:119`). A printer that the pass
  inserts loses its reasons. One that an administrator deletes comes back, with
  default prices, at the next change.
* An alert whose mail fails is not sent before the interval is over; a printer that
  cannot be read for one pass is announced anew by the next.
* The cleaner, or a second deletion of one file, unlinks a path that an upload of the
  same name may have taken since; a failure to count pages leaves a file without a
  row.
* The print route does not ask whether the printer is active.
* Registration, logins and changes of name compare usernames as they are spelt, the
  import without regard to case: all but the import can give a person of the
  directory a second account. A local password stored at the first login stays valid
  whatever the directory says later.

## Proofs

Everything below holds for any values of the constants that satisfy the modules'
assumptions. Those are named in the modules, and TLC evaluates them on every run: the
types of amounts, prices and owners, that rows and calls of different kinds are
different, that bounds are numbers, and that users, printers, uploads and deletions
are finitely many where something is counted. Every invariant and every action
property of a passing run is a theorem.

Each inductive invariant says, besides types, how far every handler has come and what
it has done by then. None of the properties is inductive as it stands, except the
credit limit and the marker levels, which need little more than types.

**Sums** (`SumProofs`). Ledgers, floats, stocks and figures are sums of a function over
a finite set, which the community modules define by taking the elements in an order
nobody knows. The lemmas say that the order does not matter (`SumAdd`), and how a sum
changes with its set and its terms. A rule of induction cannot be cited, its property
being an operator; each of these facts is proved instead from a smallest subset that
it would be false of (`SmallestSubset`). The positions of a history are treated alike:
the first one at which an equation fails has a predecessor at which it holds.

`PrintJobsProofs`: `TypeCorrect`, `CreditLimitHeld`, `RefundOnce`, `CompletedPaid`,
`FinalStatus` (a final status never changes), `KeepsChargesPromise` (`Spec =>
Charges!Spec` under the identity on `users`, `balance` and `paid`) and
`LedgerExplains`. The inductive invariant is
`SettleInv == TypeOK /\ ChargeInv /\ PollInv`. `ChargeInv` ties what a job has paid,
its REFUND rows and the paper it took to its stage and to the status of its row: as
long as a row is unsettled or completed its charge is whole and nothing was
refunded, and a job that took paper stays charged. `PollInv` says that the rows on
the poll's list are still unsettled or gone, each on it once, although the list is
old, and that after the status is written the row's new status says which branch is
due. Neither is inductive without the other: a refund is right because of what the
row was before its status was written, and that is what `PollInv` remembers across
the commit. `LedgerInv` adds that a balance is what every started job has paid or been
given back, and that a job at rest has the transactions for exactly that.

`RechargeRequestsProofs`: `RejectedUncredited`, `SettledForGood`, `LedgerExplains` and
`SavedMessageCleared`. An approval gives the lock up before the status is set;
`ApprovalsShow` says what survives that: only a request that is approved or gone has a
credit whose call is past the setting of the status. The balance is, at every moment,
what was booked and what has moved and is still unbooked (`LedgerInv`). The theorem
about messages has two boxes: `Cleared(r)` holds from the moment the id is saved while
the request is pending and says that its resolution, when it comes, is followed by an
edit of the message.

`RefundRequestsProofs`: `ApprovedMovedMoney` from `BaseInv` and `LedgerExplains` from
`LedgerInv`, which hold however invocations overlap; `OneRefund` and `VerdictsStand`
from `TurnsInv`. For a job whose invocations took turns and lived, it says that one runs
at a time, that the job has one row and one credit at most, and that the credit shows
in the row's status or in an approval that has yet to set it.

`ProductPurchasesProofs`: `RejectedPaidBack`, `SettledOnce`, `LedgerExplains` and
`StockMatches`, from invariants of the same two layers. `StockInv` sums the pieces of
the sale movements of an item, the property those of the purchases that were handed
over from it. The call that handed a purchase over has such a movement, so that the
first sum is never the smaller; for purchases resolved in turn `TurnsInv` says that no
other call has one, and the two are equal once no sale is between its two commits.

`CollectionsProofs`: `NothingLeftUncounted` from `SweepInv` (a row's event belongs to a
sweep that is done, while a sweep that reads rows is idle), and `CashAccounted`, for any
rows and sweeps, from `CashInv` (an event's amount is the sum of the rows it read; as
long as no fault struck, each of them is booked in the same hands and is settled once
the sweep is done). The sum over an administrator's rows splits by the event
that settled them.

`SchedulerProofs`: `PictureStored` from `TableInv` (whatever is neither left to do nor
in hand is in the table; the row in hand is still one of its printer because ids are
unique), and `LevelsKept` from `MarkerInv`. `AlwaysSpaced` and `AlwaysAnnounced`: the
program knows its stamps, the property is about mails; `AlertInv` says that a stamp is
never older than the alert it stands for, and is missing only where an episode has
ended. `RowKeepsItsFile` and `OrphansExplained` from `FileInv`: what an upload under
way has put on its path so far (`Own`), whether a removal still has a row or none is
left (`Removing`), and that processes that have not met are on
different paths (`FilesApart`).

`AdministrationProofs`: `AlwaysCheckedWhereConfigured` from `LoginInv` (the address a
login binds to was set by a request that overlaps it), and `PeopleKeptApart` from
`ImportInv` (whoever gets an account of the name of a person still to be imported
overlaps the import, and whoever it adds takes every spelling of the name off what is
left). `NobodyPaysMore` from `GroupType` (a permit's group and printer
exist): the least of the permits' prices times the pages of the job, which are no more
than the whole file's, rounds to no more than any of them asks. `FinanceIsWhole` from
`ReportInv`: each event left its user with what they had before it and what its kind
moves, so that a period moves the balances by its events, and these are what the six
figures sum, with the two kinds of movement they leave out: balances set directly and
negative recharges. `FiguresAreHonest` from `FigureInv`, which adds that a verdict is
about an earlier, completed job of the same user and amount, one approval for each: the
refunds in a period of jobs completed in it are of different jobs that are counted.
`LogPagesAreWhole`: an entry that has fewer than `offset + limit` newer ones in the whole log has fewer in its source.

Model-checked only: the liveness properties `StatusFollowsCups`, `FailedJobRefunded`,
`CreditedIsApproved`, `CountedIsSettled`, `Synchronised`, `LowIsReported` and
`OldRowsGo`, which need fairness and ENABLED. `CreditedAtMostOnce` is false.

## Plan

Done: the modules above, and proofs of all their safety. Left, in this order:

1. An abstract specification of a request settled once, which `RechargeRequests`,
   `RefundRequests` and `ProductPurchases` implement when calls take turns.
2. The registry of Telegram administrators, whose ids are checked and then inserted,
   and the messages broadcast about a purchase.

## Not modelled

* Tokens, password hashes and the verification of mail addresses: library calls over
  data no property is about. A password is something an account has or not.
* The Telegram bot, which is another program, the rows of Telegram administrators
  (`telegram.py:467-506`, `settings.py:216-326`) and the messages broadcast to them
  about a purchase (`product.py:54-68`). Of the messages only the one about a
  recharge request and the stock alert are modelled.
* The text of mails and messages, PDF rendering and page counting, logging and
  configuration.
* Renaming a group and editing an inventory item, which touch nothing that a
  property reads; the counts of users and jobs, the figures by day and the sheet of
  collection events, which are plain queries; the counts of pages and sheets by printer
  and by user, of which the sheets are known to be off (above).
* Migrations, deployment and the script that seeds a development database: run by
  hand while the server is down.
* CUPS job ids are taken not to be reused.
