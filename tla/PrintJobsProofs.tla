-------------------------- MODULE PrintJobsProofs --------------------------
(***************************************************************************)
(* The safety of PrintJobs for any number of users, documents, printers,   *)
(* requests and faults.                                                    *)
(***************************************************************************)
EXTENDS PrintJobs, SumProofs, TLAPS

-----------------------------------------------------------------------------
(* What the assumptions on the constants say, in the form the steps use.     *)

LEMMA StatusFacts ==
  /\ Transit \subseteq Status /\ Error \subseteq Status /\ "completed" \in Status
  /\ "pending" \in Transit /\ "aborted" \in Error
  /\ "completed" \notin Transit /\ "completed" \notin Error
  /\ "none" \notin Status /\ NoCall \notin Calls
  /\ \A s \in Transit : s \notin Error
  BY PrintJobsAssumption DEF Status

LEMMA PriceFacts == Prices \subseteq Nat /\ 0 \in Prices /\ Costs \subseteq Prices
  BY PrintJobsAssumption DEF Prices

LEMMA CostType ==
  ASSUME TypeOK, NEW c \in Calls PROVE args[c].cost \in Nat /\ args[c] \in ArgsType
PROOF
<1>1. args[c] \in ArgsType
  BY DEF TypeOK
<1>2. args[c].cost \in Prices
  BY <1>1 DEF ArgsType
<1> QED  BY <1>1, <1>2, PriceFacts

\* adjust_balance keeps the balances integers.
LEMMA AdjustType ==
  ASSUME balance \in [Users -> Int], users \subseteq Users, NEW u, NEW delta \in Int,
         NEW enforce, AdjustBalance(u, delta, enforce)
  PROVE  balance' \in [Users -> Int]
  BY DEF AdjustBalance, CanAdjust

LEMMA FaultType ==
  ASSUME faults \in 0 .. MaxFaults, Fault PROVE faults' \in 0 .. MaxFaults
  BY PrintJobsAssumption DEF Fault

-----------------------------------------------------------------------------
(* Type correctness, one lemma for each group of actions.                    *)

LEMMA InitType == Init => TypeOK
PROOF
<1> SUFFICES ASSUME Init PROVE TypeOK
  OBVIOUS
<1>1. balance \in [Users -> Int] /\ paid \in [Calls -> Int] /\ sheets \in [Calls -> Nat]
  BY PrintJobsAssumption DEF Init
<1>2. args \in [Calls -> ArgsType]
  BY PriceFacts DEF Init, NoArgs, ArgsType
<1>3. errs \in [Calls -> 0 .. MaxTries] /\ faults \in 0 .. MaxFaults
  BY PrintJobsAssumption DEF Init
<1>4. poll \in PollType /\ (poll.pc \notin {"idle", "ask"} => poll.job \in Calls)
  BY DEF Init, NoPoll, PollType
<1>5. tx \in [TxTypes -> [Calls -> Nat]]
  BY DEF Init
<1> QED  BY <1>1, <1>2, <1>3, <1>4, <1>5 DEF TypeOK, Init, Stages

LEMMA HandlerType ==
  ASSUME TypeOK, NEW c \in Calls, Handler(c) PROVE TypeOK'
PROOF
<1>0. args[c].cost \in Nat /\ -args[c].cost \in Int
  BY CostType
<1>a. balance \in [Users -> Int] /\ users \subseteq Users /\ paid \in [Calls -> Int]
  BY DEF TypeOK
<1>1. CASE Debit(c)
  <2>1. balance' \in [Users -> Int]
    BY <1>0, <1>1, <1>a, AdjustType DEF Debit
  <2>2. paid' \in [Calls -> Int]
    BY <1>0, <1>1, <1>a DEF Debit
  <2> QED  BY <1>1, <2>1, <2>2 DEF TypeOK, Debit, Goto, Stages, rows
<1>2. CASE DebitRefused(c)
  BY <1>2 DEF TypeOK, DebitRefused, Goto, Stages, rows, acct
<1>3. CASE Submit(c)
  BY <1>3, StatusFacts DEF TypeOK, Submit, Goto, Stages, rows, acct
<1>4. CASE SubmitFails(c)
  BY <1>4, StatusFacts DEF TypeOK, SubmitFails, Goto, Stages, rows, acct
<1>5. CASE UndoDebit(c)
  <2>1. CASE IsReprint(c)
    BY <1>5, <2>1, <1>a DEF TypeOK, UndoDebit, Goto, Stages, rows, acct
  <2>2. CASE ~IsReprint(c)
    <3>1. balance' \in [Users -> Int]
      BY <1>0, <1>5, <2>2, <1>a DEF UndoDebit, AdjustBalance, CanAdjust
    <3>2. paid' \in [Calls -> Int]
      BY <1>0, <1>5, <2>2, <1>a DEF UndoDebit
    <3> QED  BY <1>5, <3>1, <3>2 DEF TypeOK, UndoDebit, Goto, Stages, rows
  <2> QED  BY <2>1, <2>2
<1>6. CASE SaveJob(c)
  BY <1>6, StatusFacts DEF TypeOK, SaveJob, Goto, Stages, rows, acct
<1>7. CASE BookPrint(c)
  <2>1. tx' \in [TxTypes -> [Calls -> Nat]]
    BY <1>7 DEF BookPrint, Booked, TypeOK, TxTypes
  <2> QED  BY <1>7, <2>1 DEF TypeOK, BookPrint, Goto, Stages, rows, acct
<1>8. CASE LinkReprint(c)
  BY <1>8 DEF TypeOK, LinkReprint, Goto, Stages, rows, acct
<1>9. CASE BookReprint(c)
  <2>1. tx' \in [TxTypes -> [Calls -> Nat]]
    BY <1>9 DEF BookReprint, Booked, TypeOK, TxTypes
  <2> QED  BY <1>9, <2>1 DEF TypeOK, BookReprint, Goto, Stages, rows, acct
<1>10. CASE RowGone(c)
  BY <1>10 DEF TypeOK, RowGone, Goto, Stages, rows, acct
<1> QED  BY <1>1, <1>2, <1>3, <1>4, <1>5, <1>6, <1>7, <1>8, <1>9, <1>10 DEF Handler

LEMMA RequestType ==
  ASSUME TypeOK, NEW c \in Calls,
         \/ \E f \in Files, p \in Printers, cost \in Costs : Request(c, f, p, cost)
         \/ \E o \in Calls : FreeReprint(c, o)
         \/ HandlerDies(c) \/ CupsStep(c)
  PROVE  TypeOK'
PROOF
<1>1. CASE \E f \in Files, p \in Printers, cost \in Costs : Request(c, f, p, cost)
  <2>1. PICK f \in Files, p \in Printers, cost \in Costs : Request(c, f, p, cost)
    BY <1>1
  <2>2. Owner[f] \in Users /\ cost \in Prices
    BY PrintJobsAssumption, PriceFacts
  <2>3. args' \in [Calls -> ArgsType]
    BY <2>1, <2>2 DEF Request, TypeOK, ArgsType
  <2> QED  BY <2>1, <2>3 DEF TypeOK, Request, Goto, Stages, rows, acct
<1>2. CASE \E o \in Calls : FreeReprint(c, o)
  <2>1. PICK o \in Calls : FreeReprint(c, o)
    BY <1>2
  <2>2. [args[o] EXCEPT !.cost = 0, !.of = o] \in ArgsType
    BY CostType, PriceFacts DEF ArgsType
  <2>3. args' \in [Calls -> ArgsType]
    BY <2>1, <2>2 DEF FreeReprint, TypeOK
  <2> QED  BY <2>1, <2>3 DEF TypeOK, FreeReprint, Goto, Stages, rows, acct
<1>3. CASE HandlerDies(c)
  BY <1>3, FaultType DEF TypeOK, HandlerDies, Goto, Stages, rows, acct
<1>4. CASE CupsStep(c)
  BY <1>4 DEF TypeOK, CupsStep, rows, acct
<1> QED  BY <1>1, <1>2, <1>3, <1>4

LEMMA DisruptionType ==
  ASSUME TypeOK,
         \/ \E f \in Files : DeleteFile(f)
         \/ \E p \in Printers : DeletePrinter(p)
         \/ \E u \in Users : DeleteUser(u)
         \/ Restart
  PROVE  TypeOK'
PROOF
<1>1. CASE \E f \in Files : DeleteFile(f)
  BY <1>1, FaultType DEF TypeOK, DeleteFile, acct
<1>2. CASE \E p \in Printers : DeletePrinter(p)
  BY <1>2, FaultType DEF TypeOK, DeletePrinter, DropJobs, acct
<1>3. CASE \E u \in Users : DeleteUser(u)
  <2>1. PICK u \in Users : DeleteUser(u)
    BY <1>3
  <2>2. tx' \in [TxTypes -> [Calls -> Nat]]
    BY <2>1 DEF DeleteUser, TypeOK
  <2>3. row' \in [Calls -> Status \cup {"none"}]
    BY <2>1 DEF DeleteUser, DropJobs, TypeOK
  <2> QED  BY <2>1, <2>2, <2>3, FaultType DEF TypeOK, DeleteUser, acct
<1>4. CASE Restart
  <2>1. errs' \in [Calls -> 0 .. MaxTries]
    BY <1>4, PrintJobsAssumption DEF Restart
  <2>2. poll' \in PollType /\ poll'.pc = "idle"
    BY <1>4 DEF Restart, AbandonPoll, NoPoll, PollType
  <2>3. torn' \subseteq Calls
    BY <1>4 DEF Restart, AbandonPoll, TypeOK
  <2>4. pc' \in [Calls -> Stages]
    BY <1>4 DEF Restart, TypeOK, Stages
  <2> QED  BY <1>4, <2>1, <2>2, <2>3, <2>4, FaultType DEF TypeOK, Restart, rows, acct
<1> QED  BY <1>1, <1>2, <1>3, <1>4

LEMMA NextJobType ==
  ASSUME NEW rest \in SUBSET [job : Calls, status : Transit]
  PROVE  NextJob(rest) \in PollType /\ NextJob(rest).pc \in {"idle", "ask"}
  BY DEF NextJob, NoPoll, PollType

\* Every step of the poll leaves a well-formed record of what it is doing.
LEMMA PollRecordType ==
  ASSUME TypeOK, Poll \/ PollDies
  PROVE  poll' \in PollType /\ (poll'.pc \notin {"idle", "ask"} => poll'.job \in Calls)
PROOF
<1>0. poll \in PollType /\ (poll.pc \notin {"idle", "ask"} => poll.job \in Calls)
  BY DEF TypeOK
<1>a. /\ poll.todo \in SUBSET [job : Calls, status : Transit]
      /\ \A t \in poll.todo : poll.todo \ {t} \in SUBSET [job : Calls, status : Transit]
      /\ \A t \in poll.todo : t.job \in Calls /\ cups[t.job] \in Status \cup {"none"}
  BY <1>0 DEF PollType, TypeOK
<1>1. CASE PollStart
  <2> DEFINE found == {[job |-> d, status |-> row[d]] : d \in {e \in Calls : row[e] \in Transit}}
  <2>1. found \in SUBSET [job : Calls, status : Transit]
    OBVIOUS
  <2>2. poll' = [NoPoll EXCEPT !.pc = "ask", !.todo = found]
    BY <1>1 DEF PollStart
  <2> HIDE DEF found
  <2> QED  BY <2>1, <2>2 DEF NoPoll, PollType
<1>2. CASE \E t \in poll.todo : PollAnswered(t)
  BY <1>2, <1>a, NextJobType DEF PollAnswered, PollType
<1>3. CASE \E t \in poll.todo : PollIPPError(t)
  BY <1>3, <1>a, NextJobType, StatusFacts DEF PollIPPError, PollType
<1>4. CASE PollWrite
  BY <1>0, <1>a, <1>4, NextJobType DEF PollWrite, PollType, AfterWrite
<1>5. CASE PollStock \/ PollBook
  BY <1>a, <1>5, NextJobType DEF PollStock, PollBook
<1>6. CASE PollCredit
  BY <1>0, <1>6 DEF PollCredit, PollType
<1>7. CASE PollRowGone \/ PollDies
  BY <1>7 DEF PollRowGone, PollDies, AbandonPoll, NoPoll, PollType
<1> QED  BY <1>1, <1>2, <1>3, <1>4, <1>5, <1>6, <1>7 DEF Poll

LEMMA PollStepType ==
  ASSUME TypeOK, Poll \/ PollDies PROVE TypeOK'
PROOF
<1>0. poll' \in PollType /\ (poll'.pc \notin {"idle", "ask"} => poll'.job \in Calls)
  BY PollRecordType
<1>1. CASE PollStart
  BY <1>0, <1>1 DEF TypeOK, PollStart, rows, acct
<1>2. CASE \E t \in poll.todo : PollAnswered(t)
  BY <1>0, <1>2 DEF TypeOK, PollAnswered, rows, acct
<1>3. CASE \E t \in poll.todo : PollIPPError(t)
  <2>1. PICK t \in poll.todo : PollIPPError(t)
    BY <1>3
  <2>2. t.job \in Calls
    BY DEF TypeOK, PollType
  <2>3. errs' \in [Calls -> 0 .. MaxTries]
    BY <2>1, <2>2, PrintJobsAssumption DEF PollIPPError, TypeOK
  <2> QED  BY <1>0, <2>1, <2>3 DEF TypeOK, PollIPPError, rows, acct
<1>4. CASE PollWrite
  <2>1. poll.new \in Status \cup {"none"}
    BY DEF TypeOK, PollType
  <2>2. row' \in [Calls -> Status \cup {"none"}]
    BY <1>4, <2>1 DEF PollWrite, TypeOK
  <2> QED  BY <1>0, <1>4, <2>2 DEF TypeOK, PollWrite, rows, acct
<1>5. CASE PollStock
  BY <1>0, <1>5 DEF TypeOK, PollStock, rows, acct
<1>6. CASE PollCredit
  <2>1. poll.job \in Calls
    BY <1>6 DEF PollCredit, TypeOK
  <2>2. args[poll.job].cost \in Nat
    BY <2>1, CostType
  <2>3. paid' \in [Calls -> Int]
    BY <1>6, <2>1, <2>2 DEF PollCredit, TypeOK
  <2>4. balance' \in [Users -> Int]
    <3>1. balance \in [Users -> Int] /\ users \subseteq Users
      BY DEF TypeOK
    <3> QED  BY <1>6, <2>2, <3>1 DEF PollCredit, AdjustBalance, CanAdjust
  <2> QED  BY <1>0, <1>6, <2>3, <2>4 DEF TypeOK, PollCredit, rows
<1>7. CASE PollBook
  <2>1. tx' \in [TxTypes -> [Calls -> Nat]]
    BY <1>7 DEF PollBook, Booked, TypeOK, TxTypes
  <2> QED  BY <1>0, <1>7, <2>1 DEF TypeOK, PollBook, rows, acct
<1>8. CASE PollRowGone
  BY <1>0, <1>8 DEF TypeOK, PollRowGone, AbandonPoll, rows, acct
<1>9. CASE PollDies
  BY <1>0, <1>9, FaultType DEF TypeOK, PollDies, AbandonPoll, rows, acct
<1> QED  BY <1>1, <1>2, <1>3, <1>4, <1>5, <1>6, <1>7, <1>8, <1>9 DEF Poll

LEMMA NextType == TypeOK /\ [Next]_vars => TypeOK'
PROOF
<1> SUFFICES ASSUME TypeOK, [Next]_vars PROVE TypeOK'
  OBVIOUS
<1>1. CASE UNCHANGED vars
  BY <1>1 DEF TypeOK, vars, rows, acct
<1>2. CASE Next
  BY <1>2, HandlerType, RequestType, DisruptionType, PollStepType DEF Next
<1> QED  BY <1>1, <1>2

\* Every variable keeps its type: the statuses, program counters and error
\* counts of the handlers, the poll and CUPSManager.
THEOREM TypeCorrect == Spec => []TypeOK
  BY InitType, NextType, PTL DEF Spec

-----------------------------------------------------------------------------
(* The credit limit.  A debit is guarded, everything else adds to a balance. *)

LEMMA LimitNext == TypeOK /\ WithinCreditLimit /\ [Next]_vars => WithinCreditLimit'
PROOF
<1> SUFFICES ASSUME TypeOK, WithinCreditLimit, [Next]_vars PROVE WithinCreditLimit'
  OBVIOUS
<1>0. balance \in [Users -> Int] /\ CreditLimit \in [Users -> Nat] /\ users \subseteq Users
  BY CreditLimitAssumption DEF TypeOK
<1>1. ASSUME users' \subseteq users, UNCHANGED balance PROVE WithinCreditLimit'
  BY <1>1 DEF WithinCreditLimit
<1>2. ASSUME UNCHANGED users, NEW u, NEW delta \in Int, NEW enforce,
             AdjustBalance(u, delta, enforce), enforce \/ delta \in Nat
      PROVE  WithinCreditLimit'
  BY <1>0, <1>2 DEF WithinCreditLimit, AdjustBalance, CanAdjust
<1>3. ASSUME NEW c \in Calls, Debit(c) PROVE WithinCreditLimit'
  <2>1. -args[c].cost \in Int
    BY CostType
  <2> QED  BY <1>2, <1>3, <2>1 DEF Debit, rows
<1>4. ASSUME NEW c \in Calls, UndoDebit(c) PROVE WithinCreditLimit'
  <2>1. args[c].cost \in Nat
    BY CostType
  <2> QED  BY <1>0, <1>1, <1>4, <2>1 DEF UndoDebit, AdjustBalance, CanAdjust,
                                       WithinCreditLimit, rows, acct
<1>5. CASE PollCredit
  <2>1. args[poll.job].cost \in Nat
    BY <1>5, CostType DEF PollCredit, TypeOK
  <2> QED  BY <1>0, <1>5, <2>1 DEF PollCredit, AdjustBalance, CanAdjust,
                                 WithinCreditLimit, rows
<1>6. CASE UNCHANGED <<users, balance>>
  BY <1>1, <1>6
<1>7. ASSUME NEW c \in Calls, Handler(c) PROVE WithinCreditLimit'
  BY <1>3, <1>4, <1>6, <1>7 DEF Handler, DebitRefused, Submit, SubmitFails, SaveJob, BookPrint,
                               LinkReprint, BookReprint, RowGone, rows, acct
<1>8. CASE Poll \/ PollDies
  BY <1>5, <1>6, <1>8 DEF Poll, PollStart, PollAnswered, PollIPPError, PollWrite, PollStock,
                          PollBook, PollRowGone, PollDies, rows, acct
<1>9. ASSUME NEW u \in Users, DeleteUser(u) PROVE WithinCreditLimit'
  BY <1>1, <1>9 DEF DeleteUser, acct
<1>10. CASE UNCHANGED vars
  BY <1>6, <1>10 DEF vars, rows, acct
<1>11. CASE Next
  BY <1>6, <1>7, <1>8, <1>9, <1>11
     DEF Next, Request, FreeReprint, HandlerDies, CupsStep, DeleteFile, DeletePrinter, Restart,
         rows, acct
<1> QED  BY <1>10, <1>11

\* No interleaving of debits and refunds takes a balance below the credit
\* limit: what send_print_job debits is guarded in the UPDATE itself.
THEOREM CreditLimitHeld == Spec => []WithinCreditLimit
PROOF
<1>1. Init => WithinCreditLimit
  BY PrintJobsAssumption DEF Init, WithinCreditLimit
<1> QED  BY <1>1, LimitNext, TypeCorrect, PTL DEF Spec

-----------------------------------------------------------------------------
(* One charge, at most one refund.  What a job's money and paper may be      *)
(* follows from how far its handler has come and from its row; what the poll *)
(* is about to do to a job follows from the row it has just committed.       *)

Late == {"saved", "linked", "done", "dead"}

ChargeOK(c) ==
    /\ IsReprint(c) => args[c].cost = 0
    /\ pc[c] \in {"idle", "checked", "rejected", "failed"} => paid[c] = 0
    /\ pc[c] \in {"ready", "accepted", "refused"} => paid[c] = args[c].cost
    /\ pc[c] \notin Late => row[c] = "none" /\ tx["refund"][c] = 0 /\ sheets[c] = 0
    /\ paid[c] \in {0, args[c].cost}
    /\ row[c] \in Transit \cup {"completed"} => paid[c] = args[c].cost /\ tx["refund"][c] = 0
    /\ row[c] \in Transit \cup Error => sheets[c] = 0
    /\ sheets[c] > 0 => sheets[c] = 1 /\ paid[c] = args[c].cost
    /\ tx["refund"][c] <= 1

ChargeInv == \A c \in Calls : ChargeOK(c)

PollInv ==
    /\ \A t \in poll.todo : pc[t.job] \in Late /\ row[t.job] \in Transit \cup {"none"}
    /\ \A s, t \in poll.todo : s.job = t.job => s = t
    /\ poll.pc \notin {"idle", "ask"} =>
          pc[poll.job] \in Late /\ \A t \in poll.todo : t.job # poll.job
    /\ poll.pc = "write" => row[poll.job] \in Transit \cup {"none"}
    /\ poll.pc = "stock" => row[poll.job] \in {"completed", "none"} /\ sheets[poll.job] = 0
    /\ poll.pc \in {"credit", "book"} => row[poll.job] \in Error \cup {"none"}
    /\ poll.pc = "credit" /\ row[poll.job] # "none" =>
          paid[poll.job] = args[poll.job].cost /\ tx["refund"][poll.job] = 0
    /\ poll.pc = "book" /\ row[poll.job] # "none" =>
          paid[poll.job] = 0 /\ tx["refund"][poll.job] = 0

SettleInv == TypeOK /\ ChargeInv /\ PollInv

\* The types the steps below need.
LEMMA Types ==
  ASSUME TypeOK
  PROVE  /\ pc \in [Calls -> Stages] /\ row \in [Calls -> Status \cup {"none"}]
         /\ paid \in [Calls -> Int] /\ sheets \in [Calls -> Nat]
         /\ tx \in [TxTypes -> [Calls -> Nat]] /\ args \in [Calls -> ArgsType]
         /\ \A c \in Calls : args[c].cost \in Nat
         /\ \A t \in poll.todo : t.job \in Calls /\ t.status \in Transit
         /\ poll.pc \notin {"idle", "ask"} => poll.job \in Calls
PROOF
<1>1. \A c \in Calls : args[c].cost \in Nat
  BY CostType
<1>2. \A t \in poll.todo : t.job \in Calls /\ t.status \in Transit
  BY DEF TypeOK, PollType
<1> QED  BY <1>1, <1>2 DEF TypeOK

LEMMA SettleInit == Init => ChargeInv /\ PollInv
  BY StatusFacts, PriceFacts DEF Init, ChargeInv, ChargeOK, PollInv, NoPoll, NoArgs, Late, TxTypes,
                                 IsReprint

LEMMA HandlerCharge ==
  ASSUME SettleInv, NEW c \in Calls, Handler(c) PROVE ChargeInv'
PROOF
<1>0. TypeOK /\ ChargeInv
  BY DEF SettleInv
<1>a. /\ pc \in [Calls -> Stages] /\ row \in [Calls -> Status \cup {"none"}]
      /\ paid \in [Calls -> Int] /\ tx \in [TxTypes -> [Calls -> Nat]]
      /\ \A d \in Calls : args[d].cost \in Nat
  BY <1>0, Types
<1>1. CASE Debit(c)
  BY <1>0, <1>1, <1>a DEF Debit, ChargeInv, ChargeOK, Late, Goto, IsReprint
<1>2. CASE DebitRefused(c)
  BY <1>0, <1>2, <1>a DEF DebitRefused, ChargeInv, ChargeOK, Late, Goto, acct, IsReprint
<1>8. CASE Submit(c)
  BY <1>0, <1>8, <1>a DEF Submit, ChargeInv, ChargeOK, Late, Goto, acct, IsReprint
<1>9. CASE SubmitFails(c)
  BY <1>0, <1>9, <1>a DEF SubmitFails, ChargeInv, ChargeOK, Late, Goto, acct, IsReprint
<1>7. CASE LinkReprint(c)
  BY <1>0, <1>7, <1>a DEF LinkReprint, ChargeInv, ChargeOK, Late, Goto, acct, IsReprint
<1>3. CASE UndoDebit(c)
  <2>1. /\ pc[c] = "refused" /\ pc'[c] = "failed" /\ \A d \in Calls \ {c} : pc'[d] = pc[d]
        /\ UNCHANGED <<row, tx, sheets, args>>
    BY <1>3, <1>a DEF UndoDebit, Goto
  <2>3. paid[c] = args[c].cost /\ (IsReprint(c) => args[c].cost = 0)
    BY <1>0, <2>1 DEF ChargeInv, ChargeOK
  <2>2. paid'[c] = 0 /\ \A d \in Calls \ {c} : paid'[d] = paid[d]
    <3>1. CASE IsReprint(c)
      BY <1>3, <2>3, <3>1 DEF UndoDebit, acct
    <3>2. CASE ~IsReprint(c)
      BY <1>3, <1>a, <2>3, <3>2 DEF UndoDebit
    <3> QED  BY <3>1, <3>2
  <2>4. ChargeOK(c)'
    BY <1>0, <1>a, <2>1, <2>2, StatusFacts DEF ChargeInv, ChargeOK, Late, IsReprint, Status
  <2>5. ASSUME NEW d \in Calls \ {c} PROVE ChargeOK(d)'
    BY <1>0, <2>1, <2>2 DEF ChargeInv, ChargeOK, IsReprint
  <2> QED  BY <2>4, <2>5 DEF ChargeInv
<1>4. CASE SaveJob(c)
  BY <1>0, <1>4, <1>a, StatusFacts DEF SaveJob, ChargeInv, ChargeOK, Late, Goto, acct, IsReprint
<1>5. CASE BookPrint(c) \/ BookReprint(c)
  BY <1>0, <1>5, <1>a DEF BookPrint, BookReprint, Booked, ChargeInv, ChargeOK, Late, Goto, acct, TxTypes,
                          IsReprint
<1>6. CASE RowGone(c)
  BY <1>0, <1>6, <1>a DEF RowGone, ChargeInv, ChargeOK, Late, Goto, acct, IsReprint
<1> QED  BY <1>1, <1>2, <1>3, <1>4, <1>5, <1>6, <1>7, <1>8, <1>9 DEF Handler

\* A handler moves a job on before its row exists or without touching the row,
\* so nothing the poll found changes under it.
LEMMA HandlerPoll ==
  ASSUME SettleInv, NEW c \in Calls, Handler(c) PROVE PollInv'
PROOF
<1>0. TypeOK /\ ChargeInv /\ PollInv
  BY DEF SettleInv
<1>a. /\ pc \in [Calls -> Stages] /\ row \in [Calls -> Status \cup {"none"}]
      /\ paid \in [Calls -> Int] /\ tx \in [TxTypes -> [Calls -> Nat]]
      /\ \A t \in poll.todo : t.job \in Calls /\ t.status \in Transit
      /\ poll.pc \notin {"idle", "ask"} => poll.job \in Calls
  BY <1>0, Types
<1>1. CASE Debit(c)
  BY <1>0, <1>1, <1>a DEF Debit, PollInv, Late, Goto
<1>2. CASE DebitRefused(c) \/ Submit(c) \/ SubmitFails(c) \/ LinkReprint(c)
  BY <1>0, <1>2, <1>a, ZenonT(60) DEF DebitRefused, Submit, SubmitFails, LinkReprint, PollInv, Late, Goto,
                          acct
<1>3. CASE UndoDebit(c)
  BY <1>0, <1>3, <1>a DEF UndoDebit, PollInv, Late, Goto, acct
<1>4. CASE SaveJob(c)
  BY <1>0, <1>4, <1>a DEF SaveJob, PollInv, Late, Goto, acct
<1>5. CASE BookPrint(c) \/ BookReprint(c)
  BY <1>0, <1>5, <1>a DEF BookPrint, BookReprint, Booked, PollInv, Late, Goto, acct, TxTypes
<1>6. CASE RowGone(c)
  BY <1>0, <1>6, <1>a DEF RowGone, PollInv, Late, Goto, acct
<1> QED  BY <1>1, <1>2, <1>3, <1>4, <1>5, <1>6 DEF Handler

\* A new request, a handler that dies and a CUPS job that moves touch no row
\* and no money.
LEMMA RequestSettle ==
  ASSUME SettleInv, NEW c \in Calls,
         \/ \E f \in Files, p \in Printers, cost \in Costs : Request(c, f, p, cost)
         \/ \E o \in Calls : FreeReprint(c, o)
         \/ HandlerDies(c) \/ CupsStep(c)
  PROVE  ChargeInv' /\ PollInv'
PROOF
<1>0. TypeOK /\ ChargeInv /\ PollInv
  BY DEF SettleInv
<1>a. /\ pc \in [Calls -> Stages] /\ args \in [Calls -> ArgsType]
      /\ \A t \in poll.todo : t.job \in Calls /\ t.status \in Transit
      /\ poll.pc \notin {"idle", "ask"} => poll.job \in Calls
  BY <1>0, Types
<1>1. CASE \E f \in Files, p \in Printers, cost \in Costs : Request(c, f, p, cost)
  <2>1. PICK f \in Files, p \in Printers, cost \in Costs : Request(c, f, p, cost)
    BY <1>1
  <2>2. \A d \in Calls \ {c} : args'[d] = args[d] /\ pc'[d] = pc[d]
    BY <2>1, <1>a DEF Request, Goto
  <2>3. pc[c] = "idle" /\ pc'[c] = "checked" /\ UNCHANGED <<row, tx, poll, sheets, paid>>
    BY <2>1, <1>a DEF Request, Goto, acct
  <2>4. args'[c].of = NoCall
    BY <2>1, <1>a DEF Request
  <2> QED  BY <1>0, <1>a, <2>2, <2>3, <2>4, StatusFacts DEF ChargeInv, ChargeOK, PollInv, Late, IsReprint
<1>2. CASE \E o \in Calls : FreeReprint(c, o)
  <2>1. PICK o \in Calls : FreeReprint(c, o)
    BY <1>2
  <2>2. \A d \in Calls \ {c} : args'[d] = args[d] /\ pc'[d] = pc[d]
    BY <2>1, <1>a DEF FreeReprint, Goto
  <2>3. /\ pc[c] = "idle" /\ pc'[c] = "ready" /\ UNCHANGED <<row, tx, poll, sheets, paid>>
        /\ args'[c].cost = 0
    BY <2>1, <1>a DEF FreeReprint, Goto, acct, ArgsType
  <2> QED  BY <1>0, <1>a, <2>2, <2>3, StatusFacts DEF ChargeInv, ChargeOK, PollInv, Late, IsReprint
<1>3. CASE HandlerDies(c)
  BY <1>0, <1>a, <1>3, StatusFacts DEF HandlerDies, Goto, ChargeInv, ChargeOK, PollInv, Late, IsReprint,
                                       acct
<1>4. CASE CupsStep(c)
  BY <1>0, <1>4 DEF CupsStep, ChargeInv, ChargeOK, PollInv, IsReprint, acct
<1> QED  BY <1>1, <1>2, <1>3, <1>4

\* A deletion only turns rows into "none" and, with the user, transactions
\* into none; a restart only abandons what is under way.
LEMMA DisruptionSettle ==
  ASSUME SettleInv,
         \/ \E f \in Files : DeleteFile(f)
         \/ \E p \in Printers : DeletePrinter(p)
         \/ \E u \in Users : DeleteUser(u)
         \/ Restart
  PROVE  ChargeInv' /\ PollInv'
PROOF
<1>0. TypeOK /\ ChargeInv /\ PollInv
  BY DEF SettleInv
<1>a. /\ pc \in [Calls -> Stages] /\ row \in [Calls -> Status \cup {"none"}]
      /\ sheets \in [Calls -> Nat] /\ tx \in [TxTypes -> [Calls -> Nat]]
      /\ \A t \in poll.todo : t.job \in Calls
      /\ poll.pc \notin {"idle", "ask"} => poll.job \in Calls
  BY <1>0, Types
<1>1. ASSUME UNCHANGED <<args, pc, paid, poll, sheets>>,
             \A c \in Calls : row'[c] \in {row[c], "none"},
             \A c \in Calls : tx'["refund"][c] \in {tx["refund"][c], 0}
      PROVE  ChargeInv' /\ PollInv'
  <2>1. ASSUME NEW c \in Calls PROVE ChargeOK(c)'
    BY <1>0, <1>a, <1>1, StatusFacts DEF ChargeInv, ChargeOK, IsReprint, Status
  <2>2. PollInv'
    BY <1>0, <1>a, <1>1, StatusFacts DEF PollInv
  <2> QED  BY <2>1, <2>2 DEF ChargeInv
<1>2. CASE \E f \in Files : DeleteFile(f)
  BY <1>1, <1>2 DEF DeleteFile, acct
<1>3. CASE \E p \in Printers : DeletePrinter(p)
  BY <1>1, <1>3 DEF DeletePrinter, DropJobs, acct
<1>4. CASE \E u \in Users : DeleteUser(u)
  <2>1. PICK u \in Users : DeleteUser(u)
    BY <1>4
  <2>2. \A c \in Calls : row'[c] \in {row[c], "none"}
    BY <2>1 DEF DeleteUser, DropJobs
  <2>3. \A c \in Calls : tx'["refund"][c] \in {tx["refund"][c], 0}
    BY <2>1 DEF DeleteUser, TxTypes
  <2> QED  BY <1>1, <2>1, <2>2, <2>3 DEF DeleteUser, acct
<1>5. CASE Restart
  <2>1. \A c \in Calls : pc'[c] = pc[c] \/ (pc'[c] = "dead" /\ c \in InFlight)
    BY <1>5, <1>a DEF Restart
  <2>2. UNCHANGED <<args, paid, row, tx, sheets>> /\ poll' = NoPoll
    BY <1>5 DEF Restart, AbandonPoll, acct
  <2>3. ASSUME NEW c \in Calls PROVE ChargeOK(c)'
    BY <1>0, <1>a, <2>1, <2>2 DEF ChargeInv, ChargeOK, Late, IsReprint
  <2>4. PollInv'
    BY <2>2 DEF PollInv, NoPoll
  <2> QED  BY <2>3, <2>4 DEF ChargeInv
<1> QED  BY <1>2, <1>3, <1>4, <1>5

\* A job the poll has finished with leaves its list as it was.
LEMMA NextJobPoll ==
  ASSUME NEW rest
  PROVE  NextJob(rest).pc \in {"idle", "ask"} /\ NextJob(rest).todo = rest
  BY DEF NextJob, NoPoll

LEMMA PollSettle ==
  ASSUME SettleInv, Poll \/ PollDies PROVE ChargeInv' /\ PollInv'
PROOF
<1>0. TypeOK /\ ChargeInv /\ PollInv
  BY DEF SettleInv
<1>a. /\ pc \in [Calls -> Stages] /\ row \in [Calls -> Status \cup {"none"}]
      /\ paid \in [Calls -> Int] /\ sheets \in [Calls -> Nat]
      /\ tx \in [TxTypes -> [Calls -> Nat]]
      /\ \A c \in Calls : args[c].cost \in Nat
      /\ \A t \in poll.todo : t.job \in Calls /\ t.status \in Transit
      /\ poll.pc \notin {"idle", "ask"} => poll.job \in Calls
  BY <1>0, Types
<1>b. ASSUME UNCHANGED <<args, pc, paid, row, tx, sheets>> PROVE ChargeInv'
  BY <1>0, <1>b DEF ChargeInv, ChargeOK, IsReprint
<1>d. ASSUME poll'.pc \in {"idle", "ask"}, poll'.todo \subseteq poll.todo, UNCHANGED pc,
             \A t \in poll.todo : row'[t.job] = row[t.job]
      PROVE  PollInv'
  BY <1>0, <1>d DEF PollInv
<1>c. poll \in PollType
  BY <1>0 DEF TypeOK
<1>1. CASE PollStart
  <2> DEFINE found == {[job |-> d, status |-> row[d]] : d \in {e \in Calls : row[e] \in Transit}}
  <2>1. \A s \in found : /\ s.job \in Calls /\ row[s.job] \in Transit
                         /\ \A t \in found : s.job = t.job => s = t
    OBVIOUS
  <2>2. poll'.pc = "ask" /\ poll'.todo = found
    BY <1>1 DEF PollStart, NoPoll
  <2>3. UNCHANGED <<args, pc, paid, row, tx, sheets>>
    BY <1>1 DEF PollStart, acct
  <2> HIDE DEF found
  <2>4. \A s \in found : pc[s.job] \in Late
    BY <1>0, <2>1, StatusFacts DEF ChargeInv, ChargeOK, Status
  <2> QED  BY <1>b, <2>1, <2>2, <2>3, <2>4 DEF PollInv
<1>2. CASE \E t \in poll.todo : PollAnswered(t) \/ PollIPPError(t)
  <2>1. PICK t \in poll.todo : PollAnswered(t) \/ PollIPPError(t)
    BY <1>2
  <2>2. UNCHANGED <<args, pc, paid, row, tx, sheets>>
    BY <2>1 DEF PollAnswered, PollIPPError, acct
  <2>3. /\ poll'.todo = poll.todo \ {t}
        /\ poll'.pc \in {"idle", "ask"} \/ (poll'.pc = "write" /\ poll'.job = t.job)
    BY <2>1, NextJobPoll DEF PollAnswered, PollIPPError
  <2> QED  BY <1>0, <1>b, <2>2, <2>3 DEF PollInv
<1>3. CASE PollWrite
  <2>1. ChargeInv'
    BY <1>0, <1>a, <1>3 DEF PollWrite, PollInv, ChargeInv, ChargeOK, IsReprint, acct
  <2>2. CASE row[poll.job] = "none"
    <3>1. poll' = NextJob(poll.todo) /\ UNCHANGED <<pc, row>>
      BY <1>3, <2>2 DEF PollWrite
    <3>2. poll'.pc \in {"idle", "ask"} /\ poll'.todo = poll.todo
      BY <3>1, NextJobPoll
    <3> QED  BY <1>d, <2>1, <3>1, <3>2
  <2>3. CASE row[poll.job] # "none"
    <3>1. /\ poll.job \in Calls /\ row[poll.job] \in Transit
          /\ row' = [row EXCEPT ![poll.job] = poll.new]
          /\ UNCHANGED <<args, pc, paid, tx, sheets>>
      BY <1>0, <1>a, <1>3, <2>3 DEF PollWrite, PollInv, acct
    <3>2. /\ paid[poll.job] = args[poll.job].cost /\ tx["refund"][poll.job] = 0
          /\ sheets[poll.job] = 0 /\ row'[poll.job] = poll.new
          /\ \A c \in Calls \ {poll.job} : row'[c] = row[c]
      BY <1>0, <1>a, <3>1 DEF ChargeInv, ChargeOK
    <3>3. CASE AfterWrite = "ask"
      <4>1. poll'.pc \in {"idle", "ask"} /\ poll'.todo = poll.todo
        BY <1>3, <2>3, <3>3, NextJobPoll DEF PollWrite
      <4>2. \A t \in poll.todo : t.job # poll.job
        BY <1>0, <1>3 DEF PollInv, PollWrite
      <4>3. \A t \in poll.todo : row'[t.job] = row[t.job]
        BY <1>a, <3>2, <4>2
      <4> QED  BY <1>d, <2>1, <3>1, <4>1, <4>3
    <3>4. CASE AfterWrite # "ask"
      <4>1. poll' = [poll EXCEPT !.pc = AfterWrite]
        BY <1>3, <2>3, <3>4 DEF PollWrite
      <4>2. /\ poll'.pc = AfterWrite /\ poll'.todo = poll.todo /\ poll'.job = poll.job
            /\ AfterWrite \in {"stock", "credit"}
            /\ AfterWrite = "stock" => poll.new = "completed"
            /\ AfterWrite = "credit" => poll.new \in Error
        BY <1>c, <3>4, <4>1 DEF PollType, AfterWrite
      <4>3. pc[poll.job] \in Late /\ \A t \in poll.todo : t.job # poll.job
        BY <1>0, <1>3 DEF PollInv, PollWrite
      <4>4. \A t \in poll.todo : row'[t.job] = row[t.job] /\ pc'[t.job] = pc[t.job]
        BY <1>a, <3>1, <3>2, <4>3
      <4>5. pc'[poll.job] \in Late
        BY <3>1, <4>3
      <4>6. poll'.pc = "stock" => row'[poll.job] = "completed" /\ sheets'[poll.job] = 0
        BY <3>1, <3>2, <4>2
      <4>7. poll'.pc = "credit" => /\ row'[poll.job] \in Error
                                   /\ paid'[poll.job] = args'[poll.job].cost
                                   /\ tx'["refund"][poll.job] = 0
        BY <3>1, <3>2, <4>2
      <4>8. PollInv'
        BY <1>0, <4>2, <4>3, <4>4, <4>5, <4>6, <4>7 DEF PollInv
      <4> QED  BY <2>1, <4>8
    <3> QED  BY <3>3, <3>4
  <2> QED  BY <2>1, <2>2, <2>3
<1>4. CASE PollStock
  <2>0. PICK j \in Calls : j = poll.job
    BY <1>a, <1>4 DEF PollStock
  <2>1. /\ row[j] = "completed" /\ sheets[j] = 0
        /\ UNCHANGED <<args, pc, paid, row, tx>> /\ sheets'[j] = 1
        /\ \A c \in Calls \ {j} : sheets'[c] = sheets[c]
    BY <1>0, <1>a, <1>4, <2>0 DEF PollStock, PollInv, acct
  <2>2. ChargeOK(j)'
    BY <1>0, <1>a, <2>1, StatusFacts DEF ChargeInv, ChargeOK, IsReprint
  <2>3. ASSUME NEW c \in Calls \ {j} PROVE ChargeOK(c)'
    BY <1>0, <2>1 DEF ChargeInv, ChargeOK, IsReprint
  <2>4. PollInv'
    BY <1>d, <1>4, NextJobPoll DEF PollStock
  <2> QED  BY <2>2, <2>3, <2>4 DEF ChargeInv
<1>5. CASE PollCredit
  <2>0. PICK j \in Calls : j = poll.job
    BY <1>a, <1>5 DEF PollCredit
  <2>1. /\ row[j] \in Error
        /\ paid[j] = args[j].cost /\ tx["refund"][j] = 0
        /\ UNCHANGED <<args, pc, row, tx, sheets>>
        /\ poll'.pc = "book" /\ poll'.todo = poll.todo /\ poll'.job = poll.job
    BY <1>0, <1>a, <1>c, <1>5, <2>0 DEF PollCredit, PollInv, PollType
  <2>2. paid'[j] = 0 /\ \A c \in Calls \ {j} : paid'[c] = paid[c]
    BY <1>a, <1>5, <2>0, <2>1 DEF PollCredit
  <2>3. ChargeOK(j)'
    BY <1>0, <1>a, <2>1, <2>2, StatusFacts DEF ChargeInv, ChargeOK, IsReprint, Late
  <2>4. ASSUME NEW c \in Calls \ {j} PROVE ChargeOK(c)'
    BY <1>0, <2>1, <2>2 DEF ChargeInv, ChargeOK, IsReprint
  <2>5. PollInv'
    BY <1>0, <1>a, <1>5, <2>0, <2>1, <2>2 DEF PollCredit, PollInv
  <2> QED  BY <2>3, <2>4, <2>5 DEF ChargeInv
<1>6. CASE PollBook
  <2>0. PICK j \in Calls : j = poll.job
    BY <1>a, <1>6 DEF PollBook
  <2>1. /\ row[j] \in Error
        /\ tx["refund"][j] = 0 /\ tx'["refund"][j] = 1
        /\ \A c \in Calls \ {j} : tx'["refund"][c] = tx["refund"][c]
        /\ UNCHANGED <<args, pc, paid, row, sheets>>
    BY <1>0, <1>a, <1>6, <2>0 DEF PollBook, Booked, PollInv, TxTypes, acct
  <2>2. ChargeOK(j)'
    BY <1>0, <2>1, StatusFacts DEF ChargeInv, ChargeOK, IsReprint
  <2>3. ASSUME NEW c \in Calls \ {j} PROVE ChargeOK(c)'
    BY <1>0, <2>1 DEF ChargeInv, ChargeOK, IsReprint
  <2>4. PollInv'
    BY <1>d, <1>6, NextJobPoll DEF PollBook
  <2> QED  BY <2>2, <2>3, <2>4 DEF ChargeInv
<1>7. CASE PollRowGone \/ PollDies
  BY <1>7, <1>b DEF PollRowGone, PollDies, AbandonPoll, PollInv, NoPoll, acct
<1> QED  BY <1>1, <1>2, <1>3, <1>4, <1>5, <1>6, <1>7 DEF Poll

LEMMA SettleNext == SettleInv /\ [Next]_vars => SettleInv'
PROOF
<1> SUFFICES ASSUME SettleInv, [Next]_vars PROVE ChargeInv' /\ PollInv'
  BY NextType DEF SettleInv
<1>1. CASE UNCHANGED vars
  BY <1>1 DEF SettleInv, ChargeInv, ChargeOK, PollInv, IsReprint, vars, acct
<1>2. CASE Next
  BY <1>2, HandlerCharge, HandlerPoll, RequestSettle, DisruptionSettle, PollSettle DEF Next
<1> QED  BY <1>1, <1>2

LEMMA SettleAlways == Spec => []SettleInv
PROOF
<1>1. Init => SettleInv
  BY InitType, SettleInit DEF SettleInv
<1> QED  BY <1>1, SettleNext, PTL DEF Spec

\* Whatever repeats, overlaps or restarts, a job gives back at most what it was
\* charged and has at most one REFUND row (update_jobs_sync refunds only after
\* it has moved the row out of the transitory statuses it selects by).
THEOREM RefundOnce == Spec => []RefundedAtMostOnce
PROOF
<1>1. SettleInv => RefundedAtMostOnce
  BY DEF SettleInv, ChargeInv, ChargeOK, RefundedAtMostOnce
<1> QED  BY <1>1, SettleAlways, PTL

\* A completed job is paid for, and a job that used paper keeps its charge.
THEOREM CompletedPaid == Spec => []CompletedIsPaid
PROOF
<1>1. SettleInv => CompletedIsPaid
  BY DEF SettleInv, ChargeInv, ChargeOK, CompletedIsPaid
<1> QED  BY <1>1, SettleAlways, PTL

\* The poll writes only to a row that was transitory when it listed it and
\* still is, so a final status is final.
THEOREM FinalStatus == Spec => FinalStatusAbsorbing
PROOF
<1>1. SettleInv /\ [Next]_vars =>
         [\A c \in Calls : row[c] \in Status \ Transit => row'[c] \in {row[c], "none"}]_vars
  <2> SUFFICES ASSUME SettleInv, Next, NEW c \in Calls, row[c] \in Status \ Transit
               PROVE  row'[c] \in {row[c], "none"}
    BY DEF FinalStatusAbsorbing
  <2>0. TypeOK /\ ChargeInv /\ PollInv /\ row \in [Calls -> Status \cup {"none"}]
    BY Types DEF SettleInv
  <2>1. CASE UNCHANGED row
    BY <2>1
  <2>2. ASSUME NEW d \in Calls, SaveJob(d) PROVE row'[c] \in {row[c], "none"}
    BY <2>0, <2>2, StatusFacts DEF SaveJob, ChargeInv, ChargeOK, Late
  <2>3. CASE PollWrite
    BY <2>0, <2>3, StatusFacts DEF PollWrite, PollInv
  <2>4. CASE \E p \in Printers : DeletePrinter(p)
    BY <2>4 DEF DeletePrinter, DropJobs
  <2>5. CASE \E u \in Users : DeleteUser(u)
    BY <2>5 DEF DeleteUser, DropJobs
  <2>6. ASSUME NEW d \in Calls, Handler(d) PROVE row'[c] \in {row[c], "none"}
    BY <2>1, <2>2, <2>6 DEF Handler, Debit, DebitRefused, Submit, SubmitFails, UndoDebit,
                            BookPrint, LinkReprint, BookReprint, RowGone
  <2>7. CASE Poll \/ PollDies
    BY <2>1, <2>3, <2>7 DEF Poll, PollStart, PollAnswered, PollIPPError, PollStock, PollCredit,
                            PollBook, PollRowGone, PollDies
  <2> QED  BY <2>1, <2>4, <2>5, <2>6, <2>7
           DEF Next, Request, FreeReprint, HandlerDies, CupsStep, DeleteFile, Restart
<1> QED  BY <1>1, SettleAlways, PTL DEF Spec, FinalStatusAbsorbing

-----------------------------------------------------------------------------
(* The refinement.  A debit charges a job that has no charge; the undo and   *)
(* the poll give back the whole charge; nothing else moves a balance.        *)

LEMMA ChargesStep ==
  ASSUME SettleInv, [Next]_vars PROVE [C!Next]_<<users, balance, paid>>
PROOF
<1>0. TypeOK /\ ChargeInv /\ PollInv
  BY DEF SettleInv
<1>a. /\ pc \in [Calls -> Stages] /\ users \subseteq Users
      /\ \A c \in Calls : args[c].cost \in Prices
      /\ poll.pc \notin {"idle", "ask"} => poll.job \in Calls
  BY <1>0, CostType DEF ArgsType, TypeOK
<1>b. \A c \in Calls : paid[c] \in Int /\ args[c].cost \in Nat
  BY <1>0, Types
<1>1. CASE UNCHANGED <<users, balance, paid>>
  BY <1>1
<1>2. ASSUME NEW c \in Calls, Debit(c) PROVE C!Next
  <2>1. args[c].user \in users /\ users' = users /\ paid[c] = 0 /\ args[c].cost \in Prices
    BY <1>0, <1>a, <1>2 DEF Debit, AdjustBalance, CanAdjust, ChargeInv, ChargeOK, rows
  <2>2. paid' = [paid EXCEPT ![c] = args[c].cost]
    <3>1. paid[c] + args[c].cost = args[c].cost
      BY <1>b, <2>1
    <3> QED  BY <1>2, <3>1 DEF Debit
  <2>3. C!Charge(c, args[c].user, args[c].cost)
    BY <1>2, <2>1, <2>2
       DEF C!Charge, C!AdjustBalance, C!CanAdjust, Debit, AdjustBalance, CanAdjust
  <2> QED  BY <1>a, <2>1, <2>3 DEF C!Next
<1>3. ASSUME NEW c \in Calls, AdjustBalance(args[c].user, args[c].cost, FALSE),
             paid[c] = args[c].cost, paid' = [paid EXCEPT ![c] = @ - args[c].cost],
             users' = users
      PROVE  C!Next
  <2>1. args[c].user \in users
    BY <1>3 DEF AdjustBalance, CanAdjust
  <2>2. paid' = [paid EXCEPT ![c] = 0]
    <3>1. paid[c] - args[c].cost = 0
      BY <1>b, <1>3
    <3> QED  BY <1>3, <3>1
  <2>3. C!GiveBack(c, args[c].user)
    BY <1>3, <2>1, <2>2 DEF C!GiveBack, C!AdjustBalance, C!CanAdjust, AdjustBalance, CanAdjust
  <2> QED  BY <1>a, <2>1, <2>3 DEF C!Next
<1>4. ASSUME NEW c \in Calls, UndoDebit(c) PROVE [C!Next]_<<users, balance, paid>>
  <2>1. paid[c] = args[c].cost
    BY <1>0, <1>4 DEF UndoDebit, ChargeInv, ChargeOK
  <2> QED  BY <1>3, <1>4, <2>1 DEF UndoDebit, rows, acct
<1>5. CASE PollCredit
  <2>1. PICK j \in Calls : j = poll.job
    BY <1>a, <1>5 DEF PollCredit
  <2>2. paid[j] = args[j].cost
    BY <1>0, <1>5, <2>1 DEF PollCredit, PollInv
  <2> QED  BY <1>3, <1>5, <2>1, <2>2 DEF PollCredit, rows
<1>6. ASSUME NEW u \in Users, DeleteUser(u) PROVE C!Next
  <2>1. C!Close(u)
    BY <1>6 DEF C!Close, DeleteUser, acct
  <2> QED  BY <2>1 DEF C!Next
<1>7. ASSUME NEW c \in Calls, Handler(c) PROVE [C!Next]_<<users, balance, paid>>
  BY <1>1, <1>2, <1>4, <1>7 DEF Handler, DebitRefused, Submit, SubmitFails, SaveJob, BookPrint,
                               LinkReprint, BookReprint, RowGone, rows, acct
<1>8. CASE Poll \/ PollDies
  BY <1>1, <1>5, <1>8 DEF Poll, PollStart, PollAnswered, PollIPPError, PollWrite, PollStock,
                          PollBook, PollRowGone, PollDies, rows, acct
<1>9. CASE UNCHANGED vars
  BY <1>1, <1>9 DEF vars, rows, acct
<1>10. CASE Next
  BY <1>1, <1>6, <1>7, <1>8, <1>10
     DEF Next, Request, FreeReprint, HandlerDies, CupsStep, DeleteFile, DeletePrinter, Restart,
         rows, acct
<1> QED  BY <1>9, <1>10

\* Requests, polls, deletions and restarts in any order keep the promise of
\* module Charges: balances move by charging a job within the credit limit and
\* by giving a charge back whole, once.
THEOREM KeepsChargesPromise == Spec => ImplementsCharges
PROOF
<1>1. Init => C!Init
  BY DEF Init, C!Init
<1>2. SettleInv /\ [Next]_vars => [C!Next]_<<users, balance, paid>>
  BY ChargesStep
<1> QED  BY <1>1, <1>2, SettleAlways, PTL DEF Spec, ImplementsCharges, C!Spec
-----------------------------------------------------------------------------
(* The ledger.  A user's balance is what it was less what the user's jobs    *)
(* are charged with now, at every moment; a job whose handler and poll have  *)
(* come to rest has the transactions that say what it is charged with.       *)

Started  == {c \in Calls : pc[c] # "idle"}
Given    == [c \in Calls |-> 0 - paid[c]]

StartedInv == IsFiniteSet(Started) /\ \A c \in Calls : pc[c] = "idle" => args[c] = NoArgs
BalanceInv == \A u \in Users : balance[u] = InitBalance[u] + SumFunctionOnSet(Given, JobsOf(u))

BookedOK(c) ==
    /\ pc[c] = "linked" => IsReprint(c)
    /\ pc[c] \notin {"done", "dead"} => tx["print"][c] = 0
    /\ args[c].user \in users =>
          /\ pc[c] = "done" /\ ~IsReprint(c) => tx["print"][c] = 1
          /\ (/\ pc[c] \in {"saved", "linked", "done"} /\ c \notin torn
              /\ ~(poll.pc = "book" /\ poll.job = c))
             => \/ tx["refund"][c] = 0 /\ paid[c] = args[c].cost
                \/ tx["refund"][c] = 1 /\ paid[c] = 0

BookedInv == \A c \in Calls : BookedOK(c)
LedgerInv == StartedInv /\ BalanceInv /\ BookedInv

LEMMA JobsFacts ==
  ASSUME TypeOK, StartedInv, NEW u \in Users
  PROVE  /\ JobsOf(u) \subseteq Started /\ IsFiniteSet(JobsOf(u))
         /\ JobsOf(u) \subseteq Calls /\ Ints(Given, JobsOf(u))
PROOF
<1>1. NoCall \notin Users
  BY PrintJobsAssumption
<1>2. JobsOf(u) \subseteq Started
  BY <1>1 DEF JobsOf, Started, StartedInv, NoArgs
<1>3. IsFiniteSet(JobsOf(u))
  BY <1>2, FS_Subset DEF StartedInv
<1>4. JobsOf(u) \subseteq Calls /\ \A c \in Calls : paid[c] \in Int
  BY Types DEF JobsOf
<1> QED  BY <1>2, <1>3, <1>4 DEF Ints, Given

\* adjust_balance and what is noted of it keep the books.
LEMMA MoveBalance ==
  ASSUME TypeOK, StartedInv, BalanceInv, NEW c \in Calls, NEW d \in Int, NEW enforce,
         AdjustBalance(args[c].user, d, enforce), paid' = [paid EXCEPT ![c] = @ - d],
         args' = args
  PROVE  BalanceInv'
PROOF
<1>0. /\ balance \in [Users -> Int] /\ users \subseteq Users /\ paid \in [Calls -> Int]
      /\ InitBalance \in [Users -> Int]
  BY PrintJobsAssumption DEF TypeOK
<1>1. /\ args[c].user \in Users
      /\ balance' = [balance EXCEPT ![args[c].user] = @ + d]
  BY <1>0 DEF AdjustBalance, CanAdjust
<1>2. /\ Given'[c] = Given[c] + d /\ Given'[c] \in Int /\ Given[c] \in Int
      /\ \A e \in Calls : e # c => Given'[e] = Given[e]
  BY <1>0 DEF Given
<1>3. ASSUME NEW u \in Users
      PROVE  balance'[u] = InitBalance[u] + SumFunctionOnSet(Given', JobsOf(u)')
  <2>1. JobsOf(u)' = JobsOf(u)
    BY DEF JobsOf
  <2>2. IsFiniteSet(JobsOf(u)) /\ JobsOf(u) \subseteq Calls /\ Ints(Given, JobsOf(u))
    BY JobsFacts
  <2>3. balance[u] = InitBalance[u] + SumFunctionOnSet(Given, JobsOf(u))
    BY DEF BalanceInv
  <2>4. SumFunctionOnSet(Given, JobsOf(u)) \in Int
    BY <2>2, SumType
  <2>5. CASE u = args[c].user
    <3>1. c \in JobsOf(u)
      BY <2>5 DEF JobsOf
    <3>2. SumFunctionOnSet(Given', JobsOf(u)) = SumFunctionOnSet(Given, JobsOf(u)) + Given'[c] - Given[c]
      BY <1>2, <2>2, <3>1, SumChange
    <3>3. balance'[u] = balance[u] + d /\ balance[u] \in Int /\ InitBalance[u] \in Int
      BY <1>0, <1>1, <2>5
    <3> QED  BY <1>2, <2>1, <2>3, <2>4, <3>2, <3>3
  <2>6. CASE u # args[c].user
    <3>1. \A e \in JobsOf(u) : Given[e] = Given'[e]
      BY <1>2, <2>6 DEF JobsOf
    <3>2. SumFunctionOnSet(Given, JobsOf(u)) = SumFunctionOnSet(Given', JobsOf(u))
      BY <2>2, <3>1, SumEqual
    <3> QED  BY <1>0, <1>1, <2>1, <2>3, <2>6, <3>2
  <2> QED  BY <2>5, <2>6
<1> QED  BY <1>3 DEF BalanceInv

\* A new job joins its user's with nothing charged yet.
LEMMA NewJobBalance ==
  ASSUME TypeOK, StartedInv, BalanceInv, NEW c \in Calls, pc[c] = "idle", paid[c] = 0,
         NEW a, args' = [args EXCEPT ![c] = a], UNCHANGED <<balance, paid>>
  PROVE  BalanceInv'
PROOF
<1>1. Given' = Given /\ args \in [Calls -> ArgsType] /\ NoCall \notin Users
  BY PrintJobsAssumption DEF Given, TypeOK
<1>4. Given[c] = 0
  BY DEF Given
<1>2. args[c].user = NoCall
  BY DEF StartedInv, NoArgs
<1>3. ASSUME NEW u \in Users
      PROVE  balance'[u] = InitBalance[u] + SumFunctionOnSet(Given', JobsOf(u)')
  <2>1. IsFiniteSet(JobsOf(u)) /\ JobsOf(u) \subseteq Calls /\ Ints(Given, JobsOf(u))
    BY JobsFacts
  <2>2. c \notin JobsOf(u)
    BY <1>1, <1>2 DEF JobsOf
  <2>3. balance[u] = InitBalance[u] + SumFunctionOnSet(Given, JobsOf(u))
    BY DEF BalanceInv
  <2>4. CASE a.user = u
    <3>1. JobsOf(u)' = JobsOf(u) \cup {c}
      BY <1>1, <2>4 DEF JobsOf
    <3>2. SumFunctionOnSet(Given, JobsOf(u) \cup {c}) = SumFunctionOnSet(Given, JobsOf(u)) + Given[c]
      <4>1. Given[c] \in Int /\ \A e \in JobsOf(u) : Given[e] = Given[e]
        BY <1>4
      <4> QED  BY <2>1, <2>2, <4>1, SumAdd, SMTT(30)
    <3>3. SumFunctionOnSet(Given, JobsOf(u)) \in Int
      BY <2>1, SumType
    <3> QED  BY <1>1, <1>4, <2>3, <3>1, <3>2, <3>3
  <2>5. CASE a.user # u
    <3>1. JobsOf(u)' = JobsOf(u)
      BY <1>1, <2>2, <2>5 DEF JobsOf
    <3> QED  BY <1>1, <2>3, <3>1
  <2> QED  BY <2>4, <2>5
<1> QED  BY <1>3 DEF BalanceInv

LEMMA BalanceStays ==
  ASSUME BalanceInv, UNCHANGED <<balance, paid, args>> PROVE BalanceInv'
  BY DEF BalanceInv, Given, JobsOf

LEMMA BalanceStep ==
  ASSUME SettleInv, LedgerInv, [Next]_vars PROVE BalanceInv'
PROOF
<1>0. /\ TypeOK /\ ChargeInv /\ PollInv /\ StartedInv /\ BalanceInv
      /\ \A c \in Calls : paid[c] \in Int /\ args[c].cost \in Nat
      /\ poll.pc \notin {"idle", "ask"} => poll.job \in Calls
  BY Types DEF SettleInv, LedgerInv
<1>1. CASE UNCHANGED <<balance, paid, args>>
  BY <1>0, <1>1, BalanceStays
<1>2. ASSUME NEW c \in Calls, Debit(c) PROVE BalanceInv'
  <2> DEFINE d == -args[c].cost
  <2>1. d \in Int /\ paid[c] + args[c].cost = paid[c] - d
    BY <1>0
  <2>2. paid' = [paid EXCEPT ![c] = @ - d] /\ AdjustBalance(args[c].user, d, TRUE) /\ args' = args
    BY <1>2, <2>1 DEF Debit
  <2> HIDE DEF d
  <2> QED  BY <1>0, <2>1, <2>2, MoveBalance
<1>3. ASSUME NEW c \in Calls, UndoDebit(c) PROVE BalanceInv'
  <2>1. args[c].cost \in Int /\ args' = args
    BY <1>0, <1>3 DEF UndoDebit
  <2>2. CASE IsReprint(c)
    BY <1>1, <1>3, <2>1, <2>2 DEF UndoDebit, acct
  <2>3. CASE ~IsReprint(c)
    <3>1. AdjustBalance(args[c].user, args[c].cost, FALSE) /\ paid' = [paid EXCEPT ![c] = @ - args[c].cost]
      BY <1>3, <2>3 DEF UndoDebit
    <3> QED  BY <1>0, <2>1, <3>1, MoveBalance
  <2> QED  BY <2>2, <2>3
<1>4. CASE PollCredit
  <2>1. PICK j \in Calls : j = poll.job
    BY <1>0, <1>4 DEF PollCredit
  <2>2. /\ args[j].cost \in Int /\ args' = args
        /\ paid' = [paid EXCEPT ![j] = @ - args[j].cost]
    BY <1>0, <1>4, <2>1 DEF PollCredit
  <2>3. AdjustBalance(args[j].user, args[j].cost, FALSE)
    BY <1>4, <2>1 DEF PollCredit, AdjustBalance, CanAdjust
  <2> QED  BY <1>0, <2>2, <2>3, MoveBalance
<1>5. ASSUME NEW c \in Calls, NEW f \in Files, NEW p \in Printers, NEW cost \in Costs,
             Request(c, f, p, cost)
      PROVE  BalanceInv'
  <2>1. pc[c] = "idle" /\ paid[c] = 0 /\ UNCHANGED <<balance, paid>>
    BY <1>0, <1>5 DEF Request, ChargeInv, ChargeOK, acct
  <2> QED  BY <1>0, <1>5, <2>1, NewJobBalance DEF Request
<1>6. ASSUME NEW c \in Calls, NEW o \in Calls, FreeReprint(c, o) PROVE BalanceInv'
  <2>1. pc[c] = "idle" /\ paid[c] = 0 /\ UNCHANGED <<balance, paid>>
    BY <1>0, <1>6 DEF FreeReprint, ChargeInv, ChargeOK, acct
  <2> QED  BY <1>0, <1>6, <2>1, NewJobBalance DEF FreeReprint
<1>7. ASSUME NEW c \in Calls, Handler(c) PROVE BalanceInv'
  BY <1>1, <1>2, <1>3, <1>7 DEF Handler, DebitRefused, Submit, SubmitFails, SaveJob, BookPrint,
                               LinkReprint, BookReprint, RowGone, acct
<1>8. CASE Poll \/ PollDies
  BY <1>1, <1>4, <1>8 DEF Poll, PollStart, PollAnswered, PollIPPError, PollWrite, PollStock,
                          PollBook, PollRowGone, PollDies, acct
<1>9. CASE UNCHANGED vars
  BY <1>1, <1>9 DEF vars, acct
<1>10. CASE Next
  BY <1>1, <1>5, <1>6, <1>7, <1>8, <1>10
     DEF Next, HandlerDies, CupsStep, DeleteFile, DeletePrinter, DeleteUser, Restart, acct
<1> QED  BY <1>9, <1>10
LEMMA StartedStep ==
  ASSUME TypeOK, StartedInv, [Next]_vars PROVE StartedInv'
PROOF
<1>0. pc \in [Calls -> Stages] /\ args \in [Calls -> ArgsType]
  BY DEF TypeOK
<1>1. ASSUME \A c \in Calls : pc'[c] = "idle" <=> pc[c] = "idle", args' = args PROVE StartedInv'
  <2>1. Started' = Started
    BY <1>1 DEF Started
  <2> QED  BY <1>1, <2>1 DEF StartedInv
<1>2. ASSUME NEW c \in Calls, NEW a, NEW to, to # "idle",
             args' = [args EXCEPT ![c] = a], Goto(c, to)
      PROVE  StartedInv'
  <2>1. Started' = Started \cup {c}
    BY <1>0, <1>2 DEF Started, Goto
  <2>2. IsFiniteSet(Started \cup {c})
    BY FS_AddElement DEF StartedInv
  <2> QED  BY <1>0, <1>2, <2>1, <2>2 DEF StartedInv, Goto
<1>3. ASSUME NEW c \in Calls, NEW f \in Files, NEW p \in Printers, NEW cost \in Costs,
             Request(c, f, p, cost)
      PROVE  StartedInv'
  BY <1>2, <1>3 DEF Request
<1>4. ASSUME NEW c \in Calls, NEW o \in Calls, FreeReprint(c, o) PROVE StartedInv'
  BY <1>2, <1>4 DEF FreeReprint
<1>5. ASSUME NEW c \in Calls, NEW to, to # "idle", pc[c] # "idle", Goto(c, to), args' = args
      PROVE  StartedInv'
  BY <1>0, <1>1, <1>5 DEF Goto
<1>6. ASSUME NEW c \in Calls, Handler(c) PROVE StartedInv'
  <2>1. \E to : to # "idle" /\ Goto(c, to) /\ pc[c] # "idle" /\ args' = args
    BY <1>6 DEF Handler, Debit, DebitRefused, Submit, SubmitFails, UndoDebit, SaveJob, BookPrint,
                LinkReprint, BookReprint, RowGone
  <2> QED  BY <1>5, <2>1
<1>7. ASSUME NEW c \in Calls, HandlerDies(c) PROVE StartedInv'
  BY <1>5, <1>7 DEF HandlerDies, InFlight
<1>8. CASE Restart
  <2>1. args' = args /\ \A c \in Calls : pc'[c] = "idle" <=> pc[c] = "idle"
    BY <1>8 DEF Restart, InFlight
  <2> QED  BY <1>1, <2>1
<1>9. CASE UNCHANGED <<pc, args>>
  BY <1>1, <1>9
<1>10. CASE UNCHANGED vars
  BY <1>9, <1>10 DEF vars
<1>11. CASE Next
  BY <1>3, <1>4, <1>6, <1>7, <1>8, <1>9, <1>11
     DEF Next, CupsStep, DeleteFile, DeletePrinter, DeleteUser, Poll, PollStart, PollAnswered,
         PollIPPError, PollWrite, PollStock, PollCredit, PollBook, PollRowGone, PollDies
<1> QED  BY <1>10, <1>11

\* A handler's own step: what it has charged and what it has booked go together.
LEMMA HandlerBooked ==
  ASSUME SettleInv, BookedInv, NEW c \in Calls, Handler(c) PROVE BookedInv'
PROOF
<1>0. /\ TypeOK /\ ChargeInv /\ PollInv /\ pc \in [Calls -> Stages]
      /\ tx \in [TxTypes -> [Calls -> Nat]] /\ paid \in [Calls -> Int]
      /\ \A d \in Calls : args[d].cost \in Nat
  BY Types DEF SettleInv
<1>1. UNCHANGED <<args, torn, poll, users>>
  BY DEF Handler, Debit, DebitRefused, Submit, SubmitFails, UndoDebit, SaveJob, BookPrint,
         LinkReprint, BookReprint, RowGone, rows
<1>2. ASSUME NEW d \in Calls, d # c PROVE BookedOK(d)'
  <2>1. pc'[d] = pc[d]
    BY <1>0, <1>2 DEF Handler, Debit, DebitRefused, Submit, SubmitFails, UndoDebit, SaveJob,
                      BookPrint, LinkReprint, BookReprint, RowGone, Goto
  <2>2. paid'[d] = paid[d]
    BY <1>0, <1>2 DEF Handler, Debit, DebitRefused, Submit, SubmitFails, UndoDebit, SaveJob,
                      BookPrint, LinkReprint, BookReprint, RowGone, acct
  <2>3. tx'["print"][d] = tx["print"][d] /\ tx'["refund"][d] = tx["refund"][d]
    BY <1>0, <1>2 DEF Handler, Debit, DebitRefused, Submit, SubmitFails, UndoDebit, SaveJob,
                      BookPrint, LinkReprint, BookReprint, RowGone, Booked, TxTypes
  <2> QED  BY <1>1, <2>1, <2>2, <2>3 DEF BookedInv, BookedOK, IsReprint
<1>3. BookedOK(c)'
  <2>1. CASE Debit(c) \/ UndoDebit(c)
    BY <1>0, <1>1, <2>1 DEF BookedInv, BookedOK, Debit, UndoDebit, Goto, acct
  <2>2. CASE DebitRefused(c) \/ Submit(c) \/ SubmitFails(c) \/ RowGone(c)
    BY <1>0, <1>1, <2>2 DEF BookedInv, BookedOK, DebitRefused, Submit, SubmitFails, RowGone, Goto,
                            acct
  <2>3. CASE SaveJob(c)
    BY <1>0, <1>1, <2>3 DEF BookedInv, BookedOK, SaveJob, Goto, acct, ChargeInv, ChargeOK, Late
  <2>4. CASE BookPrint(c)
    <3>1. /\ pc[c] = "saved" /\ pc'[c] = "done" /\ paid' = paid /\ tx'["refund"] = tx["refund"]
          /\ tx["print"][c] = 0 /\ tx'["print"][c] = 1
      BY <1>0, <2>4 DEF BookedInv, BookedOK, BookPrint, Booked, Goto, acct, TxTypes
    <3> QED  BY <1>1, <3>1 DEF BookedInv, BookedOK, IsReprint
  <2>5. CASE LinkReprint(c)
    BY <1>0, <1>1, <2>5 DEF BookedInv, BookedOK, LinkReprint, Goto, acct, IsReprint
  <2>6. CASE BookReprint(c)
    <3>1. /\ pc[c] = "linked" /\ pc'[c] = "done" /\ paid' = paid
          /\ tx'["refund"] = tx["refund"] /\ tx'["print"] = tx["print"]
      BY <1>0, <2>6 DEF BookReprint, Booked, Goto, acct, TxTypes
    <3>2. IsReprint(c)
      BY <3>1 DEF BookedInv, BookedOK
    <3> QED  BY <1>1, <3>1, <3>2 DEF BookedInv, BookedOK, IsReprint
  <2> QED  BY <2>1, <2>2, <2>3, <2>4, <2>5, <2>6 DEF Handler
<1> QED  BY <1>2, <1>3 DEF BookedInv
LEMMA RequestBooked ==
  ASSUME SettleInv, StartedInv, BookedInv, NEW c \in Calls,
         \/ \E f \in Files, p \in Printers, cost \in Costs : Request(c, f, p, cost)
         \/ \E o \in Calls : FreeReprint(c, o)
         \/ HandlerDies(c) \/ CupsStep(c)
  PROVE  BookedInv'
PROOF
<1>0. /\ TypeOK /\ pc \in [Calls -> Stages] /\ args \in [Calls -> ArgsType]
      /\ tx \in [TxTypes -> [Calls -> Nat]]
  BY Types DEF SettleInv
<1>1. CASE \/ \E f \in Files, p \in Printers, cost \in Costs : Request(c, f, p, cost)
           \/ \E o \in Calls : FreeReprint(c, o)
  <2>1. /\ pc[c] = "idle" /\ pc'[c] \in {"checked", "ready"}
        /\ \A d \in Calls \ {c} : args'[d] = args[d] /\ pc'[d] = pc[d]
        /\ UNCHANGED <<users, tx, paid, torn, poll>>
    BY <1>0, <1>1 DEF Request, FreeReprint, Goto, rows, acct
  <2>2. BookedOK(c)'
    BY <2>1 DEF BookedInv, BookedOK
  <2>3. ASSUME NEW d \in Calls \ {c} PROVE BookedOK(d)'
    BY <2>1 DEF BookedInv, BookedOK, IsReprint
  <2> QED  BY <2>2, <2>3 DEF BookedInv
<1>2. CASE HandlerDies(c)
  BY <1>0, <1>2 DEF HandlerDies, InFlight, Goto, BookedInv, BookedOK, IsReprint, rows, acct
<1>3. CASE CupsStep(c)
  BY <1>3 DEF CupsStep, BookedInv, BookedOK, IsReprint, rows, acct
<1> QED  BY <1>1, <1>2, <1>3

LEMMA DisruptionBooked ==
  ASSUME SettleInv, BookedInv,
         \/ \E f \in Files : DeleteFile(f)
         \/ \E p \in Printers : DeletePrinter(p)
         \/ \E u \in Users : DeleteUser(u)
         \/ Restart
  PROVE  BookedInv'
PROOF
<1>0. TypeOK /\ pc \in [Calls -> Stages] /\ tx \in [TxTypes -> [Calls -> Nat]]
  BY Types DEF SettleInv
<1>1. CASE (\E f \in Files : DeleteFile(f)) \/ (\E p \in Printers : DeletePrinter(p))
  <2>1. UNCHANGED <<users, args, pc, paid, tx, torn, poll>>
    BY <1>1 DEF DeleteFile, DeletePrinter, acct
  <2> QED  BY <2>1 DEF BookedInv, BookedOK, IsReprint
<1>2. ASSUME NEW u \in Users, DeleteUser(u) PROVE BookedInv'
  <2>1. users' = users \ {u} /\ UNCHANGED <<args, pc, paid, torn, poll>>
    BY <1>2 DEF DeleteUser, acct
  <2>2. ASSUME NEW c \in Calls PROVE BookedOK(c)'
    <3>1. CASE args[c].user = u
      <4>1. tx'["print"][c] = 0
        BY <1>2, <3>1 DEF DeleteUser, TxTypes
      <4> QED  BY <2>1, <3>1, <4>1 DEF BookedInv, BookedOK, IsReprint
    <3>2. CASE args[c].user # u
      <4>1. tx'["print"][c] = tx["print"][c] /\ tx'["refund"][c] = tx["refund"][c]
        BY <1>2, <3>2 DEF DeleteUser, TxTypes
      <4> QED  BY <2>1, <4>1 DEF BookedInv, BookedOK, IsReprint
    <3> QED  BY <3>1, <3>2
  <2> QED  BY <2>2 DEF BookedInv
<1>3. CASE Restart
  <2>1. /\ \A c \in Calls : pc'[c] = pc[c] \/ pc'[c] = "dead"
        /\ UNCHANGED <<users, args, paid, tx>> /\ poll' = NoPoll
        /\ torn' = IF poll.pc = "book" THEN torn \cup {poll.job} ELSE torn
    BY <1>0, <1>3 DEF Restart, AbandonPoll, rows, acct
  <2> QED  BY <2>1 DEF BookedInv, BookedOK, IsReprint, NoPoll
<1> QED  BY <1>1, <1>2, <1>3

\* The poll gives back and books what it gave back; a poll that stops between
\* the two leaves the job torn.
LEMMA PollBooked ==
  ASSUME SettleInv, BookedInv, Poll \/ PollDies PROVE BookedInv'
PROOF
<1>0. /\ TypeOK /\ ChargeInv /\ PollInv /\ pc \in [Calls -> Stages]
      /\ tx \in [TxTypes -> [Calls -> Nat]] /\ paid \in [Calls -> Int]
      /\ \A d \in Calls : args[d].cost \in Nat
      /\ poll.pc \notin {"idle", "ask"} => poll.job \in Calls
      /\ poll \in PollType
  BY Types DEF SettleInv, TypeOK
<1>1. ASSUME UNCHANGED <<users, args, pc, paid, tx, torn>>, poll.pc # "book"
      PROVE  BookedInv'
  BY <1>1 DEF BookedInv, BookedOK, IsReprint
<1>2. CASE \/ PollStart \/ PollWrite \/ PollStock
           \/ \E t \in poll.todo : PollAnswered(t) \/ PollIPPError(t)
  <2>1. UNCHANGED <<users, args, pc, paid, tx, torn>> /\ poll.pc # "book"
    BY <1>2 DEF PollStart, PollAnswered, PollIPPError, PollWrite, PollStock, rows, acct
  <2> QED  BY <1>1, <2>1
<1>3. CASE PollCredit
  <2>1. /\ poll'.pc = "book" /\ poll'.job = poll.job /\ poll.pc = "credit"
        /\ UNCHANGED <<users, args, pc, tx, torn>>
        /\ \A c \in Calls : c # poll.job => paid'[c] = paid[c]
    BY <1>0, <1>3 DEF PollCredit, PollType, rows
  <2> QED  BY <2>1 DEF BookedInv, BookedOK, IsReprint
<1>4. CASE PollBook
  <2>1. PICK j \in Calls : j = poll.job
    BY <1>0, <1>4 DEF PollBook
  <2>2. /\ poll.pc = "book" /\ paid[j] = 0 /\ tx["refund"][j] = 0
        /\ UNCHANGED <<users, args, pc, paid, torn>>
        /\ tx'["print"] = tx["print"] /\ tx'["refund"][j] = 1
        /\ \A c \in Calls \ {j} : tx'["refund"][c] = tx["refund"][c]
    BY <1>0, <1>4, <2>1 DEF PollBook, Booked, PollInv, TxTypes, rows, acct
  <2>3. BookedOK(j)'
    BY <2>2 DEF BookedInv, BookedOK, IsReprint
  <2>4. ASSUME NEW c \in Calls \ {j} PROVE BookedOK(c)'
    BY <2>1, <2>2 DEF BookedInv, BookedOK, IsReprint
  <2> QED  BY <2>3, <2>4 DEF BookedInv
<1>5. CASE PollRowGone \/ PollDies
  <2>1. /\ UNCHANGED <<users, args, pc, paid, tx>> /\ poll' = NoPoll
        /\ torn' = IF poll.pc = "book" THEN torn \cup {poll.job} ELSE torn
    BY <1>5 DEF PollRowGone, PollDies, AbandonPoll, rows, acct
  <2> QED  BY <2>1 DEF BookedInv, BookedOK, IsReprint, NoPoll
<1> QED  BY <1>2, <1>3, <1>4, <1>5 DEF Poll

LEMMA LedgerInit == Init => LedgerInv
PROOF
<1> SUFFICES ASSUME Init PROVE LedgerInv
  OBVIOUS
<1>1. StartedInv
  <2>1. Started = {}
    BY DEF Init, Started
  <2> QED  BY <2>1, FS_EmptySet DEF StartedInv, Init
<1>2. ASSUME NEW u \in Users
      PROVE  balance[u] = InitBalance[u] + SumFunctionOnSet(Given, JobsOf(u))
  <2>1. JobsOf(u) = {}
    BY <1>2, PrintJobsAssumption DEF JobsOf, Init, NoArgs
  <2>2. SumFunctionOnSet(Given, JobsOf(u)) = 0
    BY <2>1, SumEmpty
  <2> QED  BY <2>2, PrintJobsAssumption DEF Init
<1>3. BookedInv
  BY DEF Init, BookedInv, BookedOK, TxTypes
<1> QED  BY <1>1, <1>2, <1>3 DEF LedgerInv, BalanceInv

LEMMA LedgerAlways == Spec => [](SettleInv /\ LedgerInv)
PROOF
<1>1. SettleInv /\ LedgerInv /\ [Next]_vars => LedgerInv'
  <2> SUFFICES ASSUME SettleInv, LedgerInv, [Next]_vars PROVE StartedInv' /\ BookedInv'
    BY BalanceStep DEF LedgerInv
  <2>1. StartedInv'
    BY StartedStep DEF SettleInv, LedgerInv
  <2>2. CASE UNCHANGED vars
    BY <2>1, <2>2 DEF LedgerInv, BookedInv, BookedOK, IsReprint, vars, rows, acct
  <2>3. CASE Next
    BY <2>1, <2>3, HandlerBooked, RequestBooked, DisruptionBooked, PollBooked DEF Next, LedgerInv
  <2> QED  BY <2>2, <2>3
<1> QED  BY <1>1, LedgerInit, SettleAlways, PTL DEF Spec

\* Whenever a user's jobs are at rest, the transactions explain the balance to
\* the cent: whatever requests, polls, deletions and restarts came before,
\* every commit of adjust_balance that stays has exactly one Transaction row.
THEOREM LedgerExplains == Spec => []LedgerExplainsBalance
PROOF
<1>1. ASSUME SettleInv, LedgerInv PROVE LedgerExplainsBalance
  <2> SUFFICES ASSUME NEW u \in users, \A c \in JobsOf(u) : AtRest(c)
               PROVE  balance[u] = InitBalance[u] + SumFunctionOnSet(TxNet, JobsOf(u))
    BY DEF LedgerExplainsBalance
  <2>0. /\ TypeOK /\ ChargeInv /\ u \in Users /\ BookedInv /\ BalanceInv
        /\ tx \in [TxTypes -> [Calls -> Nat]]
        /\ \A d \in Calls : args[d].cost \in Nat /\ paid[d] \in Int
    BY <1>1, Types DEF SettleInv, LedgerInv, TypeOK
  <2>1. IsFiniteSet(JobsOf(u)) /\ JobsOf(u) \subseteq Calls /\ Ints(Given, JobsOf(u))
    BY <1>1, <2>0, JobsFacts DEF LedgerInv
  <2>2. ASSUME NEW c \in JobsOf(u) PROVE Given[c] = TxNet[c]
    <3>1. /\ c \in Calls /\ args[c].user \in users /\ AtRest(c) /\ BookedOK(c) /\ ChargeOK(c)
      BY <2>0, <2>1 DEF JobsOf, BookedInv, ChargeInv
    <3>2. CASE pc[c] # "done"
      <4>1. tx["print"][c] = 0 /\ tx["refund"][c] = 0 /\ paid[c] = 0
        BY <3>1, <3>2 DEF AtRest, BookedOK, ChargeOK, Late
      <4>2. args[c].cost * (0 - 0) = 0
        BY <2>0, <3>1
      <4> QED  BY <3>1, <4>1, <4>2 DEF Given, TxNet
    <3>3. CASE pc[c] = "done" /\ IsReprint(c)
      <4>1. args[c].cost = 0 /\ paid[c] = 0
        BY <3>1, <3>3 DEF ChargeOK
      <4>2. tx["refund"][c] \in Int /\ tx["print"][c] \in Int
        BY <2>0, <3>1 DEF TxTypes
      <4>3. 0 * (tx["refund"][c] - tx["print"][c]) = 0
        BY <4>2
      <4> QED  BY <3>1, <4>1, <4>3 DEF Given, TxNet
    <3>4. CASE pc[c] = "done" /\ ~IsReprint(c)
      <4>1. /\ tx["print"][c] = 1
            /\ \/ tx["refund"][c] = 0 /\ paid[c] = args[c].cost
               \/ tx["refund"][c] = 1 /\ paid[c] = 0
        BY <3>1, <3>4 DEF AtRest, BookedOK
      <4>2. args[c].cost * (0 - 1) = 0 - args[c].cost /\ args[c].cost * (1 - 1) = 0
        BY <2>0, <3>1
      <4> QED  BY <3>1, <4>1, <4>2 DEF Given, TxNet
    <3> QED  BY <3>2, <3>3, <3>4
  <2>3. SumFunctionOnSet(Given, JobsOf(u)) = SumFunctionOnSet(TxNet, JobsOf(u))
    BY <2>1, <2>2, SumEqual
  <2> QED  BY <2>0, <2>3 DEF BalanceInv
<1> QED  BY <1>1, LedgerAlways, PTL
=============================================================================
