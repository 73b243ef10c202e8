----------------------- MODULE RechargeRequestsProofs -----------------------
(***************************************************************************)
(* Theorems about RechargeRequests.                                        *)
(*                                                                         *)
(* An approval gives up the lock on its request before the status is set.  *)
(* What survives that is ApprovalsShow: only a request that is approved or *)
(* gone has a credit whose call is past the setting of the status.         *)
(***************************************************************************)
EXTENDS RechargeRequests, SumProofs, TLAPS

\* The types of the variables the argument is about.
RequestType ==
    /\ users \subseteq Users /\ balance \in [Users -> Int]
    /\ status \in [Requests -> {"new", "pending", "gone"} \cup Resolved]
    /\ pc \in [Calls -> Stages]
    /\ call \in [Calls -> CallType]
    /\ moved \subseteq Calls

\* How far a call has come says what it is about, and whether it has moved money.
CallsFit ==
    /\ \A c \in moved : pc[c] \in {"credited", "settle", "sync", "done", "dead"}
    /\ \A c \in Calls :
          /\ pc[c] \in {"credited", "settle"} => c \in moved
          /\ pc[c] = "settle" => call[c].kind = "approve"
          /\ pc[c] = "apply" => call[c].kind \in {"recharge", "adjust"}

ApprovalsShow ==
    \A r \in Requests : status[r] \notin {"approved", "gone"} =>
       \A c \in CreditsOf(r) : pc[c] \in {"credited", "settle", "dead"}

RequestInv == RequestType /\ CallsFit /\ ApprovalsShow

\* What a step of call c leaves alone of the other calls.
Others(c) ==
    /\ users' \subseteq Users /\ balance' \in [Users -> Int]
    /\ pc' \in [Calls -> Stages] /\ call' \in [Calls -> CallType]
    /\ \A d \in Calls \ {c} : pc'[d] = pc[d] /\ call'[d] = call[d]

\* A status changes as the program has it change while approvals are on their way.
StatusMoves ==
    /\ status' \in [Requests -> {"new", "pending", "gone"} \cup Resolved]
    /\ \A r \in Requests : status[r] \in Resolved /\ ~Crediting(r) => status'[r] \in {status[r], "gone"}
    /\ \A r \in Requests : status[r] \in {"approved", "gone"} => status'[r] \in {"approved", "gone"}

\* The action property as a formula about one step.
SettledStays ==
    \A r \in Requests : status[r] \in Resolved /\ ~Crediting(r) =>
       /\ status'[r] \in {status[r], "gone"}
       /\ CreditsOf(r)' = CreditsOf(r)

\* At the start nothing has moved.
LEMMA RequestInit == Init => RequestInv
BY RechargeAssumption DEF Init, RequestInv, RequestType, CallsFit, ApprovalsShow, CreditsOf, Resolved, Stages, CallType,
       NoCall, NoUser, Kinds, Channels

\* Goto and a new call change call c only.
LEMMA GotoOthers ==
    ASSUME RequestType, NEW c \in Calls, NEW to \in Stages, Goto(c, to), UNCHANGED <<users, balance, call>>
    PROVE  Others(c) /\ pc'[c] = to /\ call'[c] = call[c]
BY DEF RequestType, Goto, Others

LEMMA StartOthers ==
    ASSUME RequestType, NEW c \in Calls, NEW to \in Stages, NEW x \in CallType,
           Goto(c, to), call' = [call EXCEPT ![c] = x], UNCHANGED <<users, balance>>
    PROVE  Others(c) /\ pc'[c] = to /\ call'[c] = x
BY DEF RequestType, Goto, Others

\* A call that begins was idle, so that it has moved nothing before.
LEMMA BeginKeeps ==
    ASSUME RequestInv, NEW c \in Calls, pc[c] = "idle", Others(c), UNCHANGED moved, StatusMoves,
           pc'[c] \in Stages \ {"credited", "settle"},
           pc'[c] = "apply" => call'[c].kind \in {"recharge", "adjust"},
           \A r \in Requests : status'[r] # status[r] => status'[r] \in {"pending"} /\ status[r] = "new"
    PROVE  RequestInv' /\ SettledStays
<1>1. c \notin moved /\ \A r \in Requests : CreditsOf(r)' = CreditsOf(r) /\ c \notin CreditsOf(r)
  BY DEF RequestInv, CallsFit, RequestType, CreditsOf, Others
<1>2. RequestType' /\ CallsFit'
  BY <1>1 DEF RequestInv, RequestType, CallsFit, Others, StatusMoves
<1>3. ApprovalsShow'
  BY <1>1 DEF RequestInv, ApprovalsShow, RequestType, Others, CreditsOf
<1> QED
  BY <1>1, <1>2, <1>3 DEF RequestInv, SettledStays, StatusMoves

\* A call that goes on without moving money, and is no approval past its status
\* unless the request shows it.
LEMMA GoOnKeeps ==
    ASSUME RequestInv, NEW c \in Calls, Others(c), UNCHANGED <<call, moved>>, StatusMoves,
           pc[c] # "idle", pc'[c] \notin {"idle", "credited", "apply"},
           pc'[c] = "settle" => pc[c] = "credited" /\ call[c].kind = "approve",
           c \in moved => pc'[c] \in {"settle", "sync", "done", "dead"},
           \A r \in Requests : c \in CreditsOf(r) /\ pc'[c] \notin {"settle", "dead"}
                                  => status'[r] \in {"approved", "gone"}
    PROVE  RequestInv' /\ SettledStays
<1>1. \A r \in Requests : CreditsOf(r)' = CreditsOf(r) /\ CreditsOf(r) \subseteq Calls
  BY DEF CreditsOf, RequestInv, RequestType
<1>2. RequestType' /\ CallsFit'
  BY DEF RequestInv, RequestType, CallsFit, Others, StatusMoves
<1>3. ApprovalsShow'
  BY <1>1 DEF RequestInv, ApprovalsShow, Others, StatusMoves
<1> QED
  BY <1>1, <1>2, <1>3 DEF RequestInv, SettledStays, StatusMoves

\* Resolved statuses stay where nothing but the row of c's own request is set.
LEMMA SameStatus ==
    ASSUME RequestInv, UNCHANGED status
    PROVE  StatusMoves
BY DEF RequestInv, RequestType, StatusMoves

-----------------------------------------------------------------------------
LEMMA CallsBegin ==
    ASSUME RequestInv, NEW c \in Calls,
           \/ \E r \in Requests : Create(c, r)
           \/ \E r \in Requests, kind \in {"approve", "reject"} :
                 Resolve(c, r, kind) \/ ResolveByTelegram(c, r, kind)
           \/ \E u \in Users, amount \in Recharges : Recharge(c, u, amount) \/ RechargeByTelegram(c, u, amount)
           \/ \E u \in Users, target \in Targets : Adjust(c, u, target) \/ Edit(c, u, target)
    PROVE  RequestInv' /\ SettledStays
<1> USE RechargeAssumption DEF CallType, NoUser, Kinds, Channels, Stages
<1>0. NoCall \in CallType
  BY DEF NoCall
<1>1. ASSUME NEW r \in Requests, Create(c, r)
      PROVE  RequestInv' /\ SettledStays
  <2> DEFINE x == [NoCall EXCEPT !.kind = "create", !.user = Owner[r], !.req = r]
  <2>0. x \in CallType
    BY <1>0
  <2>1. Others(c) /\ pc'[c] = "notify"
    <3>1. call' = [call EXCEPT ![c] = x] /\ Goto(c, "notify") /\ UNCHANGED <<users, balance>>
      BY <1>1 DEF Create
    <3> HIDE DEF x
    <3> QED
      BY <2>0, <3>1, StartOthers DEF RequestInv
  <2>2. StatusMoves
    BY <1>1 DEF Create, RequestInv, RequestType, StatusMoves, Resolved
  <2> QED
    BY <1>1, <2>1, <2>2, BeginKeeps DEF Create, RequestInv, RequestType
<1>2. ASSUME NEW r \in Requests, NEW kind \in {"approve", "reject"}, NEW via \in Channels,
             StartResolve(c, r, kind, via)
      PROVE  RequestInv' /\ SettledStays
  <2> DEFINE x == [NoCall EXCEPT !.kind = kind, !.user = Owner[r], !.req = r,
                                 !.amount = Amount[r], !.via = via]
  <2>0. x \in CallType
    <3>1. Owner[r] \in Users /\ Amount[r] \in Int /\ kind \in Kinds
      OBVIOUS
    <3> HIDE RechargeAssumption DEF Kinds, Channels
    <3> QED
      BY <1>0, <3>1
  <2>1. Others(c) /\ pc'[c] = "resolve"
    <3>1. call' = [call EXCEPT ![c] = x] /\ Goto(c, "resolve") /\ UNCHANGED <<users, balance>>
      BY <1>2 DEF StartResolve
    <3> HIDE DEF x
    <3> QED
      BY <2>0, <3>1, StartOthers DEF RequestInv
  <2> QED
    BY <1>2, <2>1, SameStatus, BeginKeeps DEF StartResolve, requests
<1>3. ASSUME NEW u \in Users, NEW amount \in Recharges, NEW via \in Channels,
             StartRecharge(c, u, amount, via)
      PROVE  RequestInv' /\ SettledStays
  <2> DEFINE x == [NoCall EXCEPT !.kind = "recharge", !.user = u, !.amount = amount, !.via = via]
  <2>0. x \in CallType /\ x.kind = "recharge"
    BY <1>0
  <2>1. Others(c) /\ pc'[c] = "apply" /\ call'[c].kind = "recharge"
    <3>1. call' = [call EXCEPT ![c] = x] /\ Goto(c, "apply") /\ UNCHANGED <<users, balance>>
      BY <1>3 DEF StartRecharge
    <3> HIDE DEF x
    <3> QED
      BY <2>0, <3>1, StartOthers DEF RequestInv
  <2> QED
    BY <1>3, <2>1, SameStatus, BeginKeeps DEF StartRecharge, requests
<1>4. ASSUME NEW u \in Users, NEW target \in Targets, Adjust(c, u, target)
      PROVE  RequestInv' /\ SettledStays
  <2>1. target \in Int /\ target - balance[u] \in Int
    BY DEF RequestInv, RequestType
  <2> DEFINE x == [NoCall EXCEPT !.kind = "adjust", !.user = u, !.amount = target - balance[u],
                                 !.target = target]
  <2>3. x \in CallType /\ x.kind = "adjust"
    BY <1>0, <2>1
  <2>2. Others(c) /\ pc'[c] = "apply" /\ call'[c].kind = "adjust"
    <3>1. call' = [call EXCEPT ![c] = x] /\ Goto(c, "apply") /\ UNCHANGED <<users, balance>>
      BY <1>4 DEF Adjust
    <3> HIDE DEF x
    <3> QED
      BY <2>3, <3>1, StartOthers DEF RequestInv
  <2> QED
    BY <1>4, <2>2, SameStatus, BeginKeeps DEF Adjust, requests
<1>5. ASSUME NEW u \in Users, NEW target \in Targets, Edit(c, u, target)
      PROVE  RequestInv' /\ SettledStays
  <2> DEFINE x == [NoCall EXCEPT !.kind = "edit", !.user = u, !.target = target]
  <2>0. x \in CallType
    BY <1>0
  <2>1. Others(c) /\ pc'[c] \in {"done", "write"}
    <3>1. /\ call' = [call EXCEPT ![c] = x] /\ UNCHANGED <<users, balance>>
          /\ Goto(c, "done") \/ Goto(c, "write")
      BY <1>5 DEF Edit
    <3> HIDE DEF x
    <3> QED
      BY <2>0, <3>1, StartOthers DEF RequestInv
  <2> QED
    BY <1>5, <2>1, SameStatus, BeginKeeps DEF Edit, requests
<1> QED
  BY <1>1, <1>2, <1>3, <1>4, <1>5 DEF Resolve, ResolveByTelegram, Recharge, RechargeByTelegram

\* The three steps that set a status or move money.
LEMMA RejectKeeps ==
    ASSUME RequestInv, NEW c \in Calls, Reject(c) PROVE RequestInv' /\ SettledStays
<1>1. Others(c) /\ pc'[c] = "sync"
  BY GotoOthers DEF Reject, RequestInv, Stages
<1>2. StatusMoves
  BY DEF Reject, RequestInv, RequestType, StatusMoves, Resolved
<1>3. c \notin moved
  BY DEF Reject, RequestInv, CallsFit
<1>4. RequestType' /\ CallsFit'
  BY <1>1, <1>2, <1>3 DEF Reject, RequestInv, RequestType, CallsFit, Others, StatusMoves
<1>5. \A r \in Requests : CreditsOf(r)' = CreditsOf(r) /\ c \notin CreditsOf(r)
  BY <1>3 DEF Reject, CreditsOf
<1>6. ApprovalsShow'
  BY <1>1, <1>2, <1>5 DEF Reject, RequestInv, RequestType, ApprovalsShow, CreditsOf, Others, StatusMoves
<1> QED
  BY <1>2, <1>4, <1>5, <1>6 DEF RequestInv, SettledStays, StatusMoves

LEMMA SetApprovedKeeps ==
    ASSUME RequestInv, NEW c \in Calls, SetApproved(c) PROVE RequestInv' /\ SettledStays
<1>1. Others(c) /\ pc'[c] = "sync"
  BY GotoOthers DEF SetApproved, RequestInv, Stages
<1>2. c \in moved /\ call[c].kind = "approve"
  BY DEF SetApproved, RequestInv, CallsFit
<1>3. \A r \in Requests : r = call[c].req => Crediting(r)
  BY <1>2 DEF SetApproved, Crediting, CreditsOf
<1>4. StatusMoves
  BY <1>3 DEF SetApproved, RequestInv, RequestType, StatusMoves, Resolved
<1>5. \A r \in Requests : c \in CreditsOf(r) => status'[r] = "approved"
  BY DEF SetApproved, RequestInv, RequestType, CreditsOf
<1> QED
  BY <1>1, <1>2, <1>4, <1>5, GoOnKeeps DEF SetApproved

\* Money is moved for a call that had not moved any.
LEMMA MoveKeeps ==
    ASSUME RequestInv, NEW c \in Calls, Approve(c) \/ Apply(c) PROVE RequestInv' /\ SettledStays
<1>1. call[c].amount \in Int /\ call[c].user \in Users /\ balance[call[c].user] + call[c].amount \in Int
  BY DEF Approve, Apply, AdjustBalance, CanAdjust, RequestInv, RequestType, CallType
<1>2. /\ users' \subseteq Users /\ balance' \in [Users -> Int] /\ UNCHANGED status
      /\ moved' = moved \cup {c} /\ c \notin moved
  <2>1. balance' = [balance EXCEPT ![call[c].user] = @ + call[c].amount] /\ users' = users
    BY DEF Approve, Apply, AdjustBalance
  <2>2. UNCHANGED status /\ moved' = moved \cup {c} /\ pc[c] \in {"resolve", "apply"}
    BY DEF Approve, Apply, requests
  <2> QED
    BY <1>1, <2>1, <2>2 DEF RequestInv, RequestType, CallsFit
<1>3. /\ call' = [call EXCEPT ![c].after = balance[call[c].user] + call[c].amount]
      /\ pc' = [pc EXCEPT ![c] = "credited"]
  BY DEF Approve, Apply, Goto
<1>4. /\ Others(c) /\ pc'[c] = "credited"
      /\ call'[c].kind = call[c].kind /\ call'[c].req = call[c].req
  BY <1>1, <1>2, <1>3, ZenonT(60) DEF RequestInv, RequestType, Others, CallType, Stages
<1>5. \A r \in Requests : /\ CreditsOf(r) \subseteq CreditsOf(r)' /\ CreditsOf(r)' \subseteq CreditsOf(r) \cup {c}
                          /\ c \in CreditsOf(r)' => status[r] = "pending"
  BY <1>2, <1>4 DEF Approve, Apply, RequestInv, RequestType, CallsFit, CreditsOf, Others
<1>6. RequestType' /\ CallsFit'
  BY <1>2, <1>4 DEF RequestInv, RequestType, CallsFit, Others
<1>7. ApprovalsShow'
  BY <1>2, <1>4, <1>5 DEF RequestInv, RequestType, ApprovalsShow, CreditsOf, Others
<1>8. SettledStays
  BY <1>2, <1>5 DEF SettledStays, Resolved
<1> QED
  BY <1>6, <1>7, <1>8 DEF RequestInv

\* The other steps of a handler: none of them is a credited approval that goes on
\* unless the request already shows it.
LEMMA OthersKeep ==
    ASSUME RequestInv, NEW c \in Calls,
           \/ Notify(c) \/ SaveMessage(c) \/ ResolveRefused(c) \/ Sync(c) \/ ApplyRefused(c)
           \/ Book(c) \/ Write(c) \/ RowGone(c) \/ HandlerDies(c)
    PROVE  RequestInv' /\ SettledStays
<1>1. UNCHANGED <<status, call, moved>> /\ StatusMoves
  BY SameStatus DEF Notify, SaveMessage, ResolveRefused, Sync, ApplyRefused, Book, Write, RowGone,
                    HandlerDies, requests
<1>2. PICK to \in {"done", "notified", "refused", "settle", "dead"} : Goto(c, to)
  BY DEF Notify, SaveMessage, ResolveRefused, Sync, ApplyRefused, Book, Write, RowGone, HandlerDies
<1>3. Others(c) /\ pc'[c] = to
  <2>1. CASE Write(c)
    <3>1. /\ call[c].target \in Int /\ UNCHANGED users
          /\ balance' = [balance EXCEPT ![call[c].user] = call[c].target]
      BY <2>1 DEF Write, RequestInv, RequestType, CallType
    <3> QED
      BY <1>1, <1>2, <3>1 DEF RequestInv, RequestType, Goto, Others, Stages
  <2>2. CASE UNCHANGED <<users, balance>>
    BY <1>1, <1>2, <2>2, GotoOthers DEF RequestInv, Stages
  <2> QED
    BY <2>1, <2>2 DEF Notify, SaveMessage, ResolveRefused, Sync, ApplyRefused, Book, RowGone, HandlerDies
<1>4. pc[c] # "idle" /\ (c \in moved => pc[c] \in {"credited", "settle", "sync", "done", "dead"})
  BY DEF Notify, SaveMessage, ResolveRefused, Sync, ApplyRefused, Book, Write, RowGone, HandlerDies,
         InFlight, RequestInv, CallsFit
<1>5. to = "settle" => pc[c] = "credited" /\ call[c].kind = "approve"
  BY <1>3, <1>4 DEF Notify, SaveMessage, ResolveRefused, Sync, ApplyRefused, Book, Write, RowGone,
         HandlerDies, Goto, RequestInv, RequestType
<1>6. c \in moved => to \in {"settle", "sync", "done", "dead"}
  BY <1>3, <1>4 DEF Notify, SaveMessage, ResolveRefused, Sync, ApplyRefused, Book, Write, RowGone,
         HandlerDies, Goto, RequestInv, RequestType
<1>7. ASSUME NEW r \in Requests, c \in CreditsOf(r), to \notin {"settle", "dead"}
      PROVE  status'[r] \in {"approved", "gone"}
  <2>1. c \in moved /\ call[c].kind = "approve" /\ pc[c] \in {"credited", "settle", "sync", "done", "dead"}
    BY <1>4, <1>7 DEF CreditsOf
  <2>2. pc[c] = "sync"
    BY <1>3, <1>7, <2>1 DEF Notify, SaveMessage, ResolveRefused, Sync, ApplyRefused, Book, Write, RowGone,
           HandlerDies, Goto, RequestInv, RequestType
  <2> QED
    BY <1>1, <1>7, <2>2 DEF RequestInv, ApprovalsShow
<1> QED
  BY <1>1, <1>3, <1>4, <1>5, <1>6, <1>7, GoOnKeeps DEF Stages

LEMMA DeletionKeeps ==
    ASSUME RequestInv, NEW u \in Users, DeleteUser(u) PROVE RequestInv' /\ SettledStays
BY DEF DeleteUser, RequestInv, RequestType, CallsFit, ApprovalsShow, CreditsOf, SettledStays, Resolved

-----------------------------------------------------------------------------
LEMMA RequestNext == RequestInv /\ [Next]_vars => RequestInv' /\ SettledStays
<1> SUFFICES ASSUME RequestInv, [Next]_vars PROVE RequestInv' /\ SettledStays
  OBVIOUS
<1>1. CASE UNCHANGED vars
  BY <1>1 DEF vars, requests, RequestInv, RequestType, CallsFit, ApprovalsShow, CreditsOf, SettledStays
<1>2. ASSUME NEW c \in Calls, Handler(c) \/ HandlerDies(c) PROVE RequestInv' /\ SettledStays
  BY <1>2, RejectKeeps, SetApprovedKeeps, MoveKeeps, OthersKeep DEF Handler
<1> QED
  BY <1>1, <1>2, CallsBegin, DeletionKeeps DEF Next

\* A request shown as rejected has put no money on a balance, for any calls,
\* requests and amounts: at most an approval on its way, or one cut short.
THEOREM RejectedUncredited == Spec => []RejectedIsUncredited
<1>1. RequestInv => RejectedIsUncredited
  BY DEF RequestInv, ApprovalsShow, RejectedIsUncredited
<1> QED
  BY <1>1, RequestInit, RequestNext, PTL DEF Spec

\* Once a request is resolved and no approval is half done, no resolve changes its
\* status or its owner's balance.
THEOREM SettledForGood == Spec => SettledStaysSettled
<1>1. RequestInv /\ [Next]_vars => [\A r \in Requests : status[r] \in Resolved /\ ~Crediting(r) =>
          /\ status'[r] \in {status[r], "gone"}
          /\ CreditsOf(r)' = CreditsOf(r)]_vars
  BY RequestNext DEF SettledStays
<1> QED
  BY <1>1, RequestInit, RequestNext, PTL DEF Spec, SettledStaysSettled

-----------------------------------------------------------------------------
(* The ledger.  What adjust_balance has put on a balance is either booked by *)
(* a Transaction or still to be booked by the call that moved it.            *)

Moves       == [c \in Calls |-> call[c].amount]
Unbooked(u) == {c \in moved : call[c].user = u /\ \A t \in tx : t.by # c}

LedgerType ==
    /\ drift \in [Users -> Int]
    /\ IsFiniteSet(moved) /\ IsFiniteSet(tx)
    /\ \A t \in tx : t.by \in moved /\ t.user = call[t.by].user /\ t.amount \in Int

\* A call that has got past its Transaction has one, as long as its user is there.
TxFits ==
    \A c \in moved :
       /\ pc[c] = "credited" => \A t \in tx : t.by # c
       /\ pc[c] \in {"settle", "sync", "done"} /\ call[c].user \in users => \E t \in tx : t.by = c

BalanceInv ==
    \A u \in users : balance[u] = InitBalance[u] + drift[u] + SumFunctionOnSet(Booked, TxOf(u))
                                  + SumFunctionOnSet(Moves, Unbooked(u))

LedgerInv == LedgerType /\ TxFits /\ BalanceInv

\* The sums of the invariant are sums of integers over finite sets.
LEMMA SumsFinite ==
    ASSUME RequestType, LedgerType, NEW u \in Users
    PROVE  /\ IsFiniteSet(TxOf(u)) /\ Ints(Booked, TxOf(u)) /\ SumFunctionOnSet(Booked, TxOf(u)) \in Int
           /\ IsFiniteSet(Unbooked(u)) /\ Ints(Moves, Unbooked(u))
           /\ SumFunctionOnSet(Moves, Unbooked(u)) \in Int
           /\ balance[u] \in Int /\ drift[u] \in Int /\ InitBalance[u] \in Int
<1>1. TxOf(u) \subseteq tx /\ Unbooked(u) \subseteq moved
  BY DEF TxOf, Unbooked
<1>2. IsFiniteSet(TxOf(u)) /\ IsFiniteSet(Unbooked(u))
  BY <1>1, FS_Subset DEF LedgerType
<1>3. Ints(Booked, TxOf(u))
  BY <1>1 DEF Ints, Booked, LedgerType
<1>4. \A c \in Calls : call[c].amount \in Int
  BY DEF RequestType, CallType
<1>5. Ints(Moves, Unbooked(u))
  BY <1>1, <1>4 DEF Ints, Moves, RequestType
<1> QED
  BY <1>2, <1>3, <1>5, SumType, RechargeAssumption DEF RequestType, LedgerType

\* A step that moves and books nothing keeps the ledger.
LEMMA QuietKeeps ==
    ASSUME RequestType, LedgerInv, UNCHANGED <<users, balance, moved, tx, drift>>,
           \A d \in moved : /\ call'[d] = call[d]
                            /\ pc'[d] = "credited" => pc[d] = "credited"
                            /\ pc'[d] \in {"settle", "sync", "done"}
                                  => pc[d] \in {"settle", "sync", "done"}
    PROVE  LedgerInv'
<1>1. LedgerType' /\ TxFits'
  BY DEF LedgerInv, LedgerType, TxFits
<1>2. ASSUME NEW u \in users
      PROVE  balance'[u] = InitBalance[u] + drift'[u] + SumFunctionOnSet(Booked', TxOf(u)')
                           + SumFunctionOnSet(Moves', Unbooked(u)')
  <2>0. u \in Users
    BY DEF RequestType
  <2>1. Booked' = Booked /\ TxOf(u)' = TxOf(u) /\ Unbooked(u)' = Unbooked(u)
    BY DEF Booked, TxOf, Unbooked
  <2>2. \A c \in Unbooked(u) : Moves[c] = Moves'[c]
    BY DEF Unbooked, Moves, RequestType
  <2>3. SumFunctionOnSet(Moves, Unbooked(u)) = SumFunctionOnSet(Moves', Unbooked(u))
    BY <2>0, <2>2, SumsFinite, SumEqual DEF LedgerInv
  <2> QED
    BY <2>1, <2>3 DEF LedgerInv, BalanceInv
<1> QED
  BY <1>1, <1>2 DEF LedgerInv, BalanceInv

\* adjust_balance: the amount joins what is to be booked.
LEMMA MoveLedger ==
    ASSUME RequestInv, LedgerInv, NEW c \in Calls, Approve(c) \/ Apply(c)
    PROVE  LedgerInv'
<1>0. RequestType /\ CallsFit /\ LedgerType /\ TxFits /\ BalanceInv
  BY DEF RequestInv, LedgerInv
<1>1. /\ c \notin moved /\ moved' = moved \cup {c} /\ UNCHANGED <<users, tx, drift>>
      /\ pc' = [pc EXCEPT ![c] = "credited"]
      /\ call[c].user \in users /\ call[c].amount \in Int
      /\ balance' = [balance EXCEPT ![call[c].user] = @ + call[c].amount]
      /\ call' = [call EXCEPT ![c].after = balance[call[c].user] + call[c].amount]
  BY <1>0 DEF Approve, Apply, Goto, AdjustBalance, CanAdjust, CallsFit, RequestType, CallType
<1>2. /\ \A d \in Calls : /\ call'[d].user = call[d].user /\ call'[d].amount = call[d].amount
      /\ \A d \in Calls \ {c} : pc'[d] = pc[d]
      /\ pc'[c] = "credited"
  BY <1>0, <1>1 DEF RequestType, CallType
<1>3. LedgerType'
  <2>1. IsFiniteSet(moved \cup {c})
    BY <1>0, FS_AddElement DEF LedgerType
  <2> QED
    BY <1>0, <1>1, <1>2, <2>1 DEF LedgerType, RequestType
<1>4. TxFits'
  BY <1>0, <1>1, <1>2 DEF TxFits, LedgerType, RequestType
<1>5. ASSUME NEW u \in users
      PROVE  balance'[u] = InitBalance[u] + drift'[u] + SumFunctionOnSet(Booked', TxOf(u)')
                           + SumFunctionOnSet(Moves', Unbooked(u)')
  <2>0. u \in Users
    BY <1>0 DEF RequestType
  <2>1. Booked' = Booked /\ TxOf(u)' = TxOf(u) /\ Moves' = Moves
    BY <1>1, <1>2 DEF Booked, TxOf, Moves
  <2>2. /\ balance[u] = InitBalance[u] + drift[u] + SumFunctionOnSet(Booked, TxOf(u))
                        + SumFunctionOnSet(Moves, Unbooked(u))
        /\ drift' = drift
    BY <1>0, <1>1 DEF BalanceInv
  <2>3. CASE u = call[c].user
    <3>1. Unbooked(u)' = Unbooked(u) \cup {c} /\ c \notin Unbooked(u)
      BY <1>0, <1>1, <1>2, <2>3 DEF Unbooked, LedgerType, RequestType
    <3>2. Moves[c] \in Int /\ Moves[c] = call[c].amount
      BY <1>1 DEF Moves
    <3>3. \A d \in Unbooked(u) : Moves[d] = Moves[d]
      OBVIOUS
    <3>4. SumFunctionOnSet(Moves, Unbooked(u) \cup {c}) = SumFunctionOnSet(Moves, Unbooked(u)) + Moves[c]
      <4>1. IsFiniteSet(Unbooked(u)) /\ Ints(Moves, Unbooked(u)) /\ Moves[c] \in Int /\ c \notin Unbooked(u)
        BY <1>0, <2>0, <3>1, <3>2, SumsFinite
      <4> QED
        BY <3>3, <4>1, SumAdd
    <3>5. balance'[u] = balance[u] + call[c].amount
      BY <1>0, <1>1, <2>0, <2>3 DEF RequestType
    <3> QED
      BY <1>0, <2>0, <2>1, <2>2, <3>1, <3>2, <3>4, <3>5, SumsFinite
  <2>4. CASE u # call[c].user
    <3>1. Unbooked(u)' = Unbooked(u)
      BY <1>0, <1>1, <1>2, <2>4 DEF Unbooked, RequestType
    <3>2. balance'[u] = balance[u]
      BY <1>0, <1>1, <2>0, <2>4 DEF RequestType
    <3> QED
      BY <2>1, <2>2, <3>1, <3>2
  <2> QED
    BY <2>3, <2>4
<1> QED
  BY <1>1, <1>3, <1>4, <1>5 DEF LedgerInv, BalanceInv

\* create_transaction: the amount goes from what is to be booked to what is.
LEMMA BookLedger ==
    ASSUME RequestInv, LedgerInv, NEW c \in Calls, Book(c)
    PROVE  LedgerInv'
<1>0. RequestType /\ CallsFit /\ LedgerType /\ TxFits /\ BalanceInv
  BY DEF RequestInv, LedgerInv
<1> DEFINE row == [by |-> c, user |-> call[c].user, kind |-> call[c].kind,
                   amount |-> call[c].amount, after |-> call[c].after]
<1>1. /\ UNCHANGED <<users, balance, call, moved, drift>> /\ tx' = tx \cup {row}
      /\ c \in moved /\ pc[c] = "credited" /\ \A t \in tx : t.by # c
      /\ \A d \in Calls \ {c} : pc'[d] = pc[d]
      /\ pc'[c] \in {"settle", "done"}
  BY <1>0 DEF Book, Goto, requests, CallsFit, TxFits, RequestType
<1>2. row.by = c /\ row.user = call[c].user /\ row.amount = call[c].amount /\ row.amount \in Int
  BY <1>0 DEF RequestType, CallType
<1> HIDE DEF row
<1>3. row \notin tx
  BY <1>1, <1>2
<1>4. LedgerType'
  <2>1. IsFiniteSet(tx \cup {row})
    BY <1>0, FS_AddElement DEF LedgerType
  <2> QED
    BY <1>0, <1>1, <1>2, <2>1 DEF LedgerType
<1>5. TxFits'
  BY <1>0, <1>1, <1>2 DEF TxFits, RequestType
<1>6. ASSUME NEW u \in users
      PROVE  balance'[u] = InitBalance[u] + drift'[u] + SumFunctionOnSet(Booked', TxOf(u)')
                           + SumFunctionOnSet(Moves', Unbooked(u)')
  <2>0. u \in Users
    BY <1>0 DEF RequestType
  <2>1. /\ IsFiniteSet(TxOf(u)) /\ Ints(Booked, TxOf(u)) /\ SumFunctionOnSet(Booked, TxOf(u)) \in Int
        /\ IsFiniteSet(Unbooked(u)) /\ Ints(Moves, Unbooked(u))
        /\ SumFunctionOnSet(Moves, Unbooked(u)) \in Int
        /\ balance[u] \in Int /\ drift[u] \in Int /\ InitBalance[u] \in Int
    BY <1>0, <2>0, SumsFinite
  <2>2. /\ balance[u] = InitBalance[u] + drift[u] + SumFunctionOnSet(Booked, TxOf(u))
                        + SumFunctionOnSet(Moves, Unbooked(u))
        /\ drift' = drift /\ balance' = balance /\ Moves' = Moves
    BY <1>0, <1>1 DEF BalanceInv, Moves
  <2>3. \A t \in TxOf(u) : Booked[t] = Booked'[t]
    BY <1>1 DEF Booked, TxOf
  <2>4. Booked'[row] = row.amount
    BY <1>1 DEF Booked
  <2>5. CASE u = call[c].user
    <3>1. TxOf(u)' = TxOf(u) \cup {row} /\ row \notin TxOf(u)
      BY <1>1, <1>2, <1>3, <2>5 DEF TxOf
    <3>2. SumFunctionOnSet(Booked', TxOf(u) \cup {row}) = SumFunctionOnSet(Booked, TxOf(u)) + Booked'[row]
      <4>1. /\ IsFiniteSet(TxOf(u)) /\ Ints(Booked, TxOf(u))
            /\ Booked'[row] \in Int /\ row \notin TxOf(u)
        BY <1>2, <2>1, <2>4, <3>1
      <4>2. PICK g : g = Booked'
        OBVIOUS
      <4>3. g[row] \in Int /\ \A t \in TxOf(u) : Booked[t] = g[t]
        BY <2>3, <4>1, <4>2
      <4>4. SumFunctionOnSet(g, TxOf(u) \cup {row}) = SumFunctionOnSet(Booked, TxOf(u)) + g[row]
        BY <4>1, <4>3, SumAdd, SMTT(30)
      <4> QED
        BY <4>2, <4>4
    <3>3. c \in Unbooked(u) /\ Unbooked(u)' = Unbooked(u) \ {c}
      BY <1>1, <1>2, <2>5 DEF Unbooked
    <3>4. SumFunctionOnSet(Moves, Unbooked(u)) = Moves[c] + SumFunctionOnSet(Moves, Unbooked(u) \ {c})
      BY <2>1, <3>3, SumRemove
    <3>5. Moves[c] = row.amount
      BY <1>2 DEF Moves
    <3>6. SumFunctionOnSet(Moves, Unbooked(u) \ {c}) \in Int
      <4>1. IsFiniteSet(Unbooked(u) \ {c}) /\ Ints(Moves, Unbooked(u) \ {c})
        BY <2>1, FS_RemoveElement DEF Ints
      <4> QED
        BY <4>1, SumType
    <3> QED
      BY <1>2, <2>1, <2>2, <2>4, <3>1, <3>2, <3>3, <3>4, <3>5, <3>6
  <2>6. CASE u # call[c].user
    <3>1. TxOf(u)' = TxOf(u) /\ Unbooked(u)' = Unbooked(u)
      BY <1>1, <1>2, <2>6 DEF TxOf, Unbooked
    <3>2. SumFunctionOnSet(Booked, TxOf(u)) = SumFunctionOnSet(Booked', TxOf(u))
      BY <2>1, <2>3, SumEqual
    <3> QED
      BY <2>2, <3>1, <3>2
  <2> QED
    BY <2>5, <2>6
<1> QED
  BY <1>1, <1>4, <1>5, <1>6 DEF LedgerInv, BalanceInv

\* update_user: what the edit changes is drift.
LEMMA WriteLedger ==
    ASSUME RequestInv, LedgerInv, NEW c \in Calls, Write(c)
    PROVE  LedgerInv'
<1>0. RequestType /\ CallsFit /\ LedgerType /\ TxFits /\ BalanceInv
  BY DEF RequestInv, LedgerInv
<1> DEFINE w == call[c].user
<1>1. /\ UNCHANGED <<users, call, moved, tx>> /\ w \in Users /\ c \notin moved
      /\ call[c].target \in Int
      /\ balance' = [balance EXCEPT ![w] = call[c].target]
      /\ drift' = [drift EXCEPT ![w] = @ + call[c].target - balance[w]]
      /\ \A d \in moved : pc'[d] = pc[d]
  BY <1>0 DEF Write, Goto, requests, CallsFit, RequestType, CallType
<1> HIDE DEF w
<1>2. LedgerType' /\ TxFits'
  BY <1>0, <1>1 DEF LedgerType, TxFits, RequestType
<1>3. ASSUME NEW u \in users
      PROVE  balance'[u] = InitBalance[u] + drift'[u] + SumFunctionOnSet(Booked', TxOf(u)')
                           + SumFunctionOnSet(Moves', Unbooked(u)')
  <2>0. u \in Users
    BY <1>0 DEF RequestType
  <2>1. Booked' = Booked /\ TxOf(u)' = TxOf(u) /\ Moves' = Moves /\ Unbooked(u)' = Unbooked(u)
    BY <1>1 DEF Booked, TxOf, Moves, Unbooked
  <2>2. balance[u] = InitBalance[u] + drift[u] + SumFunctionOnSet(Booked, TxOf(u))
                     + SumFunctionOnSet(Moves, Unbooked(u))
    BY <1>0 DEF BalanceInv
  <2>3. /\ u = w => balance'[u] = call[c].target /\ drift'[u] = drift[u] + call[c].target - balance[u]
        /\ u # w => balance'[u] = balance[u] /\ drift'[u] = drift[u]
    BY <1>0, <1>1, <2>0 DEF RequestType, LedgerType
  <2> QED
    BY <1>0, <1>1, <2>0, <2>1, <2>2, <2>3, SumsFinite
<1> QED
  BY <1>1, <1>2, <1>3 DEF LedgerInv, BalanceInv

\* A deleted user's rows go; nobody else's do.
LEMMA DeletionLedger ==
    ASSUME RequestInv, LedgerInv, NEW v \in Users, DeleteUser(v)
    PROVE  LedgerInv'
<1>0. RequestType /\ LedgerType /\ TxFits /\ BalanceInv
  BY DEF RequestInv, LedgerInv
<1>1. /\ users' = users \ {v} /\ tx' = {t \in tx : t.user # v}
      /\ UNCHANGED <<balance, pc, call, moved, drift>>
  BY DEF DeleteUser
<1>2. LedgerType'
  <2>1. IsFiniteSet(tx')
    BY <1>0, <1>1, FS_Subset DEF LedgerType
  <2> QED
    BY <1>0, <1>1, <2>1 DEF LedgerType
<1>3. TxFits'
  BY <1>0, <1>1 DEF LedgerType, TxFits
<1>4. ASSUME NEW u \in users, u # v
      PROVE  balance'[u] = InitBalance[u] + drift'[u] + SumFunctionOnSet(Booked', TxOf(u)')
                           + SumFunctionOnSet(Moves', Unbooked(u)')
  <2>0. u \in Users
    BY <1>0 DEF RequestType
  <2>1. TxOf(u)' = TxOf(u) /\ Moves' = Moves
    BY <1>1, <1>4 DEF TxOf, Moves
  <2>2. Unbooked(u)' = Unbooked(u)
    BY <1>0, <1>1, <1>4 DEF Unbooked, LedgerType
  <2>3. \A t \in TxOf(u) : Booked[t] = Booked'[t]
    BY <1>1, <1>4 DEF Booked, TxOf
  <2>4. SumFunctionOnSet(Booked, TxOf(u)) = SumFunctionOnSet(Booked', TxOf(u))
    BY <1>0, <2>0, <2>3, SumsFinite, SumEqual
  <2> QED
    BY <1>0, <1>1, <2>1, <2>2, <2>4 DEF BalanceInv
<1> QED
  BY <1>1, <1>2, <1>3, <1>4 DEF LedgerInv, BalanceInv

LEMMA LedgerInit == Init => LedgerInv
<1> SUFFICES ASSUME Init PROVE LedgerInv
  OBVIOUS
<1>1. LedgerType /\ TxFits
  BY FS_EmptySet DEF Init, LedgerType, TxFits
<1>2. ASSUME NEW u \in Users
      PROVE  balance[u] = InitBalance[u] + drift[u] + SumFunctionOnSet(Booked, TxOf(u))
                          + SumFunctionOnSet(Moves, Unbooked(u))
  <2>1. TxOf(u) = {} /\ Unbooked(u) = {} /\ drift[u] = 0 /\ balance[u] = InitBalance[u]
    BY DEF Init, TxOf, Unbooked
  <2> QED
    BY <2>1, SumEmpty, RechargeAssumption
<1> QED
  BY <1>1, <1>2 DEF Init, LedgerInv, BalanceInv

LEMMA LedgerNext == RequestInv /\ LedgerInv /\ [Next]_vars => LedgerInv'
<1> SUFFICES ASSUME RequestInv, LedgerInv, [Next]_vars PROVE LedgerInv'
  OBVIOUS
<1>0. RequestType /\ CallsFit
  BY DEF RequestInv
<1>1. CASE UNCHANGED vars
  BY <1>0, <1>1, QuietKeeps DEF vars, requests
<1>2. ASSUME NEW c \in Calls,
             \/ \E r \in Requests : Create(c, r)
             \/ \E r \in Requests, kind \in {"approve", "reject"} :
                   Resolve(c, r, kind) \/ ResolveByTelegram(c, r, kind)
             \/ \E u \in Users, amount \in Recharges : Recharge(c, u, amount) \/ RechargeByTelegram(c, u, amount)
             \/ \E u \in Users, target \in Targets : Adjust(c, u, target) \/ Edit(c, u, target)
      PROVE  LedgerInv'
  <2>1. /\ UNCHANGED <<users, balance, moved, tx, drift>> /\ pc[c] = "idle"
        /\ \A d \in Calls \ {c} : pc'[d] = pc[d] /\ call'[d] = call[d]
    BY <1>0, <1>2 DEF Create, Resolve, ResolveByTelegram, StartResolve, Recharge, RechargeByTelegram,
                      StartRecharge, Adjust, Edit, Goto, RequestType
  <2>2. c \notin moved
    BY <1>0, <2>1 DEF CallsFit
  <2>3. \A d \in moved : call'[d] = call[d] /\ pc'[d] = pc[d]
    BY <1>0, <2>1, <2>2 DEF RequestType
  <2> QED
    BY <1>0, <2>1, <2>3, QuietKeeps
<1>3. ASSUME NEW c \in Calls,
             \/ Notify(c) \/ SaveMessage(c) \/ ResolveRefused(c) \/ Reject(c) \/ SetApproved(c)
             \/ Sync(c) \/ ApplyRefused(c) \/ RowGone(c) \/ HandlerDies(c)
      PROVE  LedgerInv'
  <2>1. /\ UNCHANGED <<users, balance, call, moved, tx, drift>>
        /\ \A d \in Calls \ {c} : pc'[d] = pc[d]
        /\ pc'[c] # "credited"
        /\ pc[c] \notin {"settle", "sync"} => c \notin moved \/ pc'[c] = "dead"
    BY <1>0, <1>3 DEF Notify, SaveMessage, ResolveRefused, Reject, SetApproved, Sync, ApplyRefused,
                      RowGone, HandlerDies, Goto, requests, RequestType, CallsFit
  <2>2. \A d \in moved : /\ pc'[d] = "credited" => pc[d] = "credited"
                         /\ pc'[d] \in {"settle", "sync", "done"}
                               => pc[d] \in {"settle", "sync", "done"}
    BY <1>0, <2>1 DEF RequestType
  <2> QED
    BY <1>0, <2>1, <2>2, QuietKeeps
<1> QED
  BY <1>1, <1>2, <1>3, MoveLedger, BookLedger, WriteLedger, DeletionLedger DEF Next, Handler

\* Whenever everything that was moved on a user's balance has got past its
\* Transaction, transactions and plain edits explain the balance, for any
\* calls, amounts and interleavings of the two channels.
THEOREM LedgerExplains == Spec => []LedgerExplainsBalance
<1>1. ASSUME RequestInv, LedgerInv PROVE LedgerExplainsBalance
  <2> SUFFICES ASSUME NEW u \in users,
                      \A c \in moved : call[c].user = u => pc[c] \notin {"credited", "dead"}
               PROVE  balance[u] = InitBalance[u] + drift[u] + SumFunctionOnSet(Booked, TxOf(u))
    BY DEF LedgerExplainsBalance
  <2>1. Unbooked(u) = {}
    BY <1>1 DEF RequestInv, CallsFit, LedgerInv, TxFits, Unbooked
  <2>2. u \in Users /\ SumFunctionOnSet(Moves, Unbooked(u)) = 0
    BY <1>1, <2>1, SumEmpty DEF RequestInv, RequestType
  <2> QED
    BY <1>1, <2>2, SumsFinite DEF RequestInv, LedgerInv, BalanceInv
<1> QED
  BY <1>1, RequestInit, RequestNext, LedgerInit, LedgerNext, PTL DEF Spec

-----------------------------------------------------------------------------
(* The buttons of a Telegram message.  The id of a request's message, once   *)
(* saved, is there for every later resolution, so that from then on a live   *)
(* button of a resolved request has a resolver that has yet to clear it.     *)

MessageType ==
    /\ message \in [Requests -> {"none", "sent", "edited"}]
    /\ notified \subseteq Requests
    /\ faults \in Nat
    /\ \A r \in Requests : status[r] = "new" => message[r] = "none"

\* Only the call that created a request announces it, and does so once.
CallsNameRequests ==
    \A c \in Calls :
       /\ call[c].kind \in {"create", "approve", "reject"} => call[c].req \in Requests
       /\ pc[c] \in {"notify", "notified", "resolve", "settle", "sync"}
             => call[c].kind \in {"create", "approve", "reject"}

AnnouncedOnce ==
    \A c \in Calls : pc[c] = "notify" =>
       /\ status[call[c].req] # "new" /\ message[call[c].req] = "none"
       /\ \A d \in Calls : pc[d] = "notify" /\ call[d].req = call[c].req => d = c

MessageInv == MessageType /\ CallsNameRequests /\ AnnouncedOnce

\* What holds of request r from the moment its message's id is saved while it is pending.
Syncing(r) == \E c \in Calls : pc[c] = "sync" /\ call[c].req = r
Cleared(r) ==
    faults = 0 =>
       /\ r \in notified /\ message[r] \in {"sent", "edited"}
       /\ \A c \in Calls : pc[c] = "notify" => call[c].req # r
       /\ message[r] = "sent" /\ status[r] \in Resolved => Syncing(r)

StaysCleared == \A r \in Requests : Cleared(r) => Cleared(r)'

LEMMA MessageInit == Init => MessageInv
BY RechargeAssumption DEF Init, MessageInv, MessageType, CallsNameRequests, AnnouncedOnce, NoCall

\* A call that begins, other than the creation of a request.
LEMMA MessageBegins ==
    ASSUME RequestType, MessageInv, NEW c \in Calls, pc[c] = "idle", NEW x,
           NEW to \in Stages, to \notin {"notify", "notified", "settle", "sync"}, Goto(c, to),
           call' = [call EXCEPT ![c] = x],
           x.kind \in {"create", "approve", "reject"} => x.req \in Requests,
           to = "resolve" => x.kind \in {"create", "approve", "reject"},
           UNCHANGED <<status, message, notified, faults>>
    PROVE  MessageInv' /\ StaysCleared
<1>1. /\ \A d \in Calls \ {c} : pc'[d] = pc[d] /\ call'[d] = call[d]
      /\ pc'[c] = to /\ call'[c] = x
  BY DEF RequestType, Goto
<1>2. MessageInv'
  BY <1>1 DEF MessageInv, MessageType, CallsNameRequests, AnnouncedOnce
<1>3. ASSUME NEW r \in Requests, Cleared(r) PROVE Cleared(r)'
  <2>1. Syncing(r) => Syncing(r)'
    BY <1>1 DEF Syncing
  <2> QED
    BY <1>1, <1>3, <2>1 DEF Cleared
<1> QED
  BY <1>2, <1>3 DEF StaysCleared

LEMMA MessageCreated ==
    ASSUME RequestType, MessageInv, NEW c \in Calls, NEW r \in Requests, Create(c, r)
    PROVE  MessageInv' /\ StaysCleared
<1>1. /\ \A d \in Calls \ {c} : pc'[d] = pc[d] /\ call'[d] = call[d]
      /\ pc[c] = "idle" /\ pc'[c] = "notify" /\ call'[c].req = r /\ call'[c].kind = "create"
      /\ status[r] = "new" /\ status' = [status EXCEPT ![r] = "pending"]
      /\ UNCHANGED <<message, notified, faults>>
  BY DEF Create, Goto, RequestType, NoCall, CallType
<1>2. message[r] = "none" /\ \A d \in Calls : pc[d] = "notify" => call[d].req # r
  BY <1>1 DEF MessageInv, MessageType, AnnouncedOnce
<1>3. MessageType' /\ CallsNameRequests'
  BY <1>1, <1>2 DEF RequestType, MessageInv, MessageType, CallsNameRequests
<1>4. AnnouncedOnce'
  BY <1>1, <1>2 DEF RequestType, MessageInv, AnnouncedOnce, CallsNameRequests
<1>5. ASSUME NEW q \in Requests, Cleared(q) PROVE Cleared(q)'
  <2>1. Syncing(q) => Syncing(q)'
    BY <1>1 DEF Syncing
  <2>2. status'[q] \in Resolved => status[q] \in Resolved
    BY <1>1 DEF RequestType, Resolved
  <2> QED
    BY <1>1, <1>2, <1>5, <2>1, <2>2 DEF Cleared
<1> QED
  BY <1>3, <1>4, <1>5 DEF MessageInv, StaysCleared

\* A call that goes on: it announces, resolves or clears its own request only.
LEMMA MessageGoesOn ==
    ASSUME RequestType, MessageInv, NEW c \in Calls, Handler(c)
    PROVE  MessageInv' /\ StaysCleared
<1>0. /\ CallsNameRequests /\ AnnouncedOnce /\ MessageType /\ faults' = faults
      /\ \A d \in Calls \ {c} : pc'[d] = pc[d] /\ call'[d] = call[d]
      /\ call'[c].kind = call[c].kind /\ call'[c].req = call[c].req
  BY ZenonT(60) DEF MessageInv, Handler, Notify, SaveMessage, ResolveRefused, Reject, Approve, SetApproved, Sync,
         Apply, ApplyRefused, Book, Write, RowGone, Goto, RequestType, CallType
<1>1. CASE Notify(c)
  <2>1. /\ call[c].req \in Requests /\ pc[c] = "notify" /\ pc'[c] \in {"notified", "done"}
        /\ message' \in {message, [message EXCEPT ![call[c].req] = "sent"]}
        /\ UNCHANGED <<status, notified>>
    BY <1>0, <1>1 DEF Notify, Goto, RequestType, CallsNameRequests
  <2>2. MessageInv'
    BY <1>0, <2>1 DEF MessageInv, MessageType, CallsNameRequests, AnnouncedOnce
  <2>3. ASSUME NEW r \in Requests, Cleared(r) PROVE Cleared(r)'
    <3>1. Syncing(r) => Syncing(r)'
      BY <1>0, <2>1 DEF Syncing
    <3> QED
      BY <1>0, <2>1, <2>3, <3>1 DEF Cleared, MessageType
  <2> QED
    BY <2>2, <2>3 DEF StaysCleared
<1>2. CASE SaveMessage(c)
  <2>1. /\ call[c].req \in Requests /\ pc[c] = "notified" /\ pc'[c] = "done"
        /\ notified' = notified \cup {call[c].req} /\ UNCHANGED <<status, message>>
    BY <1>0, <1>2 DEF SaveMessage, Goto, RequestType, CallsNameRequests
  <2>2. MessageInv'
    BY <1>0, <2>1 DEF MessageInv, MessageType, CallsNameRequests, AnnouncedOnce
  <2>3. ASSUME NEW r \in Requests, Cleared(r) PROVE Cleared(r)'
    <3>1. Syncing(r) => Syncing(r)'
      BY <1>0, <2>1 DEF Syncing
    <3> QED
      BY <1>0, <2>1, <2>3, <3>1 DEF Cleared
  <2> QED
    BY <2>2, <2>3 DEF StaysCleared
<1>3. CASE Reject(c) \/ SetApproved(c)
  <2>1. /\ call[c].req \in Requests /\ pc[c] \in {"resolve", "settle"} /\ pc'[c] = "sync"
        /\ \E s \in Resolved : status' = [status EXCEPT ![call[c].req] = s]
        /\ UNCHANGED <<message, notified>>
    BY <1>0, <1>3 DEF Reject, SetApproved, Goto, RequestType, CallsNameRequests, Resolved
  <2>2. MessageInv'
    BY <1>0, <2>1 DEF MessageInv, MessageType, CallsNameRequests, AnnouncedOnce, Resolved, RequestType
  <2>3. ASSUME NEW r \in Requests, Cleared(r) PROVE Cleared(r)'
    <3>1. Syncing(r) \/ r = call[c].req => Syncing(r)'
      BY <1>0, <2>1 DEF Syncing
    <3>2. r # call[c].req => status'[r] = status[r]
      BY <2>1 DEF RequestType
    <3> QED
      BY <1>0, <2>1, <2>3, <3>1, <3>2 DEF Cleared
  <2> QED
    BY <2>2, <2>3 DEF StaysCleared
<1>4. CASE Sync(c)
  <2>1. /\ call[c].req \in Requests /\ pc[c] = "sync" /\ pc'[c] = "done"
        /\ \A r \in Requests : r # call[c].req => message'[r] = message[r]
        /\ message' \in [Requests -> {"none", "sent", "edited"}]
        /\ message[call[c].req] = "none" => message'[call[c].req] = "none"
        /\ message[call[c].req] # "none" /\ call[c].req \in notified => message'[call[c].req] = "edited"
        /\ UNCHANGED <<status, notified>>
    BY <1>0, <1>4 DEF Sync, Goto, RequestType, CallsNameRequests, MessageType
  <2>2. MessageInv'
    BY <1>0, <2>1 DEF MessageInv, MessageType, CallsNameRequests, AnnouncedOnce
  <2>3. ASSUME NEW r \in Requests, Cleared(r) PROVE Cleared(r)'
    <3>1. Syncing(r) /\ r # call[c].req => Syncing(r)'
      BY <1>0, <2>1 DEF Syncing
    <3> QED
      BY <1>0, <2>1, <2>3, <3>1 DEF Cleared
  <2> QED
    BY <2>2, <2>3 DEF StaysCleared
<1>5. CASE \/ ResolveRefused(c) \/ Approve(c) \/ Apply(c) \/ ApplyRefused(c)
           \/ Book(c) \/ Write(c) \/ RowGone(c)
  <2>1. /\ pc[c] # "sync" /\ pc'[c] \notin {"notify", "notified", "resolve", "sync"}
        /\ pc'[c] = "settle" => call[c].kind = "approve"
        /\ UNCHANGED <<status, message, notified>>
    BY <1>5 DEF ResolveRefused, Approve, Apply, ApplyRefused, Book, Write, RowGone, Goto, RequestType, requests
  <2>2. MessageInv'
    BY <1>0, <2>1 DEF MessageInv, MessageType, CallsNameRequests, AnnouncedOnce
  <2>3. ASSUME NEW r \in Requests, Cleared(r) PROVE Cleared(r)'
    <3>1. Syncing(r) => Syncing(r)'
      BY <1>0, <2>1 DEF Syncing
    <3> QED
      BY <1>0, <2>1, <2>3, <3>1 DEF Cleared
  <2> QED
    BY <2>2, <2>3 DEF StaysCleared
<1> QED
  BY <1>1, <1>2, <1>3, <1>4, <1>5 DEF Handler

LEMMA MessageNext == RequestInv /\ MessageInv /\ [Next]_vars => MessageInv' /\ StaysCleared
<1> SUFFICES ASSUME RequestInv, MessageInv, [Next]_vars PROVE MessageInv' /\ StaysCleared
  OBVIOUS
<1>0. RequestType
  BY DEF RequestInv
<1>1. CASE UNCHANGED vars
  BY <1>1 DEF vars, requests, MessageInv, MessageType, CallsNameRequests, AnnouncedOnce,
              StaysCleared, Cleared, Syncing
<1>2. ASSUME NEW c \in Calls, NEW r \in Requests, NEW kind \in {"approve", "reject"}, NEW via \in Channels,
             StartResolve(c, r, kind, via)
      PROVE  MessageInv' /\ StaysCleared
  <2> DEFINE x == [NoCall EXCEPT !.kind = kind, !.user = Owner[r], !.req = r,
                                 !.amount = Amount[r], !.via = via]
  <2>1. /\ call' = [call EXCEPT ![c] = x] /\ Goto(c, "resolve") /\ pc[c] = "idle"
        /\ UNCHANGED <<status, message, notified, faults>>
    BY <1>2 DEF StartResolve, requests
  <2>2. x.kind \in {"approve", "reject"} /\ x.req \in Requests
    BY DEF NoCall
  <2> HIDE DEF x
  <2> QED
    BY <1>0, <2>1, <2>2, MessageBegins DEF Stages
<1>3. ASSUME NEW c \in Calls, NEW u \in Users, NEW amount \in Recharges, NEW via \in Channels,
             StartRecharge(c, u, amount, via)
      PROVE  MessageInv' /\ StaysCleared
  <2> DEFINE x == [NoCall EXCEPT !.kind = "recharge", !.user = u, !.amount = amount, !.via = via]
  <2>1. /\ call' = [call EXCEPT ![c] = x] /\ Goto(c, "apply") /\ pc[c] = "idle"
        /\ UNCHANGED <<status, message, notified, faults>>
    BY <1>3 DEF StartRecharge, requests
  <2>2. x.kind = "recharge"
    BY DEF NoCall
  <2> HIDE DEF x
  <2> QED
    BY <1>0, <2>1, <2>2, MessageBegins DEF Stages
<1>4. ASSUME NEW c \in Calls, NEW u \in Users, NEW target \in Targets, Adjust(c, u, target)
      PROVE  MessageInv' /\ StaysCleared
  <2> DEFINE x == [NoCall EXCEPT !.kind = "adjust", !.user = u, !.amount = target - balance[u],
                                 !.target = target]
  <2>1. /\ call' = [call EXCEPT ![c] = x] /\ Goto(c, "apply") /\ pc[c] = "idle"
        /\ UNCHANGED <<status, message, notified, faults>>
    BY <1>4 DEF Adjust, requests
  <2>2. x.kind = "adjust"
    BY DEF NoCall
  <2> HIDE DEF x
  <2> QED
    BY <1>0, <2>1, <2>2, MessageBegins DEF Stages
<1>5. ASSUME NEW c \in Calls, NEW u \in Users, NEW target \in Targets, Edit(c, u, target)
      PROVE  MessageInv' /\ StaysCleared
  <2> DEFINE x == [NoCall EXCEPT !.kind = "edit", !.user = u, !.target = target]
  <2>1. /\ call' = [call EXCEPT ![c] = x] /\ pc[c] = "idle"
        /\ Goto(c, "done") \/ Goto(c, "write")
        /\ UNCHANGED <<status, message, notified, faults>>
    BY <1>5 DEF Edit, requests
  <2>2. x.kind = "edit"
    BY DEF NoCall
  <2> HIDE DEF x
  <2> QED
    BY <1>0, <2>1, <2>2, MessageBegins DEF Stages
<1>6. ASSUME NEW c \in Calls, HandlerDies(c)
      PROVE  MessageInv' /\ StaysCleared
  <2>1. /\ faults' = faults + 1 /\ UNCHANGED <<message, notified, call>>
        /\ \A d \in Calls : pc'[d] \in {pc[d], "dead"}
        /\ UNCHANGED status
    BY <1>0, <1>6 DEF HandlerDies, Fault, Goto, requests, RequestType
  <2>2. MessageInv'
    BY <2>1 DEF MessageInv, MessageType, CallsNameRequests, AnnouncedOnce
  <2>3. faults' # 0
    BY <2>1 DEF MessageInv, MessageType
  <2> QED
    BY <2>2, <2>3 DEF StaysCleared, Cleared
<1>7. ASSUME NEW u \in Users, DeleteUser(u) PROVE MessageInv' /\ StaysCleared
  <2>1. /\ faults' = faults + 1 /\ UNCHANGED <<message, notified, call, pc>>
        /\ \A r \in Requests : status'[r] \in {status[r], "gone"}
    BY <1>0, <1>7 DEF DeleteUser, Fault, RequestType
  <2>2. MessageInv'
    BY <2>1 DEF MessageInv, MessageType, CallsNameRequests, AnnouncedOnce
  <2>3. faults' # 0
    BY <2>1 DEF MessageInv, MessageType
  <2> QED
    BY <2>2, <2>3 DEF StaysCleared, Cleared
<1> QED
  BY <1>0, <1>1, <1>2, <1>3, <1>4, <1>5, <1>6, <1>7, MessageCreated, MessageGoesOn
  DEF Next, Resolve, ResolveByTelegram, Recharge, RechargeByTelegram, Channels

\* Once the id of its message is saved while a request is pending, no later
\* resolution, by whichever channel, ends with a live button, unless a fault strikes.
THEOREM SavedMessageCleared == Spec => SavedMessageIsCleared
<1>1. ASSUME NEW r \in Requests
      PROVE  Spec => [](status[r] = "pending" /\ message[r] = "sent" /\ r \in notified
                => [](status[r] \in Resolved /\ faults = 0 /\ InFlight = {} => message[r] = "edited"))
  <2>1. MessageInv /\ status[r] = "pending" /\ message[r] = "sent" /\ r \in notified => Cleared(r)
    BY DEF Cleared, MessageInv, AnnouncedOnce, Resolved
  <2>2. Cleared(r) => (status[r] \in Resolved /\ faults = 0 /\ InFlight = {} => message[r] = "edited")
    BY DEF Cleared, Syncing, InFlight
  <2>3. RequestInv /\ MessageInv /\ Cleared(r) /\ [Next]_vars => Cleared(r)'
    BY MessageNext DEF StaysCleared
  <2> QED
    BY <2>1, <2>2, <2>3, RequestInit, RequestNext, MessageInit, MessageNext, PTL DEF Spec
<1> QED
  BY <1>1 DEF SavedMessageIsCleared
=============================================================================
