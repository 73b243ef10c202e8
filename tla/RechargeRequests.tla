-------------------------- MODULE RechargeRequests --------------------------
(***************************************************************************)
(* Balance changes an administrator authorizes, from the web or from       *)
(* Telegram: recharge requests (RechargeRequestResolver), recharges and    *)
(* adjustments (LedgerService), and the plain edit of a user row           *)
(* (UserService.update_user).                                              *)
(*                                                                         *)
(* Each call runs in a database session of its own and a step ends at a    *)
(* commit, which also gives up the lock that get_for_resolve took on the   *)
(* request.  The Telegram message about a web request is sent and saved    *)
(* after the request itself was committed.                                 *)
(***************************************************************************)
EXTENDS Accounts, FiniteSets, Functions

CONSTANTS Calls,            \* handler invocations
          Requests,         \* RechargeRequest rows that may be created
          Owner, Amount,    \* the user and the amount of each request
          Recharges,        \* the amounts a recharge is asked for, in cents
          Targets,          \* the balances an adjustment or an edit asks for
          InitBalance,
          MaxFaults,        \* bound on raised exceptions and deleted users
          NoRequest

ASSUME RechargeAssumption ==
    /\ Owner \in [Requests -> Users]
    /\ Amount \in [Requests -> Nat \ {0}]
    /\ Recharges \subseteq Int /\ Targets \subseteq Int
    /\ InitBalance \in [Users -> Int]
    /\ MaxFaults \in Nat
    /\ NoRequest \notin Requests

VARIABLES status,           \* RechargeRequest.status, "new" before and "gone" after the row
          message,          \* the Telegram message about each request
          notified,         \* requests whose notified_message_id is set
          pc, call,         \* how far each invocation has come, and what it is about
          moved,            \* history: the invocations whose adjust_balance succeeded
          tx,               \* Transaction rows, each with the invocation it is from
          drift,            \* history: what edits of the row added to each balance
          faults            \* exceptions and deletions so far

requests == <<status, message, notified>>
vars == <<users, balance, requests, pc, call, moved, tx, drift, faults>>

Resolved == {"approved", "rejected"}
Channels == {"web", "telegram"}
Kinds    == {"create", "approve", "reject", "recharge", "adjust", "edit"}
NoUser   == NoRequest
NoCall   == [kind |-> "none", user |-> NoUser, req |-> NoRequest, amount |-> 0,
             target |-> 0, after |-> 0, via |-> "web"]

InFlight == {c \in Calls : pc[c] \notin {"idle", "refused", "done", "dead"}}

\* The approvals of request r that have credited its owner.
CreditsOf(r) == {c \in moved : call[c].kind = "approve" /\ call[c].req = r}

Fault       == faults < MaxFaults /\ faults' = faults + 1
Goto(c, to) == pc' = [pc EXCEPT ![c] = to]

\* A request that exists already was made through the bot.
Init ==
    /\ users = Users /\ balance = InitBalance
    /\ status \in [Requests -> {"new", "pending"}]
    /\ message  = [r \in Requests |-> "none"]
    /\ notified = {}
    /\ pc   = [c \in Calls |-> "idle"]
    /\ call = [c \in Calls |-> NoCall]
    /\ moved = {} /\ tx = {}
    /\ drift = [u \in Users |-> 0]
    /\ faults = 0

-----------------------------------------------------------------------------
(* POST /recharge-request: the row first, then the message to the admin,     *)
(* then the message's id.                                                    *)

Create(c, r) ==
    /\ pc[c] = "idle" /\ status[r] = "new" /\ Owner[r] \in users
    /\ status' = [status EXCEPT ![r] = "pending"]
    /\ call' = [call EXCEPT ![c] = [NoCall EXCEPT !.kind = "create", !.user = Owner[r],
                                                  !.req = r]]
    /\ Goto(c, "notify")
    /\ UNCHANGED <<users, balance, message, notified, moved, tx, drift, faults>>

\* The text names the user, read again after the commit.
Notify(c) ==
    /\ pc[c] = "notify" /\ call[c].user \in users
    /\ \/ message' = [message EXCEPT ![call[c].req] = "sent"] /\ Goto(c, "notified")
       \/ message' = message /\ Goto(c, "done")            \* Telegram did not take it
    /\ UNCHANGED <<users, balance, status, notified, call, moved, tx, drift, faults>>

SaveMessage(c) ==
    /\ pc[c] = "notified" /\ status[call[c].req] # "gone"
    /\ notified' = notified \cup {call[c].req}
    /\ Goto(c, "done")
    /\ UNCHANGED <<users, balance, status, message, call, moved, tx, drift, faults>>

-----------------------------------------------------------------------------
(* PATCH /recharge-request/{id} and /telegram/recharge-requests/{id}.        *)

StartResolve(c, r, kind, via) ==
    /\ pc[c] = "idle" /\ status[r] # "new"
    /\ call' = [call EXCEPT ![c] = [NoCall EXCEPT !.kind = kind, !.user = Owner[r], !.req = r,
                                                  !.amount = Amount[r], !.via = via]]
    /\ Goto(c, "resolve")
    /\ UNCHANGED <<users, balance, requests, moved, tx, drift, faults>>

Resolve(c, r, kind)           == StartResolve(c, r, kind, "web")
ResolveByTelegram(c, r, kind) == StartResolve(c, r, kind, "telegram")

\* 404 or 409.
ResolveRefused(c) ==
    /\ pc[c] = "resolve" /\ status[call[c].req] # "pending"
    /\ Goto(c, "refused")
    /\ UNCHANGED <<users, balance, requests, call, moved, tx, drift, faults>>

\* Mutant: a request that is already resolved can be rejected.
RejectAnyway(c) ==
    /\ pc[c] = "resolve" /\ call[c].kind = "reject" /\ status[call[c].req] # "gone"
    /\ status' = [status EXCEPT ![call[c].req] = "rejected"]
    /\ Goto(c, "sync")
    /\ UNCHANGED <<users, balance, message, notified, call, moved, tx, drift, faults>>

\* The lock on the request is held from the read to this commit.
Reject(c) ==
    /\ pc[c] = "resolve" /\ call[c].kind = "reject" /\ status[call[c].req] = "pending"
    /\ status' = [status EXCEPT ![call[c].req] = "rejected"]
    /\ Goto(c, "sync")
    /\ UNCHANGED <<users, balance, message, notified, call, moved, tx, drift, faults>>

\* Mutant: the status of the request is not asked.
ApproveAnyway(c) ==
    /\ pc[c] = "resolve" /\ call[c].kind = "approve"
    /\ AdjustBalance(call[c].user, call[c].amount, FALSE)
    /\ call' = [call EXCEPT ![c].after = balance[call[c].user] + call[c].amount]
    /\ moved' = moved \cup {c}
    /\ Goto(c, "credited")
    /\ UNCHANGED <<users, requests, tx, drift, faults>>

\* The lock is held from the read to the commit of adjust_balance, which comes
\* before the status is set.
Approve(c) ==
    /\ pc[c] = "resolve" /\ call[c].kind = "approve" /\ status[call[c].req] = "pending"
    /\ AdjustBalance(call[c].user, call[c].amount, FALSE)
    /\ call' = [call EXCEPT ![c].after = balance[call[c].user] + call[c].amount]
    /\ moved' = moved \cup {c}
    /\ Goto(c, "credited")
    /\ UNCHANGED <<users, requests, tx, drift, faults>>

\* Mutant: a request that was rejected meanwhile stays rejected.
SetApprovedIfPending(c) ==
    /\ pc[c] = "settle" /\ status[call[c].req] # "gone"
    /\ status' = [status EXCEPT ![call[c].req] = IF @ = "pending" THEN "approved" ELSE @]
    /\ Goto(c, "sync")
    /\ UNCHANGED <<users, balance, message, notified, call, moved, tx, drift, faults>>

\* The UPDATE sets the status whatever it is by now.
SetApproved(c) ==
    /\ pc[c] = "settle" /\ status[call[c].req] # "gone"
    /\ status' = [status EXCEPT ![call[c].req] = "approved"]
    /\ Goto(c, "sync")
    /\ UNCHANGED <<users, balance, message, notified, call, moved, tx, drift, faults>>

\* Mutant: the message is left to the bot.
SyncByBot(c) ==
    LET r == call[c].req
    IN  /\ pc[c] = "sync"
        /\ message' = IF message[r] = "sent" /\ call[c].via = "telegram"
                      THEN [message EXCEPT ![r] = "edited"] ELSE message
        /\ Goto(c, "done")
        /\ UNCHANGED <<users, balance, status, notified, call, moved, tx, drift, faults>>

\* The web route edits the message whose id is saved; after a button press the
\* bot edits the message the button is on.
Sync(c) ==
    LET r == call[c].req
    IN  /\ pc[c] = "sync"
        /\ message' = IF message[r] = "sent" /\ (call[c].via = "web" => r \in notified)
                      THEN [message EXCEPT ![r] = "edited"] ELSE message
        /\ Goto(c, "done")
        /\ UNCHANGED <<users, balance, status, notified, call, moved, tx, drift, faults>>

-----------------------------------------------------------------------------
(* LedgerService: record_recharge and record_adjustment, from both channels. *)

StartRecharge(c, u, amount, via) ==
    /\ pc[c] = "idle" /\ u \in users
    /\ call' = [call EXCEPT ![c] = [NoCall EXCEPT !.kind = "recharge", !.user = u,
                                                  !.amount = amount, !.via = via]]
    /\ Goto(c, "apply")
    /\ UNCHANGED <<users, balance, requests, moved, tx, drift, faults>>

\* Only the web route asks for a positive amount.
Recharge(c, u, amount)           == amount > 0 /\ StartRecharge(c, u, amount, "web")
RechargeByTelegram(c, u, amount) == StartRecharge(c, u, amount, "telegram")

\* The difference is taken from the balance the route has read.
Adjust(c, u, target) ==
    /\ pc[c] = "idle" /\ u \in users
    /\ call' = [call EXCEPT ![c] = [NoCall EXCEPT !.kind = "adjust", !.user = u,
                                                  !.amount = target - balance[u],
                                                  !.target = target]]
    /\ Goto(c, "apply")
    /\ UNCHANGED <<users, balance, requests, moved, tx, drift, faults>>

Apply(c) ==
    /\ pc[c] = "apply"
    /\ AdjustBalance(call[c].user, call[c].amount, call[c].kind = "adjust")
    /\ call' = [call EXCEPT ![c].after = balance[call[c].user] + call[c].amount]
    /\ moved' = moved \cup {c}
    /\ Goto(c, "credited")
    /\ UNCHANGED <<users, requests, tx, drift, faults>>

ApplyRefused(c) ==
    /\ pc[c] = "apply"
    /\ ~CanAdjust(call[c].user, call[c].amount, call[c].kind = "adjust")
    /\ Goto(c, "refused")
    /\ UNCHANGED <<users, balance, requests, call, moved, tx, drift, faults>>

\* Mutant: an adjustment books the balance it was asked for, not the change.
BookTarget(c) ==
    /\ pc[c] = "credited"
    /\ call[c].user \in users /\ (call[c].kind = "approve" => status[call[c].req] # "gone")
    /\ tx' = tx \cup {[by |-> c, user |-> call[c].user, kind |-> call[c].kind,
                       amount |-> IF call[c].kind = "adjust" THEN call[c].target
                                  ELSE call[c].amount,
                       after |-> call[c].after]}
    /\ Goto(c, IF call[c].kind = "approve" THEN "settle" ELSE "done")
    /\ UNCHANGED <<users, balance, requests, call, moved, drift, faults>>

\* create_transaction; its foreign keys are the user and the request.
Book(c) ==
    /\ pc[c] = "credited"
    /\ call[c].user \in users /\ (call[c].kind = "approve" => status[call[c].req] # "gone")
    /\ tx' = tx \cup {[by |-> c, user |-> call[c].user, kind |-> call[c].kind,
                       amount |-> call[c].amount, after |-> call[c].after]}
    /\ Goto(c, IF call[c].kind = "approve" THEN "settle" ELSE "done")
    /\ UNCHANGED <<users, balance, requests, call, moved, drift, faults>>

-----------------------------------------------------------------------------
(* PATCH /user/{id} with a balance: the row is read, then overwritten unless *)
(* it was read with that very balance.  No Transaction is written.           *)

Edit(c, u, target) ==
    /\ pc[c] = "idle" /\ u \in users
    /\ call' = [call EXCEPT ![c] = [NoCall EXCEPT !.kind = "edit", !.user = u,
                                                  !.target = target]]
    /\ Goto(c, IF balance[u] = target THEN "done" ELSE "write")
    /\ UNCHANGED <<users, balance, requests, moved, tx, drift, faults>>

Write(c) ==
    LET u == call[c].user
    IN  /\ pc[c] = "write" /\ u \in users
        /\ balance' = [balance EXCEPT ![u] = call[c].target]
        /\ drift' = [drift EXCEPT ![u] = @ + call[c].target - balance[u]]
        /\ Goto(c, "done")
        /\ UNCHANGED <<users, requests, call, moved, tx, faults>>

-----------------------------------------------------------------------------
\* A row the handler updates, reads or references is gone: it raises.
RowGone(c) ==
    /\ \/ pc[c] \in {"notify", "credited", "write"} /\ call[c].user \notin users
       \/ pc[c] \in {"notified", "settle"} /\ status[call[c].req] = "gone"
    /\ Goto(c, "dead")
    /\ UNCHANGED <<users, balance, requests, call, moved, tx, drift, faults>>

\* In Sync also: Telegram does not take the edit, and the message stays.
HandlerDies(c) ==
    /\ c \in InFlight /\ Fault
    /\ Goto(c, "dead")
    /\ UNCHANGED <<users, balance, requests, call, moved, tx, drift>>

\* The user's requests and transactions go with the user.
DeleteUser(u) ==
    /\ u \in users /\ Fault
    /\ users' = users \ {u}
    /\ status' = [r \in Requests |-> IF Owner[r] = u THEN "gone" ELSE status[r]]
    /\ tx' = {t \in tx : t.user # u}
    /\ UNCHANGED <<balance, message, notified, pc, call, moved, drift>>

Handler(c) ==
    \/ Notify(c) \/ SaveMessage(c)
    \/ ResolveRefused(c) \/ Reject(c) \/ Approve(c) \/ SetApproved(c) \/ Sync(c)
    \/ Apply(c) \/ ApplyRefused(c) \/ Book(c) \/ Write(c) \/ RowGone(c)

Next ==
    \/ \E c \in Calls :
          \/ \E r \in Requests : Create(c, r)
          \/ \E r \in Requests, kind \in {"approve", "reject"} :
                Resolve(c, r, kind) \/ ResolveByTelegram(c, r, kind)
          \/ \E u \in Users, amount \in Recharges :
                Recharge(c, u, amount) \/ RechargeByTelegram(c, u, amount)
          \/ \E u \in Users, target \in Targets : Adjust(c, u, target) \/ Edit(c, u, target)
          \/ Handler(c)
          \/ HandlerDies(c)
    \/ \E u \in Users : DeleteUser(u)

\* A handler that has started runs on.
Fairness == \A c \in Calls : WF_vars(Handler(c))

Spec == Init /\ [][Next]_vars /\ Fairness

-----------------------------------------------------------------------------
Stages   == {"idle", "notify", "notified", "resolve", "apply", "credited", "settle", "sync",
             "write", "refused", "done", "dead"}
CallType == [kind : Kinds \cup {"none"}, user : Users \cup {NoUser},
             req : Requests \cup {NoRequest}, amount : Int, target : Int, after : Int,
             via : Channels]

\* Every variable keeps its type.
TypeOK ==
    /\ users \subseteq Users /\ balance \in [Users -> Int]
    /\ status \in [Requests -> {"new", "pending", "gone"} \cup Resolved]
    /\ message \in [Requests -> {"none", "sent", "edited"}]
    /\ notified \subseteq Requests
    /\ pc \in [Calls -> Stages] /\ call \in [Calls -> CallType]
    /\ moved \subseteq Calls
    /\ tx \subseteq [by : Calls, user : Users, kind : {"approve", "recharge", "adjust"},
                     amount : Int, after : Int]
    /\ drift \in [Users -> Int]
    /\ faults \in 0 .. MaxFaults

\* An approval that has credited and not yet set the status.
Crediting(r) == \E c \in CreditsOf(r) : pc[c] \in {"credited", "settle"}

\* A request shown as rejected has put no money on a balance, whichever of the
\* web and Telegram resolvers overlapped: at most an approval still on its way,
\* which will then show it as approved, or one that an exception cut short.
RejectedIsUncredited ==
    \A r \in Requests : status[r] = "rejected" =>
       \A c \in CreditsOf(r) : pc[c] \in {"credited", "settle", "dead"}

\* Once a request is resolved and no approval is half done, no late, repeated
\* or stale resolve changes its status or its owner's balance.
SettledStaysSettled ==
    [][\A r \in Requests : status[r] \in Resolved /\ ~Crediting(r) =>
          /\ status'[r] \in {status[r], "gone"}
          /\ CreditsOf(r)' = CreditsOf(r)]_vars

\* A request whose approval has credited its owner ends up approved, also when
\* a rejection came in between, unless a fault strikes.
CreditedIsApproved ==
    \A r \in Requests : CreditsOf(r) # {} ~> (status[r] = "approved" \/ faults > 0)

\* Once the id of its message is saved while a request is pending, no button is left
\* live when it has been resolved, over whichever channel, unless a fault strikes.  (A
\* resolution that overtakes the saving of the id leaves one: recharge_request.py:234.)
SavedMessageIsCleared ==
    \A r \in Requests :
       [](status[r] = "pending" /\ message[r] = "sent" /\ r \in notified
            => [](status[r] \in Resolved /\ faults = 0 /\ InFlight = {} => message[r] = "edited"))

\* The Transaction rows of user u.
TxOf(u) == {t \in tx : t.user = u}
Booked  == [t \in tx |-> t.amount]

\* Whenever every change that adjust_balance made to a user's balance has got
\* past its Transaction, the transactions and the plain edits of the row
\* explain the balance: no change is booked twice, with another amount, or
\* without having been made.
LedgerExplainsBalance ==
    \A u \in users :
       (\A c \in moved : call[c].user = u => pc[c] \notin {"credited", "dead"}) =>
          balance[u] = InitBalance[u] + drift[u] + SumFunctionOnSet(Booked, TxOf(u))

\* From the comments: a request handled from both channels credits once.
CreditedAtMostOnce == \A r \in Requests : Cardinality(CreditsOf(r)) <= 1
=============================================================================
