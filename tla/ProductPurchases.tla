-------------------------- MODULE ProductPurchases --------------------------
(***************************************************************************)
(* Extras a user buys (ProductPurchaseManager) and the stock they are      *)
(* taken from (InventoryService.record_movement): debited at once, then    *)
(* fulfilled or rejected by an administrator from the web or Telegram.     *)
(*                                                                         *)
(* A step ends at a commit.  record_movement and adjust_balance commit in  *)
(* the middle of resolve(), and with that give up the lock get_for_resolve *)
(* took on the purchase.                                                   *)
(***************************************************************************)
EXTENDS Accounts, FiniteSets, Functions

CONSTANTS Purchases,            \* create_purchase calls; each makes at most one row
          Buyer, Product,       \* who buys what,
          Quantity, Total,      \* how much of it, and the cents that come to at
                                \* the price of the moment
          Products, Items,      \* Product and InventoryItem rows
          ItemOf,               \* Product.inventory_item_id to begin with, or NoItem
          Resolvers,            \* resolve calls
          Deltas, MaxMoves,     \* manual stock movements, and a bound on them
          InitBalance, InitStock,
          MaxChanges,           \* bound on edits and deletions of products
          MaxFaults,            \* bound on raised exceptions and deletions of users
          NoItem

ASSUME PurchaseAssumption ==
    /\ Buyer \in [Purchases -> Users] /\ Product \in [Purchases -> Products]
    /\ Quantity \in [Purchases -> Nat \ {0}] /\ Total \in [Purchases -> Nat]
    /\ ItemOf \in [Products -> Items \cup {NoItem}]
    /\ Deltas \subseteq Int /\ MaxMoves \in Nat
    /\ InitBalance \in [Users -> Int] /\ InitStock \in [Items -> Int]
    /\ MaxChanges \in Nat /\ MaxFaults \in Nat
    /\ NoItem \notin Items /\ NoItem \notin Purchases
    /\ Purchases \cap Resolvers = {}

VARIABLES shop,        \* each product: active, inactive or gone
          linked,      \* Product.inventory_item_id, or NoItem
          changes,     \* how often products were changed
          stock,       \* InventoryItem.current_stock
          counted,     \* the sum of each item's manual movements
          moves,       \* how many there were
          sales,       \* resolve calls with a PRODUCT_SALE movement
          from,        \* InventoryMovement.item_id of that movement, or NoItem
          status,      \* ProductPurchase.status, "none" before and "gone" after the row
          pc, call,    \* how far each call has come; what each resolve call is about
          paid,        \* history: calls whose adjust_balance succeeded
          tx,          \* calls with a Transaction row
          met,         \* history: purchases two resolve calls dealt with at a time
          faults       \* exceptions and deletions of users so far

products  == <<shop, linked, changes>>
inventory == <<stock, counted, moves, sales, from>>
vars == <<users, balance, products, inventory, status, pc, call, paid, tx, met, faults>>

Callers  == Purchases \cup Resolvers
Resolved == {"fulfilled", "rejected"}
Ended    == {"refused", "done", "dead"}
NoCall   == [action |-> "none", of |-> NoItem]

ItemFor(p)  == linked[Product[p]]
Tracked(p)  == shop[Product[p]] # "gone" /\ ItemFor(p) # NoItem
InFlight    == {c \in Callers : pc[c] # "idle" /\ pc[c] \notin Ended}
PurchaseOf(c) == IF c \in Purchases THEN c ELSE call[c].of

Fault       == faults < MaxFaults /\ faults' = faults + 1
Goto(c, to) == pc' = [pc EXCEPT ![c] = to]

Init ==
    /\ users = Users /\ balance = InitBalance
    /\ shop = [x \in Products |-> "active"] /\ linked = ItemOf /\ changes = 0
    /\ stock = InitStock
    /\ counted = [i \in Items |-> 0] /\ moves = 0
    /\ sales = {} /\ from = [c \in Resolvers |-> NoItem]
    /\ status = [p \in Purchases |-> "none"]
    /\ pc   = [c \in Callers |-> "idle"]
    /\ call = [c \in Resolvers |-> NoCall]
    /\ paid = {} /\ tx = {} /\ met = {} /\ faults = 0

-----------------------------------------------------------------------------
(* POST /products/{id}/purchase.                                             *)

Debit(p) ==
    /\ pc[p] = "idle" /\ shop[Product[p]] = "active"
    /\ AdjustBalance(Buyer[p], -Total[p], TRUE)
    /\ paid' = paid \cup {p}
    /\ Goto(p, "debited")
    /\ UNCHANGED <<users, products, inventory, status, call, tx, met, faults>>

\* 404, 409 or 402.
DebitRefused(p) ==
    /\ pc[p] = "idle"
    /\ shop[Product[p]] = "active" => ~CanAdjust(Buyer[p], -Total[p], TRUE)
    /\ Goto(p, "refused")
    /\ UNCHANGED <<users, balance, products, inventory, status, call, paid, tx, met, faults>>

\* The product is read again after the commit, the buyer is referenced.
Create(p) ==
    /\ pc[p] = "debited" /\ shop[Product[p]] # "gone" /\ Buyer[p] \in users
    /\ status' = [status EXCEPT ![p] = "pending"]
    /\ Goto(p, "created")
    /\ UNCHANGED <<users, balance, products, inventory, call, paid, tx, met, faults>>

Book(p) ==
    /\ pc[p] = "created" /\ shop[Product[p]] # "gone" /\ status[p] # "gone"
    /\ tx' = tx \cup {p}
    /\ Goto(p, "done")
    /\ UNCHANGED <<users, balance, products, inventory, status, call, paid, met, faults>>

-----------------------------------------------------------------------------
(* ProductPurchaseManager.resolve, from either channel.                      *)

Resolve(c, p, action) ==
    /\ pc[c] = "idle" /\ status[p] # "none"
    /\ call' = [call EXCEPT ![c] = [action |-> action, of |-> p]]
    /\ met' = IF \E d \in InFlight \cap Resolvers : call[d].of = p THEN met \cup {p} ELSE met
    /\ Goto(c, "resolve")
    /\ UNCHANGED <<users, balance, products, inventory, status, paid, tx, faults>>

\* Call c has the lock on its purchase, which is pending.
Locked(c, action) == /\ pc[c] = "resolve" /\ call[c].action = action
                     /\ status[call[c].of] = "pending"

\* 404 or 409.
ResolveRefused(c) ==
    /\ pc[c] = "resolve" /\ status[call[c].of] # "pending"
    /\ Goto(c, "refused")
    /\ UNCHANGED <<users, balance, products, inventory, status, call, paid, tx, met, faults>>

\* Mutant: the status of the purchase is not asked.
TakeAnyway(c) ==
    LET p == call[c].of
    IN  /\ pc[c] = "resolve" /\ call[c].action = "fulfill" /\ Tracked(p)
        /\ stock' = [stock EXCEPT ![ItemFor(p)] = @ - Quantity[p]]
        /\ sales' = sales \cup {c} /\ from' = [from EXCEPT ![c] = ItemFor(p)]
        /\ Goto(c, "taken")
        /\ UNCHANGED <<users, balance, products, counted, moves, status, call, paid, tx, met, faults>>

\* The lock lasts to the commit of the movement, which comes before the status.
TakeStock(c) ==
    LET p == call[c].of
    IN  /\ Locked(c, "fulfill") /\ Tracked(p)
        /\ stock' = [stock EXCEPT ![ItemFor(p)] = @ - Quantity[p]]
        /\ sales' = sales \cup {c} /\ from' = [from EXCEPT ![c] = ItemFor(p)]
        /\ Goto(c, "taken")
        /\ UNCHANGED <<users, balance, products, counted, moves, status, call, paid, tx, met, faults>>

\* The product is gone or has no stock: nothing commits before the status.
FulfillUntracked(c) ==
    /\ Locked(c, "fulfill") /\ ~Tracked(call[c].of)
    /\ status' = [status EXCEPT ![call[c].of] = "fulfilled"]
    /\ Goto(c, "done")
    /\ UNCHANGED <<users, balance, products, inventory, call, paid, tx, met, faults>>

\* The UPDATE sets the status whatever it is by now.
Fulfill(c) ==
    /\ pc[c] = "taken" /\ status[call[c].of] # "gone"
    /\ status' = [status EXCEPT ![call[c].of] = "fulfilled"]
    /\ Goto(c, "done")
    /\ UNCHANGED <<users, balance, products, inventory, call, paid, tx, met, faults>>

\* Mutant: the commit of adjust_balance also saves the status.
RefundWithStatus(c) ==
    LET p == call[c].of
    IN  /\ Locked(c, "reject")
        /\ AdjustBalance(Buyer[p], Total[p], FALSE)
        /\ status' = [status EXCEPT ![p] = "rejected"]
        /\ paid' = paid \cup {c}
        /\ Goto(c, "refunded")
        /\ UNCHANGED <<users, products, inventory, call, tx, met, faults>>

\* Mutant: the status of the purchase is not asked.
RefundAnyway(c) ==
    LET p == call[c].of
    IN  /\ pc[c] = "resolve" /\ call[c].action = "reject"
        /\ AdjustBalance(Buyer[p], Total[p], FALSE)
        /\ paid' = paid \cup {c}
        /\ Goto(c, "refunded")
        /\ UNCHANGED <<users, products, inventory, status, call, tx, met, faults>>

\* The lock lasts to the commit of adjust_balance.  The buyer exists as long as
\* the purchase does.
Refund(c) ==
    LET p == call[c].of
    IN  /\ Locked(c, "reject")
        /\ AdjustBalance(Buyer[p], Total[p], FALSE)
        /\ paid' = paid \cup {c}
        /\ Goto(c, "refunded")
        /\ UNCHANGED <<users, products, inventory, status, call, tx, met, faults>>

\* Mutant: a purchase that was fulfilled meanwhile gets no Transaction.
RejectPending(c) ==
    LET p == call[c].of
    IN  /\ pc[c] = "refunded" /\ status[p] # "gone"
        /\ tx' = IF status[p] = "pending" THEN tx \cup {c} ELSE tx
        /\ status' = [status EXCEPT ![p] = "rejected"]
        /\ Goto(c, "done")
        /\ UNCHANGED <<users, balance, products, inventory, call, paid, met, faults>>

\* The Transaction and the status, in one commit.
Reject(c) ==
    /\ pc[c] = "refunded" /\ status[call[c].of] # "gone"
    /\ tx' = tx \cup {c}
    /\ status' = [status EXCEPT ![call[c].of] = "rejected"]
    /\ Goto(c, "done")
    /\ UNCHANGED <<users, balance, products, inventory, call, paid, met, faults>>

-----------------------------------------------------------------------------
(* The other routes.                                                         *)

\* POST /inventory/{item}/adjust and /restock.
MoveStock(i, delta) ==
    /\ moves < MaxMoves /\ moves' = moves + 1
    /\ stock' = [stock EXCEPT ![i] = @ + delta]
    /\ counted' = [counted EXCEPT ![i] = @ + delta]
    /\ UNCHANGED <<users, balance, products, sales, from, status, pc, call, paid, tx, met, faults>>

\* PATCH /products/{id}: a product is linked to another item, or to its first
\* one, and never to none.  An edit of the price is seen in Total alone: a purchase
\* carries the cents it was debited.
UpdateProduct(x, to, i) ==
    /\ shop[x] # "gone" /\ <<to, i>> # <<shop[x], linked[x]>>
    /\ changes < MaxChanges /\ changes' = changes + 1
    /\ shop' = [shop EXCEPT ![x] = to]
    /\ linked' = [linked EXCEPT ![x] = i]
    /\ UNCHANGED <<users, balance, inventory, status, pc, call, paid, tx, met, faults>>

\* DELETE /products/{id}; purchases keep a NULL product_id.
DeleteProduct(x) ==
    /\ shop[x] # "gone"
    /\ changes < MaxChanges /\ changes' = changes + 1
    /\ shop' = [shop EXCEPT ![x] = "gone"]
    /\ UNCHANGED <<users, balance, linked, inventory, status, pc, call, paid, tx, met, faults>>

\* The user's purchases and transactions go with the user.
DeleteUser(u) ==
    /\ u \in users /\ Fault
    /\ users' = users \ {u}
    /\ status' = [p \in Purchases |-> IF Buyer[p] = u /\ status[p] # "none"
                                      THEN "gone" ELSE status[p]]
    /\ tx' = {c \in tx : Buyer[PurchaseOf(c)] # u}
    /\ UNCHANGED <<balance, products, inventory, pc, call, paid, met>>

\* A handler updates, reads or references a row that is gone: it raises.
RowGone(c) ==
    /\ \/ pc[c] = "debited" /\ (shop[Product[c]] = "gone" \/ Buyer[c] \notin users)
       \/ pc[c] = "created" /\ (shop[Product[c]] = "gone" \/ status[c] = "gone")
       \/ pc[c] \in {"taken", "refunded"} /\ status[call[c].of] = "gone"
    /\ Goto(c, "dead")
    /\ UNCHANGED <<users, balance, products, inventory, status, call, paid, tx, met, faults>>

HandlerDies(c) ==
    /\ c \in InFlight /\ Fault
    /\ Goto(c, "dead")
    /\ UNCHANGED <<users, balance, products, inventory, status, call, paid, tx, met>>

Next ==
    \/ \E p \in Purchases : Debit(p) \/ DebitRefused(p) \/ Create(p) \/ Book(p)
    \/ \E c \in Resolvers :
          \/ \E p \in Purchases, action \in {"fulfill", "reject"} : Resolve(c, p, action)
          \/ ResolveRefused(c) \/ TakeStock(c) \/ FulfillUntracked(c) \/ Fulfill(c)
          \/ Refund(c) \/ Reject(c)
    \/ \E c \in Callers : RowGone(c) \/ HandlerDies(c)
    \/ \E i \in Items, delta \in Deltas : MoveStock(i, delta)
    \/ \E x \in Products :
          \/ \E to \in {"active", "inactive"}, i \in Items \cup {linked[x]} : UpdateProduct(x, to, i)
          \/ DeleteProduct(x)
    \/ \E u \in Users : DeleteUser(u)

Spec == Init /\ [][Next]_vars

-----------------------------------------------------------------------------
\* Every variable keeps its type.
TypeOK ==
    /\ users \subseteq Users /\ balance \in [Users -> Int]
    /\ shop \in [Products -> {"active", "inactive", "gone"}]
    /\ linked \in [Products -> Items \cup {NoItem}] /\ changes \in 0 .. MaxChanges
    /\ stock \in [Items -> Int] /\ counted \in [Items -> Int] /\ moves \in 0 .. MaxMoves
    /\ sales \subseteq Resolvers /\ from \in [Resolvers -> Items \cup {NoItem}]
    /\ status \in [Purchases -> {"none", "pending", "gone"} \cup Resolved]
    /\ pc \in [Callers -> {"idle", "debited", "created", "resolve", "taken", "refunded"}
                          \cup Ended]
    /\ call \in [Resolvers -> [action : {"none", "fulfill", "reject"},
                               of : Purchases \cup {NoItem}]]
    /\ paid \subseteq Callers /\ tx \subseteq Callers
    /\ met \subseteq Purchases
    /\ faults \in 0 .. MaxFaults

\* The resolve calls that gave the buyer of p the price back, or took stock for p.
RefundsOf(p) == {c \in paid \cap Resolvers : call[c].of = p}
SalesOf(p)   == {c \in sales : call[c].of = p}

\* Nobody resolved p while somebody else did, or was cut short at it.
InTurn(p) == p \notin met /\ \A c \in Resolvers : call[c].of = p => pc[c] # "dead"

\* However late, repeated or contradictory the button presses on web and
\* Telegram, a purchase resolved by one call at a time is either handed over or
\* paid back, and once.
SettledOnceInTurn ==
    \A p \in Purchases :
       InTurn(p) => Cardinality(RefundsOf(p)) + Cardinality(SalesOf(p)) <= 1

\* A purchase shown as rejected has been paid back and has the Transaction to
\* show for it, also when a fulfilment overlapped the rejection.
RejectedIsRefunded ==
    \A p \in Purchases : status[p] = "rejected" => \E c \in tx \cap RefundsOf(p) : TRUE

\* Purchases a call that took stock of item i marked as fulfilled, and that are
\* fulfilled still, or deleted with their buyer.
HandedFrom(i) ==
    {p \in Purchases : /\ status[p] \in {"fulfilled", "gone"}
                       /\ \E c \in Resolvers : call[c].of = p /\ from[c] = i /\ pc[c] = "done"}

\* What manual movements and the table of purchases leave of item i.
StockBySales(i) == InitStock[i] + counted[i] - SumFunctionOnSet(Quantity, HandedFrom(i))

\* What was handed over has left the stock of the item its product was linked to at
\* the time, whatever was edited, deleted, relinked or cut short since; and an item
\* has lost nothing else, once each call that took from it has set its status, in turn.
StockMatchesSales ==
    \A i \in Items :
       /\ stock[i] <= StockBySales(i)
       /\ (\A c \in Resolvers : from[c] = i => InTurn(call[c].of) /\ pc[c] # "taken")
             => stock[i] = StockBySales(i)

\* What a call that was paid moved; the Transactions of user u.
Entry   == [c \in paid |-> IF c \in Purchases THEN -Total[c] ELSE Total[call[c].of]]
TxOf(u) == {c \in tx : Buyer[PurchaseOf(c)] = u}

\* Whenever every change of a user's balance has got past its Transaction, the
\* transactions explain the balance.
LedgerExplainsBalance ==
    \A u \in users :
       (\A c \in paid : Buyer[PurchaseOf(c)] = u => pc[c] = "done") =>
          balance[u] = InitBalance[u] + SumFunctionOnSet(Entry, TxOf(u))
=============================================================================
