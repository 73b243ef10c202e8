----------------------- MODULE ProductPurchasesProofs -----------------------
(***************************************************************************)
(* Theorems about ProductPurchases.                                        *)
(*                                                                         *)
(* BaseInv holds however resolve calls overlap: it says what a call has    *)
(* moved by how far it has come, and that a rejection has its Transaction. *)
(* TurnInv is about a purchase whose calls took turns and lived: one runs  *)
(* at a time, one has moved money or stock at most, and it has changed the *)
(* status since or is about to.                                            *)
(***************************************************************************)
EXTENDS ProductPurchases, SumProofs, TLAPS

Running == {"resolve", "taken", "refunded"}

\* The types of the variables the argument is about.
PurchaseType ==
    /\ status \in [Purchases -> {"none", "pending", "gone"} \cup Resolved]
    /\ pc \in [Callers -> {"idle", "debited", "created"} \cup Running \cup Ended]
    /\ call \in [Resolvers -> [action : {"none", "fulfill", "reject"}, of : Purchases \cup {NoItem}]]
    /\ paid \subseteq Callers /\ sales \subseteq Resolvers

\* What a resolve call has moved, by how far it has come.
Fits(c) ==
    /\ pc[c] \notin {"debited", "created"}
    /\ pc[c] # "idle" => call[c].of \in Purchases /\ status[call[c].of] # "none"
    /\ pc[c] \in {"idle", "resolve"} => c \notin paid /\ c \notin sales
    /\ pc[c] = "taken" => c \in sales
    /\ pc[c] = "refunded" => c \in paid
    /\ c \notin paid \/ c \notin sales

\* A purchase has no row before it is created.
NoRowYet == \A p \in Purchases : /\ pc[p] \notin Running
                                 /\ pc[p] \in {"idle", "debited"} => status[p] = "none"

BaseInv == /\ PurchaseType /\ NoRowYet /\ RejectedIsRefunded
           /\ \A c \in Resolvers : Fits(c)

About(c, p) == call[c].of = p /\ pc[c] \in Running
Moves(p)    == RefundsOf(p) \cup SalesOf(p)

TurnInv(p) ==
    /\ \A c, d \in Resolvers : About(c, p) /\ About(d, p) => c = d
    /\ \A c, d \in Moves(p) : c = d
    /\ \A c \in Moves(p) : status[p] # "pending" \/ pc[c] \in {"taken", "refunded"}

TurnsInv == \A p \in Purchases : InTurn(p) => TurnInv(p)

LEMMA PurchaseInit == Init => BaseInv /\ TurnsInv
BY PurchaseAssumption
   DEF Init, BaseInv, PurchaseType, NoRowYet, RejectedIsRefunded, Fits, TurnsInv, TurnInv, About, Moves,
       RefundsOf, SalesOf, NoCall, Running, Callers, Resolved

\* Rows are there or not as before, but for purchases that are created now.
Onward ==
    /\ \A p \in Purchases : /\ status[p] # "none" => status'[p] # "none"
                            /\ status'[p] = "pending" => status[p] \in {"none", "pending"}
                            /\ status'[p] = "rejected" /\ status[p] # "rejected"
                                  => \E c \in tx' \cap paid' \cap Resolvers : call'[c].of = p
                            /\ status'[p] = "rejected"
                                  => \A c \in tx \cap Resolvers : call[c].of = p => c \in tx'

-----------------------------------------------------------------------------
(* Steps of others than the resolve calls.                                   *)

\* They change no resolve call, and what these have moved.
LEMMA QuietKeeps ==
    ASSUME BaseInv, TurnsInv, PurchaseType', NoRowYet', Onward, UNCHANGED <<call, sales, met>>,
           \A c \in Resolvers : pc'[c] = pc[c] /\ (c \in paid' <=> c \in paid)
    PROVE  BaseInv' /\ TurnsInv'
<1>1. \A p \in Purchases : RefundsOf(p)' = RefundsOf(p) /\ SalesOf(p)' = SalesOf(p)
  BY DEF RefundsOf, SalesOf
<1>2. ASSUME NEW c \in Resolvers PROVE Fits(c)'
  BY <1>2 DEF BaseInv, Fits, Onward
<1>3. RejectedIsRefunded'
  <2> SUFFICES ASSUME NEW p \in Purchases, status'[p] = "rejected"
               PROVE  \E c \in tx' \cap RefundsOf(p)' : TRUE
    BY DEF RejectedIsRefunded
  <2>1. CASE status[p] = "rejected"
    <3>1. PICK c \in tx \cap RefundsOf(p) : TRUE
      BY <2>1 DEF BaseInv, RejectedIsRefunded
    <3>2. c \in Resolvers /\ call[c].of = p /\ c \in tx'
      BY <3>1 DEF RefundsOf, Onward
    <3> QED
      BY <1>1, <3>1, <3>2
  <2>2. CASE status[p] # "rejected"
    BY <2>2 DEF Onward, RefundsOf
  <2> QED
    BY <2>1, <2>2
<1>4. ASSUME NEW p \in Purchases, InTurn(p)' PROVE TurnInv(p)'
  <2>1. TurnInv(p)
    BY <1>4 DEF InTurn, TurnsInv
  <2>2. \A c \in Moves(p) : /\ c \in Resolvers /\ status[p] # "none"
    BY DEF Moves, RefundsOf, SalesOf, BaseInv, PurchaseType, Fits
  <2>3. \A c \in Resolvers : About(c, p)' => About(c, p)
    BY DEF About
  <2> QED
    BY <1>1, <2>1, <2>2, <2>3 DEF TurnInv, Moves, Onward
<1> QED
  BY <1>2, <1>3, <1>4 DEF BaseInv, TurnsInv

LEMMA PurchaseSteps ==
    ASSUME BaseInv, TurnsInv, NEW p \in Purchases,
           Debit(p) \/ DebitRefused(p) \/ Create(p) \/ Book(p) \/ RowGone(p) \/ HandlerDies(p)
    PROVE  BaseInv' /\ TurnsInv'
<1> USE PurchaseAssumption DEF Callers
<1>1. p \notin Resolvers /\ UNCHANGED <<call, sales, met>> /\ pc[p] \notin Running
  BY DEF Debit, DebitRefused, Create, Book, RowGone, HandlerDies, inventory, BaseInv, NoRowYet
<1>2. PICK to \in {"refused", "debited", "created", "done", "dead"} : Goto(p, to)
  BY DEF Debit, DebitRefused, Create, Book, RowGone, HandlerDies
<1>3. /\ tx \subseteq tx' /\ (paid' = paid \/ paid' = paid \cup {p})
      /\ \/ status' = status
         \/ status' = [status EXCEPT ![p] = "pending"] /\ pc[p] = "debited" /\ to = "created"
  <2>1. CASE Create(p)
    BY <1>2, <2>1 DEF Create, Goto, BaseInv, PurchaseType
  <2> QED
    BY <2>1 DEF Debit, DebitRefused, Book, RowGone, HandlerDies
<1>4. to = "debited" => pc[p] = "idle"
  BY <1>2 DEF Debit, DebitRefused, Create, Book, RowGone, HandlerDies, Goto, BaseInv, PurchaseType
<1>5. PurchaseType' /\ \A c \in Resolvers : pc'[c] = pc[c] /\ (c \in paid' <=> c \in paid)
  BY <1>1, <1>2, <1>3 DEF BaseInv, PurchaseType, Goto, Ended
<1>6. NoRowYet'
  BY <1>2, <1>3, <1>4 DEF BaseInv, PurchaseType, NoRowYet, Goto, Running
<1>7. Onward
  BY <1>1, <1>3 DEF BaseInv, PurchaseType, NoRowYet, Onward
<1> QED
  BY <1>1, <1>5, <1>6, <1>7, QuietKeeps

\* An administrator changes a product.
ChangesProduct(x) ==
    \/ \E to \in {"active", "inactive"}, i \in Items \cup {linked[x]} : UpdateProduct(x, to, i)
    \/ DeleteProduct(x)

LEMMA OtherSteps ==
    ASSUME BaseInv, TurnsInv,
           \/ \E i \in Items, delta \in Deltas : MoveStock(i, delta)
           \/ \E x \in Products : ChangesProduct(x)
           \/ \E u \in Users : DeleteUser(u)
    PROVE  BaseInv' /\ TurnsInv'
<1>1. CASE UNCHANGED <<status, pc, call, paid, sales, tx, met>>
  BY <1>1, QuietKeeps DEF BaseInv, PurchaseType, NoRowYet, Onward
<1>2. ASSUME NEW u \in Users, DeleteUser(u) PROVE BaseInv' /\ TurnsInv'
  <2>1. /\ UNCHANGED <<pc, call, paid, sales, met>>
        /\ status' = [p \in Purchases |-> IF Buyer[p] = u /\ status[p] # "none" THEN "gone" ELSE status[p]]
        /\ tx' = {c \in tx : Buyer[PurchaseOf(c)] # u}
    BY <1>2 DEF DeleteUser, inventory
  <2>2. PurchaseType' /\ NoRowYet'
    BY <2>1 DEF BaseInv, PurchaseType, NoRowYet
  <2>3. \A c \in Resolvers : PurchaseOf(c) = call[c].of
    BY PurchaseAssumption DEF PurchaseOf
  <2>4. Onward
    BY <2>1, <2>3 DEF Onward
  <2> QED
    BY <2>1, <2>2, <2>4, QuietKeeps
<1> QED
  BY <1>1, <1>2 DEF MoveStock, ChangesProduct, UpdateProduct, DeleteProduct, inventory

-----------------------------------------------------------------------------
(* Steps of the resolve calls.                                               *)

\* A step of call c about purchase p.
Step(c, p) ==
    /\ \A d \in Callers \ {c} : pc'[d] = pc[d]
    /\ \A d \in Resolvers \ {c} : /\ call'[d] = call[d]
                                  /\ (d \in paid' <=> d \in paid) /\ (d \in sales' <=> d \in sales)
    /\ \A q \in Purchases \ {p} : status'[q] = status[q]
    /\ tx \subseteq tx' /\ met \subseteq met'
    /\ call'[c].of = p /\ (pc[c] = "idle" \/ call'[c] = call[c])
    /\ paid \subseteq paid' /\ sales \subseteq sales'

LEMMA StepKeeps ==
    ASSUME BaseInv, TurnsInv, NEW c \in Resolvers, NEW p \in Purchases, Step(c, p), PurchaseType', Fits(c)',
           pc[c] # "dead", status[p] # "none", status'[p] # "none", status'[p] = "pending" => status[p] = "pending",
           status'[p] = "rejected" /\ status[p] # "rejected" => c \in tx' \cap paid',
           InTurn(p)' => TurnInv(p)'
    PROVE  BaseInv' /\ TurnsInv'
<1> USE PurchaseAssumption DEF Callers
<1>1. c \notin Purchases /\ \A q \in Purchases : pc'[q] = pc[q]
  BY DEF Step
<1>2. NoRowYet'
  BY <1>1 DEF BaseInv, NoRowYet, Step
<1>3. ASSUME NEW d \in Resolvers PROVE Fits(d)'
  <2>1. CASE d = c
    BY <2>1
  <2>2. CASE d # c
    <3>1. /\ pc'[d] = pc[d] /\ call'[d] = call[d] /\ (d \in paid' <=> d \in paid)
          /\ (d \in sales' <=> d \in sales) /\ Fits(d)
          /\ \A q \in Purchases : status[q] # "none" => status'[q] # "none"
      BY <2>2 DEF Step, BaseInv
    <3> QED
      BY <3>1 DEF Fits
  <2> QED
    BY <2>1, <2>2
<1>4. RejectedIsRefunded'
  <2> SUFFICES ASSUME NEW q \in Purchases, status'[q] = "rejected"
               PROVE  \E d \in tx' \cap RefundsOf(q)' : TRUE
    BY DEF RejectedIsRefunded
  <2>1. CASE status[q] = "rejected"
    <3>1. PICK d \in tx \cap RefundsOf(q) : TRUE
      BY <2>1 DEF BaseInv, RejectedIsRefunded
    <3>2. d \in Resolvers /\ d \in paid /\ call[d].of = q /\ d \in tx' /\ d \in paid' /\ call'[d].of = q
      BY <3>1 DEF RefundsOf, Step, BaseInv, Fits
    <3> QED
      BY <3>2 DEF RefundsOf
  <2>2. CASE status[q] # "rejected"
    BY <2>2 DEF Step, RefundsOf
  <2> QED
    BY <2>1, <2>2
<1>5. ASSUME NEW q \in Purchases, InTurn(q)', q # p PROVE TurnInv(q)'
  <2>1. TurnInv(q)
    BY <1>5 DEF InTurn, TurnsInv, Step
  <2>2. c \in paid \/ c \in sales \/ pc[c] \in Running => call[c].of = p
    BY DEF Step, BaseInv, Fits, Running
  <2>3. RefundsOf(q)' = RefundsOf(q) /\ SalesOf(q)' = SalesOf(q) /\ c \notin Moves(q)
    <3>1. \A d \in Resolvers : /\ d \in RefundsOf(q)' <=> d \in RefundsOf(q)
                               /\ d \in SalesOf(q)' <=> d \in SalesOf(q)
      BY <1>5, <2>2 DEF RefundsOf, SalesOf, Step, BaseInv, Fits
    <3>2. /\ RefundsOf(q) \subseteq Resolvers /\ RefundsOf(q)' \subseteq Resolvers
          /\ SalesOf(q) \subseteq Resolvers /\ SalesOf(q)' \subseteq Resolvers
      BY DEF RefundsOf, SalesOf, BaseInv, PurchaseType
    <3>3. c \notin Moves(q)
      BY <1>5, <2>2 DEF Moves, RefundsOf, SalesOf
    <3> QED
      BY <3>1, <3>2, <3>3
  <2>4. Moves(q) \subseteq Resolvers
    BY DEF Moves, RefundsOf, SalesOf, BaseInv, PurchaseType
  <2> QED
    BY <1>5, <2>1, <2>2, <2>3, <2>4 DEF TurnInv, Moves, About, Step
<1> QED
  BY <1>2, <1>3, <1>4, <1>5 DEF BaseInv, TurnsInv

\* A call goes on, alone with its purchase: what is left to show is what it moves.
LEMMA GoOnKeeps ==
    ASSUME BaseInv, TurnsInv, NEW c \in Resolvers, NEW p \in Purchases, Step(c, p), PurchaseType', Fits(c)',
           pc[c] \in Running, call[c].of = p, status'[p] # "none", status'[p] = "pending" => status[p] = "pending",
           status'[p] = "rejected" /\ status[p] # "rejected" => c \in tx' \cap paid',
           \/ c \notin paid' /\ c \notin sales'
           \/ c \in paid \/ c \in sales
           \/ status[p] = "pending" /\ pc[c] = "resolve",
           \/ c \notin paid' /\ c \notin sales'
           \/ status'[p] # "pending"
           \/ pc'[c] \in {"taken", "refunded", "dead"}
    PROVE  BaseInv' /\ TurnsInv'
<1>1. status[p] # "none" /\ pc[c] # "dead"
  BY DEF BaseInv, Fits, Running
<1>2. ASSUME InTurn(p)' PROVE TurnInv(p)'
  <2>1. TurnInv(p) /\ pc'[c] # "dead"
    BY <1>2 DEF InTurn, TurnsInv, Step, Running, Callers
  <2>2. \A d \in Resolvers : About(d, p)' => d = c
    BY <2>1 DEF TurnInv, About, Step, Callers
  <2>3. /\ Moves(p) \subseteq Resolvers
        /\ \A d \in Resolvers : d \in Moves(p) <=> call[d].of = p /\ (d \in paid \/ d \in sales)
    BY DEF Moves, RefundsOf, SalesOf, BaseInv, PurchaseType
  <2>4. /\ Moves(p)' \subseteq Resolvers
        /\ \A d \in Resolvers : d \in Moves(p)' <=> call'[d].of = p /\ (d \in paid' \/ d \in sales')
    BY DEF Moves, RefundsOf, SalesOf, PurchaseType
  <2>5. \A d \in Moves(p)' : d # c => d \in Moves(p)
    BY <2>3, <2>4 DEF Step
  <2>6. status[p] = "pending" /\ pc[c] = "resolve" => Moves(p) = {}
    <3>1. ASSUME NEW d \in Moves(p), status[p] = "pending", pc[c] = "resolve" PROVE FALSE
      <4>1. d \in Resolvers /\ pc[d] \in {"taken", "refunded"} /\ call[d].of = p
        BY <2>1, <2>3, <3>1 DEF TurnInv
      <4> QED
        BY <2>1, <3>1, <4>1 DEF TurnInv, About, Running
    <3> QED
      BY <3>1
  <2>7. \A d, e \in Moves(p)' : d = e
    BY <2>1, <2>3, <2>4, <2>5, <2>6 DEF TurnInv
  <2>8. ASSUME NEW d \in Moves(p)' PROVE status'[p] # "pending" \/ pc'[d] \in {"taken", "refunded"}
    <3>1. CASE d = c
      BY <2>1, <2>4, <2>8, <3>1
    <3>2. CASE d # c
      <4>1. d \in Moves(p) /\ pc'[d] = pc[d]
        BY <2>3, <2>4, <2>5, <2>8, <3>2 DEF Step, Callers
      <4> QED
        BY <2>1, <4>1 DEF TurnInv
    <3> QED
      BY <3>1, <3>2
  <2> QED
    BY <2>2, <2>7, <2>8 DEF TurnInv
<1> QED
  BY <1>1, <1>2, StepKeeps

-----------------------------------------------------------------------------
\* A call begins, alone with its purchase or not in turn.
LEMMA ResolveKeeps ==
    ASSUME BaseInv, TurnsInv, NEW c \in Resolvers, NEW p \in Purchases, NEW action \in {"fulfill", "reject"},
           Resolve(c, p, action)
    PROVE  BaseInv' /\ TurnsInv'
<1> USE DEF Callers
<1>1. /\ pc[c] = "idle" /\ status[p] # "none" /\ UNCHANGED <<status, paid, sales, tx>>
      /\ pc' = [pc EXCEPT ![c] = "resolve"]
      /\ call' = [call EXCEPT ![c] = [action |-> action, of |-> p]]
      /\ met \subseteq met'
      /\ p \notin met' => \A d \in InFlight \cap Resolvers : call[d].of # p
  BY DEF Resolve, inventory, Goto
<1>2. PurchaseType'
  BY <1>1 DEF BaseInv, PurchaseType, Running
<1>3. pc'[c] = "resolve" /\ call'[c].of = p /\ c \notin paid /\ c \notin sales
  BY <1>1 DEF BaseInv, PurchaseType, Fits
<1>4. Step(c, p)
  BY <1>1, <1>3 DEF Step, BaseInv, PurchaseType
<1>5. Fits(c)'
  BY <1>1, <1>3 DEF Fits
<1>6. ASSUME InTurn(p)' PROVE TurnInv(p)'
  <2>1. InTurn(p) /\ p \notin met'
    BY <1>1, <1>4, <1>6 DEF InTurn, Step
  <2>2. TurnInv(p)
    BY <2>1 DEF TurnsInv
  <2>3. \A d \in Resolvers : ~About(d, p)
    BY <1>1, <2>1 DEF About, InFlight, Running, Ended
  <2>4. \A d \in Resolvers : About(d, p)' => d = c
    BY <1>4, <2>3 DEF About, Step
  <2>5. \A d \in Resolvers : d \in Moves(p)' => d # c /\ d \in Moves(p)
    BY <1>1, <1>3, <1>4 DEF Moves, RefundsOf, SalesOf, Step
  <2>6. Moves(p)' \subseteq Resolvers
    BY <1>2 DEF Moves, RefundsOf, SalesOf, PurchaseType
  <2> QED
    BY <1>1, <1>4, <2>2, <2>4, <2>5, <2>6 DEF TurnInv, Step
<1> QED
  BY <1>1, <1>2, <1>4, <1>5, <1>6, StepKeeps

\* A call that goes on changes its place, and of its purchase the status at most.
LEMMA MovesOn ==
    ASSUME BaseInv, NEW c \in Resolvers, NEW to \in {"taken", "refunded", "refused", "done", "dead"},
           Goto(c, to), pc[c] \in Running, UNCHANGED <<call, met>>, tx \subseteq tx',
           paid' = paid \/ paid' = paid \cup {c}, sales' = sales \/ sales' = sales \cup {c},
           \/ status' = status
           \/ \E x \in Resolved : status' = [status EXCEPT ![call[c].of] = x]
    PROVE  /\ Step(c, call[c].of) /\ PurchaseType' /\ pc'[c] = to
           /\ call[c].of \in Purchases /\ status[call[c].of] # "none"
           /\ status'[call[c].of] \in {status[call[c].of]} \cup Resolved
           /\ \A x \in Resolved : status' = [status EXCEPT ![call[c].of] = x] => status'[call[c].of] = x
<1>1. call[c].of \in Purchases /\ status[call[c].of] # "none"
  BY DEF BaseInv, Fits, Running
<1>2. PurchaseType' /\ pc'[c] = to /\ \A d \in Callers \ {c} : pc'[d] = pc[d]
  BY <1>1 DEF BaseInv, PurchaseType, Goto, Running, Ended, Callers
<1>3. /\ status'[call[c].of] \in {status[call[c].of]} \cup Resolved
      /\ \A q \in Purchases \ {call[c].of} : status'[q] = status[q]
      /\ \A x \in Resolved : status' = [status EXCEPT ![call[c].of] = x] => status'[call[c].of] = x
  BY <1>1 DEF BaseInv, PurchaseType
<1> QED
  BY <1>1, <1>2, <1>3 DEF Step

\* A call that moves nothing, and gives its purchase an outcome or ends.
LEMMA OnlyMarks ==
    ASSUME BaseInv, TurnsInv, NEW c \in Resolvers, NEW p \in Purchases, Step(c, p), PurchaseType', Fits(c)',
           pc[c] \in Running, call[c].of = p, status'[p] # "none", status'[p] = "pending" => status[p] = "pending",
           status'[p] = "rejected" /\ status[p] # "rejected" => c \in tx' \cap paid',
           paid' = paid, sales' = sales, status'[p] # "pending" \/ pc'[c] = "dead"
    PROVE  BaseInv' /\ TurnsInv'
  BY GoOnKeeps

LEMMA ResolverSteps ==
    ASSUME BaseInv, TurnsInv, NEW c \in Resolvers,
           \/ ResolveRefused(c) \/ TakeStock(c) \/ FulfillUntracked(c) \/ Fulfill(c)
           \/ Refund(c) \/ Reject(c) \/ RowGone(c) \/ HandlerDies(c)
    PROVE  BaseInv' /\ TurnsInv'
<1> DEFINE p == call[c].of
<1> USE DEF inventory
<1>0. Fits(c)
  BY DEF BaseInv
<1>1. CASE ResolveRefused(c)
  <2>1. Step(c, p) /\ PurchaseType' /\ pc'[c] = "refused" /\ p \in Purchases /\ status[p] # "none"
    BY <1>1, MovesOn DEF ResolveRefused, Running
  <2> QED
    BY <1>0, <1>1, <2>1, GoOnKeeps DEF ResolveRefused, Fits, Running
<1>2. CASE TakeStock(c)
  <2>1. Step(c, p) /\ PurchaseType' /\ pc'[c] = "taken" /\ p \in Purchases /\ status[p] # "none"
    BY <1>2, MovesOn DEF TakeStock, Locked, Running
  <2> QED
    BY <1>0, <1>2, <2>1, GoOnKeeps DEF TakeStock, Locked, Fits, Running
<1>3. CASE Refund(c)
  <2>1. Step(c, p) /\ PurchaseType' /\ pc'[c] = "refunded" /\ p \in Purchases /\ status[p] # "none"
    BY <1>3, MovesOn DEF Refund, Locked, Running
  <2> QED
    BY <1>0, <1>3, <2>1, GoOnKeeps DEF Refund, Locked, Fits, Running
<1>4. CASE FulfillUntracked(c) \/ Fulfill(c)
  <2>1. /\ status' = [status EXCEPT ![p] = "fulfilled"] /\ Goto(c, "done") /\ pc[c] \in {"resolve", "taken"}
        /\ UNCHANGED <<call, paid, sales, tx, met>>
    BY <1>4 DEF FulfillUntracked, Fulfill, Locked
  <2>2. /\ Step(c, p) /\ PurchaseType' /\ pc'[c] = "done" /\ p \in Purchases /\ status[p] # "none"
        /\ status'[p] = "fulfilled"
    BY <2>1, MovesOn DEF Running, Resolved
  <2>3. Fits(c)'
    BY <1>0, <2>1, <2>2 DEF Fits
  <2>4. pc[c] \in Running /\ call[c].of = p
    BY <1>0, <2>1, <2>2 DEF Fits, Running
  <2>5. /\ status'[p] # "none" /\ (status'[p] = "pending" => status[p] = "pending")
        /\ status'[p] = "rejected" /\ status[p] # "rejected" => c \in tx' \cap paid'
    BY <2>1, <2>2, <2>4
  <2>6. paid' = paid /\ sales' = sales /\ (status'[p] # "pending" \/ pc'[c] = "dead")
    BY <2>1, <2>2
  <2> HIDE DEF p
  <2> QED
    BY <2>2, <2>3, <2>4, <2>5, <2>6, OnlyMarks
<1>5. CASE Reject(c)
  <2>1. /\ status' = [status EXCEPT ![p] = "rejected"] /\ Goto(c, "done") /\ pc[c] = "refunded"
        /\ UNCHANGED <<call, paid, sales, met>> /\ tx' = tx \cup {c}
    BY <1>5 DEF Reject
  <2>2. /\ Step(c, p) /\ PurchaseType' /\ pc'[c] = "done" /\ p \in Purchases /\ status[p] # "none"
        /\ status'[p] = "rejected"
    BY <2>1, MovesOn DEF Running, Resolved
  <2>3. Fits(c)'
    BY <1>0, <2>1, <2>2 DEF Fits
  <2>4. pc[c] \in Running /\ call[c].of = p /\ c \in tx' \cap paid'
    BY <1>0, <2>1, <2>2 DEF Fits, Running
  <2>5. /\ status'[p] # "none" /\ (status'[p] = "pending" => status[p] = "pending")
        /\ status'[p] = "rejected" /\ status[p] # "rejected" => c \in tx' \cap paid'
    BY <2>1, <2>2, <2>4
  <2>6. paid' = paid /\ sales' = sales /\ (status'[p] # "pending" \/ pc'[c] = "dead")
    BY <2>1, <2>2
  <2> HIDE DEF p
  <2> QED
    BY <2>2, <2>3, <2>4, <2>5, <2>6, OnlyMarks
<1>6. CASE RowGone(c) \/ HandlerDies(c)
  <2>1. /\ Goto(c, "dead") /\ UNCHANGED <<status, call, paid, sales, tx, met>>
        /\ pc[c] \in Running
    BY <1>0, <1>6 DEF RowGone, HandlerDies, InFlight, BaseInv, PurchaseType, Fits, Running
  <2>2. Step(c, p) /\ PurchaseType' /\ pc'[c] = "dead" /\ p \in Purchases /\ status[p] # "none"
    BY <2>1, MovesOn
  <2>3. Fits(c)'
    BY <1>0, <2>1, <2>2 DEF Fits
  <2>4. pc[c] \in Running /\ call[c].of = p
    BY <1>0, <2>1, <2>2 DEF Fits, Running
  <2>5. /\ status'[p] # "none" /\ (status'[p] = "pending" => status[p] = "pending")
        /\ status'[p] = "rejected" /\ status[p] # "rejected" => c \in tx' \cap paid'
    BY <2>1, <2>2, <2>4
  <2>6. paid' = paid /\ sales' = sales /\ (status'[p] # "pending" \/ pc'[c] = "dead")
    BY <2>1, <2>2
  <2> HIDE DEF p
  <2> QED
    BY <2>2, <2>3, <2>4, <2>5, <2>6, OnlyMarks
<1> QED
  BY <1>1, <1>2, <1>3, <1>4, <1>5, <1>6

LEMMA PurchaseNext == BaseInv /\ TurnsInv /\ [Next]_vars => BaseInv' /\ TurnsInv'
<1> SUFFICES ASSUME BaseInv, TurnsInv, [Next]_vars PROVE BaseInv' /\ TurnsInv'
  OBVIOUS
<1>1. CASE UNCHANGED vars
  BY <1>1, QuietKeeps DEF vars, inventory, BaseInv, PurchaseType, NoRowYet, Onward
<1>2. ASSUME NEW c \in Callers, RowGone(c) \/ HandlerDies(c) PROVE BaseInv' /\ TurnsInv'
  BY <1>2, PurchaseSteps, ResolverSteps DEF Callers
<1> QED
  BY <1>1, <1>2, PurchaseSteps, OtherSteps, ResolveKeeps, ResolverSteps DEF Next, ChangesProduct

-----------------------------------------------------------------------------
\* A purchase shown as rejected has been paid back, with a Transaction, for any
\* purchases and however their resolve calls overlap.
THEOREM RejectedPaidBack == Spec => []RejectedIsRefunded
<1>1. BaseInv => RejectedIsRefunded
  BY DEF BaseInv
<1> QED
  BY <1>1, PurchaseInit, PurchaseNext, PTL DEF Spec

\* A purchase that is resolved by one call at a time is either handed over or paid
\* back, and once.
THEOREM SettledOnce == Spec => []SettledOnceInTurn
<1>1. BaseInv /\ TurnsInv => SettledOnceInTurn
  <2> SUFFICES ASSUME BaseInv, NEW p \in Purchases, TurnInv(p)
               PROVE  Cardinality(RefundsOf(p)) + Cardinality(SalesOf(p)) <= 1
    BY DEF TurnsInv, SettledOnceInTurn
  <2>1. \A c, d \in RefundsOf(p) \cup SalesOf(p) : c = d
    BY DEF TurnInv, Moves
  <2>2. RefundsOf(p) \cap SalesOf(p) = {}
    BY DEF BaseInv, Fits, RefundsOf, SalesOf
  <2>3. CASE RefundsOf(p) = {} /\ SalesOf(p) = {}
    BY <2>3, FS_EmptySet
  <2>4. ASSUME NEW c \in RefundsOf(p) PROVE Cardinality(RefundsOf(p)) + Cardinality(SalesOf(p)) <= 1
    <3>1. RefundsOf(p) = {c} /\ SalesOf(p) = {}
      BY <2>1, <2>2
    <3>2. Cardinality(RefundsOf(p)) = 1
      BY <3>1, FS_Singleton
    <3>3. Cardinality(SalesOf(p)) = 0
      BY <3>1, FS_EmptySet
    <3> QED
      BY <3>2, <3>3
  <2>5. ASSUME NEW c \in SalesOf(p) PROVE Cardinality(RefundsOf(p)) + Cardinality(SalesOf(p)) <= 1
    <3>1. SalesOf(p) = {c} /\ RefundsOf(p) = {}
      BY <2>1, <2>2
    <3>2. Cardinality(SalesOf(p)) = 1
      BY <3>1, FS_Singleton
    <3>3. Cardinality(RefundsOf(p)) = 0
      BY <3>1, FS_EmptySet
    <3> QED
      BY <3>2, <3>3
  <2> QED
    BY <2>3, <2>4, <2>5
<1> QED
  BY <1>1, PurchaseInit, PurchaseNext, PTL DEF Spec

-----------------------------------------------------------------------------
(* The ledger.  A user's balance is what the calls that were paid moved; a   *)
(* call that has ended well has the Transaction for it.                      *)

PaidOf(u) == {c \in paid : Buyer[PurchaseOf(c)] = u}

MoneyType ==
    /\ users \subseteq Users /\ balance \in [Users -> Int]
    /\ tx \subseteq paid /\ IsFiniteSet(paid)

MoneyFits ==
    /\ \A c \in paid :
          /\ pc[c] \in {"debited", "created", "refunded", "done", "dead"}
          /\ pc[c] = "done" /\ Buyer[PurchaseOf(c)] \in users => c \in tx
    /\ \A p \in Purchases : pc[p] \in {"debited", "created"} => p \in paid

BalanceInv ==
    \A u \in users : balance[u] = InitBalance[u] + SumFunctionOnSet(Entry, PaidOf(u))

MoneyInv == MoneyType /\ MoneyFits /\ BalanceInv

\* Whatever was paid was for a purchase, with a buyer and a price.
LEMMA PaidPriced ==
    ASSUME BaseInv, MoneyInv
    PROVE  \A c \in paid : PurchaseOf(c) \in Purchases /\ Entry[c] \in Int
<1> SUFFICES ASSUME NEW c \in paid PROVE PurchaseOf(c) \in Purchases /\ Entry[c] \in Int
  OBVIOUS
<1>1. CASE c \in Purchases
  BY <1>1, PurchaseAssumption DEF PurchaseOf, Entry
<1>2. CASE c \notin Purchases
  <2>1. c \in Resolvers /\ Fits(c) /\ pc[c] # "idle"
    BY <1>2 DEF BaseInv, PurchaseType, Callers, Fits
  <2>2. call[c].of \in Purchases
    BY <2>1 DEF Fits
  <2> QED
    BY <1>2, <2>2, PurchaseAssumption DEF PurchaseOf, Entry
<1> QED
  BY <1>1, <1>2

LEMMA PaidSums ==
    ASSUME BaseInv, MoneyInv, NEW u
    PROVE  /\ IsFiniteSet(PaidOf(u)) /\ Ints(Entry, PaidOf(u))
           /\ SumFunctionOnSet(Entry, PaidOf(u)) \in Int
<1>1. PaidOf(u) \subseteq paid
  BY DEF PaidOf
<1>2. IsFiniteSet(PaidOf(u))
  BY <1>1, FS_Subset DEF MoneyInv, MoneyType
<1>3. Ints(Entry, PaidOf(u))
  BY <1>1, PaidPriced DEF Ints
<1> QED
  BY <1>2, <1>3, SumType

\* A step that moves no money.
LEMMA UnpaidKeeps ==
    ASSUME BaseInv, MoneyInv, UNCHANGED <<balance, paid>>, users' \subseteq users, tx' \subseteq paid,
           \A c \in paid \cap Resolvers : call'[c] = call[c],
           MoneyFits'
    PROVE  MoneyInv'
<1>1. \A c \in paid : PurchaseOf(c)' = PurchaseOf(c) /\ Entry'[c] = Entry[c]
  BY DEF BaseInv, PurchaseType, Callers, PurchaseOf, Entry
<1>2. ASSUME NEW u \in users
      PROVE  balance'[u] = InitBalance[u] + SumFunctionOnSet(Entry', PaidOf(u)')
  <2>1. PaidOf(u)' = PaidOf(u)
    BY <1>1 DEF PaidOf
  <2>2. \A c \in PaidOf(u) : Entry[c] = Entry'[c]
    BY <1>1 DEF PaidOf
  <2>3. SumFunctionOnSet(Entry, PaidOf(u)) = SumFunctionOnSet(Entry', PaidOf(u))
    BY <2>2, PaidSums, SumEqual
  <2> QED
    BY <2>1, <2>3 DEF MoneyInv, BalanceInv
<1> QED
  BY <1>2 DEF MoneyInv, MoneyType, BalanceInv

\* adjust_balance of a call that had moved nothing.
LEMMA PaidKeeps ==
    ASSUME BaseInv, MoneyInv, NEW c \in Callers, c \notin paid, NEW p \in Purchases, PurchaseOf(c) = p,
           NEW d \in Int, d = IF c \in Purchases THEN -Total[c] ELSE Total[call[c].of],
           NEW enforce, AdjustBalance(Buyer[p], d, enforce), paid' = paid \cup {c},
           NEW to \in {"debited", "refunded"}, Goto(c, to), UNCHANGED <<users, call, tx>>
    PROVE  MoneyInv'
<1>0. MoneyType /\ MoneyFits /\ BalanceInv /\ PurchaseType
  BY DEF MoneyInv, BaseInv
<1>1. Buyer[p] \in users /\ balance' = [balance EXCEPT ![Buyer[p]] = @ + d]
  BY DEF AdjustBalance, CanAdjust
<1>2. /\ \A e \in Callers : PurchaseOf(e)' = PurchaseOf(e)
      /\ \A e \in paid : Entry'[e] = Entry[e]
      /\ Entry'[c] = d
  BY DEF PurchaseOf, Entry
<1>3. MoneyType'
  <2>1. IsFiniteSet(paid \cup {c})
    BY <1>0, FS_AddElement DEF MoneyType
  <2> QED
    BY <1>0, <1>1, <2>1 DEF MoneyType
<1>4. MoneyFits'
  BY <1>0, <1>2 DEF MoneyFits, Goto, PurchaseType
<1>5. ASSUME NEW u \in users
      PROVE  balance'[u] = InitBalance[u] + SumFunctionOnSet(Entry', PaidOf(u)')
  <2>1. /\ IsFiniteSet(PaidOf(u)) /\ Ints(Entry, PaidOf(u))
        /\ SumFunctionOnSet(Entry, PaidOf(u)) \in Int
    BY PaidSums
  <2>2. balance[u] = InitBalance[u] + SumFunctionOnSet(Entry, PaidOf(u)) /\ u \in Users /\ InitBalance[u] \in Int
    BY <1>0, PurchaseAssumption DEF MoneyType, BalanceInv
  <2>3. \A e \in PaidOf(u) : Entry[e] = Entry'[e]
    BY <1>2 DEF PaidOf
  <2>4. PICK g : g = Entry'
    OBVIOUS
  <2>5. (\A e \in PaidOf(u) : Entry[e] = g[e]) /\ g[c] = d
    BY <1>2, <2>3, <2>4
  <2>6. CASE u = Buyer[p]
    <3>1. PaidOf(u)' = PaidOf(u) \cup {c} /\ c \notin PaidOf(u)
      BY <1>0, <1>2, <2>6 DEF PaidOf, PurchaseType
    <3>2. g[c] \in Int /\ (\A e \in PaidOf(u) : Entry[e] = g[e]) /\ IsFiniteSet(PaidOf(u)) /\ Ints(Entry, PaidOf(u))
      BY <2>1, <2>5
    <3>3. SumFunctionOnSet(g, PaidOf(u) \cup {c}) = SumFunctionOnSet(Entry, PaidOf(u)) + g[c]
      BY <3>1, <3>2, SumAdd, SMTT(30)
    <3>4. balance'[u] = balance[u] + d
      BY <1>0, <1>1, <2>2, <2>6 DEF MoneyType
    <3> QED
      BY <2>1, <2>2, <2>4, <2>5, <3>1, <3>3, <3>4
  <2>7. CASE u # Buyer[p]
    <3>1. PaidOf(u)' = PaidOf(u)
      BY <1>0, <1>2, <2>7 DEF PaidOf, PurchaseType
    <3>2. SumFunctionOnSet(Entry, PaidOf(u)) = SumFunctionOnSet(g, PaidOf(u))
      BY <2>1, <2>5, SumEqual
    <3>3. balance'[u] = balance[u]
      BY <1>0, <1>1, <2>2, <2>7 DEF MoneyType
    <3> QED
      BY <2>2, <2>4, <3>1, <3>2, <3>3
  <2> QED
    BY <2>6, <2>7
<1> QED
  BY <1>3, <1>4, <1>5 DEF MoneyInv, BalanceInv

LEMMA MoneyInit == Init => MoneyInv
<1> SUFFICES ASSUME Init PROVE MoneyInv
  OBVIOUS
<1>1. MoneyType /\ MoneyFits
  BY FS_EmptySet, PurchaseAssumption DEF Init, MoneyType, MoneyFits, Callers
<1>2. ASSUME NEW u \in Users
      PROVE  balance[u] = InitBalance[u] + SumFunctionOnSet(Entry, PaidOf(u))
  <2>1. PaidOf(u) = {} /\ balance[u] = InitBalance[u]
    BY DEF Init, PaidOf
  <2> QED
    BY <2>1, SumEmpty, PurchaseAssumption
<1> QED
  BY <1>1, <1>2 DEF Init, MoneyInv, BalanceInv

LEMMA MoneyNext == BaseInv /\ MoneyInv /\ [Next]_vars => MoneyInv'
<1> SUFFICES ASSUME BaseInv, MoneyInv, [Next]_vars PROVE MoneyInv'
  OBVIOUS
<1>0. MoneyType /\ MoneyFits /\ PurchaseType /\ Purchases \cap Resolvers = {}
  BY PurchaseAssumption DEF MoneyInv, BaseInv
<1>1. CASE UNCHANGED <<users, balance, pc, call, paid, tx>>
  <2>1. MoneyFits'
    BY <1>0, <1>1 DEF MoneyFits, PurchaseOf
  <2> QED
    BY <1>0, <1>1, <2>1, UnpaidKeeps DEF MoneyType
<1>2. ASSUME NEW p \in Purchases, Debit(p) PROVE MoneyInv'
  <2>1. /\ AdjustBalance(Buyer[p], -Total[p], TRUE) /\ paid' = paid \cup {p} /\ Goto(p, "debited")
        /\ UNCHANGED <<users, call, tx>> /\ PurchaseOf(p) = p /\ p \in Callers
    BY <1>2 DEF Debit, PurchaseOf, Callers
  <2>3. -Total[p] \in Int
    BY PurchaseAssumption
  <2>2. p \notin paid
    BY <1>0, <1>2 DEF Debit, MoneyFits
  <2> QED
    BY <2>1, <2>2, <2>3, PaidKeeps
<1>3. ASSUME NEW c \in Resolvers, Refund(c) PROVE MoneyInv'
  <2>1. c \in Callers /\ c \notin Purchases /\ pc[c] = "resolve" /\ call[c].of \in Purchases
    BY <1>0, <1>3 DEF Refund, Locked, Callers, BaseInv, Fits
  <2>2. PICK p \in Purchases : p = call[c].of
    BY <2>1
  <2>3. /\ AdjustBalance(Buyer[p], Total[p], FALSE) /\ paid' = paid \cup {c} /\ Goto(c, "refunded")
        /\ UNCHANGED <<users, call, tx>> /\ PurchaseOf(c) = p /\ Total[p] \in Int
    BY <1>3, <2>1, <2>2, PurchaseAssumption DEF Refund, PurchaseOf, AdjustBalance, CanAdjust
  <2>4. c \notin paid
    BY <1>0, <2>1 DEF MoneyFits
  <2> QED
    BY <2>1, <2>2, <2>3, <2>4, PaidKeeps
<1>4. ASSUME NEW c \in Callers, UNCHANGED <<users, balance, paid>>,
             \A d \in Callers \ {c} : pc'[d] = pc[d], \A d \in Resolvers \cap paid : call'[d] = call[d],
             tx \subseteq tx', tx' \subseteq paid,
             \/ c \notin paid /\ pc'[c] \notin {"debited", "created"}
             \/ c \in paid /\ pc'[c] \in {"created", "dead"}
             \/ c \in paid /\ pc'[c] = "done" /\ c \in tx'
      PROVE  MoneyInv'
  <2>1. \A d \in paid : PurchaseOf(d)' = PurchaseOf(d)
    BY <1>0, <1>4 DEF PurchaseOf, PurchaseType, Callers
  <2>2. ASSUME NEW d \in paid
        PROVE  /\ pc'[d] \in {"debited", "created", "refunded", "done", "dead"}
               /\ pc'[d] = "done" /\ Buyer[PurchaseOf(d)'] \in users' => d \in tx'
    BY <1>0, <1>4, <2>1 DEF MoneyFits, PurchaseType
  <2>3. ASSUME NEW p \in Purchases, pc'[p] \in {"debited", "created"} PROVE p \in paid
    BY <1>0, <1>4, <2>3 DEF MoneyFits, Callers
  <2>4. MoneyFits'
    BY <1>4, <2>2, <2>3 DEF MoneyFits
  <2> QED
    BY <1>0, <1>4, <2>4, UnpaidKeeps DEF MoneyType
<1>5. ASSUME NEW p \in Purchases, DebitRefused(p) \/ Create(p) \/ Book(p) PROVE MoneyInv'
  <2>1. /\ p \in Callers /\ UNCHANGED <<users, balance, paid, call>>
        /\ \A d \in Callers \ {p} : pc'[d] = pc[d]
    BY <1>0, <1>5 DEF DebitRefused, Create, Book, Goto, Callers, PurchaseType
  <2>2. /\ tx \subseteq tx' /\ tx' \subseteq paid
        /\ \/ p \notin paid /\ pc'[p] = "refused"
           \/ p \in paid /\ pc'[p] = "created"
           \/ p \in paid /\ pc'[p] = "done" /\ p \in tx'
    BY <1>0, <1>5, <2>1 DEF DebitRefused, Create, Book, Goto, PurchaseType, MoneyType, MoneyFits
  <2> QED
    BY <1>4, <2>1, <2>2
<1>6. ASSUME NEW c \in Resolvers, NEW p \in Purchases, NEW action \in {"fulfill", "reject"}, Resolve(c, p, action)
      PROVE  MoneyInv'
  <2>1. c \in Callers /\ c \notin paid
    BY <1>0, <1>6 DEF Resolve, Callers, MoneyFits
  <2>2. /\ UNCHANGED <<users, balance, paid, tx>> /\ \A d \in Callers \ {c} : pc'[d] = pc[d]
        /\ \A d \in Resolvers \ {c} : call'[d] = call[d]
        /\ pc'[c] = "resolve"
    BY <1>0, <1>6, <2>1 DEF Resolve, Goto, PurchaseType
  <2> QED
    BY <1>0, <1>4, <2>1, <2>2 DEF MoneyType
<1>7. ASSUME NEW c \in Resolvers,
             ResolveRefused(c) \/ TakeStock(c) \/ FulfillUntracked(c) \/ Fulfill(c) \/ Reject(c)
      PROVE  MoneyInv'
  <2>1. /\ c \in Callers /\ UNCHANGED <<users, balance, paid, call>>
        /\ \A d \in Callers \ {c} : pc'[d] = pc[d]
    BY <1>0, <1>7 DEF ResolveRefused, TakeStock, FulfillUntracked, Fulfill, Reject, Goto, Callers, PurchaseType
  <2>2. /\ tx \subseteq tx' /\ tx' \subseteq paid
        /\ \/ c \notin paid /\ pc'[c] \in {"refused", "taken", "done"}
           \/ c \in paid /\ pc'[c] = "done" /\ c \in tx'
    <3>1. CASE Reject(c)
      BY <1>0, <2>1, <3>1 DEF Reject, Goto, BaseInv, Fits, PurchaseType, MoneyType
    <3>2. CASE ResolveRefused(c) \/ TakeStock(c) \/ FulfillUntracked(c) \/ Fulfill(c)
      BY <1>0, <2>1, <3>2 DEF ResolveRefused, TakeStock, FulfillUntracked, Fulfill, Goto, Locked, PurchaseType,
                              MoneyType, MoneyFits
    <3> QED
      BY <1>7, <3>1, <3>2
  <2> QED
    BY <1>4, <2>1, <2>2
<1>8. ASSUME NEW c \in Callers, RowGone(c) \/ HandlerDies(c) PROVE MoneyInv'
  <2>1. /\ UNCHANGED <<users, balance, paid, call, tx>> /\ \A d \in Callers \ {c} : pc'[d] = pc[d]
        /\ pc'[c] = "dead"
    BY <1>0, <1>8 DEF RowGone, HandlerDies, Goto, PurchaseType
  <2> QED
    BY <1>0, <1>4, <2>1 DEF MoneyType
<1>9. ASSUME NEW u \in Users, DeleteUser(u) PROVE MoneyInv'
  <2>1. /\ UNCHANGED <<balance, paid, call, pc>> /\ users' = users \ {u}
        /\ tx' = {c \in tx : Buyer[PurchaseOf(c)] # u}
    BY <1>9 DEF DeleteUser
  <2>2. MoneyFits'
    BY <1>0, <2>1 DEF MoneyFits, PurchaseOf
  <2> QED
    BY <1>0, <2>1, <2>2, UnpaidKeeps DEF MoneyType
<1>10. CASE \/ UNCHANGED vars
            \/ \E i \in Items, delta \in Deltas : MoveStock(i, delta)
            \/ \E x \in Products : ChangesProduct(x)
  BY <1>1, <1>10 DEF vars, MoveStock, ChangesProduct, UpdateProduct, DeleteProduct
<1> QED
  BY <1>2, <1>3, <1>5, <1>6, <1>7, <1>8, <1>9, <1>10 DEF Next, ChangesProduct

\* Whenever every change of a user's balance has got past its Transaction, the
\* transactions explain the balance, however purchases and resolve calls overlap.
THEOREM LedgerExplains == Spec => []LedgerExplainsBalance
<1>1. ASSUME BaseInv, MoneyInv PROVE LedgerExplainsBalance
  <2> SUFFICES ASSUME NEW u \in users, \A c \in paid : Buyer[PurchaseOf(c)] = u => pc[c] = "done"
               PROVE  balance[u] = InitBalance[u] + SumFunctionOnSet(Entry, TxOf(u))
    BY DEF LedgerExplainsBalance
  <2>1. TxOf(u) = PaidOf(u)
    BY <1>1 DEF MoneyInv, MoneyType, MoneyFits, TxOf, PaidOf
  <2> QED
    BY <1>1, <2>1 DEF MoneyInv, BalanceInv
<1> QED
  BY <1>1, PurchaseInit, PurchaseNext, MoneyInit, MoneyNext, PTL DEF Spec

-----------------------------------------------------------------------------
(* The stock.  What is left of an item is what manual movements and the sale *)
(* movements say.  A purchase that was handed over has one of these, its     *)
(* own; one whose resolve calls took turns has no other.                     *)

Sold(i) == {c \in sales : from[c] = i}
Pieces  == [c \in sales |-> Quantity[call[c].of]]

StockType ==
    /\ linked \in [Products -> Items \cup {NoItem}]
    /\ stock \in [Items -> Int] /\ counted \in [Items -> Int]
    /\ from \in [Resolvers -> Items \cup {NoItem}]
    /\ IsFiniteSet(sales)

\* A call has an item from the moment it has sold.
SaleFits ==
    \A c \in Resolvers : /\ c \in sales => pc[c] \in {"taken", "done", "dead"}
                         /\ from[c] # NoItem => c \in sales

StockInv ==
    /\ StockType /\ SaleFits
    /\ \A i \in Items : stock[i] = InitStock[i] + counted[i] - SumFunctionOnSet(Pieces, Sold(i))

LEMMA SoldSums ==
    ASSUME BaseInv, StockType, NEW i
    PROVE  /\ \A c \in sales : /\ c \in Resolvers /\ call[c].of \in Purchases
                               /\ Pieces[c] \in Int /\ 0 <= Pieces[c]
           /\ IsFiniteSet(Sold(i)) /\ Ints(Pieces, Sold(i))
           /\ SumFunctionOnSet(Pieces, Sold(i)) \in Int
<1>1. ASSUME NEW c \in sales
      PROVE  c \in Resolvers /\ call[c].of \in Purchases /\ Pieces[c] \in Int /\ 0 <= Pieces[c]
  <2>1. c \in Resolvers /\ Fits(c)
    BY DEF BaseInv, PurchaseType
  <2>2. call[c].of \in Purchases
    BY <2>1 DEF Fits
  <2> QED
    BY <2>1, <2>2, PurchaseAssumption DEF Pieces
<1>2. Sold(i) \subseteq sales
  BY DEF Sold
<1>3. IsFiniteSet(Sold(i)) /\ Ints(Pieces, Sold(i))
  BY <1>1, <1>2, FS_Subset DEF StockType, Ints
<1> QED
  BY <1>1, <1>3, SumType

\* A step that sells nothing.
LEMMA UnsoldKeeps ==
    ASSUME BaseInv, StockInv, UNCHANGED <<sales, from>>, \A c \in sales : call'[c] = call[c],
           linked' \in [Products -> Items \cup {NoItem}], SaleFits',
           stock' \in [Items -> Int], counted' \in [Items -> Int],
           \A i \in Items : stock'[i] - counted'[i] = stock[i] - counted[i]
    PROVE  StockInv'
<1>1. ASSUME NEW i \in Items
      PROVE  stock'[i] = InitStock[i] + counted'[i] - SumFunctionOnSet(Pieces', Sold(i)')
  <2>1. Sold(i)' = Sold(i)
    BY DEF Sold
  <2>2. \A c \in Sold(i) : Pieces[c] = Pieces'[c]
    BY DEF Sold, Pieces
  <2>3. /\ IsFiniteSet(Sold(i)) /\ Ints(Pieces, Sold(i)) /\ SumFunctionOnSet(Pieces, Sold(i)) \in Int
    BY SoldSums DEF StockInv
  <2>4. SumFunctionOnSet(Pieces, Sold(i)) = SumFunctionOnSet(Pieces', Sold(i))
    BY <2>2, <2>3, SumEqual
  <2>5. /\ stock[i] = InitStock[i] + counted[i] - SumFunctionOnSet(Pieces, Sold(i))
        /\ stock[i] \in Int /\ counted[i] \in Int /\ InitStock[i] \in Int
        /\ stock'[i] \in Int /\ counted'[i] \in Int
        /\ stock'[i] - counted'[i] = stock[i] - counted[i]
    BY PurchaseAssumption DEF StockInv, StockType
  <2>6. PICK t \in Int : t = SumFunctionOnSet(Pieces, Sold(i))
    BY <2>3
  <2>7. t = SumFunctionOnSet(Pieces', Sold(i)')
    BY <2>1, <2>4, <2>6
  <2>8. stock'[i] = InitStock[i] + counted'[i] - t
    BY <2>5, <2>6
  <2> QED
    BY <2>7, <2>8
<1>2. StockType'
  BY DEF StockInv, StockType
<1> QED
  BY <1>1, <1>2 DEF StockInv

LEMMA SaleKeeps ==
    ASSUME BaseInv, StockInv, NEW c \in Resolvers, TakeStock(c)
    PROVE  StockInv'
<1> DEFINE p == call[c].of
<1>1. /\ pc[c] = "resolve" /\ Fits(c) /\ Tracked(p) /\ sales' = sales \cup {c}
      /\ stock' = [stock EXCEPT ![ItemFor(p)] = @ - Quantity[p]]
      /\ from' = [from EXCEPT ![c] = ItemFor(p)]
      /\ Goto(c, "taken") /\ UNCHANGED <<counted, call, linked>>
  BY DEF TakeStock, Locked, BaseInv, products
<1>2. p \in Purchases /\ c \notin sales
  BY <1>1 DEF Fits
<1>3. ItemFor(p) \in Items /\ Quantity[p] \in Int
  BY <1>1, <1>2, PurchaseAssumption DEF Tracked, ItemFor, StockInv, StockType
<1>4. StockType' /\ SaleFits'
  <2>1. IsFiniteSet(sales \cup {c})
    BY FS_AddElement DEF StockInv, StockType
  <2>2. StockType'
    BY <1>1, <1>3, <2>1 DEF StockInv, StockType
  <2>3. SaleFits'
    BY <1>1 DEF StockInv, StockType, SaleFits, Goto, BaseInv, PurchaseType, Callers
  <2> QED
    BY <2>2, <2>3
<1>5. (\A d \in sales : Pieces'[d] = Pieces[d]) /\ Pieces'[c] = Quantity[p]
  BY <1>1 DEF Pieces
<1>6. /\ \A d \in sales : from'[d] = from[d]
      /\ from'[c] = ItemFor(p)
  BY <1>1, <1>2 DEF StockInv, StockType, BaseInv, PurchaseType
<1> HIDE DEF p
<1>7. ASSUME NEW i \in Items
      PROVE  stock'[i] = InitStock[i] + counted'[i] - SumFunctionOnSet(Pieces', Sold(i)')
  <2>1. /\ IsFiniteSet(Sold(i)) /\ Ints(Pieces, Sold(i)) /\ SumFunctionOnSet(Pieces, Sold(i)) \in Int
    BY SoldSums DEF StockInv
  <2>2. /\ stock[i] = InitStock[i] + counted[i] - SumFunctionOnSet(Pieces, Sold(i))
        /\ stock[i] \in Int /\ counted[i] \in Int /\ InitStock[i] \in Int
    BY PurchaseAssumption DEF StockInv, StockType
  <2>3. PICK g : g = Pieces'
    OBVIOUS
  <2>4. (\A d \in Sold(i) : Pieces[d] = g[d]) /\ g[c] = Quantity[p]
    BY <1>5, <2>3 DEF Sold
  <2>5. CASE i = ItemFor(p)
    <3>1. Sold(i)' = Sold(i) \cup {c} /\ c \notin Sold(i)
      BY <1>1, <1>2, <1>6, <2>5 DEF Sold
    <3>2. \A d \in Sold(i) : Pieces[d] = g[d]
      BY <2>4
    <3>3. SumFunctionOnSet(g, Sold(i) \cup {c}) = SumFunctionOnSet(Pieces, Sold(i)) + g[c]
      <4>1. IsFiniteSet(Sold(i)) /\ Ints(Pieces, Sold(i)) /\ g[c] \in Int /\ c \notin Sold(i)
        BY <1>3, <2>1, <2>4, <3>1
      <4> QED
        BY <3>2, <4>1, SumAdd
    <3>4. stock'[i] = stock[i] - Quantity[p]
      BY <1>1, <2>5 DEF StockInv, StockType, p
    <3> QED
      BY <1>1, <1>3, <2>1, <2>2, <2>3, <2>4, <3>1, <3>3, <3>4
  <2>6. CASE i # ItemFor(p)
    <3>1. Sold(i)' = Sold(i)
      BY <1>1, <1>6, <2>6 DEF Sold
    <3>2. SumFunctionOnSet(Pieces, Sold(i)) = SumFunctionOnSet(g, Sold(i))
      BY <2>1, <2>4, SumEqual
    <3>3. stock'[i] = stock[i]
      BY <1>1, <2>6 DEF StockInv, StockType, p
    <3> QED
      BY <1>1, <2>2, <2>3, <3>1, <3>2, <3>3
  <2> QED
    BY <2>5, <2>6
<1> QED
  BY <1>4, <1>7 DEF StockInv

LEMMA StockInit == Init => StockInv
<1> SUFFICES ASSUME Init PROVE StockInv
  OBVIOUS
<1>1. StockType /\ SaleFits
  BY FS_EmptySet, PurchaseAssumption DEF Init, StockType, SaleFits
<1>2. ASSUME NEW i \in Items
      PROVE  stock[i] = InitStock[i] + counted[i] - SumFunctionOnSet(Pieces, Sold(i))
  <2>1. Sold(i) = {} /\ stock[i] = InitStock[i] /\ counted[i] = 0
    BY DEF Init, Sold
  <2> QED
    BY <2>1, SumEmpty, PurchaseAssumption
<1> QED
  BY <1>1, <1>2 DEF StockInv

LEMMA StockNext == BaseInv /\ StockInv /\ [Next]_vars => StockInv'
<1> SUFFICES ASSUME BaseInv, StockInv, [Next]_vars PROVE StockInv'
  OBVIOUS
<1>0. StockType /\ SaleFits /\ PurchaseType /\ Purchases \cap Resolvers = {}
  BY PurchaseAssumption DEF StockInv, BaseInv
<1>1. ASSUME UNCHANGED <<linked, stock, counted, sales, from>>, \A c \in sales : call'[c] = call[c], SaleFits'
      PROVE  StockInv'
  BY <1>0, <1>1, UnsoldKeeps DEF StockType
<1>2. ASSUME NEW i \in Items, NEW delta \in Deltas, MoveStock(i, delta) PROVE StockInv'
  <2>1. /\ delta \in Int /\ UNCHANGED <<linked, sales, from, call, pc>>
        /\ stock' = [stock EXCEPT ![i] = @ + delta] /\ counted' = [counted EXCEPT ![i] = @ + delta]
    BY <1>2, PurchaseAssumption DEF MoveStock, products
  <2>2. /\ stock' \in [Items -> Int] /\ counted' \in [Items -> Int]
        /\ linked' \in [Products -> Items \cup {NoItem}] /\ SaleFits'
    BY <1>0, <2>1 DEF StockType, SaleFits
  <2>3. \A k \in Items : stock'[k] - counted'[k] = stock[k] - counted[k]
    BY <1>0, <2>1 DEF StockType
  <2> QED
    BY <2>1, <2>2, <2>3, UnsoldKeeps
<1>3. ASSUME NEW c \in Resolvers, NEW p \in Purchases, NEW action \in {"fulfill", "reject"}, Resolve(c, p, action)
      PROVE  StockInv'
  <2>1. c \notin sales
    BY <1>3 DEF Resolve, BaseInv, Fits
  <2>2. UNCHANGED <<linked, stock, counted, sales, from>> /\ \A d \in sales : call'[d] = call[d]
    BY <1>0, <1>3, <2>1 DEF Resolve, products, inventory, PurchaseType
  <2>3. SaleFits'
    BY <1>0, <1>3, <2>1, <2>2 DEF Resolve, Goto, SaleFits, PurchaseType, Callers
  <2> QED
    BY <1>1, <2>2, <2>3
<1>4. ASSUME NEW x \in Products, ChangesProduct(x) PROVE StockInv'
  <2>1. /\ UNCHANGED <<stock, counted, sales, from, call, pc>>
        /\ linked' = linked \/ \E i \in Items \cup {linked[x]} : linked' = [linked EXCEPT ![x] = i]
    BY <1>4 DEF ChangesProduct, UpdateProduct, DeleteProduct, inventory
  <2>2. linked' \in [Products -> Items \cup {NoItem}] /\ SaleFits'
    BY <1>0, <2>1 DEF StockType, SaleFits
  <2> QED
    BY <1>0, <2>1, <2>2, UnsoldKeeps DEF StockType
\* Of the other calls one has sold before it is done or dies.
<1>5. ASSUME UNCHANGED <<linked, stock, counted, sales, from, call>>,
             pc' = pc \/ \E c \in Callers : /\ \A d \in Callers \ {c} : pc'[d] = pc[d]
                                            /\ c \in sales => pc'[c] \in {"taken", "done", "dead"}
      PROVE  StockInv'
  <2>1. SaleFits'
    BY <1>0, <1>5 DEF SaleFits, Callers
  <2> QED
    BY <1>1, <1>5, <2>1
<1>6. ASSUME NEW p \in Purchases, Debit(p) \/ DebitRefused(p) \/ Create(p) \/ Book(p) PROVE StockInv'
  <2>1. /\ UNCHANGED <<linked, stock, counted, sales, from, call>> /\ p \in Callers /\ p \notin sales
        /\ \A d \in Callers \ {p} : pc'[d] = pc[d]
    BY <1>0, <1>6 DEF Debit, DebitRefused, Create, Book, Goto, products, inventory, Callers, PurchaseType
  <2> QED
    BY <1>5, <2>1
<1>7. ASSUME NEW c \in Resolvers,
             ResolveRefused(c) \/ FulfillUntracked(c) \/ Fulfill(c) \/ Refund(c) \/ Reject(c)
      PROVE  StockInv'
  <2>1. /\ UNCHANGED <<linked, stock, counted, sales, from, call>> /\ c \in Callers
        /\ \A d \in Callers \ {c} : pc'[d] = pc[d]
    BY <1>0, <1>7 DEF ResolveRefused, FulfillUntracked, Fulfill, Refund, Reject, Goto, products, inventory,
                      Callers, PurchaseType
  <2>2. c \in sales => pc'[c] = "done"
    BY <1>0, <1>7, <2>1 DEF ResolveRefused, FulfillUntracked, Fulfill, Refund, Reject, Locked, Goto, SaleFits,
                            PurchaseType
  <2> QED
    BY <1>5, <2>1, <2>2
<1>8. ASSUME NEW c \in Callers, RowGone(c) \/ HandlerDies(c) PROVE StockInv'
  <2>1. /\ UNCHANGED <<linked, stock, counted, sales, from, call>> /\ pc'[c] = "dead"
        /\ \A d \in Callers \ {c} : pc'[d] = pc[d]
    BY <1>0, <1>8 DEF RowGone, HandlerDies, Goto, products, inventory, PurchaseType
  <2> QED
    BY <1>5, <2>1
<1>9. CASE UNCHANGED vars \/ \E u \in Users : DeleteUser(u)
  <2>1. UNCHANGED <<linked, stock, counted, sales, from, call, pc>>
    BY <1>9 DEF vars, products, inventory, DeleteUser
  <2> QED
    BY <1>5, <2>1
<1> QED
  BY <1>2, <1>3, <1>4, <1>6, <1>7, <1>8, <1>9, SaleKeeps DEF Next, ChangesProduct

\* What was handed over has left the stock of the item its product was linked to at
\* the time, and when the calls that took from an item took turns with their purchases
\* and are done, the item has lost nothing else: for any products, items and numbers
\* of calls, through edits, relinks, deletions, exceptions and overlaps elsewhere.
THEOREM StockMatches == Spec => []StockMatchesSales
<1>1. ASSUME BaseInv, TurnsInv, StockInv PROVE StockMatchesSales
  <2> SUFFICES ASSUME NEW i \in Items
               PROVE  /\ stock[i] <= StockBySales(i)
                      /\ (\A c \in Resolvers : from[c] = i => InTurn(call[c].of) /\ pc[c] # "taken")
                            => stock[i] = StockBySales(i)
    BY DEF StockMatchesSales
  <2> DEFINE F == HandedFrom(i)
             H == [c \in sales |-> call[c].of]
             K == [p \in F |-> CHOOSE c \in Sold(i) : call[c].of = p]
             Kept == {K[p] : p \in F}
  <2>0. PurchaseType /\ NoItem \notin Items /\ SaleFits /\ StockType
    BY <1>1, PurchaseAssumption DEF BaseInv, StockInv
  <2>1. \A c \in sales : /\ c \in Resolvers /\ call[c].of \in Purchases
                         /\ Pieces[c] = Quantity[call[c].of] /\ Pieces[c] \in Int /\ 0 <= Pieces[c]
    BY <1>1, <2>0, SoldSums DEF Pieces
  <2>2. IsFiniteSet(Sold(i)) /\ Ints(Pieces, Sold(i)) /\ SumFunctionOnSet(Pieces, Sold(i)) \in Int
    BY <1>1, <2>0, SoldSums
  <2>3. ASSUME NEW p \in F
        PROVE  K[p] \in Sold(i) /\ call[K[p]].of = p /\ Pieces[K[p]] = Quantity[p]
    <3>1. \E c \in Sold(i) : call[c].of = p
      BY <2>0 DEF HandedFrom, Sold, SaleFits
    <3>2. K[p] \in Sold(i) /\ call[K[p]].of = p
      BY <3>1
    <3> QED
      BY <2>1, <3>2 DEF Sold
  <2> HIDE DEF F
  <2>4. IsFiniteSet(F)
    <3>1. K \in Injection(F, Sold(i))
      BY <2>3 DEF Injection, IsInjective
    <3> QED
      BY <2>2, <3>1, FS_Injection
  <2>5. Ints(Quantity, F)
    BY PurchaseAssumption DEF Ints, HandedFrom, F
  <2> HIDE DEF K
  <2>6. SumFunctionOnSet(Pieces, Kept) = SumFunctionOnSet(Quantity, F)
    <3>1. \A p, q \in F : K[p] = K[q] => p = q
      BY <2>3
    <3>2. \A p \in F : Pieces[K[p]] = Quantity[p]
      BY <2>3
    <3> QED
      BY <2>4, <2>5, <3>1, <3>2, SumReindex
  <2>7. Kept \subseteq Sold(i)
    BY <2>3
  <2> HIDE DEF Kept
  <2>8. SumFunctionOnSet(Quantity, F) \in Int
    BY <2>4, <2>5, SumType
  <2>9. SumFunctionOnSet(Pieces, Kept) <= SumFunctionOnSet(Pieces, Sold(i))
    <3>1. (\A c \in Sold(i) : Pieces[c] \in Nat) /\ Kept \in SUBSET Sold(i)
      BY <2>1, <2>7 DEF Sold
    <3> QED
      BY <2>2, <3>1, SumWithin
  <2>10. /\ stock[i] = InitStock[i] + counted[i] - SumFunctionOnSet(Pieces, Sold(i))
         /\ stock[i] \in Int /\ counted[i] \in Int /\ InitStock[i] \in Int
         /\ StockBySales(i) = InitStock[i] + counted[i] - SumFunctionOnSet(Quantity, F)
    BY <1>1, <2>0, PurchaseAssumption DEF StockInv, StockType, StockBySales, F
  <2>11. ASSUME \A c \in Resolvers : from[c] = i => InTurn(call[c].of) /\ pc[c] # "taken", NEW c \in Sold(i)
         PROVE  c \in Kept
    <3>1. c \in sales /\ c \in Resolvers /\ from[c] = i
      BY <2>1 DEF Sold
    <3>2. PICK p \in Purchases : p = call[c].of
      BY <2>1, <3>1
    <3>3. Fits(c) /\ c \in SalesOf(p) /\ InTurn(p) /\ TurnInv(p)
      BY <1>1, <2>11, <3>1, <3>2 DEF BaseInv, SalesOf, TurnsInv
    <3>4. pc[c] = "done" /\ c \notin paid /\ status[p] # "none"
      BY <2>0, <2>11, <3>1, <3>2, <3>3 DEF SaleFits, InTurn, Fits, Callers
    <3>5. status[p] # "pending"
      BY <3>3, <3>4 DEF TurnInv, Moves
    <3>6. status[p] # "rejected"
      <4> SUFFICES ASSUME status[p] = "rejected" PROVE FALSE
        OBVIOUS
      <4>1. PICK d \in RefundsOf(p) : TRUE
        BY <1>1 DEF BaseInv, RejectedIsRefunded
      <4>2. d = c
        BY <3>3, <4>1 DEF TurnInv, Moves
      <4> QED
        BY <3>4, <4>1, <4>2 DEF RefundsOf
    <3>7. p \in F
      BY <2>0, <3>1, <3>2, <3>4, <3>5, <3>6 DEF F, HandedFrom, PurchaseType, Resolved
    <3>8. K[p] \in SalesOf(p)
      BY <2>3, <3>7 DEF SalesOf, Sold
    <3>9. K[p] = c
      BY <3>3, <3>8 DEF TurnInv, Moves
    <3> QED
      BY <3>7, <3>9 DEF Kept
  <2>12. ASSUME \A c \in Resolvers : from[c] = i => InTurn(call[c].of) /\ pc[c] # "taken"
         PROVE  Kept = Sold(i)
    BY <2>7, <2>11, <2>12
  <2>13. /\ stock[i] <= StockBySales(i)
         /\ Kept = Sold(i) => stock[i] = StockBySales(i)
    BY <2>2, <2>6, <2>8, <2>9, <2>10
  <2> QED
    BY <2>12, <2>13
<1> QED
  BY <1>1, PurchaseInit, PurchaseNext, StockInit, StockNext, PTL DEF Spec
=============================================================================
