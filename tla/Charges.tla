------------------------------ MODULE Charges ------------------------------
(***************************************************************************)
(* What printing promises about money.  A user's balance moves in two ways *)
(* only: a job is charged, within the user's credit limit, or what a job   *)
(* was charged is given back, whole.  Nothing is given back twice, and     *)
(* nobody is ever given money that no job of theirs was charged.           *)
(***************************************************************************)
EXTENDS Accounts

CONSTANTS Jobs, Amounts, Start   \* the jobs, their prices, the first balances

VARIABLES paid                   \* what each job is charged with now

Init == /\ users = Users
        /\ balance = Start
        /\ paid = [j \in Jobs |-> 0]

Charge(j, u, amount) ==
    /\ paid[j] = 0
    /\ AdjustBalance(u, -amount, TRUE)
    /\ paid' = [paid EXCEPT ![j] = amount]
    /\ UNCHANGED users

GiveBack(j, u) ==
    /\ AdjustBalance(u, paid[j], FALSE)
    /\ paid' = [paid EXCEPT ![j] = 0]
    /\ UNCHANGED users

Close(u) ==
    /\ u \in users
    /\ users' = users \ {u}
    /\ UNCHANGED <<balance, paid>>

Next == \E u \in Users :
           \/ Close(u)
           \/ \E j \in Jobs : GiveBack(j, u) \/ \E a \in Amounts : Charge(j, u, a)

Spec == Init /\ [][Next]_<<users, balance, paid>>
=============================================================================
