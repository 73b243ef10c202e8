------------------------------ MODULE Accounts ------------------------------
(***************************************************************************)
(* The user rows that hold money, and the one statement that moves it.     *)
(*                                                                         *)
(* UserService.adjust_balance (db/crud/user.py) is a single                *)
(* UPDATE ... RETURNING followed by a commit, so the model takes it as one *)
(* step.  Amounts are cents: every amount passes through round_money, the  *)
(* columns are NUMERIC(10,2), and in whole cents the -0.005 tolerance of   *)
(* the WHERE clause is the comparison with zero.                           *)
(***************************************************************************)
EXTENDS Integers

CONSTANTS Users,          \* the users that may have a row
          CreditLimit     \* User.credit_limit, in cents

ASSUME CreditLimitAssumption == CreditLimit \in [Users -> Nat]

VARIABLES users,          \* the rows of table "user" that exist
          balance         \* User.balance, in cents

\* Mutant: a debit that only asks whether some balance or credit is left.
CanAdjustSomeLeft(u, delta, enforce) ==
    /\ u \in users
    /\ enforce => balance[u] + CreditLimit[u] > 0

(***************************************************************************)
(* The WHERE clause: the row exists and, when the caller asks for it, the  *)
(* new balance stays within the credit limit.  Its failure is the result   *)
(* "not_found" or "insufficient_funds".                                    *)
(***************************************************************************)
CanAdjust(u, delta, enforce) ==
    /\ u \in users
    /\ enforce => balance[u] + CreditLimit[u] + delta >= 0

AdjustBalance(u, delta, enforce) ==
    /\ CanAdjust(u, delta, enforce)
    /\ balance' = [balance EXCEPT ![u] = @ + delta]
=============================================================================
