----------------------------- MODULE MCAccounts -----------------------------
(* Instances of Accounts for TLC: a few minutes stand for the periods of the *)
(* code, in the same order.                                                 *)
EXTENDS Accounts, TLC

(* Requests in flight are interchangeable. *)
Symmetric == Permutations(Sessions)
=============================================================================
