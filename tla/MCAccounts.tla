----------------------------- MODULE MCAccounts -----------------------------
(* Two admins and an account to be created; requests are interchangeable.  *)
EXTENDS Accounts, TLC

RequestSymmetry == Permutations(Requests)

=============================================================================
