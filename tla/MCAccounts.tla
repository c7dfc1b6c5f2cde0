------------------------------ MODULE MCAccounts ------------------------------
(* A small instance of Accounts for TLC.                                     *)
EXTENDS Accounts, TLC

\* Calls, sessions and tokens differ by name only.
Symmetric == Permutations(Calls) \cup Permutations(Sessions) \cup Permutations(Tokens)
===============================================================================
