----------------------------- MODULE MCAccounts -----------------------------
EXTENDS Accounts, TLC

Alike == Permutations(Requests) \cup Permutations(Passwords) \cup Permutations(Addresses)
=============================================================================
