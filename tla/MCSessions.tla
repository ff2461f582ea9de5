----------------------------- MODULE MCSessions -----------------------------
EXTENDS Sessions, TLC

RequestsAlike == Permutations(Requests)
=============================================================================
