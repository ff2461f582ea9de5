-------------------------- MODULE MCLoginRateLimit --------------------------
EXTENDS LoginRateLimit, TLC

CONSTANT Breaks   \* bound on how often, over all requests, something is sent again

Alike == Permutations(Requests) \cup Permutations(Clients)

FewBreaks == Cardinality({s \in Requests \X (2 .. Resends + 1) : s[2] <= sent[s[1]]}) <= Breaks
=============================================================================
