--------------------------- MODULE MCArgoOperations ---------------------------
(* Instances of ArgoOperations for TLC. *)
EXTENDS ArgoOperations, TLC

\* Each connect is given a token, or each takes the remembered one.
SubmittedAsks == [id : Ids, scope : Scopes, remember : {FALSE}, submitted : {TRUE}]
RememberedAsks == [id : Ids, scope : Scopes, remember : {TRUE}, submitted : {FALSE}]

\* A sync or a retry over a connection, and a sync through Kubernetes.
MixedRequests == [transport : {"connected"}, id : Ids, scope : Scopes, twice : BOOLEAN]
                 \cup [transport : {"kubernetes"}, id : Ids, scope : Scopes, twice : {FALSE}]
ConnectedRequests ==
    [transport : {"connected"}, id : Ids, scope : Scopes, twice : {FALSE}]

Symmetry == Permutations(Connects) \cup Permutations(Runs)
=============================================================================
