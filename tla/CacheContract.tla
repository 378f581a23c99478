---------------------------- MODULE CacheContract ----------------------------
(***************************************************************************)
(* What the read cache promises to the screens that use it, without loads, *)
(* locks or dirty flags.  shown[k] is the content a read of k would be     *)
(* answered with at once, or Hidden when the read has to go to the         *)
(* cluster.  The cache may hide an entry whenever it likes; what it shows  *)
(* was read from the cluster and is never older than what the UI has been  *)
(* told about.                                                             *)
(***************************************************************************)
EXTENDS Naturals

CONSTANTS Keys, Objects, Covers, MaxVersion

VARIABLES cluster, delivered, shown

vars == <<cluster, delivered, shown>>

Versions == 0..MaxVersion
Hidden == [o \in {} |-> 0]

Init ==
    /\ cluster = [o \in Objects |-> 0]
    /\ delivered = [o \in Objects |-> 0]
    /\ shown = [k \in Keys |-> Hidden]

ClusterChange(o) ==
    /\ cluster[o] < MaxVersion
    /\ cluster' = [cluster EXCEPT ![o] = @ + 1]
    /\ UNCHANGED <<delivered, shown>>

\* The UI is told of a version only when no entry still shows an older one.
Broadcast(o) ==
    /\ \E v \in Versions :
          /\ v <= cluster[o]
          /\ \A k \in Keys : (o \in Covers[k] /\ shown[k] # Hidden) => shown[k][o] >= v
          /\ delivered' = [delivered EXCEPT ![o] = v]
    /\ UNCHANGED <<cluster, shown>>

\* An up-to-date content of k: read after what the UI knows, from the cluster.
UpToDate(k) ==
    {c \in [Covers[k] -> Versions] :
        \A o \in Covers[k] : delivered[o] <= c[o] /\ c[o] <= cluster[o]}

\* Entries are hidden (dirty, loading, evicted, cancelled) and at most one
\* comes into view.
Refresh ==
    /\ \E k \in Keys, hidden \in SUBSET Keys :
          \E c \in UpToDate(k) \cup {Hidden, shown[k]} :
             shown' = [x \in Keys |-> IF x = k THEN c
                                      ELSE IF x \in hidden THEN Hidden ELSE shown[x]]
    /\ UNCHANGED <<cluster, delivered>>

Next == Refresh \/ \E o \in Objects : ClusterChange(o) \/ Broadcast(o)

Spec == Init /\ [][Next]_vars
=============================================================================
