----------------------------- MODULE MCLiveStore -----------------------------
(* Instances of LiveStore for TLC.                                          *)
EXTENDS LiveStore, TLC

CONSTANTS all, named,  \* keys: the pods of all namespaces, of one namespace
          podA,        \* a pod of that namespace
          r1, r2,      \* readers
          resources    \* the table of resource lists

ReaderSymmetry == Permutations(Readers)

\* An entry that serves another one, in one table, over one object.
TwoKeys == {all, named}
TwoObjects == {podA}
TwoCovers == [k \in TwoKeys |-> {podA}]
TwoCoveredBy == (all :> {}) @@ (named :> {all})
TwoMarks == (podA :> TwoKeys)
TwoArea == [k \in TwoKeys |-> resources]
TwoFreshness == [k \in TwoKeys |-> 0]

\* One key over one object.
OneKeys == {all}
OneObjects == {podA}
OneCovers == (all :> {podA})
OneCoveredBy == (all :> {})
OneMarks == (podA :> {all})
OneArea == (all :> resources)
OneFreshness == (all :> 0)
=============================================================================
