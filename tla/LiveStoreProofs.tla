--------------------------- MODULE LiveStoreProofs ---------------------------
(***************************************************************************)
(* Theorems about LiveStore, for every set of keys, objects and readers    *)
(* and every bound: that the cache is sound, that it keeps CacheContract,  *)
(* and that its loads are settled.                                         *)
(***************************************************************************)
EXTENDS LiveStore, FiniteSetTheorems, TLAPS

(* What trim_to_budget may do to a table: drop entries, nothing else.       *)
LEMMA TrimOnlyDrops ==
    ASSUME NEW a, NEW table, NEW busy, NEW t \in trim_to_budget(a, table, busy)
    PROVE  /\ t = [k \in Keys |-> t[k]]
           /\ \A k \in Keys : t[k] = table[k] \/ t[k] = NoValue
  BY DEF trim_to_budget

(* The versions a key's value may show, and the typing of helper values.    *)
LEMMA BoundsFacts ==
    /\ Unread \in Nat /\ Unread = MaxVersion + 1 /\ MaxVersion \in Nat
    /\ NothingRead \in [Objects -> 0..Unread]
    /\ Versions \subseteq 0..Unread
    /\ Idle \in Reader
    /\ Idle.pc = "idle" /\ Idle.key \in Keys /\ Idle.load = 0
  BY BoundsAssumption, KeysAssumption DEF Unread, NothingRead, Versions, Idle, Reader

-----------------------------------------------------------------------------
(* TypeOK, split the way the actions disturb it. *)

LEMMA InitTypeOK == Init => TypeOK
<1>. SUFFICES ASSUME Init PROVE TypeOK
  OBVIOUS
<1>. USE DEF Init
<1>1. WatchType
  BY BoundsAssumption DEF WatchType, Versions
<1>2. TableType
  BY DEF TableType, NoValue
<1>3. LoadType
  BY BoundsAssumption DEF LoadType
<1>4. ReaderType
  BY BoundsFacts DEF ReaderType
<1>5. now \in 0..MaxTime
  BY BoundsAssumption
<1>. QED  BY <1>1, <1>2, <1>3, <1>4, <1>5 DEF TypeOK

(* An entry whose value is marked dirty is still an entry.                  *)
LEMMA DirtiedType ==
    ASSUME NEW v \in ReadyValue \cup {NoValue}, NEW d \in BOOLEAN
    PROVE  /\ Dirtied(v, d) \in ReadyValue \cup {NoValue}
           /\ Dirtied(v, d) = NoValue <=> v = NoValue
           /\ Dirtied(v, d).load = v.load
           /\ Dirtied(v, d).dirty <=> (v.dirty \/ d)
           /\ Dirtied(v, FALSE) = v
<1>1. CASE v = NoValue
  BY <1>1 DEF NoValue, Dirtied
<1>2. CASE v \in ReadyValue
  <2>1. NoValue \notin ReadyValue
    BY DEF NoValue, ReadyValue, LoadIds
  <2>2. Dirtied(v, d) \in ReadyValue /\ Dirtied(v, FALSE) = v
    BY <1>2 DEF ReadyValue, Dirtied
  <2>. QED  BY <2>1, <2>2, <1>2 DEF Dirtied
<1>. QED  BY <1>1, <1>2

LEMMA AnswerType ==
    ASSUME ReaderType, LoadType, NEW r \in Readers, NEW k \in Keys,
           NEW l \in 0..nextLoad, Answer(r, k, l)
    PROVE  /\ readers' \in [Readers -> Reader]
           /\ \A x \in Readers : readers'[x].load \in 0..nextLoad
           /\ \A x \in Readers :
                 readers'[x].pc \in {"await", "install"} => readers'[x].load # 0
           /\ last' \in [Readers -> [key : Keys, load : 0..nextLoad]]
<1>1. /\ readers' = [readers EXCEPT ![r] = Idle]
      /\ last' = [last EXCEPT ![r] = [key |-> k, load |-> l]]
  BY DEF Answer
<1>. QED  BY <1>1, BoundsFacts, BoundsAssumption DEF ReaderType, LoadType

LEMMA KeptLoad ==
    ASSUME TypeOK, NEW k \in Keys
    PROVE  kept[k].load \in 0..nextLoad /\ kept[k].dirty \in BOOLEAN
<1>1. kept[k].load \in 0..nextLoad
  BY DEF TypeOK, TableType
<1>2. CASE kept[k] = NoValue
  BY <1>1, <1>2 DEF NoValue
<1>3. CASE kept[k] \in ReadyValue
  BY <1>1, <1>3 DEF ReadyValue
<1>. QED  BY <1>2, <1>3 DEF TypeOK, TableType

LEMMA WatchTypeOK ==
    ASSUME TypeOK, NEW o \in Objects, WatchStep(o)
    PROVE  TypeOK'
<1>1. CASE WatchEvent(o)
  <2>1. PICK v \in delivered[o]..cluster[o] :
           notice' = [notice EXCEPT ![o] = [ver |-> v, todo |-> Marks[o]]]
    BY <1>1 DEF WatchEvent
  <2>2. v \in Versions /\ Marks[o] \in SUBSET Keys
    BY KeysAssumption, BoundsAssumption DEF TypeOK, WatchType, Versions
  <2>3. notice' \in [Objects -> [ver : Versions, todo : SUBSET Keys]]
    BY <2>1, <2>2 DEF TypeOK, WatchType
  <2>. QED
    BY <1>1, <2>3 DEF WatchEvent, tableVars, TypeOK, WatchType, TableType, LoadType, ReaderType
<1>2. CASE Broadcast(o)
  BY <1>2 DEF Broadcast, tableVars, TypeOK, WatchType, TableType, LoadType, ReaderType
<1>3. ASSUME NEW k \in Keys, MarkOne(o, k)
      PROVE  TypeOK'
  <2>1. WatchType'
    BY <1>3 DEF MarkOne, TypeOK, WatchType
  <2>2. /\ kept' \in [Keys -> ReadyValue \cup {NoValue}]
        /\ \A x \in Keys : kept'[x].load = kept[x].load
    <3>1. kept' = kept \/ kept' = [kept EXCEPT ![k] = Dirtied(kept[k], TRUE)]
      BY <1>3 DEF MarkOne, mark_dirty
    <3>2. kept \in [Keys -> ReadyValue \cup {NoValue}]
      BY DEF TypeOK, TableType
    <3>3. /\ Dirtied(kept[k], TRUE) \in ReadyValue \cup {NoValue}
          /\ Dirtied(kept[k], TRUE).load = kept[k].load
      BY <3>2, DirtiedType
    <3>. QED  BY <3>1, <3>2, <3>3
  <2>3. /\ dirtyLoading' \in [Keys -> BOOLEAN]
        /\ \A x \in Keys : dirtyLoading'[x] => loading[x] # 0
    BY <1>3 DEF MarkOne, mark_dirty, TypeOK, TableType
  <2>4. TableType'
    <3>1. loading' = loading /\ nextLoad' = nextLoad
      BY <1>3 DEF MarkOne
    <3>2. /\ loading \in [Keys -> 0..nextLoad]
          /\ \A x \in Keys : kept[x].load \in 0..nextLoad
      BY DEF TypeOK, TableType
    <3>. QED  BY <2>2, <2>3, <3>1, <3>2 DEF TableType
  <2>. QED
    BY <1>3, <2>1, <2>4 DEF MarkOne, TypeOK, LoadType, ReaderType
<1>. QED  BY <1>1, <1>2, <1>3 DEF WatchStep

LEMMA ReadTypeOK ==
    ASSUME TypeOK, NEW r \in Readers, ReadStep(r)
    PROVE  TypeOK'
<1>. USE DEF watchVars, tableVars
<1>1. ASSUME NEW k \in Keys, PeekCovering(r, k)
      PROVE  TypeOK'
  <2>1. CASE \E c \in CoveredBy[k] : CanReuse(c) /\ Answer(r, c, kept[c].load)
    <3>1. PICK c \in CoveredBy[k] : CanReuse(c) /\ Answer(r, c, kept[c].load)
      BY <2>1
    <3>2. c \in Keys /\ kept[c].load \in 0..nextLoad
      BY <3>1, KeysAssumption, KeptLoad
    <3>. QED
      BY <1>1, <3>1, <3>2, AnswerType
      DEF PeekCovering, TypeOK, WatchType, TableType, LoadType, ReaderType
  <2>2. CASE /\ readers' = [readers EXCEPT ![r].pc = "peeked", ![r].key = k]
             /\ UNCHANGED last
    <3>1. /\ readers' \in [Readers -> Reader]
          /\ \A x \in Readers : readers'[x].load \in 0..nextLoad
          /\ \A x \in Readers :
                readers'[x].pc \in {"await", "install"} => readers'[x].load # 0
      BY ZenonT(60), <2>2, <1>1 DEF PeekCovering, TypeOK, ReaderType, Reader
    <3>. QED
      BY <1>1, <2>2, <3>1
      DEF PeekCovering, TypeOK, WatchType, TableType, LoadType, ReaderType
  <2>. QED  BY <1>1, <2>1, <2>2 DEF PeekCovering
<1>2. CASE Hit(r)
  <2>1. readers[r].key \in Keys
    BY DEF TypeOK, ReaderType, Reader
  <2>2. kept[readers[r].key].load \in 0..nextLoad
    BY <2>1, KeptLoad
  <2>3. Answer(r, readers[r].key, kept[readers[r].key].load)
    BY <1>2 DEF Hit
  <2>. QED
    BY <1>2, <2>1, <2>2, <2>3, AnswerType
    DEF Hit, TypeOK, WatchType, TableType, LoadType, ReaderType
<1>3. CASE Join(r)
  <2>1. readers[r].key \in Keys /\ loading[readers[r].key] \in 0..nextLoad
    BY DEF TypeOK, TableType, ReaderType, Reader
  <2>2. loading[readers[r].key] \in 0..MaxLoads
    BY <2>1, BoundsAssumption DEF TypeOK, LoadType
  <2>3. /\ readers' = [readers EXCEPT ![r] = Waiting(readers[r].key, loading[readers[r].key])]
        /\ loading[readers[r].key] # 0
    BY <1>3 DEF Join
  <2>4. /\ readers' \in [Readers -> Reader]
        /\ \A x \in Readers : readers'[x].load \in 0..nextLoad
        /\ \A x \in Readers :
              readers'[x].pc \in {"await", "install"} => readers'[x].load # 0
    BY <2>1, <2>2, <2>3 DEF Waiting, TypeOK, ReaderType, Reader
  <2>. QED
    BY <1>3, <2>4 DEF Join, TypeOK, WatchType, TableType, LoadType, ReaderType
<1>4. CASE Miss(r)
  <2>. DEFINE k == readers[r].key
              l == nextLoad + 1
  <2>1. k \in Keys /\ l \in 1..MaxLoads /\ nextLoad \in Nat
    BY <1>4, BoundsAssumption DEF Miss, TypeOK, LoadType, ReaderType, Reader
  <2>2. LoadType'
    <3>1. [key |-> k, seen |-> NothingRead, status |-> "running", cancelled |-> FALSE]
             \in Load
      BY <2>1, BoundsFacts DEF Load
    <3>. QED  BY <1>4, <2>1, <3>1 DEF Miss, TypeOK, LoadType
  <2>3. TableType'
    BY <1>4, <2>1 DEF Miss, TypeOK, TableType
  <2>4. ReaderType'
    <3>1. readers' = [readers EXCEPT ![r] = Waiting(k, l)]
      BY <1>4 DEF Miss
    <3>2. /\ readers' \in [Readers -> Reader]
          /\ \A x \in Readers : readers'[x].load \in 0..l
          /\ \A x \in Readers :
                readers'[x].pc \in {"await", "install"} => readers'[x].load # 0
      BY <2>1, <3>1 DEF Waiting, TypeOK, ReaderType, Reader
    <3>3. last \in [Readers -> [key : Keys, load : 0..l]]
      BY <2>1 DEF TypeOK, ReaderType
    <3>. QED  BY <1>4, <3>2, <3>3 DEF Miss, ReaderType
  <2>. QED  BY <1>4, <2>2, <2>3, <2>4 DEF Miss, TypeOK, WatchType
<1>5. CASE DropReader(r)
  <2>1. readers' = [readers EXCEPT ![r] = Idle]
    BY <1>5 DEF DropReader
  <2>2. ReaderType'
    BY <1>5, <2>1, BoundsFacts, BoundsAssumption DEF DropReader, TypeOK, LoadType, ReaderType
  <2>. QED  BY <1>5, <2>2 DEF DropReader, TypeOK, WatchType, TableType, LoadType
<1>. QED  BY <1>1, <1>2, <1>3, <1>4, <1>5 DEF ReadStep

LEMMA LoadDoneTypeOK ==
    ASSUME TypeOK, NEW r \in Readers, NEW s \in {"ok", "err"}, LoadDone(r, s)
    PROVE  TypeOK'
<1>. USE DEF watchVars, tableVars
<1>. DEFINE l == readers[r].load
<1>1. LoadType'
  <2>1. /\ loads' = [loads EXCEPT ![l].status = s,
                                  ![l].seen = IF s = "ok" THEN @ ELSE NothingRead]
        /\ nextLoad' = nextLoad
    BY DEF LoadDone
  <2>2. l \in 1..nextLoad
    BY BoundsAssumption DEF LoadDone, TypeOK, ReaderType, LoadType
  <2>3. loads[l] \in Load
    BY <2>2 DEF TypeOK, LoadType
  <2>4. [loads[l] EXCEPT !.status = s, !.seen = IF s = "ok" THEN @ ELSE NothingRead]
           \in Load
    BY <2>3, BoundsFacts DEF Load
  <2>. QED  BY <2>1, <2>2, <2>4 DEF TypeOK, LoadType
<1>2. ReaderType'
  BY DEF LoadDone, TypeOK, ReaderType, Reader
<1>. QED  BY <1>1, <1>2 DEF LoadDone, TypeOK, WatchType, TableType

LEMMA LoadTypeOK ==
    ASSUME TypeOK, NEW r \in Readers, LoadStep(r)
    PROVE  TypeOK'
<1>1. CASE LoaderSucceeds(r) \/ LoaderFails(r) \/ LoaderCancelled(r)
  BY <1>1, LoadDoneTypeOK DEF LoaderSucceeds, LoaderFails, LoaderCancelled
<1>2. CASE Wake(r)
  BY <1>2
  DEF Wake, watchVars, tableVars, TypeOK, WatchType, TableType, LoadType, ReaderType, Reader
<1>. QED  BY <1>1, <1>2 DEF LoadStep

LEMMA LoaderReadsTypeOK ==
    ASSUME TypeOK, NEW l \in 1..nextLoad, NEW o \in Objects, LoaderReads(l, o)
    PROVE  TypeOK'
<1>1. cluster[o] \in 0..Unread
  BY BoundsFacts DEF TypeOK, WatchType
<1>2. LoadType'
  BY ZenonT(60), <1>1 DEF LoaderReads, TypeOK, LoadType, Load
<1>. QED
  BY <1>2 DEF LoaderReads, watchVars, tableVars, TypeOK, WatchType, TableType, ReaderType

LEMMA SettledFlags ==
    ASSUME TypeOK, NEW k \in Keys,
           loading' = [loading EXCEPT ![k] = 0],
           dirtyLoading' = [dirtyLoading EXCEPT ![k] = FALSE],
           kept' \in [Keys -> ReadyValue \cup {NoValue}],
           \A x \in Keys : kept'[x].load \in 0..nextLoad,
           nextLoad' = nextLoad
    PROVE  TableType'
<1>1. 0 \in 0..nextLoad
  BY BoundsAssumption DEF TypeOK, LoadType
<1>2. loading' \in [Keys -> 0..nextLoad] /\ dirtyLoading' \in [Keys -> BOOLEAN]
  BY <1>1 DEF TypeOK, TableType
<1>3. \A x \in Keys : dirtyLoading'[x] => loading'[x] # 0
  BY DEF TypeOK, TableType
<1>. QED  BY <1>2, <1>3 DEF TableType

LEMMA SettleTypeOK ==
    ASSUME TypeOK, NEW r \in Readers, SettleStep(r)
    PROVE  TypeOK'
<1>. USE DEF watchVars, tableVars
<1>. DEFINE k == readers[r].key
            l == readers[r].load
<1>0. k \in Keys /\ l \in 0..nextLoad
  BY DEF TypeOK, ReaderType, Reader
<1>1. ASSUME NEW table \in [Keys -> ReadyValue \cup {NoValue}],
             \A x \in Keys : table[x].load \in 0..nextLoad,
             NEW busy, kept' \in trim_to_budget(AreaOf[k], table, busy)
      PROVE  /\ kept' \in [Keys -> ReadyValue \cup {NoValue}]
             /\ \A x \in Keys : kept'[x].load \in 0..nextLoad
  <2>1. /\ kept' = [x \in Keys |-> kept'[x]]
        /\ \A x \in Keys : kept'[x] = table[x] \/ kept'[x] = NoValue
    BY <1>1, TrimOnlyDrops
  <2>2. NoValue.load \in 0..nextLoad
    BY BoundsAssumption DEF NoValue, TypeOK, LoadType
  <2>. QED  BY <1>1, <2>1, <2>2
<1>2. CASE SettleOk(r)
  <2>. DEFINE v == [load |-> l, at |-> now, dirty |-> dirtyLoading[k]]
  <2>. DEFINE table == [kept EXCEPT ![k] = v]
  <2>1. v \in ReadyValue
    BY <1>0, <1>2, BoundsAssumption
    DEF SettleOk, Settles, ReadyValue, LoadIds, TypeOK, TableType, LoadType, ReaderType
  <2>2. table \in [Keys -> ReadyValue \cup {NoValue}]
    BY <2>1 DEF TypeOK, TableType
  <2>3. \A x \in Keys : table[x].load \in 0..nextLoad
    BY <1>0 DEF TypeOK, TableType
  <2>4. kept' \in trim_to_budget(AreaOf[k], table, [loading EXCEPT ![k] = 0])
    BY <1>2 DEF SettleOk
  <2>5. /\ kept' \in [Keys -> ReadyValue \cup {NoValue}]
        /\ \A x \in Keys : kept'[x].load \in 0..nextLoad
    BY <2>2, <2>3, <2>4, <1>1
  <2>6. TableType'
    <3>1. /\ loading' = [loading EXCEPT ![k] = 0]
          /\ dirtyLoading' = [dirtyLoading EXCEPT ![k] = FALSE]
          /\ nextLoad' = nextLoad
      BY <1>2 DEF SettleOk
    <3>. QED  BY <1>0, <2>5, <3>1, SettledFlags
  <2>7. ReaderType'
    BY <1>0, <1>2, AnswerType DEF SettleOk, TypeOK, ReaderType
  <2>. QED  BY <1>2, <2>6, <2>7 DEF SettleOk, TypeOK, WatchType, LoadType
<1>3. CASE SettleErr(r)
  <2>. DEFINE table == [kept EXCEPT ![k] = Dirtied(@, dirtyLoading[k])]
  <2>1. /\ kept' \in [Keys -> ReadyValue \cup {NoValue}]
        /\ \A x \in Keys : kept'[x].load \in 0..nextLoad
    <3>1. CASE kept' = kept
      BY <3>1 DEF TypeOK, TableType
    <3>2. CASE kept' \in trim_to_budget(AreaOf[k], table, [loading EXCEPT ![k] = 0])
      <4>1. /\ Dirtied(kept[k], dirtyLoading[k]) \in ReadyValue \cup {NoValue}
            /\ Dirtied(kept[k], dirtyLoading[k]).load = kept[k].load
        <5>1. /\ kept[k] \in ReadyValue \cup {NoValue}
              /\ dirtyLoading[k] \in BOOLEAN
          BY <1>0 DEF TypeOK, TableType
        <5>. QED  BY <5>1, DirtiedType
      <4>2. /\ table \in [Keys -> ReadyValue \cup {NoValue}]
            /\ \A x \in Keys : table[x].load \in 0..nextLoad
        BY <4>1 DEF TypeOK, TableType
      <4>. QED  BY <3>2, <4>2, <1>1
    <3>. QED  BY <1>3, <3>1, <3>2 DEF SettleErr
  <2>2. TableType'
    <3>1. /\ loading' = [loading EXCEPT ![k] = 0]
          /\ dirtyLoading' = [dirtyLoading EXCEPT ![k] = FALSE]
          /\ nextLoad' = nextLoad
      BY <1>3 DEF SettleErr
    <3>. QED  BY <1>0, <2>1, <3>1, SettledFlags
  <2>3. ReaderType'
    BY <1>3, BoundsFacts, BoundsAssumption DEF SettleErr, TypeOK, ReaderType, LoadType
  <2>. QED  BY <1>3, <2>2, <2>3 DEF SettleErr, TypeOK, WatchType, LoadType
<1>4. CASE ReturnOnly(r)
  <2>1. ReaderType'
    <3>1. CASE Answer(r, k, l)
      BY <1>0, <1>4, <3>1, AnswerType DEF ReturnOnly, TypeOK, ReaderType
    <3>2. CASE readers' = [readers EXCEPT ![r] = Idle] /\ UNCHANGED last
      BY <1>4, <3>2, BoundsFacts, BoundsAssumption
      DEF ReturnOnly, TypeOK, ReaderType, LoadType
    <3>. QED  BY <1>4, <3>1, <3>2 DEF ReturnOnly
  <2>. QED  BY <1>4, <2>1 DEF ReturnOnly, TypeOK, WatchType, TableType, LoadType
<1>. QED  BY <1>2, <1>3, <1>4 DEF SettleStep

LEMMA CancelTypeOK ==
    ASSUME TypeOK, NEW a \in Areas, CancelLoading(a)
    PROVE  TypeOK'
<1>. DEFINE busy == {k \in Keys : AreaOf[k] = a /\ loading[k] # 0}
<1>1. /\ kept' = [k \in Keys |-> IF k \in busy THEN Dirtied(kept[k], TRUE) ELSE kept[k]]
      /\ loading' = [k \in Keys |-> IF k \in busy THEN 0 ELSE loading[k]]
      /\ dirtyLoading' = [k \in Keys |-> IF k \in busy THEN FALSE ELSE dirtyLoading[k]]
      /\ loads' = [l \in 1..nextLoad |->
            [loads[l] EXCEPT !.cancelled = @ \/ \E k \in busy : loading[k] = l]]
      /\ UNCHANGED <<cluster, notice, delivered, nextLoad, readers, last, now>>
  BY DEF CancelLoading, watchVars
<1>. HIDE DEF busy
<1>2. TableType'
  <2>1. \A k \in Keys : /\ Dirtied(kept[k], TRUE) \in ReadyValue \cup {NoValue}
                        /\ Dirtied(kept[k], TRUE).load = kept[k].load
    BY DirtiedType DEF TypeOK, TableType
  <2>2. 0 \in 0..nextLoad
    BY BoundsAssumption DEF TypeOK, LoadType
  <2>. QED  BY <1>1, <2>1, <2>2 DEF TypeOK, TableType
<1>3. LoadType'
  <2>1. ASSUME NEW l \in 1..nextLoad, NEW d \in BOOLEAN
        PROVE  [loads[l] EXCEPT !.cancelled = @ \/ d] \in Load
    BY DEF TypeOK, LoadType, Load
  <2>. QED  BY <1>1, <2>1 DEF TypeOK, LoadType
<1>. QED  BY <1>1, <1>2, <1>3 DEF TypeOK, WatchType, ReaderType

LEMMA EnvTypeOK ==
    ASSUME TypeOK, Tick \/ \E o \in Objects : ClusterChange(o)
    PROVE  TypeOK'
<1>. USE DEF watchVars, tableVars
<1>1. CASE Tick
  BY <1>1, BoundsAssumption
  DEF Tick, TypeOK, WatchType, TableType, LoadType, ReaderType
<1>2. ASSUME NEW o \in Objects, ClusterChange(o)
      PROVE  TypeOK'
  BY <1>2, BoundsAssumption
  DEF ClusterChange, TypeOK, WatchType, TableType, LoadType, ReaderType, Versions
<1>. QED  BY <1>1, <1>2

LEMMA StutterTypeOK == TypeOK /\ UNCHANGED vars => TypeOK'
  BY DEF vars, TypeOK, WatchType, TableType, LoadType, ReaderType

\* Every value has its type and refers to started loads only, in every
\* reachable state.
THEOREM TypeCorrect == Spec => []TypeOK
<1>1. TypeOK /\ [Next]_vars => TypeOK'
  BY WatchTypeOK, ReadTypeOK, LoadTypeOK, LoaderReadsTypeOK, SettleTypeOK,
     CancelTypeOK, EnvTypeOK, StutterTypeOK DEF Next
<1>. QED  BY InitTypeOK, <1>1, PTL DEF Spec

-----------------------------------------------------------------------------
(* The inductive invariant.                                                 *)

\* v is at least as new as what the UI was told of o, and as the event being
\* marked once that event's mark on k is done.
Caught(k, o, v) ==
    /\ v >= delivered[o]
    /\ k \notin notice[o].todo => v >= notice[o].ver

WatchOrdered ==
    \A o \in Objects : delivered[o] <= notice[o].ver /\ notice[o].ver <= cluster[o]

\* An entry's loads are loads of its own key, alive or successful.
EntriesOwnLoads ==
    \A k \in Keys :
       /\ kept[k] # NoValue =>
             /\ kept[k].load # 0
             /\ loads[kept[k].load].key = k
             /\ loads[kept[k].load].status = "ok"
             /\ ~loads[kept[k].load].cancelled
       /\ loading[k] # 0 =>
             /\ loads[loading[k]].key = k
             /\ ~loads[loading[k]].cancelled
             /\ kept[k].load < loading[k]

\* Readers wait on loads of the key they asked for and were answered from
\* successful loads.
ReadersOwnLoads ==
    \A r \in Readers :
       /\ readers[r].pc \in {"await", "install"} =>
             loads[readers[r].load].key = readers[r].key
       /\ readers[r].pc = "install" => loads[readers[r].load].status # "running"
       /\ last[r].load # 0 => /\ loads[last[r].load].key = last[r].key
                              /\ loads[last[r].load].status = "ok"

\* A load succeeds only after it has read all that its key shows.
OkLoadsComplete ==
    \A l \in 1..nextLoad : loads[l].status = "ok" =>
       \A o \in Covers[loads[l].key] : loads[l].seen[o] \in Versions

\* Whatever is not marked dirty has caught up with the events.
CleanCaught ==
    \A k \in Keys : \A o \in Covers[k] :
       /\ (kept[k] # NoValue /\ ~kept[k].dirty /\ ~dirtyLoading[k]) =>
             Caught(k, o, loads[kept[k].load].seen[o])
       /\ (loading[k] # 0 /\ ~dirtyLoading[k]
             /\ loads[loading[k]].seen[o] \in Versions) =>
             Caught(k, o, loads[loading[k]].seen[o])

\* A key's current load is its newest, and a clean value is newer than every
\* other load of the key that succeeded or still may.
NewestWins ==
    \A k \in Keys : \A l \in 1..nextLoad : loads[l].key = k =>
       /\ loading[k] # 0 => l <= loading[k]
       /\ (kept[k] # NoValue /\ ~kept[k].dirty /\ l > kept[k].load /\ l # loading[k]) =>
             loads[l].status = "err"

\* Nobody waits for a load older than the one it was answered from.
AnswersAdvance ==
    \A r \in Readers :
       (readers[r].pc \in {"await", "install"} /\ last[r].key = readers[r].key) =>
          last[r].load <= readers[r].load

IInv ==
    /\ TypeOK
    /\ WatchOrdered
    /\ EntriesOwnLoads
    /\ ReadersOwnLoads
    /\ OkLoadsComplete
    /\ CleanCaught
    /\ NewestWins
    /\ AnswersAdvance
    /\ SingleFlight

LEMMA InitIInv == Init => IInv
<1>. SUFFICES ASSUME Init PROVE IInv
  OBVIOUS
<1>1. TypeOK
  BY InitTypeOK
<1>2. WatchOrdered
  BY DEF Init, WatchOrdered
<1>3. EntriesOwnLoads /\ CleanCaught
  BY DEF Init, EntriesOwnLoads, CleanCaught
<1>4. ReadersOwnLoads /\ AnswersAdvance
  BY BoundsFacts DEF Init, ReadersOwnLoads, AnswersAdvance
<1>5. OkLoadsComplete /\ NewestWins /\ SingleFlight
  BY DEF Init, OkLoadsComplete, NewestWins, SingleFlight
<1>. QED  BY <1>1, <1>2, <1>3, <1>4, <1>5 DEF IInv

(* Arithmetic on versions and load ids needs their types only.              *)
LEMMA WatchNats ==
    ASSUME TypeOK, NEW o \in Objects
    PROVE  /\ cluster[o] \in Nat /\ delivered[o] \in Nat
           /\ notice[o].ver \in Nat /\ notice[o].todo \in SUBSET Keys
           /\ cluster[o] \in Versions
  BY BoundsAssumption DEF TypeOK, WatchType, Versions

LEMMA LoadFacts ==
    ASSUME TypeOK, NEW l \in 1..nextLoad
    PROVE  /\ loads[l].key \in Keys
           /\ loads[l].seen \in [Objects -> 0..Unread]
           /\ loads[l].status \in {"running", "ok", "err"}
           /\ loads[l].cancelled \in BOOLEAN
           /\ nextLoad \in Nat
  BY BoundsAssumption DEF TypeOK, LoadType, Load

LEMMA EnvIInv ==
    ASSUME IInv, Tick \/ (\E o \in Objects : ClusterChange(o)) \/ UNCHANGED vars
    PROVE  IInv'
<1>1. TypeOK'
  BY EnvTypeOK, StutterTypeOK DEF IInv
<1>2. UNCHANGED <<notice, delivered, kept, loading, dirtyLoading, nextLoad, loads,
                  readers, last>>
  BY DEF Tick, ClusterChange, vars, watchVars, tableVars
<1>3. \A o \in Objects : cluster'[o] = cluster[o] \/ cluster'[o] = cluster[o] + 1
  BY DEF Tick, ClusterChange, vars, watchVars, IInv, TypeOK, WatchType
<1>4. WatchOrdered'
  BY <1>2, <1>3, WatchNats DEF WatchOrdered, IInv
<1>5. CleanCaught'
  BY <1>2 DEF IInv, CleanCaught, Caught
<1>. QED
  BY <1>1, <1>2, <1>4, <1>5
  DEF IInv, EntriesOwnLoads, ReadersOwnLoads, OkLoadsComplete, NewestWins,
      AnswersAdvance, SingleFlight

LEMMA WatchIInv ==
    ASSUME IInv, NEW o \in Objects, WatchStep(o)
    PROVE  IInv'
<1>1. TypeOK'
  BY WatchTypeOK DEF IInv
<1>2. CASE WatchEvent(o)
  <2>1. PICK v \in delivered[o]..cluster[o] :
           notice' = [notice EXCEPT ![o] = [ver |-> v, todo |-> Marks[o]]]
    BY <1>2 DEF WatchEvent
  <2>2. UNCHANGED <<cluster, delivered, kept, loading, dirtyLoading, nextLoad, loads,
                    readers, last>>
    BY <1>2 DEF WatchEvent, tableVars
  <2>3. \A x \in Objects :
           notice'[x] = IF x = o THEN [ver |-> v, todo |-> Marks[o]] ELSE notice[x]
    BY <2>1 DEF IInv, TypeOK, WatchType
  <2>4. WatchOrdered'
    BY <2>2, <2>3, WatchNats DEF WatchOrdered, IInv
  <2>5. CleanCaught'
    <3>1. ASSUME NEW k \in Keys, NEW x \in Covers[k], NEW w, Caught(k, x, w)
          PROVE  Caught(k, x, w)'
      BY <2>2, <2>3, <3>1, MarksAssumption, KeysAssumption DEF Caught
    <3>. QED  BY <2>2, <3>1 DEF IInv, CleanCaught
  <2>. QED
    BY <1>1, <2>2, <2>4, <2>5
    DEF IInv, EntriesOwnLoads, ReadersOwnLoads, OkLoadsComplete, NewestWins,
        AnswersAdvance, SingleFlight
<1>3. CASE Broadcast(o)
  <2>1. /\ notice[o].todo = {}
        /\ delivered' = [delivered EXCEPT ![o] = notice[o].ver]
        /\ UNCHANGED <<cluster, notice, kept, loading, dirtyLoading, nextLoad, loads,
                       readers, last>>
    BY <1>3 DEF Broadcast, tableVars
  <2>2. \A x \in Objects : delivered'[x] = IF x = o THEN notice[o].ver ELSE delivered[x]
    BY <2>1 DEF IInv, TypeOK, WatchType
  <2>3. WatchOrdered'
    BY <2>1, <2>2, WatchNats DEF WatchOrdered, IInv
  <2>4. CleanCaught'
    <3>1. ASSUME NEW k \in Keys, NEW x \in Covers[k], NEW w, Caught(k, x, w)
          PROVE  Caught(k, x, w)'
      BY <2>1, <2>2, <3>1, KeysAssumption DEF Caught
    <3>. QED  BY <2>1, <3>1 DEF IInv, CleanCaught
  <2>. QED
    BY <1>1, <2>1, <2>3, <2>4
    DEF IInv, EntriesOwnLoads, ReadersOwnLoads, OkLoadsComplete, NewestWins,
        AnswersAdvance, SingleFlight
<1>4. ASSUME NEW k \in Keys, MarkOne(o, k)
      PROVE  IInv'
  <2>1. /\ notice' = [notice EXCEPT ![o].todo = @ \ {k}]
        /\ UNCHANGED <<cluster, delivered, loading, nextLoad, loads, readers, last>>
    BY <1>4 DEF MarkOne
  <2>2. \A x \in Objects : /\ notice'[x].ver = notice[x].ver
                           /\ notice'[x].todo = IF x = o THEN notice[x].todo \ {k}
                                                         ELSE notice[x].todo
    BY <2>1 DEF IInv, TypeOK, WatchType
  <2>3. WatchOrdered'
    BY <2>1, <2>2 DEF WatchOrdered, IInv
  <2>4. \A x \in Keys : /\ kept'[x] = NoValue <=> kept[x] = NoValue
                        /\ kept'[x].load = kept[x].load
                        /\ x # k => /\ kept'[x] = kept[x]
                                    /\ dirtyLoading'[x] = dirtyLoading[x]
                        /\ kept[x].dirty => kept'[x].dirty
                        /\ dirtyLoading[x] => dirtyLoading'[x]
    <3>1. CASE loading[k] # 0
      BY <1>4, <3>1 DEF MarkOne, mark_dirty, IInv, TypeOK, TableType
    <3>2. CASE loading[k] = 0
      <4>1. /\ kept' = [kept EXCEPT ![k] = Dirtied(kept[k], TRUE)]
            /\ dirtyLoading' = dirtyLoading
        BY <1>4, <3>2 DEF MarkOne, mark_dirty
      <4>2. /\ Dirtied(kept[k], TRUE) = NoValue <=> kept[k] = NoValue
            /\ Dirtied(kept[k], TRUE).load = kept[k].load
            /\ Dirtied(kept[k], TRUE).dirty
        BY ZenonT(60), DirtiedType DEF IInv, TypeOK, TableType
      <4>. QED  BY <4>1, <4>2 DEF IInv, TypeOK, TableType
    <3>. QED  BY <3>1, <3>2
  <2>5. /\ loading[k] # 0 => dirtyLoading'[k]
        /\ loading[k] = 0 => kept'[k].dirty
    <3>1. CASE loading[k] # 0
      BY <1>4, <3>1 DEF MarkOne, mark_dirty, IInv, TypeOK, TableType
    <3>2. CASE loading[k] = 0
      <4>1. kept' = [kept EXCEPT ![k] = Dirtied(kept[k], TRUE)]
        BY <1>4, <3>2 DEF MarkOne, mark_dirty
      <4>. QED  BY <3>2, <4>1 DEF Dirtied, IInv, TypeOK, TableType
    <3>. QED  BY <3>1, <3>2
  <2>6. EntriesOwnLoads'
    BY <2>1, <2>4 DEF IInv, EntriesOwnLoads
  <2>7. CleanCaught'
    <3>1. ASSUME NEW x \in Keys, NEW c \in Covers[x], NEW w, x # k, Caught(x, c, w)
          PROVE  Caught(x, c, w)'
      BY <2>1, <2>2, <3>1, KeysAssumption DEF Caught
    <3>2. ASSUME NEW x \in Keys, NEW c \in Covers[x], x # k
          PROVE  CleanCaught!(x)!(c)'
      BY <2>1, <2>4, <3>1, <3>2 DEF IInv, CleanCaught
    <3>3. ASSUME NEW c \in Covers[k]
          PROVE  CleanCaught!(k)!(c)'
      BY <2>1, <2>5
    <3>. QED  BY <3>2, <3>3 DEF CleanCaught
  <2>8. NewestWins'
    BY <2>1, <2>4 DEF IInv, NewestWins
  <2>. QED
    BY <1>1, <2>1, <2>3, <2>6, <2>7, <2>8
    DEF IInv, ReadersOwnLoads, OkLoadsComplete, AnswersAdvance, SingleFlight
<1>. QED  BY <1>2, <1>3, <1>4 DEF WatchStep

(* A reader answered from load l of entry k: only readers and last change,  *)
(* and the reader waits no more.                                            *)
LEMMA AnswerIInv ==
    ASSUME IInv, TypeOK', NEW r \in Readers, NEW k \in Keys, NEW l \in 1..nextLoad,
           Answer(r, k, l), loads[l].key = k, loads[l].status = "ok",
           UNCHANGED loads
    PROVE  ReadersOwnLoads' /\ AnswersAdvance'
<1>1. /\ \A x \in Readers : readers'[x] = IF x = r THEN Idle ELSE readers[x]
      /\ \A x \in Readers : last'[x] = IF x = r THEN [key |-> k, load |-> l] ELSE last[x]
  BY DEF Answer, IInv, TypeOK, ReaderType
<1>2. Idle.pc = "idle"
  BY BoundsFacts
<1>. QED  BY <1>1, <1>2 DEF IInv, ReadersOwnLoads, AnswersAdvance

LEMMA ReadIInv ==
    ASSUME IInv, NEW r \in Readers, ReadStep(r)
    PROVE  IInv'
<1>. USE DEF watchVars, tableVars
<1>1. TypeOK'
  BY ReadTypeOK DEF IInv
<1>2. ASSUME UNCHANGED <<watchVars, tableVars, nextLoad, loads, now>>,
             ReadersOwnLoads', AnswersAdvance'
      PROVE  IInv'
  <2>1. CleanCaught'
    BY <1>2 DEF IInv, CleanCaught, Caught
  <2>. QED
    BY <1>1, <1>2, <2>1
    DEF IInv, WatchOrdered, EntriesOwnLoads, OkLoadsComplete, NewestWins, SingleFlight
<1>3. ASSUME NEW c \in Keys, CanReuse(c), Answer(r, c, kept[c].load), UNCHANGED loads
      PROVE  ReadersOwnLoads' /\ AnswersAdvance'
  <2>1. /\ kept[c].load \in 1..nextLoad
        /\ loads[kept[c].load].key = c
        /\ loads[kept[c].load].status = "ok"
    BY <1>3, KeptLoad DEF CanReuse, IInv, EntriesOwnLoads
  <2>. QED  BY <1>1, <1>3, <2>1, AnswerIInv
<1>4. ASSUME NEW k \in Keys, PeekCovering(r, k)
      PROVE  IInv'
  <2>1. CASE \E c \in CoveredBy[k] : CanReuse(c) /\ Answer(r, c, kept[c].load)
    BY <1>2, <1>3, <1>4, <2>1, KeysAssumption DEF PeekCovering
  <2>2. CASE /\ readers[r].pc = "idle"
             /\ readers' = [readers EXCEPT ![r].pc = "peeked", ![r].key = k]
             /\ UNCHANGED last
    <3>1. \A x \in Readers : IF x = r THEN readers'[x].pc = "peeked"
                                      ELSE readers'[x] = readers[x]
      BY <2>2 DEF IInv, TypeOK, ReaderType, Reader
    <3>2. ReadersOwnLoads' /\ AnswersAdvance'
      BY ZenonT(60), <1>4, <2>2, <3>1 DEF PeekCovering, IInv, ReadersOwnLoads, AnswersAdvance
    <3>. QED  BY <1>2, <1>4, <3>2 DEF PeekCovering
  <2>. QED  BY <1>4, <2>1, <2>2 DEF PeekCovering
<1>5. CASE Hit(r)
  <2>1. readers[r].key \in Keys
    BY DEF IInv, TypeOK, ReaderType, Reader
  <2>. QED  BY <1>2, <1>3, <1>5, <2>1 DEF Hit
<1>6. CASE Join(r)
  <2>. DEFINE k == readers[r].key
  <2>1. /\ k \in Keys /\ loading[k] \in 1..nextLoad
        /\ loads[loading[k]].key = k
    BY <1>6, BoundsAssumption
    DEF Join, IInv, TypeOK, TableType, LoadType, ReaderType, Reader, EntriesOwnLoads
  <2>2. \A x \in Readers : readers'[x] = IF x = r THEN Waiting(k, loading[k])
                                                  ELSE readers[x]
    BY <1>6 DEF Join, IInv, TypeOK, ReaderType
  <2>3. ReadersOwnLoads'
    BY <1>6, <2>1, <2>2 DEF Join, Waiting, IInv, ReadersOwnLoads
  <2>4. last[r].key = k => last[r].load <= loading[k]
    <3>1. CASE last[r].load = 0
      BY <2>1, <3>1
    <3>2. CASE last[r].load # 0 /\ last[r].key = k
      <4>1. last[r].load \in 1..nextLoad /\ loads[last[r].load].key = k
        BY <3>2, BoundsAssumption
        DEF IInv, TypeOK, LoadType, ReaderType, ReadersOwnLoads
      <4>. QED  BY <2>1, <4>1 DEF IInv, NewestWins
    <3>. QED  BY <3>1, <3>2
  <2>5. AnswersAdvance'
    BY <1>6, <2>2, <2>4 DEF Join, Waiting, IInv, AnswersAdvance
  <2>. QED  BY <1>2, <1>6, <2>3, <2>5 DEF Join
<1>7. CASE Miss(r)
  <2>. DEFINE k == readers[r].key
              l == nextLoad + 1
  <2>0. /\ k \in Keys /\ nextLoad \in Nat
        /\ loading[k] = 0 /\ ~dirtyLoading[k]
    BY <1>7, BoundsAssumption
    DEF Miss, IInv, TypeOK, TableType, LoadType, ReaderType, Reader
  <2>1. /\ nextLoad' = l
        /\ UNCHANGED <<cluster, notice, delivered, kept, last>>
        /\ \A i \in 1..nextLoad : loads'[i] = loads[i]
        /\ loads'[l] = [key |-> k, seen |-> NothingRead, status |-> "running",
                        cancelled |-> FALSE]
        /\ l \in Nat \ {0} /\ \A i \in 0..nextLoad : i < l
        /\ 1..nextLoad' = (1..nextLoad) \cup {l}
    BY <1>7, <2>0 DEF Miss
  <2>2. \A x \in Keys : /\ loading'[x] = IF x = k THEN l ELSE loading[x]
                        /\ dirtyLoading'[x] = IF x = k THEN FALSE ELSE dirtyLoading[x]
    BY <1>7 DEF Miss, IInv, TypeOK, TableType
  <2>3. \A x \in Readers : readers'[x] = IF x = r THEN Waiting(k, l) ELSE readers[x]
    BY <1>7 DEF Miss, IInv, TypeOK, ReaderType
  <2>. HIDE DEF k, l
  <2>4. /\ \A x \in Keys : loading[x] \in 0..nextLoad /\ kept[x].load \in 0..nextLoad
        /\ \A x \in Readers : last[x].load \in 0..nextLoad
        /\ \A x \in Readers : readers[x].load \in 0..nextLoad
        /\ \A x \in Readers : readers[x].pc \in {"await", "install"} => readers[x].load # 0
    BY DEF IInv, TypeOK, TableType, ReaderType
  <2>5. WatchOrdered'
    BY <2>1 DEF IInv, WatchOrdered
  <2>a. \A x \in Keys :
           /\ kept[x] # NoValue => /\ kept[x].load \in 1..nextLoad
                                   /\ loads'[kept[x].load] = loads[kept[x].load]
           /\ loading[x] # 0 => /\ loading[x] \in 1..nextLoad
                                /\ loads'[loading[x]] = loads[loading[x]]
    BY <2>0, <2>1, <2>4 DEF IInv, EntriesOwnLoads
  <2>b. /\ loads'[l].key = k /\ loads'[l].seen = NothingRead
        /\ loads'[l].status = "running" /\ ~loads'[l].cancelled
    BY <2>1
  <2>6. EntriesOwnLoads'
    <3>1. ASSUME NEW x \in Keys PROVE EntriesOwnLoads!(x)'
      <4>1. kept'[x] # NoValue =>
                /\ kept'[x].load # 0
                /\ loads'[kept'[x].load].key = x
                /\ loads'[kept'[x].load].status = "ok"
                /\ ~loads'[kept'[x].load].cancelled
        BY <2>1, <2>a DEF IInv, EntriesOwnLoads
      <4>2. CASE x = k
        BY <2>0, <2>1, <2>2, <2>4, <2>b, <4>1, <4>2
      <4>3. CASE x # k
        <5>1. loading'[x] = loading[x] /\ kept'[x] = kept[x]
          BY <2>1, <2>2, <4>3
        <5>. QED  BY <2>a, <4>1, <5>1 DEF IInv, EntriesOwnLoads
      <4>. QED  BY <4>2, <4>3
    <3>. QED  BY <3>1 DEF EntriesOwnLoads
  <2>7. ReadersOwnLoads'
    BY <2>0, <2>1, <2>3, <2>4 DEF IInv, ReadersOwnLoads, Waiting
  <2>8. OkLoadsComplete'
    BY <2>1 DEF IInv, OkLoadsComplete
  <2>9. CleanCaught'
    <3>1. \A x \in Keys, o \in Objects : \A v : Caught(x, o, v)' <=> Caught(x, o, v)
      BY <2>1 DEF Caught
    <3>2. \A o \in Objects : NothingRead[o] \notin Versions
      BY BoundsAssumption DEF NothingRead, Unread, Versions
    <3>3. ASSUME NEW x \in Keys, NEW o \in Covers[x]
          PROVE  CleanCaught!(x)!(o)'
      <4>1. o \in Objects
        BY KeysAssumption
      <4>2. CASE x # k
        <5>1. /\ loading'[x] = loading[x] /\ kept'[x] = kept[x]
              /\ dirtyLoading'[x] = dirtyLoading[x]
          BY <2>1, <2>2, <4>2
        <5>. QED  BY <2>a, <3>1, <4>1, <5>1 DEF IInv, CleanCaught
      <4>3. CASE x = k
        <5>1. loading'[x] = l /\ kept'[x] = kept[x] /\ ~dirtyLoading[x]
          BY <2>0, <2>1, <2>2, <4>3
        <5>2. loads'[l].seen[o] \notin Versions
          BY <2>b, <3>2, <4>1
        <5>. QED  BY <2>a, <3>1, <4>1, <5>1, <5>2 DEF IInv, CleanCaught
      <4>. QED  BY <4>2, <4>3
    <3>. QED  BY <3>3 DEF CleanCaught
  <2>10. NewestWins'
    <3>1. ASSUME NEW x \in Keys, NEW i \in 1..nextLoad', loads'[i].key = x
          PROVE  /\ loading'[x] # 0 => i <= loading'[x]
                 /\ (kept'[x] # NoValue /\ ~kept'[x].dirty /\ i > kept'[x].load
                       /\ i # loading'[x]) => loads'[i].status = "err"
      <4>1. CASE i = l
        <5>1. x = k
          BY <2>b, <3>1, <4>1
        <5>2. loading'[x] = l
          BY <2>2, <5>1
        <5>. QED  BY <2>1, <4>1, <5>2
      <4>2. CASE i # l /\ x = k
        <5>1. i \in 1..nextLoad /\ loads'[i] = loads[i] /\ i < l
          BY <2>0, <2>1, <4>2
        <5>2. loading'[x] = l /\ loading[x] = 0 /\ kept'[x] = kept[x]
          BY <2>0, <2>1, <2>2, <4>2
        <5>3. i <= l /\ i # loading[x]
          BY <2>0, <2>1, <5>1, <5>2
        <5>. QED  BY <3>1, <5>1, <5>2, <5>3 DEF IInv, NewestWins
      <4>3. CASE i # l /\ x # k
        <5>1. i \in 1..nextLoad /\ loads'[i] = loads[i]
          BY <2>1, <4>3
        <5>2. loading'[x] = loading[x] /\ kept'[x] = kept[x]
          BY <2>1, <2>2, <4>3
        <5>. QED  BY <3>1, <5>1, <5>2 DEF IInv, NewestWins
      <4>. QED  BY <4>1, <4>2, <4>3
    <3>. QED  BY <3>1 DEF NewestWins
  <2>11. AnswersAdvance'
    BY <2>0, <2>1, <2>3, <2>4 DEF IInv, AnswersAdvance, Waiting
  <2>12. SingleFlight'
    <3>1. \A i \in 1..nextLoad : loads[i].key \in Keys
      BY LoadFacts DEF IInv
    <3>2. ASSUME NEW i \in 1..nextLoad',
                 loads'[i].status = "running" /\ ~loads'[i].cancelled
          PROVE  loading'[loads'[i].key] = i
      <4>1. CASE i = l
        BY <2>0, <2>2, <2>b, <4>1
      <4>2. CASE i # l
        <5>1. i \in 1..nextLoad /\ loads'[i] = loads[i]
          BY <2>1, <4>2
        <5>2. loading[loads[i].key] = i
          BY <3>2, <5>1 DEF IInv, SingleFlight
        <5>3. loads[i].key # k
          BY <2>0, <5>1, <5>2
        <5>. QED  BY <2>2, <3>1, <5>1, <5>2, <5>3
      <4>. QED  BY <4>1, <4>2
    <3>. QED  BY <3>2 DEF SingleFlight
  <2>. QED
    BY <1>1, <2>5, <2>6, <2>7, <2>8, <2>9, <2>10, <2>11, <2>12 DEF IInv
<1>8. CASE DropReader(r)
  <2>1. \A x \in Readers : readers'[x] = IF x = r THEN Idle ELSE readers[x]
    BY <1>8 DEF DropReader, IInv, TypeOK, ReaderType
  <2>2. ReadersOwnLoads' /\ AnswersAdvance'
    BY <1>8, <2>1, BoundsFacts DEF DropReader, IInv, ReadersOwnLoads, AnswersAdvance
  <2>. QED  BY <1>2, <1>8, <2>2 DEF DropReader
<1>. QED  BY <1>4, <1>5, <1>6, <1>7, <1>8 DEF ReadStep

LEMMA LoadDoneIInv ==
    ASSUME IInv, NEW r \in Readers, NEW s \in {"ok", "err"}, LoadDone(r, s),
           s = "ok" => \A o \in Covers[readers[r].key] :
                          loads[readers[r].load].seen[o] # Unread
    PROVE  IInv'
<1>. DEFINE l == readers[r].load
            k == readers[r].key
<1>1. TypeOK'
  BY LoadDoneTypeOK DEF IInv
<1>2. /\ l \in 1..nextLoad /\ loads[l].key = k /\ k \in Keys
      /\ loads[l].status = "running"
  BY BoundsAssumption
  DEF LoadDone, IInv, TypeOK, LoadType, ReaderType, Reader, ReadersOwnLoads
<1>3. /\ UNCHANGED <<cluster, notice, delivered, kept, loading, dirtyLoading,
                     nextLoad, last>>
  BY DEF LoadDone, watchVars, tableVars
<1>4. \A i \in 1..nextLoad :
         /\ loads'[i].key = loads[i].key
         /\ loads'[i].cancelled = loads[i].cancelled
         /\ loads'[i].status = IF i = l THEN s ELSE loads[i].status
         /\ loads'[i].seen = IF i = l /\ s = "err" THEN NothingRead ELSE loads[i].seen
  BY <1>2 DEF LoadDone, IInv, TypeOK, LoadType, Load
<1>5. \A x \in Readers : /\ readers'[x].key = readers[x].key
                         /\ readers'[x].load = readers[x].load
                         /\ readers'[x].pc = IF x = r THEN "install" ELSE readers[x].pc
  BY DEF LoadDone, IInv, TypeOK, ReaderType, Reader
<1>6. /\ \A x \in Keys : loading[x] \in 0..nextLoad /\ kept[x].load \in 0..nextLoad
      /\ \A x \in Readers : last[x].load \in 0..nextLoad
      /\ \A x \in Readers : readers[x].load \in 0..nextLoad
      /\ \A x \in Readers : readers[x].pc \in {"await", "install"} => readers[x].load # 0
      /\ nextLoad \in Nat
      /\ readers[r].pc = "await"
  BY BoundsAssumption DEF LoadDone, IInv, TypeOK, TableType, LoadType, ReaderType
<1>7. WatchOrdered'
  BY <1>3 DEF IInv, WatchOrdered
<1>8. EntriesOwnLoads'
  BY <1>2, <1>3, <1>4, <1>6 DEF IInv, EntriesOwnLoads
<1>9. ReadersOwnLoads'
  BY <1>2, <1>3, <1>4, <1>5, <1>6 DEF IInv, ReadersOwnLoads
<1>10. OkLoadsComplete'
  <2>1. ASSUME s = "ok", NEW o \in Covers[k]
        PROVE  loads[l].seen[o] \in Versions
    <3>1. o \in Objects
      BY <1>2, KeysAssumption
    <3>2. loads[l].seen \in [Objects -> 0..Unread]
      BY <1>2, LoadFacts DEF IInv
    <3>3. loads[l].seen[o] # Unread
      BY <2>1
    <3>. QED  BY <3>1, <3>2, <3>3, BoundsAssumption DEF Unread, Versions
  <2>. QED  BY <1>2, <1>3, <1>4, <2>1 DEF IInv, OkLoadsComplete
<1>11. CleanCaught'
  <2>1. \A x \in Keys, o \in Objects : \A v : Caught(x, o, v)' <=> Caught(x, o, v)
    BY <1>3 DEF Caught
  <2>2. \A o \in Objects : NothingRead[o] \notin Versions
    BY BoundsAssumption DEF NothingRead, Unread, Versions
  <2>3. ASSUME NEW x \in Keys, NEW o \in Covers[x]
        PROVE  CleanCaught!(x)!(o)'
    <3>1. o \in Objects
      BY KeysAssumption
    <3>2. kept[x] # NoValue => loads'[kept[x].load].seen = loads[kept[x].load].seen
      BY <1>2, <1>4, <1>6 DEF IInv, EntriesOwnLoads
    <3>3. loading[x] # 0 => /\ loads'[loading[x]].seen = loads[loading[x]].seen
                            \/ loads'[loading[x]].seen = NothingRead
      BY <1>4, <1>6
    <3>. QED  BY <1>3, <2>1, <2>2, <3>1, <3>2, <3>3 DEF IInv, CleanCaught
  <2>. QED  BY <2>3 DEF CleanCaught
<1>12. NewestWins'
  BY <1>2, <1>3, <1>4 DEF IInv, NewestWins
<1>13. AnswersAdvance'
  BY <1>3, <1>5, <1>6 DEF IInv, AnswersAdvance
<1>14. SingleFlight'
  BY <1>3, <1>4 DEF IInv, SingleFlight
<1>. QED
  BY <1>1, <1>7, <1>8, <1>9, <1>10, <1>11, <1>12, <1>13, <1>14 DEF IInv

LEMMA LoadIInv ==
    ASSUME IInv, NEW r \in Readers, LoadStep(r)
    PROVE  IInv'
<1>1. CASE LoaderSucceeds(r) \/ LoaderFails(r) \/ LoaderCancelled(r)
  BY <1>1, LoadDoneIInv DEF LoaderSucceeds, LoaderFails, LoaderCancelled
<1>2. CASE Wake(r)
  <2>1. TypeOK'
    BY LoadTypeOK DEF IInv
  <2>2. /\ UNCHANGED <<cluster, notice, delivered, kept, loading, dirtyLoading,
                       nextLoad, loads, last>>
        /\ readers[r].pc = "await"
        /\ loads[readers[r].load].status # "running"
    BY <1>2 DEF Wake, watchVars, tableVars
  <2>3. \A x \in Readers : /\ readers'[x].key = readers[x].key
                           /\ readers'[x].load = readers[x].load
                           /\ readers'[x].pc = IF x = r THEN "install" ELSE readers[x].pc
    BY <1>2 DEF Wake, IInv, TypeOK, ReaderType, Reader
  <2>4. ReadersOwnLoads' /\ AnswersAdvance'
    BY <2>2, <2>3 DEF IInv, ReadersOwnLoads, AnswersAdvance
  <2>5. CleanCaught'
    BY <2>2 DEF IInv, CleanCaught, Caught
  <2>. QED
    BY <2>1, <2>2, <2>4, <2>5
    DEF IInv, WatchOrdered, EntriesOwnLoads, OkLoadsComplete, NewestWins, SingleFlight
<1>. QED  BY <1>1, <1>2 DEF LoadStep

LEMMA LoaderReadsIInv ==
    ASSUME IInv, NEW l \in 1..nextLoad, NEW o \in Objects, LoaderReads(l, o)
    PROVE  IInv'
<1>1. TypeOK'
  BY LoaderReadsTypeOK DEF IInv
<1>2. /\ UNCHANGED <<cluster, notice, delivered, kept, loading, dirtyLoading,
                     nextLoad, readers, last>>
      /\ loads[l].status = "running"
  BY DEF LoaderReads, watchVars, tableVars
<1>3. \A i \in 1..nextLoad :
         /\ loads'[i].key = loads[i].key
         /\ loads'[i].cancelled = loads[i].cancelled
         /\ loads'[i].status = loads[i].status
         /\ i # l => loads'[i].seen = loads[i].seen
         /\ \A x \in Objects : x # o => loads'[i].seen[x] = loads[i].seen[x]
  BY DEF LoaderReads, IInv, TypeOK, LoadType, Load
<1>4. loads'[l].seen[o] = cluster[o]
  BY DEF LoaderReads, IInv, TypeOK, LoadType, Load
<1>5. /\ \A x \in Keys : loading[x] \in 0..nextLoad /\ kept[x].load \in 0..nextLoad
      /\ \A x \in Readers : last[x].load \in 0..nextLoad
      /\ \A x \in Readers : readers[x].load \in 0..nextLoad
      /\ \A x \in Readers : readers[x].pc \in {"await", "install"} => readers[x].load # 0
      /\ nextLoad \in Nat
  BY BoundsAssumption DEF IInv, TypeOK, TableType, LoadType, ReaderType
<1>6. EntriesOwnLoads'
  BY <1>2, <1>3, <1>5 DEF IInv, EntriesOwnLoads
<1>7. ReadersOwnLoads'
  BY <1>2, <1>3, <1>5 DEF IInv, ReadersOwnLoads
<1>8. OkLoadsComplete'
  BY <1>2, <1>3, KeysAssumption DEF IInv, OkLoadsComplete
<1>9. CleanCaught'
  <2>1. \A x \in Keys, c \in Objects : \A v : Caught(x, c, v)' <=> Caught(x, c, v)
    BY <1>2 DEF Caught
  <2>2. \A x \in Keys : Caught(x, o, cluster[o])
    BY WatchNats DEF IInv, WatchOrdered, Caught
  <2>3. ASSUME NEW x \in Keys, NEW c \in Covers[x]
        PROVE  CleanCaught!(x)!(c)'
    <3>1. c \in Objects
      BY KeysAssumption
    <3>2. kept[x] # NoValue => loads'[kept[x].load].seen = loads[kept[x].load].seen
      BY <1>2, <1>3, <1>5 DEF IInv, EntriesOwnLoads
    <3>3. loading[x] # 0 => \/ loads'[loading[x]].seen[c] = loads[loading[x]].seen[c]
                            \/ c = o /\ loads'[loading[x]].seen[c] = cluster[o]
      BY <1>3, <1>4, <1>5, <3>1
    <3>. QED  BY <1>2, <2>1, <2>2, <3>1, <3>2, <3>3 DEF IInv, CleanCaught
  <2>. QED  BY <2>3 DEF CleanCaught
<1>10. NewestWins' /\ SingleFlight'
  BY <1>2, <1>3 DEF IInv, NewestWins, SingleFlight
<1>. QED
  BY <1>1, <1>2, <1>6, <1>7, <1>8, <1>9, <1>10 DEF IInv, WatchOrdered, AnswersAdvance

(* Settling load l of entry k: the table shrinks elsewhere, and entry k keeps *)
(* the new value, its previous one, or nothing.                              *)
LEMMA SettledIInv ==
    ASSUME IInv, TypeOK', NEW r \in Readers, Settles(r),
           UNCHANGED <<cluster, notice, delivered, nextLoad, loads>>,
           ReadersOwnLoads', AnswersAdvance',
           \A x \in Keys :
              /\ loading'[x] = IF x = readers[r].key THEN 0 ELSE loading[x]
              /\ dirtyLoading'[x] = IF x = readers[r].key THEN FALSE
                                                         ELSE dirtyLoading[x]
              /\ x # readers[r].key => kept'[x] = kept[x] \/ kept'[x] = NoValue,
           \/ kept'[readers[r].key] = NoValue
           \/ /\ kept'[readers[r].key].load = readers[r].load
              /\ kept'[readers[r].key].dirty <=> dirtyLoading[readers[r].key]
              /\ loads[readers[r].load].status = "ok"
           \/ /\ kept[readers[r].key] # NoValue
              /\ kept'[readers[r].key].load = kept[readers[r].key].load
              /\ ~kept'[readers[r].key].dirty =>
                    ~kept[readers[r].key].dirty /\ ~dirtyLoading[readers[r].key]
              /\ loads[readers[r].load].status = "err"
    PROVE  IInv'
<1>. DEFINE k == readers[r].key
            l == readers[r].load
<1>1. /\ k \in Keys /\ l \in 1..nextLoad /\ loading[k] = l
      /\ loads[l].key = k /\ loads[l].status # "running" /\ ~loads[l].cancelled
  <2>1. readers[r].pc = "install" /\ loading[k] = l
    BY DEF Settles
  <2>2. k \in Keys /\ l \in 0..nextLoad /\ l # 0 /\ nextLoad \in Nat
    BY <2>1, BoundsAssumption DEF IInv, TypeOK, LoadType, ReaderType, Reader
  <2>3. loads[l].key = k /\ loads[l].status # "running"
    BY <2>1 DEF IInv, ReadersOwnLoads
  <2>4. ~loads[l].cancelled
    BY <2>1, <2>2 DEF IInv, EntriesOwnLoads
  <2>. QED  BY <2>1, <2>2, <2>3, <2>4
<1>a. /\ \A x \in Keys :
            /\ loading'[x] = IF x = k THEN 0 ELSE loading[x]
            /\ dirtyLoading'[x] = IF x = k THEN FALSE ELSE dirtyLoading[x]
            /\ x # k => kept'[x] = kept[x] \/ kept'[x] = NoValue
      /\ UNCHANGED <<loads, nextLoad, delivered, notice>>
  OBVIOUS
<1>b. \/ kept'[k] = NoValue
      \/ /\ kept'[k].load = l
         /\ kept'[k].dirty <=> dirtyLoading[k]
         /\ loads[l].status = "ok"
      \/ /\ kept[k] # NoValue
         /\ kept'[k].load = kept[k].load
         /\ ~kept'[k].dirty => ~kept[k].dirty /\ ~dirtyLoading[k]
         /\ loads[l].status = "err"
  OBVIOUS
<1>. HIDE DEF k, l
<1>2. EntriesOwnLoads'
  <2>1. NoValue.load = 0 /\ \A x \in Keys : loading[x] \in Nat
    BY BoundsAssumption DEF NoValue, IInv, TypeOK, TableType, LoadType
  <2>2. ASSUME NEW x \in Keys
        PROVE  EntriesOwnLoads!(x)'
    <3>1. CASE x = k
      <4>1. loading'[x] = 0
        BY <1>1, <1>a, <3>1
      <4>. QED  BY <1>1, <1>a, <1>b, <3>1, <4>1 DEF IInv, EntriesOwnLoads
    <3>2. CASE x # k
      <4>1. loading'[x] = loading[x] /\ (kept'[x] = kept[x] \/ kept'[x] = NoValue)
        BY <1>a, <3>2
      <4>. QED  BY <1>a, <2>1, <3>2, <4>1 DEF IInv, EntriesOwnLoads
    <3>. QED  BY <3>1, <3>2
  <2>. QED  BY <2>2 DEF EntriesOwnLoads
<1>3. CleanCaught'
  <2>1. \A x \in Keys, o \in Objects : \A v : Caught(x, o, v)' <=> Caught(x, o, v)
    BY <1>a DEF Caught
  <2>2. ASSUME NEW x \in Keys, NEW o \in Covers[x]
        PROVE  CleanCaught!(x)!(o)'
    <3>1. o \in Objects
      BY KeysAssumption
    <3>2. CASE x = k
      <4>1. loads[l].status = "ok" /\ ~dirtyLoading[k] => Caught(k, o, loads[l].seen[o])
        BY <1>1, <3>2 DEF IInv, CleanCaught, OkLoadsComplete
      <4>2. loading'[k] = 0 /\ ~dirtyLoading'[k]
        BY <1>1, <1>a
      <4>. QED  BY <1>1, <1>a, <1>b, <2>1, <3>1, <3>2, <4>1, <4>2 DEF IInv, CleanCaught
    <3>3. CASE x # k
      BY <1>a, <2>1, <3>1, <3>3 DEF IInv, CleanCaught
    <3>. QED  BY <3>2, <3>3
  <2>. QED  BY <2>2 DEF CleanCaught
<1>4. NewestWins'
  <2>1. ASSUME NEW x \in Keys, NEW i \in 1..nextLoad, loads[i].key = x
        PROVE  NewestWins!(x)!(i)'
    <3>1. CASE x = k
      <4>1. i \in Nat /\ l \in Nat /\ i <= l /\ loading'[k] = 0
        <5>1. i \in Nat /\ l \in Nat /\ l # 0
          BY <1>1
        <5>2. loading'[k] = 0
          BY <1>1, <1>a
        <5>. QED  BY <1>1, <2>1, <3>1, <5>1, <5>2 DEF IInv, NewestWins
      <4>2. CASE kept'[k].load = l
        BY <3>1, <4>1, <4>2
      <4>3. CASE /\ kept[k] # NoValue
                 /\ kept'[k].load = kept[k].load
                 /\ ~kept'[k].dirty => ~kept[k].dirty /\ ~dirtyLoading[k]
                 /\ loads[l].status = "err"
        BY <1>1, <1>a, <2>1, <3>1, <4>1, <4>3 DEF IInv, NewestWins
      <4>4. CASE kept'[k] = NoValue
        BY <3>1, <4>1, <4>4
      <4>. QED  BY <1>b, <4>2, <4>3, <4>4
    <3>2. CASE x # k
      BY ZenonT(60), <1>a, <2>1, <3>2 DEF IInv, NewestWins
    <3>. QED  BY <3>1, <3>2
  <2>. QED  BY <1>a, <2>1 DEF NewestWins
<1>5. SingleFlight'
  <2>1. ASSUME NEW i \in 1..nextLoad, loads[i].status = "running", ~loads[i].cancelled
        PROVE  loading'[loads[i].key] = i
    <3>1. loading[loads[i].key] = i /\ loads[i].key \in Keys
      BY <2>1, LoadFacts DEF IInv, SingleFlight
    <3>2. loads[i].key # k
      BY <1>1, <2>1, <3>1
    <3>. QED  BY <1>a, <3>1, <3>2
  <2>. QED  BY <1>a, <2>1 DEF SingleFlight
<1>. QED
  BY <1>2, <1>3, <1>4, <1>5 DEF IInv, WatchOrdered, OkLoadsComplete

LEMMA SettleIInv ==
    ASSUME IInv, NEW r \in Readers, SettleStep(r)
    PROVE  IInv'
<1>. DEFINE k == readers[r].key
            l == readers[r].load
<1>1. TypeOK'
  BY SettleTypeOK DEF IInv
<1>2. /\ k \in Keys /\ l \in 1..nextLoad
      /\ loads[l].key = k
  BY BoundsAssumption
  DEF SettleStep, SettleOk, SettleErr, ReturnOnly, Settles, IInv, TypeOK, LoadType,
      ReaderType, Reader, ReadersOwnLoads
<1>3. ASSUME UNCHANGED <<loads, last>>, readers' = [readers EXCEPT ![r] = Idle]
      PROVE  ReadersOwnLoads' /\ AnswersAdvance'
  <2>1. \A x \in Readers : readers'[x] = IF x = r THEN Idle ELSE readers[x]
    BY <1>3 DEF IInv, TypeOK, ReaderType
  <2>. QED  BY <1>3, <2>1, BoundsFacts DEF IInv, ReadersOwnLoads, AnswersAdvance
<1>4. ASSUME loading' = [loading EXCEPT ![k] = 0],
             dirtyLoading' = [dirtyLoading EXCEPT ![k] = FALSE]
      PROVE  \A x \in Keys :
                /\ loading'[x] = IF x = k THEN 0 ELSE loading[x]
                /\ dirtyLoading'[x] = IF x = k THEN FALSE ELSE dirtyLoading[x]
  BY <1>4 DEF IInv, TypeOK, TableType
<1>a. ASSUME NEW table, NEW busy, kept' \in trim_to_budget(AreaOf[k], table, busy)
      PROVE  \A x \in Keys : kept'[x] = table[x] \/ kept'[x] = NoValue
  BY <1>a, TrimOnlyDrops
<1>5. CASE SettleOk(r)
  <2>. DEFINE v == [load |-> l, at |-> now, dirty |-> dirtyLoading[k]]
              table == [kept EXCEPT ![k] = v]
  <2>1. /\ UNCHANGED <<cluster, notice, delivered, nextLoad, loads>>
        /\ Settles(r) /\ loads[l].status = "ok" /\ Answer(r, k, l)
        /\ loading' = [loading EXCEPT ![k] = 0]
        /\ dirtyLoading' = [dirtyLoading EXCEPT ![k] = FALSE]
        /\ kept' \in trim_to_budget(AreaOf[k], table, [loading EXCEPT ![k] = 0])
    BY <1>5 DEF SettleOk, watchVars
  <2>2. ReadersOwnLoads' /\ AnswersAdvance'
    BY <1>1, <1>2, <2>1, AnswerIInv
  <2>3. \A x \in Keys : kept'[x] = table[x] \/ kept'[x] = NoValue
    BY <2>1, <1>a
  <2>4. \A x \in Keys : table[x] = IF x = k THEN v ELSE kept[x]
    BY <1>2 DEF IInv, TypeOK, TableType
  <2>5. v.load = l /\ (v.dirty <=> dirtyLoading[k])
    OBVIOUS
  <2>. HIDE DEF table, v
  <2>6. kept'[k] = NoValue \/ (kept'[k].load = l /\ (kept'[k].dirty <=> dirtyLoading[k]))
    BY <1>2, <2>3, <2>4, <2>5
  <2>7. \A x \in Keys : x # k => kept'[x] = kept[x] \/ kept'[x] = NoValue
    BY <2>3, <2>4
  <2>8. \A x \in Keys : /\ loading'[x] = IF x = k THEN 0 ELSE loading[x]
                        /\ dirtyLoading'[x] = IF x = k THEN FALSE ELSE dirtyLoading[x]
    BY <1>4, <2>1
  <2>. QED  BY <1>1, <2>1, <2>2, <2>6, <2>7, <2>8, SettledIInv
<1>6. CASE SettleErr(r)
  <2>. DEFINE table == [kept EXCEPT ![k] = Dirtied(@, dirtyLoading[k])]
  <2>1. /\ UNCHANGED <<cluster, notice, delivered, nextLoad, loads>>
        /\ Settles(r) /\ loads[l].status = "err"
        /\ loading' = [loading EXCEPT ![k] = 0]
        /\ dirtyLoading' = [dirtyLoading EXCEPT ![k] = FALSE]
        /\ readers' = [readers EXCEPT ![r] = Idle] /\ UNCHANGED last
        /\ IF kept[k] = NoValue THEN kept' = kept
           ELSE kept' \in trim_to_budget(AreaOf[k], table, [loading EXCEPT ![k] = 0])
    BY <1>6 DEF SettleErr, watchVars
  <2>2. ReadersOwnLoads' /\ AnswersAdvance'
    BY <1>3, <2>1
  <2>0. \A x \in Keys : /\ loading'[x] = IF x = k THEN 0 ELSE loading[x]
                        /\ dirtyLoading'[x] = IF x = k THEN FALSE ELSE dirtyLoading[x]
    BY <1>4, <2>1
  <2>3. CASE kept[k] = NoValue
    <3>1. kept' = kept
      BY <2>1, <2>3
    <3>2. kept'[k] = NoValue
      BY <2>3, <3>1
    <3>. QED  BY <1>1, <2>0, <2>1, <2>2, <3>1, <3>2, SettledIInv
  <2>4. CASE kept[k] # NoValue
    <3>1. \A x \in Keys : kept'[x] = table[x] \/ kept'[x] = NoValue
      BY <2>1, <2>4, <1>a
    <3>2. \A x \in Keys : table[x] = IF x = k THEN Dirtied(kept[k], dirtyLoading[k])
                                              ELSE kept[x]
      BY <1>2 DEF IInv, TypeOK, TableType
    <3>3. /\ Dirtied(kept[k], dirtyLoading[k]).load = kept[k].load
          /\ Dirtied(kept[k], dirtyLoading[k]).dirty
                <=> (kept[k].dirty \/ dirtyLoading[k])
      <4>1. kept[k] \in ReadyValue \cup {NoValue} /\ dirtyLoading[k] \in BOOLEAN
        BY <1>2 DEF IInv, TypeOK, TableType
      <4>. QED  BY <4>1, DirtiedType
    <3>. HIDE DEF table
    <3>4. \/ kept'[k] = NoValue
          \/ /\ kept'[k].load = kept[k].load
             /\ ~kept'[k].dirty => ~kept[k].dirty /\ ~dirtyLoading[k]
      BY <1>2, <3>1, <3>2, <3>3
    <3>5. \A x \in Keys : x # k => kept'[x] = kept[x] \/ kept'[x] = NoValue
      BY <3>1, <3>2
    <3>. QED  BY <1>1, <2>0, <2>1, <2>2, <2>4, <3>4, <3>5, SettledIInv
  <2>. QED  BY <2>3, <2>4
<1>7. CASE ReturnOnly(r)
  <2>1. UNCHANGED <<cluster, notice, delivered, kept, loading, dirtyLoading, nextLoad,
                    loads>>
    BY <1>7 DEF ReturnOnly, watchVars, tableVars
  <2>2. ReadersOwnLoads' /\ AnswersAdvance'
    <3>1. CASE loads[l].status = "ok" /\ Answer(r, k, l)
      BY <1>1, <1>2, <2>1, <3>1, AnswerIInv
    <3>2. CASE readers' = [readers EXCEPT ![r] = Idle] /\ UNCHANGED last
      BY <1>3, <2>1, <3>2
    <3>. QED  BY <1>7, <3>1, <3>2 DEF ReturnOnly
  <2>3. CleanCaught'
    BY <2>1 DEF IInv, CleanCaught, Caught
  <2>. QED
    BY <1>1, <2>1, <2>2, <2>3
    DEF IInv, WatchOrdered, EntriesOwnLoads, OkLoadsComplete, NewestWins, SingleFlight
<1>. QED  BY <1>5, <1>6, <1>7 DEF SettleStep

LEMMA CancelIInv ==
    ASSUME IInv, NEW a \in Areas, CancelLoading(a)
    PROVE  IInv'
<1>. DEFINE busy == {k \in Keys : AreaOf[k] = a /\ loading[k] # 0}
<1>1. TypeOK'
  BY CancelTypeOK DEF IInv
<1>2. \A k \in busy : k \in Keys /\ loading[k] # 0
  OBVIOUS
<1>3. /\ UNCHANGED <<cluster, notice, delivered, nextLoad, readers, last>>
      /\ \A k \in Keys :
            /\ kept'[k] = IF k \in busy THEN Dirtied(kept[k], TRUE) ELSE kept[k]
            /\ loading'[k] = IF k \in busy THEN 0 ELSE loading[k]
            /\ dirtyLoading'[k] = IF k \in busy THEN FALSE ELSE dirtyLoading[k]
  BY DEF CancelLoading, watchVars
<1>4. \A l \in 1..nextLoad :
         /\ loads'[l].key = loads[l].key
         /\ loads'[l].seen = loads[l].seen
         /\ loads'[l].status = loads[l].status
         /\ loads'[l].cancelled <=> loads[l].cancelled \/ \E k \in busy : loading[k] = l
  BY DEF CancelLoading, IInv, TypeOK, LoadType, Load
<1>. HIDE DEF busy
<1>5. \A k \in Keys : /\ kept'[k] = NoValue <=> kept[k] = NoValue
                      /\ kept'[k].load = kept[k].load
                      /\ ~kept'[k].dirty => k \notin busy /\ ~kept[k].dirty
  <2>1. ASSUME NEW k \in Keys
        PROVE  /\ Dirtied(kept[k], TRUE) = NoValue <=> kept[k] = NoValue
               /\ Dirtied(kept[k], TRUE).load = kept[k].load
               /\ Dirtied(kept[k], TRUE).dirty
    BY ZenonT(60), DirtiedType DEF IInv, TypeOK, TableType
  <2>. QED  BY <1>3, <2>1
<1>6. /\ \A x \in Keys : loading[x] \in 0..nextLoad /\ kept[x].load \in 0..nextLoad
      /\ \A x \in Readers : last[x].load \in 0..nextLoad
      /\ \A x \in Readers : readers[x].load \in 0..nextLoad
      /\ \A x \in Readers : readers[x].pc \in {"await", "install"} => readers[x].load # 0
      /\ nextLoad \in Nat
  BY BoundsAssumption DEF IInv, TypeOK, TableType, LoadType, ReaderType
<1>7. EntriesOwnLoads'
  <2>1. ASSUME NEW x \in Keys, NEW k \in busy, NEW l \in 1..nextLoad,
               loading[k] = l, \/ kept[x].load = l /\ kept[x] # NoValue
                               \/ loading[x] = l /\ x \notin busy
        PROVE  FALSE
    BY <1>2, <1>6, <2>1 DEF IInv, EntriesOwnLoads
  <2>2. ASSUME NEW x \in Keys
        PROVE  EntriesOwnLoads!(x)'
    <3>1. kept[x] # NoValue =>
             /\ kept[x].load \in 1..nextLoad
             /\ ~loads'[kept[x].load].cancelled
      BY <1>4, <1>6, <2>1 DEF IInv, EntriesOwnLoads
    <3>2. loading[x] # 0 /\ x \notin busy =>
             /\ loading[x] \in 1..nextLoad
             /\ ~loads'[loading[x]].cancelled
      BY <1>4, <1>6, <2>1 DEF IInv, EntriesOwnLoads
    <3>3. kept'[x] # NoValue =>
             /\ kept'[x].load # 0
             /\ loads'[kept'[x].load].key = x
             /\ loads'[kept'[x].load].status = "ok"
             /\ ~loads'[kept'[x].load].cancelled
      BY <1>4, <1>5, <3>1 DEF IInv, EntriesOwnLoads
    <3>4. loading'[x] # 0 =>
             /\ loads'[loading'[x]].key = x
             /\ ~loads'[loading'[x]].cancelled
             /\ kept'[x].load < loading'[x]
      <4>1. CASE x \in busy
        BY <1>3, <4>1
      <4>2. CASE x \notin busy
        <5>1. loading'[x] = loading[x] /\ kept'[x].load = kept[x].load
          BY <1>3, <1>5, <4>2
        <5>. QED  BY <1>4, <3>2, <4>2, <5>1 DEF IInv, EntriesOwnLoads
      <4>. QED  BY <4>1, <4>2
    <3>. QED  BY <3>3, <3>4
  <2>. QED  BY <2>2 DEF EntriesOwnLoads
<1>8. ReadersOwnLoads'
  BY <1>3, <1>4, <1>6 DEF IInv, ReadersOwnLoads
<1>9. OkLoadsComplete'
  BY <1>3, <1>4 DEF IInv, OkLoadsComplete
<1>10. CleanCaught'
  <2>1. \A x \in Keys, c \in Objects : \A v : Caught(x, c, v)' <=> Caught(x, c, v)
    BY <1>3 DEF Caught
  <2>2. ASSUME NEW x \in Keys, NEW c \in Covers[x]
        PROVE  CleanCaught!(x)!(c)'
    <3>1. c \in Objects
      BY KeysAssumption
    <3>2. kept[x] # NoValue => loads'[kept[x].load].seen = loads[kept[x].load].seen
      BY <1>4, <1>6 DEF IInv, EntriesOwnLoads
    <3>3. loading[x] # 0 => loads'[loading[x]].seen = loads[loading[x]].seen
      BY <1>4, <1>6
    <3>. QED  BY <1>3, <1>5, <2>1, <3>1, <3>2, <3>3 DEF IInv, CleanCaught
  <2>. QED  BY <2>2 DEF CleanCaught
<1>11. NewestWins'
  <2>1. ASSUME NEW x \in Keys, NEW i \in 1..nextLoad, loads[i].key = x
        PROVE  NewestWins!(x)!(i)'
    <3>1. CASE x \in busy
      <4>1. loading'[x] = 0 /\ kept'[x].dirty
        BY <1>3, <1>5, <3>1
      <4>. QED  BY <4>1
    <3>2. CASE x \notin busy
      <4>1. loading'[x] = loading[x] /\ kept'[x] = kept[x]
        BY <1>3, <3>2
      <4>. QED  BY <1>4, <2>1, <4>1 DEF IInv, NewestWins
    <3>. QED  BY <3>1, <3>2
  <2>. QED  BY <1>3, <1>4, <2>1 DEF NewestWins
<1>12. SingleFlight'
  <2>1. ASSUME NEW i \in 1..nextLoad, loads'[i].status = "running",
               ~loads'[i].cancelled
        PROVE  loading'[loads'[i].key] = i
    <3>1. loading[loads[i].key] = i /\ loads[i].key \in Keys
      BY <1>4, <2>1, LoadFacts DEF IInv, SingleFlight
    <3>2. loads[i].key \notin busy
      BY <1>4, <2>1, <3>1
    <3>3. loading'[loads[i].key] = i
      BY <1>3, <3>1, <3>2
    <3>. QED  BY <1>4, <3>3
  <2>. QED  BY <1>3, <2>1 DEF SingleFlight
<1>. QED
  BY <1>1, <1>3, <1>7, <1>8, <1>9, <1>10, <1>11, <1>12
  DEF IInv, WatchOrdered, AnswersAdvance

LEMMA IInvStep == IInv /\ [Next]_vars => IInv'
  BY EnvIInv, WatchIInv, ReadIInv, LoadIInv, LoaderReadsIInv, SettleIInv, CancelIInv
  DEF Next

LEMMA IInvHolds == Spec => []IInv
  BY InitIInv, IInvStep, PTL DEF Spec

-----------------------------------------------------------------------------
(* What the invariant says of the cache.                                    *)

\* No entry that may be served without a reload is older than an event the UI
\* was told of.
THEOREM CleanEntriesReflectEvents == Spec => []CleanReflectsEvents
<1>1. IInv => CleanReflectsEvents
  <2>. SUFFICES ASSUME IInv, NEW k \in Keys, NEW o \in Covers[k],
                       kept[k] # NoValue, ~kept[k].dirty, loading[k] = 0
                PROVE  Content(k)[o] >= delivered[o]
    BY DEF CleanReflectsEvents
  <2>1. ~dirtyLoading[k]
    BY DEF IInv, TypeOK, TableType
  <2>2. Caught(k, o, loads[kept[k].load].seen[o])
    BY <2>1 DEF IInv, CleanCaught
  <2>. QED  BY <2>2 DEF Caught, Content
<1>. QED  BY <1>1, IInvHolds, PTL

\* What a cancelled load fetched is in no table.
THEOREM CancelledLoadsStayOut == Spec => []CancelledNeverCached
<1>1. IInv => CancelledNeverCached
  BY DEF IInv, EntriesOwnLoads, CancelledNeverCached
<1>. QED  BY <1>1, IInvHolds, PTL

\* No key ever has two live loads.
THEOREM OneLoadPerKey == Spec => []SingleFlight
<1>1. IInv => SingleFlight
  BY DEF IInv
<1>. QED  BY <1>1, IInvHolds, PTL

\* All of it: the cache is sound, for any keys, readers and number of loads.
THEOREM CacheStaysSound == Spec => []CacheIsSound
BY TypeCorrect, OneLoadPerKey, CancelledLoadsStayOut, PTL DEF CacheIsSound

(* A reader's answer is never older than its previous one from that entry.  *)
LEMMA AnswersNeverGoBack ==
    ASSUME IInv, NEW r \in Readers, ReadStep(r) \/ LoadStep(r) \/ SettleStep(r),
           NEW x \in Readers, last'[x].key = last[x].key
    PROVE  last'[x].load >= last[x].load
<1>0. last[x].load \in Nat
  BY BoundsAssumption DEF IInv, TypeOK, ReaderType, LoadType
<1>1. ASSUME NEW k \in Keys, NEW l \in 0..nextLoad, Answer(r, k, l),
             last[r].key = k => last[r].load <= l
      PROVE  last'[x].load >= last[x].load
  <2>1. \A y \in Readers : last'[y] = IF y = r THEN [key |-> k, load |-> l] ELSE last[y]
    BY <1>1 DEF Answer, IInv, TypeOK, ReaderType
  <2>2. l \in Nat
    BY BoundsAssumption DEF IInv, TypeOK, LoadType
  <2>3. CASE x = r
    <3>1. last'[x].key = k /\ last'[x].load = l
      BY <2>1, <2>3
    <3>. QED  BY <1>0, <1>1, <2>2, <2>3, <3>1
  <2>4. CASE x # r
    BY <1>0, <2>1, <2>4
  <2>. QED  BY <2>3, <2>4
<1>2. ASSUME NEW c \in Keys, CanReuse(c), Answer(r, c, kept[c].load)
      PROVE  last'[x].load >= last[x].load
  <2>1. kept[c].load \in 0..nextLoad /\ nextLoad \in Nat
    BY KeptLoad, BoundsAssumption DEF IInv, TypeOK, LoadType
  <2>2. kept[c] # NoValue /\ ~kept[c].dirty /\ loading[c] = 0
    BY <1>2 DEF CanReuse
  <2>3. ASSUME last[r].key = c
        PROVE  last[r].load <= kept[c].load
    <3>1. CASE last[r].load = 0
      BY <2>1, <3>1
    <3>2. CASE last[r].load # 0
      <4>1. /\ last[r].load \in 1..nextLoad /\ loads[last[r].load].key = c
            /\ loads[last[r].load].status # "err"
        BY <2>1, <2>3, <3>2 DEF IInv, TypeOK, ReaderType, ReadersOwnLoads
      <4>. QED  BY <2>1, <2>2, <4>1 DEF IInv, NewestWins
    <3>. QED  BY <3>1, <3>2
  <2>. QED  BY <1>1, <1>2, <2>1, <2>3
<1>3. /\ readers[r].key \in Keys /\ readers[r].load \in 0..nextLoad
      /\ readers[r].pc = "install" /\ last[r].key = readers[r].key =>
            last[r].load <= readers[r].load
  BY DEF IInv, TypeOK, ReaderType, Reader, AnswersAdvance
<1>4. CASE UNCHANGED last
  BY <1>0, <1>4
<1>5. CASE ReadStep(r)
  <2>1. \/ UNCHANGED last
        \/ \E c \in Keys : CanReuse(c) /\ Answer(r, c, kept[c].load)
    BY <1>3, <1>5, KeysAssumption
    DEF ReadStep, PeekCovering, Hit, Join, Miss, DropReader
  <2>. QED  BY <1>2, <1>4, <2>1
<1>6. CASE LoadStep(r)
  BY <1>4, <1>6
  DEF LoadStep, LoaderSucceeds, LoaderFails, LoaderCancelled, LoadDone, Wake
<1>7. CASE SettleStep(r)
  <2>1. \/ UNCHANGED last
        \/ readers[r].pc = "install" /\ Answer(r, readers[r].key, readers[r].load)
    BY <1>7 DEF SettleStep, SettleOk, SettleErr, ReturnOnly, Settles
  <2>. QED  BY <1>1, <1>3, <1>4, <2>1
<1>. QED  BY <1>5, <1>6, <1>7

\* A caller that reads an entry again is never answered from an older load.
THEOREM ReadsAdvance == Spec => ReadsNeverGoBack
<1>1. ASSUME IInv, [Next]_vars, NEW x \in Readers, last'[x].key = last[x].key
      PROVE  last'[x].load >= last[x].load
  <2>0. last[x].load \in Nat
    BY <1>1, BoundsAssumption DEF IInv, TypeOK, ReaderType, LoadType
  <2>1. CASE UNCHANGED last
    BY <2>0, <2>1
  <2>2. CASE \E r \in Readers : ReadStep(r) \/ LoadStep(r) \/ SettleStep(r)
    BY <1>1, <2>2, AnswersNeverGoBack
  <2>3. CASE \/ Tick \/ UNCHANGED vars
             \/ \E o \in Objects : ClusterChange(o) \/ WatchStep(o)
             \/ \E l \in 1..nextLoad, o \in Objects : LoaderReads(l, o)
             \/ \E a \in Areas : CancelLoading(a)
    <3>1. UNCHANGED last
      BY <2>3
      DEF Tick, vars, ClusterChange, WatchStep, WatchEvent, Broadcast, MarkOne,
          LoaderReads, CancelLoading
    <3>. QED  BY <2>1, <3>1
  <2>. QED  BY <1>1, <2>2, <2>3 DEF Next
<1>2. IInv /\ [Next]_vars => [AnswersOnlyAdvance]_vars
  BY <1>1 DEF AnswersOnlyAdvance
<1>. QED  BY <1>2, IInvHolds, PTL DEF Spec, ReadsNeverGoBack

-----------------------------------------------------------------------------
(* The refinement of CacheContract.                                         *)

\* A loader has seen what the cluster had when it read it.
SeenIsReal ==
    \A l \in 1..nextLoad : \A o \in Objects :
        loads[l].seen[o] # Unread => loads[l].seen[o] <= cluster[o]

ContractInv == IInv /\ SeenIsReal

\* A step that keeps what the loads have seen, or forgets it, keeps SeenIsReal.
LEMMA SeenStays ==
    ASSUME IInv, SeenIsReal, IInv',
           \A o \in Objects : cluster'[o] >= cluster[o],
           \A l \in 1..nextLoad' : \A o \in Objects :
               \/ loads'[l].seen[o] = Unread
               \/ loads'[l].seen[o] = cluster'[o]
               \/ l \in 1..nextLoad /\ loads'[l].seen[o] = loads[l].seen[o]
    PROVE  SeenIsReal'
<1> SUFFICES ASSUME NEW l \in 1..nextLoad', NEW o \in Objects, loads'[l].seen[o] # Unread
             PROVE  loads'[l].seen[o] <= cluster'[o]
  BY DEF SeenIsReal, Unread
<1>1. cluster[o] \in Nat /\ cluster'[o] \in Nat /\ cluster'[o] >= cluster[o]
  BY WatchNats, BoundsAssumption DEF IInv, TypeOK, WatchType, Versions
<1>2. CASE loads'[l].seen[o] = cluster'[o]
  BY <1>1, <1>2
<1>3. CASE l \in 1..nextLoad /\ loads'[l].seen[o] = loads[l].seen[o]
  <2>1. loads[l].seen[o] \in 0..Unread /\ Unread \in Nat
    BY <1>3, LoadFacts, BoundsFacts DEF IInv
  <2>2. loads[l].seen[o] <= cluster[o]
    BY <1>3 DEF SeenIsReal
  <2> QED
    BY <1>1, <1>3, <2>1, <2>2
<1> QED
  BY <1>2, <1>3

\* The loads of every step.
LEMMA SeenStep ==
    ASSUME IInv, SeenIsReal, IInv', [Next]_vars
    PROVE  SeenIsReal'
<1>0. nextLoad \in Nat /\ loads \in [1..nextLoad -> Load]
  BY BoundsAssumption DEF IInv, TypeOK, LoadType
<1>1. \A o \in Objects : cluster'[o] >= cluster[o]
  <2> SUFFICES ASSUME NEW o \in Objects PROVE cluster'[o] >= cluster[o]
    OBVIOUS
  <2>1. cluster[o] \in Nat
    BY WatchNats DEF IInv
  <2>2. cluster' = cluster \/ \E p \in Objects : cluster' = [cluster EXCEPT ![p] = @ + 1]
    BY DEF Next, vars, Tick, ClusterChange, WatchStep, WatchEvent, Broadcast, MarkOne,
       ReadStep, PeekCovering, Hit, Join, Miss, DropReader, LoadStep, LoaderSucceeds,
       LoaderFails, LoaderCancelled, LoadDone, Wake, SettleStep, SettleOk, SettleErr,
       ReturnOnly, LoaderReads, CancelLoading, watchVars
  <2>3. cluster \in [Objects -> Versions]
    BY DEF IInv, TypeOK, WatchType
  <2> QED
    BY <2>1, <2>2, <2>3
<1>2. CASE UNCHANGED <<loads, nextLoad>>
  BY <1>1, <1>2, SeenStays
<1>3. ASSUME NEW r \in Readers, Miss(r)
      PROVE  SeenIsReal'
  <2>1. nextLoad' = nextLoad + 1
        /\ \A l \in 1..nextLoad' : \/ l \in 1..nextLoad /\ loads'[l] = loads[l]
                                   \/ loads'[l].seen = NothingRead
    BY <1>0, <1>3 DEF Miss
  <2>2. \A o \in Objects : NothingRead[o] = Unread
    BY DEF NothingRead
  <2> QED
    BY <1>1, <2>1, <2>2, SeenStays
<1>4. ASSUME NEW r \in Readers, NEW status, LoadDone(r, status)
      PROVE  SeenIsReal'
  <2>1. nextLoad' = nextLoad /\ \A l \in 1..nextLoad : \/ loads'[l].seen = loads[l].seen
                                                       \/ loads'[l].seen = NothingRead
    BY <1>0, <1>4 DEF LoadDone, Load
  <2>2. \A o \in Objects : NothingRead[o] = Unread
    BY DEF NothingRead
  <2> QED
    BY <1>1, <2>1, <2>2, SeenStays
<1>5. ASSUME NEW l \in 1..nextLoad, NEW o \in Objects, LoaderReads(l, o)
      PROVE  SeenIsReal'
  <2>1. /\ nextLoad' = nextLoad /\ cluster' = cluster
        /\ \A x \in 1..nextLoad : \A p \in Objects :
              loads'[x].seen[p] = loads[x].seen[p] \/ loads'[x].seen[p] = cluster[p]
    BY <1>0, <1>5 DEF LoaderReads, Load, watchVars
  <2> QED
    BY <1>1, <2>1, SeenStays
<1>6. ASSUME NEW a \in Areas, CancelLoading(a)
      PROVE  SeenIsReal'
  <2>1. nextLoad' = nextLoad /\ \A l \in 1..nextLoad : loads'[l].seen = loads[l].seen
    BY <1>0, <1>6 DEF CancelLoading, Load
  <2> QED
    BY <1>1, <2>1, SeenStays
<1> QED
  <2>1. CASE \/ Tick \/ UNCHANGED vars
             \/ \E o \in Objects : ClusterChange(o) \/ WatchStep(o)
             \/ \E r \in Readers : SettleStep(r) \/ Wake(r) \/ Hit(r) \/ Join(r) \/ DropReader(r)
                                     \/ \E k \in Keys : PeekCovering(r, k)
    <3>1. UNCHANGED <<loads, nextLoad>>
      BY <2>1
      DEF Tick, vars, ClusterChange, WatchStep, WatchEvent, Broadcast, MarkOne, SettleStep,
          SettleOk, SettleErr, ReturnOnly, Wake, Hit, Join, DropReader, PeekCovering
    <3> QED
      BY <1>2, <3>1
  <2>2. CASE \E r \in Readers : Miss(r) \/ LoaderSucceeds(r) \/ LoaderFails(r)
                                  \/ LoaderCancelled(r)
    BY <1>3, <1>4, <2>2 DEF LoaderSucceeds, LoaderFails, LoaderCancelled
  <2> QED
    BY <1>5, <1>6, <2>1, <2>2 DEF Next, ReadStep, LoadStep

\* What an entry shows at once is up to date: read from the cluster, and not before the
\* newest version that the UI was told of.
LEMMA ServedIsUpToDate ==
    ASSUME IInv, SeenIsReal, NEW k \in Keys
    PROVE  ServedAtOnce[k] \in Contract!UpToDate(k) \cup {Contract!Hidden}
<1>1. CASE kept[k] # NoValue /\ ~kept[k].dirty /\ loading[k] = 0
  <2>1. ServedAtOnce[k] = [o \in Covers[k] |-> loads[kept[k].load].seen[o]]
    BY <1>1 DEF ServedAtOnce, Content
  <2>2. /\ kept[k].load \in 1..nextLoad /\ loads[kept[k].load].key = k
        /\ loads[kept[k].load].status = "ok"
    BY <1>1, KeptLoad, BoundsAssumption DEF IInv, EntriesOwnLoads, TypeOK, LoadType
  <2>3. ASSUME NEW o \in Covers[k]
        PROVE  LET v == loads[kept[k].load].seen[o] IN
               /\ v \in Versions
               /\ delivered[o] <= v /\ v <= cluster[o]
    <3>1. o \in Objects
      BY KeysAssumption
    <3>2. loads[kept[k].load].seen[o] \in Versions
      BY <2>2 DEF IInv, OkLoadsComplete
    <3>3. loads[kept[k].load].seen[o] # Unread
      BY <3>2, BoundsAssumption DEF Versions, Unread
    <3>4. loads[kept[k].load].seen[o] <= cluster[o]
      BY <2>2, <3>1, <3>3 DEF SeenIsReal
    <3>5. delivered[o] <= loads[kept[k].load].seen[o]
      <4>1. ~dirtyLoading[k]
        BY <1>1 DEF IInv, TypeOK, TableType
      <4>2. loads[kept[k].load].seen[o] >= delivered[o]
        BY <1>1, <4>1 DEF IInv, CleanCaught, Caught
      <4> QED
        BY <3>1, <3>2, <4>2, WatchNats, BoundsAssumption DEF IInv, Versions
    <3> QED
      BY <3>2, <3>4, <3>5
  <2>4. [o \in Covers[k] |-> loads[kept[k].load].seen[o]] \in Contract!UpToDate(k)
    BY <2>3 DEF Contract!UpToDate, Contract!Versions, Versions
  <2> QED
    BY <2>1, <2>4
<1>2. CASE ~(kept[k] # NoValue /\ ~kept[k].dirty /\ loading[k] = 0)
  BY <1>2 DEF ServedAtOnce, Contract!Hidden
<1> QED
  BY <1>1, <1>2

\* So it is after a step that keeps the invariant.
LEMMA ServedAfterwards ==
    ASSUME NEW k \in Keys
    PROVE  (IInv /\ SeenIsReal => ServedAtOnce[k] \in Contract!UpToDate(k) \cup {Contract!Hidden})'
<1>1. IInv /\ SeenIsReal => ServedAtOnce[k] \in Contract!UpToDate(k) \cup {Contract!Hidden}
  BY ServedIsUpToDate
<1> QED
  BY <1>1, PTL

\* A step that hides entries and brings at most one into view is a refresh.
LEMMA ShownRefreshes ==
    ASSUME IInv', SeenIsReal', UNCHANGED <<cluster, delivered>>, NEW k \in Keys,
           \A x \in Keys : x # k =>
               ServedAtOnce'[x] = ServedAtOnce[x] \/ ServedAtOnce'[x] = Contract!Hidden
    PROVE  Contract!Refresh
<1> DEFINE old == ServedAtOnce
           new == ServedAtOnce'
           hidden == {x \in Keys : new[x] # old[x]}
<1>1. new[k] \in Contract!UpToDate(k)' \cup {Contract!Hidden'}
  BY ServedAfterwards
<1>2. Contract!UpToDate(k)' = Contract!UpToDate(k) /\ Contract!Hidden' = Contract!Hidden
  BY DEF Contract!UpToDate, Contract!Hidden
<1>3. new[k] \in Contract!UpToDate(k) \cup {Contract!Hidden, old[k]}
  BY <1>1, <1>2
<1>4. new = [x \in Keys |-> IF x = k THEN new[k]
                            ELSE IF x \in hidden THEN Contract!Hidden ELSE old[x]]
  <2>1. new = [x \in Keys |-> new[x]]
    BY DEF ServedAtOnce
  <2>2. \A x \in Keys : new[x] = IF x = k THEN new[k]
                                 ELSE IF x \in hidden THEN Contract!Hidden ELSE old[x]
    OBVIOUS
  <2> QED
    BY <2>1, <2>2
<1>5. hidden \in SUBSET Keys
  OBVIOUS
<1> HIDE DEF hidden
<1> QED
  BY <1>3, <1>4, <1>5 DEF Contract!Refresh

\* What can be served without a load.
Shows(k) == kept[k] # NoValue /\ ~kept[k].dirty /\ loading[k] = 0

\* An entry that is untouched, and whose load is, shows what it showed; one that is
\* absent, dirty or loading shows nothing.
LEMMA ServedEntry ==
    ASSUME IInv, NEW k \in Keys
    PROVE  /\ /\ kept'[k] = kept[k] /\ loading'[k] = loading[k]
              /\ \A l \in 1..nextLoad : loads[l].status = "ok" => loads'[l].seen = loads[l].seen
              => ServedAtOnce'[k] = ServedAtOnce[k]
           /\ ~Shows(k) => ServedAtOnce[k] = Contract!Hidden
           /\ ~Shows(k)' => ServedAtOnce'[k] = Contract!Hidden
<1>1. ASSUME kept'[k] = kept[k], loading'[k] = loading[k],
             \A l \in 1..nextLoad : loads[l].status = "ok" => loads'[l].seen = loads[l].seen
      PROVE  ServedAtOnce'[k] = ServedAtOnce[k]
  <2>1. CASE kept[k] = NoValue
    BY <1>1, <2>1 DEF ServedAtOnce
  <2>2. CASE kept[k] # NoValue
    <3>1. kept[k].load \in 1..nextLoad /\ loads[kept[k].load].status = "ok"
      BY <2>2, KeptLoad, BoundsAssumption DEF IInv, EntriesOwnLoads, TypeOK, LoadType
    <3>2. loads'[kept[k].load].seen = loads[kept[k].load].seen
      BY <1>1, <3>1
    <3> QED
      BY <1>1, <3>2 DEF ServedAtOnce, Content
  <2> QED
    BY <2>1, <2>2
<1>2. ~Shows(k) => ServedAtOnce[k] = Contract!Hidden
  BY DEF Shows, ServedAtOnce, Contract!Hidden
<1>3. ~Shows(k)' => ServedAtOnce'[k] = Contract!Hidden
  BY DEF Shows, ServedAtOnce, Contract!Hidden
<1> QED
  BY <1>1, <1>2, <1>3

\* Steps that leave every entry alone, and every load that has succeeded.
LEMMA ServedStays ==
    ASSUME IInv, UNCHANGED <<kept, loading>>,
           \A l \in 1..nextLoad : loads[l].status = "ok" => loads'[l].seen = loads[l].seen
    PROVE  ServedAtOnce' = ServedAtOnce
<1>1. \A k \in Keys : ServedAtOnce'[k] = ServedAtOnce[k]
  BY ServedEntry
<1>2. ServedAtOnce = [k \in Keys |-> ServedAtOnce[k]] /\ ServedAtOnce' = [k \in Keys |-> ServedAtOnce'[k]]
  BY DEF ServedAtOnce
<1> QED
  BY <1>1, <1>2

\* The UI is told of a version when no entry shows an older one.
LEMMA Broadcast_Contract ==
    ASSUME IInv, NEW o \in Objects, Broadcast(o)
    PROVE  Contract!Broadcast(o)
<1> DEFINE v == notice[o].ver
<1>1. v \in Contract!Versions /\ v <= cluster[o]
  BY DEF IInv, TypeOK, WatchType, WatchOrdered, Contract!Versions, Versions
<1>2. ASSUME NEW k \in Keys, o \in Covers[k], ServedAtOnce[k] # Contract!Hidden
      PROVE  ServedAtOnce[k][o] >= v
  <2>1. kept[k] # NoValue /\ ~kept[k].dirty /\ loading[k] = 0
    BY <1>2, ServedEntry DEF Shows
  <2>2. ServedAtOnce[k][o] = loads[kept[k].load].seen[o]
    BY <1>2, <2>1 DEF ServedAtOnce, Content
  <2>3. ~dirtyLoading[k]
    BY <2>1 DEF IInv, TypeOK, TableType
  <2>4. Caught(k, o, loads[kept[k].load].seen[o])
    BY <1>2, <2>1, <2>3 DEF IInv, CleanCaught
  <2> QED
    BY <2>2, <2>4 DEF Caught, Broadcast
<1>3. UNCHANGED <<cluster, ServedAtOnce>>
  BY ServedStays DEF Broadcast, tableVars
<1> QED
  BY <1>1, <1>2, <1>3 DEF Broadcast, Contract!Broadcast

\* A mark hides its entry, or finds it loading.
LEMMA MarkOne_Contract ==
    ASSUME IInv, IInv', SeenIsReal', NEW o \in Objects, NEW k \in Keys, MarkOne(o, k)
    PROVE  Contract!Refresh
<1>1. \A x \in Keys : x # k => kept'[x] = kept[x] /\ loading'[x] = loading[x]
  BY DEF MarkOne, mark_dirty, IInv, TypeOK, TableType
<1>2. UNCHANGED <<cluster, delivered, loads>>
  BY DEF MarkOne
<1> QED
  BY <1>1, <1>2, ServedEntry, ShownRefreshes

\* A load hides the entry that it is to replace.
LEMMA Miss_Contract ==
    ASSUME IInv, IInv', SeenIsReal', NEW r \in Readers, Miss(r)
    PROVE  Contract!Refresh
<1> DEFINE k == readers[r].key
<1>0. k \in Keys /\ nextLoad \in Nat
  BY BoundsAssumption DEF IInv, TypeOK, ReaderType, Reader, LoadType
<1>1. \A x \in Keys : x # k => kept'[x] = kept[x] /\ loading'[x] = loading[x]
  BY DEF Miss, IInv, TypeOK, TableType
<1>2. UNCHANGED <<cluster, delivered>> /\ \A l \in 1..nextLoad : loads'[l] = loads[l]
  BY <1>0 DEF Miss, watchVars
<1> QED
  BY <1>0, <1>1, <1>2, ServedEntry, ShownRefreshes

\* A settled entry may come into view; what the table is over is taken out of it.
LEMMA Settle_Contract ==
    ASSUME IInv, IInv', SeenIsReal', NEW r \in Readers, SettleOk(r) \/ SettleErr(r)
    PROVE  Contract!Refresh
<1> DEFINE k == readers[r].key
<1>0. k \in Keys /\ kept \in [Keys -> ReadyValue \cup {NoValue}] /\ loading \in [Keys -> 0..nextLoad]
  BY DEF IInv, TypeOK, ReaderType, Reader, TableType
<1>1. UNCHANGED <<cluster, delivered, loads>> /\ loading' = [loading EXCEPT ![k] = 0]
  BY DEF SettleOk, SettleErr, watchVars
<1>2. \A x \in Keys : x # k => kept'[x] = kept[x] \/ kept'[x] = NoValue
  <2>1. CASE SettleOk(r)
    <3> DEFINE table == [kept EXCEPT ![k] = [load |-> readers[r].load, at |-> now,
                                             dirty |-> dirtyLoading[k]]]
    <3>1. kept' \in trim_to_budget(AreaOf[k], table, [loading EXCEPT ![k] = 0])
      BY <2>1 DEF SettleOk
    <3>2. \A x \in Keys : x # k => table[x] = kept[x]
      BY <1>0
    <3> HIDE DEF table
    <3> QED
      BY <3>1, <3>2, TrimOnlyDrops
  <2>2. CASE SettleErr(r) /\ kept[k] # NoValue
    <3> DEFINE table == [kept EXCEPT ![k] = Dirtied(@, dirtyLoading[k])]
    <3>1. kept' \in trim_to_budget(AreaOf[k], table, [loading EXCEPT ![k] = 0])
      BY <2>2 DEF SettleErr
    <3>2. \A x \in Keys : x # k => table[x] = kept[x]
      BY <1>0
    <3> HIDE DEF table
    <3> QED
      BY <3>1, <3>2, TrimOnlyDrops
  <2>3. CASE SettleErr(r) /\ kept[k] = NoValue
    BY <2>3 DEF SettleErr
  <2> QED
    BY <2>1, <2>2, <2>3
<1>3. \A x \in Keys : x # k => ServedAtOnce'[x] = ServedAtOnce[x] \/ ServedAtOnce'[x] = Contract!Hidden
  <2> SUFFICES ASSUME NEW x \in Keys, x # k
               PROVE  ServedAtOnce'[x] = ServedAtOnce[x] \/ ServedAtOnce'[x] = Contract!Hidden
    OBVIOUS
  <2>1. loading'[x] = loading[x]
    BY <1>0, <1>1
  <2>2. CASE kept'[x] = kept[x]
    BY <1>1, <2>1, <2>2, ServedEntry
  <2>3. CASE kept'[x] = NoValue
    BY <2>3, ServedEntry DEF Shows
  <2> QED
    BY <1>2, <2>2, <2>3
<1> QED
  BY <1>0, <1>1, <1>3, ShownRefreshes

\* Cancelled entries were loading and are dirty now.
LEMMA CancelLoading_Contract ==
    ASSUME IInv, NEW a \in Areas, CancelLoading(a)
    PROVE  UNCHANGED <<cluster, delivered, ServedAtOnce>>
<1> DEFINE busy == {k \in Keys : AreaOf[k] = a /\ loading[k] # 0}
<1>0. /\ kept \in [Keys -> ReadyValue \cup {NoValue}] /\ nextLoad \in Nat
      /\ loads \in [1..nextLoad -> Load]
  BY BoundsAssumption DEF IInv, TypeOK, TableType, LoadType
<1>1. UNCHANGED <<cluster, delivered>> /\ \A l \in 1..nextLoad : loads'[l].seen = loads[l].seen
  BY <1>0 DEF CancelLoading, watchVars, Load
<1>2. \A k \in Keys : ServedAtOnce'[k] = ServedAtOnce[k]
  <2> SUFFICES ASSUME NEW k \in Keys PROVE ServedAtOnce'[k] = ServedAtOnce[k]
    OBVIOUS
  <2>1. CASE k \in busy
    <3>1. kept'[k] = Dirtied(kept[k], TRUE)
      BY <2>1 DEF CancelLoading
    <3>2. kept'[k].dirty
      <4>1. kept[k].dirty \in BOOLEAN
        BY KeptLoad DEF IInv
      <4>2. Dirtied(kept[k], TRUE).dirty = (kept[k].dirty \/ TRUE)
        BY DEF Dirtied
      <4> QED
        BY <3>1, <4>1, <4>2
    <3> QED
      BY <2>1, <3>2, ServedEntry DEF Shows
  <2>2. CASE k \notin busy
    <3>1. kept'[k] = kept[k] /\ loading'[k] = loading[k]
      BY <2>2 DEF CancelLoading
    <3> QED
      BY <1>1, <3>1, ServedEntry
  <2> QED
    BY <2>1, <2>2
<1>3. ServedAtOnce = [k \in Keys |-> ServedAtOnce[k]] /\ ServedAtOnce' = [k \in Keys |-> ServedAtOnce'[k]]
  BY DEF ServedAtOnce
<1> QED
  BY <1>1, <1>2, <1>3

\* Every step of the cache is one of its contract, or none.
LEMMA Next_Contract ==
    ASSUME IInv, IInv', SeenIsReal', [Next]_vars
    PROVE  [Contract!Next]_(Contract!vars)
<1>1. ASSUME UNCHANGED <<cluster, delivered, kept, loading>>,
             \A l \in 1..nextLoad : loads[l].status = "ok" => loads'[l].seen = loads[l].seen
      PROVE  UNCHANGED Contract!vars
  BY <1>1, ServedStays DEF Contract!vars
<1>2. ASSUME NEW o \in Objects, ClusterChange(o)
      PROVE  Contract!ClusterChange(o)
  <2>1. ServedAtOnce' = ServedAtOnce
    BY <1>2, ServedStays DEF ClusterChange, tableVars
  <2> QED
    BY <1>2, <2>1 DEF ClusterChange, Contract!ClusterChange
<1>3. ASSUME NEW r \in Readers, NEW status, readers[r].pc = "await", LoadDone(r, status)
      PROVE  UNCHANGED Contract!vars
  <2>1. \A l \in 1..nextLoad : loads[l].status = "ok" => loads'[l].seen = loads[l].seen
    BY <1>3 DEF LoadDone, IInv, TypeOK, LoadType, Load
  <2> QED
    BY <1>1, <1>3, <2>1 DEF LoadDone, watchVars, tableVars
<1>4. ASSUME NEW l \in 1..nextLoad, NEW o \in Objects, LoaderReads(l, o)
      PROVE  UNCHANGED Contract!vars
  <2>1. \A x \in 1..nextLoad : loads[x].status = "ok" => loads'[x].seen = loads[x].seen
    BY <1>4 DEF LoaderReads, IInv, TypeOK, LoadType, Load
  <2> QED
    BY <1>1, <1>4, <2>1 DEF LoaderReads, watchVars, tableVars
<1>5. CASE \/ Tick \/ UNCHANGED vars
           \/ \E o \in Objects : WatchEvent(o)
           \/ \E r \in Readers : ReturnOnly(r) \/ Wake(r) \/ Hit(r) \/ Join(r) \/ DropReader(r)
                                   \/ \E k \in Keys : PeekCovering(r, k)
  <2>1. UNCHANGED <<cluster, delivered, kept, loading, loads>>
    BY <1>5 DEF Tick, vars, WatchEvent, ReturnOnly, Wake, Hit, Join, DropReader, PeekCovering,
        watchVars, tableVars
  <2> QED
    BY <1>1, <2>1
<1>6. CASE \E r \in Readers : LoaderSucceeds(r) \/ LoaderFails(r) \/ LoaderCancelled(r)
  BY <1>3, <1>6 DEF LoaderSucceeds, LoaderFails, LoaderCancelled, LoadDone
<1>7. CASE \E o \in Objects : Broadcast(o) \/ ClusterChange(o)
  BY <1>2, <1>7, Broadcast_Contract DEF Contract!Next
<1>8. CASE \E r \in Readers : Miss(r) \/ SettleOk(r) \/ SettleErr(r)
  BY <1>8, Miss_Contract, Settle_Contract DEF Contract!Next
<1>9. CASE \E o \in Objects, k \in Keys : MarkOne(o, k)
  BY <1>9, MarkOne_Contract DEF Contract!Next
<1>10. CASE \E a \in Areas : CancelLoading(a)
  BY <1>10, CancelLoading_Contract DEF Contract!vars
<1> QED
  BY <1>4, <1>5, <1>6, <1>7, <1>8, <1>9, <1>10
  DEF Next, WatchStep, ReadStep, LoadStep, SettleStep

\* The cache starts with nothing to show.
LEMMA Init_Contract == Init => Contract!Init /\ SeenIsReal
<1> SUFFICES ASSUME Init PROVE Contract!Init /\ SeenIsReal
  OBVIOUS
<1>1. ServedAtOnce = [k \in Keys |-> Contract!Hidden]
  BY DEF Init, ServedAtOnce, Contract!Hidden
<1>2. SeenIsReal
  BY DEF Init, SeenIsReal
<1> QED
  BY <1>1, <1>2 DEF Init, Contract!Init

\* The cache implements what it promises the screens: what it answers at once was read
\* from the cluster, no earlier than the newest version the UI has been told of
\* (get_or_load, mark_watch_resource_dirty and cancel_loading of live_store.rs).
THEOREM CacheKeepsContract == Spec => KeepsContract
<1>1. IInv /\ SeenIsReal /\ [Next]_vars => SeenIsReal'
  BY IInvStep, SeenStep
<1>2. IInv /\ SeenIsReal /\ [Next]_vars => [Contract!Next]_(Contract!vars)
  BY <1>1, IInvStep, Next_Contract
<1> QED
  BY <1>1, <1>2, IInvHolds, Init_Contract, PTL DEF Spec, KeepsContract, Contract!Spec

-----------------------------------------------------------------------------
(* How loads are settled.                                                   *)

\* Few enough entries have a value to be counted.
ValuesAreFinite == IsFiniteSet({k \in Keys : kept[k] # NoValue})

SettleInv == IInv /\ FinishedLoadGetsSettled /\ ValuesAreFinite

\* A value only comes in when a load of its key is settled.
LEMMA ValuesStayFinite ==
    ASSUME ValuesAreFinite, NEW key,
           \A k \in Keys : kept'[k] # NoValue => kept[k] # NoValue \/ k = key
    PROVE  ValuesAreFinite'
<1> DEFINE old == {k \in Keys : kept[k] # NoValue}
           new == {k \in Keys : kept'[k] # NoValue}
<1>1. IsFiniteSet(old \cup {key})
  BY FS_AddElement DEF ValuesAreFinite
<1>2. new \subseteq old \cup {key}
  OBVIOUS
<1>3. IsFiniteSet(new)
  <2> HIDE DEF old, new
  <2> QED
    BY <1>1, <1>2, FS_Subset
<1> QED
  BY <1>3 DEF ValuesAreFinite

\* The table that a settled load leaves.
Settled(r, table) ==
    /\ kept' \in trim_to_budget(AreaOf[readers[r].key], table, loading')
    /\ \A x \in Keys : x # readers[r].key => table[x] = kept[x]
    /\ \A x \in Keys : table[x].dirty \in BOOLEAN

\* A load that is settled leaves the table that way, unless it failed over nothing.
LEMMA SettleSettles ==
    ASSUME IInv, NEW r \in Readers, SettleOk(r) \/ SettleErr(r)
    PROVE  /\ readers[r].key \in Keys /\ readers[r].pc = "install"
           /\ loading[readers[r].key] = readers[r].load
           /\ loading' = [loading EXCEPT ![readers[r].key] = 0]
           /\ readers' = [readers EXCEPT ![r] = Idle] /\ UNCHANGED loads
           /\ UNCHANGED kept \/ \E table : Settled(r, table)
<1> DEFINE k == readers[r].key
<1>0. /\ k \in Keys /\ kept \in [Keys -> ReadyValue \cup {NoValue}]
      /\ dirtyLoading \in [Keys -> BOOLEAN]
  BY DEF IInv, TypeOK, ReaderType, Reader, TableType
<1>1. \A x \in Keys : kept[x].dirty \in BOOLEAN
  BY KeptLoad DEF IInv
<1>2. /\ readers[r].pc = "install" /\ loading[k] = readers[r].load
      /\ loading' = [loading EXCEPT ![k] = 0]
      /\ readers' = [readers EXCEPT ![r] = Idle] /\ UNCHANGED loads
  BY DEF SettleOk, SettleErr, Settles, Answer
<1>3. CASE SettleOk(r)
  <2> DEFINE value == [load |-> readers[r].load, at |-> now, dirty |-> dirtyLoading[k]]
             table == [kept EXCEPT ![k] = value]
  <2>1. kept' \in trim_to_budget(AreaOf[k], table, loading')
    BY <1>2, <1>3 DEF SettleOk
  <2>2. value.dirty \in BOOLEAN
    BY <1>0
  <2>3. /\ \A x \in Keys : x # k => table[x] = kept[x]
        /\ \A x \in Keys : table[x].dirty \in BOOLEAN
    <3> HIDE DEF value
    <3> QED
      BY <1>0, <1>1, <2>2
  <2>4. Settled(r, table)
    <3> HIDE DEF table
    <3> QED
      BY <2>1, <2>3 DEF Settled
  <2> QED
    BY <1>0, <1>2, <2>4
<1>4. CASE SettleErr(r) /\ kept[k] # NoValue
  <2> DEFINE value == Dirtied(kept[k], dirtyLoading[k])
             table == [kept EXCEPT ![k] = value]
  <2>1. kept' \in trim_to_budget(AreaOf[k], table, loading')
    BY <1>2, <1>4 DEF SettleErr
  <2>2. value.dirty \in BOOLEAN
    BY <1>0, <1>1 DEF Dirtied
  <2>3. /\ \A x \in Keys : x # k => table[x] = kept[x]
        /\ \A x \in Keys : table[x].dirty \in BOOLEAN
    <3> HIDE DEF value
    <3> QED
      BY <1>0, <1>1, <2>2
  <2>4. Settled(r, table)
    <3> HIDE DEF table
    <3> QED
      BY <2>1, <2>3 DEF Settled
  <2> QED
    BY <1>0, <1>2, <2>4
<1>5. CASE SettleErr(r) /\ kept[k] = NoValue
  BY <1>0, <1>2, <1>5 DEF SettleErr
<1> QED
  BY <1>3, <1>4, <1>5

\* Trimming leaves what the budget allows, and takes clean values first.
LEMMA TrimKeepsBudget ==
    ASSUME IInv, ValuesAreFinite, NEW r \in Readers, NEW k \in Keys, k = readers[r].key,
           NEW table, Settled(r, table)
    PROVE  LET a == AreaOf[k]
               ready == ReadyKeys(a, kept', loading')
               gone == {x \in Keys : AreaOf[x] = a /\ x # k /\ loading[x] = 0
                                       /\ kept[x] # NoValue /\ kept'[x] = NoValue}
           IN  /\ Cardinality(ready) <= MaxEntries
               /\ gone # {} => Cardinality(ready) = MaxEntries
               /\ \A x \in gone : kept[x].dirty => \A y \in ready : kept'[y].dirty
<1> DEFINE a == AreaOf[k]
           before == ReadyKeys(a, table, loading')
           ready == ReadyKeys(a, kept', loading')
           gone == {x \in Keys : AreaOf[x] = a /\ x # k /\ loading[x] = 0
                                   /\ kept[x] # NoValue /\ kept'[x] = NoValue}
<1>1. PICK out \in SUBSET before :
        /\ Cardinality(out) = Excess(Cardinality(before))
        /\ \A x \in out, y \in before \ out : ~EvictsBefore(table[y], table[x])
        /\ kept' = [x \in Keys |-> IF x \in out THEN NoValue ELSE table[x]]
  BY DEF Settled, trim_to_budget
<1>2. IsFiniteSet(before)
  <2> DEFINE values == {x \in Keys : kept[x] # NoValue}
  <2>1. before \subseteq values \cup {k}
    BY DEF ReadyKeys, Settled
  <2>2. IsFiniteSet(values \cup {k})
    BY FS_AddElement DEF ValuesAreFinite
  <2> HIDE DEF before, values
  <2> QED
    BY <2>1, <2>2, FS_Subset
<1>3. ready = before \ out
  BY <1>1 DEF ReadyKeys
<1>4. gone \subseteq out
  BY <1>1 DEF Settled
<1> HIDE DEF before, ready, gone
<1>5. /\ IsFiniteSet(out) /\ Cardinality(out) \in Nat /\ Cardinality(before) \in Nat
      /\ Cardinality(ready) = Cardinality(before) - Cardinality(out)
  <2>1. IsFiniteSet(out)
    BY <1>2, FS_Subset
  <2>2. before \cap out = out
    OBVIOUS
  <2>3. Cardinality(before \ out) = Cardinality(before) - Cardinality(before \cap out)
    BY <1>2, FS_Difference
  <2> QED
    BY <1>2, <1>3, <2>1, <2>2, <2>3, FS_CardinalityType
<1>6. Cardinality(ready) <= MaxEntries
  BY <1>1, <1>5, BoundsAssumption DEF Excess
<1>7. gone # {} => Cardinality(ready) = MaxEntries
  <2>1. gone # {} => Cardinality(out) # 0
    BY <1>4, <1>5, FS_EmptySet
  <2> QED
    BY <1>1, <1>5, <2>1, BoundsAssumption DEF Excess
<1>8. ASSUME NEW x \in gone, kept[x].dirty, NEW y \in ready
      PROVE  kept'[y].dirty
  <2>1. x \in out /\ y \in before \ out /\ x \in Keys /\ y \in Keys
    BY <1>3, <1>4 DEF gone, before, ReadyKeys
  <2>2. table[x] = kept[x] /\ kept'[y] = table[y]
    BY <1>1, <2>1 DEF gone, Settled
  <2>3. ~EvictsBefore(table[y], table[x])
    BY <1>1, <2>1
  <2>4. table[y].dirty \in BOOLEAN
    BY <2>1 DEF Settled
  <2> QED
    BY <1>8, <2>2, <2>3, <2>4 DEF EvictsBefore
<1> QED
  BY <1>6, <1>7, <1>8 DEF ready, gone

\* Settling keeps to the budget, whichever step it is.
LEMMA StepSettlesWithinBudget ==
    ASSUME IInv, ValuesAreFinite, [Next]_vars
    PROVE  SettlesWithinBudget
<1>0. /\ loading \in [Keys -> 0..nextLoad] /\ nextLoad \in Nat
      /\ loads \in [1..nextLoad -> Load]
  BY BoundsAssumption DEF IInv, TypeOK, TableType, LoadType
<1> SUFFICES ASSUME NEW k \in Keys, loading[k] # 0, loading'[k] = 0, kept'[k] # kept[k],
                    ~loads'[loading[k]].cancelled
             PROVE  LET a == AreaOf[k]
                        ready == ReadyKeys(a, kept', loading')
                        gone == {x \in Keys : AreaOf[x] = a /\ x # k /\ loading[x] = 0
                                                /\ kept[x] # NoValue /\ kept'[x] = NoValue}
                    IN  /\ Cardinality(ready) <= MaxEntries
                        /\ gone # {} => Cardinality(ready) = MaxEntries
                        /\ \A x \in gone : kept[x].dirty => \A y \in ready : kept'[y].dirty
  BY DEF SettlesWithinBudget
<1>1. PICK r \in Readers : SettleOk(r) \/ SettleErr(r)
  <2>1. ASSUME NEW r \in Readers, Miss(r)
        PROVE  FALSE
    <3>1. loading' = [loading EXCEPT ![readers[r].key] = nextLoad + 1]
      BY <2>1 DEF Miss
    <3> QED
      BY <1>0, <3>1
  <2>2. ASSUME NEW a \in Areas, CancelLoading(a)
        PROVE  FALSE
    <3> DEFINE busy == {x \in Keys : AreaOf[x] = a /\ loading[x] # 0}
    <3>1. k \in busy
      <4>1. loading' = [x \in Keys |-> IF x \in busy THEN 0 ELSE loading[x]]
        BY <2>2 DEF CancelLoading
      <4> QED
        BY <4>1
    <3>2. loads' = [l \in 1..nextLoad |->
                      [loads[l] EXCEPT !.cancelled = @ \/ \E x \in busy : loading[x] = l]]
      BY <2>2 DEF CancelLoading
    <3>3. loading[k] \in 1..nextLoad /\ \E x \in busy : loading[x] = loading[k]
      BY <1>0, <3>1
    <3> HIDE DEF busy
    <3>4. loads'[loading[k]].cancelled
          = (loads[loading[k]].cancelled \/ \E x \in busy : loading[x] = loading[k])
      BY <1>0, <3>2, <3>3 DEF Load
    <3> QED
      BY <3>3, <3>4
  <2>3. loading' # loading
    OBVIOUS
  <2> QED
    BY <2>1, <2>2, <2>3
    DEF Next, vars, Tick, ClusterChange, WatchStep, WatchEvent, Broadcast, MarkOne, ReadStep,
        PeekCovering, Hit, Join, DropReader, LoadStep, LoaderSucceeds, LoaderFails,
        LoaderCancelled, LoadDone, Wake, SettleStep, ReturnOnly, LoaderReads, tableVars
<1>2. k = readers[r].key
  BY <1>0, <1>1, SettleSettles
<1>3. PICK table : Settled(r, table)
  BY <1>1, SettleSettles
<1> QED
  BY <1>2, <1>3, TrimKeepsBudget

\* A completed load keeps a waiter that is about to settle it, and the values stay finite.
LEMMA SettleInv_Step ==
    ASSUME SettleInv, IInv', [Next]_vars
    PROVE  SettleInv'
<1> USE DEF SettleInv
<1>0. /\ loading \in [Keys -> 0..nextLoad] /\ nextLoad \in Nat
      /\ loads \in [1..nextLoad -> Load] /\ readers \in [Readers -> Reader]
      /\ kept \in [Keys -> ReadyValue \cup {NoValue}]
  BY BoundsAssumption DEF IInv, TypeOK, TableType, LoadType, ReaderType
<1>1. ASSUME UNCHANGED <<loading, loads, nextLoad>>,
             \A q \in Readers : readers[q].pc = "install" => readers'[q] = readers[q]
      PROVE  FinishedLoadGetsSettled'
  BY <1>1 DEF FinishedLoadGetsSettled
<1>2. ASSUME UNCHANGED kept
      PROVE  ValuesAreFinite'
  BY <1>2 DEF ValuesAreFinite
<1>3. ASSUME NEW r \in Readers, SettleOk(r) \/ SettleErr(r)
      PROVE  FinishedLoadGetsSettled' /\ ValuesAreFinite'
  <2>1. /\ readers[r].key \in Keys /\ readers[r].pc = "install"
        /\ loading[readers[r].key] = readers[r].load
        /\ loading' = [loading EXCEPT ![readers[r].key] = 0]
        /\ readers' = [readers EXCEPT ![r] = Idle] /\ UNCHANGED loads
        /\ UNCHANGED kept \/ \E table : Settled(r, table)
    BY <1>3, SettleSettles
  <2>2. FinishedLoadGetsSettled'
    BY SMTT(30), <1>0, <2>1 DEF FinishedLoadGetsSettled
  <2>3. \A x \in Keys : kept'[x] # NoValue => kept[x] # NoValue \/ x = readers[r].key
    <3>1. ASSUME NEW table, Settled(r, table)
          PROVE  \A x \in Keys : x # readers[r].key => kept'[x] = kept[x] \/ kept'[x] = NoValue
      BY <3>1, TrimOnlyDrops DEF Settled
    <3> QED
      BY <2>1, <3>1
  <2> QED
    BY <2>2, <2>3, ValuesStayFinite
<1>4. ASSUME NEW r \in Readers, NEW status \in {"ok", "err"}, readers[r].pc = "await",
             LoadDone(r, status)
      PROVE  FinishedLoadGetsSettled'
  <2>1. /\ readers[r].load \in 1..nextLoad /\ UNCHANGED <<loading, nextLoad>>
        /\ readers' = [readers EXCEPT ![r].pc = "install"]
        /\ \A l \in 1..nextLoad : l # readers[r].load => loads'[l] = loads[l]
    BY <1>0, <1>4 DEF LoadDone, IInv, TypeOK, ReaderType, tableVars
  <2> SUFFICES ASSUME NEW k \in Keys, loading[k] # 0, loads'[loading[k]].status # "running"
               PROVE  \E q \in Readers : /\ readers'[q].pc = "install" /\ readers'[q].key = k
                                         /\ readers'[q].load = loading[k]
    BY <2>1 DEF FinishedLoadGetsSettled
  <2>2. CASE loading[k] = readers[r].load
    <3>1. readers[r].key = k
      BY <1>4, <2>2 DEF IInv, EntriesOwnLoads, ReadersOwnLoads
    <3> QED
      BY <1>0, <2>1, <2>2, <3>1 DEF Reader
  <2>3. CASE loading[k] # readers[r].load
    <3>1. loads'[loading[k]] = loads[loading[k]]
      BY <1>0, <2>1, <2>3
    <3>2. PICK q \in Readers : /\ readers[q].pc = "install" /\ readers[q].key = k
                               /\ readers[q].load = loading[k]
      BY <3>1 DEF FinishedLoadGetsSettled
    <3> QED
      BY <1>0, <2>1, <3>2
  <2> QED
    BY <2>2, <2>3
<1>5. ASSUME NEW r \in Readers, Miss(r)
      PROVE  FinishedLoadGetsSettled'
  <2>1. /\ loading' = [loading EXCEPT ![readers[r].key] = nextLoad + 1]
        /\ readers[r].pc = "peeked"
        /\ \A q \in Readers : q # r => readers'[q] = readers[q]
        /\ loads'[nextLoad + 1].status = "running"
        /\ \A l \in 1..nextLoad : loads'[l] = loads[l]
    BY <1>0, <1>5 DEF Miss
  <2> SUFFICES ASSUME NEW k \in Keys, loading'[k] # 0, loads'[loading'[k]].status # "running"
               PROVE  \E q \in Readers : /\ readers'[q].pc = "install" /\ readers'[q].key = k
                                         /\ readers'[q].load = loading'[k]
    BY DEF FinishedLoadGetsSettled
  <2>2. loading'[k] = loading[k] /\ loading[k] \in 1..nextLoad
    BY <1>0, <2>1
  <2>3. PICK q \in Readers : /\ readers[q].pc = "install" /\ readers[q].key = k
                             /\ readers[q].load = loading[k]
    BY <2>1, <2>2 DEF FinishedLoadGetsSettled
  <2> QED
    BY <2>1, <2>2, <2>3
<1>6. ASSUME NEW a \in Areas, CancelLoading(a)
      PROVE  FinishedLoadGetsSettled' /\ ValuesAreFinite'
  <2> DEFINE busy == {x \in Keys : AreaOf[x] = a /\ loading[x] # 0}
  <2>1. /\ UNCHANGED <<readers, nextLoad>>
        /\ \A x \in Keys : loading'[x] = 0 \/ loading'[x] = loading[x]
        /\ \A x \in Keys : kept'[x] = kept[x] \/ kept'[x] = Dirtied(kept[x], TRUE)
    BY <1>6 DEF CancelLoading
  <2>2. \A l \in 1..nextLoad : loads'[l].status = loads[l].status
    BY <1>0, <1>6 DEF CancelLoading, Load
  <2>3. FinishedLoadGetsSettled'
    BY <1>0, <2>1, <2>2 DEF FinishedLoadGetsSettled
  <2>4. \A x \in Keys : kept'[x] # NoValue => kept[x] # NoValue
    BY <1>0, <2>1, DirtiedType
  <2>5. PICK key : key \in Keys
    BY KeysAssumption
  <2> QED
    BY <2>3, <2>4, ValuesStayFinite
<1>7. ASSUME NEW o \in Objects, NEW k \in Keys, MarkOne(o, k)
      PROVE  FinishedLoadGetsSettled' /\ ValuesAreFinite'
  <2>1. \A x \in Keys : kept'[x] = kept[x] \/ kept'[x] = Dirtied(kept[x], TRUE)
    BY <1>0, <1>7 DEF MarkOne, mark_dirty
  <2>2. \A x \in Keys : kept'[x] # NoValue => kept[x] # NoValue
    BY <1>0, <2>1, DirtiedType
  <2>3. FinishedLoadGetsSettled'
    BY <1>1, <1>7 DEF MarkOne
  <2> QED
    BY <2>2, <2>3, ValuesStayFinite
<1>8. CASE \/ Tick \/ UNCHANGED vars
           \/ \E o \in Objects : ClusterChange(o) \/ WatchEvent(o) \/ Broadcast(o)
           \/ \E r \in Readers : Hit(r) \/ Join(r) \/ DropReader(r) \/ ReturnOnly(r) \/ Wake(r)
                                   \/ \E k \in Keys : PeekCovering(r, k)
           \/ \E l \in 1..nextLoad, o \in Objects : LoaderReads(l, o)
  <2>1. UNCHANGED <<kept, loading, nextLoad>>
    BY <1>8 DEF Tick, vars, ClusterChange, WatchEvent, Broadcast, Hit, Join, DropReader,
        ReturnOnly, Wake, PeekCovering, LoaderReads, tableVars
  <2>2. CASE \E l \in 1..nextLoad, o \in Objects : LoaderReads(l, o)
    <3>1. UNCHANGED readers /\ \A l \in 1..nextLoad : loads'[l].status = loads[l].status
      BY <1>0, <2>2 DEF LoaderReads, Load
    <3> QED
      BY <1>0, <1>2, <2>1, <3>1 DEF FinishedLoadGetsSettled
  <2>3. CASE \E r \in Readers : ReturnOnly(r)
    <3>1. PICK r \in Readers : ReturnOnly(r)
      BY <2>3
    <3>2. /\ UNCHANGED loads /\ loading[readers[r].key] # readers[r].load
          /\ \A q \in Readers : q # r => readers'[q] = readers[q]
      BY <1>0, <3>1 DEF ReturnOnly, Answer
    <3>3. FinishedLoadGetsSettled'
      BY <2>1, <3>2 DEF FinishedLoadGetsSettled
    <3> QED
      BY <1>2, <2>1, <3>3
  <2>4. CASE \/ Tick \/ UNCHANGED vars
             \/ \E o \in Objects : ClusterChange(o) \/ WatchEvent(o) \/ Broadcast(o)
             \/ \E r \in Readers : Hit(r) \/ Join(r) \/ DropReader(r) \/ Wake(r)
                                   \/ \E k \in Keys : PeekCovering(r, k)
    <3>1. UNCHANGED loads
      BY <2>4 DEF Tick, vars, ClusterChange, WatchEvent, Broadcast, Hit, Join, DropReader,
          Wake, PeekCovering
    <3>2. \A q \in Readers : readers[q].pc = "install" => readers'[q] = readers[q]
      BY <1>0, <2>4 DEF Tick, vars, ClusterChange, WatchEvent, Broadcast, Hit, Join, DropReader,
          Wake, PeekCovering, Answer
    <3> QED
      BY <1>1, <1>2, <2>1, <3>1, <3>2
  <2> QED
    BY <1>8, <2>2, <2>3, <2>4
<1>9. CASE \E r \in Readers : LoaderSucceeds(r) \/ LoaderFails(r) \/ LoaderCancelled(r)
  <2>1. UNCHANGED kept
    BY <1>9 DEF LoaderSucceeds, LoaderFails, LoaderCancelled, LoadDone, tableVars
  <2>2. FinishedLoadGetsSettled'
    BY <1>4, <1>9 DEF LoaderSucceeds, LoaderFails, LoaderCancelled, LoadDone
  <2> QED
    BY <1>2, <2>1, <2>2
<1>10. ASSUME NEW r \in Readers, Miss(r)
       PROVE  ValuesAreFinite'
  BY <1>2, <1>10 DEF Miss
<1> QED
  BY <1>3, <1>5, <1>6, <1>7, <1>8, <1>9, <1>10
  DEF Next, WatchStep, ReadStep, LoadStep, SettleStep

\* At first no load is running, and there is no value.
LEMMA SettleInv_Init == Init => SettleInv
<1> SUFFICES ASSUME Init PROVE SettleInv
  OBVIOUS
<1>1. FinishedLoadGetsSettled
  BY DEF Init, FinishedLoadGetsSettled
<1>2. {k \in Keys : kept[k] # NoValue} = {}
  BY DEF Init
<1>3. ValuesAreFinite
  BY <1>2, FS_EmptySet DEF ValuesAreFinite
<1> QED
  BY <1>1, <1>3, InitIInv DEF SettleInv

\* Every load that completes is about to be settled, and settling one leaves its table
\* within MAX_CACHE_ENTRIES, clean values going first (get_or_load and trim_to_budget of
\* live_store.rs).
THEOREM LoadsAlwaysSettled == Spec => LoadsAreSettled
<1>1. SettleInv /\ [Next]_vars => SettleInv'
  BY IInvStep, SettleInv_Step DEF SettleInv
<1>2. SettleInv /\ [Next]_vars => FinishedLoadGetsSettled' /\ SettlesWithinBudget
  BY <1>1, StepSettlesWithinBudget DEF SettleInv
<1> QED
  BY <1>1, <1>2, SettleInv_Init, PTL DEF Spec, LoadsAreSettled
=============================================================================
