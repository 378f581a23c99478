---------------------------- MODULE PodExecProofs ----------------------------
(***************************************************************************)
(* Proofs about PodExec: that a session's task can always be stopped and   *)
(* its entry tells the truth, that output precedes the exit, that callers  *)
(* are told the truth about their input and that it has no gaps, for any   *)
(* numbers of sessions, writers and streams and any limits.                *)
(***************************************************************************)
EXTENDS PodExec, FiniteSetTheorems, TLAPS

-----------------------------------------------------------------------------
(* The order of input.  Resizes share the queue with the writes, so the    *)
(* writes among the queued commands are compared with the accepted writes  *)
(* by their positions.                                                     *)

\* One sequence is an initial part of the other.
Initial(std, acc) == Len(std) <= Len(acc) /\ \A i \in 1..Len(std) : std[i] = acc[i]

\* How many accepted writes a session has taken: those written, and the one
\* at hand.
Taken(std, wr) == Len(std) + (IF wr = None THEN 0 ELSE 1)

\* What was accepted is what was written, then the write at hand, then the
\* writes of the queue, in its order.
Follows(acc, std, wr, q) ==
    /\ wr # None => Len(std) < Len(acc) /\ acc[Len(std) + 1] = wr
    /\ \A p \in DOMAIN acc : p > Taken(std, wr) => \E i \in DOMAIN q : q[i] = acc[p]
    /\ \A i \in DOMAIN q : q[i] \in Writes =>
          \E p \in DOMAIN acc : p > Taken(std, wr) /\ q[i] = acc[p]
    /\ \A i, j \in DOMAIN q : \A p, n \in DOMAIN acc :
          i < j /\ q[i] = acc[p] /\ q[j] = acc[n] => p < n

Distinct(acc) == \A p, n \in DOMAIN acc : acc[p] = acc[n] => p = n

\* Appending to a sequence adds one element.
LEMMA ToSetOfAppend ==
    ASSUME NEW q \in Seq(Writes), NEW w \in Writes
    PROVE  ToSet(Append(q, w)) = ToSet(q) \cup {w}
  <1>1. /\ DOMAIN Append(q, w) = 1..(Len(q) + 1) /\ DOMAIN q = 1..Len(q)
        /\ Len(q) \in Nat
        /\ Append(q, w)[Len(q) + 1] = w
        /\ \A i \in DOMAIN q : Append(q, w)[i] = q[i]
    OBVIOUS
  <1>2. ASSUME NEW x \in ToSet(Append(q, w)) PROVE x \in ToSet(q) \cup {w}
    <2>1. PICK i \in DOMAIN Append(q, w) : Append(q, w)[i] = x
      BY DEF ToSet
    <2>2. i = Len(q) + 1 \/ i \in DOMAIN q
      BY <1>1
    <2>3. QED
      BY <1>1, <2>1, <2>2 DEF ToSet
  <1>3. ASSUME NEW x \in ToSet(q) PROVE x \in ToSet(Append(q, w))
    <2>1. PICK i \in DOMAIN q : q[i] = x
      BY DEF ToSet
    <2>2. i \in DOMAIN Append(q, w) /\ Append(q, w)[i] = x
      BY <1>1, <2>1
    <2>3. QED
      BY <2>2 DEF ToSet
  <1>4. w \in ToSet(Append(q, w))
    BY <1>1 DEF ToSet
  <1>5. QED
    BY <1>2, <1>3, <1>4

LEMMA AppendFacts ==
    ASSUME NEW S, NEW q \in Seq(S), NEW e \in S
    PROVE  /\ DOMAIN Append(q, e) = 1..(Len(q) + 1) /\ DOMAIN q = 1..Len(q)
           /\ Len(q) \in Nat /\ Len(Append(q, e)) = Len(q) + 1
           /\ Append(q, e)[Len(q) + 1] = e
           /\ \A i \in DOMAIN q : Append(q, e)[i] = q[i]
  OBVIOUS

LEMMA InitialGrows ==
    ASSUME NEW acc \in Seq(Writes), NEW std \in Seq(Writes), NEW w \in Writes,
           Initial(std, acc)
    PROVE  Initial(std, Append(acc, w))
  <1>1. \A i \in 1..Len(std) : i \in DOMAIN acc
    BY DEF Initial
  <1>2. Len(std) \in Nat
    OBVIOUS
  <1>3. QED
    BY <1>1, <1>2, AppendFacts DEF Initial

LEMMA TakeFollows ==
    ASSUME NEW acc \in Seq(Writes), NEW std \in Seq(Writes),
           NEW q \in Seq(Writes \cup Resizes),
           Distinct(acc), Follows(acc, std, None, q), q # <<>>, Head(q) \in Writes
    PROVE  Follows(acc, std, Head(q), Tail(q))
  <1> DEFINE k == Len(std) + 1
  <1>1. /\ 1 \in DOMAIN q /\ Head(q) = q[1] /\ q[1] \in Writes /\ k \in Nat
        /\ DOMAIN Tail(q) = 1..(Len(q) - 1)
        /\ \A i \in DOMAIN Tail(q) : i + 1 \in DOMAIN q /\ Tail(q)[i] = q[i + 1]
        /\ \A i \in DOMAIN q : i # 1 => i - 1 \in DOMAIN Tail(q) /\ Tail(q)[i - 1] = q[i]
        /\ DOMAIN acc = 1..Len(acc) /\ DOMAIN q = 1..Len(q)
        /\ Len(acc) \in Nat /\ Len(std) \in Nat /\ Len(q) \in Nat
    OBVIOUS
  <1>0. /\ DOMAIN acc \subseteq Nat /\ DOMAIN q \subseteq Nat /\ DOMAIN Tail(q) \subseteq Nat
        /\ Taken(std, None) = Len(std)
    BY <1>1 DEF Taken
  <1>12. \A i, j \in DOMAIN q : \A p, n \in DOMAIN acc :
           i < j /\ q[i] = acc[p] /\ q[j] = acc[n] => p < n
    BY DEF Follows
  <1>13. \A p \in DOMAIN acc : p > Len(std) => \E i \in DOMAIN q : q[i] = acc[p]
    BY <1>0 DEF Follows
  <1>2. PICK p0 \in DOMAIN acc : p0 >= k /\ q[1] = acc[p0]
    <2>1. PICK p0 \in DOMAIN acc : p0 > Len(std) /\ q[1] = acc[p0]
      BY SMTT(30), <1>1, <1>0 DEF Follows
    <2>2. QED
      BY <1>1, <1>0, <2>1
  <1>3. k \in DOMAIN acc
    BY <1>1, <1>2
  <1>4. PICK i0 \in DOMAIN q : q[i0] = acc[k]
    BY SMTT(30), <1>0, <1>1, <1>3 DEF Follows
  <1>5. q[1] = acc[k]
    <2>1. CASE i0 = 1
      BY <1>4, <2>1
    <2>2. CASE i0 # 1
      <3>1. 1 < i0
        BY <1>0, <1>4, <1>1, <2>2
      <3>2. p0 < k
        BY <1>1, <1>2, <1>3, <1>4, <1>12, <3>1
      <3>3. QED
        BY <1>0, <1>1, <1>2, <3>2
    <2>3. QED
      BY <2>1, <2>2
  <1>6. Head(q) # None
    BY <1>1, CallsAssumption
  <1>7. Taken(std, Head(q)) = k /\ Taken(std, None) = k - 1
    BY <1>1, <1>6 DEF Taken
  <1>8. ASSUME NEW p \in DOMAIN acc, p > k
        PROVE  \E i \in DOMAIN Tail(q) : Tail(q)[i] = acc[p]
    <2>1. PICK i \in DOMAIN q : q[i] = acc[p]
      BY <1>0, <1>1, <1>8, <1>13
    <2>2. i # 1
      BY SMTT(30), <1>1, <1>3, <1>5, <1>8, <2>1 DEF Distinct
    <2>3. QED
      BY ZenonT(60), <1>1, <2>1, <2>2
  <1>9. ASSUME NEW i \in DOMAIN Tail(q), Tail(q)[i] \in Writes
        PROVE  \E p \in DOMAIN acc : p > k /\ Tail(q)[i] = acc[p]
    <2>1. PICK p \in DOMAIN acc : q[i + 1] = acc[p]
      BY <1>1, <1>9 DEF Follows
    <2>2. i + 1 \in DOMAIN q /\ 1 < i + 1
      BY <1>0, <1>1
    <2>3. k < p
      BY <1>1, <1>3, <1>5, <1>12, <2>1, <2>2
    <2>4. QED
      BY <1>0, <1>1, <2>1, <2>3
  <1>10. ASSUME NEW i \in DOMAIN Tail(q), NEW j \in DOMAIN Tail(q),
                NEW p \in DOMAIN acc, NEW n \in DOMAIN acc,
                i < j, Tail(q)[i] = acc[p], Tail(q)[j] = acc[n]
         PROVE  p < n
    BY SMTT(30), <1>1, <1>10 DEF Follows
  <1>11. QED
    BY <1>1, <1>3, <1>5, <1>7, <1>8, <1>9, <1>10 DEF Follows

LEMMA SkipFollows ==
    ASSUME NEW acc \in Seq(Writes), NEW std \in Seq(Writes),
           NEW q \in Seq(Writes \cup Resizes),
           Follows(acc, std, None, q), q # <<>>, Head(q) \in Resizes
    PROVE  Follows(acc, std, None, Tail(q))
  <1>1. /\ 1 \in DOMAIN q /\ q[1] \notin Writes
        /\ DOMAIN Tail(q) = 1..(Len(q) - 1)
        /\ \A i \in DOMAIN Tail(q) : i + 1 \in DOMAIN q /\ Tail(q)[i] = q[i + 1]
        /\ \A i \in DOMAIN q : i # 1 => i - 1 \in DOMAIN Tail(q) /\ Tail(q)[i - 1] = q[i]
        /\ DOMAIN acc = 1..Len(acc) /\ DOMAIN q = 1..Len(q)
        /\ \A p \in DOMAIN acc : acc[p] \in Writes
    BY CallsAssumption
  <1>2. ASSUME NEW p \in DOMAIN acc, p > Taken(std, None)
        PROVE  \E i \in DOMAIN Tail(q) : Tail(q)[i] = acc[p]
    <2>1. PICK i \in DOMAIN q : q[i] = acc[p]
      BY <1>2 DEF Follows
    <2>2. QED
      BY <1>1, <2>1
  <1>3. ASSUME NEW i \in DOMAIN Tail(q), Tail(q)[i] \in Writes
        PROVE  \E p \in DOMAIN acc : p > Taken(std, None) /\ Tail(q)[i] = acc[p]
    BY <1>1, <1>3 DEF Follows
  <1>4. ASSUME NEW i \in DOMAIN Tail(q), NEW j \in DOMAIN Tail(q),
               NEW p \in DOMAIN acc, NEW n \in DOMAIN acc,
               i < j, Tail(q)[i] = acc[p], Tail(q)[j] = acc[n]
        PROVE  p < n
    BY <1>1, <1>4 DEF Follows
  <1>5. QED
    BY <1>2, <1>3, <1>4 DEF Follows

LEMMA FinishFollows ==
    ASSUME NEW acc \in Seq(Writes), NEW std \in Seq(Writes),
           NEW q \in Seq(Writes \cup Resizes), NEW w \in Writes,
           Initial(std, acc), Follows(acc, std, w, q)
    PROVE  Initial(Append(std, w), acc) /\ Follows(acc, Append(std, w), None, q)
  <1>1. /\ Len(Append(std, w)) = Len(std) + 1
        /\ \A i \in 1..(Len(std) + 1) :
              Append(std, w)[i] = IF i = Len(std) + 1 THEN w ELSE std[i]
    OBVIOUS
  <1>0. w # None
    BY CallsAssumption
  <1>2. Taken(Append(std, w), None) = Taken(std, w)
    BY <1>0, <1>1 DEF Taken
  <1>3. QED
    BY <1>0, <1>1, <1>2 DEF Initial, Follows

LEMMA PutFollows ==
    ASSUME NEW acc \in Seq(Writes), NEW std \in Seq(Writes), NEW wr,
           NEW q \in Seq(Writes \cup Resizes), NEW w \in Writes,
           Initial(std, acc), Follows(acc, std, wr, q),
           \A p \in DOMAIN acc : acc[p] # w,
           \A i \in DOMAIN q : q[i] # w
    PROVE  Follows(Append(acc, w), std, wr, Append(q, w))
  <1> DEFINE a == Append(acc, w)
             b == Append(q, w)
  <1>1. /\ DOMAIN a = 1..(Len(acc) + 1) /\ DOMAIN acc = 1..Len(acc) /\ Len(acc) \in Nat
        /\ DOMAIN b = 1..(Len(q) + 1) /\ DOMAIN q = 1..Len(q) /\ Len(q) \in Nat
        /\ a[Len(acc) + 1] = w /\ \A p \in DOMAIN acc : a[p] = acc[p]
        /\ b[Len(q) + 1] = w /\ \A i \in DOMAIN q : b[i] = q[i]
        /\ Len(std) \in Nat
    OBVIOUS
  <1> HIDE DEF a, b
  <1>2. Taken(std, wr) <= Len(acc)
    BY <1>1 DEF Taken, Initial, Follows
  <1>3. ASSUME NEW p \in DOMAIN a, p > Taken(std, wr)
        PROVE  \E i \in DOMAIN b : b[i] = a[p]
    <2>1. CASE p = Len(acc) + 1
      <3>1. Len(q) + 1 \in DOMAIN b /\ b[Len(q) + 1] = a[p]
        BY <1>1, <2>1
      <3>2. QED
        BY <3>1
    <2>2. CASE p \in DOMAIN acc
      <3>1. PICK i \in DOMAIN q : q[i] = acc[p]
        BY <1>3, <2>2 DEF Follows
      <3>2. QED
        BY <1>1, <2>2, <3>1
    <2>3. QED
      BY <1>1, <2>1, <2>2
  <1>4. ASSUME NEW i \in DOMAIN b, b[i] \in Writes
        PROVE  \E p \in DOMAIN a : p > Taken(std, wr) /\ b[i] = a[p]
    <2>1. CASE i = Len(q) + 1
      BY <1>1, <1>2, <2>1 DEF Taken
    <2>2. CASE i \in DOMAIN q
      <3>1. PICK p \in DOMAIN acc : p > Taken(std, wr) /\ q[i] = acc[p]
        BY <1>1, <1>4, <2>2 DEF Follows
      <3>2. QED
        BY <1>1, <2>2, <3>1
    <2>3. QED
      BY <1>1, <2>1, <2>2
  <1>5. ASSUME NEW i \in DOMAIN b, NEW j \in DOMAIN b,
               NEW p \in DOMAIN a, NEW n \in DOMAIN a,
               i < j, b[i] = a[p], b[j] = a[n]
        PROVE  p < n
    <2>1. i \in DOMAIN q /\ p \in DOMAIN acc
      BY <1>1, <1>5
    <2>2. CASE j \in DOMAIN q
      BY SMTT(30), <1>1, <1>5, <2>1, <2>2 DEF Follows
    <2>3. CASE j = Len(q) + 1
      BY <1>1, <1>5, <2>1, <2>3
    <2>4. QED
      BY <1>1, <2>2, <2>3
  <1>6. wr # None => Len(std) < Len(acc) + 1 /\ a[Len(std) + 1] = wr
    BY <1>1 DEF Follows
  <1>7. Len(a) = Len(acc) + 1
    BY DEF a
  <1>8. Follows(a, std, wr, b)
    BY <1>1, <1>3, <1>4, <1>5, <1>6, <1>7 DEF Follows
  <1>9. QED
    BY <1>8 DEF a, b

LEMMA ResizeFollows ==
    ASSUME NEW acc \in Seq(Writes), NEW std \in Seq(Writes), NEW wr,
           NEW q \in Seq(Writes \cup Resizes), NEW z \in Resizes,
           Follows(acc, std, wr, q)
    PROVE  Follows(acc, std, wr, Append(q, z))
  <1> DEFINE b == Append(q, z)
  <1>1. /\ DOMAIN b = 1..(Len(q) + 1) /\ DOMAIN q = 1..Len(q) /\ Len(q) \in Nat
        /\ b[Len(q) + 1] = z /\ \A i \in DOMAIN q : b[i] = q[i]
        /\ z \notin Writes /\ \A p \in DOMAIN acc : acc[p] \in Writes
    BY CallsAssumption
  <1> HIDE DEF b
  <1>2. ASSUME NEW p \in DOMAIN acc, p > Taken(std, wr)
        PROVE  \E i \in DOMAIN b : b[i] = acc[p]
    <2>1. PICK i \in DOMAIN q : q[i] = acc[p]
      BY <1>2 DEF Follows
    <2>2. QED
      BY <1>1, <2>1
  <1>3. ASSUME NEW i \in DOMAIN b, b[i] \in Writes
        PROVE  \E p \in DOMAIN acc : p > Taken(std, wr) /\ b[i] = acc[p]
    BY <1>1, <1>3 DEF Follows
  <1>4. ASSUME NEW i \in DOMAIN b, NEW j \in DOMAIN b,
               NEW p \in DOMAIN acc, NEW n \in DOMAIN acc,
               i < j, b[i] = acc[p], b[j] = acc[n]
        PROVE  p < n
    <2>1. i \in DOMAIN q /\ j \in DOMAIN q
      BY <1>1, <1>4
    <2>2. QED
      BY <1>1, <1>4, <2>1 DEF Follows
  <1>5. Follows(acc, std, wr, b)
    BY <1>2, <1>3, <1>4 DEF Follows
  <1>6. QED
    BY <1>5 DEF b

USE CallsAssumption, LimitsAssumption

-----------------------------------------------------------------------------
(* Types.                                                                  *)

LEMMA LostType ==
    ASSUME TypeOK, NEW s \in Sessions
    PROVE  Lost(s) \in [Writes -> Answers]
  BY DEF TypeOK, Lost, Answers

LEMMA EndType ==
    ASSUME TypeOK, NEW s \in Sessions, NEW outcome \in {"exited", "error"},
           NEW answers \in [Writes -> Answers], End(s, outcome, answers)
    PROVE  TypeOK'
  <1>1. entry' \in [Sessions -> Statuses]
    BY DEF TypeOK, End, Mark, Statuses
  <1>2. queue' \in [Sessions -> Seq(Writes \cup Resizes)]
    BY DEF TypeOK, End, DropCommands
  <1>3. QED
    BY <1>1, <1>2 DEF TypeOK, End, DropCommands, CutReaders

LEMMA TypeStart ==
    ASSUME TypeOK, NEW s \in Sessions, Insert(s) \/ Spawn(s) \/ SetHandle(s)
    PROVE  TypeOK'
  <1>1. CASE Insert(s)
    BY <1>1 DEF TypeOK, Insert, input, process, Statuses
  <1>2. CASE Spawn(s)
    BY <1>2 DEF TypeOK, Spawn, registry, input, process
  <1>3. CASE SetHandle(s)
    BY <1>3 DEF TypeOK, SetHandle, input, process
  <1>4. QED
    BY <1>1, <1>2, <1>3

LEMMA TypeStop ==
    ASSUME TypeOK, NEW gone \in SUBSET Sessions, StopSessions(gone)
    PROVE  TypeOK'
  BY DEF TypeOK, StopSessions, calls, input, process, Statuses

LEMMA TypeTask ==
    ASSUME TypeOK, NEW s \in Sessions, TaskStep(s)
    PROVE  TypeOK'
  <1>1. CASE \/ ConnectFails(s) \/ ResizeFails(s) \/ InputClosed(s) \/ NoStatus(s)
             \/ ReaderError(s) \/ Drained(s)
    <2>1. PICK outcome \in {"exited", "error"} : End(s, outcome, Lost(s))
      BY <1>1 DEF ConnectFails, ResizeFails, InputClosed, NoStatus, ReaderError, Drained
    <2>2. QED
      BY <2>1, LostType, EndType
  <1>2. CASE FailWrite(s)
    <2>1. [Lost(s) EXCEPT ![writing[s]] = "failed"] \in [Writes -> Answers]
      BY LostType DEF Answers
    <2>2. QED
      BY <1>2, <2>1, EndType DEF FailWrite
  <1>3. CASE Attach(s)
    BY <1>3 DEF TypeOK, Attach, Mark, calls, input, Statuses
  <1>9. CASE SendSize(s)
    BY <1>9 DEF TypeOK, SendSize, registry, calls, input, process
  <1>4. CASE TakeWrite(s) \/ TakeResize(s)
    <2>1. Tail(queue[s]) \in Seq(Writes \cup Resizes)
      BY <1>4 DEF TypeOK, TakeWrite, TakeResize, ReadyToTake
    <2>2. queue' \in [Sessions -> Seq(Writes \cup Resizes)]
      <3>1. queue' = [queue EXCEPT ![s] = Tail(queue[s])]
        BY <1>4 DEF TakeWrite, TakeResize
      <3>2. QED
        BY <2>1, <3>1 DEF TypeOK
    <2>3. writing' \in [Sessions -> Writes \cup {None}]
      <3>1. CASE TakeWrite(s)
        <4>1. PICK w \in Writes : writing' = [writing EXCEPT ![s] = w]
          BY <3>1 DEF TakeWrite
        <4>2. QED
          BY <4>1 DEF TypeOK
      <3>2. CASE TakeResize(s)
        BY <3>2 DEF TypeOK, TakeResize
      <3>3. QED
        BY <1>4, <3>1, <3>2
    <2>4. QED
      BY <1>4, <2>2, <2>3 DEF TypeOK, TakeWrite, TakeResize, registry, calls, process
  <1>5. CASE FinishWrite(s)
    <2>1. Append(stdin[s], writing[s]) \in Seq(Writes)
      BY <1>5 DEF TypeOK, FinishWrite
    <2>2. QED
      BY <1>5, <2>1 DEF TypeOK, FinishWrite, registry, process, Answers
  <1>6. CASE StatusArrives(s)
    BY <1>6 DEF TypeOK, StatusArrives, StatusReady, registry, process, Answers
  <1>7. CASE AbortTakesEffect(s)
    <2>1. queue' \in [Sessions -> Seq(Writes \cup Resizes)]
      BY <1>7 DEF TypeOK, AbortTakesEffect, DropCommands
    <2>2. QED
      BY SMTT(30), <1>7, <2>1, LostType DEF TypeOK, AbortTakesEffect, DropCommands, CutReaders, registry
  <1>8. QED
    BY <1>1, <1>2, <1>3, <1>4, <1>5, <1>6, <1>7, <1>9 DEF TaskStep

\* No more is unread than was printed, so unread counts stay in range.
UnreadWasPrinted ==
    \A s \in Sessions, r \in Streams : output[s][r].unread <= output[s][r].printed

Counts == [printed : 0..MaxOutput, unread : 0..MaxOutput]

LEMMA TypeProcess ==
    ASSUME TypeOK, UnreadWasPrinted, NEW s \in Sessions, ProcessStep(s)
    PROVE  TypeOK' /\ UnreadWasPrinted'
  <1>1. CASE Exit(s)
    BY <1>1 DEF TypeOK, UnreadWasPrinted, Exit, registry, calls, input
  <1>2. ASSUME NEW r \in Streams, Emit(s, r) \/ Read(s, r)
        PROVE  TypeOK' /\ UnreadWasPrinted'
    <2> DEFINE more == [printed |-> output[s][r].printed + 1,
                        unread |-> output[s][r].unread + 1]
               less == [output[s][r] EXCEPT !.unread = @ - 1]
    <2>1. /\ output \in [Sessions -> [Streams -> Counts]]
          /\ output[s][r] \in Counts
      BY DEF TypeOK, Counts
    <2>2. PICK c \in Counts : /\ c.unread <= c.printed
                              /\ output' = [output EXCEPT ![s][r] = c]
      <3>1. CASE Emit(s, r)
        <4>1. more \in Counts /\ more.unread <= more.printed
          BY <3>1, <2>1 DEF Emit, Counts, UnreadWasPrinted
        <4>2. QED
          BY <3>1, <4>1 DEF Emit
      <3>2. CASE Read(s, r)
        <4>1. less \in Counts /\ less.unread <= less.printed
          BY <3>2, <2>1 DEF Read, Counts, UnreadWasPrinted
        <4>2. output' = [output EXCEPT ![s][r] = less]
          BY <3>2 DEF Read
        <4>3. QED
          BY <4>1, <4>2
      <3>3. QED
        BY <1>2, <3>1, <3>2
    <2>3. output' \in [Sessions -> [Streams -> Counts]]
      BY <2>1, <2>2
    <2>4. UnreadWasPrinted'
      BY <2>1, <2>2 DEF UnreadWasPrinted
    <2>5. QED
      BY <1>2, <2>3, <2>4 DEF TypeOK, Counts, Emit, Read, registry, calls, input
  <1>3. ASSUME NEW r \in Streams, ReaderDone(s, r) \/ ReaderFails(s, r)
        PROVE  TypeOK' /\ UnreadWasPrinted'
    <2>1. reader' \in [Sessions -> [Streams -> {"none", "reading", "done", "failed", "cut"}]]
      <3>1. PICK what \in {"done", "failed"} : reader' = [reader EXCEPT ![s][r] = what]
        BY <1>3 DEF ReaderDone, ReaderFails
      <3>2. QED
        BY <3>1 DEF TypeOK
    <2>2. QED
      BY <1>3, <2>1 DEF TypeOK, UnreadWasPrinted, ReaderDone, ReaderFails, registry, calls, input
  <1>4. QED
    BY <1>1, <1>2, <1>3 DEF ProcessStep

LEMMA TypeCalls ==
    ASSUME TypeOK, NEW w \in Writes, WriteStep(w)
    PROVE  TypeOK'
  <1>1. CASE BeginWrite(w) \/ CloneSender(w)
    <2>1. PICK what \in Answers : Answer(w, what)
      BY <1>1 DEF BeginWrite, CloneSender, Answers
    <2>2. answer' \in [Writes -> Answers]
      BY <2>1 DEF TypeOK, Answer
    <2>3. QED
      BY <1>1, <2>2 DEF TypeOK, BeginWrite, CloneSender, registry, input, process
  <1>2. CASE TrySend(w)
    <2>1. Target[w] \in Sessions
      OBVIOUS
    <2>2. /\ Append(queue[Target[w]], w) \in Seq(Writes \cup Resizes)
          /\ Append(accepted[Target[w]], w) \in Seq(Writes)
      BY <2>1 DEF TypeOK
    <2>3. /\ queue' \in [Sessions -> Seq(Writes \cup Resizes)]
          /\ accepted' \in [Sessions -> Seq(Writes)]
      <3>1. CASE Accepts(Target[w])
        <4>1. /\ queue' = [queue EXCEPT ![Target[w]] = Append(queue[Target[w]], w)]
              /\ accepted' = [accepted EXCEPT ![Target[w]] = Append(accepted[Target[w]], w)]
          BY <1>2, <3>1 DEF TrySend, Enqueue
        <4>2. QED
          BY <2>1, <2>2, <4>1 DEF TypeOK
      <3>2. CASE ~Accepts(Target[w])
        BY <1>2, <3>2 DEF TypeOK, TrySend, input
      <3>3. QED
        BY <3>1, <3>2
    <2>4. answer' \in [Writes -> Answers]
      <3>1. PICK what \in Answers : Answer(w, what)
        BY <1>2 DEF TrySend, Answers
      <3>2. QED
        BY <3>1 DEF TypeOK, Answer
    <2>5. QED
      BY <1>2, <2>3, <2>4 DEF TypeOK, TrySend, Enqueue, input, registry, process
  <1>3. QED
    BY <1>1, <1>2 DEF WriteStep

LEMMA TypeResize ==
    ASSUME TypeOK, NEW z \in Resizes, Resize(z)
    PROVE  TypeOK'
  <1>1. Target[z] \in Sessions
    OBVIOUS
  <1>2. Append(queue[Target[z]], z) \in Seq(Writes \cup Resizes)
    BY <1>1 DEF TypeOK
  <1>3. QED
    BY <1>1, <1>2 DEF TypeOK, Resize, Enqueue, registry, calls, process

LEMMA OutputOnly ==
    ASSUME UnreadWasPrinted, output' = output
    PROVE  UnreadWasPrinted'
  BY DEF UnreadWasPrinted

\* Only a process and its readers touch the output.
LEMMA OutputKept ==
    ASSUME NEW s \in Sessions,
           Insert(s) \/ Spawn(s) \/ SetHandle(s) \/ TaskStep(s)
    PROVE  output' = output
  BY DEF Insert, Spawn, SetHandle, TaskStep, ConnectFails, Attach, SendSize, TakeWrite,
         TakeResize, ResizeFails, FinishWrite, FailWrite, InputClosed, StatusArrives,
         NoStatus, ReaderError, Drained, AbortTakesEffect, End, process

Types == TypeOK /\ UnreadWasPrinted

LEMMA TypesInit == Init => Types
  BY DEF Init, Types, TypeOK, UnreadWasPrinted, Statuses, Answers

LEMMA TypesNext == Types /\ [Next]_vars => Types'
  <1> SUFFICES ASSUME Types, [Next]_vars PROVE Types'
    OBVIOUS
  <1> USE DEF Types
  <1>1. ASSUME NEW s \in Sessions, Insert(s) \/ Spawn(s) \/ SetHandle(s)
        PROVE  Types'
    BY <1>1, TypeStart, OutputKept, OutputOnly
  <1>2. ASSUME NEW s \in Sessions, TaskStep(s)
        PROVE  Types'
    BY <1>2, TypeTask, OutputKept, OutputOnly
  <1>3. ASSUME NEW s \in Sessions, ProcessStep(s)
        PROVE  Types'
    BY <1>3, TypeProcess
  <1>4. ASSUME NEW gone \in SUBSET Sessions, StopSessions(gone)
        PROVE  Types'
    BY <1>4, TypeStop, OutputOnly DEF StopSessions, process
  <1>5. ASSUME NEW w \in Writes, WriteStep(w)
        PROVE  Types'
    BY <1>5, TypeCalls, OutputOnly
       DEF WriteStep, BeginWrite, CloneSender, TrySend, process
  <1>6. ASSUME NEW z \in Resizes, Resize(z)
        PROVE  Types'
    BY <1>6, TypeResize, OutputOnly DEF Resize, process
  <1>7. CASE UNCHANGED vars
    BY <1>7 DEF vars, TypeOK, UnreadWasPrinted
  <1>8. QED
    BY <1>1, <1>2, <1>3, <1>4, <1>5, <1>6, <1>7 DEF Next

\* Every variable keeps its type in every behaviour.
THEOREM TypeCorrect == Spec => []TypeOK
  <1>1. Types => TypeOK
    BY DEF Types
  <1>2. QED
    BY TypesInit, TypesNext, <1>1, PTL DEF Spec

-----------------------------------------------------------------------------
(* The life of a session.                                                  *)

\* The order of the start command, and when handles exist and are aborted.
Begun ==
    \A s \in Sessions :
        /\ task[s] = "none" <=> start[s] \in {"idle", "inserted"}
        /\ start[s] = "idle" => entry[s] = "absent"
        /\ s \in handles \cup aborted => start[s] = "done"
        /\ s \in aborted => entry[s] = "absent"
        /\ told[s] = "exited" => task[s] = "over"

DoneMeansRead ==
    \A s \in Sessions, r \in Streams : reader[s][r] = "done" => output[s][r].unread = 0

Life == Begun /\ TasksAreOwned /\ EntriesTellTheTruth /\ DoneMeansRead /\ ExitIsLast

USE DEF Begun, TasksAreOwned, EntriesTellTheTruth, DoneMeansRead, ExitIsLast

LEMMA LifeStart ==
    ASSUME TypeOK, Life, NEW s \in Sessions, Insert(s) \/ Spawn(s) \/ SetHandle(s)
    PROVE  Life'
  <1> USE DEF Life
  <1>1. CASE Insert(s)
    BY <1>1 DEF TypeOK, Insert, process
  <1>2. CASE Spawn(s)
    BY <1>2 DEF TypeOK, Spawn, registry, process
  <1>3. CASE SetHandle(s)
    BY <1>3 DEF TypeOK, SetHandle, process
  <1>4. QED
    BY <1>1, <1>2, <1>3

LEMMA LifeStop ==
    ASSUME TypeOK, Life, NEW gone \in SUBSET Sessions, StopSessions(gone)
    PROVE  Life'
  BY DEF Life, TypeOK, StopSessions, calls, process

\* A task that ends leaves its readers' state and its entry consistent.
LEMMA LifeEnd ==
    ASSUME TypeOK, Life, NEW s \in Sessions, NEW outcome \in {"exited", "error"},
           NEW answers, End(s, outcome, answers), task[s] \notin {"none", "over"},
           outcome = "exited" => \A r \in Streams : reader[s][r] = "done"
    PROVE  Life'
  <1>1. /\ Begun' /\ TasksAreOwned' /\ EntriesTellTheTruth'
    BY DEF Life, TypeOK, End, Mark
  <1>2. \A t \in Sessions, r \in Streams : reader'[t][r] = "done" <=> reader[t][r] = "done"
    BY DEF TypeOK, End, CutReaders
  <1>3. /\ output' = output
        /\ \A t \in Sessions : told'[t] = IF t = s THEN outcome ELSE told[t]
    BY DEF TypeOK, End
  <1>4. DoneMeansRead'
    BY <1>2, <1>3 DEF Life
  <1>5. ExitIsLast'
    BY <1>2, <1>3 DEF Life
  <1>6. QED
    BY <1>1, <1>4, <1>5 DEF Life

LEMMA LifeTask ==
    ASSUME TypeOK, Life, NEW s \in Sessions, TaskStep(s)
    PROVE  Life'
  <1>1. CASE ConnectFails(s) \/ ResizeFails(s) \/ InputClosed(s) \/ NoStatus(s) \/ ReaderError(s)
    <2>1. End(s, "error", Lost(s)) /\ task[s] \notin {"none", "over"}
      BY <1>1 DEF ConnectFails, ResizeFails, InputClosed, NoStatus, ReaderError,
                  StatusReady, Driving, ReadyToTake
    <2>2. QED
      BY <2>1, LifeEnd
  <1>2. CASE Drained(s)
    BY <1>2, LifeEnd DEF Drained
  <1>3. CASE FailWrite(s)
    BY <1>3, LifeEnd DEF FailWrite
  <1>4. CASE Attach(s)
    <2>1. Begun' /\ TasksAreOwned' /\ EntriesTellTheTruth'
      BY <1>4 DEF Life, TypeOK, Attach, Mark, calls
    <2>2. /\ \A t \in Sessions \ {s} : reader'[t] = reader[t] /\ task'[t] = task[t] /\ told'[t] = told[t]
          /\ \A r \in Streams : reader'[s][r] = "reading"
          /\ told'[s] = "running"
          /\ output' = output
      BY <1>4 DEF TypeOK, Attach
    <2>3. DoneMeansRead' /\ ExitIsLast'
      BY <2>2 DEF Life
    <2>4. QED
      BY <2>1, <2>3 DEF Life
  <1>5. CASE SendSize(s) \/ TakeWrite(s) \/ TakeResize(s) \/ FinishWrite(s) \/ StatusArrives(s)
    <2>1. /\ UNCHANGED <<entry, handles, start, aborted, output, reader, told>>
          /\ \/ task' = task
             \/ \E what \in {"running", "draining"} :
                   task[s] \in {"sizing", "running"} /\ task' = [task EXCEPT ![s] = what]
      BY <1>5 DEF SendSize, TakeWrite, TakeResize, FinishWrite, StatusArrives, StatusReady,
                  Driving, registry, calls, process
    <2>2. \A t \in Sessions : \/ task'[t] = task[t]
                              \/ task[t] \notin {"none", "over"} /\ task'[t] \notin {"none", "over"}
      BY <2>1 DEF TypeOK
    <2>3. Begun' /\ TasksAreOwned' /\ EntriesTellTheTruth' /\ DoneMeansRead' /\ ExitIsLast'
      BY <2>1, <2>2 DEF Life
    <2>4. QED
      BY <2>3 DEF Life
  <1>6. CASE AbortTakesEffect(s)
    <2>1. Begun' /\ TasksAreOwned' /\ EntriesTellTheTruth'
      BY <1>6 DEF Life, TypeOK, AbortTakesEffect, registry
    <2>2. \A t \in Sessions, r \in Streams : reader'[t][r] = "done" <=> reader[t][r] = "done"
      BY <1>6 DEF TypeOK, AbortTakesEffect, CutReaders
    <2>3. DoneMeansRead' /\ ExitIsLast'
      BY <1>6, <2>2 DEF Life, AbortTakesEffect
    <2>4. QED
      BY <2>1, <2>3 DEF Life
  <1>7. QED
    BY <1>1, <1>2, <1>3, <1>4, <1>5, <1>6 DEF TaskStep

LEMMA LifeProcess ==
    ASSUME TypeOK, Life, NEW s \in Sessions, ProcessStep(s)
    PROVE  Life'
  <1>1. UNCHANGED <<entry, handles, start, aborted, task, told>>
    BY DEF ProcessStep, Exit, Emit, Read, ReaderDone, ReaderFails, registry, calls
  <1>2. Begun' /\ TasksAreOwned' /\ EntriesTellTheTruth'
    BY <1>1 DEF Life
  <1> DEFINE Goal == \A t \in Sessions, r \in Streams :
                 /\ reader[t][r] = "done" =>
                       reader'[t][r] = "done" /\ output'[t][r] = output[t][r]
                 /\ reader'[t][r] = "done" /\ reader[t][r] # "done" => output'[t][r].unread = 0
  <1>4. ASSUME NEW q \in Streams, Emit(s, q) \/ Read(s, q)
        PROVE  Goal
    <2>1. reader' = reader /\ reader[s][q] = "reading"
      BY <1>4 DEF Emit, Read
    <2>2. \E c : output' = [output EXCEPT ![s][q] = c]
      <3>1. CASE Emit(s, q)
        BY <3>1 DEF Emit
      <3>2. CASE Read(s, q)
        <4>1. output' = [output EXCEPT ![s][q] = [output[s][q] EXCEPT !.unread = @ - 1]]
          BY <3>2 DEF Read
        <4>2. QED
          BY <4>1
      <3>3. QED
        BY <1>4, <3>1, <3>2
    <2>3. QED
      BY <2>1, <2>2 DEF TypeOK
  <1>5. ASSUME NEW q \in Streams, ReaderDone(s, q) \/ ReaderFails(s, q)
        PROVE  Goal
    <2>1. output' = output /\ reader[s][q] = "reading"
      BY <1>5 DEF ReaderDone, ReaderFails
    <2>2. CASE ReaderDone(s, q)
      <3>1. output[s][q].unread = 0 /\ reader' = [reader EXCEPT ![s][q] = "done"]
        BY <2>2 DEF ReaderDone
      <3>2. QED
        BY <2>1, <3>1 DEF TypeOK
    <2>3. CASE ReaderFails(s, q)
      <3>1. reader' = [reader EXCEPT ![s][q] = "failed"]
        BY <2>3 DEF ReaderFails
      <3>2. QED
        BY <2>1, <3>1 DEF TypeOK
    <2>4. QED
      BY <1>5, <2>2, <2>3
  <1>6. Goal
    <2>1. CASE Exit(s)
      BY <2>1 DEF Exit
    <2>2. QED
      BY <1>4, <1>5, <2>1 DEF ProcessStep
  <1>7. DoneMeansRead' /\ ExitIsLast'
    BY <1>1, <1>6 DEF Life
  <1>8. QED
    BY <1>2, <1>7 DEF Life

LEMMA LifeInit == Init => Life
  BY DEF Init, Life

LEMMA LifeNext == TypeOK /\ Life /\ [Next]_vars => Life'
  <1> SUFFICES ASSUME TypeOK, Life, [Next]_vars PROVE Life'
    OBVIOUS
  <1>1. ASSUME NEW w \in Writes, WriteStep(w)
        PROVE  Life'
    BY <1>1 DEF Life, WriteStep, BeginWrite, CloneSender, TrySend, registry, process
  <1>2. ASSUME NEW z \in Resizes, Resize(z)
        PROVE  Life'
    BY <1>2 DEF Life, Resize, registry, calls, process
  <1>3. CASE UNCHANGED vars
    BY <1>3 DEF Life, vars
  <1> HIDE DEF Begun, TasksAreOwned, EntriesTellTheTruth, DoneMeansRead, ExitIsLast
  <1>4. QED
    BY <1>1, <1>2, <1>3, LifeStart, LifeStop, LifeTask, LifeProcess DEF Next

IInv == Types /\ Life

LEMMA LifeAlways == Spec => []IInv
  <1>1. Init => IInv
    BY TypesInit, LifeInit DEF IInv
  <1>2. IInv /\ [Next]_vars => IInv'
    BY TypesNext, LifeNext DEF IInv, Types
  <1>3. QED
    BY <1>1, <1>2, PTL DEF Spec

\* The task of a session always has somebody who can stop it.
THEOREM TasksStayOwned == Spec => []TasksAreOwned
  <1>1. IInv => TasksAreOwned
    BY DEF IInv, Life
  <1>2. QED
    BY <1>1, LifeAlways, PTL

\* The list of sessions shows as ended exactly those whose task is over.
THEOREM TheListIsTrue == Spec => []EntriesTellTheTruth
  <1>1. IInv => EntriesTellTheTruth
    BY DEF IInv, Life
  <1>2. QED
    BY <1>1, LifeAlways, PTL

\* The frontend has all the output when it is told of the exit.
THEOREM OutputComesFirst == Spec => []ExitIsLast
  <1>1. IInv => ExitIsLast
    BY DEF IInv, Life
  <1>2. QED
    BY <1>1, LifeAlways, PTL

-----------------------------------------------------------------------------
(* Input and answers.                                                      *)

HIDE DEF Begun, TasksAreOwned, EntriesTellTheTruth, DoneMeansRead, ExitIsLast

Waits(w, s) == answer[w] = "queued" /\ Target[w] = s

\* The writes a task or its queue carries wait for their answer, and are
\* carried once.
Carried ==
    \A s \in Sessions :
        /\ writing[s] # None => Waits(writing[s], s)
        /\ \A i \in DOMAIN queue[s] : queue[s][i] \in Writes =>
              Waits(queue[s][i], s) /\ queue[s][i] # writing[s]

\* An empty write never gets so far.
WaitingHaveBytes ==
    \A w \in Writes : answer[w] \in {"permitted", "sending", "queued"} => Size[w] > 0

AcceptedOnce ==
    \A s \in Sessions :
        /\ Distinct(accepted[s])
        /\ \A p \in DOMAIN accepted[s] :
              /\ answer[accepted[s][p]] \notin {"none", "permitted", "sending"}
              /\ Target[accepted[s][p]] = s

WrittenInOrder == \A s \in Sessions : Initial(stdin[s], accepted[s])

QueuedInOrder ==
    \A s \in Sessions : task[s] \notin {"draining", "over"} =>
        Follows(accepted[s], stdin[s], writing[s], queue[s])

InputInv ==
    /\ Carried /\ WaitingHaveBytes /\ AcceptedOnce
    /\ WrittenInOrder /\ QueuedInOrder /\ AnswersAreTrue

\* A step that leaves the input alone.
LEMMA InputKept ==
    ASSUME TypeOK, InputInv, UNCHANGED <<queue, writing, answer, accepted, stdin>>,
           \A s \in Sessions : task[s] \in {"draining", "over"} =>
                                  task'[s] \in {"draining", "over"}
    PROVE  InputInv'
  BY DEF InputInv, Carried, Waits, WaitingHaveBytes, AcceptedOnce, WrittenInOrder,
         QueuedInOrder, AnswersAreTrue

\* A step that leaves alone what was accepted and written, and gives up some
\* of the writes that wait.
LEMMA AnswersGivenUp ==
    ASSUME TypeOK, InputInv, UNCHANGED <<accepted, stdin>>,
           \A w \in Writes :
               \/ answer'[w] = answer[w]
               \/ answer[w] = "queued" /\ answer'[w] \in {"lost", "failed"}
    PROVE  WaitingHaveBytes' /\ AcceptedOnce' /\ WrittenInOrder' /\ AnswersAreTrue'
  <1>1. WaitingHaveBytes' /\ AnswersAreTrue'
    BY DEF InputInv, WaitingHaveBytes, AnswersAreTrue
  <1>2. AcceptedOnce'
    <2>1. \A s \in Sessions : \A p \in DOMAIN accepted[s] : accepted[s][p] \in Writes
      BY DEF TypeOK
    <2>2. QED
      BY <2>1 DEF InputInv, AcceptedOnce
  <1>3. QED
    BY <1>1, <1>2 DEF InputInv, WrittenInOrder

\* A task that ends drops its commands.
LEMMA InputDropped ==
    ASSUME TypeOK, InputInv, NEW s \in Sessions, DropCommands(s),
           task' = [task EXCEPT ![s] = "over"],
           \A w \in Writes :
               \/ answer'[w] = answer[w]
               \/ Waits(w, s) /\ answer'[w] \in {"lost", "failed"}
    PROVE  InputInv'
  <1>1. /\ queue'[s] = <<>> /\ writing'[s] = None
        /\ \A t \in Sessions \ {s} :
              queue'[t] = queue[t] /\ writing'[t] = writing[t] /\ task'[t] = task[t]
        /\ task'[s] = "over"
        /\ UNCHANGED <<accepted, stdin>>
    BY DEF TypeOK, DropCommands
  <1>2. WaitingHaveBytes' /\ AcceptedOnce' /\ WrittenInOrder' /\ AnswersAreTrue'
    BY <1>1, AnswersGivenUp DEF Waits
  <1>3. Carried'
    <2>1. ASSUME NEW t \in Sessions \ {s}, NEW w \in Writes, Waits(w, t)
          PROVE  Waits(w, t)'
      BY <2>1 DEF Waits
    <2>2. \A t \in Sessions : writing[t] # None => writing[t] \in Writes
      BY DEF TypeOK
    <2>3. QED
      BY <1>1, <2>1, <2>2 DEF InputInv, Carried
  <1>4. QueuedInOrder'
    BY <1>1 DEF InputInv, QueuedInOrder
  <1>5. QED
    BY <1>2, <1>3, <1>4 DEF InputInv

LEMMA InputTask ==
    ASSUME TypeOK, InputInv, NEW s \in Sessions, TaskStep(s)
    PROVE  InputInv'
  <1>1. CASE \/ ConnectFails(s) \/ ResizeFails(s) \/ InputClosed(s) \/ NoStatus(s)
             \/ ReaderError(s) \/ Drained(s) \/ AbortTakesEffect(s)
    <2>1. DropCommands(s) /\ task' = [task EXCEPT ![s] = "over"] /\ answer' = Lost(s)
      BY <1>1 DEF ConnectFails, ResizeFails, InputClosed, NoStatus, ReaderError, Drained,
                  AbortTakesEffect, End
    <2>2. \A w \in Writes : \/ answer'[w] = answer[w]
                            \/ Waits(w, s) /\ answer'[w] \in {"lost", "failed"}
      BY <2>1 DEF Lost, Waits
    <2>3. QED
      BY <2>1, <2>2, InputDropped
  <1>2. CASE FailWrite(s)
    <2>1. /\ DropCommands(s) /\ task' = [task EXCEPT ![s] = "over"]
          /\ answer' = [Lost(s) EXCEPT ![writing[s]] = "failed"]
          /\ Waits(writing[s], s)
      BY <1>2 DEF FailWrite, End, InputInv, Carried
    <2>2. \A w \in Writes : \/ answer'[w] = answer[w]
                            \/ Waits(w, s) /\ answer'[w] \in {"lost", "failed"}
      BY <2>1 DEF Lost, Waits
    <2>3. QED
      BY <2>1, <2>2, InputDropped
  <1>3. CASE Attach(s) \/ SendSize(s)
    BY <1>3, InputKept DEF TypeOK, Attach, SendSize, calls, input
  <1>4. CASE TakeWrite(s)
    <2> DEFINE w == Head(queue[s])
    <2>1. /\ task[s] = "running" /\ writing[s] = None /\ queue[s] # <<>> /\ w \in Writes
          /\ UNCHANGED <<task, answer, accepted, stdin>>
          /\ writing'[s] = w /\ queue'[s] = Tail(queue[s])
          /\ \A t \in Sessions \ {s} : queue'[t] = queue[t] /\ writing'[t] = writing[t]
      BY <1>4 DEF TypeOK, TakeWrite, ReadyToTake, calls
    <2>2. /\ queue[s] \in Seq(Writes \cup Resizes)
          /\ accepted[s] \in Seq(Writes) /\ stdin[s] \in Seq(Writes)
      BY DEF TypeOK
    <2>3. Distinct(accepted[s]) /\ Follows(accepted[s], stdin[s], None, queue[s])
      BY <2>1 DEF InputInv, AcceptedOnce, QueuedInOrder
    <2>4. Follows(accepted[s], stdin[s], w, Tail(queue[s]))
      BY <2>1, <2>2, <2>3, TakeFollows
    <2>5. QueuedInOrder'
      BY <2>1, <2>4 DEF InputInv, QueuedInOrder
    <2>6. \A i \in DOMAIN Tail(queue[s]) :
             i + 1 \in DOMAIN queue[s] /\ Tail(queue[s])[i] = queue[s][i + 1]
      BY <2>1, <2>2
    <2>7. w = queue[s][1] /\ 1 \in DOMAIN queue[s]
      BY <2>1, <2>2
    <2>8. ASSUME NEW i \in DOMAIN Tail(queue[s])
          PROVE  Tail(queue[s])[i] # w
      <3>1. SUFFICES ASSUME Tail(queue[s])[i] = w PROVE FALSE
        OBVIOUS
      <3>2. PICK p \in DOMAIN accepted[s] : w = accepted[s][p]
        BY <2>1, <2>3, <2>7 DEF Follows
      <3>3. i + 1 \in DOMAIN queue[s] /\ queue[s][i + 1] = w /\ 1 < i + 1 /\ p \in Nat
        <4>1. i + 1 \in DOMAIN queue[s] /\ queue[s][i + 1] = w
          BY <2>6, <3>1
        <4>2. i \in 1..Len(Tail(queue[s])) /\ Len(Tail(queue[s])) \in Nat
          BY <2>1, <2>2
        <4>3. p \in 1..Len(accepted[s]) /\ Len(accepted[s]) \in Nat
          BY SMTT(30), <2>2, <3>2
        <4>4. QED
          BY <4>1, <4>2, <4>3
      <3>4. p < p
        BY <2>3, <2>7, <3>2, <3>3 DEF Follows
      <3>5. QED
        BY <3>3, <3>4
    <2>9. Carried'
      <3>1. \A t \in Sessions, v \in Writes : Waits(v, t)' <=> Waits(v, t)
        BY <2>1 DEF Waits
      <3>2. Waits(w, s)
        BY <2>1, <2>7 DEF InputInv, Carried
      <3>3. ASSUME NEW t \in Sessions, writing'[t] # None
            PROVE  writing'[t] \in Writes /\ Waits(writing'[t], t)
        <4>1. CASE t = s
          BY <2>1, <3>2, <4>1
        <4>2. CASE t # s
          BY <2>1, <3>3, <4>2 DEF InputInv, Carried, TypeOK
        <4>3. QED
          BY <4>1, <4>2
      <3>4. ASSUME NEW t \in Sessions, NEW i \in DOMAIN queue'[t], queue'[t][i] \in Writes
            PROVE  Waits(queue'[t][i], t) /\ queue'[t][i] # writing'[t]
        <4>1. CASE t = s
          <5>1. i + 1 \in DOMAIN queue[s] /\ queue'[s][i] = queue[s][i + 1]
            BY <2>1, <2>6, <4>1
          <5>2. queue'[s][i] # w
            BY <2>1, <2>8, <4>1
          <5>3. QED
            BY <2>1, <3>4, <4>1, <5>1, <5>2 DEF InputInv, Carried
        <4>2. CASE t # s
          BY <2>1, <3>4, <4>2 DEF InputInv, Carried
        <4>3. QED
          BY <4>1, <4>2
      <3>5. QED
        BY <3>1, <3>3, <3>4 DEF Carried
    <2>10. WaitingHaveBytes' /\ AcceptedOnce' /\ WrittenInOrder' /\ AnswersAreTrue'
      BY <2>1, AnswersGivenUp
    <2>11. QED
      BY <2>5, <2>9, <2>10 DEF InputInv
  <1>5. CASE TakeResize(s)
    <2>1. /\ task[s] = "running" /\ writing[s] = None /\ queue[s] # <<>>
          /\ Head(queue[s]) \in Resizes
          /\ UNCHANGED <<task, answer, accepted, stdin, writing>>
          /\ queue'[s] = Tail(queue[s])
          /\ \A t \in Sessions \ {s} : queue'[t] = queue[t]
      BY <1>5 DEF TypeOK, TakeResize, ReadyToTake, calls
    <2>2. /\ queue[s] \in Seq(Writes \cup Resizes)
          /\ accepted[s] \in Seq(Writes) /\ stdin[s] \in Seq(Writes)
      BY DEF TypeOK
    <2>3. Follows(accepted[s], stdin[s], None, queue[s])
      BY <2>1 DEF InputInv, QueuedInOrder
    <2>4. Follows(accepted[s], stdin[s], None, Tail(queue[s]))
      BY <2>1, <2>2, <2>3, SkipFollows
    <2>5. QueuedInOrder'
      BY <2>1, <2>4 DEF InputInv, QueuedInOrder
    <2>6. \A i \in DOMAIN Tail(queue[s]) :
             i + 1 \in DOMAIN queue[s] /\ Tail(queue[s])[i] = queue[s][i + 1]
      BY <2>1, <2>2
    <2>7. Carried'
      <3>1. \A t \in Sessions, v \in Writes : Waits(v, t)' <=> Waits(v, t)
        BY <2>1 DEF Waits
      <3>2. ASSUME NEW t \in Sessions, writing[t] # None
            PROVE  writing[t] \in Writes /\ Waits(writing[t], t)
        BY <3>2 DEF InputInv, Carried, TypeOK
      <3>3. ASSUME NEW t \in Sessions, NEW i \in DOMAIN queue'[t], queue'[t][i] \in Writes
            PROVE  Waits(queue'[t][i], t) /\ queue'[t][i] # writing[t]
        <4>1. CASE t = s
          <5>1. i + 1 \in DOMAIN queue[s] /\ queue'[s][i] = queue[s][i + 1]
            BY <2>1, <2>6, <4>1
          <5>2. QED
            BY <3>3, <4>1, <5>1 DEF InputInv, Carried
        <4>2. CASE t # s
          BY <2>1, <3>3, <4>2 DEF InputInv, Carried
        <4>3. QED
          BY <4>1, <4>2
      <3>4. QED
        BY <2>1, <3>1, <3>2, <3>3 DEF Carried
    <2>8. WaitingHaveBytes' /\ AcceptedOnce' /\ WrittenInOrder' /\ AnswersAreTrue'
      BY <2>1, AnswersGivenUp
    <2>9. QED
      BY <2>5, <2>7, <2>8 DEF InputInv
  <1>6. CASE FinishWrite(s)
    <2> DEFINE w == writing[s]
    <2>1. /\ task[s] = "running" /\ w \in Writes /\ Waits(w, s)
          /\ UNCHANGED <<task, queue, accepted>>
          /\ stdin'[s] = Append(stdin[s], w) /\ writing'[s] = None
          /\ \A t \in Sessions \ {s} : stdin'[t] = stdin[t] /\ writing'[t] = writing[t]
          /\ answer'[w] = "ok"
          /\ \A v \in Writes \ {w} : answer'[v] = answer[v]
      BY <1>6 DEF TypeOK, FinishWrite, InputInv, Carried
    <2>2. /\ queue[s] \in Seq(Writes \cup Resizes)
          /\ accepted[s] \in Seq(Writes) /\ stdin[s] \in Seq(Writes)
      BY DEF TypeOK
    <2>3. Initial(stdin[s], accepted[s]) /\ Follows(accepted[s], stdin[s], w, queue[s])
      BY <2>1 DEF InputInv, WrittenInOrder, QueuedInOrder
    <2>4. /\ Initial(Append(stdin[s], w), accepted[s])
          /\ Follows(accepted[s], Append(stdin[s], w), None, queue[s])
      BY <2>1, <2>2, <2>3, FinishFollows
    <2>5. WrittenInOrder' /\ QueuedInOrder'
      BY <2>1, <2>4 DEF InputInv, WrittenInOrder, QueuedInOrder
    <2>6. Carried'
      <3>1. ASSUME NEW t \in Sessions, NEW v \in Writes, v # w, Waits(v, t)
            PROVE  Waits(v, t)'
        BY <2>1, <3>1 DEF Waits
      <3>2. ASSUME NEW t \in Sessions, t # s, writing'[t] # None
            PROVE  Waits(writing[t], t) /\ writing[t] # w /\ writing[t] \in Writes
        BY <2>1, <3>2 DEF InputInv, Carried, Waits, TypeOK
      <3>3. ASSUME NEW t \in Sessions, NEW i \in DOMAIN queue[t], queue[t][i] \in Writes
            PROVE  Waits(queue[t][i], t) /\ queue[t][i] # w /\ queue[t][i] # writing'[t]
        <4>1. Waits(queue[t][i], t) /\ queue[t][i] # writing[t]
          BY <3>3 DEF InputInv, Carried
        <4>2. queue[t][i] # w
          BY <2>1, <4>1 DEF Waits
        <4>3. queue[t][i] # None
          BY <3>3
        <4>4. QED
          BY <2>1, <4>1, <4>2, <4>3
      <3>4. QED
        BY <2>1, <3>1, <3>2, <3>3 DEF Carried
    <2>7. WaitingHaveBytes'
      BY <2>1 DEF InputInv, WaitingHaveBytes
    <2>8. AcceptedOnce'
      <3>1. \A t \in Sessions : \A p \in DOMAIN accepted[t] : accepted[t][p] \in Writes
        BY DEF TypeOK
      <3>2. ASSUME NEW v \in Writes, answer[v] \notin {"none", "permitted", "sending"}
            PROVE  answer'[v] \notin {"none", "permitted", "sending"}
        BY <2>1, <3>2
      <3>3. QED
        BY <2>1, <3>1, <3>2 DEF InputInv, AcceptedOnce
    <2>9. AnswersAreTrue'
      <3>1. ToSet(stdin'[s]) = ToSet(stdin[s]) \cup {w}
        BY <2>1, <2>2, ToSetOfAppend
      <3>2. \A v \in Writes : v # w =>
               (v \in ToSet(stdin'[Target[v]]) <=> v \in ToSet(stdin[Target[v]]))
        BY <2>1, <3>1
      <3>3. QED
        BY <2>1, <3>1, <3>2 DEF InputInv, AnswersAreTrue, Waits
    <2>10. QED
      BY <2>5, <2>6, <2>7, <2>8, <2>9 DEF InputInv
  <1>7. CASE StatusArrives(s)
    <2>1. /\ UNCHANGED <<queue, accepted, stdin>>
          /\ writing'[s] = None /\ task'[s] = "draining"
          /\ \A t \in Sessions \ {s} : writing'[t] = writing[t] /\ task'[t] = task[t]
          /\ \A w \in Writes : answer'[w] = IF w = writing[s] THEN "lost" ELSE answer[w]
      BY <1>7 DEF TypeOK, StatusArrives, StatusReady
    <2>2. writing[s] # None => Waits(writing[s], s)
      BY DEF InputInv, Carried
    <2>3. WaitingHaveBytes' /\ AcceptedOnce' /\ WrittenInOrder' /\ AnswersAreTrue'
      <3>1. \A w \in Writes : \/ answer'[w] = answer[w]
                              \/ answer[w] = "queued" /\ answer'[w] \in {"lost", "failed"}
        BY <2>1, <2>2 DEF Waits
      <3>2. QED
        BY <2>1, <3>1, AnswersGivenUp
    <2>4. QueuedInOrder'
      BY <2>1 DEF InputInv, QueuedInOrder
    <2>5. Carried'
      <3>1. ASSUME NEW t \in Sessions, NEW v \in Writes, v # writing[s], Waits(v, t)
            PROVE  Waits(v, t)'
        BY <2>1, <3>1 DEF Waits
      <3>2. ASSUME NEW t \in Sessions, t # s, writing[t] # None
            PROVE  Waits(writing[t], t) /\ writing[t] # writing[s] /\ writing[t] \in Writes
        BY <2>2, <3>2 DEF InputInv, Carried, Waits, TypeOK
      <3>3. ASSUME NEW t \in Sessions, NEW i \in DOMAIN queue[t], queue[t][i] \in Writes
            PROVE  Waits(queue[t][i], t) /\ queue[t][i] # writing[s] /\ queue[t][i] # writing'[t]
        <4>1. Waits(queue[t][i], t) /\ queue[t][i] # writing[t]
          BY <3>3 DEF InputInv, Carried
        <4>2. queue[t][i] # writing[s] /\ queue[t][i] # None
          BY <2>2, <3>3, <4>1 DEF Waits
        <4>3. QED
          BY <2>1, <4>1, <4>2
      <3>4. QED
        BY <2>1, <3>1, <3>2, <3>3 DEF Carried
    <2>6. QED
      BY <2>3, <2>4, <2>5 DEF InputInv
  <1>8. QED
    BY <1>1, <1>2, <1>3, <1>4, <1>5, <1>6, <1>7 DEF TaskStep

\* BeginWrite and CloneSender move one answer that nothing else speaks of.
LEMMA InputBegins ==
    ASSUME TypeOK, InputInv, NEW w \in Writes, BeginWrite(w) \/ CloneSender(w)
    PROVE  InputInv'
  <1>1. /\ UNCHANGED <<task, queue, writing, accepted, stdin>>
        /\ answer[w] \in {"none", "permitted"}
        /\ answer'[w] \in {"refused", "permitted", "sending", "ok"}
        /\ Size[w] = 0 => answer'[w] \in {"refused", "ok"} \/ answer[w] = "permitted"
        /\ Size[w] > 0 => answer'[w] # "ok"
        /\ \A v \in Writes \ {w} : answer'[v] = answer[v]
    <2>1. Size[w] \in Nat
      OBVIOUS
    <2>2. CASE BeginWrite(w)
      BY <2>1, <2>2 DEF TypeOK, BeginWrite, Answer, input
    <2>3. CASE CloneSender(w)
      BY <2>3 DEF TypeOK, CloneSender, Answer, input
    <2>4. QED
      BY <2>2, <2>3
  <1>2. Size[w] \in Nat /\ (answer[w] = "permitted" => Size[w] > 0)
    BY DEF InputInv, WaitingHaveBytes
  <1>3. ASSUME NEW v \in Writes, NEW t \in Sessions, Waits(v, t)
        PROVE  Waits(v, t)'
    BY <1>1, <1>3 DEF Waits
  <1>4. Carried'
    <2>1. \A t \in Sessions : writing[t] # None => writing[t] \in Writes
      BY DEF TypeOK
    <2>2. QED
      BY <1>1, <1>3, <2>1 DEF InputInv, Carried
  <1>5. WaitingHaveBytes'
    <2>1. Size[w] = 0 \/ Size[w] > 0
      BY <1>2
    <2>2. QED
      BY <1>1, <1>2, <2>1 DEF InputInv, WaitingHaveBytes
  <1>6. AcceptedOnce'
    <2>1. \A t \in Sessions : \A p \in DOMAIN accepted[t] :
             accepted[t][p] \in Writes /\ accepted[t][p] # w
      BY <1>1 DEF TypeOK, InputInv, AcceptedOnce
    <2>2. QED
      BY <1>1, <2>1 DEF InputInv, AcceptedOnce
  <1>7. WrittenInOrder' /\ QueuedInOrder'
    BY <1>1 DEF InputInv, WrittenInOrder, QueuedInOrder
  <1>8. AnswersAreTrue'
    BY <1>1 DEF InputInv, AnswersAreTrue
  <1>9. QED
    BY <1>4, <1>5, <1>6, <1>7, <1>8 DEF InputInv

\* What is put in a queue comes after all that was accepted before it.
LEMMA InputPut ==
    ASSUME TypeOK, InputInv, NEW w \in Writes, TrySend(w)
    PROVE  InputInv'
  <1> DEFINE s == Target[w]
             Waiting(v, t) == answer'[v] = "queued" /\ Target[v] = t
  <1>0. s \in Sessions
    OBVIOUS
  <1>10. Target[w] = s
    OBVIOUS
  <1>1. /\ answer[w] = "sending" /\ UNCHANGED <<task, writing, stdin>>
        /\ answer'[w] \in {"queued", "refused"}
        /\ \A v \in Writes \ {w} : answer'[v] = answer[v]
    BY DEF TypeOK, TrySend, Answer, Enqueue, input
  <1>2. ASSUME NEW v \in Writes, NEW t \in Sessions, Waits(v, t)
        PROVE  Waiting(v, t) /\ v # w
    BY <1>1, <1>2 DEF Waits
  <1>3. \A t \in Sessions : writing[t] # None => writing[t] \in Writes
    BY DEF TypeOK
  <1>4. \A t \in Sessions : \A p \in DOMAIN accepted[t] :
           accepted[t][p] \in Writes /\ accepted[t][p] # w
    BY <1>1 DEF TypeOK, InputInv, AcceptedOnce
  <1>5. \A t \in Sessions : \A i \in DOMAIN queue[t] : queue[t][i] # w
    BY <1>0, <1>2 DEF InputInv, Carried
  <1>6. WaitingHaveBytes' /\ AnswersAreTrue'
    BY <1>1 DEF InputInv, WaitingHaveBytes, AnswersAreTrue
  <1>7. CASE ~Accepts(s)
    <2>1. UNCHANGED <<queue, accepted>>
      BY <1>7 DEF TrySend, input
    <2>2. Carried' /\ AcceptedOnce'
      BY <1>1, <1>2, <1>3, <1>4, <2>1 DEF InputInv, Carried, Waits, AcceptedOnce
    <2>3. QED
      BY <1>1, <1>6, <2>1, <2>2 DEF InputInv, WrittenInOrder, QueuedInOrder
  <1>8. CASE Accepts(s)
    <2>1. /\ queue'[s] = Append(queue[s], w) /\ accepted'[s] = Append(accepted[s], w)
          /\ \A t \in Sessions \ {s} :
                queue'[t] = queue[t] /\ accepted'[t] = accepted[t]
          /\ answer'[w] = "queued"
      BY <1>0, <1>8 DEF TypeOK, TrySend, Enqueue, Answer
    <2> HIDE DEF s, Waiting
    <2>2. /\ queue[s] \in Seq(Writes \cup Resizes)
          /\ accepted[s] \in Seq(Writes) /\ stdin[s] \in Seq(Writes)
      BY <1>0 DEF TypeOK
    <2>3. /\ DOMAIN queue'[s] = 1..(Len(queue[s]) + 1)
          /\ DOMAIN queue[s] = 1..Len(queue[s]) /\ Len(queue[s]) \in Nat
          /\ queue'[s][Len(queue[s]) + 1] = w
          /\ \A i \in DOMAIN queue[s] : queue'[s][i] = queue[s][i]
          /\ DOMAIN accepted'[s] = 1..(Len(accepted[s]) + 1)
          /\ DOMAIN accepted[s] = 1..Len(accepted[s]) /\ Len(accepted[s]) \in Nat
          /\ accepted'[s][Len(accepted[s]) + 1] = w
          /\ \A p \in DOMAIN accepted[s] : accepted'[s][p] = accepted[s][p]
      <3>1. w \in Writes \cup Resizes
        OBVIOUS
      <3>2. /\ DOMAIN Append(queue[s], w) = 1..(Len(queue[s]) + 1)
            /\ DOMAIN queue[s] = 1..Len(queue[s]) /\ Len(queue[s]) \in Nat
            /\ Append(queue[s], w)[Len(queue[s]) + 1] = w
            /\ \A i \in DOMAIN queue[s] : Append(queue[s], w)[i] = queue[s][i]
        BY <2>2, <3>1, AppendFacts
      <3>3. /\ DOMAIN Append(accepted[s], w) = 1..(Len(accepted[s]) + 1)
            /\ DOMAIN accepted[s] = 1..Len(accepted[s]) /\ Len(accepted[s]) \in Nat
            /\ Append(accepted[s], w)[Len(accepted[s]) + 1] = w
            /\ \A p \in DOMAIN accepted[s] : Append(accepted[s], w)[p] = accepted[s][p]
        BY SMTT(30), <2>2, AppendFacts
      <3>4. QED
        BY <2>1, <3>2, <3>3
    <2>4. Carried'
      <3>1. Waiting(w, s)
        BY <1>10, <2>1 DEF Waiting
      <3>2. ASSUME NEW t \in Sessions, writing[t] # None
            PROVE  Waiting(writing[t], t) /\ writing[t] # w
        BY <1>2, <1>3, <3>2 DEF InputInv, Carried
      <3>3. ASSUME NEW t \in Sessions, NEW i \in DOMAIN queue[t], queue[t][i] \in Writes
            PROVE  Waiting(queue[t][i], t) /\ queue[t][i] # writing[t]
        BY <1>2, <3>3 DEF InputInv, Carried
      <3>4. w # None
        OBVIOUS
      <3>5. ASSUME NEW t \in Sessions, NEW i \in DOMAIN queue'[t], queue'[t][i] \in Writes
            PROVE  Waiting(queue'[t][i], t) /\ queue'[t][i] # writing[t]
        <4>1. CASE t = s /\ i = Len(queue[s]) + 1
          BY <2>3, <3>1, <3>2, <3>4, <4>1
        <4>2. CASE i \in DOMAIN queue[t] /\ queue'[t][i] = queue[t][i]
          BY <3>3, <3>5, <4>2
        <4>3. t # s => i \in DOMAIN queue[t] /\ queue'[t][i] = queue[t][i]
          BY <2>1
        <4>4. t = s => (i = Len(queue[s]) + 1 \/ (i \in DOMAIN queue[t] /\ queue'[t][i] = queue[t][i]))
          <5>1. SUFFICES ASSUME t = s, i # Len(queue[s]) + 1
                         PROVE  i \in DOMAIN queue[t] /\ queue'[t][i] = queue[t][i]
            OBVIOUS
          <5>2. i \in DOMAIN queue[s]
            <6>1. i \in DOMAIN queue'[s]
              BY <5>1
            <6>2. i \in 1..(Len(queue[s]) + 1)
              BY <2>3, <6>1
            <6>3. i \in 1..Len(queue[s])
              BY <2>3, <5>1, <6>2
            <6>4. QED
              BY <2>3, <6>3
          <5>3. QED
            BY <2>3, <5>1, <5>2
        <4>5. QED
          BY <4>1, <4>2, <4>3, <4>4
      <3>6. QED
        BY <1>1, <3>2, <3>5 DEF Carried, Waits, Waiting
    <2>5. AcceptedOnce'
      <3>1. ASSUME NEW t \in Sessions, t # s
            PROVE  /\ Distinct(accepted'[t])
                   /\ \A p \in DOMAIN accepted'[t] :
                         /\ answer'[accepted'[t][p]] \notin {"none", "permitted", "sending"}
                         /\ Target[accepted'[t][p]] = t
        <4>1. accepted'[t] = accepted[t]
          BY <2>1, <3>1
        <4>2. \A p \in DOMAIN accepted[t] : answer'[accepted[t][p]] = answer[accepted[t][p]]
          BY <1>1, <1>4
        <4>3. QED
          BY <4>1, <4>2 DEF InputInv, AcceptedOnce
      <3>2. Distinct(accepted[s])
        BY <1>0 DEF InputInv, AcceptedOnce
      <3>3. Distinct(accepted'[s])
        <4>1. ASSUME NEW p \in DOMAIN accepted'[s], NEW n \in DOMAIN accepted'[s],
                     accepted'[s][p] = accepted'[s][n]
              PROVE  p = n
          <5>1. \A q \in DOMAIN accepted'[s] :
                   q = Len(accepted[s]) + 1 \/ q \in DOMAIN accepted[s]
            BY <2>3
          <5>2. \A q \in DOMAIN accepted[s] : accepted'[s][q] # w
            BY <1>0, <1>4, <2>3
          <5>3. QED
            BY <2>3, <3>2, <4>1, <5>1, <5>2 DEF Distinct
        <4>2. QED
          BY <4>1 DEF Distinct
      <3>4. ASSUME NEW p \in DOMAIN accepted'[s]
            PROVE  /\ answer'[accepted'[s][p]] \notin {"none", "permitted", "sending"}
                   /\ Target[accepted'[s][p]] = s
        <4>1. CASE p = Len(accepted[s]) + 1
          BY <1>10, <2>1, <2>3, <4>1
        <4>2. CASE p \in DOMAIN accepted[s]
          <5>1. accepted'[s][p] = accepted[s][p] /\ accepted[s][p] \in Writes \ {w}
            BY <1>0, <1>4, <2>3, <4>2
          <5>2. QED
            BY <1>0, <1>1, <4>2, <5>1 DEF InputInv, AcceptedOnce
        <4>3. QED
          BY <2>3, <4>1, <4>2
      <3>5. QED
        BY <3>1, <3>3, <3>4 DEF AcceptedOnce
    <2>6. WrittenInOrder'
      <3>1. Initial(stdin[s], accepted[s])
        BY <1>0 DEF InputInv, WrittenInOrder
      <3>2. Initial(stdin[s], accepted'[s])
        BY <2>1, <2>2, <3>1, InitialGrows
      <3>3. QED
        BY <1>1, <2>1, <3>2 DEF InputInv, WrittenInOrder
    <2>7. QueuedInOrder'
      <3>1. ASSUME task[s] \notin {"draining", "over"}
            PROVE  Follows(accepted'[s], stdin[s], writing[s], queue'[s])
        <4>1. /\ Initial(stdin[s], accepted[s])
              /\ Follows(accepted[s], stdin[s], writing[s], queue[s])
          BY <1>0, <3>1 DEF InputInv, WrittenInOrder, QueuedInOrder
        <4>2. /\ \A p \in DOMAIN accepted[s] : accepted[s][p] # w
              /\ \A i \in DOMAIN queue[s] : queue[s][i] # w
          BY <1>0, <1>4, <1>5
        <4>3. Follows(Append(accepted[s], w), stdin[s], writing[s], Append(queue[s], w))
          BY <2>2, <4>1, <4>2, PutFollows
        <4>4. QED
          BY <2>1, <4>3
      <3>2. QED
        BY <1>1, <2>1, <3>1 DEF InputInv, QueuedInOrder
    <2>8. QED
      BY <1>6, <2>4, <2>5, <2>6, <2>7 DEF InputInv
  <1>9. QED
    BY <1>7, <1>8

LEMMA InputResize ==
    ASSUME TypeOK, InputInv, NEW z \in Resizes, Resize(z)
    PROVE  InputInv'
  <1> DEFINE s == Target[z]
  <1>1. /\ s \in Sessions
        /\ UNCHANGED <<task, writing, answer, accepted, stdin>>
        /\ queue'[s] = Append(queue[s], z)
        /\ \A t \in Sessions \ {s} : queue'[t] = queue[t]
    BY DEF TypeOK, Resize, Enqueue, calls
  <1>2. /\ queue[s] \in Seq(Writes \cup Resizes)
        /\ accepted[s] \in Seq(Writes) /\ stdin[s] \in Seq(Writes)
    BY <1>1 DEF TypeOK
  <1>3. \A i \in DOMAIN queue'[s] :
           (i \in DOMAIN queue[s] /\ queue'[s][i] = queue[s][i]) \/ queue'[s][i] = z
    BY <1>1, <1>2
  <1>4. z \notin Writes
    OBVIOUS
  <1>5. \A t \in Sessions, v \in Writes : Waits(v, t)' <=> Waits(v, t)
    BY <1>1 DEF Waits
  <1>6. Carried'
    <2>1. \A t \in Sessions : writing[t] # None => writing[t] \in Writes /\ Waits(writing[t], t)
      BY DEF TypeOK, InputInv, Carried
    <2>2. ASSUME NEW t \in Sessions, NEW i \in DOMAIN queue'[t], queue'[t][i] \in Writes
          PROVE  i \in DOMAIN queue[t] /\ queue'[t][i] = queue[t][i]
      BY <1>1, <1>3, <1>4, <2>2
    <2>3. QED
      BY <1>1, <1>5, <2>1, <2>2 DEF InputInv, Carried
  <1>7. QueuedInOrder'
    <2>1. ASSUME task[s] \notin {"draining", "over"}
          PROVE  Follows(accepted[s], stdin[s], writing[s], queue'[s])
      <3>1. Follows(accepted[s], stdin[s], writing[s], queue[s])
        BY <1>1, <2>1 DEF InputInv, QueuedInOrder
      <3>2. Follows(accepted[s], stdin[s], writing[s], Append(queue[s], z))
        BY <1>2, <3>1, ResizeFollows
      <3>3. QED
        BY <1>1, <3>2
    <2>2. QED
      BY <1>1, <2>1 DEF InputInv, QueuedInOrder
  <1>8. WaitingHaveBytes' /\ AcceptedOnce' /\ WrittenInOrder' /\ AnswersAreTrue'
    BY <1>1, AnswersGivenUp
  <1>9. QED
    BY <1>6, <1>7, <1>8 DEF InputInv

\* Starting, stopping and the process leave the input alone.
LEMMA InputElsewhere ==
    ASSUME TypeOK, Begun, InputInv,
           \/ \E s \in Sessions : Insert(s) \/ Spawn(s) \/ SetHandle(s) \/ ProcessStep(s)
           \/ \E gone \in SUBSET Sessions : StopSessions(gone)
    PROVE  InputInv'
  <1>1. CASE \E s \in Sessions : Spawn(s)
    <2>1. PICK s \in Sessions : Spawn(s)
      BY <1>1
    <2>2. task[s] = "none"
      BY <2>1 DEF Begun, Spawn
    <2>3. QED
      BY <2>1, <2>2, InputKept DEF TypeOK, Spawn, input
  <1>2. CASE \E s \in Sessions : Insert(s) \/ SetHandle(s) \/ ProcessStep(s)
    BY <1>2, InputKept
       DEF Insert, SetHandle, ProcessStep, Exit, Emit, Read, ReaderDone, ReaderFails,
           calls, input
  <1>3. CASE \E gone \in SUBSET Sessions : StopSessions(gone)
    BY <1>3, InputKept DEF StopSessions, calls, input
  <1>4. QED
    BY <1>1, <1>2, <1>3

LEMMA InputInit == Init => InputInv
  <1> SUFFICES ASSUME Init PROVE InputInv
    OBVIOUS
  <1>1. \A s \in Sessions :
           /\ queue[s] = <<>> /\ accepted[s] = <<>> /\ stdin[s] = <<>> /\ writing[s] = None
    BY DEF Init
  <1>2. \A w \in Writes : answer[w] = "none"
    BY DEF Init
  <1>3. Carried /\ WaitingHaveBytes /\ AcceptedOnce
    BY <1>1, <1>2 DEF Carried, WaitingHaveBytes, AcceptedOnce, Distinct
  <1>4. WrittenInOrder
    BY <1>1 DEF WrittenInOrder, Initial
  <1>5. QueuedInOrder
    BY <1>1 DEF QueuedInOrder, Follows
  <1>6. AnswersAreTrue
    BY <1>1, <1>2 DEF AnswersAreTrue, ToSet
  <1>7. QED
    BY <1>3, <1>4, <1>5, <1>6 DEF InputInv

LEMMA InputNext == IInv /\ InputInv /\ [Next]_vars => InputInv'
  <1> SUFFICES ASSUME IInv, InputInv, [Next]_vars PROVE InputInv'
    OBVIOUS
  <1>1. TypeOK /\ Begun
    BY DEF IInv, Types, Life
  <1>2. CASE UNCHANGED vars
    BY <1>1, <1>2, InputKept DEF vars
  <1>3. ASSUME NEW w \in Writes, WriteStep(w)
        PROVE  InputInv'
    BY <1>1, <1>3, InputBegins, InputPut DEF WriteStep
  <1> HIDE DEF InputInv
  <1>4. QED
    BY <1>1, <1>2, <1>3, InputTask, InputResize, InputElsewhere DEF Next

LEMMA InputAlways == Spec => []InputInv
  <1>1. IInv /\ InputInv /\ [Next]_vars => InputInv'
    BY InputNext
  <1>2. QED
    BY <1>1, InputInit, LifeAlways, PTL DEF Spec

\* A caller is told that its input was written exactly when it was.
THEOREM CallersAreToldTheTruth == Spec => []AnswersAreTrue
  <1>1. InputInv => AnswersAreTrue
    BY DEF InputInv
  <1>2. QED
    BY <1>1, InputAlways, PTL

\* The process reads an initial part of the accepted input.
THEOREM InputStaysWhole == Spec => []InputHasNoGaps
  <1>1. TypeOK /\ InputInv => InputHasNoGaps
    <2>1. SUFFICES ASSUME TypeOK, InputInv, NEW s \in Sessions
                   PROVE  IsPrefix(stdin[s], accepted[s])
      BY DEF InputHasNoGaps
    <2>2. /\ Initial(stdin[s], accepted[s])
          /\ stdin[s] \in Seq(Writes) /\ accepted[s] \in Seq(Writes)
      BY <2>1 DEF InputInv, WrittenInOrder, TypeOK
    <2>3. QED
      BY <2>2 DEF IsPrefix, Initial
  <1>2. QED
    BY <1>1, InputAlways, TypeCorrect, PTL

\* What a shell promises of its tasks, its list, its output and its input holds
\* for any number of shells, writers and bytes.
THEOREM ShellsStaySound == Spec => []ShellsAreSound
  BY TypeCorrect, TasksStayOwned, TheListIsTrue, OutputComesFirst, InputStaysWhole,
     CallersAreToldTheTruth, PTL DEF ShellsAreSound

-----------------------------------------------------------------------------
(* The budget of a session.                                                *)

\* The bytes of some writes, one by one.
BytesOf(ws) == UNION {{w} \X (1..Size[w]) : w \in ws}

\* There are finitely many, fewer of fewer writes, and each write brings its own.
LEMMA BytesAddUp ==
    ASSUME NEW ws \in SUBSET Writes
    PROVE  /\ IsFiniteSet(BytesOf(ws)) /\ Bytes(ws) \in Nat
           /\ \A vs \in SUBSET ws : Bytes(vs) <= Bytes(ws)
           /\ \A w \in Writes \ ws : Bytes(ws \cup {w}) = Bytes(ws) + Size[w]
  <1>1. ASSUME NEW w \in Writes
        PROVE  /\ IsFiniteSet({w} \X (1..Size[w]))
               /\ Cardinality({w} \X (1..Size[w])) = Size[w]
    <2>1. Size[w] \in Nat
      BY CallsAssumption
    <2>2. IsFiniteSet(1..Size[w]) /\ Cardinality(1..Size[w]) = Size[w]
      BY <2>1, FS_Interval
    <2>3. IsFiniteSet({w}) /\ Cardinality({w}) = 1
      BY FS_Singleton
    <2> DEFINE one == {w}
               bytes == 1..Size[w]
    <2> HIDE DEF one, bytes
    <2>4. IsFiniteSet(one \X bytes) /\ Cardinality(one \X bytes) = Cardinality(one) * Cardinality(bytes)
      BY <2>2, <2>3, FS_Product DEF one, bytes
    <2>5. QED
      BY <2>1, <2>2, <2>3, <2>4 DEF one, bytes
  <1>2. ASSUME NEW w \in Writes
        PROVE  BytesOf(ws \cup {w}) = BytesOf(ws) \cup ({w} \X (1..Size[w]))
    BY DEF BytesOf
  <1>3. ASSUME NEW vs \in SUBSET Writes PROVE IsFiniteSet(BytesOf(vs))
    <2> DEFINE each == {{w} \X (1..Size[w]) : w \in vs}
               bytes == [w \in vs |-> {w} \X (1..Size[w])]
    <2>1. IsFiniteSet(vs)
      BY CallsAssumption, FS_Subset
    <2>2. bytes \in Surjection(vs, each)
      BY DEF Surjection
    <2>3. \A b \in each : IsFiniteSet(b)
      BY <1>1
    <2> HIDE DEF each, bytes
    <2>4. IsFiniteSet(each)
      BY <2>1, <2>2, FS_Surjection
    <2>5. IsFiniteSet(UNION each)
      BY <2>3, <2>4, FS_UNION
    <2>6. QED
      BY <2>5 DEF BytesOf, each
  <1>4. \A vs : Bytes(vs) = Cardinality(BytesOf(vs))
    BY DEF Bytes, BytesOf
  <1>5. Bytes(ws) \in Nat
    BY <1>3, <1>4, FS_CardinalityType
  <1>6. ASSUME NEW vs \in SUBSET ws PROVE Bytes(vs) <= Bytes(ws)
    <2>1. BytesOf(vs) \in SUBSET BytesOf(ws)
      BY DEF BytesOf
    <2>2. QED
      BY <1>3, <1>4, <2>1, FS_Subset
  <1>7. ASSUME NEW w \in Writes \ ws PROVE Bytes(ws \cup {w}) = Bytes(ws) + Size[w]
    <2> DEFINE more == {w} \X (1..Size[w])
    <2>1. BytesOf(ws) \cap more = {}
      BY DEF BytesOf
    <2>2. Cardinality(BytesOf(ws) \cap more) = 0
      BY <2>1, FS_EmptySet
    <2>3. IsFiniteSet(more) /\ Cardinality(more) = Size[w] /\ Size[w] \in Nat
      BY <1>1, CallsAssumption
    <2> HIDE DEF more
    <2>4. Cardinality(BytesOf(ws) \cup more)
            = Cardinality(BytesOf(ws)) + Cardinality(more) - Cardinality(BytesOf(ws) \cap more)
      BY <1>3, <2>3, FS_Union
    <2>5. Bytes(ws \cup {w}) = Cardinality(BytesOf(ws) \cup more)
      BY <1>2, <1>4 DEF more
    <2>6. QED
      BY <1>4, <1>5, <2>2, <2>3, <2>4, <2>5
  <1>8. QED
    BY <1>3, <1>5, <1>6, <1>7

\* What is reserved for a session stays within its budget.
ReservedWithinBudget == \A s \in Sessions : Bytes(Held(s)) <= PendingBytes

\* Fewer writes hold no more.
LEMMA HeldShrinks ==
    ASSUME ReservedWithinBudget,
           \A w \in Writes : answer'[w] \in {"permitted", "sending", "queued"} =>
                             answer[w] \in {"permitted", "sending", "queued"}
    PROVE  ReservedWithinBudget'
  <1> SUFFICES ASSUME NEW s \in Sessions PROVE Bytes(Held(s)') <= PendingBytes
    BY DEF ReservedWithinBudget, Bytes
  <1>1. Held(s) \in SUBSET Writes /\ Held(s)' \in SUBSET Held(s)
    BY DEF Held
  <1>2. Bytes(Held(s)') <= Bytes(Held(s)) /\ Bytes(Held(s)) <= PendingBytes
    BY <1>1, BytesAddUp DEF ReservedWithinBudget
  <1>3. Bytes(Held(s)') \in Nat /\ Bytes(Held(s)) \in Nat /\ PendingBytes \in Nat
    BY <1>1, BytesAddUp, LimitsAssumption
  <1>4. QED
    BY <1>2, <1>3

\* Only a write that begins reserves bytes, and only as far as the budget goes.
LEMMA BeginReserves ==
    ASSUME TypeOK, ReservedWithinBudget, NEW w \in Writes, BeginWrite(w)
    PROVE  ReservedWithinBudget'
  <1> DEFINE t == Target[w]
  <1>1. /\ t \in Sessions /\ answer[w] = "none"
        /\ answer \in [Writes -> Answers]
    BY CallsAssumption DEF BeginWrite, TypeOK
  <1>2. CASE Answer(w, "refused") \/ Answer(w, "ok")
    <2>1. \A v \in Writes : answer'[v] \in {"permitted", "sending", "queued"} =>
                            answer[v] \in {"permitted", "sending", "queued"}
      BY <1>1, <1>2 DEF Answer
    <2>2. QED
      BY <2>1, HeldShrinks
  <1>3. CASE Answer(w, "permitted") /\ ~(Size[w] + Bytes(Held(t)) > PendingBytes)
    <2>1. ASSUME NEW s \in Sessions PROVE Bytes(Held(s)') <= PendingBytes
      <3>1. CASE s = t
        <4>1. Held(s)' = Held(s) \cup {w} /\ w \in Writes \ Held(s) /\ Held(s) \in SUBSET Writes
          BY <1>1, <1>3, <3>1 DEF Held, Answer
        <4>2. Bytes(Held(s)') = Bytes(Held(s)) + Size[w]
          BY <4>1, BytesAddUp
        <4>3. Bytes(Held(s)) \in Nat /\ Size[w] \in Nat /\ PendingBytes \in Nat
          BY <4>1, BytesAddUp, CallsAssumption, LimitsAssumption
        <4>4. QED
          BY <1>3, <3>1, <4>2, <4>3
      <3>2. CASE s # t
        <4>1. Held(s)' = Held(s)
          BY <1>1, <1>3, <3>2 DEF Held, Answer
        <4>2. QED
          BY <4>1 DEF ReservedWithinBudget
      <3>3. QED
        BY <3>1, <3>2
    <2>2. QED
      BY <2>1 DEF ReservedWithinBudget, Bytes
  <1>4. QED
    BY <1>2, <1>3 DEF BeginWrite

\* No other step gives bytes to a write that had none.
LEMMA OthersRelease ==
    ASSUME TypeOK, [Next]_vars, \A w \in Writes : ~BeginWrite(w), NEW w \in Writes,
           answer'[w] \in {"permitted", "sending", "queued"}
    PROVE  answer[w] \in {"permitted", "sending", "queued"}
  <1>1. ASSUME NEW s \in Sessions, TaskStep(s)
        PROVE  answer[w] \in {"permitted", "sending", "queued"}
    <2>1. CASE answer' = answer
      BY <2>1
    <2>2. CASE answer' = Lost(s)
      BY <2>2 DEF Lost
    <2>3. CASE FailWrite(s)
      <3>1. answer' = [Lost(s) EXCEPT ![writing[s]] = "failed"]
        BY <2>3 DEF FailWrite, End
      <3>2. QED
        BY <3>1 DEF Lost
    <2>4. CASE FinishWrite(s)
      BY <2>4 DEF FinishWrite, TypeOK
    <2>5. CASE StatusArrives(s)
      BY <2>5 DEF StatusArrives, TypeOK
    <2>6. \/ answer' = answer \/ answer' = Lost(s)
          \/ FailWrite(s) \/ FinishWrite(s) \/ StatusArrives(s)
      BY <1>1 DEF TaskStep, ConnectFails, Attach, SendSize, TakeWrite, TakeResize, ResizeFails,
         InputClosed, NoStatus, ReaderError, Drained, AbortTakesEffect, End, calls
    <2>7. QED
      BY <2>1, <2>2, <2>3, <2>4, <2>5, <2>6
  <1>2. ASSUME NEW v \in Writes, CloneSender(v) \/ TrySend(v)
        PROVE  answer[w] \in {"permitted", "sending", "queued"}
    BY <1>2 DEF CloneSender, TrySend, Answer, TypeOK
  <1>3. CASE UNCHANGED answer
    BY <1>3
  <1>4. \/ \E s \in Sessions : TaskStep(s)
        \/ \E v \in Writes : CloneSender(v) \/ TrySend(v)
        \/ UNCHANGED answer
    BY DEF Next, vars, Insert, Spawn, SetHandle, ProcessStep, Exit, Emit, Read, ReaderDone,
       ReaderFails, StopSessions, WriteStep, Resize, calls
  <1>5. QED
    BY <1>1, <1>2, <1>3, <1>4

\* However many write at once, what they have queued stays within the budget (write_stdin).
THEOREM PendingStaysWithinBudget == Spec => []PendingWithinBudget
  <1>1. Init => ReservedWithinBudget
    <2> SUFFICES ASSUME Init, NEW s \in Sessions PROVE Bytes(Held(s)) <= PendingBytes
      BY DEF ReservedWithinBudget
    <2>1. Held(s) = {} /\ BytesOf({}) = {}
      BY DEF Init, Held, BytesOf
    <2>2. Bytes(Held(s)) = 0
      BY <2>1, FS_EmptySet DEF Bytes, BytesOf
    <2>3. QED
      BY <2>2, LimitsAssumption
  <1>2. TypeOK /\ ReservedWithinBudget /\ [Next]_vars => ReservedWithinBudget'
    <2> SUFFICES ASSUME TypeOK, ReservedWithinBudget, [Next]_vars PROVE ReservedWithinBudget'
      OBVIOUS
    <2>1. CASE \E w \in Writes : BeginWrite(w)
      BY <2>1, BeginReserves
    <2>2. CASE \A w \in Writes : ~BeginWrite(w)
      BY <2>2, OthersRelease, HeldShrinks
    <2>3. QED
      BY <2>1, <2>2
  <1>3. ReservedWithinBudget => PendingWithinBudget
    <2> SUFFICES ASSUME ReservedWithinBudget, NEW s \in Sessions
                 PROVE  Bytes({w \in Writes : Target[w] = s /\ answer[w] = "queued"}) <= PendingBytes
      BY DEF PendingWithinBudget
    <2> DEFINE queued == {w \in Writes : Target[w] = s /\ answer[w] = "queued"}
    <2>1. Held(s) \in SUBSET Writes /\ queued \in SUBSET Held(s) /\ queued \in SUBSET Writes
      BY DEF Held
    <2> HIDE DEF queued
    <2>2. Bytes(queued) <= Bytes(Held(s)) /\ Bytes(Held(s)) <= PendingBytes
      BY <2>1, BytesAddUp DEF ReservedWithinBudget
    <2>3. Bytes(queued) \in Nat /\ Bytes(Held(s)) \in Nat /\ PendingBytes \in Nat
      BY <2>1, BytesAddUp, LimitsAssumption
    <2>4. QED
      BY <2>2, <2>3 DEF queued
  <1>4. QED
    BY <1>1, <1>2, <1>3, TypeCorrect, PTL DEF Spec
=============================================================================
