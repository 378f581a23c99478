------------------------- MODULE WorkspaceSwitchProofs -------------------------
(***************************************************************************)
(* Proofs about WorkspaceSwitch: that every request is accounted for while *)
(* switches cancel, rotate and mount, that the coordinator rests on the    *)
(* newest destination, and that clients only rotate while no workspace is  *)
(* mounted, for any numbers of requests, names, contexts and switches.     *)
(***************************************************************************)
EXTENDS WorkspaceSwitch, TLAPS

USE NamesAssumption, LimitsAssumption, NowhereAssumption

-----------------------------------------------------------------------------
(* The inductive invariant                                                 *)

SwitchRecord ==
    [pc : {"idle", "sent", "rotate", "signal", "close", "returned"}, upto : Nat,
     left : SUBSET Nat, prev : 0..MaxRotations]

Types == SwitchTypeOK /\ switch \in SwitchRecord

\* A registration belongs to one request, which has a name.
RegistrationsAreOwn ==
    /\ \A q \in Requests : reqs[q].reg # 0 =>
          /\ NameOf[q] # Anonymous
          /\ reqs[q].pc \notin {"idle", "sent"}
    /\ \A p, q \in Requests : reqs[p].reg = reqs[q].reg /\ reqs[p].reg # 0 => p = q
    /\ switch.upto <= nextReg

\* Once the switch has cancelled all, only what registered after it, or has no
\* registration, runs without its token being cancelled.
CancelledBefore ==
    switch.pc \in {"rotate", "signal", "close", "returned"} =>
        \A q \in Requests :
            reqs[q].pc \in RunningAt /\ reqs[q].reg \notin cancelled \cup taken =>
                reqs[q].reg >= switch.upto \/ reqs[q].reg = 0

\* Every generation before the current one is dead, but for the one that the
\* switch is about to signal.
OldGenerationsAreDead ==
    /\ \A q \in Requests : reqs[q].gen <= generation
    /\ \A g \in 0..MaxRotations :
          g < generation => g \in dead \/ (switch.pc = "signal" /\ g = switch.prev)
    /\ switch.pc \in {"signal", "close", "returned"} => generation = switch.prev + 1

\* A client was built from files no older than the ones it counts as built from.
ConfigsAreRead ==
    /\ \A q \in Requests :
          /\ reqs[q].fp <= files
          /\ reqs[q].pc = "store" => reqs[q].fp <= reqs[q].config /\ reqs[q].config <= files
    /\ \A c \in Contexts : clients[c].fp <= clients[c].config /\ clients[c].config <= files

\* The coordinator's loop, its destinations and the command it waits for.
LoopIsWhereItIs ==
    /\ run = "cancel" <=> switch.pc # "idle"
    /\ run = "cancel" => mounted = Nowhere
    /\ run \in {"suspend", "cancel"} => latest # Nowhere
    /\ run = "idle" => latest = Nowhere
    /\ latest # Nowhere => latest = asked
    /\ run \in {"idle", "exited"} /\ latest = Nowhere => mounted = asked

\* A rotation that will come has been counted.
RotationsAreBounded ==
    run = "suspend" \/ switch.pc \in {"sent", "rotate"}
        \/ (run = "exited" /\ latest # Nowhere)
            => generation < MaxRotations

SwitchInv ==
    /\ Types
    /\ RegistrationsAreOwn
    /\ RunningIsCancellable
    /\ CancelledBefore
    /\ OldGenerationsAreDead
    /\ CachedClientsAreCurrent
    /\ ConfigsAreRead
    /\ LoopIsWhereItIs
    /\ RotationsAreBounded

\* The invariant holds at the start.
LEMMA SwitchInit_Inv == SwitchInit => SwitchInv
  <1> SUFFICES ASSUME SwitchInit PROVE SwitchInv
    OBVIOUS
  <1>1. /\ entries = [n \in RequestNames |-> 0] /\ nextReg = 1 /\ taken = {}
        /\ cancelled = {} /\ generation = 0 /\ dead = {} /\ files = 0
        /\ clients = [c \in Contexts |-> NoClient]
        /\ reqs = [q \in Requests |-> NotStarted] /\ switch = Quiet
        /\ mounted \in Workspaces /\ asked = mounted /\ latest = Nowhere /\ run = "idle"
        /\ issued = [q \in Requests |-> 0]
    BY DEF SwitchInit, BackendInit
  <1>2. NotStarted \in RequestState /\ Quiet \in SwitchRecord
    BY DEF NotStarted, RequestState, Quiet, SwitchRecord
  <1>3. Types
    <2>1. /\ reqs \in [Requests -> RequestState] /\ switch \in SwitchRecord
          /\ \A q \in Requests : reqs[q].reg = 0
          /\ switch.pc = "idle" /\ switch.left = {}
      BY <1>1, <1>2 DEF NotStarted, Quiet
    <2>2. /\ entries \in [RequestNames -> 0..nextReg - 1]
          /\ issued \in [Requests -> 0..MaxRotations]
          /\ generation \in 0..MaxRotations /\ files \in 0..MaxFiles
      BY <1>1
    <2>3. QED
      BY <1>1, <2>1, <2>2 DEF Types, SwitchTypeOK
  <1>4. RegistrationsAreOwn /\ RunningIsCancellable /\ CancelledBefore
        /\ OldGenerationsAreDead
    BY <1>1 DEF RegistrationsAreOwn, RunningIsCancellable, CancelledBefore,
       OldGenerationsAreDead, NotStarted, Quiet
  <1>5. CachedClientsAreCurrent /\ ConfigsAreRead
    BY <1>1 DEF CachedClientsAreCurrent, ConfigsAreRead, NotStarted, NoClient
  <1>6. LoopIsWhereItIs /\ RotationsAreBounded
    BY <1>1 DEF LoopIsWhereItIs, RotationsAreBounded, Quiet
  <1>7. QED
    BY <1>3, <1>4, <1>5, <1>6 DEF SwitchInv

-----------------------------------------------------------------------------
(* Steps of one read                                                       *)

\* One request moves on, under the registration that it has.
ReadMoves(q) ==
    /\ reqs' \in [Requests -> RequestState]
    /\ \A k \in Requests : k # q => reqs'[k] = reqs[k]
    /\ reqs'[q].reg = reqs[q].reg
    /\ reqs'[q].pc \in RunningAt => reqs[q].pc \in RunningAt \/ reqs[q].reg = 0
    /\ reqs'[q].pc \in {"idle", "sent"} => reqs[q].reg = 0
    /\ reqs'[q].gen <= generation
    /\ reqs'[q].fp <= files
    /\ reqs'[q].pc = "store" =>
          reqs'[q].fp <= reqs'[q].config /\ reqs'[q].config <= files

\* What depends on neither the registry's entries nor the cached clients goes on.
LEMMA ReadMoves_Inv ==
    ASSUME SwitchInv, NEW q \in Requests, ReadMoves(q),
           UNCHANGED <<nextReg, taken, cancelled, generation, dead, files, switch,
                       mounted, latest, asked, run>>
    PROVE  /\ RegistrationsAreOwn' /\ CancelledBefore' /\ OldGenerationsAreDead'
           /\ LoopIsWhereItIs' /\ RotationsAreBounded'
  <1>1. RegistrationsAreOwn'
    <2>1. \A k \in Requests : reqs'[k].reg = reqs[k].reg
      BY DEF ReadMoves
    <2>2. \A k \in Requests : reqs'[k].pc \in {"idle", "sent"} => reqs'[k].reg = 0
      BY <2>1 DEF ReadMoves, SwitchInv, RegistrationsAreOwn
    <2>3. QED
      BY <2>1, <2>2 DEF SwitchInv, RegistrationsAreOwn
  <1>2. CancelledBefore'
    BY DEF SwitchInv, CancelledBefore, ReadMoves
  <1>3. OldGenerationsAreDead'
    BY DEF SwitchInv, OldGenerationsAreDead, ReadMoves
  <1>4. LoopIsWhereItIs' /\ RotationsAreBounded'
    BY DEF SwitchInv, LoopIsWhereItIs, RotationsAreBounded
  <1>5. QED
    BY <1>1, <1>2, <1>3, <1>4

\* With the entries as they are, it can still be cancelled.
LEMMA ReadMoves_Cancellable ==
    ASSUME SwitchInv, NEW q \in Requests, ReadMoves(q),
           UNCHANGED <<entries, taken, cancelled>>
    PROVE  RunningIsCancellable'
  BY DEF SwitchInv, RunningIsCancellable, ReadMoves

\* With the clients as they are, what is cached stays so.
LEMMA ReadMoves_Clients ==
    ASSUME SwitchInv, NEW q \in Requests, ReadMoves(q),
           UNCHANGED <<clients, generation, files>>
    PROVE  CachedClientsAreCurrent' /\ ConfigsAreRead'
  BY DEF SwitchInv, CachedClientsAreCurrent, ConfigsAreRead, ReadMoves

\* The types, as far as a read that goes on concerns them.
LEMMA ReadMoves_Types ==
    ASSUME SwitchInv, NEW q \in Requests, ReadMoves(q),
           UNCHANGED <<nextReg, taken, cancelled, generation, dead, files, switch,
                       mounted, latest, asked, run>>,
           entries' \in [RequestNames -> 0..nextReg - 1],
           clients' \in [Contexts -> [gen : 0..MaxRotations, fp : 0..MaxFiles,
                                      config : 0..MaxFiles] \cup {NoClient}],
           issued' \in [Requests -> 0..MaxRotations]
    PROVE  Types'
  <1>1. \A k \in Requests : reqs'[k].reg < nextReg
    BY DEF ReadMoves, SwitchInv, Types, SwitchTypeOK
  <1>2. QED
    BY <1>1 DEF ReadMoves, SwitchInv, Types, SwitchTypeOK

\* The fields of a request.
LEMMA RequestFields ==
    ASSUME SwitchInv, NEW q \in Requests
    PROVE  /\ reqs[q] \in RequestState
           /\ reqs[q].reg \in Nat /\ reqs[q].gen \in 0..MaxRotations
           /\ reqs[q].fp \in 0..MaxFiles /\ reqs[q].config \in 0..MaxFiles
           /\ reqs[q].gen <= generation /\ reqs[q].fp <= files
           /\ generation \in 0..MaxRotations /\ files \in 0..MaxFiles
           /\ generation <= generation /\ files <= files
  BY DEF SwitchInv, Types, SwitchTypeOK, RequestState, OldGenerationsAreDead, ConfigsAreRead

\* Most steps of a read change nothing but where it is.
LEMMA ReadGoto_Moves ==
    ASSUME SwitchInv, NEW q \in Requests,
           NEW pc \in {"sent", "drop", "done"} \cup RunningAt, pc # "store", ReadGoto(q, pc),
           pc \in RunningAt => reqs[q].pc \in RunningAt \/ reqs[q].reg = 0,
           pc = "sent" => reqs[q].reg = 0
    PROVE  ReadMoves(q)
  <1>1. /\ reqs \in [Requests -> RequestState]
        /\ reqs' = [reqs EXCEPT ![q] = [reqs[q] EXCEPT !.pc = pc]]
    BY DEF SwitchInv, Types, SwitchTypeOK, ReadGoto
  <1>2. [reqs[q] EXCEPT !.pc = pc] \in RequestState
    BY RequestFields DEF RequestState
  <1>3. /\ reqs' \in [Requests -> RequestState]
        /\ reqs'[q] = [reqs[q] EXCEPT !.pc = pc]
        /\ \A k \in Requests : k # q => reqs'[k] = reqs[k]
    BY <1>1, <1>2
  <1>4. /\ reqs'[q].pc = pc /\ reqs'[q].reg = reqs[q].reg
        /\ reqs'[q].fp = reqs[q].fp /\ reqs'[q].gen = reqs[q].gen
    BY <1>3, RequestFields DEF RequestState
  <1>5. pc \notin {"idle", "store"}
    BY DEF RunningAt
  <1>6. QED
    BY <1>3, <1>4, <1>5, RequestFields DEF ReadMoves

\* The steps of a read that leave the registry and the clients alone.
LEMMA Reading_Moves ==
    ASSUME SwitchInv, NEW q \in Requests,
           \/ Invoke(q) \/ Fingerprint(q) \/ Capture(q) \/ Lookup(q) \/ ResolveClient(q)
           \/ ResolveCancelled(q) \/ Answered(q) \/ CallCancelled(q) \/ GuardCancelled(q)
           \/ Register(q) /\ NameOf[q] = Anonymous
    PROVE  ReadMoves(q) /\ UNCHANGED <<registryVars, clientVars, files, switch>>
  <1>1. UNCHANGED <<registryVars, clientVars, files, switch>>
    BY DEF Invoke, Fingerprint, Capture, Lookup, ResolveClient, ResolveCancelled, Answered,
       CallCancelled, GuardCancelled, Register
  <1>2. reqs \in [Requests -> RequestState]
    BY DEF SwitchInv, Types, SwitchTypeOK
  <1>3. reqs[q].pc \in {"idle", "sent"} => reqs[q].reg = 0
    BY DEF SwitchInv, RegistrationsAreOwn
  <1>4. CASE Invoke(q)
    BY <1>3, <1>4, ReadGoto_Moves DEF Invoke, RunningAt
  <1>5. CASE ReadGoto(q, "drop")
    <2>1. "drop" \notin RunningAt
      BY DEF RunningAt
    <2>2. QED
      BY <1>1, <1>5, <2>1, ReadGoto_Moves
  <1>6. CASE ReadGoto(q, "resolve") /\ Lookup(q)
    BY <1>6, ReadGoto_Moves DEF RunningAt, Lookup
  <1>7. CASE Register(q) /\ NameOf[q] = Anonymous
    BY <1>3, <1>7, ReadGoto_Moves DEF RunningAt, Register
  <1>8. ASSUME NEW r, reqs' = [reqs EXCEPT ![q] = r], r \in RequestState,
               r.reg = reqs[q].reg, r.pc \in RunningAt, reqs[q].pc \in RunningAt,
               r.gen <= generation, r.fp <= files,
               r.pc = "store" => r.fp <= r.config /\ r.config <= files
        PROVE  ReadMoves(q)
    <2>1. /\ reqs' \in [Requests -> RequestState] /\ reqs'[q] = r
          /\ \A k \in Requests : k # q => reqs'[k] = reqs[k]
      BY <1>2, <1>8
    <2>2. reqs'[q].pc \notin {"idle", "sent"}
      BY <1>1, <1>8, <2>1 DEF RunningAt
    <2>3. QED
      BY <1>1, <1>8, <2>1, <2>2 DEF ReadMoves
  <1>9. CASE Fingerprint(q)
    <2> DEFINE r == [reqs[q] EXCEPT !.pc = "capture", !.fp = files]
    <2>1. reqs' = [reqs EXCEPT ![q] = r] /\ reqs[q].pc = "fingerprint"
      BY <1>2, <1>9 DEF Fingerprint
    <2>2. /\ r \in RequestState /\ r.reg = reqs[q].reg /\ r.pc = "capture"
          /\ r.gen = reqs[q].gen /\ r.fp = files
      BY RequestFields DEF RequestState, RunningAt
    <2>3. r.gen <= generation /\ r.fp <= files
      BY <2>2, RequestFields
    <2>4. "capture" \in RunningAt /\ reqs[q].pc \in RunningAt
      BY <2>1 DEF RunningAt
    <2> HIDE DEF r
    <2>5. QED
      BY <1>1, <1>8, <2>1, <2>2, <2>4, <2>3
  <1>10. CASE Capture(q)
    <2> DEFINE r == [reqs[q] EXCEPT !.pc = "lookup", !.gen = generation]
    <2>1. reqs' = [reqs EXCEPT ![q] = r] /\ reqs[q].pc = "capture"
      BY <1>2, <1>10 DEF Capture
    <2>2. /\ r \in RequestState /\ r.reg = reqs[q].reg /\ r.pc = "lookup"
          /\ r.gen = generation /\ r.fp = reqs[q].fp
      BY RequestFields DEF RequestState, RunningAt
    <2>3. r.gen <= generation /\ r.fp <= files
      BY <2>2, RequestFields
    <2>4. "lookup" \in RunningAt /\ reqs[q].pc \in RunningAt
      BY <2>1 DEF RunningAt
    <2> HIDE DEF r
    <2>5. QED
      BY <1>1, <1>8, <2>1, <2>2, <2>4, <2>3
  <1>11. CASE Lookup(q) /\ ~ReadGoto(q, "resolve")
    <2> DEFINE c == clients[ContextOf[q]]
               r == [reqs[q] EXCEPT !.pc = "call", !.config = c.config]
    <2>1. reqs' = [reqs EXCEPT ![q] = r] /\ reqs[q].pc = "lookup" /\ c # NoClient
      BY <1>2, <1>11 DEF Lookup
    <2>2. c.config \in 0..MaxFiles
      BY <2>1 DEF SwitchInv, Types, SwitchTypeOK
    <2> HIDE DEF c
    <2>3. /\ r \in RequestState /\ r.reg = reqs[q].reg /\ r.pc = "call"
          /\ r.gen <= generation /\ r.fp <= files
      BY <2>2, RequestFields DEF RequestState, RunningAt
    <2>4. "call" \in RunningAt /\ reqs[q].pc \in RunningAt
      BY <2>1 DEF RunningAt
    <2> HIDE DEF r
    <2>5. QED
      BY <1>1, <1>8, <2>1, <2>3, <2>4, RequestFields
  <1>12. CASE ResolveClient(q) /\ ~ReadGoto(q, "drop")
    <2> DEFINE r == [reqs[q] EXCEPT !.pc = "store", !.config = files]
    <2>1. reqs' = [reqs EXCEPT ![q] = r] /\ reqs[q].pc = "resolve"
      BY <1>2, <1>12 DEF ResolveClient
    <2>2. /\ r \in RequestState /\ r.reg = reqs[q].reg /\ r.pc = "store"
          /\ r.gen = reqs[q].gen /\ r.config = files /\ r.fp = reqs[q].fp
      BY RequestFields DEF RequestState, RunningAt
    <2>3. r.gen <= generation /\ r.fp <= r.config /\ r.config <= files /\ r.fp <= files
      BY <2>2, RequestFields
    <2>4. "store" \in RunningAt /\ reqs[q].pc \in RunningAt
      BY <2>1 DEF RunningAt
    <2> HIDE DEF r
    <2>5. QED
      BY <1>1, <1>8, <2>1, <2>2, <2>4, <2>3
  <1>13. QED
    BY <1>1, <1>4, <1>5, <1>6, <1>7, <1>9, <1>10, <1>11, <1>12
       DEF ResolveCancelled, Answered, CallCancelled, GuardCancelled

\* What a read does to itself keeps the invariant.
LEMMA Reading_Inv ==
    ASSUME SwitchInv, NEW q \in Requests, ReadMoves(q),
           UNCHANGED <<registryVars, clientVars, files, switch, mounted, latest, asked, run>>,
           issued' \in [Requests -> 0..MaxRotations]
    PROVE  SwitchInv'
  <1>1. UNCHANGED <<entries, nextReg, taken, cancelled, generation, dead, clients, files,
                    switch, mounted, latest, asked, run>>
    BY DEF registryVars, clientVars
  <1>2. Types'
    BY <1>1, ReadMoves_Types DEF SwitchInv, Types, SwitchTypeOK
  <1>3. QED
    BY <1>1, <1>2, ReadMoves_Inv, ReadMoves_Cancellable, ReadMoves_Clients DEF SwitchInv

\* A client enters the cache for the current generation only, with the files it
\* was built from.
LEMMA Store_Inv ==
    ASSUME SwitchInv, NEW q \in Requests, Store(q), UNCHANGED uiVars
    PROVE  SwitchInv'
  <1> DEFINE new == [gen |-> reqs[q].gen, fp |-> reqs[q].fp, config |-> reqs[q].config]
  <1>1. /\ UNCHANGED <<entries, nextReg, taken, cancelled, generation, dead, files, switch,
                       mounted, latest, asked, run, issued>>
        /\ reqs[q].pc = "store"
    BY DEF Store, registryVars, uiVars
  <1>2. ReadMoves(q)
    BY <1>1, ReadGoto_Moves DEF Store, RunningAt
  <1>3. \/ UNCHANGED clients
        \/ /\ generation = reqs[q].gen
           /\ DOMAIN clients' = Contexts /\ clients' = [x \in Contexts |-> clients'[x]]
           /\ \A x \in Contexts : clients'[x] \in {new, NoClient, clients[x]}
    BY DEF Store
  <1>4. /\ new \in [gen : 0..MaxRotations, fp : 0..MaxFiles, config : 0..MaxFiles]
        /\ new.gen = reqs[q].gen /\ new.fp = reqs[q].fp /\ new.config = reqs[q].config
    BY RequestFields
  <1> HIDE DEF new
  <1>5. clients' \in [Contexts -> [gen : 0..MaxRotations, fp : 0..MaxFiles,
                                   config : 0..MaxFiles] \cup {NoClient}]
    BY <1>3, <1>4 DEF SwitchInv, Types, SwitchTypeOK
  <1>6. Types'
    BY <1>1, <1>2, <1>5, ReadMoves_Types DEF SwitchInv, Types, SwitchTypeOK
  <1>7. CachedClientsAreCurrent'
    BY <1>1, <1>3, <1>4 DEF SwitchInv, CachedClientsAreCurrent
  <1>8. NoClient.fp = 0 /\ NoClient.config = 0 /\ files \in Nat
    BY RequestFields DEF NoClient
  <1>9. ConfigsAreRead'
    <2>1. /\ \A k \in Requests :
               /\ reqs'[k].fp <= files
               /\ reqs'[k].pc = "store" =>
                     reqs'[k].fp <= reqs'[k].config /\ reqs'[k].config <= files
      BY <1>2 DEF ReadMoves, SwitchInv, ConfigsAreRead
    <2>2. new.fp <= new.config /\ new.config <= files
      BY <1>1, <1>4 DEF SwitchInv, ConfigsAreRead
    <2>3. \A c \in Contexts : clients'[c].fp <= clients'[c].config
                              /\ clients'[c].config <= files
      BY <1>3, <1>8, <2>2 DEF SwitchInv, ConfigsAreRead
    <2>4. QED
      BY <1>1, <2>1, <2>3 DEF ConfigsAreRead
  <1>10. QED
    BY <1>1, <1>2, <1>6, <1>7, <1>9, ReadMoves_Inv, ReadMoves_Cancellable DEF SwitchInv

\* A guard that is dropped unregisters itself and nobody else.
LEMMA DropGuard_Inv ==
    ASSUME SwitchInv, NEW q \in Requests, DropGuard(q), UNCHANGED uiVars
    PROVE  SwitchInv'
  <1>1. /\ UNCHANGED <<nextReg, taken, cancelled, generation, dead, clients, files, switch,
                       mounted, latest, asked, run, issued>>
        /\ reqs[q].pc = "drop"
    BY DEF DropGuard, clientVars, uiVars
  <1>2. ReadMoves(q) /\ reqs'[q].pc = "done"
    <2>1. ReadMoves(q)
      BY <1>1, ReadGoto_Moves DEF DropGuard, RunningAt
    <2>2. QED
      BY <2>1 DEF DropGuard, ReadGoto, SwitchInv, Types, SwitchTypeOK, RequestState
  <1>3. entries' \in [RequestNames -> 0..nextReg - 1]
    BY DEF DropGuard, SwitchInv, Types, SwitchTypeOK
  <1>4. \A n \in RequestNames : entries'[n] # entries[n] => entries[n] = reqs[q].reg
    BY DEF DropGuard, SwitchInv, Types, SwitchTypeOK
  <1>5. RunningIsCancellable'
    <2> SUFFICES ASSUME NEW k \in Requests, reqs'[k].pc \in RunningAt, reqs'[k].reg # 0
                 PROVE  reqs'[k].reg \in {entries'[NameOf[k]]} \cup taken' \cup cancelled'
      BY DEF RunningIsCancellable
    <2>1. k # q
      BY <1>2 DEF RunningAt
    <2>2. reqs'[k] = reqs[k] /\ NameOf[k] \in RequestNames
      BY <2>1, <1>2 DEF ReadMoves, SwitchInv, RegistrationsAreOwn
    <2>3. reqs[k].reg # reqs[q].reg
      BY <2>1, <2>2 DEF SwitchInv, RegistrationsAreOwn
    <2>4. QED
      BY <1>1, <1>4, <2>2, <2>3 DEF SwitchInv, RunningIsCancellable
  <1>6. Types'
    BY <1>1, <1>2, <1>3, ReadMoves_Types DEF SwitchInv, Types, SwitchTypeOK
  <1>7. QED
    BY <1>1, <1>2, <1>5, <1>6, ReadMoves_Inv, ReadMoves_Clients DEF SwitchInv

\* A named request enters the registry; the one it replaces is cancelled.
LEMMA Register_Inv ==
    ASSUME SwitchInv, NEW q \in Requests, Register(q), NameOf[q] # Anonymous,
           UNCHANGED uiVars
    PROVE  SwitchInv'
  <1> DEFINE n == NameOf[q]
             r == [reqs[q] EXCEPT !.pc = "fingerprint", !.reg = nextReg]
  <1>1. /\ UNCHANGED <<taken, generation, dead, clients, files, switch,
                       mounted, latest, asked, run, issued>>
        /\ reqs[q].pc = "sent" /\ n \in RequestNames
        /\ nextReg' = nextReg + 1 /\ entries' = [entries EXCEPT ![n] = nextReg]
        /\ cancelled' = cancelled \cup ({entries[n]} \ {0})
    BY DEF Register, clientVars, uiVars
  <1>2. SwitchTypeOK /\ nextReg \in Nat \ {0} /\ entries \in [RequestNames -> 0..nextReg - 1]
    BY DEF SwitchInv, Types, SwitchTypeOK
  <1>3. reqs' = [reqs EXCEPT ![q] = r]
    BY <1>2 DEF Register, SwitchTypeOK
  <1>4. /\ r \in RequestState /\ r.reg = nextReg /\ r.pc = "fingerprint"
        /\ r.fp = reqs[q].fp /\ r.gen = reqs[q].gen
    BY <1>2, RequestFields DEF RequestState, RunningAt
  <1> HIDE DEF r
  <1>5. /\ reqs' \in [Requests -> RequestState] /\ reqs'[q] = r
        /\ \A k \in Requests : k # q => reqs'[k] = reqs[k]
    BY <1>2, <1>3, <1>4 DEF SwitchTypeOK
  <1>6. /\ \A k \in Requests : reqs[k].reg < nextReg /\ reqs[k].reg \in Nat
        /\ entries[n] \in 0..nextReg - 1
        /\ entries' \in [RequestNames -> 0..nextReg' - 1]
        /\ \A m \in RequestNames : entries'[m] = IF m = n THEN nextReg ELSE entries[m]
    BY <1>1, <1>2, RequestFields DEF SwitchTypeOK
  <1>7. Types'
    <2>1. /\ cancelled' \subseteq 1..nextReg' - 1
          /\ taken' \subseteq 1..nextReg' - 1
          /\ switch'.left \subseteq 1..nextReg' - 1
          /\ nextReg' \in Nat \ {0}
      <3>1. /\ cancelled \subseteq 1..nextReg - 1
            /\ taken \subseteq 1..nextReg - 1
            /\ switch.left \subseteq 1..nextReg - 1
        BY <1>2 DEF SwitchTypeOK
      <3>2. 1..nextReg - 1 \subseteq 1..nextReg' - 1 /\ nextReg' \in Nat \ {0}
        BY <1>1, <1>2
      <3>3. {entries[n]} \ {0} \subseteq 1..nextReg' - 1
        BY <1>1, <1>2, <1>6
      <3>4. QED
        BY <1>1, <3>1, <3>2, <3>3
    <2>2. \A k \in Requests : reqs'[k].reg < nextReg'
      BY <1>1, <1>2, <1>4, <1>5, <1>6
    <2>3. QED
      BY <1>1, <1>5, <1>6, <2>1, <2>2 DEF SwitchInv, Types, SwitchTypeOK
  <1>8. RegistrationsAreOwn'
    <2>1. switch'.upto <= nextReg' /\ switch'.upto \in Nat
      BY <1>1, <1>2 DEF SwitchInv, Types, SwitchRecord, RegistrationsAreOwn
    <2>2. \A k \in Requests : reqs'[k].reg # 0 =>
             NameOf[k] # Anonymous /\ reqs'[k].pc \notin {"idle", "sent"}
      BY <1>4, <1>5 DEF SwitchInv, RegistrationsAreOwn
    <2>3. \A k, p \in Requests : reqs'[k].reg = reqs'[p].reg /\ reqs'[k].reg # 0 => k = p
      BY <1>2, <1>4, <1>5, <1>6 DEF SwitchInv, RegistrationsAreOwn
    <2>4. QED
      BY <2>1, <2>2, <2>3 DEF RegistrationsAreOwn
  <1>9. RunningIsCancellable'
    <2> SUFFICES ASSUME NEW k \in Requests, reqs'[k].pc \in RunningAt, reqs'[k].reg # 0
                 PROVE  reqs'[k].reg \in {entries'[NameOf[k]]} \cup taken' \cup cancelled'
      BY DEF RunningIsCancellable
    <2>1. CASE k = q
      BY <1>1, <1>4, <1>5, <1>6, <2>1
    <2>2. CASE k # q
      <3>1. reqs'[k] = reqs[k] /\ NameOf[k] \in RequestNames
        BY <1>5, <2>2 DEF SwitchInv, RegistrationsAreOwn
      <3>2. reqs[k].reg \in {entries[NameOf[k]]} \cup taken \cup cancelled
        BY <3>1 DEF SwitchInv, RunningIsCancellable
      <3>3. QED
        BY <1>1, <1>6, <3>1, <3>2
    <2>3. QED
      BY <2>1, <2>2
  <1>10. CancelledBefore'
    <2> SUFFICES ASSUME switch.pc \in {"rotate", "signal", "close", "returned"},
                        NEW k \in Requests, reqs'[k].pc \in RunningAt,
                        reqs'[k].reg \notin cancelled' \cup taken'
                 PROVE  reqs'[k].reg >= switch.upto \/ reqs'[k].reg = 0
      BY <1>1 DEF CancelledBefore
    <2>1. CASE k = q
      BY <1>2, <1>4, <1>5, <2>1 DEF SwitchInv, RegistrationsAreOwn, Types, SwitchRecord
    <2>2. CASE k # q
      BY <1>1, <1>5, <2>2 DEF SwitchInv, CancelledBefore
    <2>3. QED
      BY <2>1, <2>2
  <1>11. OldGenerationsAreDead'
    BY <1>1, <1>4, <1>5 DEF SwitchInv, OldGenerationsAreDead
  <1>12. CachedClientsAreCurrent' /\ ConfigsAreRead'
    <2>1. \A k \in Requests : reqs'[k].fp = reqs[k].fp
      BY <1>4, <1>5
    <2>2. \A k \in Requests : reqs'[k].pc = "store" => reqs'[k] = reqs[k]
      BY <1>4, <1>5
    <2>3. QED
      BY <1>1, <2>1, <2>2 DEF SwitchInv, CachedClientsAreCurrent, ConfigsAreRead
  <1>13. LoopIsWhereItIs' /\ RotationsAreBounded'
    BY <1>1 DEF SwitchInv, LoopIsWhereItIs, RotationsAreBounded
  <1>14. QED
    BY <1>7, <1>8, <1>9, <1>10, <1>11, <1>12, <1>13 DEF SwitchInv

-----------------------------------------------------------------------------
(* Cancelling by scope, token by token, and the switch's command           *)

\* Entries that are emptied have their tokens taken.
LEMMA Emptied_Cancellable ==
    ASSUME SwitchInv, NEW ns \in SUBSET RequestNames,
           UNCHANGED <<reqs, cancelled>>,
           taken' = taken \cup Registered(ns),
           entries' = [n \in RequestNames |-> IF n \in ns THEN 0 ELSE entries[n]]
    PROVE  /\ entries' \in [RequestNames -> 0..nextReg - 1]
           /\ Registered(ns) \subseteq 1..nextReg - 1
           /\ taken' \subseteq 1..nextReg - 1
           /\ \A q \in Requests : reqs[q].reg # 0 /\ NameOf[q] \in ns
                 /\ reqs[q].pc \in RunningAt => reqs[q].reg \in taken' \cup cancelled'
           /\ RunningIsCancellable'
  <1>1. /\ entries \in [RequestNames -> 0..nextReg - 1] /\ nextReg \in Nat \ {0}
        /\ taken \subseteq 1..nextReg - 1
    BY DEF SwitchInv, Types, SwitchTypeOK
  <1>2. Registered(ns) \subseteq 1..nextReg - 1
    BY <1>1 DEF Registered
  <1>3. ASSUME NEW q \in Requests, reqs[q].reg # 0, reqs[q].pc \in RunningAt
        PROVE  /\ NameOf[q] \in RequestNames
               /\ reqs[q].reg \in {entries[NameOf[q]]} \cup taken \cup cancelled
               /\ reqs[q].reg = entries[NameOf[q]] /\ NameOf[q] \in ns
                    => reqs[q].reg \in Registered(ns)
    BY <1>3 DEF SwitchInv, RunningIsCancellable, RegistrationsAreOwn, Registered
  <1>4. entries' \in [RequestNames -> 0..nextReg - 1]
    BY <1>1
  <1>5. \A n \in RequestNames : n \notin ns => entries'[n] = entries[n]
    OBVIOUS
  <1>6. RunningIsCancellable'
    BY <1>3, <1>5 DEF RunningIsCancellable
  <1>7. QED
    BY <1>1, <1>2, <1>3, <1>4, <1>6

\* The queries of one scope are cancelled.
LEMMA CancelScope_Inv ==
    ASSUME SwitchInv, NEW s \in CancelScopes, CancelScope(s), UNCHANGED uiVars
    PROVE  SwitchInv'
  <1> DEFINE ns == {n \in RequestNames : ScopeOf[n] = s}
  <1>1. /\ UNCHANGED <<nextReg, cancelled, generation, dead, clients, files, reqs, switch,
                       mounted, latest, asked, run, issued>>
        /\ taken' = taken \cup Registered(ns)
        /\ entries' = [n \in RequestNames |-> IF n \in ns THEN 0 ELSE entries[n]]
    BY DEF CancelScope, clientVars, uiVars
  <1> HIDE DEF ns
  <1>2. ns \in SUBSET RequestNames
    BY DEF ns
  <1>3. /\ entries' \in [RequestNames -> 0..nextReg - 1] /\ taken' \subseteq 1..nextReg - 1
        /\ RunningIsCancellable'
    BY <1>1, <1>2, Emptied_Cancellable
  <1>4. Types'
    BY <1>1, <1>3 DEF SwitchInv, Types, SwitchTypeOK
  <1>5. RegistrationsAreOwn' /\ CancelledBefore' /\ OldGenerationsAreDead'
        /\ CachedClientsAreCurrent' /\ ConfigsAreRead' /\ LoopIsWhereItIs'
        /\ RotationsAreBounded'
    BY <1>1 DEF SwitchInv, RegistrationsAreOwn, CancelledBefore, OldGenerationsAreDead,
       CachedClientsAreCurrent, ConfigsAreRead, LoopIsWhereItIs, RotationsAreBounded
  <1>6. QED
    BY <1>3, <1>4, <1>5 DEF SwitchInv

\* A token that was taken is cancelled.
LEMMA CancelToken_Inv ==
    ASSUME SwitchInv, NEW g \in taken, CancelToken(g), UNCHANGED uiVars
    PROVE  SwitchInv'
  <1>1. /\ UNCHANGED <<entries, nextReg, generation, dead, clients, files, reqs,
                       mounted, latest, asked, run, issued>>
        /\ taken' = taken \ {g} /\ cancelled' = cancelled \cup {g}
        /\ switch' = [switch EXCEPT !.left = switch.left \ {g}]
    BY DEF CancelToken, clientVars, uiVars
  <1>2. switch \in SwitchRecord
    BY DEF SwitchInv, Types
  <1>3. /\ switch' \in SwitchRecord /\ switch'.pc = switch.pc
        /\ switch'.upto = switch.upto /\ switch'.prev = switch.prev
        /\ switch'.left \subseteq switch.left
    BY <1>1, <1>2 DEF SwitchRecord
  <1>4. cancelled' \cup taken' = cancelled \cup taken
    BY <1>1
  <1>5. Types'
    <2>1. /\ taken' \subseteq 1..nextReg - 1 /\ cancelled' \subseteq 1..nextReg - 1
          /\ switch'.left \subseteq 1..nextReg - 1
      BY <1>1, <1>3 DEF SwitchInv, Types, SwitchTypeOK
    <2>2. QED
      BY <1>1, <1>3, <2>1 DEF SwitchInv, Types, SwitchTypeOK
  <1>6. RunningIsCancellable'
    BY <1>1, <1>4 DEF SwitchInv, RunningIsCancellable
  <1>7. RegistrationsAreOwn' /\ CancelledBefore' /\ OldGenerationsAreDead'
        /\ CachedClientsAreCurrent' /\ ConfigsAreRead' /\ LoopIsWhereItIs'
        /\ RotationsAreBounded'
    BY <1>1, <1>3, <1>4 DEF SwitchInv, RegistrationsAreOwn, CancelledBefore,
       OldGenerationsAreDead, CachedClientsAreCurrent, ConfigsAreRead, LoopIsWhereItIs,
       RotationsAreBounded
  <1>8. QED
    BY <1>5, <1>6, <1>7 DEF SwitchInv

\* cancel_all: everything registered is taken.
LEMMA SwitchCancelsAll_Inv ==
    ASSUME SwitchInv, SwitchCancelsAll, UNCHANGED uiVars PROVE SwitchInv'
  <1>1. /\ UNCHANGED <<nextReg, cancelled, generation, dead, clients, files, reqs,
                       mounted, latest, asked, run, issued>>
        /\ switch.pc = "sent"
        /\ taken' = taken \cup Registered(RequestNames)
        /\ entries' = [n \in RequestNames |-> IF n \in RequestNames THEN 0 ELSE entries[n]]
    BY DEF SwitchCancelsAll, clientVars, uiVars
  <1>2. /\ entries' \in [RequestNames -> 0..nextReg - 1]
        /\ Registered(RequestNames) \subseteq 1..nextReg - 1
        /\ taken' \subseteq 1..nextReg - 1
        /\ RunningIsCancellable'
        /\ \A q \in Requests : reqs[q].reg # 0 /\ NameOf[q] \in RequestNames
              /\ reqs[q].pc \in RunningAt => reqs[q].reg \in taken' \cup cancelled'
    BY <1>1, Emptied_Cancellable
  <1>3. nextReg \in Nat \ {0}
    BY DEF SwitchInv, Types, SwitchTypeOK
  <1>4. /\ switch' \in SwitchRecord /\ switch'.pc = "rotate" /\ switch'.upto = nextReg
        /\ switch'.left = Registered(RequestNames)
    BY <1>2, <1>3 DEF SwitchCancelsAll, SwitchRecord
  <1>5. Types'
    BY <1>1, <1>2, <1>4 DEF SwitchInv, Types, SwitchTypeOK
  <1>6. RegistrationsAreOwn'
    BY <1>1, <1>3, <1>4 DEF SwitchInv, RegistrationsAreOwn
  <1>7. CancelledBefore'
    <2>1. \A q \in Requests : reqs[q].reg # 0 => NameOf[q] \in RequestNames
      BY DEF SwitchInv, RegistrationsAreOwn
    <2>2. QED
      BY <1>1, <1>2, <2>1 DEF CancelledBefore
  <1>8. OldGenerationsAreDead'
    BY <1>1, <1>4 DEF SwitchInv, OldGenerationsAreDead
  <1>9. CachedClientsAreCurrent' /\ ConfigsAreRead' /\ LoopIsWhereItIs'
        /\ RotationsAreBounded'
    BY <1>1, <1>4 DEF SwitchInv, CachedClientsAreCurrent, ConfigsAreRead, LoopIsWhereItIs,
       RotationsAreBounded
  <1>10. QED
    BY <1>2, <1>5, <1>6, <1>7, <1>8, <1>9 DEF SwitchInv

\* The rotation empties the cache; the generation before it is still to be signalled.
LEMMA SwitchRotates_Inv ==
    ASSUME SwitchInv, SwitchRotates, UNCHANGED uiVars PROVE SwitchInv'
  <1>1. /\ UNCHANGED <<entries, nextReg, taken, cancelled, dead, files, reqs,
                       mounted, latest, asked, run, issued>>
        /\ switch.pc = "rotate" /\ generation' = generation + 1
        /\ clients' = [c \in Contexts |-> NoClient]
        /\ switch' = [switch EXCEPT !.pc = "signal", !.prev = generation]
    BY DEF SwitchRotates, registryVars, uiVars
  <1>2. /\ generation \in 0..MaxRotations /\ generation < MaxRotations
        /\ switch \in SwitchRecord /\ switch.left \subseteq 1..nextReg - 1
    BY <1>1 DEF SwitchInv, Types, SwitchTypeOK, RotationsAreBounded
  <1>3. /\ switch' \in SwitchRecord /\ switch'.pc = "signal" /\ switch'.prev = generation
        /\ switch'.upto = switch.upto /\ switch'.left = switch.left
    BY <1>1, <1>2 DEF SwitchRecord
  <1>4. Types'
    <2>1. generation' \in 0..MaxRotations
      BY <1>1, <1>2
    <2>2. QED
      BY <1>1, <1>2, <1>3, <2>1 DEF SwitchInv, Types, SwitchTypeOK
  <1>5. RegistrationsAreOwn' /\ RunningIsCancellable' /\ CancelledBefore'
    BY <1>1, <1>3 DEF SwitchInv, RegistrationsAreOwn, RunningIsCancellable, CancelledBefore
  <1>6. OldGenerationsAreDead'
    <2>1. \A q \in Requests : reqs'[q].gen <= generation'
      BY <1>1, <1>2, RequestFields
    <2>2. ASSUME NEW g \in 0..MaxRotations, g < generation'
          PROVE  g \in dead \/ g = generation
      BY <1>1, <1>2, <2>2 DEF SwitchInv, OldGenerationsAreDead
    <2>3. QED
      BY <1>1, <1>3, <2>1, <2>2 DEF OldGenerationsAreDead
  <1>7. CachedClientsAreCurrent' /\ ConfigsAreRead'
    <2>1. NoClient.fp = 0 /\ NoClient.config = 0 /\ files \in Nat
      BY DEF NoClient, SwitchInv, Types, SwitchTypeOK
    <2>2. QED
      BY <1>1, <2>1 DEF SwitchInv, CachedClientsAreCurrent, ConfigsAreRead
  <1>8. LoopIsWhereItIs' /\ RotationsAreBounded'
    BY <1>1, <1>3 DEF SwitchInv, LoopIsWhereItIs, RotationsAreBounded
  <1>9. QED
    BY <1>4, <1>5, <1>6, <1>7, <1>8 DEF SwitchInv

\* The generation before is signalled, and the command returns.
LEMMA SwitchEnds_Inv ==
    ASSUME SwitchInv, SwitchSignals \/ SwitchReturns, UNCHANGED uiVars PROVE SwitchInv'
  <1>1. /\ UNCHANGED <<entries, nextReg, taken, cancelled, generation, clients, files, reqs,
                       mounted, latest, asked, run, issued>>
        /\ switch.pc \in {"signal", "close"}
        /\ dead' = IF switch.pc = "signal" THEN dead \cup {switch.prev} ELSE dead
        /\ \E pc \in {"close", "returned"} : switch' = [switch EXCEPT !.pc = pc]
    BY DEF SwitchSignals, SwitchReturns, registryVars, clientVars, uiVars
  <1>2. switch \in SwitchRecord /\ dead \subseteq 0..MaxRotations
    BY DEF SwitchInv, Types, SwitchTypeOK
  <1>3. /\ switch' \in SwitchRecord /\ switch'.pc \in {"close", "returned"}
        /\ switch'.prev = switch.prev /\ switch'.upto = switch.upto
        /\ switch'.left = switch.left
        /\ switch.prev \in 0..MaxRotations
    BY <1>1, <1>2 DEF SwitchRecord
  <1>4. Types'
    BY <1>1, <1>2, <1>3 DEF SwitchInv, Types, SwitchTypeOK
  <1>5. RegistrationsAreOwn' /\ RunningIsCancellable' /\ CancelledBefore'
    BY <1>1, <1>3 DEF SwitchInv, RegistrationsAreOwn, RunningIsCancellable, CancelledBefore
  <1>6. OldGenerationsAreDead'
    BY <1>1, <1>3 DEF SwitchInv, OldGenerationsAreDead
  <1>7. CachedClientsAreCurrent' /\ ConfigsAreRead' /\ LoopIsWhereItIs'
        /\ RotationsAreBounded'
    BY <1>1, <1>3 DEF SwitchInv, CachedClientsAreCurrent, ConfigsAreRead, LoopIsWhereItIs,
       RotationsAreBounded
  <1>8. QED
    BY <1>4, <1>5, <1>6, <1>7 DEF SwitchInv

\* Files that are rewritten are newer than what was read.
LEMMA RewriteFiles_Inv ==
    ASSUME SwitchInv, RewriteFiles, UNCHANGED uiVars PROVE SwitchInv'
  <1>1. /\ UNCHANGED <<entries, nextReg, taken, cancelled, generation, dead, clients, reqs,
                       switch, mounted, latest, asked, run, issued>>
        /\ files < MaxFiles /\ files' = files + 1 /\ files \in 0..MaxFiles
    BY DEF RewriteFiles, registryVars, clientVars, uiVars, SwitchInv, Types, SwitchTypeOK
  <1>2. Types'
    <2>1. files' \in 0..MaxFiles
      BY <1>1
    <2>2. QED
      BY <1>1, <2>1 DEF SwitchInv, Types, SwitchTypeOK
  <1>3. RegistrationsAreOwn' /\ RunningIsCancellable' /\ CancelledBefore'
        /\ OldGenerationsAreDead' /\ CachedClientsAreCurrent' /\ LoopIsWhereItIs'
        /\ RotationsAreBounded'
    BY <1>1 DEF SwitchInv, RegistrationsAreOwn, RunningIsCancellable, CancelledBefore,
       OldGenerationsAreDead, CachedClientsAreCurrent, LoopIsWhereItIs, RotationsAreBounded
  <1>4. ConfigsAreRead'
    <2>1. \A c \in Contexts : clients[c].config \in Nat
      BY DEF SwitchInv, Types, SwitchTypeOK, NoClient
    <2>2. QED
      BY <1>1, <2>1, RequestFields DEF SwitchInv, ConfigsAreRead
  <1>5. QED
    BY <1>2, <1>3, <1>4 DEF SwitchInv

-----------------------------------------------------------------------------
(* The coordinator                                                         *)

\* Its steps leave the reads, the registry and the clients alone.
LEMMA Coordinator_Inv ==
    ASSUME SwitchInv, UiStep \/ \E w \in Workspaces : RequestDestination(w)
    PROVE  SwitchInv'
  <1>1. UNCHANGED <<entries, nextReg, taken, cancelled, generation, dead, clients, files, reqs,
                    issued>>
    BY DEF UiStep, Suspended, Apply, Drained, RequestDestination, registryVars, clientVars
  <1>2. /\ mounted \in Workspaces \cup {Nowhere} /\ latest \in Workspaces \cup {Nowhere}
        /\ asked \in Workspaces /\ run \in {"idle", "suspend", "cancel", "exited"}
        /\ switch \in SwitchRecord /\ switch.left \subseteq 1..nextReg - 1
        /\ nextReg \in Nat \ {0} /\ switch.upto <= nextReg
    BY DEF SwitchInv, Types, SwitchTypeOK, RegistrationsAreOwn
  <1>3. Quiet \in SwitchRecord /\ Quiet.pc = "idle" /\ Quiet.left = {} /\ Quiet.upto = 0
    BY DEF Quiet, SwitchRecord
  <1> DEFINE Sent == [Quiet EXCEPT !.pc = "sent"]
  <1>4. Sent \in SwitchRecord /\ Sent.pc = "sent" /\ Sent.left = {} /\ Sent.upto = 0
    BY DEF Quiet, SwitchRecord
  <1> HIDE DEF Sent
  <1>5. switch' \in {switch, Quiet, Sent}
    BY DEF UiStep, Suspended, Apply, Drained, RequestDestination, Start, Sent
  <1>6. /\ mounted' \in Workspaces \cup {Nowhere} /\ latest' \in Workspaces \cup {Nowhere}
        /\ asked' \in Workspaces /\ run' \in {"idle", "suspend", "cancel", "exited"}
    BY <1>2 DEF UiStep, Suspended, Apply, Drained, RequestDestination, Start
  <1>7. Types'
    <2>1. switch' \in SwitchRecord /\ switch'.left \subseteq 1..nextReg - 1
      BY <1>2, <1>3, <1>4, <1>5
    <2>2. switch'.pc \in {"idle", "sent", "rotate", "signal", "close", "returned"}
      BY <2>1 DEF SwitchRecord
    <2>3. QED
      BY <1>1, <1>6, <2>1, <2>2 DEF SwitchInv, Types, SwitchTypeOK
  <1>8. RegistrationsAreOwn'
    BY <1>1, <1>2, <1>3, <1>4, <1>5 DEF SwitchInv, RegistrationsAreOwn
  <1>9. RunningIsCancellable' /\ CachedClientsAreCurrent' /\ ConfigsAreRead'
    BY <1>1 DEF SwitchInv, RunningIsCancellable, CachedClientsAreCurrent, ConfigsAreRead
  <1>10. CancelledBefore'
    BY <1>1, <1>3, <1>4, <1>5 DEF SwitchInv, CancelledBefore
  <1>11. OldGenerationsAreDead'
    <2>1. switch' = switch \/ switch.pc # "signal"
      BY DEF UiStep, Suspended, Apply, Drained, RequestDestination, Start, SwitchInv,
         LoopIsWhereItIs
    <2>2. QED
      BY <1>1, <1>3, <1>4, <1>5, <2>1 DEF SwitchInv, OldGenerationsAreDead
  <1>12. LoopIsWhereItIs' /\ RotationsAreBounded'
    <2>1. CASE Suspended
      <3>1. /\ run' = "cancel" /\ switch' = Sent /\ mounted' = Nowhere
            /\ UNCHANGED <<latest, asked, generation>> /\ run = "suspend"
        BY <1>1, <2>1 DEF Suspended, Sent
      <3>2. QED
        BY <1>4, <3>1 DEF SwitchInv, LoopIsWhereItIs, RotationsAreBounded
    <2>2. CASE Apply
      <3>1. /\ run' = "exited" /\ switch' = Quiet /\ mounted' = latest /\ latest' = Nowhere
            /\ UNCHANGED <<asked, generation>> /\ run = "cancel"
        BY <1>1, <2>2 DEF Apply
      <3>2. QED
        BY <1>3, <3>1 DEF SwitchInv, LoopIsWhereItIs, RotationsAreBounded
    <2>3. CASE Drained
      <3>1. /\ run = "exited" /\ switch' = switch
            /\ run' = IF latest = Nowhere THEN "idle" ELSE "suspend"
            /\ UNCHANGED <<mounted, latest, asked, generation>>
        BY <1>1, <2>3 DEF Drained, Start
      <3>2. QED
        BY <3>1 DEF SwitchInv, LoopIsWhereItIs, RotationsAreBounded
    <2>4. CASE \E w \in Workspaces : RequestDestination(w)
      <3>1. PICK w \in Workspaces : RequestDestination(w)
        BY <2>4
      <3>2. /\ latest' = w /\ asked' = w /\ w # Nowhere /\ switch' = switch
            /\ run' = IF run = "idle" THEN "suspend" ELSE run
            /\ generation < MaxRotations /\ UNCHANGED <<mounted, generation>>
        BY <1>1, <3>1 DEF RequestDestination, Start
      <3>3. QED
        BY <1>2, <3>2 DEF SwitchInv, LoopIsWhereItIs, RotationsAreBounded
    <2>5. QED
      BY <2>1, <2>2, <2>3, <2>4 DEF UiStep
  <1>13. QED
    BY <1>7, <1>8, <1>9, <1>10, <1>11, <1>12 DEF SwitchInv

-----------------------------------------------------------------------------
(* Theorems                                                                *)

\* A step that changes nothing keeps the invariant.
LEMMA SwitchStutter_Inv == SwitchInv /\ UNCHANGED switchVars => SwitchInv'
  <1> SUFFICES ASSUME SwitchInv, UNCHANGED switchVars PROVE SwitchInv'
    OBVIOUS
  <1>1. UNCHANGED <<entries, nextReg, taken, cancelled, generation, dead, clients, files, reqs,
                    switch, mounted, latest, asked, run, issued>>
    BY DEF switchVars, backendVars, uiVars, registryVars, clientVars
  <1>2. Types'
    BY <1>1 DEF SwitchInv, Types, SwitchTypeOK
  <1>3. QED
    BY <1>1, <1>2 DEF SwitchInv, RegistrationsAreOwn, RunningIsCancellable, CancelledBefore,
       OldGenerationsAreDead, CachedClientsAreCurrent, ConfigsAreRead, LoopIsWhereItIs,
       RotationsAreBounded

\* Every step of the backend preserves the invariant.
LEMMA Backend_Inv == SwitchInv /\ BackendNext /\ UNCHANGED uiVars => SwitchInv'
  <1> SUFFICES ASSUME SwitchInv, BackendNext, UNCHANGED uiVars PROVE SwitchInv'
    OBVIOUS
  <1>1. CASE RewriteFiles
    BY <1>1, RewriteFiles_Inv
  <1>2. ASSUME NEW q \in Requests, Polled(q) \/ ResolveClient(q) \/ Answered(q)
        PROVE  SwitchInv'
    <2>1. CASE \/ Fingerprint(q) \/ Capture(q) \/ Lookup(q) \/ ResolveClient(q)
               \/ ResolveCancelled(q) \/ Answered(q) \/ CallCancelled(q) \/ GuardCancelled(q)
               \/ Register(q) /\ NameOf[q] = Anonymous
      <3>1. ReadMoves(q) /\ UNCHANGED <<registryVars, clientVars, files, switch>>
        BY <2>1, Reading_Moves
      <3>2. /\ UNCHANGED <<registryVars, clientVars, files, switch, mounted, latest, asked, run>>
            /\ issued' \in [Requests -> 0..MaxRotations]
        BY <3>1 DEF uiVars, SwitchInv, Types, SwitchTypeOK
      <3>3. QED
        BY <3>1, <3>2, Reading_Inv
    <2>2. CASE Store(q)
      BY <2>2, Store_Inv
    <2>3. CASE DropGuard(q)
      BY <2>3, DropGuard_Inv
    <2>4. CASE Register(q) /\ NameOf[q] # Anonymous
      BY <2>4, Register_Inv
    <2>5. QED
      BY <1>2, <2>1, <2>2, <2>3, <2>4 DEF Polled
  <1>3. CASE \E s \in CancelScopes : CancelScope(s)
    BY <1>3, CancelScope_Inv
  <1>4. CASE \E g \in taken : CancelToken(g)
    BY <1>4, CancelToken_Inv
  <1>5. CASE SwitchStep
    BY <1>5, SwitchCancelsAll_Inv, SwitchRotates_Inv, SwitchEnds_Inv DEF SwitchStep
  <1>6. QED
    BY <1>1, <1>2, <1>3, <1>4, <1>5 DEF BackendNext

\* Every step preserves the invariant.
LEMMA SwitchNext_Inv == SwitchInv /\ [SwitchNext]_switchVars => SwitchInv'
  <1> SUFFICES ASSUME SwitchInv, SwitchNext PROVE SwitchInv'
    BY SwitchStutter_Inv
  <1>1. CASE UiStep \/ \E w \in Workspaces : RequestDestination(w)
    BY <1>1, Coordinator_Inv
  <1>2. ASSUME NEW q \in Requests, View(q) PROVE SwitchInv'
    <2>1. Invoke(q) /\ UNCHANGED <<mounted, latest, asked, run>>
      BY <1>2 DEF View
    <2>2. ReadMoves(q) /\ UNCHANGED <<registryVars, clientVars, files, switch>>
      BY <2>1, Reading_Moves
    <2>3. issued' \in [Requests -> 0..MaxRotations]
      BY <1>2 DEF View, SwitchInv, Types, SwitchTypeOK
    <2>4. QED
      BY <2>1, <2>2, <2>3, Reading_Inv
  <1>3. CASE BackendNext /\ UNCHANGED uiVars
    BY <1>3, Backend_Inv
  <1>4. QED
    BY <1>1, <1>2, <1>3 DEF SwitchNext

\* Every reachable state has the invariant.
LEMMA SwitchInvariant == SwitchSpec => []SwitchInv
  BY SwitchInit_Inv, SwitchNext_Inv, PTL DEF SwitchSpec

\* What the invariant says of the moment before the next workspace mounts.
LEMMA LateArrivals == SwitchInv => OnlyLateArrivalsSurvive
  <1> SUFFICES ASSUME SwitchInv, switch.pc = "returned", NEW q \in Requests,
                      reqs[q].pc \in RunningAt, reqs[q].reg \notin cancelled \cup taken,
                      ~(reqs[q].reg >= switch.upto), reqs[q].pc \in HasGeneration
               PROVE  reqs[q].reg = 0 /\ (reqs[q].gen > switch.prev \/ reqs[q].gen \in dead)
    BY DEF OnlyLateArrivalsSurvive, SwitchInv, CancelledBefore
  <1>1. reqs[q].reg = 0
    BY DEF SwitchInv, CancelledBefore
  <1>2. generation = switch.prev + 1 /\ switch.prev \in Nat
    BY DEF SwitchInv, OldGenerationsAreDead, Types, SwitchRecord
  <1>3. reqs[q].gen < generation => reqs[q].gen \in dead
    BY RequestFields DEF SwitchInv, OldGenerationsAreDead
  <1>4. QED
    BY <1>1, <1>2, <1>3, RequestFields

\* While a named request runs it can be cancelled by name; cached clients are of the
\* current generation; when the next workspace mounts, of the earlier reads only those
\* run uncancelled that reached the backend after cancel_all (commands/cancellation.rs,
\* helpers/client_cache.rs, cancel_workspace_requests).
THEOREM RequestsAlwaysAccountedFor == SwitchSpec => []RequestsAreAccountedFor
  <1>1. SwitchInv => RequestsAreAccountedFor
    BY LateArrivals DEF SwitchInv, Types, RequestsAreAccountedFor
  <1>2. QED
    BY SwitchInvariant, <1>1, PTL

\* The coordinator rests only on the destination asked for last, and a client that
\* counts as built from the files on disk was (workspaceTransition.ts,
\* kubeconfig_clients.rs).
THEOREM AlwaysRestsOnWhatIsThere == SwitchSpec => []RestsOnWhatIsThere
  <1>1. SwitchInv => RestsOnNewest
    BY DEF SwitchInv, LoopIsWhereItIs, RestsOnNewest
  <1>2. ASSUME SwitchInv, NEW c \in Contexts, clients[c] # NoClient, clients[c].fp = files
        PROVE  clients[c].config = files
    <2>1. clients[c].fp <= clients[c].config /\ clients[c].config <= files
      BY <1>2 DEF SwitchInv, ConfigsAreRead
    <2>2. clients[c].config \in Nat /\ files \in Nat
      BY <1>2 DEF SwitchInv, Types, SwitchTypeOK
    <2>3. QED
      BY <1>2, <2>1, <2>2
  <1>3. SwitchInv => RestsOnWhatIsThere
    BY <1>1, <1>2 DEF RestsOnWhatIsThere, CachedClientsReflectFiles
  <1>4. QED
    BY SwitchInvariant, <1>3, PTL

\* An older switch cannot rotate the clients under a workspace that has mounted: they
\* rotate while none is (ADR 0009).
THEOREM AlwaysRotatesSuspended == SwitchSpec => RotatesOnlySuspended
  <1>1. SwitchInv /\ [SwitchNext]_switchVars
           => [generation' # generation => mounted = Nowhere]_switchVars
    <2> SUFFICES ASSUME SwitchInv, SwitchNext, generation' # generation
                 PROVE  mounted = Nowhere
      OBVIOUS
    <2>1. SwitchRotates
      BY DEF SwitchNext, UiStep, Suspended, Apply, Drained, RequestDestination, View, Invoke,
         BackendNext, RewriteFiles, Polled, Register, Fingerprint, Capture, Lookup, Store,
         ResolveCancelled, CallCancelled, GuardCancelled, DropGuard, ResolveClient, Answered,
         CancelScope, CancelToken, SwitchStep, SwitchCancelsAll, SwitchSignals,
         SwitchReturns, clientVars
    <2>2. QED
      BY <2>1 DEF SwitchRotates, SwitchInv, LoopIsWhereItIs
  <1>2. QED
    BY SwitchInvariant, <1>1, PTL DEF SwitchSpec, RotatesOnlySuspended
=============================================================================
