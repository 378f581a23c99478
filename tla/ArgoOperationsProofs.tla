------------------------- MODULE ArgoOperationsProofs -------------------------
(***************************************************************************)
(* Proofs about ArgoConnections and ArgoOperations: that connections are   *)
(* kept while they are leased and no longer than their cleanup, that a     *)
(* generation names one token, and that a reviewed session is used once,   *)
(* for any numbers of profiles, commands, sessions and restarts.           *)
(***************************************************************************)
EXTENDS ArgoOperations, TLAPS

USE IdsAssumption, AsksAssumption, NilAssumption, RunsAssumption, RequestsAssumption,
    OperationBounds

-----------------------------------------------------------------------------
(* The store                                                               *)

\* A connection in the store is of the command that installed it, which has come to
\* its end, and nobody has closed its tunnel.
StoreHoldsConnected ==
    \A i \in Ids : connections[i] # Nil =>
        /\ command[connections[i]] = "connected"
        /\ made[connections[i]].id = i
        /\ tunnel[connections[i]] # "closed"

\* Where a command is, and what it has by then.
CommandsAreAsked ==
    \A c \in Connects :
        /\ command[c] # "idle" => made[c].id \in Ids /\ made[c].scope \in Scopes
        /\ command[c] \in {"idle", "begun"} => tunnel[c] = "none"
        /\ command[c] \in {"prepared", "validated"} => tunnel[c] # "closed"
        /\ awaited[c] # Nil => command[c] = "validated"

RemovalsAreOfIds ==
    \A r \in Removers : removal[r].old # Nil => removal[r].id \in Ids

\* What a cleanup has still to remove is on its list.
CleanupsKnowTheirs ==
    /\ closedEpoch <= cleanup_epoch
    /\ \A k \in Cleanups : removal[k].at \in {"begun", "removing"} =>
          removal[k].epoch <= cleanup_epoch
    /\ \A k \in Cleanups : removal[k].at = "removing" =>
          \A i \in Ids :
             connections[i] # Nil /\ made[connections[i]].epoch < removal[k].epoch
                => i \in removal[k].todo

StoreInv ==
    /\ ConnTypeOK
    /\ StoreHoldsConnected
    /\ CommandsAreAsked
    /\ RemovalsAreOfIds
    /\ CleanupsKnowTheirs
    /\ CleanupsAreFinal

-----------------------------------------------------------------------------
(* Credentials                                                             *)

\* Wherever a token and a generation go together.
Bindings ==
    {stored[k] : k \in Ids \X Scopes} \cup {made[c].loaded : c \in Connects}
        \cup {[token |-> made[c].token, generation |-> made[c].generation] : c \in Connects}

\* Of one generation there is one token, wherever it is kept.
BindingsAgree ==
    \A a, b \in Bindings : a.generation # Nil /\ a.generation = b.generation => a.token = b.token

\* A generation is drawn by its command, and is nowhere before that.
GenerationsAreDrawn ==
    \A b \in Bindings, c \in Connects : b.generation # Nil =>
        /\ b.generation = <<c, "fresh">> => command[c] \notin {"idle", "begun", "prepared"}
        /\ b.generation = <<c, "migrated">> => command[c] \notin {"idle", "begun"}

CredentialInv == BindingsAgree /\ GenerationsAreDrawn

-----------------------------------------------------------------------------
(* Operations                                                              *)

ReviewsAreOfRequests ==
    \A s \in Sessions :
        /\ review[s].at \notin {"idle", "refused"} /\ ByConnection(s) =>
              review[s].conn \in Connects
        /\ review[s].at # "idle" => review[s].id \in Ids
        /\ secure[s] = "tombstone" => review[s].at = "issued"

RunsAreOfSessions ==
    \A r \in Runs : run[r].at \in {"checking", "leasing", "sending"} =>
        /\ run[r].session \in Sessions
        /\ review[run[r].session].at = "issued"
        /\ ByConnection(run[r].session) => run[r].conn \in Connects
        /\ run[r].at = "leasing" => ByConnection(run[r].session)

\* A request that is on its way, or was sent, is of a session with a tombstone, and
\* no other is.
SentIsEntombed ==
    /\ \A s \in Sessions :
          sent[s] = 0 \/ (sent[s] = 1 /\ secure[s] = "tombstone")
    /\ \A s \in turned \ unsaved : secure[s] = "tombstone" /\ sent[s] = 0
    /\ \A r \in Runs : run[r].at = "sending" =>
          /\ secure[run[r].session] = "tombstone"
          /\ sent[run[r].session] = 0
          /\ run[r].session \notin turned \ unsaved
    /\ \A r, q \in Runs :
          run[r].at = "sending" /\ run[q].at = "sending" /\ run[r].session = run[q].session
             => r = q

OperationInv ==
    /\ TypeOK
    /\ ReviewsAreOfRequests
    /\ RunsAreOfSessions
    /\ SentIsEntombed
    /\ LeasedConnectionsStay
-----------------------------------------------------------------------------
(* The store through the commands                                          *)

MadeRecord ==
    [id : Ids \cup {Nil}, scope : Scopes \cup {Nil}, epoch : Nat, remember : BOOLEAN,
     submitted : BOOLEAN, loaded : Credential \cup {NoCredential},
     token : Tokens \cup {Nil}, generation : Generations \cup {Nil}]

RemovalRecord ==
    [at : {"idle", "begun", "removing", "done"}, todo : SUBSET Ids, id : Ids \cup {Nil},
     old : Connects \cup {Nil}, epoch : Nat]

StoredRecord == Credential \cup {NoCredential, LegacyCredential}

\* The types by name.
LEMMA ConnTypes ==
    ConnTypeOK <=>
        /\ cleanup_epoch \in Nat /\ closedEpoch \in Nat
        /\ connections \in [Ids -> Connects \cup {Nil}]
        /\ command \in [Connects -> {"idle", "begun", "prepared", "validated", "connected",
                                     "failed"}]
        /\ made \in [Connects -> MadeRecord]
        /\ awaited \in [Connects -> Connects \cup {Nil}]
        /\ tunnel \in [Connects -> {"none", "open", "ended", "closed"}]
        /\ gate \in [Connects -> Holders \cup {Nil}]
        /\ removal \in [Removers -> RemovalRecord]
        /\ stored \in [Ids \X Scopes -> StoredRecord]
  BY DEF ConnTypeOK, MadeRecord, RemovalRecord, StoredRecord

\* The invariant holds at the start.
LEMMA StoreInit_Inv == ConnInit => StoreInv
  <1> SUFFICES ASSUME ConnInit PROVE StoreInv
    OBVIOUS
  <1>1. NotMade \in MadeRecord
    BY DEF NotMade, MadeRecord
  <1>2. [at |-> "idle", todo |-> {}, id |-> Nil, old |-> Nil, epoch |-> 0] \in RemovalRecord
    BY DEF RemovalRecord
  <1>3. stored \in [Ids \X Scopes -> StoredRecord]
    BY DEF ConnInit, StoredRecord
  <1>4. ConnTypeOK
    BY <1>1, <1>2, <1>3, ConnTypes DEF ConnInit
  <1>5. StoreHoldsConnected /\ CommandsAreAsked /\ RemovalsAreOfIds
    BY DEF ConnInit, StoreHoldsConnected, CommandsAreAsked, RemovalsAreOfIds
  <1>6. CleanupsKnowTheirs /\ CleanupsAreFinal
    BY DEF ConnInit, CleanupsKnowTheirs, CleanupsAreFinal, Connected, Removers
  <1>7. QED
    BY <1>4, <1>5, <1>6 DEF StoreInv

\* Gates and credentials are not what the store's invariant is about.
LEMMA StoreStep_Inv ==
    ASSUME StoreInv,
           UNCHANGED <<cleanup_epoch, connections, command, made, awaited, tunnel, removal,
                       closedEpoch>>,
           gate' \in [Connects -> Holders \cup {Nil}],
           stored' \in [Ids \X Scopes -> StoredRecord]
    PROVE  StoreInv'
  <1>1. ConnTypeOK'
    BY DEF StoreInv, ConnTypeOK, StoredRecord
  <1>2. QED
    BY <1>1 DEF StoreInv, StoreHoldsConnected, CommandsAreAsked, RemovalsAreOfIds,
       CleanupsKnowTheirs, CleanupsAreFinal, Connected

\* A command that begins has no tunnel, and no connection in the store.
LEMMA Connect_Inv ==
    ASSUME StoreInv, NEW c \in Connects, Connect(c) PROVE StoreInv'
  <1>1. PICK a \in Asks :
           made' = [made EXCEPT ![c] = [NotMade EXCEPT !.id = a.id, !.scope = a.scope,
                       !.epoch = cleanup_epoch, !.remember = a.remember,
                       !.submitted = a.submitted]]
    BY DEF Connect
  <1> DEFINE m == [NotMade EXCEPT !.id = a.id, !.scope = a.scope, !.epoch = cleanup_epoch,
                                  !.remember = a.remember, !.submitted = a.submitted]
  <1>2. /\ command[c] = "idle" /\ command' = [command EXCEPT ![c] = "begun"]
        /\ UNCHANGED <<cleanup_epoch, connections, gate, closedEpoch, awaited, tunnel,
                       removal, stored>>
    BY DEF Connect, store
  <1>3. ConnTypeOK
    BY DEF StoreInv
  <1>4. m \in MadeRecord /\ m.id \in Ids /\ m.scope \in Scopes
    BY <1>3, ConnTypes DEF NotMade, MadeRecord
  <1> HIDE DEF m
  <1>5. /\ made' \in [Connects -> MadeRecord] /\ made'[c] = m
        /\ \A k \in Connects : k # c => made'[k] = made[k] /\ command'[k] = command[k]
        /\ command' \in [Connects -> {"idle", "begun", "prepared", "validated", "connected",
                                      "failed"}]
        /\ command'[c] = "begun"
    BY <1>1, <1>2, <1>3, <1>4, ConnTypes DEF m
  <1>6. ConnTypeOK'
    BY <1>2, <1>3, <1>5 DEF ConnTypeOK, MadeRecord
  <1>7. \A i \in Ids : connections[i] # Nil => connections[i] # c /\ connections[i] \in Connects
    BY <1>2, <1>3 DEF StoreInv, StoreHoldsConnected, ConnTypeOK
  <1>8. StoreHoldsConnected'
    BY <1>2, <1>5, <1>7 DEF StoreInv, StoreHoldsConnected
  <1>9. CommandsAreAsked'
    BY <1>2, <1>4, <1>5 DEF StoreInv, CommandsAreAsked
  <1>10. RemovalsAreOfIds'
    BY <1>2 DEF StoreInv, RemovalsAreOfIds
  <1>11. CleanupsKnowTheirs'
    BY <1>2, <1>5, <1>7 DEF StoreInv, CleanupsKnowTheirs
  <1>12. CleanupsAreFinal'
    <2>1. tunnel[c] = "none"
      BY <1>2 DEF StoreInv, CommandsAreAsked
    <2>2. QED
      BY <1>2, <1>5, <1>7, <2>1 DEF StoreInv, CleanupsAreFinal, Connected
  <1>13. QED
    BY <1>6, <1>8, <1>9, <1>10, <1>11, <1>12 DEF StoreInv

\* What a command goes through before it reaches the store.
LEMMA Underway_Inv ==
    ASSUME StoreInv, NEW c \in Connects,
           command[c] \in {"begun", "prepared", "validated"},
           UNCHANGED <<cleanup_epoch, connections, gate, closedEpoch, removal>>,
           NEW at \in {"prepared", "validated", "failed"},
           command' = [command EXCEPT ![c] = at],
           NEW t \in {"none", "open", "ended", "closed"},
           tunnel' = [tunnel EXCEPT ![c] = t],
           at = "failed" => t \in {"none", "closed"}, at # "failed" => t # "closed",
           awaited' \in {awaited, [awaited EXCEPT ![c] = Nil]}, awaited'[c] = Nil,
           made' \in [Connects -> MadeRecord], made'[c].id = made[c].id,
           made'[c].scope = made[c].scope,
           \A k \in Connects : k # c => made'[k] = made[k],
           stored' \in [Ids \X Scopes -> StoredRecord]
    PROVE  StoreInv'
  <1>1. ConnTypeOK
    BY DEF StoreInv
  <1>2. /\ command' \in [Connects -> {"idle", "begun", "prepared", "validated", "connected",
                                      "failed"}]
        /\ tunnel' \in [Connects -> {"none", "open", "ended", "closed"}]
        /\ awaited' \in [Connects -> Connects \cup {Nil}]
        /\ command'[c] = at /\ tunnel'[c] = t
        /\ \A k \in Connects : k # c =>
             command'[k] = command[k] /\ tunnel'[k] = tunnel[k] /\ awaited'[k] = awaited[k]
    BY <1>1, ConnTypes
  <1>3. ConnTypeOK'
    BY <1>1, <1>2 DEF ConnTypeOK, MadeRecord, StoredRecord
  <1>4. \A i \in Ids : connections[i] # Nil => connections[i] # c /\ connections[i] \in Connects
    BY <1>1 DEF StoreInv, StoreHoldsConnected, ConnTypeOK
  <1>5. StoreHoldsConnected'
    BY <1>2, <1>4 DEF StoreInv, StoreHoldsConnected
  <1>6. CommandsAreAsked'
    BY <1>2 DEF StoreInv, CommandsAreAsked
  <1>7. RemovalsAreOfIds' /\ CleanupsKnowTheirs'
    BY <1>4 DEF StoreInv, RemovalsAreOfIds, CleanupsKnowTheirs
  <1>8. CleanupsAreFinal'
    BY <1>2, <1>4 DEF StoreInv, CleanupsAreFinal, Connected
  <1>9. QED
    BY <1>3, <1>5, <1>6, <1>7, <1>8 DEF StoreInv

\* The profile and the scope of a command under way.
LEMMA KeyIsKey ==
    ASSUME StoreInv, NEW c \in Connects, command[c] # "idle"
    PROVE  Key(c) \in Ids \X Scopes /\ stored[Key(c)] \in StoredRecord
  BY ConnTypes DEF StoreInv, CommandsAreAsked, Key

\* What is read of a stored credential has a generation.
LEMMA MigratedIsCredential ==
    ASSUME NEW c \in Connects, NEW x \in StoredRecord
    PROVE  /\ Migrated(c, x) \in Credential \cup {NoCredential}
           /\ Migrated(c, x) = x \/ (Migrated(c, x).generation = <<c, "migrated">>
                                       /\ Migrated(c, x).token = <<Nil, "legacy">>)
  <1>1. CASE x = LegacyCredential
    <2>1. Migrated(c, x) = [token |-> <<Nil, "legacy">>, generation |-> <<c, "migrated">>]
      BY <1>1 DEF Migrated, LegacyCredential
    <2>2. <<c, "migrated">> \in Generations /\ <<Nil, "legacy">> \in Tokens
      BY DEF Generations, Tokens
    <2>3. QED
      BY <2>1, <2>2 DEF Credential
  <1>2. CASE x # LegacyCredential
    BY <1>2 DEF Migrated, StoredRecord
  <1>3. QED
    BY <1>1, <1>2

\* The token and the generation of a command.
LEMMA TokenIsToken ==
    ASSUME NEW c \in Connects, made[c] \in MadeRecord
    PROVE  /\ Token(c) \in Tokens /\ Generation(c) \in Generations
           /\ [token |-> Token(c), generation |-> Generation(c)] \in Credential
           /\ \/ Generation(c) = <<c, "fresh">>
              \/ /\ made[c].loaded # NoCredential
                 /\ Token(c) = made[c].loaded.token
                 /\ Generation(c) = made[c].loaded.generation
  <1>1. made[c].loaded \in Credential \cup {NoCredential}
    BY DEF MadeRecord
  <1>2. <<c, "submitted">> \in Tokens /\ <<c, "login">> \in Tokens
    BY DEF Tokens
  <1>3. <<c, "fresh">> \in Generations
    BY DEF Generations
  <1>4. Token(c) \in Tokens
    BY <1>1, <1>2 DEF Token, Credential
  <1>5. Generation(c) \in Generations
    BY <1>1, <1>3 DEF Generation, Credential
  <1>6. \/ Generation(c) = <<c, "fresh">>
        \/ /\ made[c].loaded # NoCredential
           /\ Token(c) = made[c].loaded.token
           /\ Generation(c) = made[c].loaded.generation
    BY DEF Token, Generation
  <1>7. QED
    BY <1>4, <1>5, <1>6 DEF Credential

\* A connect reads its credential and opens its tunnel.
LEMMA Prepare_Inv ==
    ASSUME StoreInv, NEW c \in Connects, Prepare(c) PROVE StoreInv'
  <1> DEFINE record == IF made[c].remember THEN Migrated(c, stored[Key(c)]) ELSE NoCredential
             t == IF made[c].id \in Tunneled THEN "open" ELSE "none"
  <1>1. /\ command[c] = "begun" /\ command' = [command EXCEPT ![c] = "prepared"]
        /\ tunnel' = [tunnel EXCEPT ![c] = t]
        /\ made' = [made EXCEPT ![c].loaded = record]
        /\ stored' = IF made[c].remember THEN [stored EXCEPT ![Key(c)] = record] ELSE stored
        /\ UNCHANGED <<cleanup_epoch, connections, gate, closedEpoch, awaited, removal>>
    BY DEF Prepare, store
  <1>2. made \in [Connects -> MadeRecord] /\ stored \in [Ids \X Scopes -> StoredRecord]
    BY ConnTypes DEF StoreInv
  <1>3. record \in Credential \cup {NoCredential}
    BY <1>1, KeyIsKey, MigratedIsCredential
  <1>4. t \in {"none", "open", "ended", "closed"} /\ t # "closed" /\ awaited[c] = Nil
    BY <1>1 DEF StoreInv, CommandsAreAsked
  <1> HIDE DEF record, t
  <1>5. [made[c] EXCEPT !.loaded = record] \in MadeRecord
    BY <1>2, <1>3 DEF MadeRecord
  <1>6. /\ made' \in [Connects -> MadeRecord]
        /\ made'[c] = [made[c] EXCEPT !.loaded = record]
        /\ \A k \in Connects : k # c => made'[k] = made[k]
    BY <1>1, <1>2, <1>5
  <1>7. made'[c].id = made[c].id /\ made'[c].scope = made[c].scope
    BY <1>2, <1>6 DEF MadeRecord
  <1>8. stored' \in [Ids \X Scopes -> StoredRecord]
    BY <1>1, <1>2, <1>3 DEF StoredRecord
  <1>9. QED
    BY <1>1, <1>4, <1>6, <1>7, <1>8, Underway_Inv

\* The server answers, and the connection knows its token and generation.
LEMMA Validate_Inv ==
    ASSUME StoreInv, NEW c \in Connects, Validate(c) PROVE StoreInv'
  <1> DEFINE m == [made[c] EXCEPT !.token = Token(c), !.generation = Generation(c),
                                  !.loaded = NoCredential]
  <1>1. /\ command[c] = "prepared" /\ command' = [command EXCEPT ![c] = "validated"]
        /\ UNCHANGED <<cleanup_epoch, connections, gate, closedEpoch, awaited, tunnel,
                       removal>>
    BY DEF Validate, store
  <1>2. /\ made \in [Connects -> MadeRecord] /\ stored \in [Ids \X Scopes -> StoredRecord]
        /\ tunnel \in [Connects -> {"none", "open", "ended", "closed"}]
    BY ConnTypes DEF StoreInv
  <1>3. made' = [made EXCEPT ![c] = m]
    BY <1>2 DEF Validate
  <1>4. /\ Token(c) \in Tokens /\ Generation(c) \in Generations
        /\ [token |-> Token(c), generation |-> Generation(c)] \in Credential
    BY <1>2, TokenIsToken
  <1>5. m \in MadeRecord /\ m.id = made[c].id /\ m.scope = made[c].scope
    <2>1. made[c] \in MadeRecord
      BY <1>2
    <2> DEFINE g == Generation(c)
               t == Token(c)
    <2>2. g \in Generations /\ t \in Tokens
      BY <1>4
    <2> HIDE DEF g, t
    <2>3. m = [made[c] EXCEPT !.token = t, !.generation = g, !.loaded = NoCredential]
      BY DEF g, t
    <2> HIDE DEF m
    <2>4. QED
      BY <2>1, <2>2, <2>3 DEF MadeRecord
  <1> HIDE DEF m
  <1>6. /\ made' \in [Connects -> MadeRecord] /\ made'[c] = m
        /\ \A k \in Connects : k # c => made'[k] = made[k]
    BY <1>2, <1>3, <1>5
  <1>7. stored' \in [Ids \X Scopes -> StoredRecord]
    BY <1>2, <1>4 DEF Validate, StoredRecord
  <1>8. awaited[c] = Nil /\ tunnel[c] # "closed"
    BY <1>1 DEF StoreInv, CommandsAreAsked
  <1>9. tunnel' = [tunnel EXCEPT ![c] = tunnel[c]]
    BY <1>1, <1>2
  <1>10. QED
    BY <1>1, <1>2, <1>5, <1>6, <1>7, <1>8, <1>9, Underway_Inv

\* A command that fails drops its tunnel.
LEMMA Failing_Inv ==
    ASSUME StoreInv, NEW c \in Connects, ArgoConnectFails(c) \/ Superseded(c) PROVE StoreInv'
  <1> DEFINE t == IF tunnel[c] = "none" THEN "none" ELSE "closed"
  <1>1. /\ command[c] \in {"begun", "prepared", "validated"}
        /\ command' = [command EXCEPT ![c] = "failed"]
        /\ UNCHANGED <<cleanup_epoch, connections, gate, closedEpoch, made, removal, stored>>
        /\ tunnel' = [tunnel EXCEPT ![c] = t]
    BY DEF ArgoConnectFails, Superseded, store, Dropped
  <1>2. /\ made \in [Connects -> MadeRecord] /\ stored \in [Ids \X Scopes -> StoredRecord]
        /\ awaited \in [Connects -> Connects \cup {Nil}]
    BY ConnTypes DEF StoreInv
  <1>3. awaited' \in {awaited, [awaited EXCEPT ![c] = Nil]} /\ awaited'[c] = Nil
    <2>1. CASE ArgoConnectFails(c)
      BY <2>1 DEF ArgoConnectFails, StoreInv, CommandsAreAsked
    <2>2. CASE Superseded(c)
      BY <1>2, <2>2 DEF Superseded
    <2>3. QED
      BY <2>1, <2>2
  <1>4. QED
    BY <1>1, <1>2, <1>3, Underway_Inv
\* A command whose epoch is current installs its connection, in the place of none or
\* of the one whose gate it has waited for.
LEMMA Installed_Inv ==
    ASSUME StoreInv, NEW c \in Connects, command[c] = "validated", Current(c),
           UNCHANGED <<cleanup_epoch, gate, closedEpoch, made, removal, stored>>,
           connections' = [connections EXCEPT ![made[c].id] = c],
           command' = [command EXCEPT ![c] = "connected"],
           awaited' = [awaited EXCEPT ![c] = Nil],
           tunnel' = IF connections[made[c].id] = Nil THEN tunnel
                     ELSE Dropped(connections[made[c].id])
    PROVE  StoreInv'
  <1> DEFINE old == connections[made[c].id]
  <1>1. ConnTypeOK /\ made[c].id \in Ids /\ c # Nil
    BY DEF StoreInv, CommandsAreAsked
  <1>2. old \in Connects \cup {Nil} /\ old # c
    BY <1>1 DEF ConnTypeOK, StoreInv, StoreHoldsConnected
  <1>3. /\ connections' \in [Ids -> Connects \cup {Nil}]
        /\ connections'[made[c].id] = c
        /\ \A i \in Ids : i # made[c].id => connections'[i] = connections[i]
        /\ command' \in [Connects -> {"idle", "begun", "prepared", "validated", "connected",
                                      "failed"}]
        /\ command'[c] = "connected"
        /\ \A k \in Connects : k # c => command'[k] = command[k] /\ awaited'[k] = awaited[k]
        /\ awaited' \in [Connects -> Connects \cup {Nil}] /\ awaited'[c] = Nil
    BY <1>1 DEF ConnTypeOK
  <1>4. /\ tunnel' \in [Connects -> {"none", "open", "ended", "closed"}]
        /\ \A k \in Connects : k # old => tunnel'[k] = tunnel[k]
        /\ old # Nil => tunnel'[old] \in {"none", "closed"}
    <2>1. CASE old = Nil
      BY <1>1, <2>1 DEF ConnTypeOK
    <2>2. CASE old # Nil
      BY <1>1, <1>2, <2>2 DEF Dropped, ConnTypeOK
    <2>3. QED
      BY <2>1, <2>2
  <1>5. /\ \A i \in Ids : connections[i] # Nil =>
             /\ connections[i] \in Connects /\ made[connections[i]].id = i
             /\ command[connections[i]] = "connected"
        /\ old # Nil => made[old].id = made[c].id /\ command[old] = "connected"
        /\ tunnel[c] # "closed"
    BY <1>1 DEF StoreInv, StoreHoldsConnected, CommandsAreAsked, ConnTypeOK
  <1>6. \A i \in Ids : i # made[c].id /\ connections[i] # Nil =>
             connections[i] # c /\ connections[i] # old
    BY <1>1, <1>5
  <1> HIDE DEF old
  <1>7. ConnTypeOK'
    BY <1>1, <1>3, <1>4 DEF ConnTypeOK
  <1>8. StoreHoldsConnected'
    BY <1>1, <1>2, <1>3, <1>4, <1>5, <1>6 DEF StoreInv, StoreHoldsConnected
  <1>9. CommandsAreAsked'
    BY <1>1, <1>2, <1>3, <1>4, <1>5 DEF StoreInv, CommandsAreAsked
  <1>10. RemovalsAreOfIds'
    BY DEF StoreInv, RemovalsAreOfIds
  <1>11. made[c].epoch = cleanup_epoch /\ cleanup_epoch \in Nat /\ closedEpoch \in Nat
    BY <1>1 DEF Current, ConnTypeOK
  <1>12. CleanupsKnowTheirs'
    <2>1. ASSUME NEW k \in Cleanups, removal[k].at = "removing", NEW i \in Ids,
                 connections'[i] # Nil, made[connections'[i]].epoch < removal[k].epoch
          PROVE  i \in removal[k].todo
      <3>1. removal[k].epoch <= cleanup_epoch /\ removal[k].epoch \in Nat
        BY <1>1, <2>1, ConnTypes DEF StoreInv, CleanupsKnowTheirs, RemovalRecord, Removers
      <3>2. i # made[c].id
        BY <1>3, <1>11, <2>1, <3>1
      <3>3. QED
        BY <1>3, <2>1, <3>2 DEF StoreInv, CleanupsKnowTheirs
    <2>2. QED
      BY <2>1 DEF StoreInv, CleanupsKnowTheirs
  <1>13. CleanupsAreFinal'
    <2>1. \A i \in Ids : connections'[i] # Nil => made[connections'[i]].epoch >= closedEpoch
      BY <1>3, <1>11 DEF StoreInv, CleanupsAreFinal, CleanupsKnowTheirs, Connected
    <2>2. ASSUME NEW k \in Connects, tunnel'[k] \in {"open", "ended"}
          PROVE  command'[k] \in {"prepared", "validated"} \/ connections'[made[k].id] = k
      <3>1. CASE k = c
        BY <1>3, <3>1
      <3>2. CASE k # c
        <4>1. k # old /\ tunnel'[k] = tunnel[k] /\ command'[k] = command[k]
          BY <1>3, <1>4, <2>2, <3>2
        <4>2. CASE command[k] \in {"prepared", "validated"}
          BY <4>1, <4>2
        <4>3. CASE connections[made[k].id] = k /\ command[k] \notin {"prepared", "validated"}
          <5>1. command[k] # "idle"
            BY <2>2, <4>1 DEF StoreInv, CommandsAreAsked
          <5>2. made[k].id \in Ids
            BY <5>1 DEF StoreInv, CommandsAreAsked
          <5>3. made[k].id # made[c].id
            BY <4>1, <4>3 DEF old
          <5>4. QED
            BY <1>3, <4>3, <5>2, <5>3
        <4>4. QED
          BY <2>2, <4>1, <4>2, <4>3 DEF StoreInv, CleanupsAreFinal
      <3>3. QED
        BY <3>1, <3>2
    <2>3. QED
      BY <2>1, <2>2 DEF CleanupsAreFinal, Connected
  <1>14. QED
    BY <1>7, <1>8, <1>9, <1>10, <1>12, <1>13 DEF StoreInv

\* Nothing was stored under the id.
LEMMA Insert_Inv ==
    ASSUME StoreInv, NEW c \in Connects, InsertConnection(c) PROVE StoreInv'
  <1>1. awaited = [awaited EXCEPT ![c] = Nil]
    BY ConnTypes DEF InsertConnection, StoreInv
  <1>2. QED
    BY <1>1, Installed_Inv DEF InsertConnection

\* The wait begins, or starts again: the store is as it was.
LEMMA Await_Inv ==
    ASSUME StoreInv, NEW c \in Connects, command[c] = "validated",
           UNCHANGED <<cleanup_epoch, connections, gate, closedEpoch, command, made, tunnel,
                       removal, stored>>,
           NEW old \in Connects \cup {Nil}, awaited' = [awaited EXCEPT ![c] = old]
    PROVE  StoreInv'
  <1>1. /\ awaited' \in [Connects -> Connects \cup {Nil}]
        /\ \A k \in Connects : k # c => awaited'[k] = awaited[k]
    BY ConnTypes DEF StoreInv
  <1>2. ConnTypeOK' /\ CommandsAreAsked'
    BY <1>1 DEF StoreInv, ConnTypeOK, CommandsAreAsked
  <1>3. QED
    BY <1>2 DEF StoreInv, StoreHoldsConnected, RemovalsAreOfIds, CleanupsKnowTheirs,
       CleanupsAreFinal, Connected

\* The connection that is replaced is awaited, then swapped.
LEMMA Replacing_Inv ==
    ASSUME StoreInv, NEW c \in Connects, AwaitOld(c) \/ Swap(c) PROVE StoreInv'
  <1>1. ConnTypeOK
    BY DEF StoreInv
  <1>2. CASE AwaitOld(c)
    <2>1. command[c] = "validated" /\ connections[made[c].id] \in Connects \cup {Nil}
      BY <1>1, <1>2 DEF AwaitOld, StoreInv, CommandsAreAsked, ConnTypeOK
    <2>2. QED
      BY <1>2, <2>1, Await_Inv DEF AwaitOld, store
  <1>3. CASE Swap(c)
    <2>1. command[c] = "validated" /\ awaited[c] # Nil
      BY <1>3 DEF Swap, StoreInv, CommandsAreAsked
    <2>2. CASE connections[made[c].id] = awaited[c]
      BY <1>3, <2>1, <2>2, Installed_Inv DEF Swap
    <2>3. CASE connections[made[c].id] # awaited[c]
      BY <1>3, <2>1, <2>3, Await_Inv DEF Swap
    <2>4. QED
      BY <2>2, <2>3
  <1>4. QED
    BY <1>2, <1>3

-----------------------------------------------------------------------------
(* The store through removals                                              *)

\* A removal moves on, and takes an id off its list only when there is no connection.
LEMMA Removing_Inv ==
    ASSUME StoreInv, NEW r \in Removers, NEW m \in RemovalRecord,
           removal' = [removal EXCEPT ![r] = m],
           m.old # Nil => m.id \in Ids,
           UNCHANGED <<connections, gate, command, made, awaited, tunnel, stored>>,
           cleanup_epoch' \in Nat, cleanup_epoch <= cleanup_epoch',
           closedEpoch' \in Nat, closedEpoch' <= cleanup_epoch',
           \A i \in Ids : Connected(i) => made[connections[i]].epoch >= closedEpoch',
           r \in Cleanups /\ m.at \in {"begun", "removing"} => m.epoch <= cleanup_epoch',
           r \in Cleanups /\ m.at = "removing" =>
              \A i \in Ids : connections[i] # Nil /\ made[connections[i]].epoch < m.epoch
                 => i \in m.todo
    PROVE  StoreInv'
  <1>1. /\ removal' \in [Removers -> RemovalRecord] /\ removal'[r] = m
        /\ \A k \in Removers : k # r => removal'[k] = removal[k]
        /\ removal \in [Removers -> RemovalRecord] /\ cleanup_epoch \in Nat
    BY ConnTypes DEF StoreInv
  <1>2. ConnTypeOK'
    BY <1>1 DEF StoreInv, ConnTypeOK, RemovalRecord
  <1>3. StoreHoldsConnected' /\ CommandsAreAsked' /\ RemovalsAreOfIds'
    BY <1>1 DEF StoreInv, StoreHoldsConnected, CommandsAreAsked, RemovalsAreOfIds
  <1>4. CleanupsKnowTheirs'
    <2>1. ASSUME NEW k \in Cleanups, removal'[k].at \in {"begun", "removing"}
          PROVE  removal'[k].epoch <= cleanup_epoch'
      <3>1. CASE k = r
        BY <1>1, <2>1, <3>1
      <3>2. CASE k # r
        <4>1. k \in Removers /\ removal'[k] = removal[k] /\ removal[k].epoch \in Nat
          BY <1>1, <3>2 DEF Removers, RemovalRecord
        <4>2. removal[k].epoch <= cleanup_epoch
          BY <2>1, <4>1 DEF StoreInv, CleanupsKnowTheirs
        <4>3. QED
          BY <1>1, <4>1, <4>2
      <3>3. QED
        BY <3>1, <3>2
    <2>2. ASSUME NEW k \in Cleanups, removal'[k].at = "removing", NEW i \in Ids,
                 connections[i] # Nil, made[connections[i]].epoch < removal'[k].epoch
          PROVE  i \in removal'[k].todo
      BY <1>1, <2>2 DEF StoreInv, CleanupsKnowTheirs, Removers
    <2>3. QED
      BY <2>1, <2>2 DEF CleanupsKnowTheirs
  <1>5. CleanupsAreFinal'
    BY DEF StoreInv, CleanupsAreFinal, Connected
  <1>6. QED
    BY <1>2, <1>3, <1>4, <1>5 DEF StoreInv

\* A record of a removal, and what can be made of it.
LEMMA RemovalFacts ==
    ASSUME StoreInv, NEW r \in Removers
    PROVE  /\ removal \in [Removers -> RemovalRecord] /\ removal[r] \in RemovalRecord
           /\ cleanup_epoch \in Nat /\ closedEpoch \in Nat /\ closedEpoch <= cleanup_epoch
           /\ removal[r].epoch \in Nat
           /\ \A i \in Ids : connections[i] \in Connects \cup {Nil}
           /\ \A i \in Ids : Connected(i) =>
                 /\ made[connections[i]].epoch \in Nat
                 /\ made[connections[i]].epoch >= closedEpoch
           /\ r \in Cleanups => r \notin Disconnects
           /\ r \in Cleanups /\ removal[r].at \in {"begun", "removing"} =>
                 removal[r].epoch <= cleanup_epoch
           /\ r \in Cleanups /\ removal[r].at = "removing" =>
                 \A i \in Ids :
                    connections[i] # Nil /\ made[connections[i]].epoch < removal[r].epoch
                       => i \in removal[r].todo
  <1>1. /\ removal \in [Removers -> RemovalRecord] /\ cleanup_epoch \in Nat
        /\ closedEpoch \in Nat /\ connections \in [Ids -> Connects \cup {Nil}]
        /\ made \in [Connects -> MadeRecord]
    BY ConnTypes DEF StoreInv
  <1>2. closedEpoch <= cleanup_epoch /\ removal[r].epoch \in Nat
    BY <1>1 DEF StoreInv, CleanupsKnowTheirs, RemovalRecord
  <1>3. \A i \in Ids : Connected(i) =>
           /\ made[connections[i]].epoch \in Nat
           /\ made[connections[i]].epoch >= closedEpoch
    BY <1>1 DEF StoreInv, CleanupsAreFinal, Connected, MadeRecord
  <1>4. QED
    BY <1>1, <1>2, <1>3 DEF StoreInv, CleanupsKnowTheirs

\* Most steps of a removal only change its own record.
LEMMA Listing_Inv ==
    ASSUME StoreInv, NEW r \in Removers, NEW m \in RemovalRecord,
           removal' = [removal EXCEPT ![r] = m],
           m.old # Nil => m.id \in Ids,
           UNCHANGED <<cleanup_epoch, closedEpoch, connections, gate, command, made, awaited,
                       tunnel, stored>>,
           r \in Cleanups /\ m.at \in {"begun", "removing"} => m.epoch <= cleanup_epoch,
           r \in Cleanups /\ m.at = "removing" =>
              \A i \in Ids : connections[i] # Nil /\ made[connections[i]].epoch < m.epoch
                 => i \in m.todo
    PROVE  StoreInv'
  <1>1. /\ cleanup_epoch' \in Nat /\ cleanup_epoch <= cleanup_epoch'
        /\ closedEpoch' \in Nat /\ closedEpoch' <= cleanup_epoch'
    BY RemovalFacts
  <1>2. \A i \in Ids : Connected(i) => made[connections[i]].epoch >= closedEpoch'
    BY RemovalFacts
  <1>3. r \in Cleanups /\ m.at \in {"begun", "removing"} => m.epoch <= cleanup_epoch'
    OBVIOUS
  <1>4. QED
    BY <1>1, <1>2, <1>3, Removing_Inv

\* A disconnect removes one id.
LEMMA Disconnect_Inv ==
    ASSUME StoreInv, NEW d \in Disconnects, Disconnect(d) PROVE StoreInv'
  <1>1. PICK i \in Ids : removal' = [removal EXCEPT ![d].at = "removing", ![d].todo = {i}]
    BY DEF Disconnect
  <1> DEFINE m == [removal[d] EXCEPT !.at = "removing", !.todo = {i}]
  <1>2. d \in Removers /\ d \notin Cleanups
    BY DEF Removers
  <1>3. removal' = [removal EXCEPT ![d] = m]
    BY <1>1, <1>2, RemovalFacts
  <1>4. m \in RemovalRecord /\ m.old = removal[d].old /\ m.id = removal[d].id
    BY <1>2, RemovalFacts DEF RemovalRecord
  <1>5. removal[d].old # Nil => removal[d].id \in Ids
    BY <1>2 DEF StoreInv, RemovalsAreOfIds
  <1> HIDE DEF m
  <1>6. UNCHANGED <<cleanup_epoch, closedEpoch, connections, gate, command, made, awaited,
                    tunnel, stored>>
    BY DEF Disconnect, store, commands
  <1>7. QED
    BY <1>2, <1>3, <1>4, <1>5, <1>6, Listing_Inv

\* A cleanup begins a new epoch.
LEMMA CloseAll_Inv ==
    ASSUME StoreInv, NEW k \in Cleanups, CloseAll(k) PROVE StoreInv'
  <1> DEFINE m == [removal[k] EXCEPT !.at = "begun", !.epoch = cleanup_epoch + 1]
  <1>1. k \in Removers
    BY DEF Removers
  <1>2. removal' = [removal EXCEPT ![k] = m]
    BY <1>1, RemovalFacts DEF CloseAll
  <1>3. /\ m \in RemovalRecord /\ m.old = removal[k].old /\ m.id = removal[k].id
        /\ m.at = "begun" /\ m.epoch = cleanup_epoch + 1
    <2> DEFINE e == cleanup_epoch + 1
    <2>1. e \in Nat /\ removal[k] \in RemovalRecord
      BY <1>1, RemovalFacts
    <2>2. m = [removal[k] EXCEPT !.at = "begun", !.epoch = e]
      OBVIOUS
    <2> HIDE DEF e, m
    <2>3. QED
      BY <2>1, <2>2 DEF RemovalRecord, e
  <1>4. removal[k].old # Nil => removal[k].id \in Ids
    BY <1>1 DEF StoreInv, RemovalsAreOfIds
  <1> HIDE DEF m
  <1>5. /\ UNCHANGED <<closedEpoch, connections, gate, command, made, awaited, tunnel, stored>>
        /\ cleanup_epoch' = cleanup_epoch + 1
    BY DEF CloseAll, commands
  <1>6. cleanup_epoch' \in Nat /\ cleanup_epoch <= cleanup_epoch' /\ closedEpoch <= cleanup_epoch'
    BY <1>1, <1>5, RemovalFacts
  <1>7. m.epoch <= cleanup_epoch' /\ closedEpoch' \in Nat
    BY <1>1, <1>3, <1>5, RemovalFacts
  <1>8. \A i \in Ids : Connected(i) => made[connections[i]].epoch >= closedEpoch'
    BY <1>1, <1>5, RemovalFacts
  <1>9. QED
    BY <1>1, <1>2, <1>3, <1>4, <1>5, <1>6, <1>7, <1>8, Removing_Inv

\* A cleanup lists what is stored after its epoch has begun.
LEMMA CollectIds_Inv ==
    ASSUME StoreInv, NEW k \in Cleanups, CollectIds(k) PROVE StoreInv'
  <1> DEFINE m == [removal[k] EXCEPT !.at = "removing",
                                     !.todo = {i \in Ids : connections[i] # Nil}]
  <1>1. k \in Removers /\ removal[k].at = "begun"
    BY DEF Removers, CollectIds
  <1>2. removal' = [removal EXCEPT ![k] = m]
    BY <1>1, RemovalFacts DEF CollectIds
  <1>3. /\ m \in RemovalRecord /\ m.old = removal[k].old /\ m.id = removal[k].id
        /\ m.epoch = removal[k].epoch /\ m.todo = {i \in Ids : connections[i] # Nil}
    BY <1>1, RemovalFacts DEF RemovalRecord
  <1>4. removal[k].old # Nil => removal[k].id \in Ids
    BY <1>1 DEF StoreInv, RemovalsAreOfIds
  <1> HIDE DEF m
  <1>5. UNCHANGED <<cleanup_epoch, closedEpoch, connections, gate, command, made, awaited,
                    tunnel, stored>>
    BY DEF CollectIds, store, commands
  <1>6. m.epoch <= cleanup_epoch
    BY <1>1, <1>3, RemovalFacts
  <1>7. QED
    BY <1>1, <1>2, <1>3, <1>4, <1>5, <1>6, Listing_Inv

\* A removal finds the connection of its next id, or that there is none.
LEMMA LookUp_Inv ==
    ASSUME StoreInv, NEW r \in Removers, LookUp(r) PROVE StoreInv'
  <1>1. PICK i \in removal[r].todo :
           removal' = IF connections[i] = Nil
                      THEN [removal EXCEPT ![r].todo = @ \ {i}, ![r].id = Nil]
                      ELSE [removal EXCEPT ![r].id = i, ![r].old = connections[i]]
    BY DEF LookUp
  <1>2. removal[r].at = "removing" /\ removal[r].old = Nil
    BY DEF LookUp
  <1>3. i \in Ids
    BY <1>1, RemovalFacts DEF RemovalRecord
  <1> DEFINE m == IF connections[i] = Nil
                  THEN [removal[r] EXCEPT !.todo = removal[r].todo \ {i}, !.id = Nil]
                  ELSE [removal[r] EXCEPT !.id = i, !.old = connections[i]]
  <1>4. removal' = [removal EXCEPT ![r] = m]
    BY <1>1, RemovalFacts
  <1>5. /\ m \in RemovalRecord /\ m.at = "removing" /\ m.epoch = removal[r].epoch
        /\ m.old # Nil => m.id \in Ids
        /\ \A j \in Ids : j \in removal[r].todo /\ j \notin m.todo => connections[j] = Nil
    BY ZenonT(60), <1>2, <1>3, RemovalFacts DEF RemovalRecord
  <1> HIDE DEF m
  <1>6. UNCHANGED <<cleanup_epoch, closedEpoch, connections, gate, command, made, awaited,
                    tunnel, stored>>
    BY DEF LookUp, store, commands
  <1>7. r \in Cleanups => \A j \in Ids :
           connections[j] # Nil /\ made[connections[j]].epoch < m.epoch => j \in m.todo
    BY <1>2, <1>5, RemovalFacts
  <1>8. r \in Cleanups => m.epoch <= cleanup_epoch
    BY <1>2, <1>5, RemovalFacts
  <1>9. QED
    BY <1>4, <1>5, <1>6, <1>7, <1>8, Listing_Inv

\* A cleanup returns when its list is empty: nothing older than it is left.
LEMMA Removed_Inv ==
    ASSUME StoreInv, NEW r \in Removers, Removed(r) PROVE StoreInv'
  <1> DEFINE m == [removal[r] EXCEPT !.at = "done"]
  <1>1. /\ removal[r].at = "removing" /\ removal[r].todo = {} /\ removal[r].old = Nil
        /\ removal' = [removal EXCEPT ![r] = m]
    BY RemovalFacts DEF Removed
  <1>2. m \in RemovalRecord /\ m.at = "done" /\ m.old = Nil
    BY <1>1, RemovalFacts DEF RemovalRecord
  <1> HIDE DEF m
  <1>3. /\ UNCHANGED <<cleanup_epoch, connections, gate, command, made, awaited, tunnel, stored>>
        /\ closedEpoch' = IF r \in Cleanups /\ removal[r].epoch > closedEpoch
                          THEN removal[r].epoch ELSE closedEpoch
    BY DEF Removed, commands
  <1>4. closedEpoch' \in Nat /\ closedEpoch' <= cleanup_epoch
    BY <1>1, <1>3, RemovalFacts
  <1>5. \A i \in Ids : Connected(i) => made[connections[i]].epoch >= closedEpoch'
    <2> SUFFICES ASSUME NEW i \in Ids, Connected(i), r \in Cleanups,
                        closedEpoch' = removal[r].epoch
                 PROVE  made[connections[i]].epoch >= removal[r].epoch
      BY <1>3, RemovalFacts
    <2>1. ~(made[connections[i]].epoch < removal[r].epoch)
      BY <1>1, RemovalFacts DEF Connected
    <2>2. QED
      BY <2>1, RemovalFacts
  <1>6. cleanup_epoch' \in Nat /\ cleanup_epoch <= cleanup_epoch'
    BY <1>3, RemovalFacts
  <1>7. QED
    BY <1>1, <1>2, <1>3, <1>4, <1>5, <1>6, Removing_Inv

\* Another look-up: the connection in the store is not the one that was awaited.
\* Otherwise it goes, and its tunnel with it.
LEMMA RemoveConnection_Inv ==
    ASSUME StoreInv, NEW r \in Removers, RemoveConnection(r) PROVE StoreInv'
  <1> DEFINE id == removal[r].id
             old == removal[r].old
  <1>1. /\ old # Nil /\ id \in Ids /\ old \in Connects
        /\ UNCHANGED <<cleanup_epoch, gate, closedEpoch, command, made, awaited, stored>>
    BY RemovalFacts DEF RemoveConnection, StoreInv, RemovalsAreOfIds, RemovalRecord, commands
  <1>2. CASE connections[id] # old
    <2> DEFINE m == [removal[r] EXCEPT !.id = Nil, !.old = Nil]
    <2>1. removal' = [removal EXCEPT ![r] = m] /\ UNCHANGED <<connections, tunnel>>
      BY <1>2, RemovalFacts DEF RemoveConnection
    <2>2. /\ m \in RemovalRecord /\ m.old = Nil /\ m.at = removal[r].at
          /\ m.epoch = removal[r].epoch /\ m.todo = removal[r].todo
      BY RemovalFacts DEF RemovalRecord
    <2> HIDE DEF m
    <2>3. /\ r \in Cleanups /\ m.at \in {"begun", "removing"} => m.epoch <= cleanup_epoch
          /\ r \in Cleanups /\ m.at = "removing" => \A i \in Ids :
                connections[i] # Nil /\ made[connections[i]].epoch < m.epoch => i \in m.todo
      BY <2>2, RemovalFacts
    <2>4. QED
      BY <1>1, <2>1, <2>2, <2>3, Listing_Inv
  <1>3. CASE connections[id] = old
    <2> DEFINE m == [removal[r] EXCEPT !.todo = removal[r].todo \ {id}, !.id = Nil, !.old = Nil]
    <2>1. /\ removal' = [removal EXCEPT ![r] = m]
          /\ connections' = [connections EXCEPT ![id] = Nil]
          /\ tunnel' = Dropped(old)
      BY <1>3, RemovalFacts DEF RemoveConnection
    <2>2. /\ m \in RemovalRecord /\ m.old = Nil /\ m.at = removal[r].at
          /\ m.epoch = removal[r].epoch /\ m.todo = removal[r].todo \ {id}
      BY ZenonT(60), RemovalFacts DEF RemovalRecord
    <2> HIDE DEF m
    <2>3. ConnTypeOK
      BY DEF StoreInv
    <2>4. /\ connections' \in [Ids -> Connects \cup {Nil}] /\ connections'[id] = Nil
          /\ \A i \in Ids : i # id => connections'[i] = connections[i]
          /\ tunnel' \in [Connects -> {"none", "open", "ended", "closed"}]
          /\ tunnel'[old] \in {"none", "closed"}
          /\ tunnel[old] = "none" => tunnel'[old] = "none"
          /\ \A k \in Connects : k # old => tunnel'[k] = tunnel[k]
          /\ removal' \in [Removers -> RemovalRecord] /\ removal'[r] = m
          /\ \A k \in Removers : k # r => removal'[k] = removal[k]
      BY <1>1, <2>1, <2>2, <2>3, ConnTypes DEF Dropped
    <2>5. /\ command[old] = "connected" /\ made[old].id = id
          /\ \A i \in Ids : i # id /\ connections[i] # Nil =>
                connections[i] # old /\ connections[i] \in Connects
      BY <1>1, <1>3, <2>3 DEF StoreInv, StoreHoldsConnected, ConnTypeOK
    <2>6. ConnTypeOK'
      BY <1>1, <2>3, <2>4 DEF ConnTypeOK, RemovalRecord
    <2> HIDE DEF id, old
    <2>7. StoreHoldsConnected'
      BY <1>1, <2>4, <2>5 DEF StoreInv, StoreHoldsConnected
    <2>8. CommandsAreAsked'
      BY <1>1, <2>4, <2>5 DEF StoreInv, CommandsAreAsked
    <2>9. RemovalsAreOfIds'
      BY <2>2, <2>4 DEF StoreInv, RemovalsAreOfIds
    <2>10. CleanupsKnowTheirs'
      <3>1. \A k \in Cleanups :
               /\ k \in Removers
               /\ removal'[k].at = removal[k].at /\ removal'[k].epoch = removal[k].epoch
               /\ \A i \in Ids : i # id /\ i \in removal[k].todo => i \in removal'[k].todo
        BY <2>2, <2>4 DEF Removers
      <3>2. QED
        BY <1>1, <2>4, <3>1 DEF StoreInv, CleanupsKnowTheirs
    <2>11. CleanupsAreFinal'
      <3>1. \A i \in Ids : connections'[i] # Nil => made[connections'[i]].epoch >= closedEpoch
        BY <2>4 DEF StoreInv, CleanupsAreFinal, Connected
      <3>2. ASSUME NEW k \in Connects, tunnel'[k] \in {"open", "ended"},
                   command[k] \notin {"prepared", "validated"}
            PROVE  connections'[made[k].id] = k
        <4>1. k # old /\ connections[made[k].id] = k
          BY <2>4, <3>2 DEF StoreInv, CleanupsAreFinal
        <4>2. made[k].id \in Ids
          BY <2>4, <3>2, <4>1 DEF StoreInv, CommandsAreAsked
        <4>3. made[k].id # id
          BY <1>3, <4>1 DEF id, old
        <4>4. QED
          BY <2>4, <4>1, <4>2, <4>3
      <3>3. QED
        BY <1>1, <3>1, <3>2 DEF CleanupsAreFinal, Connected
    <2>12. QED
      BY <2>6, <2>7, <2>8, <2>9, <2>10, <2>11 DEF StoreInv
  <1>4. QED
    BY <1>2, <1>3

\* A tunnel that gives up is still its connection's.
LEMMA TunnelGivesUp_Inv ==
    ASSUME StoreInv, NEW c \in Connects, TunnelGivesUp(c) PROVE StoreInv'
  <1>1. /\ UNCHANGED <<cleanup_epoch, connections, gate, closedEpoch, command, made, awaited,
                       removal, stored>>
        /\ tunnel[c] = "open" /\ tunnel' = [tunnel EXCEPT ![c] = "ended"]
    BY DEF TunnelGivesUp, store, commands
  <1>2. /\ tunnel' \in [Connects -> {"none", "open", "ended", "closed"}]
        /\ tunnel'[c] = "ended" /\ \A k \in Connects : k # c => tunnel'[k] = tunnel[k]
    BY <1>1 DEF StoreInv, ConnTypeOK
  <1>3. ConnTypeOK'
    BY <1>1, <1>2 DEF StoreInv, ConnTypeOK
  <1>4. \A i \in Ids : connections[i] # Nil => connections[i] \in Connects
    BY DEF StoreInv, ConnTypeOK
  <1>5. StoreHoldsConnected' /\ CommandsAreAsked'
    BY <1>1, <1>2, <1>4 DEF StoreInv, StoreHoldsConnected, CommandsAreAsked
  <1>6. RemovalsAreOfIds' /\ CleanupsKnowTheirs' /\ CleanupsAreFinal'
    BY <1>1, <1>2 DEF StoreInv, RemovalsAreOfIds, CleanupsKnowTheirs, CleanupsAreFinal, Connected
  <1>7. QED
    BY <1>3, <1>5, <1>6 DEF StoreInv

\* Every step of the connections keeps the store's invariant.
LEMMA StoreAction_Inv ==
    ASSUME StoreInv, ConnAction PROVE StoreInv'
  <1>1. ASSUME NEW c \in Connects, Connect(c) \/ ConnectStep(c) \/ TunnelGivesUp(c)
        PROVE  StoreInv'
    BY <1>1, Connect_Inv, Prepare_Inv, Validate_Inv, Failing_Inv, Insert_Inv, Replacing_Inv,
       TunnelGivesUp_Inv DEF ConnectStep
  <1>2. ASSUME NEW d \in Disconnects, Disconnect(d) PROVE StoreInv'
    BY <1>2, Disconnect_Inv
  <1>3. ASSUME NEW k \in Cleanups, CloseAll(k) \/ CollectIds(k) PROVE StoreInv'
    BY <1>3, CloseAll_Inv, CollectIds_Inv
  <1>4. ASSUME NEW r \in Removers, RemoveStep(r) PROVE StoreInv'
    BY <1>4, LookUp_Inv, RemoveConnection_Inv, Removed_Inv DEF RemoveStep
  <1>5. ASSUME NEW i \in Ids, NEW s \in Scopes, Forget(i, s) PROVE StoreInv'
    <2>1. /\ UNCHANGED <<cleanup_epoch, connections, command, made, awaited, tunnel, removal,
                         closedEpoch, gate>>
          /\ stored' = [stored EXCEPT ![<<i, s>>] = NoCredential]
      BY <1>5 DEF Forget, store, commands
    <2>2. gate' \in [Connects -> Holders \cup {Nil}]
          /\ stored' \in [Ids \X Scopes -> StoredRecord]
      BY <2>1, ConnTypes DEF StoreInv, StoredRecord
    <2>3. QED
      BY <2>1, <2>2, StoreStep_Inv
  <1>6. QED
    BY <1>1, <1>2, <1>3, <1>4, <1>5 DEF ConnAction
-----------------------------------------------------------------------------
(* Credentials through the commands                                        *)

\* Where the tokens and generations are does not go back to before they were drawn.
CommandsGoOn ==
    \A c \in Connects :
        /\ command'[c] \in {"idle", "begun", "prepared"} =>
              command[c] \in {"idle", "begun", "prepared"}
        /\ command'[c] \in {"idle", "begun"} => command[c] \in {"idle", "begun"}

\* Moving, copying and forgetting what there is keeps the invariant.
LEMMA BindingsStay ==
    ASSUME CredentialInv, CommandsGoOn,
           \A b \in Bindings' : b \in Bindings \/ b.generation = Nil
    PROVE  CredentialInv'
  <1>1. BindingsAgree'
    BY DEF CredentialInv, BindingsAgree
  <1>2. GenerationsAreDrawn'
    BY DEF CredentialInv, GenerationsAreDrawn, CommandsGoOn
  <1>3. QED
    BY <1>1, <1>2 DEF CredentialInv

\* So does a token with a generation that nobody has.
LEMMA BindingDrawn ==
    ASSUME CredentialInv, CommandsGoOn, NEW n, NEW c \in Connects,
           \/ /\ n.generation = <<c, "fresh">>
              /\ command[c] \in {"idle", "begun", "prepared"}
              /\ command'[c] \notin {"idle", "begun", "prepared"}
           \/ /\ n.generation = <<c, "migrated">>
              /\ command[c] \in {"idle", "begun"}
              /\ command'[c] \notin {"idle", "begun"},
           \A b \in Bindings' : b \in Bindings \/ b.generation = Nil \/ b = n
    PROVE  CredentialInv'
  <1>1. \A b \in Bindings : b.generation # Nil => b.generation # n.generation
    BY DEF CredentialInv, GenerationsAreDrawn
  <1>2. BindingsAgree'
    BY <1>1 DEF CredentialInv, BindingsAgree
  <1>3. \A d \in Connects :
          /\ n.generation = <<d, "fresh">> => command'[d] \notin {"idle", "begun", "prepared"}
          /\ n.generation = <<d, "migrated">> => command'[d] \notin {"idle", "begun"}
    OBVIOUS
  <1>4. GenerationsAreDrawn'
    BY <1>3 DEF CredentialInv, GenerationsAreDrawn, CommandsGoOn
  <1>5. QED
    BY <1>2, <1>4 DEF CredentialInv

\* What a command's step binds: what is stored, what the command has loaded, and its
\* token with its generation.
LEMMA BindingsOf ==
    ASSUME StoreInv, NEW b, b \in Bindings'
    PROVE  \/ \E k \in Ids \X Scopes : b = stored'[k]
           \/ \E c \in Connects : b = made'[c].loaded
           \/ \E c \in Connects : b = [token |-> made'[c].token,
                                       generation |-> made'[c].generation]
  BY DEF Bindings

\* Where the pairs of a token and its generation are.
LEMMA IsBinding ==
    /\ \A k \in Ids \X Scopes : stored[k] \in Bindings
    /\ \A c \in Connects : made[c].loaded \in Bindings
    /\ \A c \in Connects :
          [token |-> made[c].token, generation |-> made[c].generation] \in Bindings
  BY DEF Bindings

\* A connect begins without a credential.
LEMMA Connect_Credentials ==
    ASSUME StoreInv, CredentialInv, NEW c \in Connects, Connect(c) PROVE CredentialInv'
  <1>1. PICK a \in Asks :
           made' = [made EXCEPT ![c] = [NotMade EXCEPT !.id = a.id, !.scope = a.scope,
                       !.epoch = cleanup_epoch, !.remember = a.remember,
                       !.submitted = a.submitted]]
    BY DEF Connect
  <1>2. made \in [Connects -> MadeRecord]
        /\ command \in [Connects -> {"idle", "begun", "prepared", "validated", "connected",
                                     "failed"}]
    BY ConnTypes DEF StoreInv
  <1>3. /\ made'[c].loaded = NoCredential /\ made'[c].token = Nil /\ made'[c].generation = Nil
        /\ \A k \in Connects : k # c => made'[k] = made[k]
        /\ stored' = stored
    BY <1>1, <1>2 DEF NotMade, Connect
  <1>4. NoCredential.generation = Nil
    BY DEF NoCredential
  <1>5. ASSUME NEW b \in Bindings' PROVE b \in Bindings \/ b.generation = Nil
    BY <1>3, <1>4, <1>5, BindingsOf, IsBinding
  <1>6. CommandsGoOn
    BY <1>2 DEF CommandsGoOn, Connect
  <1>7. QED
    BY <1>5, <1>6, BindingsStay

\* A remembered token is loaded as it is stored, or is given a generation of its own.
LEMMA Prepare_Credentials ==
    ASSUME StoreInv, CredentialInv, NEW c \in Connects, Prepare(c) PROVE CredentialInv'
  <1> DEFINE record == IF made[c].remember THEN Migrated(c, stored[Key(c)]) ELSE NoCredential
  <1>1. /\ command[c] = "begun" /\ command' = [command EXCEPT ![c] = "prepared"]
        /\ made' = [made EXCEPT ![c].loaded = record]
        /\ stored' = IF made[c].remember THEN [stored EXCEPT ![Key(c)] = record] ELSE stored
    BY DEF Prepare
  <1>2. /\ made \in [Connects -> MadeRecord] /\ stored \in [Ids \X Scopes -> StoredRecord]
        /\ command \in [Connects -> {"idle", "begun", "prepared", "validated", "connected",
                                     "failed"}]
    BY ConnTypes DEF StoreInv
  <1>3. \/ record \in Bindings \/ record.generation = Nil
        \/ record.generation = <<c, "migrated">>
    <2>1. NoCredential.generation = Nil
      BY DEF NoCredential
    <2>2. Key(c) \in Ids \X Scopes /\ stored[Key(c)] \in StoredRecord
      BY <1>1, KeyIsKey
    <2>3. stored[Key(c)] \in Bindings
      BY <2>2, IsBinding
    <2>4. \/ Migrated(c, stored[Key(c)]) = stored[Key(c)]
          \/ Migrated(c, stored[Key(c)]).generation = <<c, "migrated">>
      BY <2>2, MigratedIsCredential
    <2>5. QED
      BY <2>1, <2>3, <2>4
  <1> HIDE DEF record
  <1>4. /\ made'[c].loaded = record /\ made'[c].token = made[c].token
        /\ made'[c].generation = made[c].generation
        /\ \A k \in Connects : k # c => made'[k] = made[k]
    BY <1>1, <1>2 DEF MadeRecord
  <1>5. \A k \in Ids \X Scopes : stored'[k] \in {stored[k], record}
    BY <1>1, <1>2
  <1>6. ASSUME NEW b \in Bindings' PROVE b \in Bindings \/ b = record
    BY <1>4, <1>5, <1>6, BindingsOf, IsBinding
  <1>7. CommandsGoOn
    BY <1>1, <1>2 DEF CommandsGoOn
  <1>8. CASE record \in Bindings \/ record.generation = Nil
    BY <1>6, <1>7, <1>8, BindingsStay
  <1>9. CASE record.generation = <<c, "migrated">>
    <2>1. command'[c] \notin {"idle", "begun"}
      BY <1>1, <1>2
    <2>2. QED
      BY <1>1, <1>6, <1>7, <1>9, <2>1, BindingDrawn
  <1>10. QED
    BY <1>3, <1>8, <1>9

\* A remembered token that is used again keeps its generation, another one draws one.
LEMMA Validate_Credentials ==
    ASSUME StoreInv, CredentialInv, NEW c \in Connects, Validate(c) PROVE CredentialInv'
  <1> DEFINE n == [token |-> Token(c), generation |-> Generation(c)]
  <1>1. /\ command[c] = "prepared" /\ command' = [command EXCEPT ![c] = "validated"]
        /\ made' = [made EXCEPT ![c].token = Token(c), ![c].generation = Generation(c),
                                ![c].loaded = NoCredential]
    BY DEF Validate
  <1>2. /\ made \in [Connects -> MadeRecord] /\ stored \in [Ids \X Scopes -> StoredRecord]
        /\ command \in [Connects -> {"idle", "begun", "prepared", "validated", "connected",
                                     "failed"}]
    BY ConnTypes DEF StoreInv
  <1>3. /\ made'[c].loaded = NoCredential
        /\ made'[c].token = Token(c) /\ made'[c].generation = Generation(c)
        /\ \A k \in Connects : k # c => made'[k] = made[k]
    <2> DEFINE g == Generation(c)
               t == Token(c)
    <2>1. made' = [made EXCEPT ![c] = [made[c] EXCEPT !.token = t, !.generation = g,
                                                      !.loaded = NoCredential]]
      BY <1>1, <1>2
    <2> HIDE DEF g, t
    <2>2. /\ made'[c] = [made[c] EXCEPT !.token = t, !.generation = g,
                                        !.loaded = NoCredential]
          /\ \A k \in Connects : k # c => made'[k] = made[k]
          /\ made[c] \in MadeRecord
      BY <1>2, <2>1
    <2>3. made'[c].loaded = NoCredential /\ made'[c].token = t /\ made'[c].generation = g
      BY <2>2 DEF MadeRecord
    <2>4. QED
      BY <2>2, <2>3 DEF g, t
  <1>4. NoCredential.generation = Nil
    BY DEF NoCredential
  <1>5. \A k \in Ids \X Scopes : stored'[k] \in {stored[k], n, NoCredential}
    BY <1>2 DEF Validate
  <1>6. /\ n.generation = Generation(c)
        /\ n = [token |-> made'[c].token, generation |-> made'[c].generation]
    BY <1>3
  <1> HIDE DEF n
  <1>7. ASSUME NEW b \in Bindings' PROVE b \in Bindings \/ b.generation = Nil \/ b = n
    BY <1>3, <1>4, <1>5, <1>6, <1>7, BindingsOf, IsBinding
  <1>8. CommandsGoOn /\ command'[c] = "validated"
    BY <1>1, <1>2 DEF CommandsGoOn
  <1>9. CASE Generation(c) = <<c, "fresh">>
    BY <1>1, <1>6, <1>7, <1>8, <1>9, BindingDrawn
  <1>10. CASE /\ made[c].loaded # NoCredential /\ Token(c) = made[c].loaded.token
              /\ Generation(c) = made[c].loaded.generation
    <2>1. made[c].loaded \in Credential
      BY <1>2, <1>10 DEF MadeRecord
    <2>2. n = made[c].loaded
      BY <1>3, <1>6, <1>10, <2>1 DEF Credential
    <2>3. n \in Bindings
      BY <2>2, IsBinding
    <2>4. QED
      BY <1>7, <1>8, <2>3, BindingsStay
  <1>11. QED
    BY <1>2, <1>9, <1>10, TokenIsToken

\* With what is made and stored as it was, nothing changes.
LEMMA Unbound_Credentials ==
    ASSUME CredentialInv, UNCHANGED <<made, stored>>, CommandsGoOn PROVE CredentialInv'
  <1>1. Bindings' = Bindings
    BY DEF Bindings
  <1>2. QED
    BY <1>1, BindingsStay

\* Every step of the connections keeps the credentials' invariant.
LEMMA CredentialAction_Inv ==
    ASSUME StoreInv, CredentialInv, ConnAction PROVE CredentialInv'
  <1>1. command \in [Connects -> {"idle", "begun", "prepared", "validated", "connected",
                                  "failed"}]
    BY ConnTypes DEF StoreInv
  <1>2. ASSUME NEW c \in Connects, Connect(c) \/ Prepare(c) \/ Validate(c)
        PROVE  CredentialInv'
    BY <1>2, Connect_Credentials, Prepare_Credentials, Validate_Credentials
  <1>3. ASSUME NEW c \in Connects,
               \/ ArgoConnectFails(c) \/ InsertConnection(c) \/ AwaitOld(c) \/ Swap(c)
               \/ Superseded(c) \/ TunnelGivesUp(c)
        PROVE  CredentialInv'
    <2>1. UNCHANGED <<made, stored>>
      BY <1>3 DEF ArgoConnectFails, InsertConnection, AwaitOld, Swap, Superseded,
         TunnelGivesUp, commands
    <2>2. \/ command' = command
          \/ command' = [command EXCEPT ![c] = "failed"]
          \/ command' = [command EXCEPT ![c] = "connected"]
      BY <1>3 DEF ArgoConnectFails, InsertConnection, AwaitOld, Swap, Superseded,
         TunnelGivesUp, commands
    <2>3. CommandsGoOn
      BY <1>1, <2>2 DEF CommandsGoOn
    <2>4. QED
      BY <2>1, <2>3, Unbound_Credentials
  <1>4. ASSUME \/ \E d \in Disconnects : Disconnect(d)
               \/ \E k \in Cleanups : CloseAll(k) \/ CollectIds(k)
               \/ \E r \in Removers : RemoveStep(r)
        PROVE  CredentialInv'
    <2>1. UNCHANGED <<made, stored, command>>
      BY <1>4 DEF Disconnect, CloseAll, CollectIds, RemoveStep, LookUp, RemoveConnection,
         Removed, commands
    <2>2. QED
      BY <2>1, Unbound_Credentials DEF CommandsGoOn
  <1>5. ASSUME NEW i \in Ids, NEW s \in Scopes, Forget(i, s) PROVE CredentialInv'
    <2>1. /\ UNCHANGED <<made, command>>
          /\ stored' = [stored EXCEPT ![<<i, s>>] = NoCredential]
          /\ stored \in [Ids \X Scopes -> StoredRecord]
      BY <1>5, ConnTypes DEF Forget, commands, StoreInv
    <2>2. NoCredential.generation = Nil
      BY DEF NoCredential
    <2>3. ASSUME NEW b \in Bindings' PROVE b \in Bindings \/ b.generation = Nil
      BY <2>1, <2>2, <2>3, BindingsOf, IsBinding
    <2>4. QED
      BY <2>1, <2>3, BindingsStay DEF CommandsGoOn
  <1>6. QED
    BY <1>2, <1>3, <1>4, <1>5 DEF ConnAction, ConnectStep

\* At first there is no generation.
LEMMA CredentialInit_Inv == ConnInit => CredentialInv
  <1> SUFFICES ASSUME ConnInit PROVE CredentialInv
    OBVIOUS
  <1>1. \A b \in Bindings : b.generation = Nil
    BY DEF ConnInit, Bindings, NotMade, NoCredential, LegacyCredential
  <1>2. QED
    BY <1>1 DEF CredentialInv, BindingsAgree, GenerationsAreDrawn

\* What holds of all pairs holds of those of the connections.
LEMMA BindingsNameTokens == CredentialInv => GenerationNamesToken
  <1> SUFFICES ASSUME CredentialInv, NEW c \in Connects, NEW d \in Connects,
                      made[c].generation # Nil, made[c].generation = made[d].generation
               PROVE  made[c].token = made[d].token
    BY DEF GenerationNamesToken
  <1> DEFINE a == [token |-> made[c].token, generation |-> made[c].generation]
             b == [token |-> made[d].token, generation |-> made[d].generation]
  <1>1. a \in Bindings /\ b \in Bindings
    BY IsBinding
  <1>2. /\ a.token = made[c].token /\ a.generation = made[c].generation
        /\ b.token = made[d].token /\ b.generation = made[d].generation
    OBVIOUS
  <1> HIDE DEF a, b
  <1>3. QED
    BY <1>1, <1>2 DEF CredentialInv, BindingsAgree

-----------------------------------------------------------------------------
(* The connections by themselves                                           *)

\* Leases take and release gates, which neither invariant is about.
LEMMA ConnNext_Inv ==
    StoreInv /\ CredentialInv /\ [ConnNext]_connVars => StoreInv' /\ CredentialInv'
  <1> SUFFICES ASSUME StoreInv, CredentialInv, [ConnNext]_connVars
               PROVE  StoreInv' /\ CredentialInv'
    OBVIOUS
  <1>1. CASE ConnAction
    BY <1>1, StoreAction_Inv, CredentialAction_Inv
  <1>2. CASE UNCHANGED connVars \/ \E h \in Holders : HoldLease(h) \/ EndLease(h)
    <2>1. UNCHANGED <<cleanup_epoch, connections, command, made, awaited, tunnel, removal,
                      closedEpoch, stored>>
      BY <1>2 DEF connVars, HoldLease, EndLease, commands
    <2>2. /\ gate' \in [Connects -> Holders \cup {Nil}]
          /\ stored' \in [Ids \X Scopes -> StoredRecord]
      BY <1>2, <2>1, ConnTypes DEF StoreInv, connVars, HoldLease, EndLease, TakeGate, ReleaseGate
    <2>3. QED
      BY <2>1, <2>2, StoreStep_Inv, Unbound_Credentials DEF CommandsGoOn
  <1>3. QED
    BY <1>1, <1>2 DEF ConnNext

\* Two connections of the same generation carry the same token, whatever was
\* remembered, migrated, replaced or forgotten (connection_generation and
\* load_credential in commands/argo/connected.rs).
THEOREM GenerationsAlwaysNameTokens == ConnSpec => []GenerationNamesToken
  <1>1. ConnInit => StoreInv /\ CredentialInv
    BY StoreInit_Inv, CredentialInit_Inv
  <1>2. QED
    BY <1>1, ConnNext_Inv, BindingsNameTokens, PTL DEF ConnSpec

\* After a cleanup has returned, no connection begun before it is or comes in the
\* store, and no tunnel is left listening without a connection (close_all and
\* replace_connection_at).
THEOREM CleanupsAlwaysFinal == ConnSpec => []CleanupsAreFinal
  <1>1. ConnInit => StoreInv /\ CredentialInv
    BY StoreInit_Inv, CredentialInit_Inv
  <1>2. StoreInv => CleanupsAreFinal
    BY DEF StoreInv
  <1>3. QED
    BY <1>1, <1>2, ConnNext_Inv, PTL DEF ConnSpec

-----------------------------------------------------------------------------
(* The sessions and the runs                                               *)

ReviewRecord ==
    [at : {"idle", "reading", "rereading", "read", "issued", "refused"},
     transport : {"connected", "kubernetes", Nil}, id : Ids \cup {Nil},
     scope : Scopes \cup {Nil}, twice : BOOLEAN, conn : Connects \cup {Nil},
     generation : Generations \cup {Nil}, version : Nat, restarts : Nat]

RunRecord ==
    [at : {"idle", "checking", "leasing", "sending", "ended"},
     session : Sessions \cup {Nil}, conn : Connects \cup {Nil}]

\* The types by name.
LEMMA OpTypes ==
    TypeOK <=>
        /\ ConnTypeOK
        /\ review \in [Sessions -> ReviewRecord]
        /\ records \subseteq Sessions /\ consumed \subseteq Sessions /\ expired \subseteq Sessions
        /\ secure \in [Sessions -> {"absent", "session", "tombstone"}]
        /\ run \in [Runs -> RunRecord]
        /\ version \in Nat /\ restarts \in Nat
        /\ sent \in [Sessions -> Nat]
        /\ turned \subseteq Sessions /\ unsaved \subseteq Sessions /\ lost \subseteq Sessions
  BY DEF TypeOK, ReviewRecord, RunRecord

\* The store's invariant where nothing happens to the store.
LEMMA StoreStutter_Inv == ASSUME StoreInv, UNCHANGED connVars PROVE StoreInv'
  <1>1. /\ gate' \in [Connects -> Holders \cup {Nil}]
        /\ stored' \in [Ids \X Scopes -> StoredRecord]
    BY ConnTypes DEF StoreInv, connVars
  <1>2. QED
    BY <1>1, StoreStep_Inv DEF connVars

\* What a step does not touch, it does not disturb.
LEMMA OpStutter_Inv ==
    ASSUME OperationInv, StoreInv, UNCHANGED <<connVars, review, sessionStore, run, sent, turned, unsaved,
                                     lost, restarts>>,
           expired' \subseteq Sessions, version' \in Nat
    PROVE  OperationInv'
  <1> USE DEF connVars, sessionStore
  <1>1. TypeOK'
    BY DEF OperationInv, TypeOK, ConnTypeOK
  <1>2. ReviewsAreOfRequests' /\ RunsAreOfSessions' /\ SentIsEntombed'
    BY DEF OperationInv, ReviewsAreOfRequests, RunsAreOfSessions, SentIsEntombed, ByConnection
  <1>3. LeasedConnectionsStay'
    BY DEF OperationInv, LeasedConnectionsStay, LeaseHolds, LeaseMatches, InScope, ByConnection
  <1>4. QED
    BY <1>1, <1>2, <1>3 DEF OperationInv

\* A connection in the store whose gate is held stays as it is: whoever would replace
\* or remove it waits for the gate.
LEMMA LeaseKept ==
    ASSUME StoreInv, ConnAction, NEW i \in Ids, NEW c \in Connects,
           connections[i] = c, gate[c] # Nil
    PROVE  /\ connections'[i] = c /\ made'[c] = made[c] /\ gate' = gate
           /\ tunnel'[c] # "closed"
  <1>1. /\ command[c] = "connected" /\ made[c].id = i
        /\ connections \in [Ids -> Connects \cup {Nil}]
        /\ made \in [Connects -> MadeRecord]
    BY ConnTypes DEF StoreInv, StoreHoldsConnected
  <1>2. gate' = gate
    BY DEF ConnAction, Connect, ConnectStep, Prepare, Validate, ArgoConnectFails,
       InsertConnection, AwaitOld, Swap, Superseded, TunnelGivesUp, Disconnect, CloseAll,
       CollectIds, RemoveStep, LookUp, RemoveConnection, Removed, Forget, store
  <1>3. connections'[i] = c
    <2>1. \/ connections' = connections
          \/ \E d \in Connects : InsertConnection(d) \/ Swap(d)
          \/ \E r \in Removers : RemoveConnection(r)
      BY DEF ConnAction, Connect, ConnectStep, Prepare, Validate, ArgoConnectFails,
         AwaitOld, Superseded, TunnelGivesUp, Disconnect, CloseAll,
         CollectIds, RemoveStep, LookUp, Removed, Forget, store
    <2>2. CASE \E d \in Connects : InsertConnection(d) \/ Swap(d)
      BY <1>1, <2>2 DEF InsertConnection, Swap
    <2>3. CASE \E r \in Removers : RemoveConnection(r)
      BY <1>1, <2>3 DEF RemoveConnection
    <2>4. QED
      BY <2>1, <2>2, <2>3
  <1>4. made'[c] = made[c]
    <2>1. \/ made' = made
          \/ \E d \in Connects : Connect(d) \/ Prepare(d) \/ Validate(d)
      BY DEF ConnAction, ConnectStep, ArgoConnectFails,
         InsertConnection, AwaitOld, Swap, Superseded, TunnelGivesUp, Disconnect, CloseAll,
         CollectIds, RemoveStep, LookUp, RemoveConnection, Removed, Forget, commands
    <2>2. CASE \E d \in Connects : Connect(d) \/ Prepare(d) \/ Validate(d)
      <3>1. PICK d \in Connects : Connect(d) \/ Prepare(d) \/ Validate(d)
        BY <2>2
      <3>2. d # c
        BY <1>1, <3>1 DEF Connect, Prepare, Validate
      <3>3. CASE Connect(d)
        BY <1>1, <3>2, <3>3 DEF Connect
      <3>4. CASE Prepare(d)
        BY <1>1, <3>2, <3>4 DEF Prepare
      <3>5. CASE Validate(d)
        BY <1>1, <3>2, <3>5 DEF Validate
      <3>6. QED
        BY <3>1, <3>3, <3>4, <3>5
    <2>3. QED
      BY <2>1, <2>2
  <1>5. tunnel'[c] # "closed"
    <2>1. StoreInv'
      BY StoreAction_Inv
    <2>2. QED
      BY <1>3, <2>1 DEF StoreInv, StoreHoldsConnected
  <1>6. QED
    BY <1>2, <1>3, <1>4, <1>5

\* What the connections do meanwhile does not reach a lease.
LEMMA ConnAction_Operations ==
    ASSUME OperationInv, StoreInv, ConnAction, UNCHANGED opVars PROVE OperationInv'
  <1> USE DEF opVars
  <1>1. TypeOK'
    <2>1. ConnTypeOK'
      BY StoreAction_Inv DEF StoreInv
    <2>2. QED
      BY <2>1 DEF OperationInv, TypeOK
  <1>2. ReviewsAreOfRequests' /\ RunsAreOfSessions' /\ SentIsEntombed'
    BY DEF OperationInv, ReviewsAreOfRequests, RunsAreOfSessions, SentIsEntombed, ByConnection
  <1>3. LeasedConnectionsStay'
    <2> SUFFICES ASSUME NEW r \in Runs, run[r].at = "sending", ByConnection(run[r].session)
                 PROVE  /\ gate'[run[r].conn] = r /\ LeaseHolds(r)'
                        /\ tunnel'[run[r].conn] # "closed"
      BY DEF LeasedConnectionsStay, ByConnection
    <2> DEFINE s == run[r].session
               c == run[r].conn
    <2>1. /\ s \in Sessions /\ c \in Connects /\ review[s].id \in Ids
      BY DEF OperationInv, RunsAreOfSessions, ReviewsAreOfRequests
    <2>2. gate[c] = r /\ r # Nil /\ LeaseHolds(r)
      BY DEF OperationInv, LeasedConnectionsStay
    <2>3. connections[review[s].id] = c
      BY <2>2 DEF LeaseHolds, LeaseMatches
    <2>4. /\ connections'[review[s].id] = c /\ made'[c] = made[c] /\ gate' = gate
          /\ tunnel'[c] # "closed"
      BY <2>1, <2>2, <2>3, LeaseKept
    <2>5. QED
      BY <2>2, <2>4 DEF LeaseHolds, LeaseMatches, InScope
  <1>4. QED
    BY <1>1, <1>2, <1>3 DEF OperationInv

-----------------------------------------------------------------------------
(* Reviews                                                                 *)

\* A review goes on until its session is issued, which no run has confirmed yet.
LEMMA ReviewMoves_Inv ==
    ASSUME OperationInv, StoreInv, NEW s \in Sessions, review[s].at # "issued",
           NEW m \in ReviewRecord, review' = [review EXCEPT ![s] = m],
           m.at \notin {"idle", "refused"} /\ m.transport = "connected" => m.conn \in Connects,
           m.id \in Ids,
           secure' \in {secure, [secure EXCEPT ![s] = "session"]}, records' \subseteq Sessions,
           UNCHANGED <<connVars, consumed, expired, run, version, restarts, history>>
    PROVE  OperationInv'
  <1> USE DEF connVars, history
  <1>1. /\ review \in [Sessions -> ReviewRecord]
        /\ secure \in [Sessions -> {"absent", "session", "tombstone"}]
        /\ secure[s] # "tombstone"
    BY OpTypes DEF OperationInv, ReviewsAreOfRequests
  <1>2. /\ review' \in [Sessions -> ReviewRecord] /\ review'[s] = m
        /\ \A x \in Sessions : x # s => review'[x] = review[x]
    BY <1>1
  <1>3. /\ secure' \in [Sessions -> {"absent", "session", "tombstone"}]
        /\ \A x \in Sessions : secure'[x] = "tombstone" <=> secure[x] = "tombstone"
    BY <1>1
  <1>4. TypeOK'
    BY <1>2, <1>3 DEF OperationInv, TypeOK, ConnTypeOK, ReviewRecord
  <1>5. ReviewsAreOfRequests'
    BY <1>1, <1>2, <1>3 DEF OperationInv, ReviewsAreOfRequests, ByConnection
  <1>6. \A r \in Runs : run[r].at \in {"checking", "leasing", "sending"} =>
          /\ run[r].session \in Sessions
          /\ review'[run[r].session] = review[run[r].session]
    BY <1>2 DEF OperationInv, RunsAreOfSessions
  <1>7. RunsAreOfSessions'
    BY <1>6 DEF OperationInv, RunsAreOfSessions, ByConnection
  <1>8. SentIsEntombed'
    <2>1. turned \subseteq Sessions
      BY OpTypes DEF OperationInv
    <2>2. QED
      BY <1>3, <1>6, <2>1 DEF OperationInv, SentIsEntombed
  <1>9. LeasedConnectionsStay'
    BY <1>6 DEF OperationInv, LeasedConnectionsStay, LeaseHolds, LeaseMatches, InScope,
       ByConnection
  <1>10. QED
    BY <1>4, <1>5, <1>7, <1>8, <1>9 DEF OperationInv

\* A step of a review that only says where the review is.
LEMMA ReviewGoes_Inv ==
    ASSUME OperationInv, StoreInv, NEW s \in Sessions,
           review[s].at \in {"reading", "rereading", "read"},
           NEW at \in {"reading", "rereading", "read", "issued", "refused"},
           NEW g \in Generations \cup {Nil}, NEW v \in Nat,
           review' = [review EXCEPT ![s] = [review[s] EXCEPT !.version = v, !.generation = g,
                                                             !.at = at]],
           secure' \in {secure, [secure EXCEPT ![s] = "session"]}, records' \subseteq Sessions,
           UNCHANGED <<connVars, consumed, expired, run, version, restarts, history>>
    PROVE  OperationInv'
  <1> DEFINE m == [review[s] EXCEPT !.version = v, !.generation = g, !.at = at]
  <1>1. review[s] \in ReviewRecord
    BY OpTypes DEF OperationInv
  <1>2. m \in ReviewRecord
    BY <1>1 DEF ReviewRecord
  <1>3. m.transport = review[s].transport /\ m.conn = review[s].conn /\ m.id = review[s].id
    BY <1>1 DEF ReviewRecord
  <1>4. review' = [review EXCEPT ![s] = m]
    OBVIOUS
  <1> HIDE DEF m
  <1>5. m.id \in Ids /\ (m.transport = "connected" => m.conn \in Connects)
    BY <1>3 DEF OperationInv, ReviewsAreOfRequests, ByConnection
  <1>6. QED
    BY <1>2, <1>4, <1>5, ReviewMoves_Inv

\* The connection that a lookup finds.
LEMMA ScopedIsConnection ==
    ASSUME StoreInv, NEW i \in Ids, NEW s
    PROVE  ScopedConnection(i, s) \in Connects \cup {Nil}
  BY ConnTypes DEF StoreInv, ScopedConnection, InScope

\* A review begins with the connection of its request.
LEMMA Review_Inv ==
    ASSUME OperationInv, StoreInv, NEW s \in Sessions, Review(s) PROVE OperationInv'
  <1>1. PICK q \in Requests :
          LET c == ScopedConnection(q.id, q.scope)
          IN  review' = [review EXCEPT ![s] =
                 [NotReviewed EXCEPT !.transport = q.transport, !.id = q.id,
                    !.scope = q.scope, !.twice = q.twice,
                    !.at = IF q.transport = "connected" /\ c = Nil THEN "refused"
                           ELSE "reading",
                    !.conn = IF q.transport = "connected" THEN c ELSE Nil,
                    !.restarts = restarts]]
    BY DEF Review
  <1> DEFINE c == ScopedConnection(q.id, q.scope)
             at == IF q.transport = "connected" /\ c = Nil THEN "refused" ELSE "reading"
             conn == IF q.transport = "connected" THEN c ELSE Nil
             m == [NotReviewed EXCEPT !.transport = q.transport, !.id = q.id,
                    !.scope = q.scope, !.twice = q.twice, !.at = at, !.conn = conn,
                    !.restarts = restarts]
  <1>2. q.id \in Ids /\ q.scope \in Scopes /\ q.transport \in {"connected", "kubernetes"}
        /\ q.twice \in BOOLEAN
    OBVIOUS
  <1>3. restarts \in Nat
    BY OpTypes DEF OperationInv
  <1>4. review' = [review EXCEPT ![s] = m]
    BY <1>1
  <1>5. /\ at \in {"refused", "reading"} /\ conn \in Connects \cup {Nil}
        /\ at = "reading" /\ q.transport = "connected" => conn \in Connects
    BY <1>2, ScopedIsConnection
  <1> HIDE DEF c, at, conn
  <1>6. /\ m \in ReviewRecord
        /\ m.at = at /\ m.transport = q.transport /\ m.conn = conn /\ m.id = q.id
    BY <1>2, <1>3, <1>5 DEF NotReviewed, ReviewRecord
  <1> HIDE DEF m
  <1>7. /\ review[s].at = "idle" /\ secure' = secure /\ records' = records
        /\ UNCHANGED <<connVars, consumed, expired, run, version, restarts, history>>
    BY DEF Review, sessionStore
  <1>8. records \subseteq Sessions
    BY OpTypes DEF OperationInv
  <1>9. QED
    BY <1>2, <1>4, <1>5, <1>6, <1>7, <1>8, ReviewMoves_Inv

\* What was read is kept with the session, which is then issued, or refused.
LEMMA ReviewStep_Inv ==
    ASSUME OperationInv, StoreInv, NEW s \in Sessions, ReviewStep(s) PROVE OperationInv'
  <1>1. /\ review \in [Sessions -> ReviewRecord] /\ review[s] \in ReviewRecord
        /\ version \in Nat /\ records \subseteq Sessions
    BY OpTypes DEF OperationInv
  <1>2. review[s].version \in Nat /\ review[s].generation \in Generations \cup {Nil}
    BY <1>1 DEF ReviewRecord
  <1>3. ASSUME NEW at, review' = [review EXCEPT ![s].at = at]
        PROVE  review' = [review EXCEPT ![s] = [review[s] EXCEPT
                   !.version = review[s].version, !.generation = review[s].generation, !.at = at]]
    <2>1. [review[s] EXCEPT !.at = at]
            = [review[s] EXCEPT !.version = review[s].version,
                                !.generation = review[s].generation, !.at = at]
      BY <1>1 DEF ReviewRecord
    <2>2. QED
      BY <1>1, <1>3, <2>1
  <1>4. CASE ReviewRead(s)
    <2> DEFINE g == IF ByConnection(s) THEN made[review[s].conn].generation ELSE Nil
               at == IF ~review[s].twice THEN "read"
                     ELSE IF ByConnection(s)
                             /\ ScopedConnection(review[s].id, review[s].scope) = Nil
                     THEN "refused" ELSE "rereading"
    <2>1. /\ review[s].at = "reading"
          /\ review' = [review EXCEPT ![s].version = version, ![s].generation = g, ![s].at = at]
          /\ UNCHANGED <<connVars, sessionStore, expired, run, version, restarts, history>>
      BY <1>4 DEF ReviewRead
    <2>2. ByConnection(s) => review[s].conn \in Connects
      BY <2>1 DEF OperationInv, ReviewsAreOfRequests
    <2>3. g \in Generations \cup {Nil}
      BY <2>2, ConnTypes DEF StoreInv, MadeRecord
    <2>4. at \in {"read", "refused", "rereading"}
      OBVIOUS
    <2> HIDE DEF g, at
    <2>5. review' = [review EXCEPT ![s] = [review[s] EXCEPT !.version = version,
                                           !.generation = g, !.at = at]]
      BY <1>1, <2>1
    <2>6. /\ records' \subseteq Sessions
          /\ secure' \in {secure, [secure EXCEPT ![s] = "session"]}
          /\ review[s].at \in {"reading", "rereading", "read"}
          /\ UNCHANGED <<connVars, consumed, expired, run, version, restarts, history>>
      BY <1>1, <2>1 DEF sessionStore
    <2>7. QED
      BY <1>1, <2>3, <2>4, <2>5, <2>6, ReviewGoes_Inv
  <1>5. CASE ReviewReread(s)
    <2>1. review' = [review EXCEPT ![s].at = "read"]
      BY <1>5 DEF ReviewReread
    <2>2. /\ records' \subseteq Sessions
          /\ secure' \in {secure, [secure EXCEPT ![s] = "session"]}
          /\ review[s].at \in {"reading", "rereading", "read"}
          /\ UNCHANGED <<connVars, consumed, expired, run, version, restarts, history>>
      BY <1>1, <1>5 DEF ReviewReread, sessionStore
    <2>3. QED
      BY ZenonT(60), <1>1, <1>2, <1>3, <2>1, <2>2, ReviewGoes_Inv
  <1>6. CASE Issue(s)
    <2>1. review' = [review EXCEPT ![s].at = "issued"] /\ records' \subseteq Sessions
      BY <1>1, <1>6 DEF Issue
    <2>2. QED
      BY <1>1, <1>2, <1>3, <1>6, <2>1, ReviewGoes_Inv DEF Issue, sessionStore
  <1>7. CASE ReviewFails(s)
    <2>1. review' = [review EXCEPT ![s].at = "refused"]
      BY <1>7 DEF ReviewFails
    <2>2. /\ records' \subseteq Sessions
          /\ secure' \in {secure, [secure EXCEPT ![s] = "session"]}
          /\ review[s].at \in {"reading", "rereading", "read"}
          /\ UNCHANGED <<connVars, consumed, expired, run, version, restarts, history>>
      BY <1>1, <1>7 DEF ReviewFails, sessionStore
    <2>3. QED
      BY ZenonT(60), <1>1, <1>2, <1>3, <2>1, <2>2, ReviewGoes_Inv
  <1>8. QED
    BY <1>4, <1>5, <1>6, <1>7 DEF ReviewStep

-----------------------------------------------------------------------------
(* Runs                                                                    *)

\* What a run that does not send does to its session: nothing, or it is used up, in
\* native storage or only in memory.
SessionMoves(s) ==
    /\ records' \subseteq Sessions /\ consumed' \subseteq Sessions
    /\ \/ UNCHANGED <<secure, turned, unsaved>>
       \/ /\ secure[s] # "tombstone" /\ turned' \in {turned, turned \cup {s}}
          /\ \/ secure' = [secure EXCEPT ![s] = "tombstone"] /\ unsaved' = unsaved
             \/ /\ secure' \in {secure, [secure EXCEPT ![s] = "absent"]}
                /\ unsaved' = unsaved \cup {s}

\* A session is used where consume accepts it.
LEMMA Use_Moves ==
    ASSUME OperationInv, NEW s \in Sessions, Use(s), turned' \in {turned, turned \cup {s}},
           Entombed(s) \/ Unsaved(s)
    PROVE  SessionMoves(s)
  BY OpTypes DEF OperationInv, SessionMoves, Use, Consumable, Entombed, Unsaved

\* Rejecting uses a session up, or leaves one that is used up as it is.
LEMMA Reject_Moves ==
    ASSUME OperationInv, NEW s \in Sessions, Reject(s) PROVE SessionMoves(s)
  <1>1. CASE Consumable(s)
    BY <1>1, Use_Moves DEF Reject
  <1>2. CASE ~Consumable(s)
    BY <1>2, OpTypes DEF OperationInv, SessionMoves, Reject, sessionStore
  <1>3. QED
    BY <1>1, <1>2

\* The types after a run has used a session, or has not.
LEMMA SessionMoves_Types ==
    ASSUME OperationInv, NEW s \in Sessions, SessionMoves(s)
    PROVE  /\ records' \subseteq Sessions /\ consumed' \subseteq Sessions
           /\ secure' \in [Sessions -> {"absent", "session", "tombstone"}]
           /\ turned' \subseteq Sessions /\ unsaved' \subseteq Sessions
           /\ \A x \in Sessions : x # s => secure'[x] = secure[x]
  BY OpTypes DEF OperationInv, SessionMoves

\* A run that goes on to check or to lease, or ends without sending.
LEMMA RunWaits_Inv ==
    ASSUME OperationInv, StoreInv, NEW r \in Runs, NEW s \in Sessions, review[s].at = "issued",
           NEW m \in RunRecord, run' = [run EXCEPT ![r] = m], run[r].at # "sending",
           m.at \in {"checking", "leasing", "ended"}, m.session = s,
           m.at # "ended" /\ ByConnection(s) => m.conn \in Connects,
           m.at = "leasing" => ByConnection(s),
           SessionMoves(s), lost' \subseteq Sessions,
           UNCHANGED <<connVars, reviews, version, restarts, sent>>
    PROVE  OperationInv'
  <1> USE DEF connVars, reviews
  <1>1. /\ run \in [Runs -> RunRecord] /\ turned \subseteq Sessions
        /\ secure \in [Sessions -> {"absent", "session", "tombstone"}]
        /\ sent \in [Sessions -> Nat]
    BY OpTypes DEF OperationInv
  <1>2. /\ run' \in [Runs -> RunRecord] /\ run'[r] = m
        /\ \A q \in Runs : q # r => run'[q] = run[q]
    BY <1>1
  <1>3. \A q \in Runs : run'[q].at = "sending" => q # r /\ run'[q] = run[q]
    BY <1>2
  <1>4. TypeOK'
    BY <1>2, SessionMoves_Types DEF OperationInv, TypeOK, ConnTypeOK, RunRecord
  <1>5. ReviewsAreOfRequests'
    BY SessionMoves_Types DEF OperationInv, ReviewsAreOfRequests, ByConnection
  <1>6. RunsAreOfSessions'
    BY <1>2 DEF OperationInv, RunsAreOfSessions, ByConnection
  <1>7. SentIsEntombed'
    <2>1. \A x \in Sessions : sent[x] = 0 \/ (sent[x] = 1 /\ secure'[x] = "tombstone")
      BY SessionMoves_Types DEF OperationInv, SentIsEntombed, SessionMoves
    <2>2. \A x \in turned' \ unsaved' : secure'[x] = "tombstone" /\ sent[x] = 0
      BY <1>1, SessionMoves_Types DEF OperationInv, SentIsEntombed, SessionMoves
    <2>3. ASSUME NEW q \in Runs, run'[q].at = "sending"
          PROVE  /\ secure'[run'[q].session] = "tombstone"
                 /\ sent[run'[q].session] = 0
                 /\ run'[q].session \notin turned' \ unsaved'
      <3>1. /\ run'[q] = run[q] /\ run[q].session \in Sessions
            /\ secure[run[q].session] = "tombstone" /\ sent[run[q].session] = 0
            /\ run[q].session \notin turned \ unsaved
        BY <1>3, <2>3 DEF OperationInv, SentIsEntombed, RunsAreOfSessions
      <3>2. QED
        BY <1>1, <3>1, SessionMoves_Types DEF SessionMoves
    <2>4. \A p, q \in Runs :
            run'[p].at = "sending" /\ run'[q].at = "sending" /\ run'[p].session = run'[q].session
               => p = q
      BY <1>3 DEF OperationInv, SentIsEntombed
    <2>5. QED
      BY <2>1, <2>2, <2>3, <2>4 DEF SentIsEntombed
  <1>8. LeasedConnectionsStay'
    BY <1>3 DEF OperationInv, LeasedConnectionsStay, LeaseHolds, LeaseMatches, InScope,
       ByConnection
  <1>9. QED
    BY <1>4, <1>5, <1>6, <1>7, <1>8 DEF OperationInv

\* The connections that are leased are those that requests are being sent through,
\* whatever becomes of the gates of others.
LEMMA OtherLeases ==
    ASSUME OperationInv, NEW q \in Runs, run[q].at = "sending", ByConnection(run[q].session),
           run' = [run EXCEPT ![q] = run[q]] \/ run'[q] = run[q],
           UNCHANGED <<connections, made, tunnel, review>>,
           gate'[run[q].conn] = gate[run[q].conn]
    PROVE  /\ gate'[run[q].conn] = q /\ LeaseHolds(q)' /\ tunnel'[run[q].conn] # "closed"
  <1>1. run'[q] = run[q]
    BY OpTypes DEF OperationInv
  <1>2. gate[run[q].conn] = q /\ LeaseHolds(q) /\ tunnel[run[q].conn] # "closed"
    BY DEF OperationInv, LeasedConnectionsStay
  <1>3. QED
    BY <1>1, <1>2 DEF LeaseHolds, LeaseMatches, InScope

\* A run has consumed its session, and holds the gate of its connection.
LEMMA RunSends_Inv ==
    ASSUME OperationInv, StoreInv, NEW r \in Runs, run[r].at \in {"checking", "leasing"},
           run' = At(r, "sending"), Use(run[r].session), Entombed(run[r].session),
           UNCHANGED <<cleanup_epoch, connections, closedEpoch, commands, tunnel, removal, stored,
                       reviews, version, restarts, sent, turned, lost>>,
           IF ByConnection(run[r].session) THEN LeaseHolds(r) /\ TakeGate(r, run[r].conn)
           ELSE UNCHANGED gate
    PROVE  OperationInv'
  <1> USE DEF reviews, commands
  <1> DEFINE s == run[r].session
             c == run[r].conn
  <1>1. /\ run \in [Runs -> RunRecord] /\ turned \subseteq Sessions
        /\ secure \in [Sessions -> {"absent", "session", "tombstone"}]
        /\ sent \in [Sessions -> Nat]
    BY OpTypes DEF OperationInv
  <1>2. /\ s \in Sessions /\ review[s].at = "issued" /\ (ByConnection(s) => c \in Connects)
        /\ review[s].id \in Ids
    BY DEF OperationInv, RunsAreOfSessions, ReviewsAreOfRequests
  <1>3. /\ run' \in [Runs -> RunRecord] /\ run'[r].at = "sending" /\ run'[r].session = s
        /\ run'[r].conn = c /\ \A q \in Runs : q # r => run'[q] = run[q]
    BY <1>1 DEF At, RunRecord
  <1>4. SessionMoves(s) /\ secure[s] # "tombstone" /\ secure'[s] = "tombstone"
        /\ unsaved' = unsaved
    BY <1>1, <1>2, Use_Moves DEF Use, Consumable, Entombed
  <1>5. gate \in [Connects -> Holders \cup {Nil}] /\ gate' \in [Connects -> Holders \cup {Nil}]
    BY <1>2, ConnTypes DEF StoreInv, TakeGate
  <1>6. TypeOK'
    BY <1>2, <1>3, <1>4, <1>5, SessionMoves_Types
       DEF OperationInv, TypeOK, ConnTypeOK, RunRecord
  <1>7. ReviewsAreOfRequests'
    BY <1>2, <1>4, SessionMoves_Types DEF OperationInv, ReviewsAreOfRequests, ByConnection
  <1>8. RunsAreOfSessions'
    BY <1>2, <1>3 DEF OperationInv, RunsAreOfSessions, ByConnection
  <1>9. \A q \in Runs : q # r /\ run[q].at = "sending" =>
           run[q].session \in Sessions /\ run[q].session # s
    BY <1>4 DEF OperationInv, RunsAreOfSessions, SentIsEntombed
  <1>10. s \notin turned \ unsaved /\ sent[s] = 0
    BY <1>2, <1>4 DEF OperationInv, SentIsEntombed
  <1>11. SentIsEntombed'
    <2>1. \A x \in Sessions : sent[x] = 0 \/ (sent[x] = 1 /\ secure'[x] = "tombstone")
      BY <1>2, <1>4, SessionMoves_Types DEF OperationInv, SentIsEntombed
    <2>2. \A x \in turned \ unsaved : secure'[x] = "tombstone" /\ sent[x] = 0
      BY <1>1, <1>2, <1>4, SessionMoves_Types DEF OperationInv, SentIsEntombed
    <2>3. ASSUME NEW q \in Runs, run'[q].at = "sending"
          PROVE  /\ secure'[run'[q].session] = "tombstone"
                 /\ sent[run'[q].session] = 0
                 /\ run'[q].session \notin turned \ unsaved
      <3>1. CASE q = r
        BY <1>3, <1>4, <1>10, <3>1
      <3>2. CASE q # r
        BY <1>2, <1>3, <1>4, <1>9, <2>3, <3>2, SessionMoves_Types DEF OperationInv, SentIsEntombed
      <3>3. QED
        BY <3>1, <3>2
    <2>4. \A p, q \in Runs :
            run'[p].at = "sending" /\ run'[q].at = "sending" /\ run'[p].session = run'[q].session
               => p = q
      BY <1>3, <1>9 DEF OperationInv, SentIsEntombed
    <2>5. QED
      BY <1>4, <2>1, <2>2, <2>3, <2>4 DEF SentIsEntombed
  <1>12. LeasedConnectionsStay'
    <2> SUFFICES ASSUME NEW q \in Runs, run'[q].at = "sending", ByConnection(run'[q].session)
                 PROVE  /\ gate'[run'[q].conn] = q /\ LeaseHolds(q)'
                        /\ tunnel'[run'[q].conn] # "closed"
      BY DEF LeasedConnectionsStay, ByConnection
    <2>1. CASE q = r
      <3>1. ByConnection(s)
        BY <1>3, <2>1
      <3>2. LeaseHolds(r) /\ gate'[c] = r
        BY <1>2, <1>5, <3>1 DEF TakeGate
      <3>3. connections[review[s].id] = c
        BY <3>2 DEF LeaseHolds, LeaseMatches
      <3>4. tunnel[c] # "closed"
        BY <1>2, <3>1, <3>3 DEF StoreInv, StoreHoldsConnected
      <3>5. LeaseHolds(r)'
        BY <1>3, <3>2 DEF LeaseHolds, LeaseMatches, InScope
      <3>6. QED
        BY <1>3, <2>1, <3>2, <3>4, <3>5
    <2>2. CASE q # r
      <3>1. run'[q] = run[q] /\ run[q].at = "sending" /\ ByConnection(run[q].session)
        BY <1>3, <2>2
      <3>2. gate[run[q].conn] = q /\ q # Nil /\ run[q].conn \in Connects
        BY <3>1 DEF OperationInv, LeasedConnectionsStay, RunsAreOfSessions
      <3>3. gate'[run[q].conn] = gate[run[q].conn]
        <4>1. CASE ByConnection(s)
          BY <1>5, <3>2, <4>1 DEF TakeGate
        <4>2. QED
          BY <4>1
      <3>4. QED
        BY <3>1, <3>3, OtherLeases
    <2>3. QED
      BY <2>1, <2>2
  <1>13. QED
    BY <1>6, <1>7, <1>8, <1>11, <1>12 DEF OperationInv

\* The request of a run was sent, and its gate is released.
LEMMA Send_Inv ==
    ASSUME OperationInv, StoreInv, NEW r \in Runs, Send(r)
    PROVE  OperationInv' /\ StoreInv'
  <1> USE DEF reviews, sessionStore, commands
  <1> DEFINE s == run[r].session
             c == run[r].conn
  <1>1. /\ run[r].at = "sending" /\ run' = At(r, "ended")
        /\ sent' = [sent EXCEPT ![s] = @ + 1]
        /\ UNCHANGED <<cleanup_epoch, connections, closedEpoch, commands, tunnel, removal, stored,
                       reviews, sessionStore, restarts, turned, unsaved, lost>>
        /\ IF ByConnection(s) THEN ReleaseGate(c) ELSE UNCHANGED gate
        /\ version' \in {version, version + 1}
    BY DEF Send
  <1>2. /\ run \in [Runs -> RunRecord] /\ turned \subseteq Sessions
        /\ sent \in [Sessions -> Nat] /\ version \in Nat
    BY OpTypes DEF OperationInv
  <1>3. s \in Sessions /\ (ByConnection(s) => c \in Connects)
    BY <1>1 DEF OperationInv, RunsAreOfSessions
  <1>4. /\ run' \in [Runs -> RunRecord] /\ run'[r].at = "ended"
        /\ \A q \in Runs : q # r => run'[q] = run[q]
    BY <1>1, <1>2 DEF At, RunRecord
  <1>5. gate \in [Connects -> Holders \cup {Nil}] /\ gate' \in [Connects -> Holders \cup {Nil}]
    BY <1>1, <1>3, ConnTypes DEF StoreInv, ReleaseGate
  <1>6. StoreInv'
    <2>1. stored \in [Ids \X Scopes -> StoredRecord]
      BY ConnTypes DEF StoreInv
    <2>2. QED
      BY <1>1, <1>5, <2>1, StoreStep_Inv
  <1>7. secure[s] = "tombstone" /\ sent[s] = 0 /\ s \notin turned \ unsaved
    BY <1>1 DEF OperationInv, SentIsEntombed
  <1>8. /\ sent' \in [Sessions -> Nat] /\ sent'[s] = 1
        /\ \A x \in Sessions : x # s => sent'[x] = sent[x]
    BY <1>1, <1>2, <1>3, <1>7
  <1>9. version' \in Nat
    BY <1>1, <1>2
  <1>10. TypeOK'
    <2>1. ConnTypeOK'
      BY <1>6 DEF StoreInv
    <2>2. QED
      BY <1>1, <1>4, <1>8, <1>9, <2>1 DEF OperationInv, TypeOK, RunRecord
  <1>11. ReviewsAreOfRequests'
    BY <1>1 DEF OperationInv, ReviewsAreOfRequests, ByConnection
  <1>12. RunsAreOfSessions'
    BY <1>1, <1>4 DEF OperationInv, RunsAreOfSessions, ByConnection
  <1>13. \A q \in Runs : run'[q].at = "sending" =>
           /\ q # r /\ run'[q] = run[q] /\ run[q].at = "sending"
           /\ run[q].session \in Sessions /\ run[q].session # s
    BY <1>1, <1>4 DEF OperationInv, SentIsEntombed, RunsAreOfSessions
  <1>14. SentIsEntombed'
    <2>1. \A x \in Sessions : sent'[x] = 0 \/ (sent'[x] = 1 /\ secure[x] = "tombstone")
      BY <1>7, <1>8 DEF OperationInv, SentIsEntombed
    <2>2. \A x \in turned \ unsaved : secure[x] = "tombstone" /\ sent'[x] = 0
      BY <1>2, <1>7, <1>8 DEF OperationInv, SentIsEntombed
    <2>3. \A q \in Runs : run'[q].at = "sending" =>
            /\ secure[run'[q].session] = "tombstone"
            /\ sent'[run'[q].session] = 0
            /\ run'[q].session \notin turned \ unsaved
      BY <1>8, <1>13 DEF OperationInv, SentIsEntombed
    <2>4. \A p, q \in Runs :
            run'[p].at = "sending" /\ run'[q].at = "sending" /\ run'[p].session = run'[q].session
               => p = q
      BY <1>13 DEF OperationInv, SentIsEntombed
    <2>5. QED
      BY <1>1, <2>1, <2>2, <2>3, <2>4 DEF SentIsEntombed
  <1>15. LeasedConnectionsStay'
    <2> SUFFICES ASSUME NEW q \in Runs, run'[q].at = "sending", ByConnection(run[q].session)'
                 PROVE  /\ gate'[run'[q].conn] = q /\ LeaseHolds(q)'
                        /\ tunnel'[run'[q].conn] # "closed"
      BY DEF LeasedConnectionsStay, ByConnection
    <2>1. q # r /\ run'[q] = run[q] /\ run[q].at = "sending" /\ ByConnection(run[q].session)
      BY <1>1, <1>13 DEF ByConnection
    <2>2. gate[run[q].conn] = q /\ run[q].conn \in Connects
      BY <2>1 DEF OperationInv, LeasedConnectionsStay, RunsAreOfSessions
    <2>3. gate'[run[q].conn] = gate[run[q].conn]
      <3>1. CASE ByConnection(s)
        <4>1. gate[c] = r
          BY <1>1, <3>1 DEF OperationInv, LeasedConnectionsStay
        <4>2. c # run[q].conn
          BY <2>1, <2>2, <4>1
        <4>3. QED
          BY <1>1, <1>5, <2>2, <3>1, <4>2 DEF ReleaseGate
      <3>2. QED
        BY <1>1, <3>1
    <2>4. QED
      BY <1>1, <2>1, <2>3, OtherLeases
  <1>16. QED
    BY <1>6, <1>10, <1>11, <1>12, <1>14, <1>15 DEF OperationInv

\* The record of a run that is told where it is.
LEMMA RunRecords ==
    ASSUME OperationInv, NEW r \in Runs, NEW at \in {"checking", "leasing", "sending", "ended"},
           run' = At(r, at)
    PROVE  \E m \in RunRecord : /\ run' = [run EXCEPT ![r] = m] /\ m.at = at
                                /\ m.session = run[r].session /\ m.conn = run[r].conn
  <1> DEFINE m == [run[r] EXCEPT !.at = at]
  <1>1. run \in [Runs -> RunRecord]
    BY OpTypes DEF OperationInv
  <1>2. run' = [run EXCEPT ![r] = m]
    BY DEF At
  <1>3. m \in RunRecord /\ m.at = at /\ m.session = run[r].session /\ m.conn = run[r].conn
    BY <1>1 DEF RunRecord
  <1>4. QED
    BY <1>2, <1>3

\* A run that is under way goes on to lease, or ends without sending.
LEMMA RunGoes_Inv ==
    ASSUME OperationInv, StoreInv, NEW r \in Runs, run[r].at \in {"checking", "leasing"},
           NEW at \in {"leasing", "ended"}, run' = At(r, at),
           at = "leasing" => ByConnection(run[r].session), SessionMoves(run[r].session),
           UNCHANGED <<connVars, reviews, version, restarts, sent, lost>>
    PROVE  OperationInv'
  <1>1. /\ run[r].session \in Sessions /\ review[run[r].session].at = "issued"
        /\ ByConnection(run[r].session) => run[r].conn \in Connects
    BY DEF OperationInv, RunsAreOfSessions
  <1>2. PICK m \in RunRecord : /\ run' = [run EXCEPT ![r] = m] /\ m.at = at
                               /\ m.session = run[r].session /\ m.conn = run[r].conn
    BY RunRecords
  <1>3. lost' \subseteq Sessions
    BY OpTypes DEF OperationInv
  <1>4. run[r].at # "sending" /\ m.at \in {"checking", "leasing", "ended"}
    BY <1>2
  <1>5. QED
    BY <1>1, <1>2, <1>3, <1>4, RunWaits_Inv

\* A confirmation is turned away, or goes on to read the Application again.
LEMMA Confirm_Inv ==
    ASSUME OperationInv, StoreInv, NEW r \in Runs, NEW s \in Sessions, Confirm(r, s)
    PROVE  OperationInv'
  <1> DEFINE c == ScopedConnection(review[s].id, review[s].scope)
  <1>1. /\ run[r].at = "idle" /\ review[s].at = "issued"
        /\ UNCHANGED <<connVars, reviews, version, restarts, sent>>
    BY DEF Confirm
  <1>2. c \in Connects \cup {Nil}
    BY <1>1, ScopedIsConnection DEF OperationInv, ReviewsAreOfRequests
  <1>3. lost \subseteq Sessions /\ records \subseteq Sessions /\ consumed \subseteq Sessions
    BY OpTypes DEF OperationInv
  <1>4. CASE ByConnection(s) /\ ~SameConnection(s, c)
    <2> DEFINE m == [at |-> "ended", session |-> s, conn |-> Nil]
    <2>1. run' = [run EXCEPT ![r] = m] /\ Reject(s) /\ lost' \in {lost, lost \cup {s}}
      BY <1>4 DEF Confirm
    <2>2. m \in RunRecord /\ m.at = "ended" /\ m.session = s
      BY DEF RunRecord
    <2> HIDE DEF m
    <2>3. lost' \subseteq Sessions /\ SessionMoves(s)
      BY <1>3, <2>1, Reject_Moves
    <2>4. QED
      BY <1>1, <2>1, <2>2, <2>3, RunWaits_Inv
  <1>5. CASE ~(ByConnection(s) /\ ~SameConnection(s, c))
    <2> DEFINE m == [at |-> "checking", session |-> s,
                     conn |-> IF ByConnection(s) THEN c ELSE Nil]
    <2>1. run' = [run EXCEPT ![r] = m] /\ UNCHANGED <<sessionStore, turned, unsaved, lost>>
      BY <1>5 DEF Confirm
    <2>2. ByConnection(s) => c \in Connects
      BY <1>2, <1>5 DEF SameConnection
    <2>3. /\ m \in RunRecord /\ m.at = "checking" /\ m.session = s
          /\ ByConnection(s) => m.conn \in Connects
      BY <1>2, <2>2 DEF RunRecord
    <2> HIDE DEF m
    <2>4. SessionMoves(s) /\ lost' \subseteq Sessions
      BY <1>3, <2>1 DEF SessionMoves, sessionStore
    <2>5. QED
      BY <1>1, <2>1, <2>3, <2>4, RunWaits_Inv
  <1>6. QED
    BY <1>4, <1>5

\* A run whose Application is the reviewed one leases, sends or ends.
LEMMA Checked_Inv ==
    ASSUME OperationInv, StoreInv, NEW r \in Runs, Checked(r) PROVE OperationInv'
  <1> DEFINE s == run[r].session
  <1>1. /\ run[r].at = "checking"
        /\ UNCHANGED <<connVars, reviews, version, restarts, sent, turned, lost>>
    BY DEF Checked
  <1>2. s \in Sessions /\ records \subseteq Sessions /\ consumed \subseteq Sessions
    BY <1>1, OpTypes DEF OperationInv, RunsAreOfSessions
  <1>3. CASE /\ UNCHANGED <<sessionStore, unsaved>>
             /\ \E at \in {"leasing", "ended"} :
                  run' = At(r, at) /\ (at = "leasing" => ByConnection(s))
    <2>1. SessionMoves(s)
      BY <1>1, <1>2, <1>3 DEF SessionMoves, sessionStore
    <2>2. QED
      BY <1>1, <1>3, <2>1, RunGoes_Inv
  <1>4. CASE Use(s) /\ Unsaved(s) /\ run' = At(r, "ended")
    <2>1. SessionMoves(s)
      BY <1>1, <1>2, <1>4, Use_Moves
    <2>2. QED
      BY <1>1, <1>4, <2>1, RunGoes_Inv
  <1>5. CASE ~ByConnection(s) /\ Use(s) /\ Entombed(s) /\ run' = At(r, "sending")
    BY <1>1, <1>5, RunSends_Inv DEF connVars, commands
  <1>6. QED
    BY <1>3, <1>4, <1>5 DEF Checked

\* A run that is turned away uses its session up.
LEMMA RunFails_Inv ==
    ASSUME OperationInv, StoreInv, NEW r \in Runs, CheckFails(r) \/ LeaseFails(r)
    PROVE  OperationInv'
  <1>1. /\ run[r].at \in {"checking", "leasing"} /\ run' = At(r, "ended")
        /\ Reject(run[r].session)
        /\ UNCHANGED <<connVars, reviews, version, restarts, sent, lost>>
    BY DEF CheckFails, LeaseFails
  <1>2. SessionMoves(run[r].session)
    BY <1>1, Reject_Moves DEF OperationInv, RunsAreOfSessions
  <1>3. QED
    BY <1>1, <1>2, RunGoes_Inv

\* A run that has taken the gate sends, or ends and leaves the gate.
LEMMA Lease_Inv ==
    ASSUME OperationInv, StoreInv, NEW r \in Runs, Lease(r)
    PROVE  OperationInv' /\ StoreInv'
  <1> DEFINE s == run[r].session
             c == run[r].conn
  <1>1. /\ run[r].at = "leasing" /\ LeaseHolds(r)
        /\ UNCHANGED <<cleanup_epoch, connections, closedEpoch, commands, tunnel, removal, stored,
                       reviews, version, restarts, sent, turned, lost>>
    BY DEF Lease
  <1>2. s \in Sessions /\ records \subseteq Sessions /\ consumed \subseteq Sessions
    BY <1>1, OpTypes DEF OperationInv, RunsAreOfSessions
  <1>3. c # Nil
    BY <1>1 DEF LeaseHolds, LeaseMatches, InScope
  <1>4. c \in Connects
    BY <1>3, OpTypes DEF OperationInv, RunRecord
  <1>5. StoreInv'
    <2>1. /\ gate' \in [Connects -> Holders \cup {Nil}]
          /\ stored' \in [Ids \X Scopes -> StoredRecord]
      BY <1>1, <1>4, ConnTypes DEF Lease, TakeGate, StoreInv
    <2>2. QED
      BY <1>1, <2>1, StoreStep_Inv DEF commands
  <1>6. CASE TakeGate(r, c) /\ Use(s) /\ Entombed(s) /\ run' = At(r, "sending")
    <2>1. ByConnection(s)
      BY <1>1 DEF OperationInv, RunsAreOfSessions
    <2>2. IF ByConnection(s) THEN LeaseHolds(r) /\ TakeGate(r, c) ELSE UNCHANGED gate
      BY <1>1, <1>6, <2>1
    <2>3. run[r].at \in {"checking", "leasing"}
      BY <1>1
    <2>4. OperationInv'
      BY <1>1, <1>6, <2>2, <2>3, RunSends_Inv
    <2>5. QED
      BY <1>5, <2>4
  <1>7. CASE /\ run' = At(r, "ended") /\ UNCHANGED gate
             /\ \/ Use(s) /\ Unsaved(s)
                \/ ~Consumable(s) /\ UNCHANGED <<sessionStore, unsaved>>
    <2>1. SessionMoves(s)
      BY <1>1, <1>2, <1>7, Use_Moves DEF SessionMoves, sessionStore
    <2>2. UNCHANGED connVars
      BY <1>1, <1>7 DEF connVars, commands
    <2>3. OperationInv'
      BY <1>1, <1>7, <2>1, <2>2, RunGoes_Inv
    <2>4. QED
      BY <1>5, <2>3
  <1>8. QED
    BY <1>5, <1>6, <1>7 DEF Lease

-----------------------------------------------------------------------------
(* The restart, and the theorems                                           *)

\* After a restart the store is empty, and what was under way has come to its end.
LEMMA Restart_Store ==
    ASSUME StoreInv, Restart PROVE StoreInv'
  <1>1. /\ command \in [Connects -> {"idle", "begun", "prepared", "validated", "connected",
                                     "failed"}]
        /\ made \in [Connects -> MadeRecord]
        /\ tunnel \in [Connects -> {"none", "open", "ended", "closed"}]
        /\ removal \in [Removers -> RemovalRecord]
        /\ stored \in [Ids \X Scopes -> StoredRecord]
    BY ConnTypes DEF StoreInv
  <1>2. /\ cleanup_epoch' = 0 /\ closedEpoch' = 0
        /\ connections' = [i \in Ids |-> Nil]
        /\ command' = [c \in Connects |-> IF command[c] = "idle" THEN "idle" ELSE "failed"]
        /\ awaited' = [c \in Connects |-> Nil]
        /\ tunnel' = [c \in Connects |-> IF tunnel[c] = "none" THEN "none" ELSE "closed"]
        /\ gate' = [c \in Connects |-> Nil]
        /\ made' = made /\ stored' = stored
    BY DEF Restart
  <1>3. /\ removal' \in [Removers -> RemovalRecord]
        /\ \A r \in Removers : removal'[r].at \in {"idle", "done"} /\ removal'[r].old = Nil
    <2> DEFINE m(r) == [removal[r] EXCEPT !.at = IF @ = "idle" THEN "idle" ELSE "done",
                                          !.todo = {}, !.id = Nil, !.old = Nil]
    <2>1. removal' = [r \in Removers |-> m(r)]
      BY DEF Restart
    <2>2. \A r \in Removers : m(r) \in RemovalRecord /\ m(r).at \in {"idle", "done"}
                              /\ m(r).old = Nil
      BY ZenonT(60), <1>1 DEF RemovalRecord
    <2> HIDE DEF m
    <2>3. QED
      BY <2>1, <2>2
  <1>4. ConnTypeOK'
    <2>1. command' \in [Connects -> {"idle", "begun", "prepared", "validated", "connected",
                                     "failed"}]
      BY <1>1, <1>2
    <2>2. tunnel' \in [Connects -> {"none", "open", "ended", "closed"}]
      BY <1>1, <1>2
    <2>3. QED
      BY <1>1, <1>2, <1>3, <2>1, <2>2 DEF ConnTypeOK, MadeRecord, RemovalRecord, StoredRecord
  <1>5. StoreHoldsConnected' /\ RemovalsAreOfIds' /\ CleanupsKnowTheirs'
    BY <1>2, <1>3 DEF StoreHoldsConnected, RemovalsAreOfIds, CleanupsKnowTheirs, Removers
  <1>6. CommandsAreAsked'
    BY <1>1, <1>2 DEF StoreInv, CommandsAreAsked
  <1>7. CleanupsAreFinal'
    BY <1>1, <1>2 DEF CleanupsAreFinal, Connected
  <1>8. QED
    BY <1>4, <1>5, <1>6, <1>7 DEF StoreInv

\* Nothing that was being sent is being sent any more, and native storage is as it was.
LEMMA Restart_Operations ==
    ASSUME OperationInv, StoreInv, Restart PROVE OperationInv'
  <1>1. /\ review \in [Sessions -> ReviewRecord] /\ run \in [Runs -> RunRecord]
        /\ restarts \in Nat
    BY OpTypes DEF OperationInv
  <1>2. /\ review' \in [Sessions -> ReviewRecord]
        /\ \A s \in Sessions :
             /\ review'[s].transport = review[s].transport /\ review'[s].conn = review[s].conn
             /\ review'[s].id = review[s].id
             /\ review'[s].at \in {review[s].at, "refused"}
             /\ review'[s].at = "idle" <=> review[s].at = "idle"
             /\ review[s].at = "issued" => review'[s].at = "issued"
    <2> DEFINE m(s) == [review[s] EXCEPT !.at = IF @ \in {"idle", "issued"} THEN @ ELSE "refused"]
    <2>1. review' = [s \in Sessions |-> m(s)]
      BY DEF Restart
    <2>2. ASSUME NEW s \in Sessions
          PROVE  /\ m(s) \in ReviewRecord /\ m(s).transport = review[s].transport
                 /\ m(s).conn = review[s].conn /\ m(s).id = review[s].id
                 /\ m(s).at \in {review[s].at, "refused"}
                 /\ m(s).at = "idle" <=> review[s].at = "idle"
                 /\ review[s].at = "issued" => m(s).at = "issued"
      <3>1. review[s] \in ReviewRecord
        BY <1>1
      <3>2. QED
        BY <3>1 DEF ReviewRecord
    <2> HIDE DEF m
    <2>3. QED
      BY <2>1, <2>2
  <1>3. run' \in [Runs -> RunRecord] /\ \A r \in Runs : run'[r].at \in {"idle", "ended"}
    <2> DEFINE m(r) == IF run[r].at = "idle" THEN run[r] ELSE [run[r] EXCEPT !.at = "ended"]
    <2>1. run' = [r \in Runs |-> m(r)]
      BY DEF Restart
    <2>2. \A r \in Runs : m(r) \in RunRecord /\ m(r).at \in {"idle", "ended"}
      BY <1>1 DEF RunRecord
    <2> HIDE DEF m
    <2>3. QED
      BY <2>1, <2>2
  <1>4. /\ records' = {} /\ consumed' = {} /\ restarts' = restarts + 1
        /\ UNCHANGED <<secure, expired, version, sent, turned, unsaved, lost>>
    BY DEF Restart, history
  <1>5. TypeOK'
    <2>1. ConnTypeOK'
      BY Restart_Store DEF StoreInv
    <2>2. restarts' \in Nat
      BY <1>1, <1>4
    <2>3. QED
      BY <1>2, <1>3, <1>4, <2>1, <2>2
         DEF OperationInv, TypeOK, ReviewRecord, RunRecord
  <1>6. ReviewsAreOfRequests'
    BY <1>2, <1>4 DEF OperationInv, ReviewsAreOfRequests, ByConnection
  <1>7. RunsAreOfSessions' /\ LeasedConnectionsStay'
    BY <1>3 DEF RunsAreOfSessions, LeasedConnectionsStay
  <1>8. SentIsEntombed'
    BY <1>3, <1>4 DEF OperationInv, SentIsEntombed
  <1>9. QED
    BY <1>5, <1>6, <1>7, <1>8 DEF OperationInv

\* The invariant holds at the start.
LEMMA OperationInit_Inv == Init => OperationInv /\ StoreInv
  <1> SUFFICES ASSUME Init PROVE OperationInv /\ StoreInv
    OBVIOUS
  <1>1. StoreInv
    BY StoreInit_Inv DEF Init
  <1>2. NotReviewed \in ReviewRecord /\ NotRunning \in RunRecord
    BY DEF NotReviewed, NotRunning, ReviewRecord, RunRecord
  <1>3. TypeOK
    BY <1>1, <1>2, OpTypes DEF StoreInv, Init
  <1>4. ReviewsAreOfRequests /\ RunsAreOfSessions /\ SentIsEntombed /\ LeasedConnectionsStay
    BY DEF Init, ReviewsAreOfRequests, RunsAreOfSessions, SentIsEntombed, LeasedConnectionsStay,
       NotReviewed, NotRunning
  <1>5. QED
    BY <1>1, <1>3, <1>4 DEF OperationInv

\* Every step keeps it.
LEMMA OperationNext_Inv ==
    OperationInv /\ StoreInv /\ [Next]_vars => OperationInv' /\ StoreInv'
  <1> SUFFICES ASSUME OperationInv, StoreInv, [Next]_vars
               PROVE  OperationInv' /\ StoreInv'
    OBVIOUS
  <1>1. CASE ConnAction /\ UNCHANGED opVars
    BY <1>1, StoreAction_Inv, ConnAction_Operations
  <1>2. ASSUME NEW s \in Sessions, Review(s) \/ ReviewStep(s)
        PROVE  OperationInv' /\ StoreInv'
    <2>1. UNCHANGED connVars
      BY <1>2 DEF Review, ReviewStep, ReviewRead, ReviewReread, Issue, ReviewFails
    <2>2. QED
      BY <1>2, <2>1, StoreStutter_Inv, Review_Inv, ReviewStep_Inv
  <1>3. CASE (\E s \in Sessions : Expire(s)) \/ Change \/ UNCHANGED vars
    <2>1. /\ UNCHANGED <<connVars, review, sessionStore, run, sent, turned, unsaved, lost,
                         restarts>>
          /\ expired' \subseteq Sessions /\ version' \in Nat
      BY <1>3, OpTypes DEF OperationInv, Expire, Change, vars, opVars, sessionStore, history
    <2>2. QED
      BY <2>1, StoreStutter_Inv, OpStutter_Inv
  <1>4. ASSUME NEW r \in Runs,
               Checked(r) \/ CheckFails(r) \/ LeaseFails(r) \/ \E s \in Sessions : Confirm(r, s)
        PROVE  OperationInv' /\ StoreInv'
    <2>1. UNCHANGED connVars
      BY <1>4 DEF Checked, CheckFails, LeaseFails, Confirm
    <2>2. QED
      BY <1>4, <2>1, StoreStutter_Inv, Checked_Inv, RunFails_Inv, Confirm_Inv
  <1>5. ASSUME NEW r \in Runs, Lease(r) \/ Send(r) PROVE OperationInv' /\ StoreInv'
    BY <1>5, Lease_Inv, Send_Inv
  <1>6. CASE Restart
    BY <1>6, Restart_Store, Restart_Operations
  <1>7. QED
    BY <1>1, <1>2, <1>3, <1>4, <1>5, <1>6 DEF Next, RunStep

\* While a request is sent through a connection, the connection is the one in the
\* store, with the reviewed credential and a tunnel that nobody has closed; and no
\* connection outlives the cleanup of its workspace (acquire_connection_lease,
\* replace_connection_at and remove_connection in commands/argo).
THEOREM ConnectionsAlwaysKept == Spec => []ConnectionsAreKept
  <1>1. OperationInv /\ StoreInv => ConnectionsAreKept
    BY DEF OperationInv, StoreInv, ConnectionsAreKept
  <1>2. QED
    BY <1>1, OperationInit_Inv, OperationNext_Inv, PTL DEF Spec

\* A reviewed session is sent at most once, whatever the confirmations that race for
\* it, the restarts in between and the writes that native storage refuses; and one
\* that a failed confirmation has used up is not sent (consume and
\* reject_reviewed_operation in commands/argo/session.rs and operations.rs).
THEOREM SessionsAlwaysSingleUse == Spec => []SessionsAreSingleUse
  <1>1. OperationInv => SessionsAreSingleUse
    BY OpTypes DEF OperationInv, SentIsEntombed, SessionsAreSingleUse
  <1>2. QED
    BY <1>1, OperationInit_Inv, OperationNext_Inv, PTL DEF Spec

\* Operations, reviews and restarts leave credentials alone.
LEMMA OperationNext_Credentials ==
    StoreInv /\ CredentialInv /\ [Next]_vars => CredentialInv'
  <1> SUFFICES ASSUME StoreInv, CredentialInv, [Next]_vars PROVE CredentialInv'
    OBVIOUS
  <1>1. CASE ConnAction /\ UNCHANGED opVars
    BY <1>1, CredentialAction_Inv
  <1>2. CASE Restart
    BY <1>2, Unbound_Credentials DEF Restart, CommandsGoOn
  <1>3. ASSUME NEW s \in Sessions, Review(s) \/ ReviewStep(s) \/ Expire(s)
        PROVE  UNCHANGED <<command, made, stored>>
    BY <1>3 DEF Review, ReviewStep, ReviewRead, ReviewReread, Issue, ReviewFails, Expire, connVars
  <1>4. ASSUME NEW r \in Runs, RunStep(r) \/ \E s \in Sessions : Confirm(r, s)
        PROVE  UNCHANGED <<command, made, stored>>
    BY <1>4 DEF RunStep, Checked, CheckFails, Lease, LeaseFails, Send, Confirm, connVars, commands
  <1>5. CASE UNCHANGED <<command, made, stored>>
    BY <1>5, Unbound_Credentials DEF CommandsGoOn
  <1>6. CASE Change \/ UNCHANGED vars
    BY <1>5, <1>6 DEF Change, vars, connVars
  <1>7. QED
    BY <1>1, <1>2, <1>3, <1>4, <1>5, <1>6 DEF Next

\* A review binds a generation that still names the token it was reviewed with, also
\* after a restart (session.rs keeps the generation in native storage).
THEOREM GenerationsOutliveRestarts == Spec => []GenerationNamesToken
  <1>1. Init => CredentialInv
    BY CredentialInit_Inv DEF Init
  <1>2. QED
    BY <1>1, OperationInit_Inv, OperationNext_Inv, OperationNext_Credentials,
       BindingsNameTokens, PTL DEF Spec
=============================================================================
