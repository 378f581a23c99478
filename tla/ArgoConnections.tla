--------------------------- MODULE ArgoConnections ---------------------------
(* Connected Argo CD servers: the store of commands/argo/connected.rs, the   *)
(* lease of scope.rs and the private Service tunnel of tunnel.rs.            *)
(*                                                                          *)
(* A connection is identified with the connect_argo_server command that made *)
(* it: that is its Arc, its instance_id and its tunnel.  The gate of a       *)
(* connection is a lock that operations hold across their request, and that  *)
(* a replacement or a removal of the connection waits for.  What is sent over *)
(* HTTP is left out; each call may fail.                                     *)
EXTENDS Naturals

CONSTANTS
    Connects,    \* connect_argo_server commands, and their connections
    Ids,         \* profile ids
    Scopes,      \* workspace, context and kubeconfig source of a profile
    Tunneled,    \* the profile ids whose endpoint is a Service tunnel
    Disconnects, \* disconnect_argo_server commands
    Cleanups,    \* close_all calls of cancel_workspace_requests
    Holders,     \* operations that may lease a connection
    Legacy,      \* the profile ids whose credential an older version stored
    Asks,        \* what a connect_argo_server command may be asked for
    Nil

ASSUME IdsAssumption == Tunneled \subseteq Ids /\ Legacy \subseteq Ids
ASSUME AsksAssumption ==
    Asks \subseteq [id : Ids, scope : Scopes, remember : BOOLEAN, submitted : BOOLEAN]
ASSUME NilAssumption ==
    /\ Nil \notin Connects /\ Nil \notin Ids /\ Nil \notin Scopes /\ Nil \notin Holders
    /\ Disconnects \cap Cleanups = {}

VARIABLES
    cleanup_epoch, \* number of cleanups begun
    connections,   \* profile id -> the connection the store has for it
    command,       \* connect -> where the command is
    made,          \* connect -> what it was asked for, and what it decided
    awaited,       \* connect -> the connection whose gate its replacement awaits
    tunnel,        \* connect -> its Service tunnel
    gate,          \* connection -> who holds its gate
    removal,       \* disconnect or cleanup -> the ids it still has to remove
    stored,        \* profile and scope -> the credential in native storage
    closedEpoch    \* history: the newest epoch whose cleanup has returned

store == <<cleanup_epoch, connections, gate, closedEpoch>>
commands == <<command, made, awaited>>
connVars == <<cleanup_epoch, connections, command, made, awaited, tunnel, gate, removal,
              stored, closedEpoch>>

Removers == Disconnects \cup Cleanups
\* A generation is a fresh uuid: it is named by the command that drew it.
Generations == Connects \X {"fresh", "migrated"}
Tokens == (Connects \X {"submitted", "login"}) \cup {<<Nil, "legacy">>}
Credential == [token : Tokens, generation : Generations]
NoCredential == [token |-> Nil, generation |-> Nil]
\* A credential written by a version that stored the token alone.
LegacyCredential == [token |-> <<Nil, "legacy">>, generation |-> Nil]

NotMade == [id |-> Nil, scope |-> Nil, epoch |-> 0, remember |-> FALSE,
            submitted |-> FALSE, loaded |-> NoCredential, token |-> Nil,
            generation |-> Nil]

ConnInit ==
    /\ cleanup_epoch = 0
    /\ connections = [i \in Ids |-> Nil]
    /\ command = [c \in Connects |-> "idle"]
    /\ made = [c \in Connects |-> NotMade]
    /\ awaited = [c \in Connects |-> Nil]
    /\ tunnel = [c \in Connects |-> "none"]
    /\ gate = [c \in Connects |-> Nil]
    /\ removal = [r \in Removers |-> [at |-> "idle", todo |-> {}, id |-> Nil, old |-> Nil,
                                      epoch |-> 0]]
    /\ stored = [k \in Ids \X Scopes |-> IF k[1] \in Legacy THEN LegacyCredential
                                        ELSE NoCredential]
    /\ closedEpoch = 0

Key(c) == <<made[c].id, made[c].scope>>

-----------------------------------------------------------------------------
(* connect_argo_server.                                                     *)

\* The epoch is read first; the rest of the command may take long.
Connect(c) ==
    /\ command[c] = "idle"
    /\ \E a \in Asks :
         made' = [made EXCEPT ![c] = [NotMade EXCEPT !.id = a.id, !.scope = a.scope,
                                      !.epoch = cleanup_epoch, !.remember = a.remember,
                                      !.submitted = a.submitted]]
    /\ command' = [command EXCEPT ![c] = "begun"]
    /\ UNCHANGED <<store, awaited, tunnel, removal, stored>>

\* load_credential: a token stored alone is given a generation and rewritten.
Migrated(c, record) ==
    IF record = LegacyCredential THEN [record EXCEPT !.generation = <<c, "migrated">>]
    ELSE record

\* ArgoServiceTunnel::start has resolved the Service, tried a forward and bound
\* its listener, for a Service endpoint; then the remembered credential is read.
Prepare(c) ==
    /\ command[c] = "begun"
    /\ tunnel' = [tunnel EXCEPT ![c] = IF made[c].id \in Tunneled THEN "open" ELSE "none"]
    /\ LET record == IF made[c].remember THEN Migrated(c, stored[Key(c)]) ELSE NoCredential
       IN  /\ made' = [made EXCEPT ![c].loaded = record]
           /\ stored' = IF made[c].remember THEN [stored EXCEPT ![Key(c)] = record] ELSE stored
    /\ command' = [command EXCEPT ![c] = "prepared"]
    /\ UNCHANGED <<store, awaited, removal>>

\* Mutant: a token that is submitted anew keeps the generation of the old one.
Generation_kept(c) ==
    IF made[c].remember /\ made[c].loaded # NoCredential
    THEN made[c].loaded.generation ELSE <<c, "fresh">>

\* connection_generation: a remembered credential keeps its generation.  (An
\* unverified TLS or a custom CA draws a fresh one, like a submitted token.)
Generation(c) ==
    IF ~made[c].submitted /\ made[c].remember /\ made[c].loaded # NoCredential
    THEN made[c].loaded.generation ELSE <<c, "fresh">>

Token(c) ==
    IF made[c].submitted THEN <<c, "submitted">>
    ELSE IF made[c].loaded # NoCredential THEN made[c].loaded.token
    ELSE <<c, "login">>

\* The server has accepted the token: what is remembered is saved, or deleted so
\* that it cannot come back with a later connection.
Validate(c) ==
    /\ command[c] = "prepared"
    /\ made' = [made EXCEPT ![c].token = Token(c), ![c].generation = Generation(c),
                            ![c].loaded = NoCredential]
    /\ stored' =
         IF ~made[c].remember THEN [stored EXCEPT ![Key(c)] = NoCredential]
         ELSE IF made[c].submitted \/ made[c].loaded = NoCredential
         THEN [stored EXCEPT ![Key(c)] = [token |-> Token(c), generation |-> Generation(c)]]
         ELSE stored
    /\ command' = [command EXCEPT ![c] = "validated"]
    /\ UNCHANGED <<store, awaited, tunnel, removal>>

\* The tunnel of a command that fails is dropped with it.
Dropped(c) == [tunnel EXCEPT ![c] = IF tunnel[c] = "none" THEN "none" ELSE "closed"]

\* The tunnel, the credential store, the login or the validation fails.
ArgoConnectFails(c) ==
    /\ command[c] \in {"begun", "prepared"}
    /\ command' = [command EXCEPT ![c] = "failed"]
    /\ tunnel' = Dropped(c)
    /\ UNCHANGED <<store, made, awaited, removal, stored>>

\* forget_argo_credential: the user deletes what is remembered.
Forget(i, s) ==
    /\ stored[<<i, s>>] # NoCredential
    /\ stored' = [stored EXCEPT ![<<i, s>>] = NoCredential]
    /\ UNCHANGED <<store, commands, tunnel, removal>>

-----------------------------------------------------------------------------
(* replace_connection_at: install the connection unless a cleanup has begun   *)
(* since the command did.                                                    *)

Current(c) == made[c].epoch = cleanup_epoch

\* Mutant: the epoch is compared only when there is a connection to replace.
InsertConnection_unfenced(c) ==
    /\ command[c] = "validated" /\ awaited[c] = Nil
    /\ connections[made[c].id] = Nil
    /\ connections' = [connections EXCEPT ![made[c].id] = c]
    /\ command' = [command EXCEPT ![c] = "connected"]
    /\ UNCHANGED <<cleanup_epoch, gate, closedEpoch, made, awaited, tunnel, removal, stored>>

\* There is no connection with this id.
InsertConnection(c) ==
    /\ command[c] = "validated" /\ awaited[c] = Nil
    /\ connections[made[c].id] = Nil
    /\ Current(c)
    /\ connections' = [connections EXCEPT ![made[c].id] = c]
    /\ command' = [command EXCEPT ![c] = "connected"]
    /\ UNCHANGED <<cleanup_epoch, gate, closedEpoch, made, awaited, tunnel, removal, stored>>

\* There is one: its gate is awaited without a lock.
AwaitOld(c) ==
    /\ command[c] = "validated" /\ awaited[c] = Nil
    /\ connections[made[c].id] # Nil
    /\ awaited' = [awaited EXCEPT ![c] = connections[made[c].id]]
    /\ UNCHANGED <<store, command, made, tunnel, removal, stored>>

\* The gate is free: the old connection is replaced and its tunnel closed, if it
\* is still the one in the store; otherwise the loop starts again.
Swap(c) ==
    /\ awaited[c] # Nil /\ gate[awaited[c]] = Nil
    /\ Current(c)
    /\ awaited' = [awaited EXCEPT ![c] = Nil]
    /\ IF connections[made[c].id] = awaited[c]
       THEN /\ connections' = [connections EXCEPT ![made[c].id] = c]
            /\ command' = [command EXCEPT ![c] = "connected"]
            /\ tunnel' = Dropped(awaited[c])
       ELSE UNCHANGED <<connections, command, tunnel>>
    /\ UNCHANGED <<cleanup_epoch, gate, closedEpoch, made, removal, stored>>

\* A cleanup has begun since: the command fails and its tunnel is dropped.
Superseded(c) ==
    /\ command[c] = "validated" /\ ~Current(c)
    /\ \/ awaited[c] = Nil /\ connections[made[c].id] = Nil
       \/ awaited[c] # Nil /\ gate[awaited[c]] = Nil
    /\ command' = [command EXCEPT ![c] = "failed"]
    /\ awaited' = [awaited EXCEPT ![c] = Nil]
    /\ tunnel' = Dropped(c)
    /\ UNCHANGED <<store, made, removal, stored>>

-----------------------------------------------------------------------------
(* remove_connection, for disconnect_argo_server and for close_all.          *)

Disconnect(d) ==
    /\ removal[d].at = "idle"
    /\ \E i \in Ids : removal' = [removal EXCEPT ![d].at = "removing", ![d].todo = {i}]
    /\ UNCHANGED <<store, commands, tunnel, stored>>

\* close_all: no command begun before this one may install a connection now.
CloseAll(k) ==
    /\ removal[k].at = "idle"
    /\ cleanup_epoch' = cleanup_epoch + 1
    /\ removal' = [removal EXCEPT ![k].at = "begun", ![k].epoch = cleanup_epoch + 1]
    /\ UNCHANGED <<connections, gate, closedEpoch, commands, tunnel, stored>>

\* The ids are collected under the lock, and removed one after the other.
CollectIds(k) ==
    /\ removal[k].at = "begun"
    /\ removal' = [removal EXCEPT ![k].at = "removing",
                                  ![k].todo = {i \in Ids : connections[i] # Nil}]
    /\ UNCHANGED <<store, commands, tunnel, stored>>

\* Mutant: an id whose connection is gone already is looked up again.
LookUp_again(r) ==
    /\ removal[r].at = "removing" /\ removal[r].old = Nil
    /\ \E i \in removal[r].todo :
         /\ connections[i] # Nil
         /\ removal' = [removal EXCEPT ![r].id = i, ![r].old = connections[i]]
    /\ UNCHANGED <<store, commands, tunnel, stored>>

\* The connection is looked up; an id without one is done.
LookUp(r) ==
    /\ removal[r].at = "removing" /\ removal[r].old = Nil
    /\ \E i \in removal[r].todo :
         removal' = IF connections[i] = Nil
                    THEN [removal EXCEPT ![r].todo = @ \ {i}, ![r].id = Nil]
                    ELSE [removal EXCEPT ![r].id = i, ![r].old = connections[i]]
    /\ UNCHANGED <<store, commands, tunnel, stored>>

\* Its gate is free: it is removed if it is still the one in the store, and its
\* tunnel is closed; otherwise the id is looked up again.
RemoveConnection(r) ==
    /\ removal[r].old # Nil /\ gate[removal[r].old] = Nil
    /\ IF connections[removal[r].id] = removal[r].old
       THEN /\ connections' = [connections EXCEPT ![removal[r].id] = Nil]
            /\ tunnel' = Dropped(removal[r].old)
            /\ removal' = [removal EXCEPT ![r].todo = @ \ {removal[r].id},
                                          ![r].id = Nil, ![r].old = Nil]
       ELSE /\ removal' = [removal EXCEPT ![r].id = Nil, ![r].old = Nil]
            /\ UNCHANGED <<connections, tunnel>>
    /\ UNCHANGED <<cleanup_epoch, gate, closedEpoch, commands, stored>>

Removed(r) ==
    /\ removal[r].at = "removing" /\ removal[r].old = Nil /\ removal[r].todo = {}
    /\ removal' = [removal EXCEPT ![r].at = "done"]
    /\ closedEpoch' = IF r \in Cleanups /\ removal[r].epoch > closedEpoch THEN removal[r].epoch ELSE closedEpoch
    /\ UNCHANGED <<cleanup_epoch, connections, gate, commands, tunnel, stored>>

\* run_tunnel stops by itself after too many accept failures in a row: the
\* connection stays in the store, and its requests fail.
TunnelGivesUp(c) ==
    /\ tunnel[c] = "open"
    /\ tunnel' = [tunnel EXCEPT ![c] = "ended"]
    /\ UNCHANGED <<store, commands, removal, stored>>

-----------------------------------------------------------------------------
(* scope.rs                                                                 *)

\* scoped_connection: the connection of the id, if it is of the caller's scope.
InScope(c, s) == c # Nil /\ made[c].scope = s
ScopedConnection(i, s) == IF InScope(connections[i], s) THEN connections[i] ELSE Nil

\* acquire_connection_lease: after the gate has been taken, the connection must
\* still be the one in the store, of the expected generation and instance.
LeaseMatches(i, c, s, generation, instance) ==
    /\ connections[i] = c
    /\ made[c].generation = generation
    /\ c = instance
    /\ InScope(c, s)

TakeGate(h, c) == gate[c] = Nil /\ gate' = [gate EXCEPT ![c] = h]
ReleaseGate(c) == gate' = [gate EXCEPT ![c] = Nil]

\* get_argo_connection_status
Connected(i) == connections[i] # Nil

-----------------------------------------------------------------------------
ConnectStep(c) ==
    Prepare(c) \/ Validate(c) \/ ArgoConnectFails(c) \/ InsertConnection(c) \/ AwaitOld(c) \/ Swap(c)
    \/ Superseded(c)
RemoveStep(r) == LookUp(r) \/ RemoveConnection(r) \/ Removed(r)

ConnAction ==
    \/ \E c \in Connects : Connect(c) \/ ConnectStep(c) \/ TunnelGivesUp(c)
    \/ \E d \in Disconnects : Disconnect(d)
    \/ \E k \in Cleanups : CloseAll(k) \/ CollectIds(k)
    \/ \E r \in Removers : RemoveStep(r)
    \/ \E i \in Ids, s \in Scopes : Forget(i, s)

\* Operations that lease whatever connection is current, for some time.
HoldLease(h) ==
    /\ \A c \in Connects : gate[c] # h
    /\ \E i \in Ids : /\ Connected(i) /\ TakeGate(h, connections[i])
    /\ UNCHANGED <<cleanup_epoch, connections, closedEpoch, commands, tunnel, removal, stored>>
EndLease(h) ==
    /\ \E c \in Connects : gate[c] = h /\ ReleaseGate(c)
    /\ UNCHANGED <<cleanup_epoch, connections, closedEpoch, commands, tunnel, removal, stored>>

ConnNext == ConnAction \/ \E h \in Holders : HoldLease(h) \/ EndLease(h)

\* Every await ends, and a gate that is free again and again is taken: it is a
\* fair lock.
ConnFairness ==
    /\ \A c \in Connects : WF_connVars(ConnectStep(c)) /\ SF_connVars(Swap(c) \/ Superseded(c))
    /\ \A k \in Cleanups : WF_connVars(CollectIds(k))
    /\ \A r \in Removers : WF_connVars(LookUp(r) \/ Removed(r)) /\ SF_connVars(RemoveConnection(r))
    /\ \A h \in Holders : WF_connVars(EndLease(h))

ConnSpec == ConnInit /\ [][ConnNext]_connVars /\ ConnFairness

-----------------------------------------------------------------------------
(* Properties.                                                              *)

\* What the store's variables range over.
ConnTypeOK ==
    /\ cleanup_epoch \in Nat /\ closedEpoch \in Nat
    /\ connections \in [Ids -> Connects \cup {Nil}]
    /\ command \in [Connects -> {"idle", "begun", "prepared", "validated", "connected",
                                 "failed"}]
    /\ made \in [Connects -> [id : Ids \cup {Nil}, scope : Scopes \cup {Nil}, epoch : Nat,
                    remember : BOOLEAN, submitted : BOOLEAN,
                    loaded : Credential \cup {NoCredential},
                    token : Tokens \cup {Nil}, generation : Generations \cup {Nil}]]
    /\ awaited \in [Connects -> Connects \cup {Nil}]
    /\ tunnel \in [Connects -> {"none", "open", "ended", "closed"}]
    /\ gate \in [Connects -> Holders \cup {Nil}]
    /\ removal \in [Removers -> [at : {"idle", "begun", "removing", "done"},
                       todo : SUBSET Ids, id : Ids \cup {Nil},
                       old : Connects \cup {Nil}, epoch : Nat]]
    /\ stored \in [Ids \X Scopes -> Credential \cup {NoCredential, LegacyCredential}]

\* Once a cleanup has returned, the store holds no connection that a command
\* begun before it made, however late that command finishes and whatever the
\* lease it waits for; and an open tunnel always belongs to a command that is
\* still running or to the connection in the store, so none is left listening.
CleanupsAreFinal ==
    /\ \A i \in Ids : Connected(i) => made[connections[i]].epoch >= closedEpoch
    /\ \A c \in Connects : tunnel[c] \in {"open", "ended"} =>
          command[c] \in {"prepared", "validated"} \/ connections[made[c].id] = c

\* Two connections of the same generation carry the same token: an operation
\* that was reviewed against a generation runs with the credential it was
\* reviewed with, across remembered, migrated, replaced and forgotten ones.
GenerationNamesToken ==
    \A c, d \in Connects :
        /\ made[c].generation # Nil
        /\ made[c].generation = made[d].generation
        => made[c].token = made[d].token

\* Disconnects and cleanups end, although each waits for the operations that
\* lease the connections they remove.
RemovalsEnd == \A r \in Removers : removal[r].at # "idle" ~> removal[r].at = "done"

\* A connect that has been accepted by the server comes to an end.
ConnectsEnd ==
    \A c \in Connects : command[c] = "validated" ~> command[c] \in {"connected", "failed"}

\* Nothing that waits for a lease waits for ever.
CleanupsEnd == RemovalsEnd /\ ConnectsEnd
=============================================================================
