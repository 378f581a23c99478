---------------------------- MODULE ArgoOperations ----------------------------
(* Reviewed Argo CD operations: commands/argo/operations.rs and session.rs,   *)
(* over the connections of ArgoConnections.                                  *)
(*                                                                          *)
(* preflight_argo_operation reviews a request and issues a session for it,    *)
(* kept in memory and in native storage; run_argo_operation confirms the      *)
(* session: it revalidates, leases the connection, consumes the session and   *)
(* sends the request.  The application may stop and start again at any time;  *)
(* native storage may refuse a write.  A request is abstracted to its         *)
(* transport, its target and whether its review reads the server twice.       *)
EXTENDS ArgoConnections

CONSTANTS
    Sessions,     \* reviews, and the sessions they issue
    Requests,     \* what a review may be asked for
    Runs,         \* run_argo_operation commands
    MaxVersion,   \* bound: changes of the Application
    MaxRestarts   \* bound: restarts

ASSUME RunsAssumption == Runs = Holders
ASSUME RequestsAssumption ==
    Requests \subseteq [transport : {"connected", "kubernetes"}, id : Ids, scope : Scopes,
                        twice : BOOLEAN]
ASSUME OperationBounds == MaxVersion \in Nat /\ MaxRestarts \in Nat

VARIABLES
    review,    \* session -> where its review is, and what was reviewed
    records,   \* sessions in memory
    consumed,  \* sessions used, in memory
    secure,    \* session -> its entry in native storage
    expired,   \* sessions older than SESSION_TTL
    run,       \* run -> where the command is, its session and its connection
    version,   \* the Application's resourceVersion
    restarts,
    sent,      \* history: session -> requests sent for it
    turned,    \* history: sessions that a refusal has used up
    unsaved,   \* history: sessions used while native storage refused the write
    lost       \* history: live sessions refused because the profile reconnected
               \*   after a restart, with the credential that was reviewed

reviews == <<review, expired>>
sessionStore == <<records, consumed, secure>>
history == <<sent, turned, unsaved, lost>>
opVars == <<review, records, consumed, secure, expired, run, version, restarts, sent,
            turned, unsaved, lost>>
vars == <<connVars, opVars>>

NotReviewed == [at |-> "idle", transport |-> Nil, id |-> Nil, scope |-> Nil,
                twice |-> FALSE, conn |-> Nil, generation |-> Nil, version |-> 0,
                restarts |-> 0]
NotRunning == [at |-> "idle", session |-> Nil, conn |-> Nil]

Init ==
    /\ ConnInit
    /\ review = [s \in Sessions |-> NotReviewed]
    /\ records = {} /\ consumed = {} /\ expired = {}
    /\ secure = [s \in Sessions |-> "absent"]
    /\ run = [r \in Runs |-> NotRunning]
    /\ version = 0 /\ restarts = 0
    /\ sent = [s \in Sessions |-> 0]
    /\ turned = {} /\ unsaved = {} /\ lost = {}

ByConnection(s) == review[s].transport = "connected"

-----------------------------------------------------------------------------
(* preflight_argo_operation.                                                *)

\* The request is valid, the fallback is authorised for the Kubernetes transport,
\* and the connection of the request is looked up for the connected one.
Review(s) ==
    /\ review[s].at = "idle"
    /\ \E q \in Requests :
         LET c == ScopedConnection(q.id, q.scope)
         IN  review' = [review EXCEPT ![s] =
                [NotReviewed EXCEPT !.transport = q.transport, !.id = q.id,
                    !.scope = q.scope, !.twice = q.twice,
                    !.at = IF q.transport = "connected" /\ c = Nil THEN "refused"
                           ELSE "reading",
                    !.conn = IF q.transport = "connected" THEN c ELSE Nil,
                    !.restarts = restarts]]
    /\ UNCHANGED <<connVars, sessionStore, expired, run, version, restarts, history>>

\* The Application has been read: its version, the generation and the instance
\* of the connection are what the session binds.  A retry reads its recorded sync
\* and a resource action the allowed actions, through a second lookup.
ReviewRead(s) ==
    /\ review[s].at = "reading"
    /\ review' = [review EXCEPT ![s].version = version,
                    ![s].generation = IF ByConnection(s) THEN made[review[s].conn].generation
                                      ELSE Nil,
                    ![s].at = IF ~review[s].twice THEN "read"
                              ELSE IF ByConnection(s)
                                      /\ ScopedConnection(review[s].id, review[s].scope) = Nil
                              THEN "refused" ELSE "rereading"]
    /\ UNCHANGED <<connVars, sessionStore, expired, run, version, restarts, history>>

ReviewReread(s) ==
    /\ review[s].at = "rereading"
    /\ review' = [review EXCEPT ![s].at = "read"]
    /\ UNCHANGED <<connVars, sessionStore, expired, run, version, restarts, history>>

\* issue: the session is written to native storage before it is kept in memory.
Issue(s) ==
    /\ review[s].at = "read"
    /\ review' = [review EXCEPT ![s].at = "issued"]
    /\ secure' = [secure EXCEPT ![s] = "session"]
    /\ records' = records \cup {s}
    /\ UNCHANGED <<connVars, consumed, expired, run, version, restarts, history>>

\* A read fails, or native storage refuses the session.
ReviewFails(s) ==
    /\ review[s].at \in {"reading", "rereading", "read"}
    /\ review' = [review EXCEPT ![s].at = "refused"]
    /\ UNCHANGED <<connVars, sessionStore, expired, run, version, restarts, history>>

Expire(s) ==
    /\ review[s].at = "issued" /\ s \notin expired
    /\ expired' = expired \cup {s}
    /\ UNCHANGED <<connVars, review, sessionStore, run, version, restarts, history>>

-----------------------------------------------------------------------------
(* session.rs                                                               *)

\* peek: what is in memory, or else in native storage, unless used or expired.
Usable(s) ==
    /\ s \notin consumed
    /\ s \in records \/ secure[s] = "session"
    /\ s \notin expired

\* consume: besides, a record in memory must not differ from native storage.
Consumable(s) == Usable(s) /\ secure[s] # "tombstone"

\* consume has recorded the use, in memory first.
Use(s) ==
    /\ Consumable(s)
    /\ records' = records \ {s}
    /\ consumed' = consumed \cup {s}

\* Mutant: the use is recorded in memory only.
Entombed_in_memory(s) == UNCHANGED <<secure, unsaved>>

\* Its tombstone replaces the session in native storage.
Entombed(s) == secure' = [secure EXCEPT ![s] = "tombstone"] /\ UNCHANGED unsaved

\* Native storage refuses the tombstone: the session is deleted instead, and the
\* failure of that is ignored.
Unsaved(s) ==
    /\ secure' \in {secure, [secure EXCEPT ![s] = "absent"]}
    /\ unsaved' = unsaved \cup {s}

\* reject_reviewed_operation: the session is used up, whatever consume returns.
Reject(s) ==
    IF Consumable(s)
    THEN /\ Use(s) /\ (Entombed(s) \/ Unsaved(s))
         /\ turned' = turned \cup {s}
    ELSE UNCHANGED <<sessionStore, turned, unsaved>>

-----------------------------------------------------------------------------
(* run_argo_operation.                                                      *)

At(r, a) == [run EXCEPT ![r].at = a]

\* revalidate_session: the connection looked up must be the reviewed one.
SameConnection(s, c) ==
    c # Nil /\ made[c].generation = review[s].generation /\ c = review[s].conn

\* peek, then the start of revalidate_session.
Confirm(r, s) ==
    LET c == ScopedConnection(review[s].id, review[s].scope)
    IN  /\ run[r].at = "idle" /\ review[s].at = "issued" /\ Usable(s)
        /\ IF ByConnection(s) /\ ~SameConnection(s, c)
           THEN /\ run' = [run EXCEPT ![r] = [at |-> "ended", session |-> s, conn |-> Nil]]
                /\ Reject(s)
                /\ lost' = IF /\ c # Nil /\ made[c].generation = review[s].generation
                              /\ restarts # review[s].restarts
                           THEN lost \cup {s} ELSE lost
           ELSE /\ run' = [run EXCEPT ![r] = [at |-> "checking", session |-> s,
                                              conn |-> IF ByConnection(s) THEN c ELSE Nil]]
                /\ UNCHANGED <<sessionStore, turned, unsaved, lost>>
        /\ UNCHANGED <<connVars, reviews, version, restarts, sent>>

\* The Application has been read again, and it is the reviewed one.  The
\* Kubernetes transport consumes the session at once.
Checked(r) ==
    LET s == run[r].session
    IN  /\ run[r].at = "checking"
        /\ version = review[s].version
        /\ IF ByConnection(s)
           THEN run' = At(r, "leasing") /\ UNCHANGED <<sessionStore, unsaved>>
           ELSE \/ Use(s) /\ Entombed(s) /\ run' = At(r, "sending")
                \/ Use(s) /\ Unsaved(s) /\ run' = At(r, "ended")
                \/ /\ ~Consumable(s) /\ run' = At(r, "ended")
                   /\ UNCHANGED <<sessionStore, unsaved>>
        /\ UNCHANGED <<connVars, reviews, version, restarts, sent, turned, lost>>

\* The read failed, the action is no longer allowed, or the Application changed.
CheckFails(r) ==
    /\ run[r].at = "checking"
    /\ run' = At(r, "ended")
    /\ Reject(run[r].session)
    /\ UNCHANGED <<connVars, reviews, version, restarts, sent, lost>>

LeaseHolds(r) ==
    LET s == run[r].session
    IN  LeaseMatches(review[s].id, run[r].conn, review[s].scope, review[s].generation,
                     review[s].conn)

\* The gate has been taken and the connection is still current: the session is
\* consumed, and the lease kept while the request is sent.
Lease(r) ==
    LET s == run[r].session
    IN  /\ run[r].at = "leasing" /\ LeaseHolds(r)
        /\ \/ TakeGate(r, run[r].conn) /\ Use(s) /\ Entombed(s) /\ run' = At(r, "sending")
           \/ /\ gate[run[r].conn] = Nil /\ run' = At(r, "ended")
              /\ \/ Use(s) /\ Unsaved(s)
                 \/ ~Consumable(s) /\ UNCHANGED <<sessionStore, unsaved>>
              /\ UNCHANGED gate
        /\ UNCHANGED <<cleanup_epoch, connections, closedEpoch, commands, tunnel, removal, stored,
                       reviews, version, restarts, sent, turned, lost>>

\* It has been replaced or removed meanwhile.
LeaseFails(r) ==
    /\ run[r].at = "leasing" /\ ~LeaseHolds(r) /\ gate[run[r].conn] = Nil
    /\ run' = At(r, "ended")
    /\ Reject(run[r].session)
    /\ UNCHANGED <<connVars, reviews, version, restarts, sent, lost>>

\* The request is sent, and accepted or not.  A patch of the Kubernetes transport
\* carries the reviewed resourceVersion: the API server refuses it on another one.
Send(r) ==
    LET s == run[r].session
    IN  /\ run[r].at = "sending"
        /\ run' = At(r, "ended")
        /\ sent' = [sent EXCEPT ![s] = @ + 1]
        /\ \/ UNCHANGED version
           \/ /\ version < MaxVersion /\ version' = version + 1
              /\ IF ByConnection(s) THEN tunnel[run[r].conn] \in {"none", "open"}
                 ELSE version = review[s].version
        /\ IF ByConnection(s) THEN ReleaseGate(run[r].conn) ELSE UNCHANGED gate
        /\ UNCHANGED <<cleanup_epoch, connections, closedEpoch, commands, tunnel, removal, stored,
                       reviews, sessionStore, restarts, turned, unsaved, lost>>

-----------------------------------------------------------------------------
(* The world.                                                               *)

\* Someone else changes the Application.
Change ==
    /\ version < MaxVersion /\ version' = version + 1
    /\ UNCHANGED <<connVars, review, sessionStore, expired, run, restarts, history>>

\* The application stops and starts again: native storage is all that is left.
\* Commands that were running are gone, and so is every connection.
Restart ==
    /\ restarts < MaxRestarts /\ restarts' = restarts + 1
    /\ cleanup_epoch' = 0 /\ closedEpoch' = 0
    /\ connections' = [i \in Ids |-> Nil]
    /\ command' = [c \in Connects |-> IF command[c] = "idle" THEN "idle" ELSE "failed"]
    /\ awaited' = [c \in Connects |-> Nil]
    /\ tunnel' = [c \in Connects |-> IF tunnel[c] = "none" THEN "none" ELSE "closed"]
    /\ gate' = [c \in Connects |-> Nil]
    /\ removal' = [r \in Removers |-> [removal[r] EXCEPT
                      !.at = IF @ = "idle" THEN "idle" ELSE "done",
                      !.todo = {}, !.id = Nil, !.old = Nil]]
    /\ review' = [s \in Sessions |-> [review[s] EXCEPT
                     !.at = IF @ \in {"idle", "issued"} THEN @ ELSE "refused"]]
    /\ records' = {} /\ consumed' = {}
    /\ run' = [r \in Runs |-> IF run[r].at = "idle" THEN run[r] ELSE [run[r] EXCEPT !.at = "ended"]]
    /\ UNCHANGED <<made, stored, secure, expired, version, history>>

-----------------------------------------------------------------------------
ReviewStep(s) == ReviewRead(s) \/ ReviewReread(s) \/ Issue(s) \/ ReviewFails(s)
RunStep(r) == Checked(r) \/ CheckFails(r) \/ Lease(r) \/ LeaseFails(r) \/ Send(r)

Next ==
    \/ ConnAction /\ UNCHANGED opVars
    \/ \E s \in Sessions : Review(s) \/ ReviewStep(s) \/ Expire(s)
    \/ \E r \in Runs : RunStep(r) \/ \E s \in Sessions : Confirm(r, s)
    \/ Change
    \/ Restart

Spec == Init /\ [][Next]_vars

-----------------------------------------------------------------------------
(* Properties.                                                              *)

\* What the variables range over.
TypeOK ==
    /\ ConnTypeOK
    /\ review \in [Sessions ->
          [at : {"idle", "reading", "rereading", "read", "issued", "refused"},
           transport : {"connected", "kubernetes", Nil}, id : Ids \cup {Nil},
           scope : Scopes \cup {Nil}, twice : BOOLEAN, conn : Connects \cup {Nil},
           generation : Generations \cup {Nil}, version : Nat, restarts : Nat]]
    /\ records \subseteq Sessions /\ consumed \subseteq Sessions /\ expired \subseteq Sessions
    /\ secure \in [Sessions -> {"absent", "session", "tombstone"}]
    /\ run \in [Runs -> [at : {"idle", "checking", "leasing", "sending", "ended"},
                         session : Sessions \cup {Nil}, conn : Connects \cup {Nil}]]
    /\ version \in Nat /\ restarts \in Nat
    /\ sent \in [Sessions -> Nat]
    /\ turned \subseteq Sessions /\ unsaved \subseteq Sessions /\ lost \subseteq Sessions

\* While a connected request is being sent, its connection is the one in the
\* store, in the reviewed scope, with the reviewed credential, and nobody has
\* closed its tunnel: a replacement, a disconnect or a cleanup waits for it.
LeasedConnectionsStay ==
    \A r \in Runs :
        LET s == run[r].session IN
        run[r].at = "sending" /\ ByConnection(s) =>
            /\ gate[run[r].conn] = r
            /\ LeaseHolds(r)
            /\ tunnel[run[r].conn] # "closed"

\* Connections live as long as they are leased and no longer than their
\* workspace, whatever is in flight when it goes.
ConnectionsAreKept == TypeOK /\ LeasedConnectionsStay /\ CleanupsAreFinal

\* A session is sent at most once, whatever the confirmations that race for it,
\* the restarts in between and the writes that native storage refuses; and one
\* that a failed confirmation has used up is never sent, as long as native
\* storage took its tombstone.
SessionsAreSingleUse ==
    /\ \A s \in Sessions : sent[s] <= 1
    /\ \A s \in turned \ unsaved : sent[s] = 0

\* What the documents say: a review survives a restart during its lifetime.  It
\* is not refused when its profile has reconnected to the same server with the
\* remembered credential it was reviewed with.
ReviewsSurviveRestarts == lost = {}
=============================================================================
