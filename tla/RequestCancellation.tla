------------------------- MODULE RequestCancellation -------------------------
(***************************************************************************)
(* Finite reads in the backend and what cancels them: the registry of      *)
(* commands/cancellation.rs, the rotating client generation of             *)
(* helpers/client_cache.rs, the way a read obtains its client              *)
(* (kubeconfig_clients.rs, client_and_default_namespace), and the command  *)
(* cancel_workspace_requests.                                              *)
(*                                                                         *)
(* A token is named by what owns it: the generation a registration got, or *)
(* the client generation.  Registrations are numbered from 1, so 0 is the  *)
(* guard of a request without scope or id, which has no registration.      *)
(***************************************************************************)
EXTENDS Naturals, FiniteSets

CONSTANTS
    Requests,     \* invocations of finite-read commands
    RequestNames,        \* (cancel scope, request id) pairs, normalized
    CancelScopes,       \* cancel scopes
    ScopeOf,      \* [Names -> Scopes]
    NameOf,       \* [Requests -> Names \cup {Anonymous}]
    Anonymous,    \* a request without scope or id
    Contexts,     \* cluster contexts
    ContextOf,    \* [Requests -> Contexts]
    CacheEntries, \* MAX_ENTRIES of the client cache
    MaxFiles,     \* bound: rewrites of the kubeconfig files
    MaxRotations  \* bound: workspace cancellations

ASSUME NamesAssumption ==
    /\ ScopeOf \in [RequestNames -> CancelScopes]
    /\ NameOf \in [Requests -> RequestNames \cup {Anonymous}]
    /\ Anonymous \notin RequestNames
    /\ ContextOf \in [Requests -> Contexts]

ASSUME LimitsAssumption ==
    CacheEntries \in Nat \ {0} /\ MaxFiles \in Nat /\ MaxRotations \in Nat

VARIABLES
    entries,    \* [Names -> registration, 0 when absent]: the scope map
    nextReg,    \* next_generation of the registry
    taken,      \* registrations removed by a cancel whose token is not cancelled yet
    cancelled,  \* registrations whose token is cancelled
    generation, \* id of the current finite-client generation
    dead,       \* client generations whose token is cancelled
    clients,    \* [Contexts -> [gen, fp, config] or NoClient]: FINITE_CLIENTS
    files,      \* version of the kubeconfig files on disk
    reqs,       \* [Requests -> [pc, reg, fp, gen, config]]
    switch      \* cancel_workspace_requests: [pc, upto, left, prev]

registryVars == <<entries, nextReg, taken, cancelled>>
clientVars == <<generation, dead, clients>>
backendVars == <<registryVars, clientVars, files, reqs, switch>>

NoClient == [gen |-> MaxRotations + 1, fp |-> 0, config |-> 0]
NotStarted == [pc |-> "idle", reg |-> 0, fp |-> 0, gen |-> 0, config |-> 0]
Quiet == [pc |-> "idle", upto |-> 0, left |-> {}, prev |-> 0]

BackendInit ==
    /\ entries = [n \in RequestNames |-> 0]
    /\ nextReg = 1
    /\ taken = {}
    /\ cancelled = {}
    /\ generation = 0
    /\ dead = {}
    /\ clients = [c \in Contexts |-> NoClient]
    /\ files = 0
    /\ reqs = [q \in Requests |-> NotStarted]
    /\ switch = Quiet

ReadGoto(q, pc) == reqs' = [reqs EXCEPT ![q].pc = pc]

-----------------------------------------------------------------------------
(* One finite read. *)

\* The webview invokes the command; Tauri runs it on a task of its own.
Invoke(q) ==
    /\ reqs[q].pc = "idle"
    /\ ReadGoto(q, "sent")
    /\ UNCHANGED <<registryVars, clientVars, files, switch>>

\* register: a request of the same name is replaced and cancelled.
Register(q) ==
    LET n == NameOf[q] IN
    /\ reqs[q].pc = "sent"
    /\ IF n = Anonymous
       THEN ReadGoto(q, "fingerprint") /\ UNCHANGED registryVars
       ELSE /\ reqs' = [reqs EXCEPT ![q].pc = "fingerprint", ![q].reg = nextReg]
            /\ nextReg' = nextReg + 1
            /\ entries' = [entries EXCEPT ![n] = nextReg]
            /\ cancelled' = cancelled \cup ({entries[n]} \ {0})
            /\ UNCHANGED taken
    /\ UNCHANGED <<clientVars, files, switch>>

\* fingerprint_files of the kubeconfig paths.
Fingerprint(q) ==
    /\ reqs[q].pc = "fingerprint"
    /\ reqs' = [reqs EXCEPT ![q].pc = "capture", ![q].fp = files]
    /\ UNCHANGED <<registryVars, clientVars, files, switch>>

Capture(q) ==
    /\ reqs[q].pc = "capture"
    /\ reqs' = [reqs EXCEPT ![q].pc = "lookup", ![q].gen = generation]
    /\ UNCHANGED <<registryVars, clientVars, files, switch>>

\* lookup_client serves the cached client of the captured generation and of
\* unchanged files only.
Lookup(q) ==
    LET c == clients[ContextOf[q]] IN
    /\ reqs[q].pc = "lookup"
    /\ IF generation = reqs[q].gen /\ c # NoClient /\ c.fp = reqs[q].fp
       THEN reqs' = [reqs EXCEPT ![q].pc = "call", ![q].config = c.config]
       ELSE ReadGoto(q, "resolve")
    /\ UNCHANGED <<registryVars, clientVars, files, switch>>

\* config_for_context reads the files; it races the generation's token.
ResolveClient(q) ==
    /\ reqs[q].pc = "resolve"
    /\ \/ reqs' = [reqs EXCEPT ![q].pc = "store", ![q].config = files]
       \/ ReadGoto(q, "drop")
    /\ UNCHANGED <<registryVars, clientVars, files, switch>>

ResolveCancelled(q) ==
    /\ reqs[q].pc = "resolve"
    /\ reqs[q].gen \in dead
    /\ ReadGoto(q, "drop")
    /\ UNCHANGED <<registryVars, clientVars, files, switch>>

Stored == {c \in Contexts : clients[c] # NoClient}

\* store_client: refused when the generation has changed since the capture.
\* A full cache is emptied before a new key enters.
Store(q) ==
    LET c == ContextOf[q]
        new == [gen |-> reqs[q].gen, fp |-> reqs[q].fp, config |-> reqs[q].config]
        full == Cardinality(Stored) >= CacheEntries /\ c \notin Stored IN
    /\ reqs[q].pc = "store"
    /\ IF generation # reqs[q].gen
       THEN ReadGoto(q, "drop") /\ UNCHANGED clients
       ELSE /\ clients' = [x \in Contexts |-> IF x = c THEN new
                                              ELSE IF full THEN NoClient ELSE clients[x]]
            /\ ReadGoto(q, "call")
    /\ UNCHANGED <<registryVars, generation, dead, files, switch>>

\* The API server answers (external), or the 30 s read timeout fires.
Answered(q) ==
    /\ reqs[q].pc = "call"
    /\ ReadGoto(q, "drop")
    /\ UNCHANGED <<registryVars, clientVars, files, switch>>

\* RequestCancellationService: the call races the token of the client's
\* generation.
CallCancelled(q) ==
    /\ reqs[q].pc = "call"
    /\ reqs[q].gen \in dead
    /\ ReadGoto(q, "drop")
    /\ UNCHANGED <<registryVars, clientVars, files, switch>>

\* BackendCancellationGuard::run: the request's own token wins the select!.
GuardCancelled(q) ==
    /\ reqs[q].pc \in {"fingerprint", "resolve", "call"}
    /\ reqs[q].reg \in cancelled
    /\ ReadGoto(q, "drop")
    /\ UNCHANGED <<registryVars, clientVars, files, switch>>

\* Mutant: unregister removes whatever is registered under the name.
DropGuard_any_generation(q) ==
    LET n == NameOf[q] IN
    /\ reqs[q].pc = "drop"
    /\ entries' = IF n # Anonymous THEN [entries EXCEPT ![n] = 0] ELSE entries
    /\ ReadGoto(q, "done")
    /\ UNCHANGED <<nextReg, taken, cancelled, clientVars, files, switch>>

\* Drop of the guard: unregister, unless the name has a newer registration.
DropGuard(q) ==
    LET n == NameOf[q] IN
    /\ reqs[q].pc = "drop"
    /\ entries' = IF n # Anonymous /\ entries[n] = reqs[q].reg
                  THEN [entries EXCEPT ![n] = 0] ELSE entries
    /\ ReadGoto(q, "done")
    /\ UNCHANGED <<nextReg, taken, cancelled, clientVars, files, switch>>

\* Somebody rewrites the kubeconfig (external).
RewriteFiles ==
    /\ files < MaxFiles
    /\ files' = files + 1
    /\ UNCHANGED <<registryVars, clientVars, reqs, switch>>

-----------------------------------------------------------------------------
(* Cancellation.  Tokens are taken out of the registry under its lock and   *)
(* cancelled after it.                                                      *)

Registered(ns) == {entries[n] : n \in ns} \ {0}

\* cancel_backend_requests: the queries of one scope lost their observers.
CancelScope(s) ==
    LET ns == {n \in RequestNames : ScopeOf[n] = s} IN
    /\ Registered(ns) # {}
    /\ taken' = taken \cup Registered(ns)
    /\ entries' = [n \in RequestNames |-> IF n \in ns THEN 0 ELSE entries[n]]
    /\ UNCHANGED <<nextReg, cancelled, clientVars, files, reqs, switch>>

CancelToken(g) ==
    /\ g \in taken
    /\ taken' = taken \ {g}
    /\ cancelled' = cancelled \cup {g}
    /\ switch' = [switch EXCEPT !.left = @ \ {g}]
    /\ UNCHANGED <<entries, nextReg, clientVars, files, reqs>>

\* cancel_workspace_requests: cancel_all, rotate_client_generation,
\* live_store.cancel_loading and argo_connections.close_all, in this order.
SwitchCancelsAll ==
    /\ switch.pc = "sent"
    /\ taken' = taken \cup Registered(RequestNames)
    /\ entries' = [n \in RequestNames |-> 0]
    /\ switch' = [pc |-> "rotate", upto |-> nextReg, left |-> Registered(RequestNames), prev |-> 0]
    /\ UNCHANGED <<nextReg, cancelled, clientVars, files, reqs>>

\* Under the write lock: a new generation and an empty cache.
SwitchRotates ==
    /\ switch.pc = "rotate"
    /\ switch.left = {}
    /\ generation' = generation + 1
    /\ clients' = [c \in Contexts |-> NoClient]
    /\ switch' = [switch EXCEPT !.pc = "signal", !.prev = generation]
    /\ UNCHANGED <<registryVars, dead, files, reqs>>

\* Mutant: the previous generation's token is not cancelled.
SwitchSignals_nothing ==
    /\ switch.pc = "signal"
    /\ switch' = [switch EXCEPT !.pc = "close"]
    /\ UNCHANGED <<registryVars, clientVars, files, reqs>>

\* After the lock: the previous generation's token.
SwitchSignals ==
    /\ switch.pc = "signal"
    /\ dead' = dead \cup {switch.prev}
    /\ switch' = [switch EXCEPT !.pc = "close"]
    /\ UNCHANGED <<registryVars, generation, clients, files, reqs>>

\* cancel_loading (LiveStore's CancelLoading of every area) and close_all,
\* which may fail; either way the command returns.
SwitchReturns ==
    /\ switch.pc = "close"
    /\ switch' = [switch EXCEPT !.pc = "returned"]
    /\ UNCHANGED <<registryVars, clientVars, files, reqs>>

SwitchStep == SwitchCancelsAll \/ SwitchRotates \/ SwitchSignals \/ SwitchReturns

Polled(q) ==
    \/ Register(q) \/ Fingerprint(q) \/ Capture(q) \/ Lookup(q) \/ Store(q)
    \/ ResolveCancelled(q) \/ CallCancelled(q) \/ GuardCancelled(q) \/ DropGuard(q)

BackendNext ==
    \/ RewriteFiles
    \/ \E q \in Requests : Polled(q) \/ ResolveClient(q) \/ Answered(q)
    \/ \E s \in CancelScopes : CancelScope(s)
    \/ \E g \in taken : CancelToken(g)
    \/ SwitchStep
=============================================================================
