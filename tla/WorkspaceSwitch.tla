--------------------------- MODULE WorkspaceSwitch ---------------------------
(***************************************************************************)
(* A workspace switch end to end: the transition coordinator of            *)
(* app/svelte/workspaceTransition.ts with the hooks of App.svelte, over    *)
(* the finite reads and the cancellation command of RequestCancellation.   *)
(* A workspace's views read only while they are mounted.                   *)
(***************************************************************************)
EXTENDS RequestCancellation

CONSTANTS Workspaces, Nowhere

ASSUME NowhereAssumption == Nowhere \notin Workspaces

VARIABLES
    mounted,  \* the workspace whose views are mounted, Nowhere while suspended
    latest,   \* the coordinator's `latest`, Nowhere for undefined
    asked,    \* the destination requested last
    run,      \* the coordinator's loop: "idle", "suspend", "cancel", "exited"
    issued    \* [Requests -> number of switches begun when it was invoked]

uiVars == <<mounted, latest, asked, run, issued>>
switchVars == <<backendVars, uiVars>>

SwitchInit ==
    /\ BackendInit
    /\ mounted \in Workspaces
    /\ asked = mounted
    /\ latest = Nowhere
    /\ run = "idle"
    /\ issued = [q \in Requests |-> 0]

\* A view of the mounted workspace reads.
View(q) ==
    /\ mounted # Nowhere
    /\ Invoke(q)
    /\ issued' = [issued EXCEPT ![q] = generation]
    /\ UNCHANGED <<mounted, latest, asked, run>>

\* start(): the loop runs to its first await, suspend's tick().
Start ==
    /\ run' = "suspend"
    /\ UNCHANGED switch

\* request(w): a running loop picks the destination up, otherwise one starts.
RequestDestination(w) ==
    /\ generation < MaxRotations
    /\ latest' = w
    /\ asked' = w
    /\ IF run = "idle" THEN Start ELSE UNCHANGED <<run, switch>>
    /\ UNCHANGED <<mounted, issued, registryVars, clientVars, files, reqs>>

\* Mutant: the hook does not wait for the unmount.
Suspended_unflushed ==
    /\ run = "suspend"
    /\ run' = "cancel"
    /\ switch' = [Quiet EXCEPT !.pc = "sent"]
    /\ UNCHANGED <<mounted, latest, asked, issued, registryVars, clientVars, files, reqs>>

\* tick() has flushed the unmount; the cancel hook invokes the backend.
Suspended ==
    /\ run = "suspend"
    /\ mounted' = Nowhere
    /\ run' = "cancel"
    /\ switch' = [Quiet EXCEPT !.pc = "sent"]
    /\ UNCHANGED <<latest, asked, issued, registryVars, clientVars, files, reqs>>

\* The cancel hook settled, with or without an error: apply the newest
\* destination and resume, which mounts it.
Apply ==
    /\ run = "cancel"
    /\ switch.pc = "returned"
    /\ mounted' = latest
    /\ latest' = Nowhere
    /\ run' = "exited"
    /\ switch' = Quiet
    /\ UNCHANGED <<asked, issued, registryVars, clientVars, files, reqs>>

\* Mutant: the loop ends without looking at `latest` again.
Drained_unchecked ==
    /\ run = "exited"
    /\ run' = "idle"
    /\ UNCHANGED <<mounted, latest, asked, issued, registryVars, clientVars, files, reqs,
                   switch>>

\* The drain's finally: a destination asked for since the loop ended starts
\* another one.
Drained ==
    /\ run = "exited"
    /\ IF latest = Nowhere THEN run' = "idle" /\ UNCHANGED switch ELSE Start
    /\ UNCHANGED <<mounted, latest, asked, issued, registryVars, clientVars, files, reqs>>

UiStep == Suspended \/ Apply \/ Drained

SwitchNext ==
    \/ UiStep
    \/ \E w \in Workspaces : RequestDestination(w)
    \/ \E q \in Requests : View(q)
    \/ BackendNext /\ UNCHANGED uiVars

SwitchSpec == SwitchInit /\ [][SwitchNext]_switchVars

\* Tasks that are runnable get polled, and a command's steps follow each
\* other.  Nothing is assumed of the API server or the kubeconfig's plugins.
SwitchFairness ==
    /\ WF_switchVars(UiStep)
    /\ WF_switchVars(SwitchStep /\ UNCHANGED uiVars)
    /\ \A q \in Requests : WF_switchVars(Polled(q) /\ UNCHANGED uiVars)
    /\ WF_switchVars((\E g \in taken : CancelToken(g)) /\ UNCHANGED uiVars)

FairSwitchSpec == SwitchSpec /\ SwitchFairness

-----------------------------------------------------------------------------
(* Properties. *)

RunningAt == {"fingerprint", "capture", "lookup", "resolve", "store", "call"}
HasGeneration == {"lookup", "resolve", "store", "call"}

RequestState ==
    [pc : {"idle", "sent", "drop", "done"} \cup RunningAt, reg : Nat,
     fp : 0..MaxFiles, gen : 0..MaxRotations, config : 0..MaxFiles]

\* Types; a registration is in at most one place.
SwitchTypeOK ==
    /\ entries \in [RequestNames -> 0..nextReg - 1]
    /\ nextReg \in Nat \ {0}
    /\ taken \subseteq 1..nextReg - 1
    /\ cancelled \subseteq 1..nextReg - 1
    /\ generation \in 0..MaxRotations
    /\ dead \subseteq 0..MaxRotations
    /\ clients \in [Contexts -> [gen : 0..MaxRotations, fp : 0..MaxFiles,
                                 config : 0..MaxFiles] \cup {NoClient}]
    /\ files \in 0..MaxFiles
    /\ reqs \in [Requests -> RequestState]
    /\ \A q \in Requests : reqs[q].reg < nextReg
    /\ switch.pc \in {"idle", "sent", "rotate", "signal", "close", "returned"}
    /\ switch.left \subseteq 1..nextReg - 1
    /\ mounted \in Workspaces \cup {Nowhere}
    /\ latest \in Workspaces \cup {Nowhere}
    /\ asked \in Workspaces
    /\ run \in {"idle", "suspend", "cancel", "exited"}
    /\ issued \in [Requests -> 0..MaxRotations]

\* As long as a named request runs it can be cancelled by name: it is in the
\* registry under its own generation, or its token is, or is about to be,
\* cancelled.  An older guard of the same name never unregisters it.
RunningIsCancellable ==
    \A q \in Requests :
        (reqs[q].pc \in RunningAt /\ reqs[q].reg # 0) =>
            reqs[q].reg \in {entries[NameOf[q]]} \cup taken \cup cancelled

\* "may enter the cache only if that generation is still current" (ADR 0009):
\* whatever a read resolved before a rotation, no read that starts after it is
\* served a client of an older generation.
CachedClientsAreCurrent ==
    \A c \in Contexts : clients[c] # NoClient => clients[c].gen = generation

\* A client that counts as built from the files on disk was: a kubeconfig
\* rewritten while a client is built never leaves the old one cached as new.
CachedClientsReflectFiles ==
    \A c \in Contexts :
        (clients[c] # NoClient /\ clients[c].fp = files) => clients[c].config = files

\* "an older transition cannot rotate clients after C starts loading"
\* (ADR 0009): clients rotate only while no workspace is mounted.
RotatesOnlySuspended == [][generation' # generation => mounted = Nowhere]_switchVars

\* The coordinator rests only on the newest destination, whenever it was
\* asked for, also between the end of one loop and its completion.
RestsOnNewest == run = "idle" => latest = Nowhere /\ mounted = asked

\* When the next workspace mounts, a read of an earlier one that still runs
\* uncancelled reached the backend after cancel_all, or has no name and
\* obtained its client after the rotation.
OnlyLateArrivalsSurvive ==
    (run = "cancel" /\ switch.pc = "returned") =>
        \A q \in Requests :
            (reqs[q].pc \in RunningAt /\ reqs[q].reg \notin cancelled \cup taken) =>
                \/ reqs[q].reg >= switch.upto
                \/ /\ reqs[q].reg = 0
                   /\ reqs[q].pc \in HasGeneration =>
                         reqs[q].gen > switch.prev \/ reqs[q].gen \in dead

\* A request is accounted for wherever it is: types hold, a running one can be
\* cancelled, cached clients are current, and only late arrivals survive.
RequestsAreAccountedFor ==
    SwitchTypeOK /\ RunningIsCancellable /\ CachedClientsAreCurrent /\ OnlyLateArrivalsSurvive

\* At rest the newest destination is shown, and what counts as built from the
\* files on disk is.
RestsOnWhatIsThere == RestsOnNewest /\ CachedClientsReflectFiles

\* CHANGELOG.md, on workspace and context changes: in-flight backend work is
\* cancelled before them.
OldWorkIsCancelled ==
    mounted # Nowhere =>
        \A q \in Requests :
            (reqs[q].pc = "call" /\ issued[q] < generation) =>
                reqs[q].reg \in cancelled \/ reqs[q].gen \in dead

\* A switch that was asked for ends in the newest workspace even when no
\* cluster answers: nothing in it waits for the reads it cancels.
SwitchCompletes ==
    \A w \in Workspaces : (asked = w) ~> (mounted = w \/ asked # w)

\* A read that holds a client of an older generation ends although its API
\* server never answers.
OldReadsEnd ==
    \A q \in Requests :
        (reqs[q].pc \in {"resolve", "call"} /\ reqs[q].gen < generation)
            ~> (reqs[q].pc = "done")

\* No cluster that fails to answer holds up a switch, or outlives it.
SwitchesEnd == SwitchCompletes /\ OldReadsEnd
=============================================================================
