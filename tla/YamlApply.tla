------------------------------ MODULE YamlApply ------------------------------
(* Editing a resource's YAML: the editor of ResourceYamlPane.svelte, and the  *)
(* backend's prepare_yaml_apply and apply_yaml.                              *)
(*                                                                          *)
(* The editor stays editable and can be cancelled while a call is in flight;  *)
(* an answer is taken whatever is drafted by then.  A resource has a pane of  *)
(* its own: the answers to a pane that is gone are lost.                     *)
EXTENDS Naturals, FiniteSets

CONSTANTS
    Objects,          \* resources that can be shown: [version, kind, name, namespaced, namespace]
    Typed,            \* the documents a user may write, see Manifest
    ForceAlways,      \* the setting allowYamlForceConflicts
    YamlCalls,        \* calls of the backend
    MaxEdits,         \* bound on the edits of the draft and the changes of resource
    MaxTakeovers,     \* bound on the changes of ownership in the cluster
    Blank             \* no object, no document

\* The API gives objects of the whole cluster no namespace.
ASSUME ObjectsAssumption == \A o \in Objects : ~o.namespaced => o.namespace = Blank

VARIABLES
    shown,            \* the resource of the detail panel
    pane,             \* the state of the editor
    yamlCall,         \* call -> what it asks and how far it is
    contested,        \* resources of which another manager owns a field that drafts set
    takeovers,        \* changes of contested so far
    edits,            \* edits and changes of resource so far
    dryRuns,          \* history: the requests the cluster has accepted as a dry run
    applied,          \* history: the requests the cluster has applied
    crossed           \* history: a preview was taken by another draft than its own

yamlVars == <<shown, pane, yamlCall, contested, takeovers, edits, dryRuns, applied, crossed>>

\* What Edit YAML reads: the resource itself, in one document.
Manifest(o) == [documents |-> 1, version |-> o.version, kind |-> o.kind, name |-> o.name,
                namespace |-> o.namespace, body |-> "live"]

Closed == [editing |-> FALSE, draft |-> Blank, loading |-> FALSE, preview |-> FALSE,
           previewForce |-> FALSE, forceHere |-> FALSE, preparing |-> FALSE,
           applying |-> FALSE, conflict |-> FALSE]

YamlInit ==
    /\ shown \in Objects
    /\ pane = Closed
    /\ yamlCall = [c \in YamlCalls |-> [at |-> "idle"]]
    /\ contested = {} /\ takeovers = 0 /\ edits = 0
    /\ dryRuns = {} /\ applied = {} /\ crossed = FALSE

IsSecret(o) == o.kind = "Secret" /\ o.version = "v1"
Cleared(p) == [p EXCEPT !.preview = FALSE, !.forceHere = FALSE, !.conflict = FALSE]

\* A request is built from the draft there is when the call is made.
Send(c, does, force) ==
    /\ yamlCall[c].at = "idle"
    /\ yamlCall' = [yamlCall EXCEPT ![c] =
         [at |-> "asked", does |-> does, object |-> shown, yaml |-> pane.draft,
          force |-> force, heard |-> TRUE]]

-----------------------------------------------------------------------------
(* The editor                                                               *)

\* The panel is keyed by the resource: another one has a new pane.
ShowObject(o) ==
    /\ o # shown /\ edits < MaxEdits /\ edits' = edits + 1
    /\ shown' = o /\ pane' = Closed
    /\ yamlCall' = [c \in YamlCalls |->
         IF yamlCall[c].at = "idle" THEN yamlCall[c] ELSE [yamlCall[c] EXCEPT !.heard = FALSE]]
    /\ UNCHANGED <<contested, takeovers, dryRuns, applied, crossed>>

\* Cancel, and a change of the shape or the encoding before the editor opens.
ResetYamlApply ==
    /\ pane # Closed /\ pane' = Closed
    /\ UNCHANGED <<shown, yamlCall, contested, takeovers, edits, dryRuns, applied, crossed>>

StartYamlApplyEdit(c) ==
    /\ ~IsSecret(shown) /\ ~pane.editing /\ ~pane.loading
    /\ Send(c, "load", FALSE)
    /\ pane' = [Cleared(pane) EXCEPT !.loading = TRUE]
    /\ UNCHANGED <<shown, contested, takeovers, edits, dryRuns, applied, crossed>>

\* Mutant: an edit leaves the preview of the draft before it.
EditDraft_keeps_preview(yaml) ==
    /\ pane.editing /\ edits < MaxEdits /\ yaml # pane.draft
    /\ pane' = [pane EXCEPT !.draft = yaml]
    /\ edits' = edits + 1
    /\ UNCHANGED <<shown, yamlCall, contested, takeovers, dryRuns, applied, crossed>>

EditDraft(yaml) ==
    /\ pane.editing /\ edits < MaxEdits /\ yaml # pane.draft
    /\ pane' = [Cleared(pane) EXCEPT !.draft = yaml]
    /\ edits' = edits + 1
    /\ UNCHANGED <<shown, yamlCall, contested, takeovers, dryRuns, applied, crossed>>

\* Format, which leaves the meaning of the draft as it is.
FormatYamlDraft ==
    /\ pane.editing /\ ~pane.loading /\ ~pane.preparing /\ ~pane.applying
    /\ pane # Cleared(pane) /\ pane' = Cleared(pane)
    /\ UNCHANGED <<shown, yamlCall, contested, takeovers, edits, dryRuns, applied, crossed>>

Preparing == [pane EXCEPT !.preparing = TRUE, !.preview = FALSE, !.conflict = FALSE]

PreviewYamlApply(c) ==
    /\ pane.editing /\ ~pane.preparing
    /\ Send(c, "prepare", ForceAlways \/ pane.forceHere)
    /\ pane' = Preparing
    /\ UNCHANGED <<shown, contested, takeovers, edits, dryRuns, applied, crossed>>

AllowForceForResource(c) ==
    /\ pane.editing /\ pane.conflict /\ ~ForceAlways /\ ~pane.forceHere
    /\ ~pane.preparing /\ ~pane.applying
    /\ Send(c, "prepare", TRUE)
    /\ pane' = [Preparing EXCEPT !.forceHere = TRUE]
    /\ UNCHANGED <<shown, contested, takeovers, edits, dryRuns, applied, crossed>>

\* The button is there while there is a preview; the request is built anew.
ApplyYamlPreview(c) ==
    /\ pane.editing /\ pane.preview /\ ~pane.applying
    /\ Send(c, "apply", pane.previewForce)
    /\ pane' = [pane EXCEPT !.applying = TRUE]
    /\ UNCHANGED <<shown, contested, takeovers, edits, dryRuns, applied, crossed>>

-----------------------------------------------------------------------------
(* The backend                                                              *)

\* validate_yaml_apply: one document that names the requested resource.
ValidDocument(r) ==
    /\ ~IsSecret(r.object)
    /\ r.yaml # Blank /\ r.yaml.documents = 1
    /\ r.yaml.version = r.object.version
    /\ r.yaml.kind = r.object.kind
    /\ r.yaml.name = r.object.name
    /\ IF r.object.namespaced THEN r.yaml.namespace = r.object.namespace
                              ELSE r.yaml.namespace = Blank

RequestOf(r) == [object |-> r.object, yaml |-> r.yaml, force |-> r.force]

Finish(c, result) == yamlCall' = [yamlCall EXCEPT ![c].at = result]

\* The patch, persisted unless it is a dry run.  The read before it, the client
\* and the patch may each fail.
Patch(c) ==
    /\ yamlCall[c].at = "asked" /\ yamlCall[c].does # "load"
    /\ \/ /\ ValidDocument(yamlCall[c])
          /\ yamlCall[c].object \in contested => yamlCall[c].force
          /\ Finish(c, "ok")
          /\ IF yamlCall[c].does = "prepare"
             THEN /\ dryRuns' = dryRuns \cup {RequestOf(yamlCall[c])}
                  /\ UNCHANGED <<applied, contested>>
             ELSE /\ applied' = applied \cup {RequestOf(yamlCall[c])}
                  /\ contested' = contested \ {yamlCall[c].object}
                  /\ UNCHANGED dryRuns
       \/ /\ ValidDocument(yamlCall[c])
          /\ yamlCall[c].object \in contested /\ ~yamlCall[c].force
          /\ Finish(c, "conflict") /\ UNCHANGED <<dryRuns, applied, contested>>
       \/ Finish(c, "failed") /\ UNCHANGED <<dryRuns, applied, contested>>
    /\ UNCHANGED <<shown, pane, takeovers, edits, crossed>>

\* Another manager takes the ownership of a field.
Takeover(o) ==
    /\ takeovers < MaxTakeovers /\ o \notin contested
    /\ contested' = contested \cup {o} /\ takeovers' = takeovers + 1
    /\ UNCHANGED <<shown, pane, yamlCall, edits, dryRuns, applied, crossed>>

-----------------------------------------------------------------------------
(* Answers, taken by the pane that asked                                    *)

Drop(c) == yamlCall' = [yamlCall EXCEPT ![c] = [at |-> "idle"]]

\* An editor that is open already hears of its new document as of an edit.
DraftTaken(c) ==
    LET before == IF pane.editing THEN Cleared(pane) ELSE pane
    IN  [before EXCEPT !.draft = Manifest(yamlCall[c].object), !.editing = TRUE,
                       !.loading = FALSE]

DraftAnswered(c) ==
    /\ yamlCall[c].at = "asked" /\ yamlCall[c].does = "load" /\ yamlCall[c].heard /\ Drop(c)
    /\ pane' \in {DraftTaken(c), [pane EXCEPT !.loading = FALSE]}
    /\ UNCHANGED <<shown, contested, takeovers, edits, dryRuns, applied, crossed>>

PrepareTaken(c) ==
    IF yamlCall[c].at = "ok"
    THEN [pane EXCEPT !.preview = TRUE, !.previewForce = yamlCall[c].force, !.preparing = FALSE]
    ELSE [pane EXCEPT !.conflict = yamlCall[c].at = "conflict", !.preparing = FALSE]

PrepareAnswered(c) ==
    /\ yamlCall[c].at \in {"ok", "conflict", "failed"} /\ yamlCall[c].does = "prepare"
    /\ yamlCall[c].heard /\ Drop(c)
    /\ pane' = PrepareTaken(c)
    /\ crossed' = (crossed \/ (yamlCall[c].at = "ok"
                                 /\ ~(pane.editing /\ yamlCall[c].yaml = pane.draft)))
    /\ UNCHANGED <<shown, contested, takeovers, edits, dryRuns, applied>>

ApplyTaken(c) ==
    IF yamlCall[c].at = "ok"
    THEN [pane EXCEPT !.editing = FALSE, !.preview = FALSE, !.applying = FALSE]
    ELSE [pane EXCEPT !.applying = FALSE]

ApplyAnswered(c) ==
    /\ yamlCall[c].at \in {"ok", "conflict", "failed"} /\ yamlCall[c].does = "apply"
    /\ yamlCall[c].heard /\ Drop(c)
    /\ pane' = ApplyTaken(c)
    /\ UNCHANGED <<shown, contested, takeovers, edits, dryRuns, applied, crossed>>

\* Nobody is left to hear the answer.
AnswerLost(c) ==
    /\ yamlCall[c].at \notin {"idle", "asked"} \/ (yamlCall[c].at = "asked" /\ yamlCall[c].does = "load")
    /\ ~yamlCall[c].heard /\ Drop(c)
    /\ UNCHANGED <<shown, pane, contested, takeovers, edits, dryRuns, applied, crossed>>

YamlNext ==
    \/ \E o \in Objects : ShowObject(o) \/ Takeover(o)
    \/ \E yaml \in Typed : EditDraft(yaml)
    \/ FormatYamlDraft \/ ResetYamlApply
    \/ \E c \in YamlCalls :
         \/ StartYamlApplyEdit(c) \/ PreviewYamlApply(c) \/ AllowForceForResource(c)
         \/ ApplyYamlPreview(c) \/ Patch(c) \/ DraftAnswered(c) \/ PrepareAnswered(c)
         \/ ApplyAnswered(c) \/ AnswerLost(c)

YamlSpec == YamlInit /\ [][YamlNext]_yamlVars

-----------------------------------------------------------------------------
(* Properties                                                               *)

\* Apply "is unavailable until a successful dry run; changing the draft clears the
\* preview and requires another dry run" (Edit-and-Apply-YAML.md): whatever is
\* applied has been accepted as a dry run, document, resource and force alike.
AppliedWasDryRun == applied \subseteq dryRuns

\* The same as long as no preview was taken by another draft: the preview, the
\* force it was made with and the draft go together through edits, cancels,
\* conflicts, failures and other panes.
ReviewedUnlessCrossed == ~crossed => AppliedWasDryRun

\* Whatever is typed and shown by then, a document is only ever applied to the one
\* resource it names, alone, and never to a Secret.
AppliedToWhatItNames ==
    \A r \in applied :
        /\ r.yaml.documents = 1 /\ r.object.kind = r.yaml.kind
        /\ r.object.name = r.yaml.name /\ r.object.namespace = r.yaml.namespace
        /\ ~IsSecret(r.object)

\* What is applied is what was reviewed, and to what it names.
ReviewsAreApplied == ReviewedUnlessCrossed /\ AppliedToWhatItNames
=============================================================================
