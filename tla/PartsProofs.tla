------------------------------ MODULE PartsProofs ------------------------------
(***************************************************************************)
(* Proofs about the parts that need no state of the others: that the       *)
(* guarded operations only change what the cluster accepted as a dry run,  *)
(* that the YAML editor applies what was reviewed, to the resource it      *)
(* names, that a forward to a Service ends at a Pod that can serve, that   *)
(* the key of a kubeconfig source names what it reads, and that what a     *)
(* workload uses is what its Pods use: for any resources, inputs, clusters *)
(* and numbers of calls and changes.                                       *)
(***************************************************************************)
EXTENDS GuardedOperations, YamlApply, ServiceTargets, KubeconfigSources, Metrics,
        FiniteSetTheorems, TLAPS

-----------------------------------------------------------------------------
(* Guarded operations                                                      *)

Actions == {"scale", "restart", "delete"}
Replicas == ReplicaInputs \cup {0, 1}
Prints == [action : Actions, target : Workloads, replicas : Replicas]

CommandRecord ==
    [at : {"asked", "ok", "failed"}, execute : BOOLEAN, print : Prints,
     replicas : Replicas, confirmed : BOOLEAN, heard : BOOLEAN]

GuardedTypeOK ==
    /\ workload \in Workloads
    /\ form \in [replicas : Replicas, confirmed : BOOLEAN,
                 print : Prints \cup {NoPrint}, busy : BOOLEAN]
    /\ calls \in [OperationCalls -> CommandRecord \cup [at : {"idle"}]]

\* The print of a command is the change that the command makes.
PrintsAreOfChanges ==
    \A c \in OperationCalls : calls[c].at # "idle" => calls[c].print = ChangeOf(calls[c])

\* What the form shows as a preview, the cluster has accepted.
FormShowsPreviewed == form.print # NoPrint => form.print \in previewed

\* So it has what a command on its way executes, and what a dry run brings back.
CallsArePreviewed ==
    \A c \in OperationCalls :
        (calls[c].at = "asked" /\ calls[c].execute) \/ (calls[c].at = "ok" /\ ~calls[c].execute)
            => calls[c].print \in previewed

GuardedInv ==
    /\ GuardedTypeOK
    /\ PrintsAreOfChanges
    /\ FormShowsPreviewed
    /\ CallsArePreviewed
    /\ ChangesWerePreviewed

\* A change is of the shape of a print, and is not the absence of one.
LEMMA ChangeIsPrint ==
    ASSUME NEW a \in Actions, NEW w \in Workloads, NEW n \in Replicas
    PROVE  /\ ChangeFor(a, w, n) \in Prints
           /\ ChangeFor(a, w, n) # NoPrint
           /\ ChangeFor(a, w, n).action = a /\ ChangeFor(a, w, n).target = w
           /\ ChangeFor(ChangeFor(a, w, n).action, ChangeFor(a, w, n).target, n)
                = ChangeFor(a, w, n)
  <1>1. ChangeFor(a, w, n) = [action |-> a, target |-> w,
                              replicas |-> IF a = "scale" THEN n ELSE 0]
    BY DEF ChangeFor
  <1>2. /\ ChangeFor(a, w, n).action = a /\ ChangeFor(a, w, n).target = w
        /\ ChangeFor(a, w, n) \in Prints
    BY <1>1 DEF Prints, Replicas
  <1>3. NoPrint.action = "none" /\ a # "none"
    BY DEF NoPrint, Actions
  <1>4. QED
    BY <1>2, <1>3

\* The invariant holds at the start.
LEMMA GuardedInit_Inv == GuardedInit => GuardedInv
  BY DEF GuardedInit, GuardedInv, GuardedTypeOK, PrintsAreOfChanges, FormShowsPreviewed,
         CallsArePreviewed, ChangesWerePreviewed, BlankForm, NoPrint, Replicas

\* Another panel: the form is blank, the commands go on unheard.
LEMMA OpenPanel_Inv ==
    ASSUME GuardedInv, NEW w \in Workloads, OpenPanel(w) PROVE GuardedInv'
  <1>1. /\ workload' = w /\ form' = BlankForm /\ previewed' = previewed /\ changes' = changes
        /\ calls' = [c \in OperationCalls |->
             IF calls[c].at = "idle" THEN calls[c] ELSE [calls[c] EXCEPT !.heard = FALSE]]
    BY DEF OpenPanel
  <1>2. GuardedTypeOK
    BY DEF GuardedInv
  <1>3. ASSUME NEW c \in OperationCalls
        PROVE  /\ calls'[c] \in CommandRecord \cup [at : {"idle"}]
               /\ calls'[c].at = calls[c].at
               /\ calls[c].at # "idle" =>
                    /\ calls'[c].print = calls[c].print
                    /\ calls'[c].execute = calls[c].execute
                    /\ calls'[c].replicas = calls[c].replicas
    <2>1. CASE calls[c].at = "idle"
      BY <1>1, <1>2, <2>1 DEF GuardedTypeOK
    <2>2. CASE calls[c].at # "idle"
      <3>1. calls[c] \in CommandRecord
        BY <1>2, <2>2 DEF GuardedTypeOK
      <3>2. calls'[c] = [calls[c] EXCEPT !.heard = FALSE]
        BY <1>1, <2>2
      <3>3. QED
        BY <3>1, <3>2 DEF CommandRecord
    <2>3. QED
      BY <2>1, <2>2
  <1>4. GuardedTypeOK'
    <2>1. form' \in [replicas : Replicas, confirmed : BOOLEAN,
                     print : Prints \cup {NoPrint}, busy : BOOLEAN]
      BY <1>1 DEF BlankForm, Replicas
    <2>2. QED
      BY <1>1, <1>3, <2>1 DEF GuardedTypeOK
  <1>5. PrintsAreOfChanges'
    BY <1>3 DEF GuardedInv, PrintsAreOfChanges, ChangeOf
  <1>6. FormShowsPreviewed'
    BY <1>1 DEF FormShowsPreviewed, BlankForm
  <1>7. CallsArePreviewed'
    BY <1>1, <1>3 DEF GuardedInv, CallsArePreviewed
  <1>8. ChangesWerePreviewed'
    BY <1>1 DEF GuardedInv, ChangesWerePreviewed
  <1>9. QED
    BY <1>4, <1>5, <1>6, <1>7, <1>8 DEF GuardedInv

\* Typing a number takes the preview away, ticking leaves it.
LEMMA Typing_Inv ==
    ASSUME GuardedInv, Tick \/ \E n \in ReplicaInputs : TypeReplicas(n)
    PROVE  GuardedInv'
  <1>1. /\ workload' = workload /\ calls' = calls
        /\ previewed' = previewed /\ changes' = changes
    BY DEF Tick, TypeReplicas
  <1>2. /\ form' \in [replicas : Replicas, confirmed : BOOLEAN,
                      print : Prints \cup {NoPrint}, busy : BOOLEAN]
        /\ form'.print \in {form.print, NoPrint}
    BY DEF GuardedInv, GuardedTypeOK, Tick, TypeReplicas, Replicas
  <1>3. QED
    BY <1>1, <1>2 DEF GuardedInv, GuardedTypeOK, PrintsAreOfChanges, FormShowsPreviewed,
         CallsArePreviewed, ChangesWerePreviewed, ChangeOf

\* A command is only sent to execute when the preview on the form is its own.
LEMMA Run_Inv ==
    ASSUME GuardedInv, NEW c \in OperationCalls, NEW action \in Actions,
           NEW execute \in BOOLEAN, Run(c, action, execute)
    PROVE  GuardedInv'
  <1> DEFINE print == ChangeFor(action, workload, form.replicas)
             call == [at |-> "asked", execute |-> execute, print |-> print,
                      replicas |-> form.replicas,
                      confirmed |-> execute /\ form.confirmed, heard |-> TRUE]
  <1>1. /\ calls' = [calls EXCEPT ![c] = call]
        /\ execute => form.print = print
        /\ form' = IF execute THEN [form EXCEPT !.busy = TRUE]
                   ELSE [form EXCEPT !.busy = TRUE, !.confirmed = FALSE, !.print = NoPrint]
        /\ workload' = workload /\ previewed' = previewed /\ changes' = changes
    BY DEF Run
  <1>2. GuardedTypeOK
    BY DEF GuardedInv
  <1>3. form.replicas \in Replicas /\ workload \in Workloads /\ form.confirmed \in BOOLEAN
    BY <1>2 DEF GuardedTypeOK
  <1>4. /\ print \in Prints /\ print # NoPrint
        /\ ChangeFor(print.action, print.target, form.replicas) = print
    BY <1>3, ChangeIsPrint
  <1> HIDE DEF print
  <1>5. call \in CommandRecord
    BY <1>3, <1>4 DEF CommandRecord
  <1>6. /\ call.at = "asked" /\ call.execute = execute /\ call.print = print
        /\ call.replicas = form.replicas
    OBVIOUS
  <1> HIDE DEF call
  <1>7. /\ calls' \in [OperationCalls -> CommandRecord \cup [at : {"idle"}]]
        /\ calls'[c] = call
        /\ \A k \in OperationCalls : k # c => calls'[k] = calls[k]
    BY <1>1, <1>2, <1>5 DEF GuardedTypeOK
  <1>8. /\ form' \in [replicas : Replicas, confirmed : BOOLEAN,
                      print : Prints \cup {NoPrint}, busy : BOOLEAN]
        /\ form'.print \in {form.print, NoPrint}
    BY <1>1, <1>2 DEF GuardedTypeOK
  <1>9. execute => print \in previewed
    BY <1>1, <1>4 DEF GuardedInv, FormShowsPreviewed
  <1>10. GuardedTypeOK'
    BY <1>1, <1>2, <1>7, <1>8 DEF GuardedTypeOK
  <1>11. PrintsAreOfChanges'
    BY <1>4, <1>6, <1>7 DEF GuardedInv, PrintsAreOfChanges, ChangeOf
  <1>12. FormShowsPreviewed'
    BY <1>1, <1>8 DEF GuardedInv, FormShowsPreviewed
  <1>13. CallsArePreviewed'
    BY <1>1, <1>6, <1>7, <1>9 DEF GuardedInv, CallsArePreviewed
  <1>14. ChangesWerePreviewed'
    BY <1>1 DEF GuardedInv, ChangesWerePreviewed
  <1>15. QED
    BY <1>10, <1>11, <1>12, <1>13, <1>14 DEF GuardedInv

\* The form takes the print of a dry run that was accepted.
LEMMA CommandAnswered_Inv ==
    ASSUME GuardedInv, NEW c \in OperationCalls, CommandAnswered(c) PROVE GuardedInv'
  <1>1. /\ calls' = [calls EXCEPT ![c] = [at |-> "idle"]]
        /\ workload' = workload /\ previewed' = previewed /\ changes' = changes
        /\ calls[c].at \in {"ok", "failed"}
    BY DEF CommandAnswered
  <1>2. GuardedTypeOK
    BY DEF GuardedInv
  <1>3. calls[c] \in CommandRecord
    BY <1>1, <1>2 DEF GuardedTypeOK
  <1>4. /\ calls' \in [OperationCalls -> CommandRecord \cup [at : {"idle"}]]
        /\ calls'[c].at = "idle"
        /\ \A k \in OperationCalls : k # c => calls'[k] = calls[k]
    BY <1>1, <1>2 DEF GuardedTypeOK
  <1>5. /\ form' \in [replicas : Replicas, confirmed : BOOLEAN,
                      print : Prints \cup {NoPrint}, busy : BOOLEAN]
        /\ \/ form'.print \in {form.print, NoPrint}
           \/ calls[c].at = "ok" /\ ~calls[c].execute /\ form'.print = calls[c].print
    BY <1>2, <1>3 DEF CommandAnswered, GuardedTypeOK, CommandRecord
  <1>6. QED
    BY <1>1, <1>2, <1>4, <1>5 DEF GuardedInv, GuardedTypeOK, PrintsAreOfChanges,
         FormShowsPreviewed, CallsArePreviewed, ChangesWerePreviewed, ChangeOf

\* A command makes, or tries, the change that its print says.
LEMMA Handle_Inv ==
    ASSUME GuardedInv, NEW c \in OperationCalls, Handle(c) PROVE GuardedInv'
  <1>1. GuardedTypeOK /\ calls[c].at = "asked"
    BY DEF GuardedInv, Handle
  <1>2. calls[c] \in CommandRecord
    BY <1>1 DEF GuardedTypeOK
  <1>3. PICK answer \in {"ok", "failed"} : calls' = [calls EXCEPT ![c].at = answer]
    BY DEF Handle
  <1>4. /\ calls' \in [OperationCalls -> CommandRecord \cup [at : {"idle"}]]
        /\ calls'[c].at = answer /\ calls'[c].execute = calls[c].execute
        /\ calls'[c].print = calls[c].print /\ calls'[c].replicas = calls[c].replicas
        /\ \A k \in OperationCalls : k # c => calls'[k] = calls[k]
    <2>1. [calls[c] EXCEPT !.at = answer] \in CommandRecord
      BY <1>2 DEF CommandRecord
    <2>2. /\ calls'[c] = [calls[c] EXCEPT !.at = answer]
          /\ \A k \in OperationCalls : k # c => calls'[k] = calls[k]
      BY <1>1, <1>3 DEF GuardedTypeOK
    <2>3. QED
      BY <1>1, <1>2, <1>3, <2>1, <2>2 DEF GuardedTypeOK, CommandRecord
  <1>5. calls[c].print = ChangeOf(calls[c])
    BY <1>1 DEF GuardedInv, PrintsAreOfChanges
  <1>6. /\ workload' = workload /\ form' = form
        /\ previewed \subseteq previewed'
        /\ changes' = changes \/ (calls[c].execute /\ changes' = changes \cup {calls[c].print})
        /\ calls'[c].at = "ok" /\ ~calls[c].execute => calls[c].print \in previewed'
    <2>1. workload' = workload /\ form' = form
      BY DEF Handle
    <2>2. CASE calls[c].execute /\ changes' = changes \cup {ChangeOf(calls[c])}
               /\ UNCHANGED previewed
      BY <1>5, <2>1, <2>2
    <2>3. CASE ~calls[c].execute /\ previewed' = previewed \cup {ChangeOf(calls[c])}
               /\ UNCHANGED changes
      BY <1>5, <2>1, <2>3
    <2>4. CASE calls' = [calls EXCEPT ![c].at = "failed"] /\ UNCHANGED <<previewed, changes>>
      <3>1. calls'[c].at = "failed"
        BY <1>1, <1>2, <2>4 DEF GuardedTypeOK, CommandRecord
      <3>2. QED
        BY <2>1, <2>4, <3>1
    <2>5. QED
      BY <2>2, <2>3, <2>4 DEF Handle
  <1>7. GuardedTypeOK'
    BY <1>1, <1>4, <1>6 DEF GuardedTypeOK
  <1>8. PrintsAreOfChanges'
    BY <1>4, <1>5 DEF GuardedInv, PrintsAreOfChanges, ChangeOf
  <1>9. FormShowsPreviewed'
    BY <1>6 DEF GuardedInv, FormShowsPreviewed
  <1>10. CallsArePreviewed'
    BY <1>3, <1>4, <1>6 DEF GuardedInv, CallsArePreviewed
  <1>11. ChangesWerePreviewed'
    BY <1>1, <1>6 DEF GuardedInv, CallsArePreviewed, ChangesWerePreviewed
  <1>12. QED
    BY <1>7, <1>8, <1>9, <1>10, <1>11 DEF GuardedInv

\* Every step preserves the invariant.
LEMMA GuardedNext_Inv == GuardedInv /\ [GuardedNext]_guardedVars => GuardedInv'
  <1> SUFFICES ASSUME GuardedInv, [GuardedNext]_guardedVars PROVE GuardedInv'
    OBVIOUS
  <1>1. CASE UNCHANGED guardedVars
    BY <1>1 DEF guardedVars, GuardedInv, GuardedTypeOK, PrintsAreOfChanges, FormShowsPreviewed,
         CallsArePreviewed, ChangesWerePreviewed, ChangeOf
  <1>2. CASE \E w \in Workloads : OpenPanel(w)
    BY <1>2, OpenPanel_Inv
  <1>3. CASE Tick \/ \E n \in ReplicaInputs : TypeReplicas(n)
    BY <1>3, Typing_Inv
  <1>4. CASE \E c \in OperationCalls : \E action \in Actions, execute \in BOOLEAN :
               Run(c, action, execute)
    BY <1>4, Run_Inv
  <1>5. CASE \E c \in OperationCalls : CommandAnswered(c)
    BY <1>5, CommandAnswered_Inv
  <1>6. CASE \E c \in OperationCalls : Handle(c)
    BY <1>6, Handle_Inv
  <1>7. QED
    BY <1>1, <1>2, <1>3, <1>4, <1>5, <1>6 DEF GuardedNext, Actions

\* No change is made that the cluster has not accepted as a dry run: the same action
\* on the same resource with the same number of replicas (OperationsTab.svelte and
\* commands/operations.rs).
THEOREM ChangesAlwaysPreviewed == GuardedSpec => []ChangesWerePreviewed
  <1>1. GuardedInv => ChangesWerePreviewed
    BY DEF GuardedInv
  <1>2. QED
    BY GuardedInit_Inv, GuardedNext_Inv, <1>1, PTL DEF GuardedSpec

-----------------------------------------------------------------------------
(* The YAML editor                                                         *)

USE ObjectsAssumption

Drafts == Typed \cup {Manifest(o) : o \in Objects} \cup {Blank}

PaneRecord ==
    [editing : BOOLEAN, draft : Drafts, loading : BOOLEAN, preview : BOOLEAN,
     previewForce : BOOLEAN, forceHere : BOOLEAN, preparing : BOOLEAN,
     applying : BOOLEAN, conflict : BOOLEAN]

YamlCallRecord ==
    [at : {"asked", "ok", "conflict", "failed"}, does : {"load", "prepare", "apply"},
     object : Objects, yaml : Drafts, force : BOOLEAN, heard : BOOLEAN]

YamlTypeOK ==
    /\ shown \in Objects
    /\ pane \in PaneRecord
    /\ yamlCall \in [YamlCalls -> YamlCallRecord \cup [at : {"idle"}]]
    /\ crossed \in BOOLEAN

\* What the pane would apply.
Previewed == [object |-> shown, yaml |-> pane.draft, force |-> pane.previewForce]

\* A preview stands for the draft next to it, unless another draft took it.
PreviewStands == ~crossed /\ pane.preview => pane.editing /\ Previewed \in dryRuns

\* What each call in flight stands on.
CallStands(r) ==
    /\ r.heard => r.object = shown
    /\ r.does = "prepare" /\ r.at = "ok" => RequestOf(r) \in dryRuns
    /\ r.does = "apply" /\ r.at = "asked" /\ ~crossed => RequestOf(r) \in dryRuns

CallsStand == \A c \in YamlCalls : yamlCall[c].at # "idle" => CallStands(yamlCall[c])

YamlInv ==
    /\ YamlTypeOK
    /\ PreviewStands
    /\ CallsStand
    /\ ReviewsAreApplied

\* The invariant holds at the start.
LEMMA YamlInit_Inv == YamlInit => YamlInv
  <1> SUFFICES ASSUME YamlInit PROVE YamlInv
    OBVIOUS
  <1>1. Closed \in PaneRecord /\ ~Closed.preview
    BY DEF Closed, PaneRecord, Drafts
  <1>2. YamlTypeOK /\ PreviewStands
    BY <1>1 DEF YamlInit, YamlTypeOK, PreviewStands
  <1>3. CallsStand
    BY DEF YamlInit, CallsStand
  <1>4. ReviewsAreApplied
    BY DEF YamlInit, ReviewsAreApplied, ReviewedUnlessCrossed, AppliedWasDryRun,
           AppliedToWhatItNames
  <1>5. QED
    BY <1>2, <1>3, <1>4 DEF YamlInv

\* The panes that the editor goes through are panes, and clearing one takes the
\* preview and nothing else that the invariant tells apart.
LEMMA PaneShapes ==
    ASSUME NEW p \in PaneRecord
    PROVE  /\ Closed \in PaneRecord /\ ~Closed.preview
           /\ Cleared(p) \in PaneRecord /\ ~Cleared(p).preview
           /\ Cleared(p).editing = p.editing /\ Cleared(p).draft = p.draft
           /\ Cleared(p).loading = p.loading
  BY DEF PaneRecord, Closed, Cleared, Drafts

\* A step that leaves the calls, the cluster and the resource alone keeps the
\* invariant when the preview goes, or the pane stays as far as it counts.
LEMMA PaneStep_Inv ==
    ASSUME YamlInv, pane' \in PaneRecord,
           UNCHANGED <<shown, yamlCall, dryRuns, applied, crossed>>,
           \/ ~pane'.preview
           \/ /\ pane'.preview = pane.preview /\ pane'.editing = pane.editing
              /\ pane'.draft = pane.draft /\ pane'.previewForce = pane.previewForce
    PROVE  YamlInv'
  <1>1. YamlTypeOK'
    BY DEF YamlInv, YamlTypeOK
  <1>2. PreviewStands'
    BY DEF YamlInv, PreviewStands, Previewed
  <1>3. CallsStand'
    BY DEF YamlInv, CallsStand, CallStands, RequestOf
  <1>4. ReviewsAreApplied'
    BY DEF YamlInv, ReviewsAreApplied, ReviewedUnlessCrossed, AppliedWasDryRun,
           AppliedToWhatItNames, IsSecret
  <1>5. QED
    BY <1>1, <1>2, <1>3, <1>4 DEF YamlInv

\* The editor's own steps.
LEMMA Editing_Inv ==
    ASSUME YamlInv,
           ResetYamlApply \/ FormatYamlDraft \/ \E yaml \in Typed : EditDraft(yaml)
    PROVE  YamlInv'
  <1>1. pane \in PaneRecord
    BY DEF YamlInv, YamlTypeOK
  <1>2. pane' \in PaneRecord /\ ~pane'.preview
    <2>1. CASE ResetYamlApply
      BY <1>1, <2>1, PaneShapes DEF ResetYamlApply
    <2>2. CASE FormatYamlDraft
      BY <1>1, <2>2, PaneShapes DEF FormatYamlDraft
    <2>3. CASE \E yaml \in Typed : EditDraft(yaml)
      <3>1. PICK yaml \in Typed : pane' = [Cleared(pane) EXCEPT !.draft = yaml]
        BY <2>3 DEF EditDraft
      <3>2. QED
        BY <1>1, <3>1, PaneShapes DEF PaneRecord, Drafts
    <2>4. QED
      BY <2>1, <2>2, <2>3
  <1>3. UNCHANGED <<shown, yamlCall, dryRuns, applied, crossed>>
    BY DEF ResetYamlApply, FormatYamlDraft, EditDraft
  <1>4. QED
    BY <1>2, <1>3, PaneStep_Inv

\* Another resource: a new pane, and the calls go on unheard.
LEMMA ShowObject_Inv ==
    ASSUME YamlInv, NEW o \in Objects, ShowObject(o) PROVE YamlInv'
  <1>1. /\ shown' = o /\ pane' = Closed
        /\ UNCHANGED <<dryRuns, applied, crossed>>
        /\ yamlCall' = [c \in YamlCalls |->
             IF yamlCall[c].at = "idle" THEN yamlCall[c]
             ELSE [yamlCall[c] EXCEPT !.heard = FALSE]]
    BY DEF ShowObject
  <1>2. YamlTypeOK
    BY DEF YamlInv
  <1>3. pane' \in PaneRecord /\ ~pane'.preview
    BY <1>1, <1>2, PaneShapes DEF YamlTypeOK
  <1>4. ASSUME NEW c \in YamlCalls
        PROVE  /\ yamlCall'[c] \in YamlCallRecord \cup [at : {"idle"}]
               /\ yamlCall'[c].at # "idle" => CallStands(yamlCall[c])'
    <2>1. CASE yamlCall[c].at = "idle"
      BY <1>1, <1>2, <2>1 DEF YamlTypeOK
    <2>2. CASE yamlCall[c].at # "idle"
      <3>1. yamlCall[c] \in YamlCallRecord
        BY <1>2, <2>2 DEF YamlTypeOK
      <3>2. yamlCall'[c] = [yamlCall[c] EXCEPT !.heard = FALSE]
        BY <1>1, <2>2
      <3>3. /\ yamlCall'[c] \in YamlCallRecord /\ ~yamlCall'[c].heard
            /\ yamlCall'[c].does = yamlCall[c].does /\ yamlCall'[c].at = yamlCall[c].at
            /\ RequestOf(yamlCall'[c]) = RequestOf(yamlCall[c])
        BY <3>1, <3>2 DEF YamlCallRecord, RequestOf
      <3>4. CallStands(yamlCall[c])
        BY <2>2 DEF YamlInv, CallsStand
      <3>5. QED
        BY <1>1, <3>3, <3>4 DEF CallStands
    <2>3. QED
      BY <2>1, <2>2
  <1>5. YamlTypeOK'
    BY <1>1, <1>2, <1>3, <1>4 DEF YamlTypeOK
  <1>6. PreviewStands'
    BY <1>3 DEF PreviewStands
  <1>7. CallsStand'
    BY <1>4 DEF CallsStand
  <1>8. ReviewsAreApplied'
    BY <1>1 DEF YamlInv, ReviewsAreApplied, ReviewedUnlessCrossed, AppliedWasDryRun,
           AppliedToWhatItNames, IsSecret
  <1>9. QED
    BY <1>5, <1>6, <1>7, <1>8 DEF YamlInv

\* A call is sent for the resource and the draft of the pane.
LEMMA Send_Inv ==
    ASSUME YamlInv, NEW c \in YamlCalls,
           NEW does \in {"load", "prepare", "apply"}, NEW force \in BOOLEAN,
           Send(c, does, force), pane' \in PaneRecord,
           UNCHANGED <<shown, dryRuns, applied, crossed>>,
           \/ ~pane'.preview
           \/ /\ pane'.preview = pane.preview /\ pane'.editing = pane.editing
              /\ pane'.draft = pane.draft /\ pane'.previewForce = pane.previewForce,
           does = "apply" => pane.preview /\ force = pane.previewForce
    PROVE  YamlInv'
  <1> DEFINE call == [at |-> "asked", does |-> does, object |-> shown, yaml |-> pane.draft,
                      force |-> force, heard |-> TRUE]
  <1>1. YamlTypeOK
    BY DEF YamlInv
  <1>2. call \in YamlCallRecord
    BY <1>1 DEF YamlTypeOK, YamlCallRecord, PaneRecord
  <1>3. /\ call.at = "asked" /\ call.does = does /\ call.object = shown
        /\ RequestOf(call) = [object |-> shown, yaml |-> pane.draft, force |-> force]
    BY DEF RequestOf
  <1>4. yamlCall' = [yamlCall EXCEPT ![c] = call]
    BY DEF Send
  <1> HIDE DEF call
  <1>5. /\ yamlCall' \in [YamlCalls -> YamlCallRecord \cup [at : {"idle"}]]
        /\ yamlCall'[c] = call /\ \A k \in YamlCalls : k # c => yamlCall'[k] = yamlCall[k]
    BY <1>1, <1>2, <1>4 DEF YamlTypeOK
  <1>6. does = "apply" /\ ~crossed => RequestOf(call) \in dryRuns
    BY <1>3 DEF YamlInv, PreviewStands, Previewed
  <1>7. YamlTypeOK'
    BY <1>1, <1>5 DEF YamlTypeOK
  <1>8. PreviewStands'
    BY DEF YamlInv, PreviewStands, Previewed
  <1>9. CallsStand'
    BY <1>3, <1>5, <1>6 DEF YamlInv, CallsStand, CallStands, RequestOf
  <1>10. ReviewsAreApplied'
    BY DEF YamlInv, ReviewsAreApplied, ReviewedUnlessCrossed, AppliedWasDryRun,
           AppliedToWhatItNames, IsSecret
  <1>11. QED
    BY <1>7, <1>8, <1>9, <1>10 DEF YamlInv

\* The editor's calls.
LEMMA Asking_Inv ==
    ASSUME YamlInv, NEW c \in YamlCalls,
           \/ StartYamlApplyEdit(c) \/ PreviewYamlApply(c)
           \/ AllowForceForResource(c) \/ ApplyYamlPreview(c)
    PROVE  YamlInv'
  <1>1. pane \in PaneRecord
    BY DEF YamlInv, YamlTypeOK
  <1>2. Preparing \in PaneRecord /\ ~Preparing.preview
    BY <1>1 DEF Preparing, PaneRecord
  <1>3. CASE StartYamlApplyEdit(c)
    <2>1. pane' \in PaneRecord /\ ~pane'.preview
      BY <1>1, <1>3, PaneShapes DEF StartYamlApplyEdit, PaneRecord
    <2>2. QED
      BY <1>3, <2>1, Send_Inv DEF StartYamlApplyEdit
  <1>4. CASE PreviewYamlApply(c)
    <2>1. (ForceAlways \/ pane.forceHere) \in BOOLEAN
      OBVIOUS
    <2>2. QED
      BY <1>2, <1>4, <2>1, Send_Inv DEF PreviewYamlApply
  <1>5. CASE AllowForceForResource(c)
    <2>1. pane' \in PaneRecord /\ ~pane'.preview
      BY <1>2, <1>5 DEF AllowForceForResource, PaneRecord
    <2>2. QED
      BY <1>5, <2>1, Send_Inv DEF AllowForceForResource
  <1>6. CASE ApplyYamlPreview(c)
    <2>1. /\ pane' \in PaneRecord
          /\ pane'.preview = pane.preview /\ pane'.editing = pane.editing
          /\ pane'.draft = pane.draft /\ pane'.previewForce = pane.previewForce
          /\ pane.previewForce \in BOOLEAN /\ pane.preview
      BY <1>1, <1>6 DEF ApplyYamlPreview, PaneRecord
    <2>2. QED
      BY <1>6, <2>1, Send_Inv DEF ApplyYamlPreview
  <1>7. QED
    BY <1>3, <1>4, <1>5, <1>6

\* The cluster applies a valid document, which names the resource.
LEMMA Patch_Inv ==
    ASSUME YamlInv, NEW c \in YamlCalls, Patch(c) PROVE YamlInv'
  <1> DEFINE r == yamlCall[c]
  <1>1. YamlTypeOK /\ r \in YamlCallRecord
    BY DEF YamlInv, YamlTypeOK, Patch
  <1>2. PICK result \in {"ok", "conflict", "failed"} :
           yamlCall' = [yamlCall EXCEPT ![c].at = result]
    BY DEF Patch, Finish
  <1>3. /\ yamlCall' \in [YamlCalls -> YamlCallRecord \cup [at : {"idle"}]]
        /\ yamlCall'[c].at = result /\ yamlCall'[c].does = r.does
        /\ yamlCall'[c].object = r.object /\ yamlCall'[c].heard = r.heard
        /\ RequestOf(yamlCall'[c]) = RequestOf(r)
        /\ \A k \in YamlCalls : k # c => yamlCall'[k] = yamlCall[k]
    <2>1. /\ yamlCall'[c] = [r EXCEPT !.at = result]
          /\ \A k \in YamlCalls : k # c => yamlCall'[k] = yamlCall[k]
      BY <1>1, <1>2 DEF YamlTypeOK
    <2>2. [r EXCEPT !.at = result] \in YamlCallRecord
      BY <1>1 DEF YamlCallRecord
    <2>3. QED
      BY <1>1, <1>2, <2>1, <2>2 DEF YamlTypeOK, YamlCallRecord, RequestOf
  <1>4. CallStands(r) /\ r.at = "asked"
    BY DEF YamlInv, CallsStand, Patch
  <1>5. UNCHANGED <<shown, pane, crossed>>
    BY DEF Patch
  <1>6. /\ dryRuns \subseteq dryRuns'
        /\ r.does = "prepare" /\ result = "ok" => RequestOf(r) \in dryRuns'
        /\ \/ applied' = applied
           \/ r.does = "apply" /\ ValidDocument(r) /\ applied' = applied \cup {RequestOf(r)}
    <2>1. CASE yamlCall' = [yamlCall EXCEPT ![c].at = "ok"] /\ r.does = "prepare"
               /\ dryRuns' = dryRuns \cup {RequestOf(r)} /\ UNCHANGED applied
      BY <2>1
    <2>2. CASE /\ ValidDocument(r) /\ r.does # "prepare"
               /\ applied' = applied \cup {RequestOf(r)} /\ UNCHANGED dryRuns
      <3>1. r.does = "apply"
        BY <1>1, <2>2 DEF Patch, YamlCallRecord
      <3>2. QED
        BY <2>2, <3>1
    <2>3. CASE /\ \/ yamlCall' = [yamlCall EXCEPT ![c].at = "conflict"]
                  \/ yamlCall' = [yamlCall EXCEPT ![c].at = "failed"]
               /\ UNCHANGED <<dryRuns, applied>>
      <3>1. yamlCall'[c].at \in {"conflict", "failed"}
        BY <1>1, <2>3 DEF YamlTypeOK, YamlCallRecord
      <3>2. QED
        BY <1>3, <2>3, <3>1
    <2>4. QED
      BY <2>1, <2>2, <2>3 DEF Patch, Finish
  <1>7. YamlTypeOK'
    BY <1>1, <1>3, <1>5 DEF YamlTypeOK
  <1>8. PreviewStands'
    BY <1>5, <1>6 DEF YamlInv, PreviewStands, Previewed
  <1>9. CallsStand'
    BY <1>3, <1>4, <1>5, <1>6 DEF YamlInv, CallsStand, CallStands, RequestOf
  <1>10. ReviewedUnlessCrossed'
    BY <1>4, <1>5, <1>6 DEF YamlInv, CallStands, ReviewsAreApplied, ReviewedUnlessCrossed,
       AppliedWasDryRun
  <1>11. AppliedToWhatItNames'
    <2>1. ASSUME ValidDocument(r)
          PROVE  LET q == RequestOf(r) IN
                 /\ q.yaml.documents = 1 /\ q.object.kind = q.yaml.kind
                 /\ q.object.name = q.yaml.name /\ q.object.namespace = q.yaml.namespace
                 /\ ~IsSecret(q.object)
      <3>1. /\ RequestOf(r).object = r.object /\ RequestOf(r).yaml = r.yaml
            /\ r.object \in Objects
        BY <1>1 DEF RequestOf, YamlCallRecord
      <3>2. QED
        BY <2>1, <3>1 DEF ValidDocument
    <2>2. QED
      BY <1>6, <2>1 DEF YamlInv, ReviewsAreApplied, AppliedToWhatItNames, IsSecret
  <1>12. QED
    BY <1>7, <1>8, <1>9, <1>10, <1>11 DEF YamlInv, ReviewsAreApplied

\* An answer that is taken or lost leaves the call idle and the others as they are.
LEMMA DropFacts ==
    ASSUME YamlInv, NEW c \in YamlCalls, Drop(c)
    PROVE  /\ yamlCall' \in [YamlCalls -> YamlCallRecord \cup [at : {"idle"}]]
           /\ \A k \in YamlCalls : yamlCall'[k].at # "idle" =>
                yamlCall'[k] = yamlCall[k]
  BY DEF Drop, YamlInv, YamlTypeOK

\* When the answer leaves no preview, or one that stands, the invariant goes on.
LEMMA Answer_Inv ==
    ASSUME YamlInv, NEW c \in YamlCalls, Drop(c), pane' \in PaneRecord,
           crossed' \in BOOLEAN, crossed => crossed',
           UNCHANGED <<shown, dryRuns, applied>>, PreviewStands'
    PROVE  YamlInv'
  <1>1. YamlTypeOK'
    BY DropFacts DEF YamlInv, YamlTypeOK
  <1>2. CallsStand'
    BY DropFacts DEF YamlInv, CallsStand, CallStands, RequestOf
  <1>3. ReviewsAreApplied'
    BY DEF YamlInv, ReviewsAreApplied, ReviewedUnlessCrossed, AppliedWasDryRun,
           AppliedToWhatItNames, IsSecret
  <1>4. QED
    BY <1>1, <1>2, <1>3 DEF YamlInv

\* An answer arrives, or is lost.
LEMMA Answers_Inv ==
    ASSUME YamlInv, NEW c \in YamlCalls,
           DraftAnswered(c) \/ PrepareAnswered(c) \/ ApplyAnswered(c) \/ AnswerLost(c)
    PROVE  YamlInv'
  <1> DEFINE r == yamlCall[c]
  <1>1. pane \in PaneRecord /\ crossed \in BOOLEAN /\ PreviewStands
    BY DEF YamlInv, YamlTypeOK
  <1>2. r.at # "idle" => r \in YamlCallRecord /\ CallStands(r)
    BY DEF YamlInv, YamlTypeOK, CallsStand
  <1>3. CASE DraftAnswered(c)
    <2>1. r \in YamlCallRecord /\ Drop(c) /\ UNCHANGED <<shown, dryRuns, applied, crossed>>
      BY <1>2, <1>3 DEF DraftAnswered
    <2>2. CASE pane' = [pane EXCEPT !.loading = FALSE]
      <3>1. /\ pane' \in PaneRecord /\ pane'.preview = pane.preview
            /\ pane'.editing = pane.editing /\ pane'.draft = pane.draft
            /\ pane'.previewForce = pane.previewForce
        BY <1>1, <2>2 DEF PaneRecord
      <3>2. PreviewStands'
        BY <1>1, <2>1, <3>1 DEF PreviewStands, Previewed
      <3>3. QED
        BY <1>1, <2>1, <3>1, <3>2, Answer_Inv
    <2>3. CASE pane' = DraftTaken(c)
      <3>1. Manifest(r.object) \in Drafts
        BY <2>1 DEF Drafts, YamlCallRecord
      <3>2. PICK before \in PaneRecord :
               /\ pane' = [before EXCEPT !.draft = Manifest(r.object), !.editing = TRUE,
                                         !.loading = FALSE]
               /\ ~before.preview \/ (before = pane /\ ~pane.editing)
        BY <1>1, <2>3, PaneShapes DEF DraftTaken
      <3>3. pane' \in PaneRecord /\ pane'.preview = before.preview
        BY <3>1, <3>2 DEF PaneRecord
      <3>4. PreviewStands'
        BY <1>1, <2>1, <3>2, <3>3 DEF PreviewStands, Previewed
      <3>5. QED
        BY <1>1, <2>1, <3>3, <3>4, Answer_Inv
    <2>4. QED
      BY <1>3, <2>2, <2>3 DEF DraftAnswered
  <1>4. CASE PrepareAnswered(c)
    <2>1. /\ r \in YamlCallRecord /\ CallStands(r) /\ r.heard /\ r.does = "prepare"
          /\ Drop(c) /\ UNCHANGED <<shown, dryRuns, applied>>
      BY <1>2, <1>4 DEF PrepareAnswered
    <2>2. /\ crossed' \in BOOLEAN
          /\ crossed => crossed'
          /\ r.at = "ok" /\ ~crossed' => ~crossed /\ pane.editing /\ r.yaml = pane.draft
      BY <1>1, <1>4 DEF PrepareAnswered
    <2>3. CASE r.at = "ok"
      <3>1. /\ pane' \in PaneRecord /\ pane'.editing = pane.editing
            /\ pane'.draft = pane.draft /\ pane'.previewForce = r.force
        BY <1>1, <1>4, <2>1, <2>3 DEF PrepareAnswered, PrepareTaken, PaneRecord, YamlCallRecord
      <3>2. PreviewStands'
        BY <2>1, <2>2, <2>3, <3>1 DEF PreviewStands, Previewed, CallStands, RequestOf
      <3>3. QED
        BY <2>1, <2>2, <3>1, <3>2, Answer_Inv
    <2>4. CASE r.at # "ok"
      <3>1. /\ pane' \in PaneRecord /\ pane'.editing = pane.editing
            /\ pane'.draft = pane.draft /\ pane'.previewForce = pane.previewForce
            /\ pane'.preview = pane.preview
        BY <1>1, <1>4, <2>4 DEF PrepareAnswered, PrepareTaken, PaneRecord
      <3>2. PreviewStands'
        BY <1>1, <2>1, <2>2, <3>1 DEF PreviewStands, Previewed
      <3>3. QED
        BY <2>1, <2>2, <3>1, <3>2, Answer_Inv
    <2>5. QED
      BY <2>3, <2>4
  <1>5. CASE ApplyAnswered(c)
    <2>1. Drop(c) /\ UNCHANGED <<shown, dryRuns, applied, crossed>>
      BY <1>5 DEF ApplyAnswered
    <2>2. /\ pane' \in PaneRecord
          /\ \/ ~pane'.preview
             \/ /\ pane'.preview = pane.preview /\ pane'.editing = pane.editing
                /\ pane'.draft = pane.draft /\ pane'.previewForce = pane.previewForce
      BY <1>1, <1>5 DEF ApplyAnswered, ApplyTaken, PaneRecord
    <2>3. PreviewStands'
      BY <1>1, <2>1, <2>2 DEF PreviewStands, Previewed
    <2>4. QED
      BY <1>1, <2>1, <2>2, <2>3, Answer_Inv
  <1>6. CASE AnswerLost(c)
    <2>1. Drop(c) /\ UNCHANGED <<shown, pane, dryRuns, applied, crossed>>
      BY <1>6 DEF AnswerLost
    <2>2. PreviewStands'
      BY <1>1, <2>1 DEF PreviewStands, Previewed
    <2>3. QED
      BY <1>1, <2>1, <2>2, Answer_Inv
  <1>7. QED
    BY <1>3, <1>4, <1>5, <1>6

\* Every step preserves the invariant.
LEMMA YamlNext_Inv == YamlInv /\ [YamlNext]_yamlVars => YamlInv'
  <1> SUFFICES ASSUME YamlInv, [YamlNext]_yamlVars PROVE YamlInv'
    OBVIOUS
  <1>1. CASE UNCHANGED yamlVars \/ \E o \in Objects : Takeover(o)
    <2>1. UNCHANGED <<shown, pane, yamlCall, dryRuns, applied, crossed>>
      BY <1>1 DEF yamlVars, Takeover
    <2>2. pane' \in PaneRecord
      BY <2>1 DEF YamlInv, YamlTypeOK
    <2>3. QED
      BY <2>1, <2>2, PaneStep_Inv
  <1>2. CASE \E o \in Objects : ShowObject(o)
    BY <1>2, ShowObject_Inv
  <1>3. CASE ResetYamlApply \/ FormatYamlDraft \/ \E yaml \in Typed : EditDraft(yaml)
    BY <1>3, Editing_Inv
  <1>4. CASE \E c \in YamlCalls :
               \/ StartYamlApplyEdit(c) \/ PreviewYamlApply(c)
               \/ AllowForceForResource(c) \/ ApplyYamlPreview(c)
    BY <1>4, Asking_Inv
  <1>5. CASE \E c \in YamlCalls : Patch(c)
    BY <1>5, Patch_Inv
  <1>6. CASE \E c \in YamlCalls :
               DraftAnswered(c) \/ PrepareAnswered(c) \/ ApplyAnswered(c) \/ AnswerLost(c)
    BY <1>6, Answers_Inv
  <1>7. QED
    BY <1>1, <1>2, <1>3, <1>4, <1>5, <1>6 DEF YamlNext

\* What is applied was accepted as a dry run, document, resource and force alike,
\* unless a preview was taken by another draft than its own, and a document is only
\* ever applied to the one resource it names (ResourceYamlPane.svelte and
\* apply/validation.rs).
THEOREM ReviewsAlwaysApplied == YamlSpec => []ReviewsAreApplied
  <1>1. YamlInv => ReviewsAreApplied
    BY DEF YamlInv
  <1>2. QED
    BY YamlInit_Inv, YamlNext_Inv, <1>1, PTL DEF YamlSpec

-----------------------------------------------------------------------------
(* Service targets                                                         *)

\* The least of some natural numbers is one of them: the numbers below one of them are
\* finitely many, and one has no fewer of them below it than any.
LEMMA OneIsLeast ==
    ASSUME NEW positions, positions \subseteq Nat, positions # {}
    PROVE  \E p \in positions : \A q \in positions : p <= q
  <1> PICK top \in positions : TRUE
    OBVIOUS
  <1> DEFINE below(p) == {q \in positions : q < p}
             early == {p \in positions : p <= top}
             belows == {below(p) : p \in early}
  <1>1. IsFiniteSet(0..top)
    <2>1. top \in Nat /\ 0 \in Int /\ top \in Int
      OBVIOUS
    <2>2. QED
      BY <2>1, FS_Interval
  <1>2. belows \subseteq FiniteSubsetsOf(0..top) /\ belows # {}
    <2>1. ASSUME NEW p \in early PROVE below(p) \in FiniteSubsetsOf(0..top)
      <3>1. below(p) \subseteq 0..top
        <4>1. ASSUME NEW q \in below(p) PROVE q \in 0..top
          <5>1. q \in Nat /\ p \in Nat /\ top \in Nat /\ q < p /\ p <= top
            OBVIOUS
          <5>2. QED
            BY <5>1
        <4> HIDE DEF below
        <4>2. QED
          BY <4>1
      <3> HIDE DEF below
      <3>2. QED
        BY <3>1, <1>1, FS_FiniteSubsetsOfFinite
    <2>2. top \in early
      OBVIOUS
    <2> HIDE DEF below, early
    <2>3. QED
      BY <2>1, <2>2
  <1>3. IsWellFoundedOn(StrictSubsetOrdering(0..top), FiniteSubsetsOf(0..top))
    BY FS_StrictSubsetOrderingWellFounded
  <1> HIDE DEF belows
  <1>4. PICK least \in belows : \A other \in belows : ~ (<<other, least>> \in StrictSubsetOrdering(0..top))
    BY <1>2, <1>3, WFMin
  <1>5. PICK p \in early : least = below(p)
    BY DEF belows
  <1>6. ASSUME NEW q \in positions, ~ (p <= q) PROVE FALSE
    <2>1. q \in early /\ p \in positions /\ p <= top
      BY <1>6
    <2>2. p \in Nat /\ q \in Nat /\ top \in Nat /\ q < p
      BY <1>6, <2>1
    <2>3. ASSUME NEW r \in positions, r < q PROVE r \in 0..top /\ r < p
      <3>1. r \in Nat
        OBVIOUS
      <3>2. QED
        BY <2>1, <2>2, <2>3, <3>1
    <2>7. ASSUME NEW r \in positions, r < p PROVE r \in 0..top
      <3>1. r \in Nat
        OBVIOUS
      <3>2. QED
        BY <2>1, <2>2, <2>7, <3>1
    <2>4. <<below(q), below(p)>> \in StrictSubsetOrdering(0..top)
      <3>1. below(q) \subseteq below(p) /\ below(q) \subseteq 0..top /\ below(p) \subseteq 0..top
        BY <2>3, <2>7
      <3>2. q \in below(p) /\ ~ (q < q)
        BY <2>2
      <3>3. q \notin below(q)
        BY <3>2
      <3> HIDE DEF below
      <3>4. QED
        BY <3>1, <3>2, <3>3 DEF StrictSubsetOrdering
    <2>5. below(q) \in belows
      BY <2>1 DEF belows
    <2>6. QED
      BY <1>4, <1>5, <2>4, <2>5
  <1>7. QED
    BY <1>6

LEMMA FirstIsOneOf ==
    ASSUME NEW positions, positions \subseteq Nat, positions # {}
    PROVE  First(positions) \in positions /\ \A q \in positions : First(positions) <= q
  BY OneIsLeast DEF First
\* What an offer may say, and what may be looked up.
Reasons == {"ExternalName", "NoTcpPorts", "SelectorRequired", "unchecked", "available",
            "TargetUnavailable", "ReadFailed", "NoReadyPod"}
Asked(port) == /\ port.by \in {"number", "name", "same"} /\ ValidPort(port.port)
               /\ port.by = "number" => ValidPort(port.target)

TargetsTypeOK ==
    /\ service \in ServiceSpecs
    /\ backends \in [BackendPods -> PodSpecs]
    /\ DOMAIN offers \subseteq Nat \ {0}
    /\ offers \in [DOMAIN offers -> [port : Nat, reason : Reasons]]
    /\ lookup.at \in {"idle", "service", "pods"}

\* While nothing has changed, what was found worth checking still is: the Service has
\* Pods of its own and a port with the number.
OffersStand ==
    ~moved => \A i \in DOMAIN offers :
        offers[i].reason \notin {"ExternalName", "NoTcpPorts", "SelectorRequired"}
        => /\ ~service.external /\ service.selector # NoTarget
           /\ PortsWith(service, offers[i].port) # {}

\* A lookup for an offer is for its port, and for one that is still to be checked.
LookupIsOfItsOffer ==
    lookup.at # "idle" =>
        \/ lookup.offer = 0
        \/ /\ lookup.offer \in DOMAIN offers
           /\ offers[lookup.offer].port = lookup.port
           /\ offers[lookup.offer].reason = "unchecked"

\* What has been read of a Service was so, and still is while nothing has changed.
ReadIsOfService ==
    lookup.at = "pods" =>
        /\ lookup.selected.tcp /\ Asked(lookup.selected)
        /\ ~moved => /\ lookup.label = service.selector
                     /\ lookup.selected = PortOf(service, lookup.port)

TargetsInv ==
    /\ TargetsTypeOK
    /\ OffersStand
    /\ LookupIsOfItsOffer
    /\ ReadIsOfService
    /\ RefusalsAreHonest

\* A port that a Service gives for a number is one of its ports, and asks for something.
LEMMA PortOfIsPort ==
    ASSUME NEW spec \in ServiceSpecs, NEW n, PortsWith(spec, n) # {}
    PROVE  Asked(PortOf(spec, n))
  <1>1. /\ spec.ports \in Seq(Range(spec.ports))
        /\ \A port \in Range(spec.ports) : Asked(port)
    BY TargetsAssumption DEF Asked
  <1>2. DOMAIN spec.ports \subseteq Nat
    BY <1>1
  <1>3. First(PortsWith(spec, n)) \in PortsWith(spec, n)
    <2>1. PortsWith(spec, n) \subseteq Nat
      BY <1>2 DEF PortsWith
    <2>2. QED
      BY <2>1, FirstIsOneOf
  <1>4. First(PortsWith(spec, n)) \in DOMAIN spec.ports
    BY <1>3 DEF PortsWith
  <1>5. spec.ports[First(PortsWith(spec, n))] \in Range(spec.ports)
    BY <1>4 DEF Range
  <1>6. QED
    BY <1>1, <1>5 DEF PortOf

\* A Pod that is chosen can serve, and is named at a port it serves; if none is
\* chosen, none can.
LEMMA BackendServes ==
    ASSUME TargetsTypeOK, NEW label, NEW port, Asked(port)
    PROVE  /\ Backend(label, port) # NoTarget =>
                /\ CanServe(backends[Backend(label, port).pod], label, port)
                /\ Backend(label, port).port = PortAt(backends[Backend(label, port).pod], port)
                /\ ValidPort(Backend(label, port).port)
           /\ Backend(label, port) = NoTarget =>
                \A p \in BackendPods : ~CanServe(backends[p], label, port)
  <1> DEFINE pods == HoldingPods(label, port)
             first == First(pods)
  <1>1. BackendPods \subseteq Nat
    BY TargetsAssumption
  <1>2. \A p \in BackendPods : p \in pods <=> CanServe(backends[p], label, port)
    <2>1. TAKE p \in BackendPods
    <2>2. p \in Candidates(label) <=>
              /\ backends[p].phase = "Running" /\ backends[p].ready /\ ~backends[p].deleted
              /\ backends[p].label = label
      BY DEF Candidates, Ready
    <2>3. CASE port.by = "name"
      BY <2>2, <2>3 DEF HoldingPods, CanServe
    <2>4. CASE port.by # "name"
      BY <2>2, <2>4 DEF HoldingPods, CanServe
    <2>5. QED
      BY <2>3, <2>4
  <1>3. pods \subseteq BackendPods
    BY DEF HoldingPods, Candidates
  <1>4. CASE pods = {}
    <2>1. Backend(label, port) = NoTarget
      BY <1>4 DEF Backend
    <2>2. QED
      BY <1>2, <1>4, <2>1
  <1>5. CASE pods # {}
    <2>1. first \in BackendPods /\ CanServe(backends[first], label, port)
      BY <1>1, <1>2, <1>3, <1>5, FirstIsOneOf
    <2>2. backends[first] \in PodSpecs
      BY <2>1 DEF TargetsTypeOK
    <2> DEFINE number == IF port.by = "name" THEN backends[first].ports[port.target]
                                             ELSE Number(port)
    <2>3. Backend(label, port) = [pod |-> first, port |-> number]
      BY <1>5 DEF Backend
    <2>4. number = PortAt(backends[first], port) /\ ValidPort(number)
      <3>1. CASE port.by = "name"
        <4>1. port.target \in DOMAIN backends[first].ports
          BY <2>1, <3>1 DEF CanServe
        <4>2. ValidPort(backends[first].ports[port.target])
          BY <4>1, <2>2, TargetsAssumption
        <4>3. port.by # "number" /\ port.by # "same"
          BY <3>1
        <4>4. QED
          BY <3>1, <4>2, <4>3 DEF PortAt
      <3>2. CASE port.by = "number"
        BY <3>2 DEF PortAt, Number, Asked
      <3>3. CASE port.by = "same"
        BY <3>3 DEF PortAt, Number, Asked
      <3>4. QED
        BY <3>1, <3>2, <3>3 DEF Asked
    <2> HIDE DEF number
    <2>5. Backend(label, port) # NoTarget
      <3>1. number \in PortNumbers
        BY <2>4 DEF ValidPort
      <3>2. [pod |-> first, port |-> number] \in [pod : BackendPods, port : PortNumbers]
        BY <2>1, <3>1
      <3>3. QED
        BY <2>3, <3>2, TargetsAssumption
    <2>6. Backend(label, port).pod = first /\ Backend(label, port).port = number
      BY <2>3
    <2>7. QED
      BY <2>1, <2>4, <2>5, <2>6
  <1>6. QED
    BY <1>4, <1>5

\* The invariant holds at the start.
LEMMA TargetsInit_Inv == TargetsInit => TargetsInv
  <1>1. ASSUME TargetsInit PROVE DOMAIN offers = {} /\ offers \in [DOMAIN offers -> [port : Nat, reason : Reasons]]
    BY <1>1 DEF TargetsInit
  <1>2. ASSUME TargetsInit PROVE lookup.at = "idle"
    BY <1>2 DEF TargetsInit, Resting
  <1>3. QED
    BY <1>1, <1>2 DEF TargetsInit, TargetsInv, TargetsTypeOK, OffersStand, LookupIsOfItsOffer,
       ReadIsOfService, RefusalsAreHonest

\* What is found to be offered stands, and nothing has been refused.
LEMMA ListServices_Inv ==
    ASSUME TargetsInv, ListServices PROVE TargetsInv' /\ found' = found
  <1>1. /\ offers' = Capabilities(service) /\ lookup.at = "idle"
        /\ service' = service /\ backends' = backends /\ lookup' = lookup /\ found' = found
    BY DEF ListServices
  <1>2. service \in ServiceSpecs /\ TargetsTypeOK
    BY DEF TargetsInv, TargetsTypeOK
  <1>3. /\ service.ports \in Seq(Range(service.ports))
        /\ \A port \in Range(service.ports) : ValidPort(port.port)
    BY <1>2, TargetsAssumption
  <1>4. /\ DOMAIN service.ports \subseteq Nat \ {0}
        /\ \A i \in DOMAIN service.ports : service.ports[i].port \in PortNumbers
    <2>1. DOMAIN service.ports = 1..Len(service.ports) /\ Len(service.ports) \in Nat
      BY <1>3
    <2>2. ASSUME NEW i \in DOMAIN service.ports PROVE service.ports[i] \in Range(service.ports)
      BY <2>2 DEF Range
    <2>3. QED
      BY <1>3, <2>1, <2>2 DEF ValidPort
  <1>5. PortNumbers \subseteq Nat
    BY DEF PortNumbers
  <1> DEFINE standing == /\ ~service.external /\ service.selector # NoTarget
      offered == {"ExternalName", "NoTcpPorts", "SelectorRequired", "unchecked"}
      stands(i) == offers'[i].reason = "unchecked" =>
          /\ ~service.external /\ service.selector # NoTarget
          /\ PortsWith(service, offers'[i].port) # {}
  <1>6. /\ DOMAIN offers' \subseteq Nat \ {0}
        /\ offers' \in [DOMAIN offers' -> [port : Nat, reason : offered]]
        /\ \A i \in DOMAIN offers' : stands(i)
    <2>1. CASE ~service.argo
      BY <1>1, <2>1 DEF Capabilities
    <2>2. ASSUME NEW reason \in {"ExternalName", "NoTcpPorts"}, offers' = <<Offer(0, reason)>>
          PROVE  <1>6
      <3>1. /\ DOMAIN offers' = {1} /\ offers'[1] = Offer(0, reason)
            /\ offers' = [i \in {1} |-> Offer(0, reason)]
        BY <2>2
      <3>2. /\ Offer(0, reason) \in [port : Nat, reason : offered]
            /\ Offer(0, reason).reason # "unchecked"
        BY DEF Offer
      <3> HIDE DEF offered
      <3>3. QED
        BY <3>1, <3>2
    <2>3. ASSUME service.argo, ~service.external, TcpPorts(service) # {} PROVE <1>6
      <3> DEFINE reasonOf == IF service.selector = NoTarget THEN "SelectorRequired" ELSE "unchecked"
      <3>1. offers' = [i \in TcpPorts(service) |-> Offer(service.ports[i].port, reasonOf)]
        BY <1>1, <2>3 DEF Capabilities
      <3>2. TcpPorts(service) \subseteq DOMAIN service.ports
        BY DEF TcpPorts
      <3>3. ASSUME NEW i \in TcpPorts(service)
            PROVE  /\ Offer(service.ports[i].port, reasonOf) \in [port : Nat, reason : offered]
                   /\ Offer(service.ports[i].port, reasonOf).reason = reasonOf
                   /\ PortsWith(service, Offer(service.ports[i].port, reasonOf).port) # {}
        <4>1. service.ports[i].port \in Nat /\ reasonOf \in offered /\ i \in DOMAIN service.ports
          BY <1>4, <1>5, <3>2
        <4>2. Offer(service.ports[i].port, reasonOf).port = service.ports[i].port
          BY DEF Offer
        <4>3. i \in PortsWith(service, service.ports[i].port)
          BY <4>1 DEF PortsWith
        <4> HIDE DEF reasonOf, offered
        <4>4. QED
          BY <4>1, <4>2, <4>3 DEF Offer
      <3>4. reasonOf = "unchecked" => service.selector # NoTarget
        OBVIOUS
      <3> HIDE DEF reasonOf, offered
      <3>5. QED
        BY <1>4, <2>3, <3>1, <3>2, <3>3, <3>4
    <2>4. QED
      BY <1>1, <2>1, <2>2, <2>3 DEF Capabilities
  <1> HIDE DEF stands
  <1>7. \A i \in DOMAIN offers' : offers'[i].reason \in offered
    BY <1>6
  <1>8. offers' \in [DOMAIN offers' -> [port : Nat, reason : Reasons]]
    BY <1>6 DEF Reasons
  <1>9. OffersStand' /\ RefusalsAreHonest'
    BY <1>1, <1>6, <1>7 DEF OffersStand, RefusalsAreHonest, stands, PortsWith
  <1>10. TargetsTypeOK'
    BY <1>1, <1>2, <1>6, <1>8 DEF TargetsTypeOK
  <1>11. LookupIsOfItsOffer' /\ ReadIsOfService'
    BY <1>1 DEF LookupIsOfItsOffer, ReadIsOfService
  <1>12. QED
    BY <1>1, <1>9, <1>10, <1>11 DEF TargetsInv

\* Looking an offer up, and a port that is asked for.
LEMMA StartLookup_Inv ==
    ASSUME TargetsInv, CheckOffer \/ \E n \in ForwardPorts : ForwardRequest(n)
    PROVE  TargetsInv' /\ found' = found
  <1>1. /\ UNCHANGED <<service, backends, offers, found, moved>>
        /\ lookup'.at = "service"
    BY DEF CheckOffer, ForwardRequest
  <1>2. TargetsTypeOK' /\ OffersStand' /\ RefusalsAreHonest' /\ ReadIsOfService'
    <2>1. TargetsTypeOK'
      BY <1>1 DEF TargetsInv, TargetsTypeOK
    <2>2. OffersStand'
      BY <1>1 DEF TargetsInv, OffersStand
    <2>3. RefusalsAreHonest'
      BY <1>1 DEF TargetsInv, RefusalsAreHonest
    <2>4. ReadIsOfService'
      BY <1>1 DEF ReadIsOfService
    <2>5. QED
      BY <2>1, <2>2, <2>3, <2>4
  <1>3. CASE CheckOffer
    <2>1. DOMAIN offers \subseteq Nat
      BY DEF TargetsInv, TargetsTypeOK
    <2>2. Unchecked \subseteq Nat /\ Unchecked # {}
      BY <1>3, <2>1 DEF CheckOffer, Unchecked
    <2>3. First(Unchecked) \in Unchecked
      BY <2>2, FirstIsOneOf
    <2>4. First(Unchecked) \in DOMAIN offers /\ offers[First(Unchecked)].reason = "unchecked"
      BY <2>3 DEF Unchecked
    <2>5. lookup'.offer = First(Unchecked) /\ lookup'.port = offers[First(Unchecked)].port
      BY <1>3 DEF CheckOffer
    <2>6. LookupIsOfItsOffer'
      BY <1>1, <2>4, <2>5 DEF LookupIsOfItsOffer
    <2>7. QED
      BY <1>1, <1>2, <2>6 DEF TargetsInv
  <1>4. CASE \E n \in ForwardPorts : ForwardRequest(n)
    <2>1. lookup'.offer = 0
      BY <1>4 DEF ForwardRequest
    <2>2. QED
      BY <1>1, <1>2, <2>1 DEF TargetsInv, LookupIsOfItsOffer
  <1>5. QED
    BY <1>3, <1>4

\* A resolution ends: what is found is one that can serve, and an offer is refused only
\* if, while nothing has changed, no Pod can.
LEMMA Conclude_Inv ==
    ASSUME TargetsInv, NEW result, NEW reason \in Reasons, Conclude(result, reason),
           lookup.at # "idle", UNCHANGED <<service, backends, moved>>,
           reason \in {"NoReadyPod", "TargetUnavailable"} /\ ~moved /\ lookup.offer # 0
             => \/ ~PortOf(service, lookup.port).tcp
                \/ \A p \in BackendPods : ~CanServe(backends[p], service.selector,
                                                    PortOf(service, lookup.port))
    PROVE  TargetsInv' /\ found' \in {found, result}
  <1>1. lookup'.at = "idle" /\ found' \in {found, result}
    BY DEF Conclude, Resting
  <1>2. LookupIsOfItsOffer' /\ ReadIsOfService'
    BY <1>1 DEF LookupIsOfItsOffer, ReadIsOfService
  <1>3. CASE lookup.offer = 0
    <2>1. offers' = offers
      BY <1>3 DEF Conclude
    <2>2. TargetsTypeOK' /\ OffersStand' /\ RefusalsAreHonest'
      <3>1. TargetsTypeOK'
        BY <1>1, <2>1 DEF TargetsInv, TargetsTypeOK
      <3>2. OffersStand'
        BY <1>1, <2>1 DEF TargetsInv, OffersStand
      <3>3. RefusalsAreHonest'
        BY <1>1, <2>1 DEF TargetsInv, RefusalsAreHonest
      <3>4. QED
        BY <3>1, <3>2, <3>3
    <2>3. QED
      BY <1>1, <1>2, <2>2 DEF TargetsInv
  <1>4. CASE lookup.offer # 0
    <2> DEFINE mine == lookup.offer
    <2>1. /\ mine \in DOMAIN offers /\ offers[mine].port = lookup.port
          /\ offers[mine].reason = "unchecked"
          /\ offers \in [DOMAIN offers -> [port : Nat, reason : Reasons]]
      BY <1>4 DEF TargetsInv, TargetsTypeOK, LookupIsOfItsOffer
    <2>2. offers' = [offers EXCEPT ![mine].reason = reason]
      BY <1>4 DEF Conclude
    <2>3. /\ DOMAIN offers' = DOMAIN offers
          /\ offers' \in [DOMAIN offers -> [port : Nat, reason : Reasons]]
          /\ \A i \in DOMAIN offers : /\ offers'[i].port = offers[i].port
                                      /\ i # mine => offers'[i] = offers[i]
          /\ offers'[mine].reason = reason
      BY <2>1, <2>2
    <2>4. TargetsTypeOK'
      BY <1>1, <2>3 DEF TargetsInv, TargetsTypeOK
    <2>5. OffersStand'
      BY <2>1, <2>3 DEF TargetsInv, OffersStand, PortsWith
    <2>6. RefusalsAreHonest'
      <3> SUFFICES ASSUME NEW i \in DOMAIN offers',
                          offers'[i].reason \in {"NoReadyPod", "TargetUnavailable"}, ~moved',
                          PortOf(service', offers'[i].port).tcp,
                          NEW p \in BackendPods
                   PROVE  ~CanServe(backends'[p], service'.selector,
                                    PortOf(service', offers'[i].port))
        BY DEF RefusalsAreHonest
      <3>1. i \in DOMAIN offers /\ offers'[i].port = offers[i].port
        BY <2>3
      <3>2. CASE i = mine
        BY <1>4, <2>1, <2>3, <3>1, <3>2
      <3>3. CASE i # mine
        BY <2>3, <3>1, <3>3 DEF TargetsInv, RefusalsAreHonest
      <3>4. QED
        BY <3>2, <3>3
    <2>7. QED
      BY <1>1, <1>2, <2>4, <2>5, <2>6 DEF TargetsInv
  <1>5. QED
    BY <1>3, <1>4

\* The Service is read: it has the port, or the offer is refused as it has not.
LEMMA ReadService_Inv ==
    ASSUME TargetsInv, ReadService PROVE TargetsInv' /\ found' \in {found, NoTarget}
  <1>1. lookup.at = "service" /\ UNCHANGED <<service, backends, moved>>
    BY DEF ReadService
  <1>2. service \in ServiceSpecs
    BY DEF TargetsInv, TargetsTypeOK
  <1>3. CASE /\ Forwardable(service, lookup.port)
             /\ lookup' = [at |-> "pods", offer |-> lookup.offer, port |-> lookup.port,
                           label |-> service.selector,
                           selected |-> PortOf(service, lookup.port)]
             /\ UNCHANGED <<offers, found>>
    <2>1. /\ lookup'.at = "pods" /\ lookup'.offer = lookup.offer /\ lookup'.port = lookup.port
          /\ lookup'.label = service.selector
          /\ lookup'.selected = PortOf(service, lookup.port)
      BY <1>3
    <2>2. PortOf(service, lookup.port).tcp /\ PortsWith(service, lookup.port) # {}
      BY <1>3 DEF Forwardable
    <2>3. Asked(PortOf(service, lookup.port))
      BY <1>2, <2>2, PortOfIsPort
    <2>4. ReadIsOfService'
      BY <1>1, <2>1, <2>2, <2>3 DEF ReadIsOfService
    <2>5. LookupIsOfItsOffer'
      BY <1>1, <1>3, <2>1 DEF TargetsInv, LookupIsOfItsOffer
    <2>6. TargetsTypeOK'
      BY <1>1, <1>3, <2>1 DEF TargetsInv, TargetsTypeOK
    <2>7. OffersStand'
      BY <1>1, <1>3 DEF TargetsInv, OffersStand
    <2>8. RefusalsAreHonest'
      BY <1>1, <1>3 DEF TargetsInv, RefusalsAreHonest
    <2>9. QED
      BY <1>3, <2>4, <2>5, <2>6, <2>7, <2>8 DEF TargetsInv
  <1>4. CASE ~Forwardable(service, lookup.port) /\ Conclude(NoTarget, "TargetUnavailable")
    <2>1. ASSUME ~moved, lookup.offer # 0 PROVE ~PortOf(service, lookup.port).tcp
      <3>1. /\ lookup.offer \in DOMAIN offers /\ offers[lookup.offer].port = lookup.port
            /\ offers[lookup.offer].reason = "unchecked"
        BY <1>1, <2>1 DEF TargetsInv, LookupIsOfItsOffer
      <3>2. /\ ~service.external /\ service.selector # NoTarget
            /\ PortsWith(service, lookup.port) # {}
        BY <2>1, <3>1 DEF TargetsInv, OffersStand
      <3>3. QED
        BY <1>4, <3>2 DEF Forwardable
    <2>2. QED
      BY <1>1, <1>4, <2>1, Conclude_Inv DEF Reasons
  <1>5. CASE Conclude(NoTarget, "ReadFailed")
    BY <1>1, <1>5, Conclude_Inv DEF Reasons
  <1>6. QED
    BY <1>3, <1>4, <1>5 DEF ReadService

\* The Pods are listed: one that can serve is found, or there is none.
LEMMA ListPods_Inv ==
    ASSUME TargetsInv, ListPods
    PROVE  TargetsInv' /\ (found' \notin {found, NoTarget} => TargetIsServed)
  <1>1. lookup.at = "pods" /\ UNCHANGED <<service, backends, moved>>
    BY DEF ListPods
  <1>2. /\ lookup.selected.tcp /\ Asked(lookup.selected)
        /\ ~moved => /\ lookup.label = service.selector
                     /\ lookup.selected = PortOf(service, lookup.port)
    BY <1>1 DEF TargetsInv, ReadIsOfService
  <1> DEFINE backend == Backend(lookup.label, lookup.selected)
  <1>3. /\ backend # NoTarget =>
             /\ CanServe(backends[backend.pod], lookup.label, lookup.selected)
             /\ backend.port = PortAt(backends[backend.pod], lookup.selected)
             /\ ValidPort(backend.port)
        /\ backend = NoTarget =>
             \A p \in BackendPods : ~CanServe(backends[p], lookup.label, lookup.selected)
    BY <1>2, BackendServes DEF TargetsInv
  <1> HIDE DEF backend
  <1>4. \/ backend # NoTarget /\ ValidPort(backend.port) /\ Conclude(backend, "available")
        \/ backend # NoTarget /\ ~ValidPort(backend.port)
        \/ backend = NoTarget /\ Conclude(NoTarget, "NoReadyPod")
        \/ backend = NoTarget /\ Conclude(NoTarget, "TargetUnavailable")
        \/ Conclude(NoTarget, "ReadFailed")
    BY DEF ListPods, backend
  <1>5. CASE backend # NoTarget /\ Conclude(backend, "available")
    <2>1. TargetsInv' /\ found' \in {found, backend}
      BY <1>1, <1>5, Conclude_Inv DEF Reasons
    <2>2. found' = backend => TargetIsServed
      BY <1>1, <1>2, <1>3, <1>5 DEF TargetIsServed
    <2>3. QED
      BY <2>1, <2>2
  <1>6. CASE backend = NoTarget /\ \E reason \in {"NoReadyPod", "TargetUnavailable"} :
                                       Conclude(NoTarget, reason)
    <2>1. PICK reason \in {"NoReadyPod", "TargetUnavailable"} : Conclude(NoTarget, reason)
      BY <1>6
    <2>2. ~moved => \A p \in BackendPods :
              ~CanServe(backends[p], service.selector, PortOf(service, lookup.port))
      BY <1>2, <1>3, <1>6
    <2>3. reason \in Reasons
      BY DEF Reasons
    <2>4. TargetsInv' /\ found' \in {found, NoTarget}
      BY <1>1, <2>1, <2>2, <2>3, Conclude_Inv
    <2>5. QED
      BY <2>4
  <1>7. CASE Conclude(NoTarget, "ReadFailed")
    BY <1>1, <1>7, Conclude_Inv DEF Reasons
  <1>8. QED
    BY <1>3, <1>4, <1>5, <1>6, <1>7

\* The cluster changes, and nothing is claimed any more of what was listed.
LEMMA BackendsChange_Inv ==
    ASSUME TargetsInv,
           \/ \E spec \in ServiceSpecs : ChangeService(spec)
           \/ \E p \in BackendPods, pod \in PodSpecs : ChangeBackend(p, pod)
    PROVE  TargetsInv' /\ found' = found
  <1>1. moved' = TRUE /\ UNCHANGED <<offers, lookup, found>>
    BY DEF ChangeService, ChangeBackend, BackendChange
  <1>2. service' \in ServiceSpecs /\ backends' \in [BackendPods -> PodSpecs]
    <2>1. service \in ServiceSpecs /\ backends \in [BackendPods -> PodSpecs]
      BY DEF TargetsInv, TargetsTypeOK
    <2>2. QED
      BY <2>1 DEF ChangeService, ChangeBackend
  <1>3. TargetsTypeOK'
    BY <1>1, <1>2 DEF TargetsInv, TargetsTypeOK
  <1>4. OffersStand' /\ RefusalsAreHonest'
    BY <1>1 DEF OffersStand, RefusalsAreHonest
  <1>5. LookupIsOfItsOffer'
    BY <1>1 DEF TargetsInv, LookupIsOfItsOffer
  <1>6. ReadIsOfService'
    BY <1>1 DEF TargetsInv, ReadIsOfService
  <1>7. QED
    BY <1>1, <1>3, <1>4, <1>5, <1>6 DEF TargetsInv

\* Every step keeps the invariant, and finds only what can serve.
LEMMA TargetsStep_Inv ==
    ASSUME TargetsInv, [TargetsNext]_targetVars
    PROVE  TargetsInv' /\ (found' \notin {found, NoTarget} => TargetIsServed)
  <1>1. CASE UNCHANGED targetVars
    <2>1. UNCHANGED <<service, backends, offers, lookup, found, moved>>
      BY <1>1 DEF targetVars
    <2>2. TargetsTypeOK'
      BY <2>1 DEF TargetsInv, TargetsTypeOK
    <2>3. OffersStand'
      BY <2>1 DEF TargetsInv, OffersStand
    <2>4. RefusalsAreHonest'
      BY <2>1 DEF TargetsInv, RefusalsAreHonest
    <2>5. LookupIsOfItsOffer'
      BY <2>1 DEF TargetsInv, LookupIsOfItsOffer
    <2>6. ReadIsOfService'
      BY <2>1 DEF TargetsInv, ReadIsOfService
    <2>7. QED
      BY <2>1, <2>2, <2>3, <2>4, <2>5, <2>6 DEF TargetsInv
  <1>2. CASE ListServices
    BY <1>2, ListServices_Inv
  <1>3. CASE CheckOffer \/ \E n \in ForwardPorts : ForwardRequest(n)
    BY <1>3, StartLookup_Inv
  <1>4. CASE ReadService
    BY <1>4, ReadService_Inv
  <1>5. CASE ListPods
    BY <1>5, ListPods_Inv
  <1>6. CASE \/ \E spec \in ServiceSpecs : ChangeService(spec)
             \/ \E p \in BackendPods, pod \in PodSpecs : ChangeBackend(p, pod)
    BY <1>6, BackendsChange_Inv
  <1>7. QED
    BY <1>1, <1>2, <1>3, <1>4, <1>5, <1>6 DEF TargetsNext

\* What is resolved can serve, and what is refused cannot, for any Services and Pods and
\* however the cluster changes between the two reads of a resolution.
THEOREM TargetsAlwaysHonest == TargetsSpec => TargetsAreHonest
  <1>1. ASSUME TargetsInv, [TargetsNext]_targetVars
        PROVE  TargetsInv' /\ [/\ found' \notin {found, NoTarget} => TargetIsServed
                               /\ RefusalsAreHonest']_targetVars
    BY <1>1, TargetsStep_Inv DEF TargetsInv
  <1>2. QED
    BY <1>1, TargetsInit_Inv, PTL DEF TargetsSpec, TargetsAreHonest

-----------------------------------------------------------------------------
(* Kubeconfig sources                                                      *)

\* What holds of 0, and of a number if it holds of the one before, holds up to any.
LEMMA CountingUp ==
    ASSUME NEW len \in Nat, NEW good, 0 \in good, \A n \in 1..len : n - 1 \in good => n \in good
    PROVE  \A n \in 0..len : n \in good
  <1> DEFINE bad == (0..len) \ good
  <1>1. ASSUME bad # {} PROVE FALSE
    <2>1. bad \subseteq Nat
      OBVIOUS
    <2> HIDE DEF bad
    <2>2. PICK n \in bad : \A m \in bad : n <= m
      BY <1>1, <2>1, OneIsLeast
    <2>3. n \in 0..len /\ n \notin good
      BY DEF bad
    <2>4. n \in 1..len /\ n - 1 \in 0..len /\ ~ (n <= n - 1)
      BY <2>3
    <2>5. n - 1 \in good
      BY <2>2, <2>4 DEF bad
    <2>6. QED
      BY <2>3, <2>4, <2>5
  <1>2. QED
    BY <1>1

\* Each result of some steps is that of one step more.
Steps(f, base, step, len) == f[0] = base /\ \A n \in 1..len : f[n] = step[n][f[n - 1]]

\* Steps that lead from values to values lead somewhere.
LEMMA StepsLeadSomewhere ==
    ASSUME NEW len \in Nat, NEW Values, NEW base \in Values,
           NEW step \in [1..len -> [Values -> Values]]
    PROVE  \E f \in [0..len -> Values] : Steps(f, base, step, len)
  <1> DEFINE next(f, n) == IF n = 0 THEN base ELSE step[n][f[n - 1]]
             part(n, f) == f \in [0..n -> Values] /\ \A k \in 0..n : f[k] = next(f, k)
             reached == {n \in 0..len : \E f : part(n, f)}
  <1>1. 0 \in reached
    <2> DEFINE f == [k \in 0..0 |-> base]
    <2>1. part(0, f)
      OBVIOUS
    <2> HIDE DEF f, part
    <2>2. QED
      BY <2>1
  <1>2. ASSUME NEW n \in 1..len, n - 1 \in reached PROVE n \in reached
    <2>1. PICK g : part(n - 1, g)
      BY <1>2
    <2>2. g[n - 1] \in Values /\ step[n] \in [Values -> Values]
      BY <2>1
    <2> DEFINE f == [k \in 0..n |-> IF k = n THEN step[n][g[n - 1]] ELSE g[k]]
    <2>3. f \in [0..n -> Values]
      <3>1. ASSUME NEW k \in 0..n, k # n PROVE g[k] \in Values
        <4>1. k \in 0..(n - 1)
          BY <3>1
        <4>2. QED
          BY <2>1, <4>1
      <3>2. QED
        BY <2>2, <3>1
    <2>4. ASSUME NEW k \in 0..n PROVE f[k] = next(f, k)
      <3>1. k # 0 => f[k - 1] = g[k - 1]
        OBVIOUS
      <3>2. CASE k = n
        <4>1. f[n] = step[n][g[n - 1]] /\ n # 0
          BY <1>2
        <4> HIDE DEF f
        <4>2. QED
          BY <3>1, <3>2, <4>1
      <3>3. CASE k # n
        <4>1. k \in 0..(n - 1) /\ f[k] = g[k]
          BY <3>3
        <4>2. g[k] = next(g, k)
          BY <2>1, <4>1
        <4> HIDE DEF f
        <4>3. QED
          BY <3>1, <4>1, <4>2
      <3>4. QED
        BY <3>2, <3>3
    <2>5. part(n, f)
      BY <2>3, <2>4
    <2> HIDE DEF f, part
    <2>6. QED
      BY <2>5
  <1>3. len \in reached
    <2> HIDE DEF reached
    <2>1. \A n \in 0..len : n \in reached
      BY <1>1, <1>2, CountingUp
    <2>2. QED
      BY <2>1
  <1>4. PICK f : part(len, f)
    BY <1>3
  <1>5. Steps(f, base, step, len)
    <2>1. 0 \in 0..len /\ \A n \in 1..len : n \in 0..len /\ n # 0
      OBVIOUS
    <2>2. QED
      BY <1>4, <2>1 DEF Steps
  <1>6. QED
    BY <1>4, <1>5

\* The paths at some positions of a sequence of paths are one.
LEMMA PathsAtArePaths ==
    ASSUME NEW S, NEW paths \in Seq(S), NEW positions
    PROVE  PathsAt(paths, positions) \in Seq(S)
  <1> DEFINE len == Len(paths)
             append(done, n) == IF n \in positions THEN Append(done, paths[n]) ELSE done
             upTo == CHOOSE f : f = [n \in 0..len |->
                       IF n = 0 THEN <<>>
                       ELSE IF n \in positions THEN Append(f[n - 1], paths[n]) ELSE f[n - 1]]
             step == [n \in 1..len |-> [done \in Seq(S) |-> append(done, n)]]
  <1>1. len \in Nat /\ \A n \in 1..len : paths[n] \in S
    OBVIOUS
  <1>2. PathsAt(paths, positions) = upTo[len]
    BY DEF PathsAt
  <1>3. \A n \in 1..len : \A done \in Seq(S) : append(done, n) \in Seq(S)
    BY <1>1
  <1>4. step \in [1..len -> [Seq(S) -> Seq(S)]]
    BY <1>3
  <1>5. \E f : f = [n \in 0..len |-> IF n = 0 THEN <<>> ELSE append(f[n - 1], n)]
    <2> HIDE DEF step
    <2>1. PICK f \in [0..len -> Seq(S)] :
              f[0] = <<>> /\ \A n \in 1..len : f[n] = step[n][f[n - 1]]
      <3> DEFINE none == <<>>
                 values == Seq(S)
      <3>1. none \in values /\ step \in [1..len -> [values -> values]] /\ len \in Nat
        BY <1>1, <1>4
      <3> HIDE DEF none, values, len
      <3>2. \E f \in [0..len -> values] : Steps(f, none, step, len)
        BY <3>1, StepsLeadSomewhere
      <3>3. QED
        BY <3>2 DEF none, values, len, Steps
    <2>2. ASSUME NEW n \in 0..len, n # 0 PROVE step[n][f[n - 1]] = append(f[n - 1], n)
      <3>1. n \in 1..len /\ f[n - 1] \in Seq(S)
        BY <2>2, <1>1
      <3> HIDE DEF append
      <3>2. QED
        BY <3>1 DEF step
    <2> HIDE DEF append
    <2>3. QED
      BY <2>1, <2>2
  <1>6. upTo = [n \in 0..len |-> IF n = 0 THEN <<>> ELSE append(upTo[n - 1], n)]
    BY <1>5
  <1> DEFINE good == {n \in 0..len : upTo[n] \in Seq(S)}
  <1> HIDE DEF upTo
  <1>7. 0 \in good
    BY <1>1, <1>6
  <1>8. ASSUME NEW n \in 1..len, n - 1 \in good PROVE n \in good
    <2>1. n \in 0..len /\ n # 0
      OBVIOUS
    <2> HIDE DEF append
    <2>2. upTo[n - 1] \in Seq(S) /\ upTo[n] = append(upTo[n - 1], n)
      BY <1>6, <1>8, <2>1
    <2>3. append(upTo[n - 1], n) \in Seq(S)
      BY <1>3, <2>2
    <2>4. QED
      BY <2>1, <2>2, <2>3
  <1>9. \A n \in 0..len : n \in good
    <2> HIDE DEF good
    <2>1. QED
      BY <1>1, <1>7, <1>8, CountingUp
  <1>10. QED
    BY <1>1, <1>2, <1>9

\* Settings name a variable that may be selected, and list paths.
Settings == [variable : VariableNames, paths : Seq(Paths)]

SettingsInv ==
    /\ disk \in Settings \cup {Missing, Torn}
    /\ settingsCache \in Settings \cup {Missing}
    /\ edit \in [at : {"idle", "save", "write", "keep"}, settings : Settings \cup {Missing}]
    /\ edit.at # "idle" => edit.settings \in Settings
    /\ \A l \in Loaders : loader[l].at = "reading" => loader[l].read \in Settings
    /\ loader = [l \in Loaders |-> loader[l]]

LEMMA UniqueIsOfPaths ==
    ASSUME NEW paths \in Seq(Paths) PROVE Unique(paths) \in Seq(Paths)
  BY PathsAtArePaths DEF Unique

\* An edit of settings gives settings.
LEMMA EditedAreSettings ==
    ASSUME NEW settings \in Settings, NEW e \in Edits
    PROVE  Edited(settings, e) \in Settings
  <1>1. /\ e.op \in {"env", "add", "remove", "reorder"} /\ e.paths \in Seq(Paths)
        /\ settings.paths \in Seq(Paths) /\ settings.variable \in VariableNames
        /\ settings = [variable |-> settings.variable, paths |-> settings.paths]
    BY EditsAssumption DEF Settings
  <1>2. ASSUME NEW paths \in Seq(Paths) PROVE [settings EXCEPT !.paths = paths] \in Settings
    BY <1>1 DEF Settings
  <1>3. CASE e.op = "env"
    <2>1. e.variable \in VariableNames
      BY <1>3 DEF VariableNames
    <2>2. Edited(settings, e) = [settings EXCEPT !.variable = e.variable]
      BY <1>3 DEF Edited
    <2>3. QED
      BY <1>1, <2>1, <2>2 DEF Settings
  <1>4. CASE e.op = "add"
    <2>1. Edited(settings, e) = [settings EXCEPT !.paths = Unique(settings.paths \o e.paths)]
      BY <1>4 DEF Edited
    <2>2. settings.paths \o e.paths \in Seq(Paths)
      BY <1>1
    <2>3. Unique(settings.paths \o e.paths) \in Seq(Paths)
      BY <2>2, UniqueIsOfPaths
    <2>4. QED
      BY <1>2, <2>1, <2>3
  <1>5. CASE e.op = "remove"
    <2>1. Edited(settings, e) = [settings EXCEPT !.paths = Without(settings.paths, e.paths[1])]
      BY <1>5 DEF Edited
    <2>2. Without(settings.paths, e.paths[1]) \in Seq(Paths)
      BY <1>1, PathsAtArePaths DEF Without
    <2>3. QED
      BY <1>2, <2>1, <2>2
  <1>6. CASE e.op = "reorder"
    <2> DEFINE known == Known(e.paths, settings.paths)
    <2>1. Edited(settings, e) = [settings EXCEPT !.paths = Unique(known \o settings.paths)]
      BY <1>6 DEF Edited
    <2>2. known \in Seq(Paths)
      BY <1>1, PathsAtArePaths DEF Known
    <2> HIDE DEF known
    <2>3. known \o settings.paths \in Seq(Paths)
      BY <1>1, <2>2
    <2>4. Unique(known \o settings.paths) \in Seq(Paths)
      BY <2>3, UniqueIsOfPaths
    <2>5. QED
      BY <1>2, <2>1, <2>4
  <1>7. QED
    BY <1>1, <1>3, <1>4, <1>5, <1>6

LEMMA DefaultAreSettings == DefaultSettings \in Settings
  BY DEF DefaultSettings, Settings, VariableNames

LEMMA SettingsInit_Inv == SettingsInit => SettingsInv
  BY DefaultAreSettings DEF SettingsInit, SettingsInv, NoLoader, NoEdit

\* The file is parsed only if no write of it was cut off.
LEMMA SettingsNext_Inv ==
    ASSUME SettingsInv, [SettingsNext]_settingsVars PROVE SettingsInv'
  <1>1. disk # Torn => Parsed \in Settings
    BY DefaultAreSettings DEF SettingsInv, Parsed
  <1>2. CASE \E l \in Loaders : LoadSettings(l)
    BY <1>1, <1>2 DEF SettingsInv, LoadSettings
  <1>3. CASE \E l \in Loaders : KeepCopy(l)
    BY <1>3 DEF SettingsInv, KeepCopy
  <1>4. CASE BeginEdit
    <2> DEFINE base == IF settingsCache # Missing THEN settingsCache ELSE Parsed
    <2>1. base \in Settings
      BY <1>1, <1>4 DEF BeginEdit, SettingsInv
    <2>2. PICK e \in Edits : edit' = [at |-> "save", settings |-> Edited(base, e)]
      BY <1>4 DEF BeginEdit
    <2>3. settingsCache' = base /\ UNCHANGED <<disk, loader>>
      BY <1>4 DEF BeginEdit
    <2> HIDE DEF base
    <2>4. Edited(base, e) \in Settings
      BY <2>1, EditedAreSettings
    <2>5. QED
      BY <2>1, <2>2, <2>3, <2>4 DEF SettingsInv
  <1>5. CASE Truncate
    BY <1>5 DEF SettingsInv, Truncate
  <1>6. CASE WriteSettings
    BY <1>6 DEF SettingsInv, WriteSettings
  <1>7. CASE WriteFails
    BY <1>7 DEF SettingsInv, WriteFails, NoEdit
  <1>8. CASE KeepSaved
    BY <1>8 DEF SettingsInv, KeepSaved, NoEdit
  <1>9. CASE RestartSettings
    BY <1>9 DEF SettingsInv, RestartSettings, NoLoader, NoEdit
  <1>10. CASE UNCHANGED settingsVars
    BY <1>10 DEF SettingsInv, settingsVars
  <1>11. QED
    BY <1>2, <1>3, <1>4, <1>5, <1>6, <1>7, <1>8, <1>9, <1>10 DEF SettingsNext

\* What variables and files list are paths, and at least the default file stands in.
LEMMA ListsArePaths ==
    ASSUME NEW s \in Settings, NEW env \in Environments
    PROVE  /\ Listed(env, s.variable) \in Seq(Paths) /\ StandardPaths(env) \in Seq(Paths)
           /\ s.paths \in Seq(Paths)
  <1>1. s.variable \in VariableNames /\ "KUBECONFIG" \in VariableNames /\ s.paths \in Seq(Paths)
    BY DEF Settings, VariableNames
  <1>2. \A v \in VariableNames : Listed(env, v) \in Seq(Paths)
    BY VariablesAssumption DEF Listed
  <1>3. <<DefaultPath>> \in Seq(Paths)
    BY DefaultPathAssumption
  <1>4. QED
    BY <1>1, <1>2, <1>3 DEF StandardPaths

\* The files whose changes are watched for, as the key has them.
LEMMA EffectiveAreKeyed ==
    ASSUME NEW s \in Settings, NEW env \in Environments
    PROVE  EffectivePaths(s, env) =
             Listed(env, s.variable)
             \o ((IF Listed(env, s.variable) = <<>> THEN StandardPaths(env) ELSE <<>>) \o s.paths)
  <1> DEFINE listed == Listed(env, s.variable)
             standard == StandardPaths(env)
             own == s.paths
  <1>1. listed \in Seq(Paths) /\ standard \in Seq(Paths) /\ own \in Seq(Paths)
    BY ListsArePaths
  <1>2. standard # <<>>
    BY DEF StandardPaths
  <1> HIDE DEF listed, standard, own
  <1>3. \A paths \in Seq(Paths) : <<>> \o paths = paths /\ paths \o <<>> = paths
    OBVIOUS
  <1>4. \A one \in Seq(Paths), other \in Seq(Paths) : one # <<>> => one \o other # <<>>
    <2>1. TAKE one \in Seq(Paths), other \in Seq(Paths)
    <2>2. HAVE one # <<>>
    <2>3. Len(one \o other) = Len(one) + Len(other) /\ Len(one) \in Nat /\ Len(other) \in Nat
      OBVIOUS
    <2>4. Len(one) # 0
      BY <2>2
    <2>5. Len(one \o other) # 0
      BY <2>3, <2>4
    <2>6. QED
      BY <2>5
  <1>5. CASE listed # <<>>
    <2>1. ConfiguredPaths(s, env) = listed \o own
      BY <1>5 DEF ConfiguredPaths, listed, own
    <2>2. EffectivePaths(s, env) = listed \o own
      BY <1>1, <1>4, <1>5, <2>1 DEF EffectivePaths
    <2>3. QED
      BY <1>1, <1>3, <1>5, <2>2 DEF listed, own
  <1>6. CASE listed = <<>> /\ own # <<>>
    <2>1. ConfiguredPaths(s, env) = standard \o own
      BY <1>6 DEF ConfiguredPaths, listed, own, standard
    <2>2. EffectivePaths(s, env) = standard \o own
      BY <1>1, <1>2, <1>4, <2>1 DEF EffectivePaths
    <2>3. standard \o own \in Seq(Paths)
      BY <1>1
    <2>4. listed \o (standard \o own) = standard \o own
      BY <1>3, <1>6, <2>3
    <2>5. QED
      BY <1>6, <2>2, <2>4 DEF listed, own, standard
  <1>7. CASE listed = <<>> /\ own = <<>>
    <2>1. ConfiguredPaths(s, env) = <<>>
      BY <1>7 DEF ConfiguredPaths, listed, own
    <2>2. EffectivePaths(s, env) = standard
      BY <2>1 DEF EffectivePaths, standard
    <2>3. listed \o (standard \o own) = standard
      BY <1>1, <1>3, <1>7
    <2>4. QED
      BY <1>7, <2>2, <2>3 DEF listed, own, standard
  <1>8. QED
    BY <1>5, <1>6, <1>7

\* Settings with the same key have the same files.
LEMMA KeysNameFiles ==
    ASSUME NEW s \in Settings, NEW t \in Settings, NEW env \in Environments,
           NEW other \in Environments, SourceKey(s, env) = SourceKey(t, other)
    PROVE  EffectivePaths(s, env) = EffectivePaths(t, other)
  <1> DEFINE rest(u, e) ==
        (IF Listed(e, u.variable) = <<>> THEN StandardPaths(e) ELSE <<>>) \o u.paths
  <1>1. \A u, e : SourceKey(u, e) = <<u.variable, e[u.variable], rest(u, e)>>
    BY DEF SourceKey
  <1> HIDE DEF rest
  <1>2. /\ s.variable = t.variable /\ env[s.variable] = other[t.variable]
        /\ rest(s, env) = rest(t, other)
    BY <1>1
  <1>3. Listed(env, s.variable) = Listed(other, t.variable)
    BY <1>2 DEF Listed
  <1>4. /\ EffectivePaths(s, env) = Listed(env, s.variable) \o rest(s, env)
        /\ EffectivePaths(t, other) = Listed(other, t.variable) \o rest(t, other)
    BY EffectiveAreKeyed DEF rest
  <1>5. QED
    BY <1>2, <1>3, <1>4

\* A context comes from a file that is watched, the earliest that has it.
LEMMA ContextsAreWatched ==
    ASSUME NEW s \in Settings, NEW env \in Environments, NEW files \in Files, NEW name
    PROVE  LET from == Context(ReadPaths(s, env, files), files, name)
               effective == EffectivePaths(s, env)
           IN  /\ from # Unset /\ Readable(effective, files) # {} => Contains(effective, from)
               /\ from # Unset => \A i \in 1..Len(effective) :
                    files[effective[i]] # Unreadable /\ name \in files[effective[i]]
                    => \E j \in 1..i : effective[j] = from
  <1> DEFINE reads == ReadPaths(s, env, files)
             effective == EffectivePaths(s, env)
             from == Context(reads, files, name)
             having == {n \in Readable(effective, files) : name \in files[effective[n]]}
  <1>1. effective \in Seq(Paths)
    <2>1. /\ Listed(env, s.variable) \in Seq(Paths) /\ StandardPaths(env) \in Seq(Paths)
          /\ s.paths \in Seq(Paths)
      BY ListsArePaths
    <2>2. ConfiguredPaths(s, env) \in Seq(Paths)
      BY <2>1 DEF ConfiguredPaths
    <2>3. QED
      BY <2>1, <2>2 DEF EffectivePaths
  <1>2. reads = effective \/ Readable(effective, files) = {}
    BY DEF ReadPaths, EffectivePaths
  <1> HIDE DEF reads, effective, from
  <1>3. DOMAIN effective = 1..Len(effective) /\ Len(effective) \in Nat
    BY <1>1
  <1>4. \A i \in 1..Len(effective) :
            files[effective[i]] # Unreadable /\ name \in files[effective[i]] => i \in having
    BY <1>3 DEF Readable
  <1>5. having \subseteq 1..Len(effective) /\ having \subseteq Readable(effective, files)
    BY <1>3 DEF Readable
  <1>6. CASE Readable(effective, files) = {}
    <2>1. QED
      BY <1>4, <1>5, <1>6 DEF from, reads, effective
  <1>7. CASE reads = effective
    <2>1. from = IF having = {} THEN Unset
                 ELSE effective[CHOOSE n \in having : \A m \in having : n <= m]
      BY <1>7 DEF from, Context
    <2> HIDE DEF having
    <2>2. ASSUME from # Unset
          PROVE  \E n \in having : (\A m \in having : n <= m) /\ from = effective[n]
      <3>1. having # {} /\ having \subseteq Nat
        BY <1>3, <1>5, <2>1, <2>2
      <3>2. \E n \in having : \A m \in having : n <= m
        BY <3>1, OneIsLeast
      <3>3. QED
        BY <2>1, <3>1, <3>2
    <2>3. from # Unset => Contains(effective, from)
      BY <1>3, <1>5, <2>2 DEF Contains
    <2>4. ASSUME from # Unset, NEW i \in 1..Len(effective),
                 files[effective[i]] # Unreadable, name \in files[effective[i]]
          PROVE  \E j \in 1..i : effective[j] = from
      <3>1. PICK n \in having : (\A m \in having : n <= m) /\ from = effective[n]
        BY <2>2, <2>4
      <3>2. n <= i /\ n \in 1..Len(effective)
        BY <1>4, <1>5, <2>4, <3>1
      <3>3. n \in 1..i
        BY <1>3, <3>2
      <3>4. QED
        BY <3>1, <3>3
    <2>5. QED
      BY <2>3, <2>4 DEF from, reads, effective
  <1>8. QED
    BY <1>2, <1>6, <1>7

\* Whatever the settings become: those with the same key read the same files, and a
\* context comes from a file that is watched for, for any paths, variables and files
\* (KubeconfigSource::key and read_configured_kubeconfig).
THEOREM KeysAlwaysNameSources == SettingsSpec => []KeysNameSources
  <1>1. SettingsInv => KeysNameSources
    <2> SUFFICES ASSUME SettingsInv,
                        NEW s \in {settingsCache, edit.settings} \ {Missing},
                        NEW env \in Environments
                 PROVE  /\ \A t \in ({settingsCache, edit.settings} \ {Missing})
                                    \cup {DefaultSettings}, other \in Environments :
                             SourceKey(s, env) = SourceKey(t, other)
                             => EffectivePaths(s, env) = EffectivePaths(t, other)
                        /\ \A files \in Files, name \in {"a", "b"} :
                             LET from == Context(ReadPaths(s, env, files), files, name)
                                 effective == EffectivePaths(s, env)
                             IN  /\ from # Unset /\ Readable(effective, files) # {}
                                    => Contains(effective, from)
                                 /\ from # Unset => \A i \in 1..Len(effective) :
                                      files[effective[i]] # Unreadable
                                      /\ name \in files[effective[i]]
                                      => \E j \in 1..i : effective[j] = from
      BY DEF KeysNameSources
    <2>1. {settingsCache, edit.settings} \ {Missing} \subseteq Settings
      BY DEF SettingsInv
    <2>2. \A t \in ({settingsCache, edit.settings} \ {Missing}) \cup {DefaultSettings} :
              t \in Settings
      BY <2>1, DefaultAreSettings
    <2>3. s \in Settings
      BY <2>1
    <2>4. ASSUME NEW t \in ({settingsCache, edit.settings} \ {Missing}) \cup {DefaultSettings},
                 NEW other \in Environments, SourceKey(s, env) = SourceKey(t, other)
          PROVE  EffectivePaths(s, env) = EffectivePaths(t, other)
      BY <2>2, <2>3, <2>4, KeysNameFiles
    <2>5. QED
      BY <2>3, <2>4, ContextsAreWatched
  <1>2. QED
    BY <1>1, SettingsInit_Inv, SettingsNext_Inv, PTL DEF SettingsSpec


-----------------------------------------------------------------------------
(* What is used                                                            *)

\* What may be used, and what adding up may come to.
Quantities == (0..MaxUsage) \cup {NoUsage}
Totals == Quantities \cup {TooMuch}

\* Adding a quantity to a total gives a total.
LEMMA PlusIsTotal ==
    ASSUME NEW total \in Totals, NEW usage \in Quantities PROVE Plus(total, usage) \in Totals
  BY UsageAssumption DEF Plus, Totals, Quantities

\* A sum is what adding up comes to, quantity by quantity.
Adds(total, usages) ==
    /\ total \in [0..Len(usages) -> Totals]
    /\ total[0] = NoUsage
    /\ \A n \in 1..Len(usages) : total[n] = Plus(total[n - 1], usages[n])

\* A sum is what its running totals come to.
LEMMA SumAddsUp ==
    ASSUME NEW usages \in Seq(Quantities)
    PROVE  \E total : /\ Adds(total, usages)
                      /\ Sum(usages) = IF total[Len(usages)] = TooMuch THEN NoUsage
                                                                       ELSE total[Len(usages)]
  <1> DEFINE len == Len(usages)
             result == CHOOSE f : f = [n \in 0..len |->
                          IF n = 0 THEN NoUsage ELSE Plus(f[n - 1], usages[n])]
             step == [n \in 1..len |-> [total \in Totals |-> Plus(total, usages[n])]]
  <1>1. len \in Nat /\ \A n \in 1..len : usages[n] \in Quantities
    OBVIOUS
  <1>2. Sum(usages) = IF result[len] = TooMuch THEN NoUsage ELSE result[len]
    BY DEF Sum
  <1>3. step \in [1..len -> [Totals -> Totals]]
    BY <1>1, PlusIsTotal
  <1>4. NoUsage \in Totals
    BY DEF Totals, Quantities
  <1>5. \E f : f = [n \in 0..len |-> IF n = 0 THEN NoUsage ELSE Plus(f[n - 1], usages[n])]
    <2> HIDE DEF step
    <2>1. PICK f \in [0..len -> Totals] : Steps(f, NoUsage, step, len)
      <3> HIDE DEF len
      <3>1. QED
        BY <1>1, <1>3, <1>4, StepsLeadSomewhere
    <2>2. f[0] = NoUsage
      BY <2>1 DEF Steps
    <2>3. ASSUME NEW n \in 0..len, n # 0 PROVE f[n] = Plus(f[n - 1], usages[n])
      <3>1. n \in 1..len /\ f[n - 1] \in Totals
        BY <1>1, <2>3
      <3>2. f[n] = step[n][f[n - 1]]
        BY <2>1, <3>1 DEF Steps
      <3>3. QED
        BY <3>1, <3>2 DEF step
    <2> HIDE DEF len
    <2>4. f = [n \in 0..len |-> f[n]]
      OBVIOUS
    <2>5. QED
      BY <2>2, <2>3, <2>4
  <1>6. result = [n \in 0..len |-> IF n = 0 THEN NoUsage ELSE Plus(result[n - 1], usages[n])]
    BY <1>5
  <1> HIDE DEF result
  <1>7. \A n \in 0..len : result[n] \in Totals
    <2> DEFINE good == {n \in 0..len : result[n] \in Totals}
    <2>1. 0 \in good
      BY <1>1, <1>4, <1>6
    <2>2. ASSUME NEW n \in 1..len, n - 1 \in good PROVE n \in good
      <3>1. n \in 0..len /\ n # 0 /\ result[n - 1] \in Totals /\ usages[n] \in Quantities
        BY <1>1, <2>2
      <3>2. result[n] = Plus(result[n - 1], usages[n])
        BY <1>6, <3>1
      <3>3. QED
        BY <3>1, <3>2, PlusIsTotal
    <2>3. \A n \in 0..len : n \in good
      <3> HIDE DEF good
      <3>1. QED
        BY <1>1, <2>1, <2>2, CountingUp
    <2>4. QED
      BY <2>3
  <1>8. Adds(result, usages)
    <2>1. result \in [0..len -> Totals]
      BY <1>6, <1>7
    <2>2. result[0] = NoUsage /\ \A n \in 1..len : result[n] = Plus(result[n - 1], usages[n])
      <3>1. 0 \in 0..len /\ \A n \in 1..len : n \in 0..len /\ n # 0
        BY <1>1
      <3>2. QED
        BY <1>6, <3>1
    <2>3. QED
      BY <2>1, <2>2 DEF Adds
  <1>9. QED
    BY <1>2, <1>8

-----------------------------------------------------------------------------
(* What the reads bring                                                     *)

Clusters == [pods : SUBSET SampledPods, sets : SUBSET ReplicaSets]
Readings == [samples : SUBSET SamplesOf(SampledPods),
             pods : SUBSET SampledPods, sets : SUBSET ReplicaSets]

UsageTypes ==
    /\ usageStage \in {"discovery", "samples", "nodes", "pods", "sets", "done"}
    /\ openLists \subseteq Lists
    /\ cluster \in Clusters /\ IsFiniteSet(cluster.pods)
    /\ samples \in SUBSET SamplesOf(SampledPods)
    /\ usageRead \in Readings /\ IsFiniteSet(usageRead.pods)

\* What has lasted is still there, and what has been read was there at some time.
HistoryIsKept ==
    /\ lasting \in Readings /\ ever \in Clusters
    /\ lasting.pods \subseteq cluster.pods /\ lasting.sets \subseteq cluster.sets
    /\ lasting.samples \subseteq samples
    /\ cluster.sets \subseteq ever.sets /\ usageRead.sets \subseteq ever.sets

\* Where there is no metrics API nothing is read.
DiscoveryIsFirst ==
    /\ usageStage = "discovery" => usageRead.samples = {}
    /\ Missed({"discovery"}) # {} => usageStage = "done" /\ usageRead.samples = {}

\* The lists of a stage that have been answered, and whose failures excuse an answer.
Answered(stage) ==
    IF usageStage = stage THEN Lists \ openLists
    ELSE IF usageStage = "done" \/ <<stage, usageStage>> \in
              ({"samples"} \X {"nodes", "pods", "sets"}) \cup {<<"pods", "sets">>}
         THEN Lists ELSE {}
Excuses(stage) ==
    {"discovery", stage} \cup (IF stage = "sets" THEN {"pods"} ELSE {})

\* An answered list has brought what lasted of it, or there is a failure to blame.
LastingIsRead ==
    \A stage \in {"samples", "pods", "sets"} : \A list \in Answered(stage) :
        In(list, lasting[stage]) \subseteq usageRead[stage] \/ Missed(Excuses(stage)) # {}

UsageInv == UsageTypes /\ HistoryIsKept /\ DiscoveryIsFirst /\ LastingIsRead

\* Nothing has been read, and nothing has gone.
LEMMA UsageBegins == UsageInit => UsageInv
  <1> SUFFICES ASSUME UsageInit PROVE UsageInv
    OBVIOUS
  <1>1. cluster \in Clusters /\ IsFiniteSet(cluster.pods)
    BY PodsAssumption DEF UsageInit, Clusters
  <1>2. samples \in SUBSET SamplesOf(SampledPods)
    BY <1>1 DEF UsageInit, SamplesOf, Clusters
  <1>3. usageRead = [samples |-> {}, pods |-> {}, sets |-> {}] /\ usageStage = "discovery"
        /\ openLists = {} /\ failures = {}
    BY DEF UsageInit
  <1>4. UsageTypes
    BY <1>1, <1>2, <1>3, FS_EmptySet DEF UsageTypes, Readings
  <1>5. lasting = [pods |-> cluster.pods, sets |-> cluster.sets, samples |-> samples]
        /\ ever = cluster
    BY DEF UsageInit
  <1>6. HistoryIsKept
    BY <1>1, <1>2, <1>3, <1>5 DEF HistoryIsKept, Readings, Clusters
  <1>7. DiscoveryIsFirst /\ LastingIsRead
    BY <1>3 DEF DiscoveryIsFirst, LastingIsRead, Missed, Answered
  <1>8. QED
    BY <1>4, <1>6, <1>7 DEF UsageInv

\* An answer settles its own list only, but for those that nobody reads after a failure.
LEMMA SettlesItsList ==
    ASSUME UsageTypes, NEW list \in openLists, usageStage \in {"samples", "pods", "sets"},
           Settle(list), usageScope' = usageScope,
           NEW stage \in {"samples", "pods", "sets"}, NEW l \in Answered(stage)'
    PROVE  l \in Answered(stage) \/ (stage = usageStage /\ l = list) \/ Missed(Excuses(stage))' # {}
  <1>1. openLists \subseteq Lists /\ Lists' = Lists
    BY DEF UsageTypes, Lists
  <1>2. CASE openLists # {list}
    <2>1. usageStage' = usageStage /\ openLists' = openLists \ {list}
      BY <1>2 DEF Settle
    <2>2. QED
      BY <1>1, <2>1 DEF Answered
  <1>3. CASE openLists = {list} /\ usageStage = "samples"
    <2>1. usageStage' = "nodes"
      BY <1>3 DEF Settle, Enter, After
    <2>2. stage = "samples"
      BY <2>1 DEF Answered
    <2>3. QED
      BY <1>1, <1>3, <2>1, <2>2 DEF Answered
  <1>4. CASE openLists = {list} /\ usageStage = "pods" /\ Failure("pods", "failed") \notin failures'
    <2>1. usageStage' = "sets" /\ openLists' = Lists
      BY <1>4 DEF Settle, Enter, After
    <2>2. stage # "sets"
      BY <1>1, <2>1 DEF Answered
    <2>3. QED
      BY <1>1, <1>4, <2>1, <2>2 DEF Answered
  <1>5. CASE openLists = {list} /\ usageStage = "pods" /\ Failure("pods", "failed") \in failures'
    <2>1. usageStage' = "done"
      BY <1>5 DEF Settle, Enter, After
    <2>2. CASE stage = "samples"
      BY <1>1, <1>5, <2>1, <2>2 DEF Answered
    <2>3. CASE stage # "samples"
      <3>1. "pods" \in Excuses(stage)
        BY <2>3 DEF Excuses
      <3>2. Failure("pods", "failed") \in Missed(Excuses(stage))'
        BY <1>5, <3>1 DEF Missed, Failure, Excuses
      <3>3. QED
        BY <3>2
    <2>4. QED
      BY <2>2, <2>3
  <1>6. CASE openLists = {list} /\ usageStage = "sets"
    <2>1. usageStage' = "done"
      BY <1>6 DEF Settle, Enter, After
    <2>2. QED
      BY <1>1, <1>6, <2>1 DEF Answered
  <1>7. QED
    BY <1>2, <1>3, <1>4, <1>5, <1>6

\* An answer leads to a stage, with lists of its own.
LEMMA SettlesInTypes ==
    ASSUME UsageTypes, NEW list \in openLists, usageStage \in {"samples", "pods", "sets"},
           Settle(list), usageScope' = usageScope
    PROVE  /\ usageStage' \in {"samples", "nodes", "pods", "sets", "done"}
           /\ openLists' \subseteq Lists'
  <1>1. openLists \subseteq Lists /\ Lists' = Lists
    BY DEF UsageTypes, Lists
  <1>2. CASE openLists # {list}
    BY <1>1, <1>2 DEF Settle
  <1>3. CASE openLists = {list}
    <2>1. After(usageStage) \in {"nodes", "sets", "done"}
      BY DEF After
    <2>2. usageStage' = After(usageStage) /\ openLists' \in {{}, Lists}
      BY <1>3 DEF Settle, Enter
    <2>3. QED
      BY <1>1, <2>1, <2>2
  <1>4. QED
    BY <1>2, <1>3

\* A list that succeeds has brought what lasted of it.
LEMMA SuccessesKeepUsage ==
    ASSUME UsageInv, NEW list \in openLists, UsageListSucceeds(list) PROVE UsageInv'
  <1> DEFINE brought == In(list, Has(usageStage))
  <1>1. /\ usageStage \in {"samples", "pods", "sets"} /\ Settle(list)
        /\ usageRead' = [usageRead EXCEPT ![usageStage] = usageRead[usageStage] \cup brought]
        /\ UNCHANGED <<failures, usageScope, cluster, samples, lasting, ever>>
    BY DEF UsageListSucceeds, usageClusterVars
  <1>2. UsageTypes /\ HistoryIsKept /\ DiscoveryIsFirst /\ LastingIsRead
    BY DEF UsageInv
  <1>3. /\ usageStage' \in {"samples", "nodes", "pods", "sets", "done"}
        /\ openLists' \subseteq Lists'
    BY <1>1, <1>2, SettlesInTypes
  <1>4. usageRead \in Readings /\ IsFiniteSet(usageRead.pods) /\ IsFiniteSet(cluster.pods)
        /\ cluster \in Clusters /\ samples \subseteq SamplesOf(SampledPods)
    BY <1>2 DEF UsageTypes
  <1>5. /\ usageStage = "samples" => brought \subseteq samples
        /\ usageStage = "pods" => brought \subseteq cluster.pods
        /\ usageStage = "sets" => brought \subseteq cluster.sets
    BY <1>1 DEF Has, In
  <1>6. /\ usageRead'.samples = IF usageStage = "samples" THEN usageRead.samples \cup brought
                                                           ELSE usageRead.samples
        /\ usageRead'.pods = IF usageStage = "pods" THEN usageRead.pods \cup brought
                                                     ELSE usageRead.pods
        /\ usageRead'.sets = IF usageStage = "sets" THEN usageRead.sets \cup brought
                                                     ELSE usageRead.sets
        /\ usageRead' = [samples |-> usageRead'.samples, pods |-> usageRead'.pods,
                         sets |-> usageRead'.sets]
    <2> HIDE DEF brought
    <2>1. QED
      BY <1>1, <1>4 DEF Readings
  <1>7. UsageTypes'
    <2>1. usageRead' \in Readings
      <3>1. usageRead'.samples \subseteq SamplesOf(SampledPods)
            /\ usageRead'.pods \subseteq SampledPods /\ usageRead'.sets \subseteq ReplicaSets
        <4> HIDE DEF brought
        <4>1. QED
          BY <1>4, <1>5, <1>6 DEF Readings, Clusters
      <3>2. QED
        BY <1>6, <3>1 DEF Readings
    <2>2. IsFiniteSet(usageRead'.pods)
      <3>1. CASE usageStage = "pods"
        <4> HIDE DEF brought
        <4>1. IsFiniteSet(brought)
          BY <1>4, <1>5, <3>1, FS_Subset
        <4>2. QED
          BY <1>4, <1>6, <3>1, <4>1, FS_Union
      <3>2. CASE usageStage # "pods"
        BY <1>4, <1>6, <3>2
      <3>3. QED
        BY <3>1, <3>2
    <2>3. (UsageTypes' <=> /\ usageStage' \in {"discovery", "samples", "nodes", "pods", "sets", "done"}
                           /\ openLists' \subseteq Lists'
                           /\ cluster' \in Clusters /\ IsFiniteSet(cluster'.pods)
                           /\ samples' \in SUBSET SamplesOf(SampledPods)
                           /\ usageRead' \in Readings /\ IsFiniteSet(usageRead'.pods))
      BY DEF UsageTypes
    <2>4. QED
      BY <1>1, <1>3, <1>4, <2>1, <2>2, <2>3
  <1>8. HistoryIsKept'
    <2> HIDE DEF brought
    <2>1. usageRead'.sets \subseteq ever.sets
      BY <1>2, <1>5, <1>6 DEF HistoryIsKept
    <2>2. QED
      BY <1>1, <1>2, <2>1 DEF HistoryIsKept
  <1>9. DiscoveryIsFirst'
    <2>1. Missed({"discovery"}) = {} /\ Missed({"discovery"})' = Missed({"discovery"})
      BY <1>1, <1>2 DEF DiscoveryIsFirst, Missed
    <2>2. QED
      BY <1>3, <2>1 DEF DiscoveryIsFirst
  <1>10. LastingIsRead'
    <2> SUFFICES ASSUME NEW stage \in {"samples", "pods", "sets"}, NEW l \in Answered(stage)',
                        Missed(Excuses(stage))' = {}
                 PROVE  In(l, lasting[stage]) \subseteq usageRead'[stage]
      BY <1>1 DEF LastingIsRead, In
    <2>1. Missed(Excuses(stage)) = {}
      BY <1>1 DEF Missed, Excuses
    <2>2. usageRead[stage] \subseteq usageRead'[stage]
      <3> HIDE DEF brought
      <3>1. QED
        BY <1>6
    <2>3. CASE l \in Answered(stage)
      BY <1>2, <2>1, <2>2, <2>3 DEF LastingIsRead
    <2>4. CASE stage = usageStage /\ l = list
      <3>1. brought \subseteq usageRead'[stage]
        <4> HIDE DEF brought
        <4>1. QED
          BY <1>6, <2>4
      <3>2. lasting[stage] \subseteq Has(stage)
        BY <1>2 DEF HistoryIsKept, Has
      <3>3. QED
        BY <2>4, <3>1, <3>2 DEF In
    <2>5. QED
      BY <1>1, <1>2, <2>3, <2>4, SettlesItsList
  <1>11. QED
    BY <1>7, <1>8, <1>9, <1>10 DEF UsageInv

\* A list that fails can be blamed.
LEMMA FailuresKeepUsage ==
    ASSUME UsageInv, NEW list \in openLists, UsageListFails(list) PROVE UsageInv'
  <1>1. /\ usageStage \in {"samples", "pods", "sets"} /\ Settle(list)
        /\ UNCHANGED <<usageRead, usageScope, cluster, samples, lasting, ever>>
    BY DEF UsageListFails, usageClusterVars
  <1>2. PICK why : failures' = failures \cup {Failure(usageStage, why)}
    BY DEF UsageListFails
  <1>3. UsageTypes /\ HistoryIsKept /\ DiscoveryIsFirst /\ LastingIsRead
    BY DEF UsageInv
  <1>4. /\ usageStage' \in {"samples", "nodes", "pods", "sets", "done"}
        /\ openLists' \subseteq Lists'
    BY <1>1, <1>3, SettlesInTypes
  <1>5. UsageTypes'
    BY <1>1, <1>3, <1>4 DEF UsageTypes
  <1>6. HistoryIsKept'
    BY <1>1, <1>3 DEF HistoryIsKept
  <1>7. DiscoveryIsFirst'
    <2>1. Missed({"discovery"}) = {}
      BY <1>1, <1>3 DEF DiscoveryIsFirst
    <2>2. Missed({"discovery"})' = {}
      BY <1>1, <1>2, <2>1 DEF Missed, Failure
    <2>3. QED
      BY <1>4, <2>2 DEF DiscoveryIsFirst
  <1>8. LastingIsRead'
    <2> SUFFICES ASSUME NEW stage \in {"samples", "pods", "sets"}, NEW l \in Answered(stage)',
                        Missed(Excuses(stage))' = {}
                 PROVE  In(l, lasting[stage]) \subseteq usageRead[stage]
      BY <1>1 DEF LastingIsRead, In
    <2>1. Missed(Excuses(stage)) = {}
      BY <1>2 DEF Missed, Excuses
    <2>2. stage # usageStage
      <3> SUFFICES ASSUME stage = usageStage PROVE FALSE
        OBVIOUS
      <3>1. Failure(usageStage, why) \in Missed(Excuses(stage))'
        BY <1>2 DEF Missed, Excuses, Failure
      <3>2. QED
        BY <3>1
    <2>3. l \in Answered(stage)
      BY <1>1, <1>3, <2>2, SettlesItsList
    <2>4. QED
      BY <1>3, <2>1, <2>3 DEF LastingIsRead
  <1>9. QED
    BY <1>5, <1>6, <1>7, <1>8 DEF UsageInv

\* Without a metrics API nothing is read, and discovery can be blamed.
LEMMA DiscoveryKeepsUsage == ASSUME UsageInv, DiscoverMetrics PROVE UsageInv'
  <1>1. /\ usageStage = "discovery"
        /\ UNCHANGED <<usageRead, usageScope, cluster, samples, lasting, ever>>
    BY DEF DiscoverMetrics, usageClusterVars
  <1>2. UsageTypes /\ HistoryIsKept /\ DiscoveryIsFirst /\ LastingIsRead
    BY DEF UsageInv
  <1>3. HistoryIsKept'
    BY <1>1, <1>2 DEF HistoryIsKept
  <1>4. Missed({"discovery"}) = {} /\ usageRead'.samples = {}
    BY <1>1, <1>2 DEF DiscoveryIsFirst
  <1>5. CASE Enter("samples") /\ UNCHANGED failures
    <2>1. usageStage' = "samples" /\ openLists' = Lists /\ Lists' = Lists
      BY <1>1, <1>5 DEF Enter, Lists
    <2>2. UsageTypes'
      BY <1>1, <1>2, <2>1 DEF UsageTypes
    <2>3. DiscoveryIsFirst'
      BY <1>4, <1>5, <2>1 DEF DiscoveryIsFirst, Missed
    <2>4. LastingIsRead'
      BY <2>1 DEF LastingIsRead, Answered
    <2>5. QED
      BY <1>3, <2>2, <2>3, <2>4 DEF UsageInv
  <1>6. CASE Enter("done") /\ \E why \in {"absent", "Forbidden", "Unavailable"} :
                                 failures' = {Failure("discovery", why)}
    <2>1. usageStage' = "done" /\ openLists' = {}
      BY <1>6 DEF Enter
    <2>2. UsageTypes'
      BY <1>1, <1>2, <2>1 DEF UsageTypes
    <2>3. DiscoveryIsFirst'
      BY <1>4, <2>1 DEF DiscoveryIsFirst
    <2>4. PICK why : failures' = {Failure("discovery", why)}
      BY <1>6
    <2>5. \A stage : Failure("discovery", why) \in Missed(Excuses(stage))'
      BY <2>4 DEF Missed, Excuses, Failure
    <2>6. LastingIsRead'
      BY <2>5 DEF LastingIsRead
    <2>7. QED
      BY <1>3, <2>2, <2>3, <2>6 DEF UsageInv
  <1>7. QED
    BY <1>5, <1>6 DEF DiscoverMetrics

\* The samples of Nodes settle none of the other lists.
LEMMA NodesKeepUsage == ASSUME UsageInv, ListNodeMetrics PROVE UsageInv'
  <1>1. /\ usageStage = "nodes" /\ usageStage' = "pods" /\ openLists' = Lists /\ Lists' = Lists
        /\ UNCHANGED <<usageRead, usageScope, cluster, samples, lasting, ever>>
    BY DEF ListNodeMetrics, usageClusterVars, Enter, Lists
  <1>2. UsageTypes /\ HistoryIsKept /\ DiscoveryIsFirst /\ LastingIsRead
    BY DEF UsageInv
  <1>3. failures \subseteq failures' /\ \A f \in failures' \ failures : f.list = "nodes"
    BY DEF ListNodeMetrics, Failure
  <1>4. UsageTypes' /\ HistoryIsKept'
    BY <1>1, <1>2 DEF UsageTypes, HistoryIsKept
  <1>5. DiscoveryIsFirst'
    BY <1>1, <1>2, <1>3 DEF DiscoveryIsFirst, Missed
  <1>6. LastingIsRead'
    <2> SUFFICES ASSUME NEW stage \in {"samples", "pods", "sets"}, NEW l \in Answered(stage)',
                        Missed(Excuses(stage))' = {}
                 PROVE  In(l, lasting[stage]) \subseteq usageRead[stage]
      BY <1>1 DEF LastingIsRead, In
    <2>1. Missed(Excuses(stage)) = {}
      BY <1>3 DEF Missed, Excuses
    <2>2. l \in Answered(stage)
      BY <1>1 DEF Answered
    <2>3. QED
      BY <1>2, <2>1, <2>2 DEF LastingIsRead
  <1>7. QED
    BY <1>4, <1>5, <1>6 DEF UsageInv

\* What a change takes away has not lasted.
LEMMA ChangesKeepUsage == ASSUME UsageInv, UsageChange PROVE UsageInv'
  <1>1. /\ usageStage # "done"
        /\ UNCHANGED <<usageScope, usageStage, openLists, usageRead, failures>>
    BY DEF UsageChange, usageReadVars
  <1>2. UsageTypes /\ HistoryIsKept /\ DiscoveryIsFirst /\ LastingIsRead
    BY DEF UsageInv
  <1>3. cluster \in Clusters /\ IsFiniteSet(cluster.pods) /\ samples \subseteq SamplesOf(SampledPods)
    BY <1>2 DEF UsageTypes
  <1>4. /\ cluster' \in Clusters /\ IsFiniteSet(cluster'.pods)
        /\ samples' \subseteq SamplesOf(SampledPods)
    <2>1. CASE (\E p \in SampledPods : cluster' = [cluster EXCEPT !.pods = Toggled(cluster.pods, p)])
               /\ UNCHANGED samples
      <3>1. PICK p \in SampledPods : cluster' = [cluster EXCEPT !.pods = Toggled(cluster.pods, p)]
        BY <2>1
      <3>2. Toggled(cluster.pods, p) \subseteq SampledPods
        BY <1>3 DEF Toggled, Clusters
      <3>3. IsFiniteSet(Toggled(cluster.pods, p))
        <4>1. IsFiniteSet(cluster.pods \ {p}) /\ IsFiniteSet(cluster.pods \cup {p})
          BY <1>3, FS_Subset, FS_AddElement
        <4>2. QED
          BY <4>1 DEF Toggled
      <3>4. cluster'.pods = Toggled(cluster.pods, p) /\ cluster' \in Clusters
        <4> DEFINE pods == Toggled(cluster.pods, p)
        <4>1. pods \subseteq SampledPods /\ cluster' = [cluster EXCEPT !.pods = pods]
          BY <3>1, <3>2
        <4> HIDE DEF pods
        <4>2. cluster'.pods = pods /\ cluster' \in Clusters
          BY <1>3, <4>1 DEF Clusters
        <4>3. QED
          BY <4>2 DEF pods
      <3>5. QED
        BY <1>3, <2>1, <3>3, <3>4
    <2>2. CASE (\E s \in ReplicaSets : cluster' = [cluster EXCEPT !.sets = Toggled(cluster.sets, s)])
               /\ UNCHANGED samples
      <3>1. PICK s \in ReplicaSets : cluster' = [cluster EXCEPT !.sets = Toggled(cluster.sets, s)]
        BY <2>2
      <3>2. Toggled(cluster.sets, s) \subseteq ReplicaSets
        BY <1>3 DEF Toggled, Clusters
      <3>3. cluster'.pods = cluster.pods /\ cluster' \in Clusters
        <4> DEFINE sets == Toggled(cluster.sets, s)
        <4>1. sets \subseteq ReplicaSets /\ cluster' = [cluster EXCEPT !.sets = sets]
          BY <3>1, <3>2
        <4> HIDE DEF sets
        <4>2. QED
          BY <1>3, <4>1 DEF Clusters
      <3>4. QED
        BY <1>3, <2>2, <3>3
    <2>3. CASE samples' = SamplesOf(cluster.pods) /\ UNCHANGED cluster
      BY <1>3, <2>3 DEF SamplesOf, Clusters
    <2>4. QED
      BY <2>1, <2>2, <2>3 DEF UsageChange
  <1>5. /\ lasting' = [pods |-> lasting.pods \cap cluster'.pods,
                       sets |-> lasting.sets \cap cluster'.sets,
                       samples |-> lasting.samples \cap samples']
        /\ ever' = [pods |-> ever.pods \cup cluster'.pods, sets |-> ever.sets \cup cluster'.sets]
    BY DEF UsageChange
  <1>6. UsageTypes'
    BY <1>1, <1>2, <1>4 DEF UsageTypes, Lists
  <1>7. HistoryIsKept'
    <2>1. lasting \in Readings /\ ever \in Clusters /\ usageRead.sets \subseteq ever.sets
      BY <1>2 DEF HistoryIsKept
    <2>2. lasting' \in Readings /\ ever' \in Clusters
      BY <1>4, <1>5, <2>1 DEF Readings, Clusters
    <2>3. /\ lasting'.pods \subseteq cluster'.pods /\ lasting'.sets \subseteq cluster'.sets
          /\ lasting'.samples \subseteq samples' /\ cluster'.sets \subseteq ever'.sets
          /\ ever.sets \subseteq ever'.sets
      BY <1>5
    <2>4. QED
      BY <1>1, <2>1, <2>2, <2>3 DEF HistoryIsKept
  <1>8. DiscoveryIsFirst'
    BY <1>1, <1>2 DEF DiscoveryIsFirst, Missed
  <1>9. LastingIsRead'
    <2> SUFFICES ASSUME NEW stage \in {"samples", "pods", "sets"}, NEW l \in Answered(stage)',
                        Missed(Excuses(stage))' = {}
                 PROVE  In(l, lasting'[stage]) \subseteq usageRead[stage]
      BY <1>1 DEF LastingIsRead, In
    <2>1. Missed(Excuses(stage)) = {} /\ l \in Answered(stage)
      BY <1>1 DEF Missed, Excuses, Answered, Lists
    <2>2. lasting'[stage] \subseteq lasting[stage]
      BY <1>5
    <2>3. In(l, lasting[stage]) \subseteq usageRead[stage]
      BY <1>2, <2>1 DEF LastingIsRead
    <2>4. QED
      BY <2>2, <2>3 DEF In
  <1>10. QED
    BY <1>6, <1>7, <1>8, <1>9 DEF UsageInv

\* Every step keeps the invariant.
LEMMA UsageIsInductive == ASSUME UsageInv, [UsageNext]_usageVars PROVE UsageInv'
  <1>1. CASE UsageNext
    BY <1>1, DiscoveryKeepsUsage, NodesKeepUsage, ChangesKeepUsage, SuccessesKeepUsage,
       FailuresKeepUsage DEF UsageNext
  <1>2. CASE UNCHANGED usageVars
    BY <1>2 DEF UsageInv, UsageTypes, HistoryIsKept, DiscoveryIsFirst, LastingIsRead, Missed,
       Answered, In, Lists, usageVars, usageClusterVars, usageReadVars
  <1>3. QED
    BY <1>1, <1>2

-----------------------------------------------------------------------------
(* What the answer says                                                     *)

\* Who is charged for a Pod owns it, or owned a ReplicaSet that does.
LEMMA OthersAreNotCharged == ASSUME UsageInv PROVE NobodyElseIsCharged
  <1> SUFFICES ASSUME NEW key \in UsageKeys, NEW p \in SourcePods(key), WorkloadKey(p) # key
               PROVE  \E s \in ever.sets :
                        OwnedBy(p, s) /\ s.owner # Unowned /\ WorkloadKey(s) = key
    BY DEF NobodyElseIsCharged
  <1>1. key \in RollUp(WorkloadKey(p)) /\ p \in Brought("pods") /\ p.owner # Unowned
    BY DEF SourcePods, CountedFor, CountedPods
  <1>2. PICK s \in Brought("sets") :
           /\ s.owner # Unowned /\ WorkloadKey(s) = key
           /\ WorkloadKey(p) = [kind |-> "ReplicaSet", namespace |-> s.namespace, name |-> s.name]
    BY <1>1 DEF RollUp
  <1>3. p \in SampledPods /\ s \in ever.sets
    BY <1>1, <1>2 DEF UsageInv, UsageTypes, HistoryIsKept, Readings, Brought
  <1>4. p.owner = [kind |-> p.owner.kind, name |-> p.owner.name]
    BY <1>1, <1>3, PodsAssumption
  <1>5. p.owner.kind = "ReplicaSet" /\ p.namespace = s.namespace /\ p.owner.name = s.name
    BY <1>2 DEF WorkloadKey
  <1>6. OwnedBy(p, s)
    BY <1>4, <1>5 DEF OwnedBy
  <1>7. QED
    BY <1>2, <1>3, <1>6

\* In the end each list has been answered, so what lasted was read or excused.
LEMMA LastingReachesTheAnswer ==
    ASSUME UsageInv, usageStage = "done", NEW stage \in {"samples", "pods", "sets"},
           NEW thing \in lasting[stage], Selected(thing)
    PROVE  thing \in usageRead[stage] \/ Missed(Excuses(stage)) # {}
  <1>1. Answered(stage) = Lists
    BY DEF Answered
  <1>2. PICK list \in Lists : thing \in In(list, lasting[stage])
    BY DEF Lists, In, Selected
  <1>3. QED
    BY <1>1, <1>2 DEF UsageInv, LastingIsRead

\* So what lasted is shown and counted, or a list that failed is told of.
LEMMA LastingIsNotLost == ASSUME UsageInv, usageStage = "done" PROVE NothingIsLost
  <1> SUFFICES ASSUME NEW p \in lasting.pods, Lasts(p)
               PROVE  /\ UsageStatus # "NoSamples"
                      /\ SampleOf(p) \in usageRead.samples \/ Missed({"discovery", "samples"}) # {}
                      /\ SampleOf(p) \in usageRead.samples /\ p.owner # Unowned =>
                           /\ p \in SourcePods(WorkloadKey(p)) \/ Missed({"pods"}) # {}
                           /\ \A s \in lasting.sets : OwnedBy(p, s) /\ s.owner # Unowned =>
                                p \in SourcePods(WorkloadKey(s)) \/ Missed({"pods", "sets"}) # {}
    BY DEF NothingIsLost
  <1>1. Selected(p) /\ SampleOf(p) \in lasting.samples /\ Selected(SampleOf(p))
    BY DEF Lasts, Selected, SampleOf
  <1>2. SampleOf(p) \in usageRead.samples \/ Missed({"discovery", "samples"}) # {}
    <2>1. Excuses("samples") = {"discovery", "samples"}
      BY DEF Excuses
    <2>2. SampleOf(p) \in usageRead["samples"] \/ Missed(Excuses("samples")) # {}
      BY <1>1, LastingReachesTheAnswer
    <2>3. QED
      BY <2>1, <2>2
  <1>3. UsageStatus # "NoSamples"
    <2>1. Missed({"discovery", "samples"}) \subseteq Missed({"discovery", "samples", "nodes"})
      BY DEF Missed
    <2>2. QED
      BY <1>2, <2>1 DEF UsageStatus
  <1>4. ASSUME SampleOf(p) \in usageRead.samples, p.owner # Unowned
        PROVE  /\ p \in SourcePods(WorkloadKey(p)) \/ Missed({"pods"}) # {}
               /\ \A s \in lasting.sets : OwnedBy(p, s) /\ s.owner # Unowned =>
                    p \in SourcePods(WorkloadKey(s)) \/ Missed({"pods", "sets"}) # {}
    <2>1. Missed({"discovery"}) = {}
      BY <1>4 DEF UsageInv, DiscoveryIsFirst
    <2>2. p \in CountedPods \/ Missed({"pods"}) # {}
      <3>1. p \in usageRead["pods"] \/ Missed(Excuses("pods")) # {}
        BY <1>1, LastingReachesTheAnswer
      <3>2. Missed(Excuses("pods")) = Missed({"pods"})
        BY <2>1 DEF Missed, Excuses
      <3>3. SampleOf(p) \in SamplesFor(p)
        BY <1>4 DEF SamplesFor, SampleOf, SameName
      <3>4. QED
        BY <1>4, <3>1, <3>2, <3>3 DEF CountedPods, Brought
    <2>3. p \in CountedPods => p \in SourcePods(WorkloadKey(p))
      BY DEF SourcePods, CountedFor
    <2>4. ASSUME NEW s \in lasting.sets, OwnedBy(p, s), s.owner # Unowned,
                 Missed({"pods", "sets"}) = {}
          PROVE  p \in SourcePods(WorkloadKey(s))
      <3>1. Missed({"pods"}) = {} /\ Missed({"sets"}) = {} /\ Missed(Excuses("sets")) = {}
        BY <2>1, <2>4 DEF Missed, Excuses
      <3>2. s \in usageRead["sets"]
        <4>1. Selected(s)
          BY <1>1, <2>4 DEF Selected, OwnedBy
        <4>2. QED
          BY <3>1, <4>1, LastingReachesTheAnswer
      <3>3. s \in Brought("sets")
        BY <3>1, <3>2 DEF Brought
      <3>4. WorkloadKey(p) = [kind |-> "ReplicaSet", namespace |-> s.namespace, name |-> s.name]
        BY <2>4 DEF OwnedBy, WorkloadKey
      <3>5. WorkloadKey(s) \in RollUp(WorkloadKey(p))
        BY <2>4, <3>3, <3>4 DEF RollUp
      <3>6. QED
        BY <2>2, <3>1, <3>5 DEF SourcePods, CountedFor
    <2>5. QED
      BY <2>2, <2>3, <2>4
  <1>5. QED
    BY <1>2, <1>3, <1>4

-----------------------------------------------------------------------------
(* What is added up                                                         *)

\* SetToSeq lists each element once.
LEMMA SetIsListed ==
    ASSUME NEW S, IsFiniteSet(S)
    PROVE  /\ Cardinality(S) \in Nat
           /\ SetToSeq(S) \in [1..Cardinality(S) -> S]
           /\ IsInjective(SetToSeq(S))
           /\ \A s \in S : \E i \in 1..Cardinality(S) : SetToSeq(S)[i] = s
  <1> DEFINE len == Cardinality(S)
             list == SetToSeq(S)
  <1>1. len \in Nat /\ ExistsBijection(1..len, S)
    BY FS_CardinalityType
  <1>2. \E f \in [1..len -> S] : IsInjective(f)
    BY <1>1 DEF ExistsBijection, Bijection, Injection
  <1>3. list \in [1..len -> S] /\ IsInjective(list)
    BY <1>2 DEF SetToSeq
  <1>4. Cardinality(1..len) = len
    BY <1>1, FS_Interval
  <1>5. list \in Surjection(1..len, S)
    <2>1. list \in Injection(1..len, S)
      BY <1>3 DEF Injection
    <2>2. Cardinality(1..len) = Cardinality(S)
      BY <1>4
    <2> HIDE DEF len, list
    <2>3. Cardinality(1..len) = Cardinality(S) <=> list \in Surjection(1..len, S)
      BY <2>1, FS_Injection
    <2>4. QED
      BY <2>2, <2>3
  <1>6. QED
    BY <1>1, <1>3, <1>5 DEF Surjection

\* A sum is the number of units of what is known, if they can be represented: each
\* quantity is the size of a part, and each part has an owner of its own.
Told(usages, n) == {j \in 1..n : usages[j] # NoUsage}
Box(owner, parts, j) == {owner[j]} \X parts[j]
Boxes(owner, parts, usages, n) == UNION {Box(owner, parts, j) : j \in Told(usages, n)}
ArePartsOf(parts, usages, len) ==
    \A j \in 1..len : usages[j] # NoUsage =>
        IsFiniteSet(parts[j]) /\ Cardinality(parts[j]) = usages[j]
SumSoFar(owner, parts, usages, n) ==
    IF Told(usages, n) = {} THEN NoUsage
    ELSE IF Cardinality(Boxes(owner, parts, usages, n)) > MaxUsage THEN TooMuch
    ELSE Cardinality(Boxes(owner, parts, usages, n))

\* With each quantity the sum grows by the units of its part, unless it is too much already.
LEMMA NextBox ==
    ASSUME NEW len \in Nat, NEW usages \in [1..len -> Quantities], NEW owner,
           owner = [j \in 1..len |-> owner[j]], IsInjective(owner),
           NEW parts, ArePartsOf(parts, usages, len),
           NEW n \in 1..len, IsFiniteSet(Boxes(owner, parts, usages, n - 1))
    PROVE  /\ IsFiniteSet(Boxes(owner, parts, usages, n))
           /\ SumSoFar(owner, parts, usages, n) = Plus(SumSoFar(owner, parts, usages, n - 1), usages[n])
  <1> DEFINE before == Boxes(owner, parts, usages, n - 1)
             box == Box(owner, parts, n)
             u == usages[n]
  <1>1. n - 1 \in 0..len /\ 1..n = (1..(n - 1)) \cup {n} /\ n \notin 1..(n - 1) /\ u \in Quantities
    OBVIOUS
  <1>2. CASE u = NoUsage
    <2>1. Told(usages, n) = Told(usages, n - 1)
      BY <1>1, <1>2 DEF Told
    <2>2. Boxes(owner, parts, usages, n) = before
      BY <2>1 DEF Boxes
    <2>3. SumSoFar(owner, parts, usages, n) = SumSoFar(owner, parts, usages, n - 1)
      BY <2>1, <2>2 DEF SumSoFar
    <2>4. QED
      BY <1>2, <2>2, <2>3 DEF Plus
  <1>3. CASE u # NoUsage
    <2>1. u \in 0..MaxUsage /\ u \in Nat
      BY <1>1, <1>3, UsageAssumption DEF Quantities
    <2>2. Told(usages, n) = Told(usages, n - 1) \cup {n} /\ Told(usages, n) # {}
      BY <1>1, <1>3 DEF Told
    <2>3. Boxes(owner, parts, usages, n) = before \cup box
      BY <2>2 DEF Boxes
    <2>4. IsFiniteSet(box) /\ Cardinality(box) = u
      <3>1. IsFiniteSet({owner[n]}) /\ Cardinality({owner[n]}) = 1
        BY FS_Singleton
      <3>2. IsFiniteSet(parts[n]) /\ Cardinality(parts[n]) = u
        BY <1>3 DEF ArePartsOf
      <3>3. IsFiniteSet({owner[n]} \X parts[n]) /\ Cardinality({owner[n]} \X parts[n]) = 1 * u
        <4> HIDE DEF u
        <4>1. Cardinality({owner[n]} \X parts[n]) = Cardinality({owner[n]}) * Cardinality(parts[n])
              /\ IsFiniteSet({owner[n]} \X parts[n])
          BY <3>1, <3>2, FS_Product
        <4>2. QED
          BY <3>1, <3>2, <4>1
      <3>4. QED
        BY <2>1, <3>3 DEF Box
    <2>5. before \cap box = {}
      <3> SUFFICES ASSUME NEW x \in before, x \in box PROVE FALSE
        OBVIOUS
      <3>1. PICK j \in Told(usages, n - 1) : x \in Box(owner, parts, j)
        BY DEF Boxes
      <3>2. x[1] = owner[j] /\ x[1] = owner[n]
        BY <3>1 DEF Box
      <3>3. j \in 1..len /\ n \in 1..len /\ j # n
        BY <1>1, <3>1 DEF Told
      <3>4. QED
        BY <3>2, <3>3 DEF IsInjective
    <2>6. /\ IsFiniteSet(before \cup box) /\ Cardinality(before) \in Nat
          /\ Cardinality(before \cup box) = Cardinality(before) + u
      <3> HIDE DEF before, box, u
      <3>1. Cardinality(before \cup box) =
              Cardinality(before) + Cardinality(box) - Cardinality(before \cap box)
            /\ IsFiniteSet(before \cup box)
        BY <2>4, FS_Union DEF before
      <3>2. Cardinality(before \cap box) = 0
        BY <2>5, FS_EmptySet
      <3>3. Cardinality(before) \in Nat
        BY FS_CardinalityType DEF before
      <3>4. QED
        BY <2>1, <2>4, <3>1, <3>2, <3>3
    <2>7. Told(usages, n - 1) = {} => Cardinality(before) = 0
      <3>1. Told(usages, n - 1) = {} => before = {}
        BY DEF Boxes
      <3>2. QED
        BY <3>1, FS_EmptySet
    <2>8. SumSoFar(owner, parts, usages, n) = IF Cardinality(before) + u > MaxUsage THEN TooMuch
                                       ELSE Cardinality(before) + u
      BY <2>2, <2>3, <2>6 DEF SumSoFar
    <2>9. SumSoFar(owner, parts, usages, n - 1) =
            IF Told(usages, n - 1) = {} THEN NoUsage
            ELSE IF Cardinality(before) > MaxUsage THEN TooMuch ELSE Cardinality(before)
      BY DEF SumSoFar
    <2>10. SumSoFar(owner, parts, usages, n) = Plus(SumSoFar(owner, parts, usages, n - 1), u)
      <3> DEFINE count == Cardinality(before)
                 none == Told(usages, n - 1) = {}
      <3>1. count \in Nat /\ (none => count = 0)
        BY <2>6, <2>7
      <3>2. MaxUsage \in Nat /\ NoUsage \notin Nat /\ TooMuch \notin Nat /\ TooMuch # NoUsage
        BY UsageAssumption
      <3>3. SumSoFar(owner, parts, usages, n) = IF count + u > MaxUsage THEN TooMuch ELSE count + u
        BY <2>8
      <3>4. CASE none
        <4>1. SumSoFar(owner, parts, usages, n - 1) = NoUsage /\ count = 0
          BY <2>9, <3>1, <3>4
        <4> HIDE DEF count, none
        <4>2. SumSoFar(owner, parts, usages, n) = u
          BY <2>1, <3>2, <3>3, <4>1
        <4>3. Plus(NoUsage, u) = u
          BY <1>3, <3>2 DEF Plus
        <4>4. QED
          BY <4>1, <4>2, <4>3
      <3>5. CASE ~none /\ count > MaxUsage
        <4>1. SumSoFar(owner, parts, usages, n - 1) = TooMuch
          BY <2>9, <3>5
        <4> HIDE DEF count, none
        <4>2. SumSoFar(owner, parts, usages, n) = TooMuch
          BY <2>1, <3>1, <3>2, <3>3, <3>5
        <4>3. Plus(TooMuch, u) = TooMuch
          <5> DEFINE rest == IF TooMuch + u > MaxUsage THEN TooMuch ELSE TooMuch + u
          <5>1. Plus(TooMuch, u) = CASE u = NoUsage \/ TooMuch = TooMuch -> TooMuch
                                     [] TooMuch = NoUsage -> u
                                     [] OTHER -> rest
            BY DEF Plus
          <5> HIDE DEF rest, u
          <5>2. QED
            BY <1>3, <3>2, <5>1
        <4>4. QED
          BY <4>1, <4>2, <4>3
      <3>6. CASE ~none /\ ~(count > MaxUsage)
        <4>1. SumSoFar(owner, parts, usages, n - 1) = count
          BY <2>9, <3>6
        <4> HIDE DEF count, none
        <4>2. count # NoUsage /\ count # TooMuch
          BY <3>1, <3>2
        <4>3. Plus(count, u) = IF count + u > MaxUsage THEN TooMuch ELSE count + u
          BY <1>3, <4>2 DEF Plus
        <4>4. QED
          BY <3>3, <4>1, <4>3
      <3>7. QED
        BY <3>4, <3>5, <3>6
    <2>11. QED
      BY <2>3, <2>6, <2>10
  <1>4. QED
    BY <1>2, <1>3

\* So the sum of all is the number of their units.
LEMMA SumIsWhole ==
    ASSUME NEW len \in Nat, NEW usages \in [1..len -> Quantities], NEW owner,
           owner = [j \in 1..len |-> owner[j]], IsInjective(owner),
           NEW parts, ArePartsOf(parts, usages, len)
    PROVE  /\ IsFiniteSet(Boxes(owner, parts, usages, len))
           /\ Sum(usages) = IF \/ Told(usages, len) = {}
                               \/ Cardinality(Boxes(owner, parts, usages, len)) > MaxUsage
                            THEN NoUsage ELSE Cardinality(Boxes(owner, parts, usages, len))
  <1>1. usages \in Seq(Quantities) /\ Len(usages) = len
    OBVIOUS
  <1>2. PICK total : /\ Adds(total, usages)
                     /\ Sum(usages) = IF total[len] = TooMuch THEN NoUsage ELSE total[len]
    BY <1>1, SumAddsUp
  <1> DEFINE good == {n \in 0..len : /\ IsFiniteSet(Boxes(owner, parts, usages, n))
                                     /\ total[n] = SumSoFar(owner, parts, usages, n)}
  <1>3. 0 \in good
    <2>1. Told(usages, 0) = {}
      BY DEF Told
    <2>2. Boxes(owner, parts, usages, 0) = {}
      BY <2>1 DEF Boxes
    <2>3. total[0] = NoUsage
      BY <1>2 DEF Adds
    <2>4. SumSoFar(owner, parts, usages, 0) = NoUsage
      BY <2>1 DEF SumSoFar
    <2>5. IsFiniteSet(Boxes(owner, parts, usages, 0))
      BY <2>2, FS_EmptySet
    <2>6. QED
      BY <2>3, <2>4, <2>5
  <1>4. ASSUME NEW n \in 1..len, n - 1 \in good PROVE n \in good
    <2>1. IsFiniteSet(Boxes(owner, parts, usages, n - 1)) /\ total[n - 1] = SumSoFar(owner, parts, usages, n - 1)
      BY <1>4
    <2>2. total[n] = Plus(total[n - 1], usages[n])
      BY <1>1, <1>2 DEF Adds
    <2>3. /\ IsFiniteSet(Boxes(owner, parts, usages, n))
          /\ SumSoFar(owner, parts, usages, n) = Plus(SumSoFar(owner, parts, usages, n - 1), usages[n])
      BY <2>1, NextBox
    <2>4. QED
      BY <2>1, <2>2, <2>3
  <1>5. \A n \in 0..len : n \in good
    <2> HIDE DEF good
    <2>1. QED
      BY <1>3, <1>4, CountingUp
  <1>6. IsFiniteSet(Boxes(owner, parts, usages, len)) /\ total[len] = SumSoFar(owner, parts, usages, len)
    BY <1>5
  <1>7. Cardinality(Boxes(owner, parts, usages, len)) \in Nat
    BY <1>6, FS_CardinalityType
  <1>8. QED
    BY <1>2, <1>6, <1>7, UsageAssumption DEF SumSoFar

\* The quantities of a counted Pod are those of a sample.
LEMMA TakenAreQuantities ==
    ASSUME UsageInv, NEW p \in CountedPods PROVE TakenFor(p) \in Seq(Quantities)
  <1> DEFINE s == CHOOSE t \in SamplesFor(p) : TRUE
  <1>1. s \in SamplesFor(p) /\ SamplesFor(p) \subseteq usageRead.samples
    BY DEF CountedPods, SamplesFor
  <1>2. usageRead.samples \subseteq SamplesOf(SampledPods)
    BY DEF UsageInv, UsageTypes, Readings
  <1>3. PICK q \in SampledPods : s = SampleOf(q)
    BY <1>1, <1>2 DEF SamplesOf
  <1>4. TakenFor(p) = s.usage
    BY DEF TakenFor
  <1>5. q.usage \in Seq(Quantities)
    BY PodsAssumption DEF Quantities
  <1> HIDE DEF s
  <1>6. s.usage = q.usage
    BY <1>3 DEF SampleOf
  <1>7. QED
    BY <1>4, <1>5, <1>6

\* What a counted Pod uses are the units of its containers, of which there are finitely
\* many.
LEMMA PodsUseWholeSums ==
    ASSUME UsageInv, NEW p \in CountedPods
    PROVE  LET units == ContainerUnits(TakenFor(p))
           IN  /\ IsFiniteSet(units) /\ UsageOf(p) \in Quantities
               /\ UsageOf(p) = IF Fits(TakenFor(p)) THEN Cardinality(units) ELSE NoUsage
  <1> DEFINE usages == TakenFor(p)
             len == Len(usages)
             owner == [j \in 1..len |-> j]
             parts == [j \in 1..len |-> 1..usages[j]]
             units == ContainerUnits(usages)
  <1>1. usages \in Seq(Quantities)
    BY TakenAreQuantities
  <1>2. UsageOf(p) = Sum(usages)
    BY DEF UsageOf
  <1> HIDE DEF usages
  <1>3. len \in Nat /\ usages \in [1..len -> Quantities]
    BY <1>1
  <1> HIDE DEF len
  <1>4. IsInjective(owner) /\ owner = [j \in 1..len |-> owner[j]]
    BY DEF IsInjective
  <1>5. ArePartsOf(parts, usages, len)
    <2> SUFFICES ASSUME NEW j \in 1..len, usages[j] # NoUsage
                 PROVE  IsFiniteSet(1..usages[j]) /\ Cardinality(1..usages[j]) = usages[j]
      BY DEF ArePartsOf
    <2> DEFINE u == usages[j]
    <2>1. u \in Nat
      BY <1>3, UsageAssumption DEF Quantities
    <2> HIDE DEF u
    <2>2. IsFiniteSet(1..u) /\ Cardinality(1..u) = IF 1 > u THEN 0 ELSE u - 1 + 1
      <3>1. 1 \in Int /\ u \in Int
        BY <2>1
      <3>2. QED
        BY <3>1, FS_Interval
    <2>3. IsFiniteSet(1..u) /\ Cardinality(1..u) = u
      BY <2>1, <2>2
    <2>4. QED
      BY <2>3 DEF u
  <1>6. Boxes(owner, parts, usages, len) = units
    <2>1. \A j \in Told(usages, len) : Box(owner, parts, j) = {j} \X (1..usages[j])
      BY DEF Told, Box
    <2>2. units = UNION {{j} \X (1..usages[j]) : j \in Told(usages, len)}
      BY DEF ContainerUnits, Told, len
    <2> HIDE DEF owner, parts, units
    <2>3. \A x : x \in Boxes(owner, parts, usages, len) <=> x \in units
      BY <2>1, <2>2 DEF Boxes
    <2>4. QED
      BY <2>3
  <1>7. Fits(usages) <=> Told(usages, len) # {} /\ Cardinality(units) <= MaxUsage
    BY DEF Fits, Told, len
  <1> HIDE DEF owner, parts, units
  <1>8. /\ IsFiniteSet(units)
        /\ Sum(usages) = IF Told(usages, len) = {} \/ Cardinality(units) > MaxUsage
                         THEN NoUsage ELSE Cardinality(units)
    BY <1>3, <1>4, <1>5, <1>6, SumIsWhole
  <1>9. Cardinality(units) \in Nat
    BY <1>8, FS_CardinalityType
  <1>10. Sum(usages) = IF Fits(usages) THEN Cardinality(units) ELSE NoUsage
    BY <1>7, <1>8, <1>9, UsageAssumption
  <1>11. Sum(usages) \in Quantities
    BY <1>7, <1>9, <1>10, UsageAssumption DEF Quantities
  <1>12. QED
    BY <1>2, <1>8, <1>10, <1>11 DEF units, usages

\* What a workload uses are the units of its Pods.
LEMMA WorkloadsUseWholeSums == ASSUME UsageInv PROVE SumsAreWhole
  <1> SUFFICES ASSUME NEW key \in UsageKeys
               PROVE  LET fitting == {p \in SourcePods(key) : Fits(TakenFor(p))}
                          units == Cardinality(UNION {{p} \X ContainerUnits(TakenFor(p)) :
                                                        p \in fitting})
                      IN  WorkloadUsage(key) =
                            IF fitting = {} \/ units > MaxUsage THEN NoUsage ELSE units
    BY PodsUseWholeSums DEF SumsAreWhole
  <1> DEFINE pods == SourcePods(key)
             len == Cardinality(pods)
             order == SetToSeq(pods)
             usages == [i \in 1..Len(order) |-> UsageOf(order[i])]
             parts == [i \in 1..Len(order) |-> ContainerUnits(TakenFor(order[i]))]
             fitting == {p \in pods : Fits(TakenFor(p))}
  <1>1. \A p \in pods :
          /\ UsageOf(p) \in Quantities /\ IsFiniteSet(ContainerUnits(TakenFor(p)))
          /\ UsageOf(p) # NoUsage <=> Fits(TakenFor(p))
          /\ Fits(TakenFor(p)) => Cardinality(ContainerUnits(TakenFor(p))) = UsageOf(p)
    <2> SUFFICES ASSUME NEW p \in pods
                 PROVE  /\ UsageOf(p) \in Quantities /\ IsFiniteSet(ContainerUnits(TakenFor(p)))
                        /\ UsageOf(p) # NoUsage <=> Fits(TakenFor(p))
                        /\ Fits(TakenFor(p)) =>
                             Cardinality(ContainerUnits(TakenFor(p))) = UsageOf(p)
      OBVIOUS
    <2>1. p \in CountedPods
      BY DEF SourcePods
    <2>2. /\ IsFiniteSet(ContainerUnits(TakenFor(p))) /\ UsageOf(p) \in Quantities
          /\ UsageOf(p) = IF Fits(TakenFor(p)) THEN Cardinality(ContainerUnits(TakenFor(p)))
                          ELSE NoUsage
      BY <2>1, PodsUseWholeSums
    <2>3. Cardinality(ContainerUnits(TakenFor(p))) \in Nat
      BY <2>2, FS_CardinalityType
    <2>4. QED
      BY <2>2, <2>3, UsageAssumption
  <1>2. IsFiniteSet(pods)
    <2>1. pods \subseteq usageRead.pods \/ pods = {}
      BY DEF SourcePods, CountedPods, Brought
    <2>2. IsFiniteSet(usageRead.pods)
      BY DEF UsageInv, UsageTypes
    <2> HIDE DEF pods
    <2>3. QED
      BY <2>1, <2>2, FS_Subset, FS_EmptySet
  <1>3. /\ len \in Nat /\ order \in [1..len -> pods] /\ IsInjective(order)
        /\ \A p \in pods : \E i \in 1..len : order[i] = p
    <2> HIDE DEF pods
    <2>1. QED
      BY <1>2, SetIsListed
  <1>4. WorkloadUsage(key) = Sum(usages)
    BY DEF WorkloadUsage
  <1> HIDE DEF pods, len, order
  <1>5. Len(order) = len
    BY <1>3
  <1>6. /\ usages \in [1..len -> Quantities] /\ \A i \in 1..len : usages[i] = UsageOf(order[i])
        /\ \A i \in 1..len : parts[i] = ContainerUnits(TakenFor(order[i]))
    BY <1>1, <1>3, <1>5
  <1> HIDE DEF usages, parts
  <1>7. order = [j \in 1..len |-> order[j]]
    BY <1>3
  <1>8. ArePartsOf(parts, usages, len)
    <2> SUFFICES ASSUME NEW j \in 1..len, usages[j] # NoUsage
                 PROVE  IsFiniteSet(parts[j]) /\ Cardinality(parts[j]) = usages[j]
      BY DEF ArePartsOf
    <2>1. order[j] \in pods
      BY <1>3
    <2>2. QED
      BY <1>1, <1>6, <2>1
  <1>9. Sum(usages) = IF \/ Told(usages, len) = {}
                         \/ Cardinality(Boxes(order, parts, usages, len)) > MaxUsage
                      THEN NoUsage ELSE Cardinality(Boxes(order, parts, usages, len))
    BY <1>3, <1>6, <1>7, <1>8, SumIsWhole
  <1>10. /\ \A p \in fitting : \E i \in Told(usages, len) : order[i] = p
         /\ \A i \in Told(usages, len) : order[i] \in fitting
    BY <1>1, <1>3, <1>6 DEF Told
  <1>11. Told(usages, len) = {} <=> fitting = {}
    BY <1>10
  <1>12. Boxes(order, parts, usages, len) = UNION {{p} \X ContainerUnits(TakenFor(p)) : p \in fitting}
    <2> DEFINE OfPod(p) == {p} \X ContainerUnits(TakenFor(p))
    <2>1. \A i \in Told(usages, len) : Box(order, parts, i) = OfPod(order[i])
      BY <1>6 DEF Told, Box
    <2> HIDE DEF fitting, OfPod
    <2>2. \A x : x \in Boxes(order, parts, usages, len) <=> \E p \in fitting : x \in OfPod(p)
      BY <1>10, <2>1 DEF Boxes
    <2>3. Boxes(order, parts, usages, len) = UNION {OfPod(p) : p \in fitting}
      BY <2>2
    <2>4. QED
      BY <2>3 DEF OfPod
  <1>13. QED
    BY <1>4, <1>9, <1>11, <1>12 DEF pods

\* When the answer is given, what lasted is counted or a failure is told of, nobody pays for
\* the Pods of others, a Pod's use is the sum of all its containers or not told, and a
\* workload's is the sum of all its Pods whose use is told, or not told, however the
\* cluster changes between the lists (list_resource_metrics).
THEOREM UsageAlwaysHonest == UsageSpec => []UsageIsHonest
  <1>1. UsageInit => UsageInv
    BY UsageBegins
  <1>2. UsageInv /\ [UsageNext]_usageVars => UsageInv'
    BY UsageIsInductive
  <1>3. UsageInv => UsageIsHonest
    BY OthersAreNotCharged, LastingIsNotLost, WorkloadsUseWholeSums DEF UsageIsHonest
  <1>4. QED
    BY <1>1, <1>2, <1>3, PTL DEF UsageSpec
=============================================================================
