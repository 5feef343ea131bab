----------------------------- MODULE MCConsole -----------------------------
(***************************************************************************)
(* One instance for what is behind the web application: its session, the   *)
(* queries it keeps, the editor with its drafts and forms, and the test    *)
(* runs it starts.  Each behaviour is one of a single component, named by  *)
(* `part`, while the variables of the others keep an initial value.  The   *)
(* state space is the disjoint union of those of the components.           *)
(***************************************************************************)
EXTENDS RefreshSessions, TestRuns, QueryCache, WorkflowDraft, EditorSession, StepForms

VARIABLE part

Parts == {"session", "test run", "query", "draft", "editor", "form"}

-----------------------------------------------------------------------------
(* Constants                                                               *)

\* An execution that is at work when it is first shown, and ends.
MCQcStages == <<"RUNNING", "COMPLETED">>

WdStored(order, types, edges) ==
  [order |-> order, types |-> types, texts |-> [k \in DOMAIN types |-> 0],
   graph |-> [entry |-> IF order = <<>> THEN NoKey ELSE order[1], type |-> types, edges |-> edges,
              config |-> {e \in edges : types[e.from] \in BranchTypes}]]
MCWdVersions ==
  { WdStored(<<>>, << >>, {}),
    WdStored(<<"if_1", "task_1", "task_2">>, [k \in {"if_1", "task_1", "task_2"} |-> IF k = "if_1" THEN "if" ELSE "task"],
             {Edge("if_1", "if_true", "task_1"), Edge("if_1", "if_false", "task_2")}),
    WdStored(<<"task_1", "task_2">>, [k \in {"task_1", "task_2"} |-> "task"], {}) }

MCSfTypes == SfAi \cup SfDataStore \cup SfVariable \cup {"http_request","email_notification","database_record","transform","conditional","if","switch","for_each","try_catch","execute_workflow","return_workflow_output","delay","wait_until","approval"}

-----------------------------------------------------------------------------
(* The union                                                               *)

\* What is fixed of the initial state of a component that does not run.
Fixed(name, assignment) == IF part = name THEN TRUE ELSE assignment

MCInit ==
  /\ part \in Parts
  /\ Fixed("test run", trRun = [type |-> CHOOSE t \in TrTypes : TRUE, mode |-> "mock", mock |-> "none", role |-> "EDITOR"])
  /\ Fixed("query", qcWatch = CHOOSE w \in QcWatches : TRUE)
  /\ Fixed("draft", wdIds = 0)
  /\ Fixed("form", sfType = "delay" /\ sfForm = SfDefault(sfType))
  /\ RsInit /\ TrInit /\ QcInit /\ WdInit /\ EsInit /\ SfInit

\* The components that do not run stay as they are.
Kept(name, vars) == IF part = name THEN TRUE ELSE UNCHANGED vars
Others ==
  /\ UNCHANGED part
  /\ Kept("session", rsVars) /\ Kept("test run", trVars) /\ Kept("query", qcVars)
  /\ Kept("draft", wdVars) /\ Kept("editor", esVars) /\ Kept("form", sfVars)

MCNext ==
  \/ part = "session" /\ RsNext /\ Others
  \/ part = "test run" /\ TrNext /\ Others
  \/ part = "query" /\ QcNext /\ Others
  \/ part = "draft" /\ WdNext /\ Others
  \/ part = "editor" /\ EsNext /\ Others
  \/ part = "form" /\ SfNext /\ Others

\* A component is fair in its own behaviours only.
MCFairness ==
  /\ \A t \in RsTabs : WF_rsVars(part = "session" /\ RsMount(t)) /\ \A k \in {"mount", "flight", "login", "logout"} : WF_rsVars(part = "session" /\ RsStep(<<t, k>>))
  /\ \A w \in TrWorkers : WF_trVars(part = "test run" /\ TrWorker(w))
  /\ WF_trVars(part = "test run" /\ TrDue) /\ WF_trVars(part = "test run" /\ TrRecoverDue) /\ WF_trVars(part = "test run" /\ TrRecoverQueued)
  /\ WF_qcVars(part = "query" /\ QcPoll) /\ WF_qcVars(part = "query" /\ QcServed)

MCVars == <<part, rsVars, trVars, qcVars, wdVars, esVars, sfVars>>

MCSpec == MCInit /\ [][MCNext]_MCVars /\ MCFairness

-----------------------------------------------------------------------------
\* A page does not stay on its loading screen: whatever becomes of the refresh,
\* the provider settles on a status (RefreshSessions; auth-provider.tsx:109-118).
RsPageLoads == \A t \in RsTabs : []<>(part = "session" => rsTab[t].status /= "loading")

-----------------------------------------------------------------------------
(* What this instance checks of the components together.                   *)

\* The editor: edges of a draft have their steps in the cards and on the canvas
\* and a saved draft is valid (WorkflowDraft); nothing edited is lost, clean
\* means saved, and a restored snapshot fits (EditorSession); a saved form is
\* accepted, reopens as it was, shows its faults and hides nothing that counts
\* (StepForms).
EditorInv ==
  /\ WdTypeOK /\ WdEdgesHaveSteps /\ WdFormKeepsEdges /\ WdSavedIsValid
  /\ EsTypeOK /\ EsNothingLost /\ EsCleanMeansSaved /\ EsRestoredFits
  /\ SfTypeOK /\ SfSavedIsAccepted /\ SfReopenIsValid /\ SfReopenKeeps
  /\ SfFaultsAreShown /\ SfHiddenIsSilent

\* A test run that is over stays over; an edit of the canvas or of a card keeps
\* the other steps, and an undo can be redone.
ConsoleKeeps == [][TrOverStays /\ WdOthersKept /\ WdUndoLosesNothing]_MCVars

\* Pages leave their loading screen, test runs end, and a query that polls
\* catches up with the server.
ConsoleEnds == RsPageLoads /\ TrRunsEnd /\ QcFollows
=============================================================================
