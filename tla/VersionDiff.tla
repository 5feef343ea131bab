---------------------------- MODULE VersionDiff -----------------------------
(***************************************************************************)
(* The comparison of two versions of a workflow (workflowVersionDiff) that *)
(* users read before they restore or publish one.  A definition is         *)
(* [trigger, steps, graph, variables, environment] (the entry stands for   *)
(* the graph's contract, "none" for a definition without a graph); a step is*)
(* [key, type, name, selector, config, reads]: selector stands for the     *)
(* fields that name a sub-workflow, connection or data store, config for   *)
(* the others, reads for the steps its expressions refer to.  Variables    *)
(* map names to values.  One pair of definitions is compared per behaviour.*)
(***************************************************************************)
EXTENDS Naturals, Sequences, SequencesExt

CONSTANT VdDefinitions \* the definitions that are compared with each other

VARIABLES vdFrom, vdTo, vdReport
vdVars == <<vdFrom, vdTo, vdReport>>

VdNoReport == [groups |-> {}, findings |-> {}, max |-> "none"]
VdInit == vdFrom \in VdDefinitions /\ vdTo \in VdDefinitions /\ vdReport = VdNoReport

VdKeys(d) == {s.key : s \in Range(d.steps)}
VdStep(d, key) == CHOOSE s \in Range(d.steps) : s.key = key
VdRemoved(from, to) == VdKeys(from) \ VdKeys(to)
VdAdded(from, to) == VdKeys(to) \ VdKeys(from)

\* diffFields of one step: the fields that differ.
VdFields == {"type", "name", "selector", "config", "reads"}
VdChanges(from, to, key) == {f \in VdFields : VdStep(from, key)[f] /= VdStep(to, key)[f]}
VdModified(from, to) == {key \in VdKeys(from) \intersect VdKeys(to) : VdChanges(from, to, key) /= {}}

\* legacyEdges: a definition without a graph runs its steps in order.
VdLegacyEdges(steps) == {[from |-> steps[i].key, to |-> steps[i + 1].key, kind |-> "next"] : i \in 1 .. Len(steps) - 1}
VdEdges(d) == IF d.graph.entry = "none" THEN VdLegacyEdges(d.steps) ELSE d.graph.edges

\* The changed names of a map of variables with the kind of change.
VdMapChanges(before, after) ==
  {[name |-> n, kind |-> IF n \notin DOMAIN before THEN "ADDED" ELSE IF n \notin DOMAIN after THEN "REMOVED" ELSE "MODIFIED"] :
     n \in {n \in DOMAIN before \union DOMAIN after : ~(n \in DOMAIN before /\ n \in DOMAIN after /\ before[n] = after[n])}}

VdSideEffects == {"http_request", "email_notification", "database_record", "data_store_upsert_record", "data_store_delete_record", "execute_workflow", "approval"}
VdControl == {"for_each", "try_catch", "if", "switch", "approval"}
VdFinding(severity, code) == {[severity |-> severity, code |-> code]}

\* What the removal of a step means: breaking when a step that is left reads it
\* or when it returned the output of the workflow.
VdRemoval(from, to, key) ==
  LET dependants == \E s \in Range(to.steps) : key \in s.reads IN
  VdFinding(IF dependants \/ VdStep(from, key).type = "return_workflow_output" THEN "BREAKING" ELSE "WARNING",
            IF dependants THEN "REFERENCED_STEP_REMOVED" ELSE "STEP_REMOVED")

\* What a change of a step means: the first of the cases that applies.
VdModification(from, to, key) ==
  LET changes == VdChanges(from, to, key)  type == VdStep(to, key).type IN
  CASE "type" \in changes -> VdFinding("BREAKING", "STEP_TYPE_CHANGED")
    [] type = "execute_workflow" /\ "selector" \in changes -> VdFinding("BREAKING", "SUBWORKFLOW_SELECTOR_CHANGED")
    [] type \in {"for_each", "try_catch"} /\ changes \intersect {"selector", "config", "reads"} /= {} -> VdFinding("BREAKING", "CONTROL_STRUCTURE_CHANGED")
    [] type \in VdControl /\ changes /= {"name"} -> VdFinding("WARNING", "CONTROL_CONFIG_CHANGED")
    [] type \in VdSideEffects -> VdFinding("WARNING", "SIDE_EFFECT_CONFIG_CHANGED")
    [] "selector" \in changes -> VdFinding("WARNING", "RESOURCE_SELECTOR_CHANGED")
    [] OTHER -> {}

\* findingsFor
VdFindings(from, to) ==
  LET removed == VdRemoved(from, to)  modified == VdModified(from, to)  vars == VdMapChanges(from.variables, to.variables)
      found == UNION {VdRemoval(from, to, key) : key \in removed} \union UNION {VdModification(from, to, key) : key \in modified}
        \union (IF from.trigger /= to.trigger THEN VdFinding("BREAKING", "TRIGGER_CHANGED") ELSE {})
        \union (IF VdEdges(from) \subseteq VdEdges(to) THEN {} ELSE VdFinding("BREAKING", "EDGE_REMOVED"))
        \union (IF VdEdges(to) \subseteq VdEdges(from) THEN {} ELSE VdFinding("WARNING", "EDGE_ADDED"))
        \union (IF from.graph.entry /= to.graph.entry THEN VdFinding("BREAKING", "GRAPH_CONTRACT_CHANGED") ELSE {})
        \union (IF \E c \in vars : c.kind = "REMOVED" THEN VdFinding("BREAKING", "VARIABLE_REMOVED") ELSE {})
        \union (IF \E c \in vars : c.kind /= "REMOVED" THEN VdFinding("WARNING", "VARIABLE_CHANGED") ELSE {})
        \union (IF from.environment /= to.environment THEN VdFinding("WARNING", "ENVIRONMENT_CHANGED") ELSE {}) IN
  IF found = {} /\ (removed /= {} \/ modified /= {}) THEN VdFinding("SAFE", "NON_BREAKING_CHANGE") ELSE found

VdMaximumSeverity(findings) ==
  IF \E f \in findings : f.severity = "BREAKING" THEN "BREAKING" ELSE IF \E f \in findings : f.severity = "WARNING" THEN "WARNING" ELSE "SAFE"

\* The groups of the report that are not empty.
VdGroups(from, to) ==
  (IF VdAdded(from, to) /= {} THEN {"STEPS_ADDED"} ELSE {}) \union (IF VdRemoved(from, to) /= {} THEN {"STEPS_REMOVED"} ELSE {})
  \union (IF VdModified(from, to) /= {} THEN {"STEPS_MODIFIED"} ELSE {})
  \union (IF VdEdges(to) \subseteq VdEdges(from) THEN {} ELSE {"EDGES_ADDED"}) \union (IF VdEdges(from) \subseteq VdEdges(to) THEN {} ELSE {"EDGES_REMOVED"})
  \union (IF from.trigger /= to.trigger THEN {"TRIGGER_CHANGED"} ELSE {})
  \union (IF VdMapChanges(from.variables, to.variables) /= {} THEN {"VARIABLES_CHANGED"} ELSE {})
  \union (IF from.environment /= to.environment THEN {"ENVIRONMENT_CHANGED"} ELSE {})
  \union (IF from.graph.entry /= to.graph.entry THEN {"CONTROL_FLOW_CHANGED"} ELSE {})

\* workflowVersionDiff
VdCompare ==
  /\ vdReport = VdNoReport
  /\ vdReport' = LET findings == VdFindings(vdFrom, vdTo) IN
                 [groups |-> VdGroups(vdFrom, vdTo), findings |-> findings, max |-> VdMaximumSeverity(findings)]
  /\ UNCHANGED <<vdFrom, vdTo>>
VdNext == VdCompare
VdSpec == VdInit /\ [][VdNext]_vdVars

-----------------------------------------------------------------------------
(* Properties. *)

\* Nothing that decides how a version runs changes without an entry in the
\* report: trigger, steps, the order they run in, variables (11-43).  Only the
\* expression mode is not compared.
VdReportsEveryChange ==
  vdReport.max /= "none" /\ vdReport.groups = {}
    => /\ vdFrom.trigger = vdTo.trigger /\ Range(vdFrom.steps) = Range(vdTo.steps)
       /\ vdFrom.variables = vdTo.variables /\ vdFrom.environment = vdTo.environment
       /\ vdFrom.graph.entry = vdTo.graph.entry
       /\ IF vdFrom.graph.entry = "none" THEN vdFrom.steps = vdTo.steps ELSE vdFrom.graph.edges = vdTo.graph.edges

\* A report that is not BREAKING keeps what others rely on: no step reads a
\* step that was removed, types, sub-workflows, trigger and edges are kept, and
\* no variable is gone (86-112).
VdNotBreakingKeepsContracts ==
  vdReport.max \in {"SAFE", "WARNING"}
    => /\ \A s \in Range(vdTo.steps) : s.reads \intersect VdRemoved(vdFrom, vdTo) = {}
       /\ \A key \in VdKeys(vdFrom) \intersect VdKeys(vdTo) :
            LET s == VdStep(vdFrom, key)  t == VdStep(vdTo, key) IN
            s.type = t.type /\ (s.type = "execute_workflow" => s.selector = t.selector)
       /\ vdFrom.trigger = vdTo.trigger /\ DOMAIN vdFrom.variables \subseteq DOMAIN vdTo.variables
=============================================================================
