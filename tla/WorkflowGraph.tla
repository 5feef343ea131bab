---------------------------- MODULE WorkflowGraph ----------------------------
(***************************************************************************)
(* Workflow graphs (definition schema 2), the validator that the API runs  *)
(* before it stores or activates a version, and the planner that the       *)
(* worker walks a stored graph with.                                       *)
(*                                                                         *)
(* A graph is a record: entry is the entry step, type gives the type of    *)
(* each step, edges is the set of edges, and config holds the branch       *)
(* targets in the configuration of if and switch steps, written like       *)
(* edges. A switch case is an edge kind of its own. Step types that the    *)
(* routing does not tell apart are one type, task.                         *)
(***************************************************************************)
EXTENDS Naturals, FiniteSets

NoKey == "none"

IfKinds == {"if_true", "if_false"}
SwitchKinds == {"switch_case_a", "switch_case_b", "switch_default"}
ForEachKinds == {"for_each_body", "for_each_done"}
TryKinds == {"try_body", "try_catch", "try_finally", "try_done"}
ApprovalKinds == {"approval_approved", "approval_rejected", "approval_expired"}
EdgeKinds == {"next"} \cup IfKinds \cup SwitchKinds \cup ForEachKinds
             \cup TryKinds \cup ApprovalKinds

BranchTypes == {"if", "switch"}
ControlTypes == BranchTypes \cup {"approval"}

Edge(from, kind, to) == [from |-> from, kind |-> kind, to |-> to]
Keys(g) == DOMAIN g.type
Outgoing(g, k) == {e \in g.edges : e.from = k}
OutgoingOf(g, k, kind) == {e \in Outgoing(g, k) : e.kind = kind}
Connected(g, k, kind) == OutgoingOf(g, k, kind) # {}
Target(g, k, kind) ==
  IF Connected(g, k, kind) THEN (CHOOSE e \in OutgoingOf(g, k, kind) : TRUE).to
                           ELSE NoKey

(* The steps that edges of E lead to from the steps of from, from included. *)
Closure(E, from, n) ==
  LET grow[i \in 0..n] ==
        IF i = 0 THEN from
        ELSE LET known == grow[i - 1]
             IN  known \cup {e.to : e \in {d \in E : d.from \in known}}
  IN  grow[n]

Reached(g, from) == Closure(g.edges, from, Cardinality(Keys(g)))
Descendants(g, k) == Reached(g, {e.to : e \in Outgoing(g, k)})
CanReach(g, k, to) == to \in Reached(g, {k})
DescendantsUntil(g, start, stop) ==
  IF start = stop THEN {}
  ELSE Closure({e \in g.edges : e.to # stop}, {start}, Cardinality(Keys(g)))

Acyclic(g) == \A k \in Keys(g) : k \notin Descendants(g, k)
-----------------------------------------------------------------------------
(***************************************************************************)
(* The regions that a for_each and a try_catch step own.                   *)
(***************************************************************************)
LoopBody(g, k) ==
  DescendantsUntil(g, Target(g, k, "for_each_body"), Target(g, k, "for_each_done"))

TryExit(g, k, region) ==
  IF region # "finally" /\ Connected(g, k, "try_finally")
  THEN Target(g, k, "try_finally") ELSE Target(g, k, "try_done")

TryEntry(g, k, region) ==
  Target(g, k, CASE region = "body" -> "try_body"
                 [] region = "catch" -> "try_catch"
                 [] region = "finally" -> "try_finally")

TryRegion(g, k, region) ==
  IF TryEntry(g, k, region) = NoKey THEN {}
  ELSE DescendantsUntil(g, TryEntry(g, k, region), TryExit(g, k, region))

Regions == {"body", "catch", "finally"}
-----------------------------------------------------------------------------
(***************************************************************************)
(* validateGraphV2. A graph is valid when no rule reports an issue. The    *)
(* rules on a step's own configuration (durations, aliases, limits,        *)
(* workflow ids) are about data the graph does not hold.                   *)
(***************************************************************************)
EdgesValid(g) ==
  /\ g.entry \in Keys(g)
  /\ \A e \in g.edges : /\ {e.from, e.to} \subseteq Keys(g)
                        /\ e.from # e.to /\ e.kind \in EdgeKinds
  /\ \A e, f \in g.edges : e.from = f.from /\ e.kind = f.kind => e = f

OnlyKinds(g, k, kinds) == \A e \in Outgoing(g, k) : e.kind \in kinds

BranchValid(g, k, kinds) ==
  /\ OnlyKinds(g, k, kinds)
  /\ \A e \in g.config : e.from = k => e.to \in Keys(g) \ {k}
  /\ {e.kind : e \in Outgoing(g, k)} = {e.kind : e \in {c \in g.config : c.from = k}}

IfValid(g, k) ==
  BranchValid(g, k, IfKinds) /\ \A kind \in IfKinds : Connected(g, k, kind)

SwitchValid(g, k) ==
  /\ BranchValid(g, k, SwitchKinds) /\ Connected(g, k, "switch_default")
  /\ Outgoing(g, k) # OutgoingOf(g, k, "switch_default")

ApprovalValid(g, k) ==
  OnlyKinds(g, k, ApprovalKinds) /\ \A kind \in ApprovalKinds : Connected(g, k, kind)

(* A region is entered at its entry only, and left at its exit only.       *)
RegionStays(g, region, exit) ==
  \A k \in region : /\ CanReach(g, k, exit)
                    /\ \A e \in Outgoing(g, k) : e.to \in region \cup {exit}

ForEachValid(g, k) ==
  LET body == LoopBody(g, k)
      done == Target(g, k, "for_each_done")
      entry == Edge(k, "for_each_body", Target(g, k, "for_each_body"))
  IN  /\ OnlyKinds(g, k, ForEachKinds)
      /\ \A kind \in ForEachKinds : Connected(g, k, kind)
      /\ body # {} /\ k \notin body
      /\ \A s \in body : g.type[s] # "for_each"
      /\ RegionStays(g, body, done)
      /\ \A e \in g.edges : e.to \in body => e.from \in body \/ e = entry

TryCatchValid(g, k) ==
  LET region == [r \in Regions |-> TryRegion(g, k, r)]
      entry == [r \in Regions |-> TryEntry(g, k, r)]
      done == Target(g, k, "try_done")
      ends == {entry[r] : r \in Regions} \cup {done}
      Structured(e, r) == e.from = k /\ e.to = entry[r]
      Converges(e, r) == /\ r = "finally" /\ e.to = entry[r]
                         /\ e.from \in region["body"] \cup region["catch"]
  IN  /\ OnlyKinds(g, k, TryKinds)
      /\ \A kind \in TryKinds \ {"try_finally"} : Connected(g, k, kind)
      /\ Cardinality(ends) = 4
      /\ \A r \in Regions :
           /\ region[r] # {}
           /\ \A s \in region[r] : g.type[s] # "try_catch"
           /\ RegionStays(g, region[r], TryExit(g, k, r))
           /\ \A q \in Regions \ {r} : region[q] \cap region[r] = {}
           /\ \A e \in g.edges : e.to \in region[r] =>
                e.from \in region[r] \/ Structured(e, r) \/ Converges(e, r)

StepValid(g, k) ==
  CASE g.type[k] = "if" -> IfValid(g, k)
    [] g.type[k] = "switch" -> SwitchValid(g, k)
    [] g.type[k] = "for_each" -> ForEachValid(g, k)
    [] g.type[k] = "try_catch" -> TryCatchValid(g, k)
    [] g.type[k] = "approval" -> ApprovalValid(g, k)
    [] g.type[k] = "return" -> Outgoing(g, k) = {}
    [] OTHER -> OnlyKinds(g, k, {"next"})

ValidGraph(g) ==
  /\ EdgesValid(g) /\ Acyclic(g)
  /\ Reached(g, {g.entry}) = Keys(g)
  /\ \A k \in Keys(g) : StepValid(g, k)
-----------------------------------------------------------------------------
(***************************************************************************)
(* The planner. chosen is the nextStepKey or the approval decision that    *)
(* the step's output names, if it names one.                               *)
(***************************************************************************)
SelectedNext(g, k, chosen) ==
  IF chosen # NoKey THEN chosen ELSE Target(g, k, "next")

(* The keys that are skipped when step k selected the step sel: the        *)
(* targets of the other edges, and those of their descendants that the     *)
(* selected step does not lead to.                                         *)
BranchSkipKeys(g, k, sel) ==
  LET others == {e.to : e \in Outgoing(g, k)} \ {sel}
      kept == Descendants(g, sel) \cup {sel}
  IN  others \cup (UNION {Descendants(g, o) : o \in others} \ kept)

IsTerminal(g, k) == Outgoing(g, k) = {}
=============================================================================
