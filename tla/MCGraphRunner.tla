---------------------------- MODULE MCGraphRunner ----------------------------
(***************************************************************************)
(* Graphs for GraphRunner: every valid graph over a few steps, and some    *)
(* larger ones with nested control steps.                                  *)
(***************************************************************************)
EXTENDS GraphRunner

Flow(k, next) == Edge(k, "next", next)

Build(entry, type, edges, items, bad, keep) ==
  [entry |-> entry, type |-> type, edges |-> edges,
   config |-> {e \in edges : type[e.from] \in BranchTypes},
   items |-> items, badSource |-> bad, continueOnError |-> keep]

(* A loop over two items with a branch in its body.                        *)
LoopGraph(keep, bad) == Build("l",
  "l" :> "for_each" @@ "i" :> "switch" @@ "a" :> "task" @@ "b" :> "delay" @@ "z" :> "task",
  {Edge("l", "for_each_body", "i"), Edge("i", "switch_case_a", "a"),
   Edge("i", "switch_default", "z"),
   Flow("a", "b"), Flow("b", "z"), Edge("l", "for_each_done", "z")}, 2, bad, keep)

TryGraph == Build("t",
  "t" :> "try_catch" @@ "a" :> "task" @@ "b" :> "task" @@ "c" :> "task"
    @@ "f" :> "task" @@ "z" :> "return",
  {Edge("t", "try_body", "a"), Flow("a", "b"), Flow("b", "f"),
   Edge("t", "try_catch", "c"), Flow("c", "f"),
   Edge("t", "try_finally", "f"), Flow("f", "z"), Edge("t", "try_done", "z")}, 0, FALSE, FALSE)

LoopInTry(keep) == Build("t",
  "t" :> "try_catch" @@ "l" :> "for_each" @@ "a" :> "task" @@ "c" :> "task"
    @@ "f" :> "task" @@ "z" :> "task",
  {Edge("t", "try_body", "l"), Edge("l", "for_each_body", "a"), Flow("a", "f"),
   Edge("l", "for_each_done", "f"),
   Edge("t", "try_catch", "c"), Flow("c", "f"),
   Edge("t", "try_finally", "f"), Flow("f", "z"), Edge("t", "try_done", "z")}, 2, FALSE, keep)

TryInLoop == Build("l",
  "l" :> "for_each" @@ "t" :> "try_catch" @@ "a" :> "task" @@ "c" :> "task"
    @@ "f" :> "task" @@ "z" :> "task",
  {Edge("l", "for_each_body", "t"), Edge("l", "for_each_done", "z"),
   Edge("t", "try_body", "a"), Flow("a", "f"),
   Edge("t", "try_catch", "c"), Flow("c", "f"),
   Edge("t", "try_finally", "f"), Flow("f", "z"), Edge("t", "try_done", "z")}, 1, FALSE, FALSE)

ApprovalGraph == Build("p",
  "p" :> "approval" @@ "a" :> "task" @@ "b" :> "delay" @@ "c" :> "task" @@ "z" :> "task",
  {Edge("p", "approval_approved", "a"), Edge("p", "approval_rejected", "b"),
   Edge("p", "approval_expired", "c"), Flow("a", "z"), Flow("b", "z")}, 0, FALSE, FALSE)

BigGraphs == {LoopGraph(TRUE, FALSE), LoopGraph(FALSE, TRUE), TryGraph,
              LoopInTry(TRUE), LoopInTry(FALSE), TryInLoop,
              ApprovalGraph}

(* Every graph over four steps, in topological order: a step is a type and *)
(* its edges to later steps.                                               *)
Step(n) == <<"a", "b", "c", "d">>[n]
Shapes(n) ==
  LET later == {Step(m) : m \in (n + 1)..4}
      k == Step(n)
      Two(type, x, y) == {<<type, {Edge(k, x, p), Edge(k, y, q)}>> : p, q \in later}
  IN  {<<"task", {}>>} \cup {<<"task", {Flow(k, p)}>> : p \in later}
        \cup Two("if", "if_true", "if_false")
        \cup Two("for_each", "for_each_body", "for_each_done")
SmallGraphs ==
  {Build("a", [k \in {Step(n) : n \in 1..4} |-> CHOOSE t \in {s[n][1] : n \in {m \in 1..4 : Step(m) = k}} : TRUE],
         UNION {s[n][2] : n \in 1..4}, 1, FALSE, FALSE) :
     s \in {<<s1, s2, s3, s4>> : s1 \in Shapes(1), s2 \in Shapes(2), s3 \in Shapes(3), s4 \in Shapes(4)}}

(* No branch of a step leads to the target of another: see OnlyUnselectedSkipped.   *)
BranchesApart(g) ==
  \A e, f \in g.edges :
    e.from = f.from /\ g.type[e.from] \in ControlTypes => e.to \notin Descendants(g, f.to)

MCRunGraphs == {g \in BigGraphs \cup SmallGraphs : ValidGraph(g) /\ (g \in BigGraphs \/ BranchesApart(g))}

=============================================================================
