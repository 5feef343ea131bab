--------------------------- MODULE MCDefinitions ---------------------------
(***************************************************************************)
(* One instance for the components of which only safety is asked: what the *)
(* API keeps of a workflow, what the worker computes from it, and the rows *)
(* around it.  Each behaviour is one of a single component, named by       *)
(* `part`, while the variables of the others keep an initial value.  The   *)
(* state space is the disjoint union of those of the components.           *)
(***************************************************************************)
EXTENDS WorkflowVersions, VersionDiff, Connections, HttpCalls, DataStores,
        WebhookTriggers, WorkflowTemplates, Retention, RuntimeContext, Transforms

VARIABLE part

Parts == {"version", "diff", "connection", "http", "data store", "webhook", "template",
          "retention", "context", "expression", "transform"}

-----------------------------------------------------------------------------
(* Constants                                                               *)

Def(calls, connects) == [calls |-> calls, connects |-> connects]
Plain == Def(<<"none", 0>>, FALSE)
MCWvPlans == {[drafts |-> [a |-> {Plain, Def(<<"none", 0>>, TRUE)}, b |-> {Def(<<"a", 0>>, FALSE), Def(<<"a", 1>>, FALSE)}], versions |-> 3],
              [drafts |-> [a |-> {Def(<<"b", 0>>, FALSE)}, b |-> {Def(<<"c", 0>>, FALSE)}, c |-> {Plain, Def(<<"a", 0>>, FALSE)}], versions |-> 4]}

VdS(key, type, name, selector, reads) == [key |-> key, type |-> type, name |-> name, selector |-> selector, config |-> 1, reads |-> reads]
VdD(trigger, steps, entry, edges, variables, environment) ==
  [trigger |-> trigger, steps |-> steps, graph |-> [entry |-> entry, edges |-> edges], variables |-> variables, environment |-> environment]
Wire(kind) == {[from |-> "s", to |-> "t", kind |-> kind]}
MCVdDefinitions ==
  LET first == {VdS("s", type, 1, selector, {}) : type \in {"transform", "if", "for_each", "execute_workflow", "return_workflow_output"}, selector \in {1, 2}}
      second == {VdS("t", "http_request", name, 1, reads) : name \in {1, 2}, reads \in {{}, {"s"}}} IN
  {VdD(1, <<a, b>>, "none", {}, [x |-> 1], [e |-> 1]) : a \in first, b \in second}
  \union {VdD(1, <<b>>, "none", {}, v, [e |-> 1]) : b \in second, v \in {[x |-> 1], [x |-> 2], [y |-> 1], <<>>}}
  \union {VdD(t, <<a, VdS("t", "http_request", 1, 1, {})>>, "s", Wire(k), [x |-> 1], [e |-> e]) : a \in {VdS("s", "if", n, 1, {}) : n \in {1, 2}}, k \in {"true", "false"}, t \in {1, 2}, e \in {1, 2}}
  \union {VdD(1, <<VdS("t", "http_request", 1, 1, {}), VdS("s", "if", 1, 1, {})>>, "none", {}, [x |-> 1], [e |-> 1])}

MCCnRoles == [owner |-> "OWNER", admin |-> "ADMIN", editor |-> "EDITOR"]

MCHcCreates == [scheme : {"API_KEY", "BEARER", "BASIC", "CUSTOM_HEADERS"}, location : {"none", "HEADER", "QUERY"}, name : {"none", "x-key", "cookie"},
  user : BOOLEAN, extra : {{}, {"x-public"}, {"x-public", "x-more"}, {"authorization"}}, names : {{}, {"x-a"}, {"x-a", "x-public"}}, secret : BOOLEAN]
MCHcUpdates == {[extra |-> {"x-public", "x-other"}], [extra |-> {"cookie"}], [name |-> "none"], [location |-> "QUERY"], [user |-> FALSE]}

DsCall(by, op, key, mode, expected, ttl) == [by |-> by, op |-> op, key |-> key, mode |-> mode, expected |-> expected, ttl |-> ttl]
DsApi == {DsCall("api", "upsert", 1, "merge", 1, "none"), DsCall("api", "upsert", 2, "replace", 0, "running"), DsCall("api", "delete", 1, "", 0, ""), DsCall("api", "get", 1, "", 0, ""), DsCall("api", "upsert", 1, "replace", 0, "running")}
DsStep == {DsCall("worker", "upsert", 1, "merge", 2, "running"), DsCall("worker", "upsert", 1, "merge", 0, "none"), DsCall("worker", "get", 1, "", 0, ""), DsCall("worker", "exists", 2, "", 0, ""), DsCall("worker", "delete", 1, "", 0, ""), DsCall("worker", "record", 1, "", 0, "")}
MCDsCallSets == {[c \in DsCallers |-> IF c = 1 THEN x ELSE y] : x \in DsApi, y \in DsStep}

MCWtDefaults == [bytes |-> 2, depth |-> 2, keys |-> 2, array |-> 2, string |-> 2]
MCWtLimits == {[bytes |-> 1, depth |-> 1, keys |-> 2, array |-> 1, string |-> 1]}
MCWtPayloads ==
  [q \in WtSenders |-> {[bytes |-> 1, body |-> <<"obj", <<<<"arr", <<<<"num">>, <<"num">>>>>>, <<"str", 1>>>>>>]}]

MCTpTypeOf == "c1" :> "http_api_key" @@ "m1" :> "smtp" @@ "s1" :> "store" @@ "s2" :> "store" @@ "w1" :> "workflow" @@ "w2" :> "unpublished"
MCTpNameOf == "s1" :> "stock" @@ "s2" :> "stock"
TpUse(type, id, name) == [type |-> type, id |-> id, name |-> name, version |-> TpNone,
                          pinned |-> FALSE, dynamic |-> FALSE, secret |-> FALSE]
MCTpDefinitions == {
  <<TpUse("http_request", "c1", TpNone), TpUse("data_store_get", TpNone, "stock")>>,
  <<[TpUse("execute_workflow", "w1", TpNone) EXCEPT !.pinned = TRUE, !.version = "w1"]>>,
  <<TpUse("email_notification", "m1", TpNone), TpUse("task", "c1", TpNone)>>,
  <<[TpUse("data_store_get", TpNone, "stock") EXCEPT !.dynamic = TRUE]>>,
  <<[TpUse("http_request", TpNone, TpNone) EXCEPT !.secret = TRUE]>> }
TpTo(k, r) == [key |-> k, id |-> r, version |-> IF r \in {"w1", "w2"} THEN r ELSE TpNone]
MCTpMappingLists == {<<>>, <<TpTo(1, "w1")>>, <<TpTo(1, "w2")>>, <<TpTo(1, "c1"), TpTo(2, "s2")>>,
  <<TpTo(2, "s1"), TpTo(2, "s2")>>}

Op(key, op, scope, name, ref) == [key |-> key, op |-> op, scope |-> scope, name |-> name, ref |-> ref]
RcStep(leaf) == [key |-> leaf.key, kind |-> "step", alias |-> "", body |-> <<leaf>>, catch |-> <<>>, finally |-> <<>>]
RcLoop(key, alias, body) == [key |-> key, kind |-> "loop", alias |-> alias, body |-> body, catch |-> <<>>, finally |-> <<>>]
RcTry(key, body, catch, finally) == [key |-> key, kind |-> "try", alias |-> "", body |-> body, catch |-> catch, finally |-> finally]
MCRcPlans ==
  LET a == Op("a", "set", "execution", "x", "")
      z(ref) == RcStep(Op("z", "set", "workflow", "x", ref))
      delay(k) == Op(k, "delay", "execution", "x", "")
      count(k) == Op(k, "increment", "execution", "n", "")
      push(k) == Op(k, "append", "workflow", "list", "")
  IN { <<RcStep(a), RcLoop("l", alias, <<count("b"), w, push("d")>>), RcStep(count("m")), z("a")>> :
         alias \in {"", "x"}, w \in {delay("c"), Op("c", "set", "execution", "x", "b")} }
     \cup { <<RcStep(a), RcTry("t", <<count("b"), f>>, <<Op("d", "append", "workflow", "list", "b")>>, fin), z(ref)>> :
         f \in {delay("c"), Op("c", "fail", "execution", "x", ""), Op("c", "set", "execution", "item", "")},
         fin \in {<<>>, <<push("e"), delay("f")>>, <<Op("e", "delete", "execution", "x", "b")>>}, ref \in {"a", "t"} }
     \cup { <<RcStep(push("a")), RcStep(delay("b")), RcStep(Op("c", "get", "execution", "item", "")), z("a")>>,
            <<RcStep(push("a")), RcStep(push("b")), RcStep(Op("c", "append", "workflow", "list", "a")), RcStep(Op("d", "increment", "workflow", "list", ""))>>,
            <<RcStep(push("a")), RcStep(Op("b", "increment", "workflow", "list", "")), z("")>> }
MCRcItems == <<"0", "1">>

XpE(p) == XpExpr(p)
XpT == XpText("a")
MCXpBodies == {XpObject([a |-> XpString("v")]),
               XpObject([a |-> XpObject([b |-> XpNumber])]),
               XpObject([a |-> <<"str", <<XpText("v"), XpClose>>>>]),
               XpObject([a |-> XpArray(<<XpNumber>>)])}
MCXpTypes == DOMAIN XpOutputEntries \cup {"transform"}
MCXpTyped ==
  LET body == XpE(<<"trigger", "body">>)
      a == XpE(<<"trigger", "body", "a">>)
  IN {<<XpT>>, <<XpT, XpClose>>, <<XpT, XpOpen>>, <<XpT, body>>, <<a, XpT>>,
      <<a, XpClose, a>>, <<a, XpT, a>>, <<a, a, a>>,
      <<XpE(<<"trigger", "body", "a", "0">>)>>, <<XpE(<<"trigger", "body", "a", "1">>)>>,
      <<XpE(<<"trigger", "body", "a", "9">>)>>, <<XpE(<<"trigger", "body", "b">>)>>,
      <<XpE(<<"trigger", "body", "a", "b", "c", "d">>)>>,
      <<XpE(<<"trigger", "constructor">>)>>, <<XpE(<<>>)>>, <<XpE(<<"trigger", "">>)>>,
      <<XpE(<<"trigger">>)>>, <<XpE(<<"trigger", "event", "secret">>)>>,
      <<XpE(<<"item">>)>>, <<XpE(<<"connection", "status">>)>>, <<XpE(<<"steps">>)>>,
      <<XpE(<<"steps", "user", "output">>)>>, <<XpE(<<"steps", "later", "output">>)>>,
      <<XpE(<<"steps", "s1", "error">>)>>, <<XpE(<<"steps", "s1", "status">>), XpT>>,
      <<XpE(<<"steps", "save", "output", "createdAt">>), XpT>>,
      <<XpE(<<"steps", "http", "output", "body">>), XpT>>,
      <<XpE(<<"system">>)>>, <<XpE(<<"timestamp", "a">>)>>, <<XpE(<<"error", "code">>)>>,
      <<XpE(<<"execution", "retryOfExecutionId">>), XpT>>,
      <<XpE(<<"metadata", "executionId">>)>>}

TfN == <<"num", 1>>
TfKeys == {"a", "b"}
TfLeafValues == {TfN, XpString("1")}
TfFlatObjects == {XpObject(f) : f \in UNION {[S -> TfLeafValues] : S \in SUBSET TfKeys}}
TfInner == {XpObject(<<>>), XpObject([a |-> TfN]), XpObject([a |-> TfN, b |-> XpString("1")]), XpArray(<<TfN, XpNull>>), TfN}
TfSources == {XpObject(f) : f \in UNION {[S -> TfInner] : S \in SUBSET TfKeys}} \cup {TfN}
TfPathSet == {<<"a">>, <<"b">>, <<"a", "a">>, <<"a", "b">>, <<"b", "a">>, <<"a", "0">>, <<"a", "a", "a">>}
TfPathLists == {<<p>> : p \in TfPathSet} \cup {<<p, q>> : p, q \in TfPathSet} \cup {<<>>, <<<<"constructor">>>>, <<<<"a">>, <<"b">>, <<"a", "a">>>>, <<<<"a">>, <<"b">>, <<"a", "a">>, <<"b", "a">>>>}
TfItem(on) == XpObject([on |-> on])
TfItems == {TfItem(<<"bool", TRUE>>), TfItem(<<"bool", FALSE>>), TfItem(TfN), XpObject(<<>>)}
TfArrays == {XpArray(s) : s \in UNION {[1..n -> TfItems] : n \in 0..4}} \cup {TfN}
TfItemOn == <<"str", <<XpExpr(<<"item", "on">>)>>>>
MCTfConfigs ==
  {[mode |-> m, source |-> s, paths |-> p] : m \in {"PICK", "OMIT"}, s \in TfSources, p \in TfPathLists} \cup
  {[mode |-> "MERGE", mergeSources |-> s, conflictPolicy |-> p] :
     s \in [1..2 -> TfFlatObjects] \cup [1..1 -> TfFlatObjects] \cup [1..3 -> {XpObject([a |-> TfN]), XpObject([a |-> XpString("1")]), XpObject([b |-> TfN]), XpObject([b |-> XpString("1")])}],
     p \in TfPolicies} \cup
  {[mode |-> "MERGE", mergeSources |-> <<TfN, TfN>>, conflictPolicy |-> "ERROR"]} \cup
  {[mode |-> "FILTER_ARRAY", source |-> s, condition |-> TfItemOn, itemVariable |-> v] : s \in TfArrays, v \in {"item", "x"}} \cup
  {[mode |-> "MAP_ARRAY", source |-> s, template |-> TfItemOn] : s \in TfArrays} \cup
  {[mode |-> "OBJECT", fields |-> f, outputType |-> o] :
     f \in {[value |-> v] : v \in {TfN, XpString("1"), XpString("true"), XpNull, <<"bool", TRUE>>, XpArray(<<TfN>>), XpObject([a |-> XpObject([a |-> XpObject([a |-> TfN])])])}}
            \cup {[a |-> TfN], [constructor |-> TfN], [value |-> <<"str", <<XpExpr(<<"none">>)>>>>]}, o \in TfOutputTypes \cup {"DATE"}} \cup
  {[mode |-> "PICK", source |-> TfN, paths |-> <<<<"a">>>>, template |-> TfN], [mode |-> "OBJECT", fields |-> [a |-> TfN]]}

-----------------------------------------------------------------------------
(* The union                                                               *)

\* What is fixed of the initial state of a component that does not run.
Fixed(name, assignment) == IF part = name THEN TRUE ELSE assignment
Some(S) == CHOOSE x \in S : TRUE

MCInit ==
  /\ part \in Parts
  /\ Fixed("version", wvPlan = Some(WvPlans))
  /\ Fixed("diff", vdFrom = Some(VdDefinitions) /\ vdTo = vdFrom)
  /\ Fixed("http", hcBody = Some(HcCreates))
  /\ Fixed("data store", dsCalls = Some(DsCallSets) /\ dsRows = <<>>)
  /\ Fixed("context", rcPlan = Some(RcPlans) /\ rcMode = "strict")
  /\ Fixed("expression", xpFlow = Some(XpFlows))
  /\ WvInit /\ VdInit /\ CnInit /\ HcInit /\ DsInit /\ WtInit /\ RtInit
  /\ RcInit /\ XpInit
  /\ IF part = "template" THEN TpInit
     ELSE /\ tpLive = {} /\ tpGone = {} /\ tpStatus = "none" /\ tpVersions = <<>> /\ tpMade = {}
          /\ tpCalls = [u \in TpUsers |-> TpIdle] /\ tpLeft = [calls |-> 0, changes |-> 0]
  /\ IF part = "transform" THEN TfInit
     ELSE tfConfig = [mode |-> "OBJECT", fields |-> [a |-> TfN]] /\ tfSaved = "no" /\ tfOut = XpNothing

\* The components that do not run stay as they are.
Kept(name, vars) == IF part = name THEN TRUE ELSE UNCHANGED vars
Others ==
  /\ UNCHANGED part
  /\ Kept("version", wvVars)
  /\ Kept("diff", vdVars) /\ Kept("connection", cnVars) /\ Kept("http", hcVars)
  /\ Kept("data store", dsVars) /\ Kept("webhook", wtVars) /\ Kept("template", tpVars)
  /\ Kept("retention", rtVars) /\ Kept("context", rcVarsAll) /\ Kept("expression", xpVars)
  /\ Kept("transform", tfVars)

MCNext ==
  \/ part = "version" /\ WvNext /\ Others
  \/ part = "diff" /\ VdNext /\ Others
  \/ part = "connection" /\ CnNext /\ Others
  \/ part = "http" /\ HcNext /\ Others
  \/ part = "data store" /\ DsNext /\ Others
  \/ part = "webhook" /\ WtNext /\ Others
  \/ part = "template" /\ TpNext /\ Others
  \/ part = "retention" /\ RtNext /\ Others
  \/ part = "context" /\ RcNext /\ Others
  \/ part = "expression" /\ XpNext /\ Others
  \/ part = "transform" /\ TfNext /\ Others

MCVars == <<part, wvVars, vdVars, cnVars, hcVars, dsVars, wtVars, tpVars, rtVars, rcVarsAll, xpVars, tfVars>>

MCSpec == MCInit /\ [][MCNext]_MCVars

-----------------------------------------------------------------------------
(* What this instance checks of the components together.                   *)

\* Workflows: what is active was published, and without a race one version is
\* active and no calls form a cycle (WorkflowVersions); a comparison reports
\* every change and calls none harmless that breaks a caller (VersionDiff); a
\* workflow made from a template refers to what was mapped, and its preview
\* predicts whether it can be published (WorkflowTemplates).
WorkflowsInv ==
  /\ WvTypeOK /\ WvActiveIsPublished /\ WvOneActiveUnraced /\ WvNoCycleUnraced
  /\ VdReportsEveryChange /\ VdNotBreakingKeepsContracts
  /\ TpTypeOK /\ TpRefersAsMapped /\ TpPreviewPredictsPublish

\* Connections: one secret is active, a rotation is seamless for the worker and
\* the preview is of the current secret (Connections); a connection that passed
\* its test works in a step, and its headers stay with its host (HttpCalls).
ConnectionsInv ==
  /\ CnTypeOK /\ CnOneActiveSecret /\ CnRotationIsSeamless /\ CnPreviewIsCurrent
  /\ HcTypeOK /\ HcTestPredictsStep /\ HcHeadersStayHome

\* Values: regions and iterations see their own steps, crashes and waits keep
\* variables (RuntimeContext); catalog, validator, previews and runner agree on
\* expressions (Expressions); and the modes of a transform give what they say
\* (Transforms).
ValuesInv ==
  /\ RcTypeOK /\ RcRegionSeesItself /\ RcRootSeesEarlier /\ RcNeverTwice /\ RcWaitsKeepVariables
  /\ XpTypeOK /\ XpCatalogAccepted /\ XpCatalogResolves /\ XpAcceptedRuns
  /\ XpPreviewPredicts /\ XpSampleShowsCatalog /\ XpRerunAgrees
  /\ TfTypeOK /\ TfPickKeepsListed /\ TfOmitKeepsOthers /\ TfMergeIsFair
  /\ TfFilterKeepsTrue /\ TfTypeHonoured

\* What the rows never do: versions go forward only, what is deleted or archived
\* stays so, nothing is made from a template that is not published, only expired
\* executions are deleted, and a loop's variable is not assigned.
RowsKeep ==
  [][ /\ WvForwardOnly /\ CnDeletedStays /\ WtDeletedStays /\ TpArchivedIsFinal
      /\ TpMadeWhilePublished /\ RtDeletedWasExpired /\ RcAliasUntouched ]_MCVars
=============================================================================
