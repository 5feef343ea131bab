---------------------------- MODULE Expressions ----------------------------
(***************************************************************************)
(* The expression language of the workflow fields, and the life of one     *)
(* field: its author takes an entry of the variable catalog or types a     *)
(* template, the builder and the API preview it, the API validates it when *)
(* the version is saved, the worker resolves it when the step is run, and  *)
(* resolves it again, in a context rebuilt from the step rows, when the    *)
(* step is retried by another worker.                                      *)
(*                                                                         *)
(* A text is the sequence of its parts: plain text, an expression (the     *)
(* sequence of the segments of its path), a "}}" or a "{{" of the plain    *)
(* text, or the JSON of a value that was interpolated. A JSON value is a   *)
(* tagged tuple.                                                           *)
(***************************************************************************)
EXTENDS Naturals, Sequences, FiniteSets, TLC

CONSTANTS
  XpTypes,              \* the types of the earlier step
  XpUsers,              \* the types of the step that has the field
  XpTyped,              \* the templates that the author types
  XpBodies,             \* the bodies of the webhook calls
  XpMaxInterpolations,  \* DEFAULT_MAX_INTERPOLATIONS
  XpMaxPathDepth,       \* DEFAULT_MAX_PATH_DEPTH
  XpMaxArrayIndex       \* DEFAULT_MAX_ARRAY_INDEX

ASSUME XpAssumption ==
  {XpMaxInterpolations, XpMaxPathDepth, XpMaxArrayIndex} \subseteq Nat

VARIABLES
  xpFlow,     \* the workflow around the field, and its execution
  xpField,    \* the text of the field
  xpPicked,   \* it is an entry of the catalog
  xpShown,    \* what the builder's preview says of it
  xpTried,    \* what the API's preview says of it
  xpSaved,    \* "no", "accepted", "refused"
  xpUsed,     \* what the step works with
  xpReused    \* what it works with when it is run again after a crash

xpVars == <<xpFlow, xpField, xpPicked, xpShown, xpTried, xpSaved, xpUsed,
            xpReused>>

XpText(s) == <<"text", s>>
XpExpr(path) == <<"expr", path>>
XpClose == <<"close">>
XpOpen == <<"open">>
XpString(s) == <<"str", <<XpText(s)>>>>
XpNumber == <<"num">>
XpBoolean == <<"bool">>
XpNull == <<"null">>
XpUndefined == <<"undefined">>
XpDate == <<"date">>
XpObject(f) == <<"obj", f>>
XpArray(s) == <<"arr", s>>
XpNotFound == <<"notFound">>
XpError(code) == <<"error", code>>
XpNothing == <<"nothing">>

XpIndexOf == ("0" :> 0) @@ ("1" :> 1) @@ ("9" :> 9)
XpForbidden == {"__proto__", "prototype", "constructor", "eval"}
\* step keys and variable names may hold a "-", which is an operator here
XpUnsupported == {"s-1", "a b"}
-----------------------------------------------------------------------------
(* The parser *)

XpPathFault(path) ==
  IF \/ path = <<>>
     \/ \E i \in DOMAIN path : path[i] \in XpUnsupported \cup {""}
     \/ Len(path) > XpMaxPathDepth
    THEN "syntax"
  ELSE LET faulty == {i \in DOMAIN path :
                        \/ path[i] \in XpForbidden
                        \/ /\ path[i] \in DOMAIN XpIndexOf
                           /\ XpIndexOf[path[i]] > XpMaxArrayIndex}
       IN IF faulty = {} THEN "none"
          ELSE LET i == CHOOSE i \in faulty : \A j \in faulty : i <= j
               IN IF path[i] \in XpForbidden THEN "forbidden" ELSE "syntax"

XpExpressions(text) == {i \in DOMAIN text : text[i][1] = "expr"}

(* Only the text after the last expression is searched for delimiters *)
XpTail(text) ==
  {i \in DOMAIN text : \A j \in XpExpressions(text) : j < i}

XpParse(text) ==
  LET expressions == XpExpressions(text)
      rank(i) == Cardinality({j \in expressions : j <= i})
      faulty == {i \in expressions :
                   \/ rank(i) > XpMaxInterpolations
                   \/ XpPathFault(text[i][2]) # "none"}
  IN IF faulty # {}
       THEN LET i == CHOOSE i \in faulty : \A j \in faulty : i <= j
            IN IF rank(i) > XpMaxInterpolations THEN "syntax"
               ELSE XpPathFault(text[i][2])
     ELSE IF \E i \in XpTail(text) : text[i] \in {XpClose, XpOpen} THEN "syntax"
     ELSE "none"

XpIncludesOpening(text) ==
  XpExpressions(text) # {} \/ \E i \in DOMAIN text : text[i] = XpOpen
-----------------------------------------------------------------------------
(* The resolver *)

XpMember(value, segment) ==
  IF value[1] = "arr" /\ segment \in DOMAIN XpIndexOf
    THEN IF XpIndexOf[segment] >= Len(value[2]) THEN XpNotFound
         ELSE value[2][XpIndexOf[segment] + 1]
  ELSE IF value[1] = "obj" /\ segment \in DOMAIN value[2]
    THEN value[2][segment]
  ELSE XpNotFound

XpReadPath(scope, path) ==
  LET read[i \in 0..Len(path)] ==
        IF i = 0 THEN scope ELSE XpMember(read[i - 1], path[i])
  IN read[Len(path)]

(* JSON.stringify closes an object that ends with an object by "}}". The   *)
(* objects of the model have their nested member last.                     *)
XpStringify(value) ==
  IF value[1] = "str" THEN value[2]
  ELSE <<<<"json", value>>>> \o
       (IF value[1] = "obj" /\ \E k \in DOMAIN value[2] : value[2][k][1] = "obj"
        THEN <<XpClose>> ELSE <<>>)

XpPart(part, scope) ==
  IF part[1] # "expr" THEN <<part>>
  ELSE LET value == XpReadPath(scope, part[2])
       IN IF value \in {XpNotFound, XpUndefined, XpNull} THEN <<>>
          ELSE XpStringify(value)

XpResolveMixed(text, scope, mode) ==
  LET joined[i \in 0..Len(text)] ==
        IF i = 0 THEN <<>> ELSE joined[i - 1] \o XpPart(text[i], scope)
  IN IF /\ mode = "strict"
        /\ \E i \in XpExpressions(text) :
             XpReadPath(scope, text[i][2])
               \in {XpNotFound, XpUndefined, XpNull}
       THEN XpError("path")
     ELSE <<"str", joined[Len(text)]>>

XpResolveSingle(path, scope, mode) ==
  LET value == XpReadPath(scope, path)
  IN IF value # XpNotFound THEN value
     ELSE IF mode = "legacy" THEN <<"str", <<>>>>
     ELSE XpError("path")

XpResolveString(text, scope, mode) ==
  IF XpParse(text) # "none" THEN XpError(XpParse(text))
  ELSE IF XpExpressions(text) = {} THEN <<"str", text>>
  ELSE IF Len(text) = 1 THEN XpResolveSingle(text[1][2], scope, mode)
  ELSE XpResolveMixed(text, scope, mode)

(* resolveValue: the strings of an object and of an array are templates    *)
(* too. One level is enough for the values of the model.                   *)
XpResolveValue(value, scope, mode) ==
  LET inner(v) == IF v[1] = "str" THEN XpResolveString(v[2], scope, mode)
                  ELSE v
      failed(vs) == {v \in vs : inner(v)[1] = "error"}
  IN CASE value[1] = "str" -> inner(value)
       [] value[1] = "obj" ->
            LET bad == failed({value[2][k] : k \in DOMAIN value[2]})
            IN IF bad # {} THEN inner(CHOOSE v \in bad : TRUE)
               ELSE XpObject([k \in DOMAIN value[2] |-> inner(value[2][k])])
       [] value[1] = "arr" ->
            LET bad == failed({value[2][k] : k \in DOMAIN value[2]})
            IN IF bad # {} THEN inner(CHOOSE v \in bad : TRUE)
               ELSE XpArray([k \in DOMAIN value[2] |-> inner(value[2][k])])
       [] OTHER -> value
-----------------------------------------------------------------------------
(* The validator *)

XpNamespaces == {"trigger", "workflow", "steps", "execution", "variables",
                 "system", "timestamp", "organization", "connection",
                 "metadata"}
XpErrorFields == {"message", "category", "code", "stepKey", "executionPath",
                  "retryable", "attempts"}
XpTriggerFields == {"body", "input", "headers", "query", "method",
                    "receivedAt", "event"}
XpEventFields == {"id", "schemaVersion", "type", "occurredAt", "source",
                  "subject", "correlationId", "rootEventId", "causationId",
                  "depth", "data"}
XpConnectionAllowed == {<<"connection", f>> : f \in {"id", "name", "type"}}

XpStepPathIssues(path, context) ==
  IF Len(path) < 2 THEN {"syntax"}
  ELSE (IF path[2] \notin context.available \/ path[2] = context.current
        THEN {"stepNotAvailable"} ELSE {}) \cup
       (IF Len(path) > 2 /\ path[3] \notin {"output", "status"}
        THEN {"accessDenied"} ELSE {})

XpTriggerIssues(path) ==
  IF \/ Len(path) < 2
     \/ path[2] \notin XpTriggerFields
     \/ path[2] = "event" /\ Len(path) > 2 /\ path[3] \notin XpEventFields
  THEN {"accessDenied"} ELSE {}

XpPathIssues(path, context) ==
  LET namespace == path[1]
  IN IF namespace \notin XpNamespaces \cup context.locals
       THEN {"namespaceUnknown"}
     ELSE CASE namespace = "error" ->
                 IF Len(path) = 2 /\ path[2] \in XpErrorFields THEN {}
                 ELSE {"accessDenied"}
            [] namespace = "connection" ->
                 IF path \in XpConnectionAllowed THEN {} ELSE {"accessDenied"}
            [] namespace = "steps" -> XpStepPathIssues(path, context)
            [] namespace \in {"variables", "system"} ->
                 IF Len(path) < 2 THEN {"syntax"} ELSE {}
            [] namespace = "timestamp" ->
                 IF Len(path) > 1 THEN {"accessDenied"} ELSE {}
            [] namespace = "trigger" -> XpTriggerIssues(path)
            [] OTHER -> {}

XpValidateString(text, context) ==
  IF XpParse(text) # "none" THEN {XpParse(text)}
  ELSE UNION {XpPathIssues(text[i][2], context) : i \in XpExpressions(text)}

(* A string without "{{" is not looked at *)
XpValidateValue(text, context) ==
  IF XpIncludesOpening(text) THEN XpValidateString(text, context) ELSE {}
-----------------------------------------------------------------------------
(* The variable catalog *)

XpBaseEntries ==
  {<<"trigger", f>> : f \in {"body", "headers", "query", "method",
                             "receivedAt", "event"}} \cup
  {<<"trigger", "event", f>> : f \in {"type", "data"}} \cup
  {<<"workflow", f>> : f \in {"id", "versionId", "name", "variables",
                              "environment"}} \cup
  {<<"execution", f>> : f \in {"id", "correlationId", "retryOfExecutionId",
                               "startedAt", "variables"}} \cup
  {<<"variables">>, <<"timestamp">>} \cup
  {<<"system", f>> : f \in {"now", "executionMode"}} \cup
  {<<"organization", f>> : f \in {"id", "slug", "variables"}} \cup
  {<<"connection", f>> : f \in {"id", "name", "type"}}

(* The members of output that the catalog offers, by the type of the step. *)
(* A type that is not listed has its output as a whole.                    *)
XpOutputEntries ==
  ("http_request" :> {"status", "ok", "body"}) @@
  ("ai_classification" :> {"category", "confidence", "raw"}) @@
  ("ai_structured_extraction" :> {"data"}) @@
  ("ai_summary" :> {"summary"}) @@
  ("conditional" :> {"passed"}) @@
  ("database_record" :> {"recordId", "collection", "createdAt"}) @@
  ("data_store_get_record" :> {"found", "key", "value", "metadata",
                               "version"}) @@
  ("data_store_upsert_record" :> {"created", "updated", "version",
                                  "value"}) @@
  ("data_store_delete_record" :> {"deleted", "existed"}) @@
  ("data_store_exists_record" :> {"exists"}) @@
  ("data_store_count_records" :> {"count"}) @@
  ("data_store_list_records" :> {"items", "limit", "offset", "hasMore"}) @@
  ("email_notification" :> {"messageId", "accepted"})

XpStepEntries(key, type) ==
  {<<"steps", key, "status">>} \cup
  (IF type \in DOMAIN XpOutputEntries
   THEN {<<"steps", key, "output", f>> : f \in XpOutputEntries[type]}
   ELSE {<<"steps", key, "output">>})

XpCatalog(flow) == XpBaseEntries \cup XpStepEntries(flow.key, flow.type)
-----------------------------------------------------------------------------
(* What the handlers return *)

XpUsage == XpObject([cost_usd |-> XpNumber])
XpHttpOutput ==
  [status |-> XpNumber, ok |-> XpBoolean,
   body |-> XpObject([id |-> XpString("i")])]
XpClassifyOutput ==
  [label |-> XpString("high"), confidence |-> XpNumber,
   reason |-> XpString("r"), usage |-> XpUsage]
XpExtractOutput ==
  [data |-> XpObject([name |-> XpString("n")]), usage |-> XpUsage]
XpSummaryOutput == [summary |-> XpString("s"), usage |-> XpUsage]
XpConditionalOutput == [passed |-> XpBoolean]
XpRecordOutput ==
  [recordId |-> XpString("r"), collection |-> XpString("c"),
   createdAt |-> XpDate]
XpEmailOutput ==
  [messageId |-> XpString("m"), accepted |-> XpArray(<<XpString("a")>>)]

XpGetOutput(hit) ==
  [found |-> XpBoolean, key |-> XpString("k"),
   value |-> IF hit THEN XpNumber ELSE XpNull,
   metadata |-> XpNull,
   version |-> IF hit THEN XpNumber ELSE XpNull,
   timestamps |-> XpNull]
XpUpsertOutput ==
  [created |-> XpBoolean, updated |-> XpBoolean, version |-> XpNumber,
   value |-> XpNumber]
XpDeleteOutput == [deleted |-> XpBoolean, existed |-> XpBoolean]
XpExistsOutput == [exists |-> XpBoolean]
XpCountOutput == [count |-> XpNumber]
XpListOutput ==
  [items |-> XpArray(<<XpObject([key |-> XpString("k")])>>),
   limit |-> XpNumber, offset |-> XpNumber, hasMore |-> XpBoolean]

XpOutput(flow) ==
  CASE flow.type = "http_request"             -> XpObject(XpHttpOutput)
    [] flow.type = "ai_classification"        -> XpObject(XpClassifyOutput)
    [] flow.type = "ai_structured_extraction" -> XpObject(XpExtractOutput)
    [] flow.type = "ai_summary"               -> XpObject(XpSummaryOutput)
    [] flow.type = "conditional"              -> XpObject(XpConditionalOutput)
    [] flow.type = "database_record"          -> XpObject(XpRecordOutput)
    [] flow.type = "email_notification"       -> XpObject(XpEmailOutput)
    [] flow.type = "data_store_get_record"    -> XpObject(XpGetOutput(flow.hit))
    [] flow.type = "data_store_upsert_record" -> XpObject(XpUpsertOutput)
    [] flow.type = "data_store_delete_record" -> XpObject(XpDeleteOutput)
    [] flow.type = "data_store_exists_record" -> XpObject(XpExistsOutput)
    [] flow.type = "data_store_count_records" -> XpObject(XpCountOutput)
    [] flow.type = "data_store_list_records"  -> XpObject(XpListOutput)
    [] OTHER                                  -> XpNumber

XpSkipOutput ==
  XpObject([skipped |-> XpBoolean, reason |-> XpString("reason")])

XpStepResult(flow, output) ==
  IF flow.skipped
  THEN XpObject([status |-> XpString("SKIPPED"), output |-> XpSkipOutput])
  ELSE XpObject([status |-> XpString("COMPLETED"), output |-> output])
-----------------------------------------------------------------------------
(* The scope of the expressions of a running step *)

XpTrigger(flow) ==
  CASE flow.trigger = "webhook" ->
         XpObject([body |-> flow.body, headers |-> XpObject(<<>>),
                   query |-> XpObject(<<>>), method |-> XpString("POST"),
                   receivedAt |-> XpString("t")])
    [] flow.trigger = "event" ->
         XpObject([event |-> XpObject([type |-> XpString("e"),
                                       data |-> XpObject(<<>>)])])

XpScope(flow, output) ==
  XpObject([
    trigger      |-> XpTrigger(flow),
    steps        |-> XpObject(flow.key :> XpStepResult(flow, output)),
    workflow     |-> XpObject([id |-> XpString("w"),
                               versionId |-> XpString("v"),
                               name |-> XpString("n"),
                               variables |-> XpObject(<<>>),
                               environment |-> XpObject(<<>>)]),
    execution    |-> XpObject([id |-> XpString("x"),
                               correlationId |-> XpString("c"),
                               retryOfExecutionId |-> XpNull,
                               startedAt |-> XpString("t"),
                               variables |-> XpObject(<<>>)]),
    variables    |-> XpObject(<<>>),
    system       |-> XpObject([now |-> XpString("t"),
                               executionMode |-> XpString("REAL")]),
    timestamp    |-> XpString("t"),
    organization |-> XpObject([id |-> XpString("o"), slug |-> XpString("s"),
                               variables |-> XpObject(<<>>)]),
    connection   |-> XpObject(IF flow.connected
                              THEN [id |-> XpString("c"),
                                    name |-> XpString("n"),
                                    type |-> XpString("HTTP")]
                              ELSE <<>>),
    metadata     |-> XpObject([executionId |-> XpString("x")])])

(* The output as it comes back from the row: a Date has become a string *)
XpPersisted(output) ==
  IF output[1] = "obj"
  THEN XpObject([k \in DOMAIN output[2] |->
                   IF output[2][k] = XpDate THEN XpString("t")
                   ELSE output[2][k]])
  ELSE output

(* These handlers resolve the configuration that the executor resolved     *)
(* once more, in legacy mode                                               *)
XpResolvesAgain == {"http_request", "email_notification", "conditional",
                    "database_record", "ai_classification",
                    "ai_structured_extraction", "ai_summary"}

XpResolve(flow, text, scope) ==
  LET value == XpResolveString(text, scope, flow.mode)
  IN IF flow.user \in XpResolvesAgain /\ value[1] # "error"
     THEN XpResolveValue(value, scope, "legacy") ELSE value
-----------------------------------------------------------------------------
XpSampleKeys == {"classify", "extract", "summary", "http", "save"}
XpSampleKey(type) ==
  CASE type = "ai_classification"        -> "classify"
    [] type = "ai_structured_extraction" -> "extract"
    [] type = "ai_summary"               -> "summary"
    [] type = "http_request"             -> "http"
    [] type = "database_record"          -> "save"
    [] OTHER                             -> "s1"

XpFlows ==
  {flow \in [type : XpTypes, user : XpUsers, key : {"s1", "s-1"} \cup XpSampleKeys,
             skipped : BOOLEAN, hit : BOOLEAN, mode : {"strict", "legacy"},
             trigger : {"webhook", "event"}, body : XpBodies,
             connected : BOOLEAN] :
     /\ flow.hit \/ (flow.type = "data_store_get_record" /\ ~flow.skipped)
     /\ flow.key = XpSampleKey(flow.type) \/ (flow.key = "s-1" /\ flow.type = "transform")
     /\ flow.connected = (flow.trigger = "event")
     /\ flow.trigger = "event" => flow.body = CHOOSE b \in XpBodies : TRUE}

XpInit ==
  /\ xpFlow \in XpFlows
  /\ xpField = <<>> /\ xpPicked = FALSE
  /\ xpShown = XpNothing /\ xpTried = XpNothing
  /\ xpSaved = "no"
  /\ xpUsed = XpNothing /\ xpReused = XpNothing

(* The author takes an entry of the catalog (VariablePicker) *)
XpPick(entry) ==
  /\ xpField = <<>>
  /\ entry \in XpCatalog(xpFlow)
  /\ xpField' = <<XpExpr(entry)>>
  /\ xpPicked' = TRUE
  /\ UNCHANGED <<xpFlow, xpShown, xpTried, xpSaved, xpUsed, xpReused>>

XpType(text) ==
  /\ xpField = <<>>
  /\ xpField' = text
  /\ UNCHANGED <<xpFlow, xpPicked, xpShown, xpTried, xpSaved, xpUsed,
                 xpReused>>

XpContext(keys, current) ==
  [available |-> keys, current |-> current, locals |-> {}]

XpWebPreview(text, keys) ==
  IF ~XpIncludesOpening(text) THEN "shown"
  ELSE IF XpValidateString(text, XpContext(keys, "none")) = {} THEN "shown"
  ELSE "refused"

XpPreviewWeb ==
  /\ xpField # <<>> /\ xpShown = XpNothing /\ xpSaved = "no"
  /\ xpShown' = <<XpWebPreview(xpField, {xpFlow.key})>>
  /\ UNCHANGED <<xpFlow, xpField, xpPicked, xpTried, xpSaved, xpUsed,
                 xpReused>>

(* POST /expressions/preview: a fixed sample, in strict mode *)
XpSampleScope ==
  LET step(output) == XpObject([status |-> XpString("COMPLETED"),
                                output |-> XpObject(output)])
  IN XpObject([
    trigger |-> XpObject([body |-> XpObject(<<>>), headers |-> XpObject(<<>>)]),
    workflow |-> XpObject([id |-> XpString("w"), versionId |-> XpString("v"),
                           name |-> XpString("n"),
                           variables |-> XpObject(<<>>)]),
    steps |-> XpObject([
      classify |-> step([category |-> XpString("high"),
                         confidence |-> XpNumber]),
      extract |-> step([data |-> XpObject(<<>>)]),
      summary |-> step([summary |-> XpString("s")]),
      http |-> step([status |-> XpNumber, ok |-> XpBoolean,
                     body |-> XpObject([ok |-> XpBoolean])]),
      save |-> step([recordId |-> XpString("r"), collection |-> XpString("c"),
                     createdAt |-> XpString("t")])]),
    execution |-> XpObject([id |-> XpString("x"),
                            correlationId |-> XpString("c"),
                            retryOfExecutionId |-> XpNull,
                            startedAt |-> XpString("t")]),
    organization |-> XpObject([id |-> XpString("o"), slug |-> XpString("s"),
                               variables |-> XpObject(<<>>)]),
    connection |-> XpObject([id |-> XpString("c"), name |-> XpString("n"),
                             type |-> XpString("HTTP"),
                             authScheme |-> XpString("API_KEY")]),
    metadata |-> XpObject([executionId |-> XpString("x")])])

XpApiPreview(text) ==
  LET context == XpContext(XpSampleKeys, "none")
      value == XpResolveString(text, XpSampleScope, "strict")
  IN IF XpValidateString(text, context) # {} THEN "refused"
     ELSE IF value[1] = "error" THEN "refused" ELSE "shown"

XpPreviewApi ==
  /\ xpField # <<>> /\ xpTried = XpNothing /\ xpSaved = "no"
  /\ xpTried' = <<XpApiPreview(xpField)>>
  /\ UNCHANGED <<xpFlow, xpField, xpPicked, xpShown, xpSaved, xpUsed,
                 xpReused>>

(* The version is saved: validateExpressions, with the graph's predecessors *)
XpSave ==
  /\ xpField # <<>> /\ xpSaved = "no"
  /\ xpSaved' = IF XpValidateValue(xpField, XpContext({xpFlow.key}, "user")) = {}
                THEN "accepted" ELSE "refused"
  /\ UNCHANGED <<xpFlow, xpField, xpPicked, xpShown, xpTried, xpUsed,
                 xpReused>>

XpRun ==
  /\ xpSaved = "accepted" /\ xpUsed = XpNothing
  /\ xpUsed' = XpResolve(xpFlow, xpField, XpScope(xpFlow, XpOutput(xpFlow)))
  /\ UNCHANGED <<xpFlow, xpField, xpPicked, xpShown, xpTried, xpSaved,
                 xpReused>>

(* The worker crashed; another one rebuilds the context from the rows *)
XpRunAgain ==
  /\ xpUsed # XpNothing /\ xpReused = XpNothing
  /\ xpReused' = XpResolve(xpFlow, xpField,
                           XpScope(xpFlow, XpPersisted(XpOutput(xpFlow))))
  /\ UNCHANGED <<xpFlow, xpField, xpPicked, xpShown, xpTried, xpSaved, xpUsed>>

XpNext ==
  \/ \E entry \in XpCatalog(xpFlow) : XpPick(entry)
  \/ \E text \in XpTyped : XpType(text)
  \/ XpPreviewWeb
  \/ XpPreviewApi
  \/ XpSave
  \/ XpRun
  \/ XpRunAgain

XpSpec == XpInit /\ [][XpNext]_xpVars
-----------------------------------------------------------------------------
(* Properties *)

XpKinds == {"str", "num", "bool", "null", "date", "obj", "arr", "error",
            "nothing"}

(* Types: a field that is run was accepted, and what the step works with   *)
(* is a JSON value or an error of the resolver, never a missing value.     *)
XpTypeOK ==
  /\ xpSaved \in {"no", "accepted", "refused"}
  /\ {xpShown, xpTried} \subseteq {XpNothing, <<"shown">>, <<"refused">>}
  /\ {xpUsed[1], xpReused[1]} \subseteq XpKinds
  /\ xpUsed # XpNothing => xpSaved = "accepted"

(* Names with a "-" and the bare namespace "variables" are offered and     *)
(* refused (parser.ts:60, catalog.ts:23)                                   *)
XpOffered == xpPicked /\ xpFlow.key # "s-1" /\ xpField[1][2] # <<"variables">>

(* What the catalog offers the validator accepts.                          *)
XpCatalogAccepted == XpOffered => xpSaved # "refused"

(* The entry says of a value that this execution has *)
XpProvided ==
  LET path == xpField[1][2]
  IN CASE path[1] = "steps"      -> ~xpFlow.skipped
       [] path[1] = "connection" -> xpFlow.connected
       [] path[1] = "trigger"    -> (path[2] = "event") = (xpFlow.trigger = "event")
       [] OTHER                  -> TRUE

(* The catalog's names for the output of a classification, which the AI    *)
(* gateway does not return (catalog.ts:48, ai-gateway.ts:78)               *)
XpMisnamed ==
  {<<"steps", "classify", "output", f>> : f \in {"category", "raw"}}

(* A "}}" in the field, or in the data that the field is given *)
XpBraces ==
  \/ \E i \in DOMAIN xpField : xpField[i] = XpClose
  \/ /\ xpFlow.trigger = "webhook"
     /\ \E k \in DOMAIN xpFlow.body[2] :
          LET v == xpFlow.body[2][k]
          IN v[1] = "obj" \/ (v[1] = "str" /\ \E i \in DOMAIN v[2] : v[2][i] = XpClose)

(* What the catalog offers of the trigger, the workflow, the connection    *)
(* and the steps that ran resolves in both modes: its names are those of   *)
(* the outputs of the handlers and of the context of the runner.           *)
XpCatalogResolves ==
  xpPicked /\ ~XpBraces =>
    \/ xpUsed[1] # "error"
    \/ ~XpProvided
    \/ xpField[1][2] \in XpMisnamed

(* A field that was accepted, and that meets no "}}", fails only in strict *)
(* mode and only because a path is not there.                              *)
XpAcceptedRuns ==
  xpUsed[1] = "error" /\ ~XpBraces => xpFlow.mode = "strict" /\ xpUsed[2] = "path"

(* The builder's preview and the API agree about every field.              *)
XpPreviewPredicts ==
  /\ xpShown = <<"shown">> => xpSaved # "refused"
  /\ xpShown = <<"refused">> => xpSaved # "accepted"

(* The API's preview shows what the catalog says of the steps of its       *)
(* sample: sample, catalog and validator name the same members.            *)
XpSampleShowsCatalog ==
  XpOffered /\ xpField[1][2][1] = "steps" /\ xpFlow.key \in XpSampleKeys =>
    xpTried # <<"refused">> \/ xpField[1][2] \in XpMisnamed

(* A step that is run again after a crash works with what it worked with   *)
(* before it, the date of a database record excepted: that is a Date in    *)
(* the first context and a string in the rebuilt one.                      *)
XpRerunAgrees ==
  xpReused # XpNothing =>
    \/ xpReused = xpUsed
    \/ \E i \in XpExpressions(xpField) :
         xpFlow.type = "database_record" /\ xpField[i][2][1] = "steps"

=============================================================================
