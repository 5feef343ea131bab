------------------------------ MODULE StepForms ------------------------------
(***************************************************************************)
(* One step of a workflow in the editor's form: the inputs each type shows,*)
(* what the two validations of the browser say of them, what the form is   *)
(* turned into when it is saved, what the API says of that, and what the   *)
(* form holds when the saved version is opened again                       *)
(* (apps/web/features/workflows: workflow-builder.ts, draft-validation.ts, *)
(* components/step-forms.tsx, components/control-step-forms.tsx;           *)
(* apps/api/src/workflows/workflows.service.ts).                           *)
(*                                                                         *)
(* A value is a tag that says what the program can tell of it: "txt" is a  *)
(* plain string, "exp" a string with an expression, "odd" a string that    *)
(* its field's pattern refuses, "jObj" the JSON text of an object and      *)
(* "obj" the object itself, "num" a number in its field's range and "NaN"  *)
(* what a number input holds once it has been emptied.                     *)
(***************************************************************************)
EXTENDS Naturals, FiniteSets, Sequences, TLC

CONSTANTS SfTypes,      \* the step types of the instance
          SfMaxEdits,   \* bound: inputs changed between two saves
          SfMaxChanges, \* bound: changes of the step's type
          SfMaxSaves    \* bound: saves

ASSUME SfAssumption == {SfMaxEdits, SfMaxChanges, SfMaxSaves} \subseteq Nat

VARIABLES sfType, sfForm,
          sfStored,   \* the configuration of the last saved version
          sfVerdict,  \* what became of the last attempt to save
          sfFresh,    \* the form was just loaded from sfStored
          sfEdits, sfChanges, sfSaves

sfVars == <<sfType, sfForm, sfStored, sfVerdict, sfFresh, sfEdits, sfChanges, sfSaves>>

(***************************** JavaScript values ***************************)
SfNotText == {"undef", "null", "NaN", "num", "zero", "true", "false", "obj0", "obj", "arr0", "arr",
              "roles", "noRoles", "noLabels", "noPaths"}
SfIsText(v) == v \notin SfNotText
SfBlank == {"undef", "null", ""}
SfFalsy == SfBlank \cup {"NaN", "zero", "false"}
SfGet(c, f) == IF f \in DOMAIN c THEN c[f] ELSE "undef"
\* c.f ?? d
SfOr(c, f, d) == IF SfGet(c, f) \in {"undef", "null"} THEN d ELSE c[f]

SfTexts == [obj0 |-> "jObj0", obj |-> "jObj", arr0 |-> "jArr0", arr |-> "jArr", null |-> "jNull", num |-> "jNum",
            zero |-> "jZero", true |-> "jTrue", false |-> "jFalse", txt |-> "jStr", exp |-> "jExp"]
\* JSON.stringify, and JSON.parse of what String makes of a value
SfStringify(v) == SfTexts[v]
SfParse(v) == LET t == {k \in DOMAIN SfTexts : SfTexts[k] = v}
              IN  IF t = {} THEN "throw" ELSE CHOOSE k \in t : TRUE
SfString(v) == IF SfIsText(v) THEN v
               ELSE IF v \in {"null", "num", "zero", "true", "false"} THEN SfTexts[v] ELSE "txt"
SfNumber(v) == CASE v \in {"num", "jNum"} -> "num"
                 [] v \in {"", "null", "zero", "jZero"} -> "zero"
                 [] OTHER -> "NaN"
\* what the body of a request keeps of a configuration
SfWire(cfg) == [f \in DOMAIN cfg |-> IF cfg[f] = "NaN" THEN "null" ELSE cfg[f]]
SfMaybe(present, f, v) == IF present THEN f :> v ELSE <<>>

(***************************** types and defaults **************************)
SfAi == {"ai_classification", "ai_structured_extraction", "ai_summary"}
SfKeyed == {"data_store_get_record", "data_store_upsert_record", "data_store_delete_record", "data_store_exists_record"}
SfListed == {"data_store_count_records", "data_store_list_records"}
SfDataStore == SfKeyed \cup SfListed
SfValued == {"set_variable", "append_variable"}
SfVariable == SfValued \cup {"get_variable", "delete_variable", "increment_variable"}
SfRouting == {"trueStepKey", "falseStepKey", "defaultStepKey", "bodyStepKey", "doneStepKey", "catchStepKey",
              "finallyStepKey", "approvedStepKey", "rejectedStepKey", "expiredStepKey"}

SfNoStore == [dataStoreId |-> "", dataStoreName |-> ""]
SfDefault(type) ==
  CASE type = "http_request" -> [connectionId |-> "", method |-> "GET", url |-> "", headers |-> "jObj0", body |-> ""]
    [] type = "ai_classification" -> [text |-> "", labels |-> "txt", provider |-> "txt"]
    [] type = "ai_structured_extraction" -> [text |-> "", schema |-> "jObj0", provider |-> "txt"]
    [] type = "ai_summary" -> [text |-> "", max_words |-> "num", provider |-> "txt"]
    [] type = "email_notification" -> [connectionId |-> "", to |-> "", subject |-> "", text |-> ""]
    [] type = "database_record" -> [collection |-> "", data |-> "jObj0"]
    [] type = "data_store_get_record" -> SfNoStore @@ [key |-> "", failIfMissing |-> "false"]
    [] type = "data_store_upsert_record" ->
         SfNoStore @@ [key |-> "", value |-> "jObj0", metadata |-> "jObj0", ttlSeconds |-> "", mode |-> "replace",
                       optimisticConcurrency |-> "false", expectedVersion |-> ""]
    [] type \in {"data_store_delete_record", "data_store_exists_record"} -> SfNoStore @@ [key |-> ""]
    [] type = "data_store_count_records" -> SfNoStore @@ [keyPrefix |-> ""]
    [] type = "data_store_list_records" ->
         SfNoStore @@ [keyPrefix |-> "", limit |-> "num", offset |-> "zero", sortBy |-> "key", direction |-> "asc"]
    [] type \in SfValued ->
         [scope |-> "execution", name |-> "txt", valueKind |-> "literal", valueType |-> "string", value |-> "", expression |-> ""]
    [] type \in {"get_variable", "delete_variable"} -> [scope |-> "execution", name |-> "txt"]
    [] type = "increment_variable" -> [scope |-> "execution", name |-> "txt", amount |-> "num", amountExpression |-> ""]
    [] type = "transform" ->
         [mode |-> "OBJECT", fields |-> "jObj", source |-> "exp", paths |-> "txt", template |-> "jObj",
          condition |-> "exp", mergeSources |-> "jArr", conflictPolicy |-> "LAST_WINS", outputType |-> "AUTO"]
    [] type = "conditional" -> [left |-> "", operator |-> "equals", right |-> "", skipNextOnFalse |-> "true"]
    [] type = "if" -> [left |-> "", operator |-> "equals", right |-> "", trueStepKey |-> "", falseStepKey |-> ""]
    [] type = "switch" -> [value |-> "", defaultStepKey |-> ""]
    [] type = "for_each" ->
         [source |-> "exp", itemVariable |-> "", indexVariable |-> "", mode |-> "SEQUENTIAL", concurrency |-> "num",
          continueOnError |-> "false", maxItems |-> "num", collectResults |-> "true", maxResults |-> "num",
          bodyStepKey |-> "", doneStepKey |-> ""]
    [] type = "try_catch" -> [bodyStepKey |-> "", catchStepKey |-> "", finallyStepKey |-> "", doneStepKey |-> ""]
    [] type = "execute_workflow" ->
         [workflowId |-> "", versionPolicy |-> "PUBLISHED", workflowVersionId |-> "", input |-> "jObj0", timeoutSeconds |-> "num"]
    [] type = "return_workflow_output" -> [output |-> "jObj0"]
    [] type = "delay" -> [duration |-> "txt"]
    [] type = "wait_until" -> [timestamp |-> ""]
    [] type = "approval" ->
         [title |-> "txt", description |-> "", summary |-> "", expirationSeconds |-> "", assigneePolicy |-> "ANY",
          allowedRoles |-> "roles", approvedStepKey |-> "", rejectedStepKey |-> "", expiredStepKey |-> ""]

SfCompatible(type, current) ==
  [f \in DOMAIN SfDefault(type) |-> IF f \in DOMAIN current THEN current[f] ELSE SfDefault(type)[f]]

(********************************** the inputs *****************************)
SfPaths(mode) == IF mode \in {"PICK", "OMIT"} THEN {"paths"} ELSE {}
SfHttpForm == {"connectionId", "method", "url", "headers", "body"}
SfAiForm(type) == {"provider", "text"} \cup (CASE type = "ai_summary" -> {"max_words"}
                                              [] type = "ai_classification" -> {"labels"}
                                              [] OTHER -> {"schema"})
SfEmailForm == {"connectionId", "to", "subject", "text"}
SfDatabaseForm == {"collection", "data"}
SfDataStoreForm(type) ==
  {"dataStoreId"} \cup (IF type \in SfKeyed THEN {"key"} ELSE {"keyPrefix"})
  \cup (CASE type = "data_store_get_record" -> {"failIfMissing"}
          [] type = "data_store_upsert_record" ->
               {"mode", "ttlSeconds", "optimisticConcurrency", "expectedVersion", "value", "metadata"}
          [] type = "data_store_list_records" -> {"limit", "offset", "sortBy", "direction"}
          [] OTHER -> {})
SfVariableForm(type, c) ==
  {"scope", "name"} \cup (IF type = "increment_variable" THEN {"amount", "amountExpression"} ELSE {})
  \cup (IF type \notin SfValued THEN {}
        ELSE {"valueKind"} \cup IF SfOr(c, "valueKind", "literal") = "expression" THEN {"expression"} ELSE {"valueType", "value"})
SfConditionalForm == {"left", "operator", "right", "skipNextOnFalse"}
SfTransformForm(c) ==
  LET mode == SfString(SfOr(c, "mode", "OBJECT"))
  IN  {"mode", "outputType"} \cup SfPaths(mode)
      \cup (IF mode \in {"PICK", "OMIT", "MAP_ARRAY", "FILTER_ARRAY"} THEN {"source"} ELSE {})
      \cup (CASE mode = "OBJECT" -> {"fields"} [] mode = "MAP_ARRAY" -> {"template"} [] mode = "FILTER_ARRAY" -> {"condition"}
              [] mode = "MERGE" -> {"mergeSources", "conflictPolicy"} [] OTHER -> {})
SfIfForm == {"left", "operator", "right", "trueStepKey", "falseStepKey"}
SfSwitchForm == {"value", "defaultStepKey"}
\* the select of the mode is disabled and the concurrency is not an input of the form
SfForEachForm == {"source", "itemVariable", "indexVariable", "maxItems", "continueOnError", "collectResults", "maxResults"}
SfTryCatchForm == {"bodyStepKey", "catchStepKey", "finallyStepKey", "doneStepKey"}
SfExecuteForm(c) == {"workflowId", "versionPolicy", "input", "timeoutSeconds"}
                    \cup (IF SfOr(c, "versionPolicy", "PUBLISHED") = "PINNED_VERSION" THEN {"workflowVersionId"} ELSE {})
SfApprovalForm == {"title", "description", "summary", "expirationSeconds", "allowedRoles"}

\* the fields that the form of a step shows an input for
SfShown(type, c) ==
  CASE type = "http_request" -> SfHttpForm
    [] type \in SfAi -> SfAiForm(type)
    [] type = "email_notification" -> SfEmailForm
    [] type = "database_record" -> SfDatabaseForm
    [] type \in SfDataStore -> SfDataStoreForm(type)
    [] type \in SfVariable -> SfVariableForm(type, c)
    [] type = "conditional" -> SfConditionalForm
    [] type = "transform" -> SfTransformForm(c)
    [] type = "if" -> SfIfForm
    [] type = "switch" -> SfSwitchForm
    [] type = "for_each" -> SfForEachForm
    [] type = "try_catch" -> SfTryCatchForm
    [] type = "execute_workflow" -> SfExecuteForm(c)
    [] type = "return_workflow_output" -> {"output"}
    [] type = "delay" -> {"duration"}
    [] type = "wait_until" -> {"timestamp"}
    [] type = "approval" -> SfApprovalForm

SfNumberInputs == {"max_words", "limit", "offset", "amount", "maxItems", "maxResults", "timeoutSeconds", "expirationSeconds"}
SfChecks == {"failIfMissing", "optimisticConcurrency", "skipNextOnFalse", "continueOnError", "collectResults"}
SfJsonAreas == {"headers", "body", "schema", "data", "metadata", "template", "mergeSources", "input", "output"}
SfSelects ==
  [method |-> {"GET", "POST"}, sortBy |-> {"key", "createdAt"}, direction |-> {"asc", "desc"},
   scope |-> {"execution", "workflow"}, valueKind |-> {"literal", "expression"},
   valueType |-> {"string", "number", "boolean", "null", "json"}, operator |-> {"equals", "contains"},
   outputType |-> {"AUTO", "STRING"}, conflictPolicy |-> {"LAST_WINS", "ERROR"},
   versionPolicy |-> {"PUBLISHED", "PINNED_VERSION"}, allowedRoles |-> {"roles", "noRoles"}]

\* what an input of the form can be given
SfValues(type, f) ==
  CASE f \in SfNumberInputs -> {"num", "NaN"}
    [] f \in {"ttlSeconds", "expectedVersion"} -> {"", "jNum"}
    [] f \in SfChecks -> {"true", "false"}
    [] f \in SfJsonAreas -> {"", "txt", "exp", "jObj", "jArr", "jNull"}
    [] f = "fields" -> {"jObj0", "jObj"}
    [] f = "value" -> IF type = "data_store_upsert_record" THEN {"", "txt", "jObj", "jNull", "jStr"}
                      ELSE {"", "txt", "exp", "jNum", "jTrue", "jObj"}
    [] f = "mode" -> IF type = "data_store_upsert_record" THEN {"replace", "merge"}
                     ELSE {"OBJECT", "PICK", "MAP_ARRAY", "FILTER_ARRAY", "MERGE"}
    [] f \in DOMAIN SfSelects -> SfSelects[f]
    [] f \in {"collection", "name", "paths", "duration", "timestamp"} -> {"", "txt", "odd"}
    [] f \in SfRouting \cup {"connectionId", "dataStoreId", "workflowId", "workflowVersionId"} -> {"", "txt"}
    [] OTHER -> {"", "txt", "exp"}

(****************************** from form to definition ********************)
\* a field that the code fails to convert is "throw": the whole conversion throws
SfParseJson(v, fallback) == IF v \in SfBlank THEN fallback ELSE SfParse(SfString(v))
SfParseObject(v) == LET p == SfParseJson(v, "obj0") IN IF p \in {"obj0", "obj", "throw"} THEN p ELSE "obj0"
SfParseArray(v) == LET p == SfParseJson(v, "obj0") IN IF p \in {"arr", "throw"} THEN p ELSE "arr0"
SfParseOrExpression(v) == IF SfParseJson(v, "null") = "throw" /\ v = "exp" THEN v ELSE SfParseJson(v, "null")
SfStr(c, f) == SfString(SfOr(c, f, ""))
SfCheck(v) == IF v = "true" THEN "true" ELSE "false"

SfHttpConfig(c) ==
  [method |-> SfString(SfOr(c, "method", "GET")), url |-> SfStr(c, "url"), headers |-> SfParseObject(SfGet(c, "headers"))]
  @@ SfMaybe(SfGet(c, "connectionId") \notin SfFalsy, "connectionId", SfStr(c, "connectionId"))
  @@ SfMaybe(SfGet(c, "body") \notin SfFalsy, "body", SfParse(SfStr(c, "body")))
SfAiConfig(type, c) ==
  [text |-> SfStr(c, "text"), provider |-> SfString(SfOr(c, "provider", "txt"))]
  @@ (CASE type = "ai_classification" -> [labels |-> IF SfStr(c, "labels") = "" THEN "noLabels" ELSE SfStr(c, "labels")]
        [] type = "ai_structured_extraction" -> [schema |-> SfParseObject(SfGet(c, "schema"))]
        [] OTHER -> [max_words |-> SfNumber(SfOr(c, "max_words", "num"))])
SfEmailConfig(c) ==
  [to |-> SfStr(c, "to"), subject |-> SfStr(c, "subject"), text |-> SfStr(c, "text")]
  @@ SfMaybe(SfGet(c, "connectionId") \notin SfFalsy, "connectionId", SfStr(c, "connectionId"))
SfStoreOf(c) == SfMaybe(c.dataStoreId \notin SfFalsy, "dataStoreId", SfStr(c, "dataStoreId"))
                @@ SfMaybe(c.dataStoreName \notin SfFalsy, "dataStoreName", SfStr(c, "dataStoreName"))
SfGiven(c, f) == SfMaybe(SfGet(c, f) \notin {"", "undef"}, f, SfNumber(SfGet(c, f)))
SfUpsertConfig(c) ==
  [key |-> SfStr(c, "key"), value |-> SfParseJson(SfGet(c, "value"), "obj0"), metadata |-> SfParseObject(SfGet(c, "metadata")),
   mode |-> IF SfGet(c, "mode") = "merge" THEN "merge" ELSE "replace",
   optimisticConcurrency |-> SfCheck(SfGet(c, "optimisticConcurrency"))]
  @@ SfGiven(c, "ttlSeconds") @@ SfGiven(c, "expectedVersion")
SfDataStoreConfig(type, c) ==
  SfStoreOf(c)
  @@ (CASE type = "data_store_get_record" -> [key |-> SfStr(c, "key"), failIfMissing |-> SfCheck(SfGet(c, "failIfMissing"))]
        [] type = "data_store_upsert_record" -> SfUpsertConfig(c)
        [] type \in {"data_store_delete_record", "data_store_exists_record"} -> [key |-> SfStr(c, "key")]
        [] type = "data_store_count_records" -> [keyPrefix |-> SfStr(c, "keyPrefix")]
        [] OTHER -> [keyPrefix |-> SfStr(c, "keyPrefix"), limit |-> SfNumber(SfOr(c, "limit", "num")),
                     offset |-> SfNumber(SfOr(c, "offset", "zero")), sortBy |-> SfString(SfOr(c, "sortBy", "key")),
                     direction |-> SfString(SfOr(c, "direction", "asc"))])
SfLiteral(v, type) ==
  CASE type = "number" -> SfNumber(IF v \in {"undef", "null"} THEN "zero" ELSE v)
    [] type = "boolean" -> IF v \in {"true", "jTrue"} THEN "true" ELSE "false"
    [] type = "null" -> "null"
    [] type = "json" -> SfParseJson(v, "obj0")
    [] OTHER -> IF v \in {"undef", "null"} THEN "" ELSE SfString(v)
SfVariableBase(c) == [scope |-> IF SfGet(c, "scope") = "workflow" THEN "workflow" ELSE "execution", name |-> SfStr(c, "name")]
SfVariableValue(c) ==
  IF SfGet(c, "valueKind") = "expression" \/ SfGet(c, "expression") \notin SfFalsy
  THEN [expression |-> SfStr(c, "expression")]
  ELSE [value |-> SfLiteral(SfGet(c, "value"), SfString(SfOr(c, "valueType", "string")))]
SfVariableConfig(type, c) ==
  SfVariableBase(c)
  @@ (CASE type \in SfValued -> SfVariableValue(c)
        [] type = "increment_variable" ->
             (IF SfGet(c, "amountExpression") \notin SfFalsy THEN [amountExpression |-> SfStr(c, "amountExpression")]
              ELSE [amount |-> SfNumber(SfOr(c, "amount", "num"))])
        [] OTHER -> <<>>)
SfTransformConfig(c) ==
  LET mode == SfString(SfOr(c, "mode", "OBJECT"))
  IN  [configVersion |-> "num", mode |-> mode, outputType |-> SfString(SfOr(c, "outputType", "AUTO"))]
      @@ (CASE mode = "OBJECT" -> [fields |-> SfParseObject(SfGet(c, "fields"))]
            [] mode \in {"PICK", "OMIT"} ->
                 [source |-> SfStr(c, "source"), paths |-> IF SfStr(c, "paths") = "" THEN "noPaths" ELSE SfStr(c, "paths")]
            [] mode = "MAP_ARRAY" ->
                 [source |-> SfStr(c, "source"), template |-> SfParseJson(SfGet(c, "template"), "obj0"), itemVariable |-> "item"]
            [] mode = "FILTER_ARRAY" -> [source |-> SfStr(c, "source"), condition |-> SfStr(c, "condition"), itemVariable |-> "item"]
            [] mode = "MERGE" ->
                 [mergeSources |-> SfParseArray(SfGet(c, "mergeSources")), conflictPolicy |-> SfString(SfOr(c, "conflictPolicy", "LAST_WINS"))]
            [] OTHER -> <<>>)
SfCompareConfig(c) == [left |-> SfStr(c, "left"), operator |-> SfString(SfOr(c, "operator", "equals")), right |-> SfStr(c, "right")]
SfForEachConfig(c) ==
  [source |-> SfGet(c, "source"), itemVariable |-> SfStr(c, "itemVariable"), indexVariable |-> SfStr(c, "indexVariable"),
   mode |-> "SEQUENTIAL", concurrency |-> "num", continueOnError |-> SfCheck(SfGet(c, "continueOnError")),
   maxItems |-> SfNumber(SfOr(c, "maxItems", "num")), maxResults |-> SfNumber(SfOr(c, "maxResults", "num")),
   collectResults |-> IF SfGet(c, "collectResults") = "false" THEN "false" ELSE "true",
   bodyStepKey |-> SfStr(c, "bodyStepKey"), doneStepKey |-> SfStr(c, "doneStepKey")]
SfTryConfig(c) ==
  [bodyStepKey |-> SfStr(c, "bodyStepKey"), catchStepKey |-> SfStr(c, "catchStepKey"), doneStepKey |-> SfStr(c, "doneStepKey")]
  @@ SfMaybe(SfGet(c, "finallyStepKey") \notin SfFalsy, "finallyStepKey", SfStr(c, "finallyStepKey"))

SfExecuteConfig(c) ==
  [workflowId |-> SfStr(c, "workflowId"), versionPolicy |-> SfString(SfOr(c, "versionPolicy", "PUBLISHED")),
   input |-> SfParseOrExpression(SfGet(c, "input")), timeoutSeconds |-> SfNumber(SfOr(c, "timeoutSeconds", "num"))]
  @@ SfMaybe(SfGet(c, "versionPolicy") = "PINNED_VERSION", "workflowVersionId", SfStr(c, "workflowVersionId"))
SfApprovalConfig(c) ==
  [title |-> SfStr(c, "title"), description |-> SfStr(c, "description"), summary |-> SfStr(c, "summary"),
   assigneePolicy |-> "ANY", allowedRoles |-> SfGet(c, "allowedRoles")]
  @@ SfMaybe(SfGet(c, "expirationSeconds") \notin SfFalsy, "expirationSeconds", SfNumber(SfGet(c, "expirationSeconds")))

SfSerialize(type, c) ==
  CASE type = "http_request" -> SfHttpConfig(c)
    [] type \in SfAi -> SfAiConfig(type, c)
    [] type = "email_notification" -> SfEmailConfig(c)
    [] type = "database_record" -> [collection |-> SfStr(c, "collection"), data |-> SfParseObject(SfGet(c, "data"))]
    [] type \in SfDataStore -> SfDataStoreConfig(type, c)
    [] type \in SfVariable -> SfVariableConfig(type, c)
    [] type = "transform" -> SfTransformConfig(c)
    [] type = "conditional" -> SfCompareConfig(c) @@ [skipNextOnFalse |-> SfCheck(SfGet(c, "skipNextOnFalse"))]
    [] type = "if" -> SfCompareConfig(c) @@ [trueStepKey |-> SfStr(c, "trueStepKey"), falseStepKey |-> SfStr(c, "falseStepKey")]
    [] type = "switch" -> [value |-> SfStr(c, "value"), defaultStepKey |-> SfStr(c, "defaultStepKey")]
    [] type = "for_each" -> SfForEachConfig(c)
    [] type = "try_catch" -> SfTryConfig(c)
    [] type = "execute_workflow" -> SfExecuteConfig(c)
    [] type = "return_workflow_output" -> [output |-> SfParseOrExpression(SfGet(c, "output"))]
    [] type = "delay" -> [duration |-> SfStr(c, "duration")]
    [] type = "wait_until" -> [timestamp |-> SfStr(c, "timestamp")]
    [] type = "approval" -> SfApprovalConfig(c)

SfThrows(cfg) == \E f \in DOMAIN cfg : cfg[f] = "throw"

(************************************ validation ***************************)
SfMissing(c, fs) == {f \in fs : ~SfIsText(SfGet(c, f)) \/ SfGet(c, f) = ""}
SfBadJson(c, fs) == {f \in fs : SfGet(c, f) \notin SfBlank /\ SfParse(SfString(c[f])) = "throw"}
SfBadObject(c, fs) == {f \in fs : SfGet(c, f) \notin SfBlank /\ SfParse(SfString(c[f])) \notin {"obj0", "obj"}}
SfNoObject(c, fs) == {f \in fs : SfGet(c, f) \in SfBlank} \cup SfBadObject(c, fs)
SfIf(bad, f) == IF bad THEN {f} ELSE {}
SfConnection(c) == IF SfGet(c, "legacyConnectionMode") = "true" THEN {} ELSE {"connectionId"}

\* validateTransformStepConfig, of both sides
SfTransformFaults(cfg) ==
  LET mode == SfGet(cfg, "mode")
  IN  IF mode \notin {"OBJECT", "PICK", "OMIT", "MAP_ARRAY", "FILTER_ARRAY", "MERGE"} THEN {"mode"}
      ELSE SfIf(mode = "OBJECT" /\ SfGet(cfg, "fields") \notin {"obj0", "obj"}, "fields")
           \cup SfIf(mode = "OBJECT" /\ SfGet(cfg, "outputType") = "STRING", "outputType")
           \cup SfIf(mode \in {"PICK", "OMIT"} /\ SfGet(cfg, "paths") \in {"noPaths", "odd"}, "paths")
           \cup SfIf(mode = "MERGE" /\ SfGet(cfg, "mergeSources") # "arr", "mergeSources")
\* normalizeApprovalConfig, of both sides
SfApprovalFaults(c) ==
  SfIf(~SfIsText(c.title) \/ c.title = "", "title")
  \cup SfIf(SfGet(c, "expirationSeconds") \notin SfBlank \cup {"num"}, "expirationSeconds")
  \cup SfIf(c.allowedRoles = "noRoles", "allowedRoles")

\* the schema of the form
SfSchemaFaults(type, c) ==
  CASE type = "http_request" -> SfMissing(c, SfConnection(c) \cup {"url"}) \cup SfBadObject(c, {"headers"}) \cup SfBadJson(c, {"body"})
    [] type \in SfAi -> SfMissing(c, {"text"}) \cup (IF type = "ai_structured_extraction" THEN SfBadObject(c, {"schema"}) ELSE {})
    [] type = "email_notification" -> SfMissing(c, SfConnection(c) \cup {"to", "subject", "text"})
    [] type = "database_record" -> SfMissing(c, {"collection"}) \cup SfIf(c.collection = "odd", "collection") \cup SfNoObject(c, {"data"})
    [] type \in SfDataStore ->
         SfIf(c.dataStoreName = "" /\ c.dataStoreId = "", "dataStoreId")
         \cup (IF type \in SfKeyed THEN SfMissing(c, {"key"}) ELSE {})
         \cup (IF type = "data_store_upsert_record" THEN SfBadJson(c, {"value"}) \cup SfBadObject(c, {"metadata"}) ELSE {})
    [] type = "transform" ->
         LET cfg == SfTransformConfig(c) IN SfTransformFaults(IF SfThrows(cfg) THEN <<>> ELSE cfg)
    [] type = "conditional" -> SfMissing(c, {"left"})
    [] type = "if" -> SfMissing(c, {"left", "trueStepKey", "falseStepKey"})
    [] type = "switch" -> SfMissing(c, {"value", "defaultStepKey"})
    [] type = "for_each" -> SfMissing(c, {"source"}) \cup SfIf(c.mode # "SEQUENTIAL", "mode") \cup SfIf(c.concurrency # "num", "concurrency")
    [] type = "try_catch" -> SfMissing(c, {"bodyStepKey", "catchStepKey", "doneStepKey"})
    [] type = "execute_workflow" ->
         SfMissing(c, {"workflowId"} \cup IF c.versionPolicy = "PINNED_VERSION" THEN {"workflowVersionId"} ELSE {})
    [] type = "delay" -> SfMissing(c, {"duration"}) \cup SfIf(c.duration = "odd", "duration")
    [] type = "wait_until" -> SfMissing(c, {"timestamp"}) \cup SfIf(c.timestamp = "odd", "timestamp")
    [] type = "approval" -> SfApprovalFaults(c)
    [] OTHER -> {}

\* what the validation of the draft adds to it
SfDraftFaults(type, c) ==
  CASE type = "execute_workflow" -> IF c.input = "exp" THEN {} ELSE SfBadJson(c, {"input"})
    [] type = "return_workflow_output" -> IF c.output = "exp" THEN {} ELSE SfBadJson(c, {"output"})
    [] type = "data_store_upsert_record" -> SfIf(c.value \in SfBlank, "value") \cup SfBadJson(c, {"value"})
    [] type \in SfVariable ->
         SfIf(c.name \in {"", "odd"}, "name")
         \cup SfIf(type \in SfValued /\ SfGet(c, "expression") \in SfBlank /\ c.value \in {"undef", "NaN"}, "value")
         \cup SfIf(type = "increment_variable" /\ c.amountExpression = "" /\ SfNumber(SfOr(c, "amount", "num")) = "NaN", "amount")
    [] OTHER -> {}

\* what the validation of the graph, of both sides, says of a step's own configuration
SfGraphFaults(type, cfg) ==
  CASE type = "approval" -> SfApprovalFaults(cfg)
    [] type = "for_each" ->
         SfIf(SfGet(cfg, "source") \in SfBlank, "source") \cup SfIf(SfGet(cfg, "mode") # "SEQUENTIAL", "mode")
         \cup SfIf(SfNumber(SfOr(cfg, "maxItems", "num")) = "NaN", "maxItems")
         \cup SfIf(SfNumber(SfOr(cfg, "maxResults", "num")) = "NaN", "maxResults")
    [] type = "execute_workflow" ->
         SfIf(cfg.workflowId = "", "workflowId") \cup SfIf(SfNumber(SfOr(cfg, "timeoutSeconds", "num")) # "num", "timeoutSeconds")
         \cup SfIf(cfg.versionPolicy = "PINNED_VERSION" /\ SfGet(cfg, "workflowVersionId") \in SfBlank, "workflowVersionId")
    [] type = "delay" -> SfIf(cfg.duration \in {"", "odd"}, "duration")
    [] type = "wait_until" -> SfIf(cfg.timestamp \in {"", "odd"}, "timestamp")
    [] OTHER -> {}

\* what keeps a form from being sent
SfFaults(type, c) ==
  LET cfg == SfSerialize(type, c)
  IN  SfSchemaFaults(type, c) \cup SfDraftFaults(type, c) \cup SfGraphFaults(type, IF SfThrows(cfg) THEN c ELSE cfg)

SfVariableRefused(type, cfg) ==
  \/ cfg.scope \notin {"execution", "workflow"} \/ cfg.name \in {"", "odd"}
  \/ type \in SfValued /\ "value" \notin DOMAIN cfg /\ SfGet(cfg, "expression") \in SfBlank
  \/ type = "increment_variable" /\ SfGet(cfg, "amount") # "undef" /\ SfNumber(cfg.amount) = "NaN"
SfDataStoreRefused(type, cfg) ==
  \/ SfGet(cfg, "dataStoreId") \in SfBlank /\ SfGet(cfg, "dataStoreName") \in SfBlank
  \/ type \in SfKeyed /\ cfg.key = ""
  \/ type = "data_store_upsert_record" /\ cfg.metadata \notin {"obj0", "obj", "null", ""}
  \/ type = "data_store_upsert_record" /\ SfGet(cfg, "ttlSeconds") \notin SfBlank /\ SfNumber(cfg.ttlSeconds) = "NaN"
  \/ type = "data_store_list_records" /\ cfg.limit \notin {"num", "null"}
  \/ type = "data_store_list_records" /\ cfg.offset \notin {"num", "zero", "null"}
SfExecuteRefused(cfg) ==
  \/ cfg.workflowId = "" \/ cfg.versionPolicy \notin {"PUBLISHED", "PINNED_VERSION"}
  \/ cfg.versionPolicy = "PINNED_VERSION" /\ SfGet(cfg, "workflowVersionId") \in SfBlank
  \/ "timeoutSeconds" \in DOMAIN cfg /\ SfNumber(cfg.timeoutSeconds) # "num"

\* the API refuses a version with such a step
SfRefused(type, cfg) ==
  \/ SfGraphFaults(type, cfg) # {}
  \/ type = "transform" /\ SfTransformFaults(cfg) # {}
  \/ type \in SfDataStore /\ SfDataStoreRefused(type, cfg)
  \/ type \in SfVariable /\ SfVariableRefused(type, cfg)
  \/ type = "execute_workflow" /\ SfExecuteRefused(cfg)

(****************************** from definition to form ********************)
SfJsonOf(cfg, f, d) == SfStringify(SfOr(cfg, f, d))

SfLoadedBody(cfg) == IF SfGet(cfg, "body") = "undef" THEN "" ELSE SfStringify(cfg.body)

\* the fields that are not just copied over the defaults
SfConverted(type, cfg) ==
  LET legacy == [legacyConnectionMode |-> IF SfGet(cfg, "connectionId") \in SfFalsy THEN "true" ELSE "false"]
  IN  CASE type = "http_request" -> legacy @@ [headers |-> SfJsonOf(cfg, "headers", "obj0"), body |-> SfLoadedBody(cfg)]
        [] type = "database_record" -> [data |-> SfJsonOf(cfg, "data", "obj0")]
        [] type = "data_store_upsert_record" -> [value |-> SfJsonOf(cfg, "value", "obj0"), metadata |-> SfJsonOf(cfg, "metadata", "obj0")]
        [] type = "transform" ->
             [fields |-> SfJsonOf(cfg, "fields", "obj0"), template |-> SfJsonOf(cfg, "template", "obj0"),
              mergeSources |-> SfJsonOf(cfg, "mergeSources", "arr0"), paths |-> IF "paths" \in DOMAIN cfg THEN cfg.paths ELSE "txt"]
        [] type = "ai_structured_extraction" -> [schema |-> SfJsonOf(cfg, "schema", "obj0")]
        [] type = "ai_classification" -> [labels |-> IF cfg.labels = "noLabels" THEN "" ELSE cfg.labels]
        [] type = "email_notification" -> legacy
        [] type = "execute_workflow" -> [input |-> SfJsonOf(cfg, "input", "obj0")]
        [] type = "return_workflow_output" -> [output |-> SfJsonOf(cfg, "output", "null")]
        [] OTHER -> <<>>
SfLoad(type, cfg) == SfConverted(type, cfg) @@ cfg @@ SfDefault(type)

(************************************ actions ******************************)
\* a new step, and one whose empty inputs have been given a text
SfFilled(t) ==
  [f \in DOMAIN SfDefault(t) |->
     IF SfDefault(t)[f] = "" /\ f \in SfShown(t, SfDefault(t)) \ SfJsonAreas /\ "txt" \in SfValues(t, f) THEN "txt" ELSE SfDefault(t)[f]]

SfInit == /\ \E t \in SfTypes : sfType = t /\ sfForm \in {SfDefault(t), SfFilled(t)}
          /\ sfStored = <<>> /\ sfVerdict = "none" /\ sfFresh = FALSE
          /\ sfEdits = 0 /\ sfChanges = 0 /\ sfSaves = 0

SfEdit(f, v) ==
  /\ sfEdits < SfMaxEdits /\ sfForm[f] # v
  /\ sfForm' = [sfForm EXCEPT ![f] = v]
  /\ sfEdits' = sfEdits + 1 /\ sfFresh' = FALSE /\ sfVerdict' = "none"
  /\ UNCHANGED <<sfType, sfStored, sfChanges, sfSaves>>

SfChangeType(t) ==
  /\ sfChanges < SfMaxChanges /\ t # sfType
  /\ sfType' = t /\ sfForm' = SfCompatible(t, sfForm)
  /\ sfChanges' = sfChanges + 1 /\ sfFresh' = FALSE /\ sfVerdict' = "none" /\ sfStored' = <<>>
  /\ UNCHANGED <<sfEdits, sfSaves>>

SfSubmit ==
  LET cfg == SfSerialize(sfType, sfForm)
  IN  /\ sfSaves < SfMaxSaves /\ sfVerdict = "none"
      /\ sfVerdict' = IF SfFaults(sfType, sfForm) # {} THEN "invalid"
                      ELSE IF SfThrows(cfg) THEN "threw"
                      ELSE IF SfRefused(sfType, SfWire(cfg)) THEN "refused" ELSE "saved"
      /\ sfStored' = IF sfVerdict' = "saved" THEN SfWire(cfg) ELSE sfStored
      /\ sfSaves' = sfSaves + 1
      /\ UNCHANGED <<sfType, sfForm, sfFresh, sfEdits, sfChanges>>

\* after a save the editor shows the new version
SfReopen ==
  /\ sfVerdict = "saved" /\ sfForm' = SfLoad(sfType, sfStored)
  /\ sfFresh' = TRUE /\ sfVerdict' = "none" /\ sfEdits' = 0
  /\ UNCHANGED <<sfType, sfStored, sfChanges, sfSaves>>

SfNext == \/ \E f \in SfShown(sfType, sfForm) : \E v \in SfValues(sfType, f) : SfEdit(f, v)
          \/ \E t \in SfTypes : SfChangeType(t)
          \/ SfSubmit
          \/ SfReopen

SfSpec == SfInit /\ [][SfNext]_sfVars

(********************************** properties *****************************)
\* Type correctness: the form always has the fields of its type, also after a
\* change of type and after a load (keepCompatibleConfig, configToForm).
SfTypeOK ==
  /\ sfType \in SfTypes /\ DOMAIN SfDefault(sfType) \subseteq DOMAIN sfForm
  /\ sfVerdict \in {"none", "invalid", "threw", "refused", "saved"}
  /\ sfEdits \in 0..SfMaxEdits /\ sfChanges \in 0..SfMaxChanges /\ sfSaves \in 0..SfMaxSaves

\* The literals that neither validation of the browser looks at: a JSON
\* literal of a variable, and an expression left empty.
SfUnchecked ==
  /\ sfType \in SfValued
  /\ \/ sfForm.valueKind = "expression" /\ sfForm.expression = ""
     \/ sfForm.valueType = "json" /\ SfParseJson(sfForm.value, "obj0") = "throw"

\* A step that passes both validations of the browser is converted without an
\* exception and accepted by the API, SfUnchecked apart
\* (draft-validation.ts, validateStepConfig; workflows.service.ts, validateStepConfigs).
SfSavedIsAccepted == sfVerdict \in {"threw", "refused"} => SfUnchecked

\* The saved values that a form does not get back: a literal of a variable that
\* is no string, a null where the loader puts an empty object, and a number
\* input that was emptied.
SfLossy ==
  \/ sfType \in SfValued /\ ~SfIsText(SfGet(sfStored, "value")) /\ "value" \in DOMAIN sfStored
  \/ \E f \in {"value", "template", "input"} \cup SfNumberInputs : SfGet(sfStored, f) = "null"

\* Opening a saved version and saving it again changes nothing, SfLossy apart
\* (configToForm, then serializeStepConfig).
SfReopenKeeps == sfFresh /\ ~SfLossy => SfWire(SfSerialize(sfType, sfForm)) = sfStored

\* A version that was saved can be saved again as it is opened: no validation of
\* the browser refuses what the API has accepted.
SfReopenIsValid == sfFresh => SfFaults(sfType, sfForm) = {}

\* An input that the form does not show has no part in what is saved: the name of
\* a Data Store and the expression of a variable that is back to a literal apart
\* (serializeStepConfig and the forms agree on which fields count).
SfHiddenIsSilent ==
  \A f \in DOMAIN SfDefault(sfType) \ (SfShown(sfType, sfForm) \cup SfRouting \cup {"dataStoreName", "expression"}) :
    \A v \in SfValues(sfType, f) :
      SfSerialize(sfType, [sfForm EXCEPT ![f] = v]) = SfSerialize(sfType, sfForm)

\* What keeps a form from being saved is about a field the form has an input for
\* (or a route, drawn on the canvas); the mode that a loop keeps from an earlier
\* type of the step apart, whose select is disabled.
SfFaultsAreShown ==
  SfFaults(sfType, sfForm) \subseteq SfShown(sfType, sfForm) \cup SfRouting \cup (IF sfType = "for_each" THEN {"mode"} ELSE {})

=============================================================================
