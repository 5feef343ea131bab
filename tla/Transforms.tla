----------------------------- MODULE Transforms -----------------------------
(***************************************************************************)
(* The transform step: the validation of its configuration, which the API  *)
(* does when the version is saved and the handler does again, and the six  *)
(* modes of its execution. Values and templates are those of Expressions.  *)
(***************************************************************************)
EXTENDS Expressions

CONSTANTS
  TfConfigs,        \* the configurations
  TfMaxPaths,       \* TRANSFORM_LIMITS.maxPaths
  TfMaxSources,     \* TRANSFORM_LIMITS.maxMergeSources
  TfMaxArrayItems,  \* TRANSFORM_LIMITS.maxArrayItems
  TfMaxDepth        \* TRANSFORM_LIMITS.maxDepth

ASSUME TfAssumption ==
  {TfMaxPaths, TfMaxSources, TfMaxArrayItems, TfMaxDepth} \subseteq Nat

VARIABLES
  tfConfig,  \* the configuration of the step
  tfSaved,   \* "no", "accepted", "refused"
  tfOut      \* the output of the step, or its error

tfVars == <<tfConfig, tfSaved, tfOut>>

TfModes == {"OBJECT", "PICK", "OMIT", "MAP_ARRAY", "FILTER_ARRAY", "MERGE"}
TfPolicies == {"LAST_WINS", "FIRST_WINS", "ERROR"}
TfOutputTypes == {"AUTO", "OBJECT", "ARRAY", "STRING", "NUMBER", "BOOLEAN"}
TfScalarTypes == {"STRING", "NUMBER", "BOOLEAN"}
TfDangerous == {"__proto__", "prototype", "constructor"}

TfRequired ==
  ("OBJECT" :> {"fields"}) @@
  ("PICK" :> {"source", "paths"}) @@
  ("OMIT" :> {"source", "paths"}) @@
  ("MAP_ARRAY" :> {"source", "template"}) @@
  ("FILTER_ARRAY" :> {"source", "condition"}) @@
  ("MERGE" :> {"mergeSources", "conflictPolicy"})
TfAllowed(mode) ==
  TfRequired[mode] \cup {"configVersion", "mode", "outputType"} \cup
  (IF mode \in {"MAP_ARRAY", "FILTER_ARRAY"} THEN {"itemVariable"} ELSE {})
-----------------------------------------------------------------------------
(* The validation *)

TfSafePath(path) ==
  /\ path # <<>>
  /\ \A i \in DOMAIN path : path[i] # "" /\ path[i] \notin TfDangerous

TfPathIssues(paths) ==
  \/ paths = <<>>
  \/ Len(paths) > TfMaxPaths
  \/ \E i \in DOMAIN paths : ~TfSafePath(paths[i])
  \/ \E i, j \in DOMAIN paths : i < j /\ paths[i] = paths[j]

TfFieldIssues(fields, outputType) ==
  \/ DOMAIN fields \cap TfDangerous # {}
  \/ outputType \in TfScalarTypes /\ DOMAIN fields # {"value"}

TfIssues(config) ==
  LET has == DOMAIN config
  IN \/ config.mode \notin TfModes
     \/ ~(has \subseteq TfAllowed(config.mode))
     \/ ~(TfRequired[config.mode] \subseteq has)
     \/ "outputType" \in has /\ config.outputType \notin TfOutputTypes
     \/ "itemVariable" \in has /\ config.itemVariable # "item"
     \/ /\ config.mode = "OBJECT"
        /\ TfFieldIssues(config.fields,
                         IF "outputType" \in has THEN config.outputType ELSE "AUTO")
     \/ config.mode \in {"PICK", "OMIT"} /\ TfPathIssues(config.paths)
     \/ /\ config.mode = "MERGE"
        /\ \/ Len(config.mergeSources) < 2
           \/ Len(config.mergeSources) > TfMaxSources
           \/ config.conflictPolicy \notin TfPolicies
-----------------------------------------------------------------------------
(* Paths *)

TfFound(value) == value # XpNotFound

RECURSIVE TfRead(_, _)
TfRead(value, path) ==
  IF path = <<>> THEN value
  ELSE IF value[1] = "arr" /\ Head(path) \in DOMAIN XpIndexOf
    THEN IF XpIndexOf[Head(path)] >= Len(value[2]) THEN XpNotFound
         ELSE TfRead(value[2][XpIndexOf[Head(path)] + 1], Tail(path))
  ELSE IF value[1] = "obj" /\ Head(path) \in DOMAIN value[2]
    THEN TfRead(value[2][Head(path)], Tail(path))
  ELSE XpNotFound

RECURSIVE TfSet(_, _, _)
(* Whatever is on the way and is not an object is replaced by one: an      *)
(* index of the path becomes a key                                         *)
TfSet(target, path, value) ==
  LET key == Head(path)
      fields == target[2]
      next == IF Len(path) = 1 THEN value
              ELSE TfSet(IF key \in DOMAIN fields /\ fields[key][1] = "obj"
                         THEN fields[key] ELSE XpObject(<<>>),
                         Tail(path), value)
  IN XpObject((key :> next) @@ fields)

RECURSIVE TfDelete(_, _)
TfDelete(target, path) ==
  IF target[1] # "obj" \/ Head(path) \notin DOMAIN target[2] THEN target
  ELSE IF Len(path) = 1
    THEN XpObject([k \in DOMAIN target[2] \ {Head(path)} |-> target[2][k]])
  ELSE XpObject([target[2] EXCEPT ![Head(path)] = TfDelete(@, Tail(path))])

TfPick(source, paths) ==
  LET picked[i \in 0..Len(paths)] ==
        IF i = 0 THEN XpObject(<<>>)
        ELSE LET value == TfRead(source, paths[i])
             IN IF TfFound(value) THEN TfSet(picked[i - 1], paths[i], value)
                ELSE picked[i - 1]
  IN picked[Len(paths)]

TfOmit(source, paths) ==
  LET left[i \in 0..Len(paths)] ==
        IF i = 0 THEN source ELSE TfDelete(left[i - 1], paths[i])
  IN left[Len(paths)]
-----------------------------------------------------------------------------
(* Arrays *)

TfScope(item, index) == XpObject([item |-> item, index |-> index])
TfForItems(source, template) ==
  [i \in DOMAIN source |->
     XpResolveValue(template, TfScope(source[i], XpNumber), "strict")]
(* The first error that the loop meets ends it *)
TfUnlessError(results, output) ==
  LET bad == {i \in DOMAIN results : results[i][1] = "error"}
  IN IF bad = {} THEN output ELSE results[CHOOSE i \in bad : \A j \in bad : i <= j]

TfMapped(results) == TfUnlessError(results, XpArray(results))
TfMap(source, template) ==
  IF Len(source) > TfMaxArrayItems THEN XpError("limit")
  ELSE TfMapped(TfForItems(source, template))

TfItemsWith(source, verdicts, kept) ==
  LET at == SelectSeq([i \in DOMAIN source |-> i], LAMBDA i : verdicts[i] \in kept)
  IN XpArray([n \in DOMAIN at |-> source[at[n]]])

TfFiltered(source, verdicts) ==
  TfUnlessError([i \in DOMAIN verdicts |-> IF verdicts[i][1] \in {"bool", "error"} THEN verdicts[i]
                                           ELSE XpError("type")],
                TfItemsWith(source, verdicts, {<<"bool", TRUE>>}))
TfFilter(source, condition) ==
  IF Len(source) > TfMaxArrayItems THEN XpError("limit")
  ELSE TfFiltered(source, TfForItems(source, condition))
-----------------------------------------------------------------------------
(* Merge *)

TfMerge(sources, policy) ==
  LET into(done, source) ==
        IF done[1] = "error" THEN done
        ELSE IF /\ policy = "ERROR"
                /\ \E k \in DOMAIN source[2] \cap DOMAIN done[2] :
                     done[2][k] # source[2][k]
          THEN XpError("conflict")
        ELSE IF policy = "FIRST_WINS" THEN XpObject(done[2] @@ source[2])
        ELSE XpObject(source[2] @@ done[2])
      merged[i \in 0..Len(sources)] ==
        IF i = 0 THEN XpObject(<<>>) ELSE into(merged[i - 1], sources[i])
  IN merged[Len(sources)]
-----------------------------------------------------------------------------
(* The output *)

TfSpelling == (<<"num", 1>> :> "1") @@ (<<"bool", TRUE>> :> "true") @@
              (<<"bool", FALSE>> :> "false") @@ (XpNull :> "null")

TfConvert(value, type) ==
  CASE type = "AUTO" -> value
    [] type = "STRING" ->
         IF value[1] = "str" THEN value
         ELSE IF value \in DOMAIN TfSpelling THEN XpString(TfSpelling[value])
         ELSE XpError("conversion")
    [] type = "NUMBER" ->
         IF value[1] = "num" THEN value
         ELSE IF value = XpString("1") THEN <<"num", 1>>
         ELSE XpError("conversion")
    [] type = "BOOLEAN" ->
         IF value[1] = "bool" THEN value
         ELSE IF value = XpString("true") THEN <<"bool", TRUE>>
         ELSE IF value = XpString("false") THEN <<"bool", FALSE>>
         ELSE XpError("conversion")
    [] type = "OBJECT" -> IF value[1] = "obj" THEN value ELSE XpError("source")
    [] type = "ARRAY"  -> IF value[1] = "arr" THEN value ELSE XpError("source")

RECURSIVE TfDepth(_)
TfDepth(value) ==
  IF value[1] \notin {"obj", "arr"} \/ DOMAIN value[2] = {} THEN 0
  ELSE LET depths == {TfDepth(value[2][k]) : k \in DOMAIN value[2]}
       IN 1 + (CHOOSE d \in depths : \A e \in depths : e <= d)

TfWithinLimits(value) ==
  /\ TfDepth(value) <= TfMaxDepth
  /\ value[1] = "arr" => Len(value[2]) <= TfMaxArrayItems
  /\ value[1] = "obj" => DOMAIN value[2] \cap TfDangerous = {}
-----------------------------------------------------------------------------
TfScalar(value, type) ==
  IF type \in TfScalarTypes /\ value[1] = "obj" /\ DOMAIN value[2] = {"value"}
  THEN value[2]["value"] ELSE value
TfObject(fields, type) ==
  TfScalar(XpResolveValue(XpObject(fields), XpObject(<<>>), "strict"), type)

TfRun(config, type) ==
  LET needs(kind, value) == value[1] = kind
  IN CASE config.mode = "OBJECT" -> TfObject(config.fields, type)
       [] config.mode = "PICK" ->
            IF needs("obj", config.source) THEN TfPick(config.source, config.paths)
            ELSE XpError("source")
       [] config.mode = "OMIT" ->
            IF needs("obj", config.source) THEN TfOmit(config.source, config.paths)
            ELSE XpError("source")
       [] config.mode = "MAP_ARRAY" ->
            IF needs("arr", config.source)
            THEN TfMap(config.source[2], config.template) ELSE XpError("source")
       [] config.mode = "FILTER_ARRAY" ->
            IF needs("arr", config.source)
            THEN TfFilter(config.source[2], config.condition)
            ELSE XpError("source")
       [] config.mode = "MERGE" ->
            IF \A i \in DOMAIN config.mergeSources :
                 needs("obj", config.mergeSources[i])
            THEN TfMerge(config.mergeSources, config.conflictPolicy)
            ELSE XpError("source")

TfConverted(value, type) ==
  IF value[1] = "error" THEN value ELSE TfConvert(value, type)
TfLimited(output) ==
  IF output[1] # "error" /\ ~TfWithinLimits(output) THEN XpError("limit") ELSE output

TfExecute(config) ==
  LET type == IF "outputType" \in DOMAIN config THEN config.outputType ELSE "AUTO"
  IN IF TfIssues(config) THEN XpError("config")
     ELSE TfLimited(TfConverted(TfRun(config, type), type))

TfInit ==
  /\ tfConfig \in TfConfigs
  /\ tfSaved = "no"
  /\ tfOut = XpNothing

TfSave ==
  /\ tfSaved = "no"
  /\ tfSaved' = IF TfIssues(tfConfig) THEN "refused" ELSE "accepted"
  /\ UNCHANGED <<tfConfig, tfOut>>

TfRunStep ==
  /\ tfSaved = "accepted" /\ tfOut = XpNothing
  /\ tfOut' = TfExecute(tfConfig)
  /\ UNCHANGED <<tfConfig, tfSaved>>

TfNext == TfSave \/ TfRunStep

TfSpec == TfInit /\ [][TfNext]_tfVars
-----------------------------------------------------------------------------
(* Properties *)

TfDone(mode) == tfConfig.mode = mode /\ tfOut \notin {XpNothing, XpError("source")}

(* Types: a configuration that was saved is not refused by the handler.    *)
TfTypeOK ==
  /\ tfSaved \in {"no", "accepted", "refused"}
  /\ tfOut[1] \in {"nothing", "str", "num", "bool", "null", "obj", "arr", "error"}
  /\ tfOut # XpNothing => tfSaved = "accepted" /\ tfOut # XpError("config")

RECURSIVE TfLeaves(_)
(* The members of a value that are not objects, with their paths *)
TfLeaves(value) ==
  IF value[1] # "obj" THEN {<<<<>>, value>>}
  ELSE UNION {{<<<<k>> \o leaf[1], leaf[2]>> : leaf \in TfLeaves(value[2][k])} :
                k \in DOMAIN value[2]}

TfStarts(path, longer) ==
  Len(path) <= Len(longer) /\ SubSeq(longer, 1, Len(path)) = path
TfListed(leaf) ==
  \E i \in DOMAIN tfConfig.paths : TfStarts(tfConfig.paths[i], leaf[1])
TfThroughArray(path) ==
  \E n \in 1..(Len(path) - 1) : TfRead(tfConfig.source, SubSeq(path, 1, n))[1] = "arr"

(* PICK keeps the members at and below the paths it lists and no others,   *)
(* at their places, whatever the order of the paths and their overlap;     *)
(* paths with an index into an array make objects instead.                 *)
TfPickKeepsListed ==
  TfDone("PICK") =>
    \/ \E i \in DOMAIN tfConfig.paths : TfThroughArray(tfConfig.paths[i])
    \/ tfOut = XpError("limit")
    \/ TfLeaves(tfOut) = {leaf \in TfLeaves(tfConfig.source) : TfListed(leaf)}

(* OMIT keeps exactly the other members.                                   *)
TfOmitKeepsOthers ==
  TfDone("OMIT") =>
    \/ tfOut = XpError("limit")
    \/ TfLeaves(tfOut) = {leaf \in TfLeaves(tfConfig.source) : ~TfListed(leaf)}

(* MERGE: every key of the sources has the value of the first or of the    *)
(* last source that has it, and under ERROR all that have it agree.        *)
TfMergeIsFair ==
  TfDone("MERGE") =>
    LET sources == tfConfig.mergeSources
        having(k) == {i \in DOMAIN sources : k \in DOMAIN sources[i][2]}
        agree == \A i, j \in DOMAIN sources :
                   \A k \in DOMAIN sources[i][2] \cap DOMAIN sources[j][2] :
                     sources[i][2][k] = sources[j][2][k]
        first(k) == CHOOSE i \in having(k) : \A j \in having(k) : i <= j
        last(k) == CHOOSE i \in having(k) : \A j \in having(k) : j <= i
        keys == UNION {DOMAIN sources[i][2] : i \in DOMAIN sources}
    IN CASE tfOut = XpError("conflict") -> tfConfig.conflictPolicy = "ERROR" /\ ~agree
         [] tfOut = XpError("limit") -> TRUE
         [] OTHER ->
              /\ DOMAIN tfOut[2] = keys
              /\ tfConfig.conflictPolicy = "ERROR" => agree
              /\ \A k \in keys :
                   tfOut[2][k] = sources[IF tfConfig.conflictPolicy = "FIRST_WINS"
                                         THEN first(k) ELSE last(k)][2][k]

(* FILTER_ARRAY keeps the items for which the condition is true, in their  *)
(* order, and fails when it is not a boolean for some item. (The condition *)
(* of the instances is the item's member "on".)                            *)
TfFilterKeepsTrue ==
  TfDone("FILTER_ARRAY") =>
    LET items == tfConfig.source[2]
        on(item) == TfRead(item, <<"on">>)
        isOn(item) == on(item) = <<"bool", TRUE>>
    IN IF \E i \in DOMAIN items : on(items[i])[1] # "bool"
       THEN tfOut[1] = "error"
       ELSE tfOut \in {XpArray(SelectSeq(items, isOn)), XpError("limit")}

(* The output is of the type that the configuration declares.              *)
TfTypeHonoured ==
  (tfOut # XpNothing /\ tfOut[1] # "error" /\ "outputType" \in DOMAIN tfConfig) =>
    CASE tfConfig.outputType = "OBJECT"  -> tfOut[1] = "obj"
      [] tfConfig.outputType = "ARRAY"   -> tfOut[1] = "arr"
      [] tfConfig.outputType = "STRING"  -> tfOut[1] = "str"
      [] tfConfig.outputType = "NUMBER"  -> tfOut[1] = "num"
      [] tfConfig.outputType = "BOOLEAN" -> tfOut[1] = "bool"
      [] OTHER -> TRUE
=============================================================================
