---------------------------- MODULE WorkflowDraft ----------------------------
(***************************************************************************)
(* The draft of the workflow editor: the steps and edges that the canvas   *)
(* and the form both edit, the adapters between the two and the stored     *)
(* version, and the undo history.                                          *)
(*                                                                         *)
(* A step is its card: id, key, type, text (the rest of its configuration) *)
(* and route, the targets that its configuration names per output handle:  *)
(* "" is an empty field, WdUnset one that the configuration does not have.   *)
(* A draft keeps its steps by key and its edges as a sequence; layout      *)
(* stands for the node positions. A switch has one case. The form follows  *)
(* the draft except after a change of type, see WdRetype.                  *)
(***************************************************************************)
EXTENDS WorkflowGraph, Sequences, SequencesExt

CONSTANTS WdTypes,      \* the step types that the user picks from
          WdVersions,   \* the stored versions the editor may open
          WdLimit,      \* the length of the history
          WdMaxSteps, WdMaxEdits

ASSUME WdAssumption == /\ {WdLimit, WdMaxSteps, WdMaxEdits} \subseteq Nat
                       /\ WdLimit > 0

VARIABLES wdPast, wdDraft, wdFuture, wdForm,
          wdIds,        \* how many cards were ever made
          wdDrag,       \* the layout before the drag that is going on
          wdEdits

wdVars == <<wdPast, wdDraft, wdFuture, wdForm, wdIds, wdDrag, wdEdits>>

WdUnset == "-"
WdEdge(s, h, t) == [source |-> s, handle |-> h, target |-> t]

-----------------------------------------------------------------------------
(* Outputs of a step. *)

\* In the order in which the form adds their edges.
WdHandles(type) ==
  CASE type = "if" -> <<"true", "false">>
    [] type = "switch" -> <<"case:a", "default">>
    [] type = "for_each" -> <<"body", "done">>
    [] type = "try_catch" -> <<"body", "catch", "finally", "done">>
    [] type = "approval" -> <<"approved", "rejected", "expired">>
    [] OTHER -> <<"next">>

WdKind(h, type) ==
  CASE h = "true" -> "if_true" [] h = "false" -> "if_false"
    [] h = "default" -> "switch_default" [] h = "case:a" -> "switch_case_a"
    [] type = "try_catch" /\ h \in {"body", "catch", "finally", "done"} -> "try_" \o h
    [] type = "approval" /\ h \in {"approved", "rejected", "expired"} -> "approval_" \o h
    [] h = "body" -> "for_each_body" [] h = "done" -> "for_each_done"
    [] OTHER -> "next"

WdHandleOf(kind) ==
  CASE kind = "if_true" -> "true" [] kind = "if_false" -> "false"
    [] kind = "switch_default" -> "default" [] kind = "switch_case_a" -> "case:a"
    [] kind \in {"for_each_body", "try_body"} -> "body"
    [] kind \in {"for_each_done", "try_done"} -> "done"
    [] kind = "try_catch" -> "catch" [] kind = "try_finally" -> "finally"
    [] kind = "approval_approved" -> "approved" [] kind = "approval_rejected" -> "rejected"
    [] kind = "approval_expired" -> "expired"
    [] OTHER -> "next"

-----------------------------------------------------------------------------
(* Cards. *)

\* The targets in a new configuration: control types have the fields, empty.
WdDefaultRoute(type) ==
  [h \in Range(WdHandles(type)) |-> IF h = "next" THEN WdUnset ELSE ""]

WdEmptyStep(id, key, type) ==
  [id |-> id, key |-> key, type |-> type, text |-> 0, route |-> WdDefaultRoute(type)]

\* What a target field of the new type reads in the configuration of the old.
WdReadRoute(type, route) ==
  [h \in Range(WdHandles(type)) |-> IF h \in DOMAIN route THEN route[h] ELSE WdUnset]

\* keepCompatibleConfig: the fields that the new type's default has are kept.
WdCompatible(type, route) ==
  [h \in Range(WdHandles(type)) |->
     IF h \in DOMAIN route /\ h # "next" THEN route[h] ELSE WdDefaultRoute(type)[h]]

-----------------------------------------------------------------------------
(* Draft and form. *)

WdFirst(edges, key, h) ==
  LET at == {i \in DOMAIN edges : edges[i].source = key /\ edges[i].handle = h}
  IN  IF at = {} THEN "" ELSE edges[CHOOSE i \in at : \A j \in at : i <= j].target

WdRouted(step, edges) ==
  [step EXCEPT !.route = [h \in Range(WdHandles(step.type)) |-> WdFirst(edges, step.key, h)]]

WdToForm(d) == [i \in DOMAIN d.order |-> WdRouted(d.steps[d.order[i]], d.edges)]

\* The target of a card's output: next falls back on the card that follows.
WdTarget(form, i, h) ==
  LET t == WdReadRoute(form[i].type, form[i].route)[h]
  IN  IF t # WdUnset THEN t ELSE IF h = "next" /\ i < Len(form) THEN form[i + 1].key ELSE ""

WdCardEdges(form, i) ==
  LET keys == {form[j].key : j \in DOMAIN form}
      hs == WdHandles(form[i].type)
      all == [k \in DOMAIN hs |-> WdEdge(form[i].key, hs[k], WdTarget(form, i, hs[k]))]
  IN  SelectSeq(all, LAMBDA e : e.target \in keys /\ e.target # e.source)

WdFormEdges(form) ==
  LET upTo[n \in 0..Len(form)] == IF n = 0 THEN <<>> ELSE upTo[n - 1] \o WdCardEdges(form, n)
  IN  upTo[Len(form)]

\* stepsByKey: of two cards with one key the later one is kept.
WdByKey(form) ==
  [k \in {form[i].key : i \in DOMAIN form} |->
     form[CHOOSE i \in DOMAIN form : form[i].key = k /\ \A j \in DOMAIN form : form[j].key = k => j <= i]]

WdFromForm(form, d) ==
  [d EXCEPT !.order = [i \in DOMAIN form |-> form[i].key],
            !.steps = WdByKey(form), !.edges = WdFormEdges(form)]

-----------------------------------------------------------------------------
(* Draft and stored version. *)

\* The graph of a draft, with the branch targets that the given steps name.
WdGraph(d, steps) ==
  [entry |-> IF d.order = <<>> THEN NoKey ELSE d.order[1],
   type |-> [k \in DOMAIN d.steps |-> d.steps[k].type],
   edges |-> {Edge(e.source, WdKind(e.handle, d.steps[e.source].type), e.target) : e \in Range(d.edges)},
   config |-> UNION {{Edge(s.key, WdKind(h, s.type), s.route[h]) : h \in {g \in DOMAIN s.route : s.route[g] \notin {"", WdUnset}}} :
                     s \in {t \in steps : t.type \in BranchTypes}}]

WdUnique(d) == Cardinality(Range(d.order)) = Len(d.order)
WdOneTarget(d) ==
  \A i, j \in DOMAIN d.edges :
    d.edges[i].source = d.edges[j].source /\ d.edges[i].handle = d.edges[j].handle => i = j

\* validateDraft reads the targets in the steps as the draft holds them.
WdShowsNoError(d) ==
  /\ WdUnique(d) /\ WdOneTarget(d)
  /\ ValidGraph(WdGraph(d, Range(d.steps)))

\* draftToWorkflowDefinitionDto: the steps go through the form's routing.
WdDefinition(d) ==
  [order |-> d.order, types |-> [k \in DOMAIN d.steps |-> d.steps[k].type],
   texts |-> [k \in DOMAIN d.steps |-> d.steps[k].text],
   graph |-> WdGraph(d, Range(WdToForm(d)))]

WdLinear(order) == [i \in 1..(Len(order) - 1) |-> WdEdge(order[i], "next", order[i + 1])]

WdConfigRoute(def, k) ==
  [h \in Range(WdHandles(def.types[k])) |->
     LET named == {e \in def.graph.config : e.from = k /\ e.kind = WdKind(h, def.types[k])}
     IN  IF named # {} THEN (CHOOSE e \in named : TRUE).to ELSE WdDefaultRoute(def.types[k])[h]]

\* formFromVersion: a card per stored step.
WdCardsOf(def) ==
  [k \in Range(def.order) |->
     [id |-> CHOOSE i \in DOMAIN def.order : def.order[i] = k,
      key |-> k, type |-> def.types[k], text |-> def.texts[k], route |-> WdConfigRoute(def, k)]]

WdLoad(def) ==
  [order |-> def.order, steps |-> WdCardsOf(def), layout |-> 0,
   edges |-> IF def.graph.edges = {} THEN WdLinear(def.order)
             ELSE LET es == SetToSeq(def.graph.edges)
                  IN  [i \in DOMAIN es |-> WdEdge(es[i].from, WdHandleOf(es[i].kind), es[i].to)]]

-----------------------------------------------------------------------------
(* History. *)

WdKeepLast(s) == SubSeq(s, Max({1, Len(s) - WdLimit + 1}), Len(s))

WdPush(next) ==
  /\ wdPast' = WdKeepLast(Append(wdPast, wdDraft)) /\ wdFuture' = <<>>
  /\ wdDraft' = next

WdEdited == wdEdits < WdMaxEdits /\ wdEdits' = wdEdits + 1

\* applyDraft: the form is set from the new draft.
WdApply(next) ==
  /\ WdEdited /\ WdPush(next) /\ wdForm' = WdToForm(next)
  /\ UNCHANGED wdDrag

\* The form's watcher: what the form holds becomes the draft.
WdWatch(form) == WdApply(WdFromForm(form, wdDraft))

WdStep(past, draft, future) ==
  /\ wdPast' = past /\ wdDraft' = draft /\ wdFuture' = future
  /\ wdForm' = WdToForm(draft) /\ WdEdited
  /\ UNCHANGED <<wdIds, wdDrag>>

WdUndo ==
  /\ wdPast # <<>>
  /\ WdStep(Front(wdPast), Last(wdPast), <<wdDraft>> \o SubSeq(wdFuture, 1, Min({WdLimit - 1, Len(wdFuture)})))

WdRedo ==
  /\ wdFuture # <<>>
  /\ WdStep(WdKeepLast(Append(wdPast, wdDraft)), Head(wdFuture), Tail(wdFuture))

-----------------------------------------------------------------------------
(* The canvas. *)

WdFreshKey(type, used) ==
  LET n == CHOOSE i \in 1..(Cardinality(used) + 1) :
             /\ type \o "_" \o ToString(i) \notin used
             /\ \A j \in 1..(i - 1) : type \o "_" \o ToString(j) \in used
  IN  type \o "_" \o ToString(n)

WdHasRoom == Len(wdDraft.order) < WdMaxSteps

WdAddStep(type) ==
  LET key == WdFreshKey(type, Range(wdDraft.order))
      last == IF wdDraft.order = <<>> THEN NoKey ELSE Last(wdDraft.order)
      linked == last # NoKey /\ WdHandles(wdDraft.steps[last].type) = <<"next">>
  IN  /\ WdHasRoom
      /\ WdApply([wdDraft EXCEPT
                   !.order = Append(@, key),
                   !.steps = @ @@ (key :> WdEmptyStep(wdIds + 1, key, type)),
                   !.edges = IF linked THEN Append(@, WdEdge(last, "next", key)) ELSE @])
      /\ wdIds' = wdIds + 1

WdRemoveStepOnly(key) ==  \* a variant: the edges of the step stay
  /\ WdApply([wdDraft EXCEPT !.order = SelectSeq(@, LAMBDA k : k # key),
                             !.steps = [k \in DOMAIN @ \ {key} |-> @[k]]])
  /\ UNCHANGED wdIds

WdRemoveStep(key) ==
  /\ WdApply([wdDraft EXCEPT
               !.order = SelectSeq(@, LAMBDA k : k # key),
               !.steps = [k \in DOMAIN @ \ {key} |-> @[k]],
               !.edges = SelectSeq(@, LAMBDA e : key \notin {e.source, e.target})])
  /\ UNCHANGED wdIds

WdDuplicateStep(key) ==
  LET step == wdDraft.steps[key]
      copy == WdFreshKey(step.type, Range(wdDraft.order))
      at == CHOOSE i \in DOMAIN wdDraft.order : wdDraft.order[i] = key /\ \A j \in 1..(i - 1) : wdDraft.order[j] # key
  IN  /\ WdHasRoom
      /\ WdApply([wdDraft EXCEPT
                   !.order = InsertAt(@, at + 1, copy),
                   !.steps = @ @@ (copy :> [step EXCEPT !.id = wdIds + 1, !.key = copy])])
      /\ wdIds' = wdIds + 1

WdCycle(d) == LET g == WdGraph(d, {}) IN ~Acyclic(g)

\* A refused connection applies the draft it was given, as it is: the same
\* object, which the history does not record.
WdConnect(source, h, target) ==
  LET next == [wdDraft EXCEPT !.edges = Append(@, WdEdge(source, h, target))]
      refused == \/ source = target
                 \/ \E e \in Range(wdDraft.edges) : e.source = source /\ e.handle = h
                 \/ WdCycle(next)
  IN  /\ h \in Range(WdHandles(wdDraft.steps[source].type))
      /\ IF refused
         THEN WdEdited /\ wdForm' = WdToForm(wdDraft) /\ UNCHANGED <<wdPast, wdDraft, wdFuture, wdDrag>>
         ELSE WdApply(next)
      /\ UNCHANGED wdIds

WdRemoveEdge(i) ==
  WdApply([wdDraft EXCEPT !.edges = RemoveAt(@, i)]) /\ UNCHANGED wdIds

\* Select and auto-arrange leave the form alone; both are recorded.
WdTouch(layout) ==
  /\ WdEdited /\ WdPush([wdDraft EXCEPT !.layout = layout])
  /\ UNCHANGED <<wdForm, wdIds, wdDrag>>

WdSelect == wdDraft.order # <<>> /\ WdTouch(wdDraft.layout)
WdArrange == WdTouch(0)

\* A drag: the moves replace the draft without a record, the stop records it.
WdDragMove ==
  /\ wdDraft.order # <<>> /\ wdDraft.layout < 2
  /\ wdDrag' = IF wdDrag = WdUnset THEN ToString(wdDraft.layout) ELSE wdDrag
  /\ wdDraft' = [wdDraft EXCEPT !.layout = @ + 1]
  /\ UNCHANGED <<wdPast, wdFuture, wdForm, wdIds, wdEdits>>

WdDragStop ==
  /\ wdDrag # WdUnset
  /\ WdEdited /\ WdPush(wdDraft)
  /\ wdDrag' = WdUnset
  /\ UNCHANGED <<wdForm, wdIds>>

-----------------------------------------------------------------------------
(* The form. *)

WdAppendCard(type) ==
  /\ Len(wdForm) < WdMaxSteps
  /\ WdWatch(Append(wdForm, WdEmptyStep(wdIds + 1, "step_" \o ToString(Len(wdForm) + 1), type)))
  /\ wdIds' = wdIds + 1

WdRemoveCard(i) == WdWatch(RemoveAt(wdForm, i)) /\ UNCHANGED wdIds

WdDuplicateCard(i) ==
  /\ Len(wdForm) < WdMaxSteps
  /\ WdWatch(InsertAt(wdForm, i + 1, [wdForm[i] EXCEPT !.id = wdIds + 1, !.key = @ \o "_copy"]))
  /\ wdIds' = wdIds + 1

WdMoveCard(i, j) ==
  i # j /\ WdWatch(InsertAt(RemoveAt(wdForm, i), j, wdForm[i])) /\ UNCHANGED wdIds

WdEditText(i) ==
  wdForm[i].text < 2 /\ WdWatch([wdForm EXCEPT ![i].text = @ + 1]) /\ UNCHANGED wdIds

WdEditKey(i, key) ==
  key # wdForm[i].key /\ WdWatch([wdForm EXCEPT ![i].key = key]) /\ UNCHANGED wdIds

WdEditRoute(i, h, target) ==
  /\ h \in DOMAIN wdForm[i].route
  /\ WdWatch([wdForm EXCEPT ![i].route[h] = target]) /\ UNCHANGED wdIds

\* Three fields are set one after the other. The first one's watcher applies
\* the draft with the old configuration; while that is going on the watcher
\* ignores the other two, so that only the form gets the new configuration.
WdRetype(i, type) ==
  LET old == wdForm[i]
      next == WdFromForm([wdForm EXCEPT ![i].type = type, ![i].route = WdReadRoute(type, old.route)], wdDraft)
  IN  /\ type # old.type
      /\ WdEdited /\ WdPush(next)
      /\ wdForm' = [WdToForm(next) EXCEPT ![i].route = WdCompatible(type, old.route)]
      /\ UNCHANGED <<wdIds, wdDrag>>

\* submit: the form becomes the draft, and the form is not set again.
WdSubmit ==
  /\ wdDraft.order # <<>>
  /\ WdEdited /\ WdPush(WdFromForm(wdForm, wdDraft))
  /\ UNCHANGED <<wdForm, wdIds, wdDrag>>

-----------------------------------------------------------------------------
WdInit ==
  \E def \in WdVersions :
    /\ wdPast = <<>> /\ wdFuture = <<>> /\ wdDraft = WdLoad(def) /\ wdForm = WdToForm(WdLoad(def))
    /\ wdIds = Len(def.order) /\ wdDrag = WdUnset /\ wdEdits = 0

WdCanvas ==
  \/ \E type \in WdTypes : WdAddStep(type)
  \/ \E key \in Range(wdDraft.order) : WdRemoveStep(key) \/ WdDuplicateStep(key)
  \/ \E s, t \in Range(wdDraft.order) : \E h \in Range(WdHandles(wdDraft.steps[s].type)) : WdConnect(s, h, t)
  \/ \E i \in DOMAIN wdDraft.edges : WdRemoveEdge(i)
  \/ WdSelect \/ WdArrange

WdCards ==
  \/ \E type \in WdTypes : WdAppendCard(type)
  \/ \E i \in DOMAIN wdForm :
       \/ WdRemoveCard(i) \/ WdDuplicateCard(i) \/ WdEditText(i)
       \/ \E j \in DOMAIN wdForm : WdMoveCard(i, j) \/ WdEditKey(i, wdForm[j].key)
       \/ \E h \in DOMAIN wdForm[i].route, t \in {""} \cup {wdForm[j].key : j \in DOMAIN wdForm} : WdEditRoute(i, h, t)
       \/ \E type \in WdTypes : WdRetype(i, type)
  \/ WdSubmit

\* A drag holds the pointer: nothing else happens until it stops.
WdNext == \/ wdDrag = WdUnset /\ (WdCanvas \/ WdCards \/ WdUndo \/ WdRedo)
          \/ wdDrag # WdUnset /\ WdDragStop
          \/ WdDragMove

WdSpec == WdInit /\ [][WdNext]_wdVars

-----------------------------------------------------------------------------
\* Types.
WdTypeOK ==
  /\ wdEdits \in 0..WdMaxEdits /\ wdIds \in Nat
  /\ Len(wdPast) + Len(wdFuture) <= WdLimit
  /\ \A k \in DOMAIN wdDraft.steps : wdDraft.steps[k].key = k /\ wdDraft.steps[k].id \in 1..wdIds
  /\ DOMAIN wdDraft.steps = Range(wdDraft.order)

\* draft-adapters.ts:206: no edge of a draft hangs in the air, whatever was
\* deleted, renamed, moved, undone or redone before.
WdEdgesHaveSteps ==
  \A e \in Range(wdDraft.edges) :
    /\ {e.source, e.target} \subseteq DOMAIN wdDraft.steps
    /\ WdUnique(wdDraft) => e.handle \in Range(WdHandles(wdDraft.steps[e.source].type))

\* docs/architecture.md:34: the canvas and the form show one workflow. A
\* draft whose outputs have one target each, turned into cards and back by
\* the first touch of a field (draft-adapters.ts:45, 53), keeps its edges.
WdFormKeepsEdges ==
  WdUnique(wdDraft) /\ WdOneTarget(wdDraft)
    => Range(WdFromForm(WdToForm(wdDraft), wdDraft).edges) = Range(wdDraft.edges)

\* draft-adapters.ts:68, 20: a draft that shows no error is saved as a
\* definition that the API's validation accepts, though the browser validates
\* targets that the canvas did not write back; opening it gives the same
\* steps, in the same order, with the same edges.
WdSavedIsValid ==
  WdShowsNoError(wdDraft)
    => LET def == WdDefinition(wdDraft)
       IN  /\ ValidGraph(def.graph)
           /\ Range(WdLoad(def).edges) = Range(wdDraft.edges)
           /\ WdLoad(def).order = wdDraft.order

WdCardOf(d, id) == CHOOSE s \in Range(d.steps) : s.id = id
WdIdsOf(d) == {s.id : s \in Range(d.steps)}

\* draft-adapters.ts:53: an edit of one card never changes or drops what
\* another one says, as long as no two cards share a key. (With a shared key
\* the later card replaces the earlier one in the draft.)
WdOthersKept ==
  WdCards /\ WdUnique(wdDraft) /\ WdUnique(wdDraft')
     => /\ Cardinality(WdIdsOf(wdDraft) \ WdIdsOf(wdDraft')) <= 1
        /\ Cardinality({id \in WdIdsOf(wdDraft) \cap WdIdsOf(wdDraft') :
             LET s == WdCardOf(wdDraft, id)
                 t == WdCardOf(wdDraft', id)
             IN  <<s.key, s.type, s.text>> # <<t.key, t.type, t.text>>}) <= 1

WdTimeline == wdPast \o <<wdDraft>> \o wdFuture

\* draft-history.ts:26, 37: undo and redo walk along the recorded drafts and
\* lose none of them, also when the history is at its limit.
WdUndoLosesNothing ==
  WdUndo \/ WdRedo => (wdPast \o <<wdDraft>> \o wdFuture)' = WdTimeline

=============================================================================
