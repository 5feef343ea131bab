-------------------------- MODULE WorkflowVersions --------------------------
(***************************************************************************)
(* The versions of workflows (WorkflowsService): created as drafts,        *)
(* restored from history, and published by users that act at the same time *)
(* on one database (READ COMMITTED).  Of a definition only what publishing *)
(* looks up elsewhere is kept: the workflow it executes (the published     *)
(* version, or a pinned one) and whether a step uses the connection.       *)
(***************************************************************************)
EXTENDS Naturals, Sequences, FiniteSets

CONSTANTS
  WvPlans,       \* what users write: for each workflow the definitions drafted, [calls, connects], and how many versions in all
  WvUsers,       \* the users that publish
  WvMaxSwitches  \* bound on how often the connection is disabled or enabled

ASSUME WvConstants == WvMaxSwitches \in Nat /\ \A p \in WvPlans : p.versions \in Nat /\ "none" \notin DOMAIN p.drafts

VARIABLES
  wvPlan,       \* the plan of this behaviour
  wvVersions,   \* workflow_versions: the rows of each workflow by version number
  wvActive,     \* workflows.active_version_id, 0 if none
  wvConnection, \* the connection is ACTIVE
  wvPc,         \* "idle", "begin" (validated) or "publish" (the archive statement has its snapshot)
  wvFor,        \* the version a user publishes
  wvSnapshot,   \* the ACTIVE versions that statement saw
  wvRaced,      \* history: the versions of whose validation and publication another publication came in between
  wvSwitches

wvVars == <<wvPlan, wvVersions, wvActive, wvConnection, wvPc, wvFor, wvSnapshot, wvRaced, wvSwitches>>

WvWorkflows == DOMAIN wvPlan.drafts
WvNumbers(w) == DOMAIN wvVersions[w]
WvVersion(v) == wvVersions[v[1]][v[2]]
WvRefs == {<<w, n>> \in WvWorkflows \X (1 .. wvPlan.versions) : n \in WvNumbers(w)}
WvRoom == Cardinality(WvRefs) < wvPlan.versions
WvNobody == <<"none", 0>>

\* calls: <<the workflow executed, the pinned version or 0 for the published one>>
WvTypeOK ==
  /\ \A v \in WvRefs : /\ WvVersion(v).status \in {"DRAFT", "ACTIVE", "ARCHIVED"} /\ WvVersion(v).connects \in BOOLEAN
                       /\ WvVersion(v).activated = (WvVersion(v).status /= "DRAFT")
                       /\ WvVersion(v).calls = WvNobody \/ WvVersion(v).calls[1] \in WvWorkflows \ {v[1]}
  /\ \A w \in WvWorkflows : wvActive[w] \in {0} \union WvNumbers(w)
  /\ wvPc \in [WvUsers -> {"idle", "begin", "publish"}] /\ wvConnection \in BOOLEAN
  /\ \A u \in WvUsers : wvPc[u] /= "idle" => wvFor[u] \in WvRefs /\ wvSnapshot[u] \subseteq WvNumbers(wvFor[u][1])
  /\ wvRaced \subseteq WvRefs

WvInit ==
  /\ wvPlan \in WvPlans
  /\ wvVersions = [w \in WvWorkflows |-> <<>>] /\ wvActive = [w \in WvWorkflows |-> 0] /\ wvConnection = TRUE
  /\ wvPc = [u \in WvUsers |-> "idle"] /\ wvFor = [u \in WvUsers |-> WvNobody] /\ wvSnapshot = [u \in WvUsers |-> {}]
  /\ wvRaced = {} /\ wvSwitches = 0

WvDraft(calls, connects) == [status |-> "DRAFT", activated |-> FALSE, calls |-> calls, connects |-> connects]

\* The workflow the published version of w executes, "none" if it executes none.
WvNextOf(w) == IF wvActive[w] = 0 THEN "none" ELSE wvVersions[w][wvActive[w]].calls[1]

\* assertNoPublishedCycle: follow the published versions from the target; a
\* workflow met twice on the way is a cycle.
WvNoPublishedCycle(source, target) ==
  LET walk[k \in 0 .. Cardinality(WvWorkflows)] ==
        IF k = 0 THEN <<source, target>> ELSE Append(walk[k - 1], IF walk[k - 1][k + 1] = "none" THEN "none" ELSE WvNextOf(walk[k - 1][k + 1]))
      path == walk[Cardinality(WvWorkflows)] IN
  \A i, j \in DOMAIN path : (i < j /\ path[j] /= "none") => path[i] /= path[j]

\* assertConnection
WvConnectionValid(connects) == connects => wvConnection
\* validateSubworkflowReferences: the workflow executed is another one, its
\* published or pinned version has been published and no cycle of published
\* versions leads back.
WvReferencesValid(w, calls, connects) ==
  LET n == IF calls[2] /= 0 THEN calls[2] ELSE wvActive[calls[1]] IN
  /\ calls /= WvNobody => /\ calls[1] /= w /\ n \in WvNumbers(calls[1])
                          /\ wvVersions[calls[1]][n].activated /\ wvVersions[calls[1]][n].status \in {"ACTIVE", "ARCHIVED"}
                          /\ WvNoPublishedCycle(w, calls[1])
  /\ WvConnectionValid(connects)

\* createVersion: the references are validated, and under the lock of the
\* workflow's row the draft gets the next number.
WvCreateVersion(w, d) ==
  /\ WvRoom /\ WvReferencesValid(w, d.calls, d.connects)
  /\ wvVersions' = [wvVersions EXCEPT ![w] = Append(@, WvDraft(d.calls, d.connects))]
  /\ UNCHANGED <<wvPlan, wvActive, wvConnection, wvPc, wvFor, wvSnapshot, wvRaced, wvSwitches>>

\* restoreVersion: a new draft with the definition of an old version, whose
\* references are not looked up.
WvRestoreVersion(w, n) ==
  /\ WvRoom /\ n \in WvNumbers(w)
  /\ wvVersions' = [wvVersions EXCEPT ![w] = Append(@, WvDraft(wvVersions[w][n].calls, wvVersions[w][n].connects))]
  /\ UNCHANGED <<wvPlan, wvActive, wvConnection, wvPc, wvFor, wvSnapshot, wvRaced, wvSwitches>>

\* activateVersion up to its transaction: only a draft never activated, whose
\* references are valid now.
WvActivate(u, v) ==
  /\ wvPc[u] = "idle" /\ v \in WvRefs
  /\ WvVersion(v).status = "DRAFT" /\ ~WvVersion(v).activated /\ WvReferencesValid(v[1], WvVersion(v).calls, WvVersion(v).connects)
  /\ wvPc' = [wvPc EXCEPT ![u] = "begin"] /\ wvFor' = [wvFor EXCEPT ![u] = v]
  /\ UNCHANGED <<wvPlan, wvVersions, wvActive, wvConnection, wvSnapshot, wvRaced, wvSwitches>>

\* The first statement of the transaction, which archives the ACTIVE versions,
\* sees those committed now.
WvArchive(u) ==
  LET w == wvFor[u][1] IN
  /\ wvPc[u] = "begin"
  /\ wvSnapshot' = [wvSnapshot EXCEPT ![u] = {n \in WvNumbers(w) : wvVersions[w][n].status = "ACTIVE"}]
  /\ wvPc' = [wvPc EXCEPT ![u] = "publish"]
  /\ UNCHANGED <<wvPlan, wvVersions, wvActive, wvConnection, wvFor, wvRaced, wvSwitches>>

\* Other publications under way are raced by this one.
WvRaces(u) == {wvFor[t] : t \in {t \in WvUsers \ {u} : wvPc[t] /= "idle"}}
WvDone(u) == /\ wvPc' = [wvPc EXCEPT ![u] = "idle"] /\ wvFor' = [wvFor EXCEPT ![u] = WvNobody]
             /\ wvSnapshot' = [wvSnapshot EXCEPT ![u] = {}]

\* The versions of u's workflow with those of the snapshot that are still ACTIVE archived.
WvArchived(u) ==
  LET rows == wvVersions[wvFor[u][1]] IN
  [i \in DOMAIN rows |-> IF i \in wvSnapshot[u] /\ rows[i].status = "ACTIVE" THEN [rows[i] EXCEPT !.status = "ARCHIVED"] ELSE rows[i]]
WvDraftStill(u) == WvVersion(wvFor[u]).status = "DRAFT" /\ ~WvVersion(wvFor[u]).activated

\* The rest of the transaction, which other publications see at once.  Rows of
\* the snapshot that another transaction held are looked at again and archived
\* if they are still ACTIVE; a version another transaction has published since
\* is not in the snapshot and stays.  A version that is no draft any more
\* (409) undoes all of it.
WvPublish(u) ==
  LET w == wvFor[u][1]  n == wvFor[u][2] IN
  /\ wvPc[u] = "publish"
  /\ IF WvDraftStill(u)
     THEN /\ wvVersions' = [wvVersions EXCEPT ![w] = [WvArchived(u) EXCEPT ![n].status = "ACTIVE", ![n].activated = TRUE]]
          /\ wvActive' = [wvActive EXCEPT ![w] = n] /\ wvRaced' = wvRaced \union WvRaces(u)
     ELSE UNCHANGED <<wvVersions, wvActive, wvRaced>>
  /\ WvDone(u) /\ UNCHANGED <<wvPlan, wvConnection, wvSwitches>>

\* ConnectionsService: the connection is disabled or enabled.
WvSwitch ==
  /\ wvSwitches < WvMaxSwitches /\ wvSwitches' = wvSwitches + 1 /\ wvConnection' = ~wvConnection
  /\ UNCHANGED <<wvPlan, wvVersions, wvActive, wvPc, wvFor, wvSnapshot, wvRaced>>

WvNext ==
  \/ \E w \in WvWorkflows : \E d \in wvPlan.drafts[w] : WvCreateVersion(w, d)
  \/ \E w \in WvWorkflows, n \in 1 .. wvPlan.versions : WvRestoreVersion(w, n)
  \/ \E u \in WvUsers, v \in WvRefs : WvActivate(u, v)
  \/ \E u \in WvUsers : WvArchive(u) \/ WvPublish(u)
  \/ WvSwitch
WvSpec == WvInit /\ [][WvNext]_wvVars

-----------------------------------------------------------------------------
(* Properties. *)

\* The version a workflow points to is one of its published versions, ACTIVE,
\* whatever publications overlapped (292-308).
WvActiveIsPublished == \A w \in WvWorkflows : wvActive[w] /= 0 => wvVersions[w][wvActive[w]].status = "ACTIVE"

\* A version goes from DRAFT to ACTIVE to ARCHIVED and never back: it is
\* published once, by one user (274, 297).
WvForwardOnly ==
  \A v \in WvRefs : LET was == WvVersion(v).status  is == wvVersions'[v[1]][v[2]].status IN
    was = is \/ <<was, is>> \in {<<"DRAFT", "ACTIVE">>, <<"ACTIVE", "ARCHIVED">>}

\* Without another publication in between, a published version replaces the one
\* before: no other version of its workflow is ACTIVE (292-295).
WvOneActiveUnraced ==
  \A w \in WvWorkflows : (\A n \in WvNumbers(w) : <<w, n>> \notin wvRaced)
    => Cardinality({n \in WvNumbers(w) : wvVersions[w][n].status = "ACTIVE"}) <= 1

\* Without another publication in between, published versions that execute
\* published versions form no cycle (458-468).
WvNoCycleUnraced ==
  (wvRaced = {} /\ \A v \in WvRefs : WvVersion(v).calls[2] = 0)
    => \A ring \in SUBSET WvWorkflows \ {{}} : \E w \in ring : WvNextOf(w) \notin ring

=============================================================================
