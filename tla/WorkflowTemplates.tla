------------------------- MODULE WorkflowTemplates -------------------------
(***************************************************************************)
(* Workflow templates and clones                                           *)
(* (apps/api/src/workflow-templates/workflow-templates.service.ts and      *)
(* workflow-template-pipeline.ts).  A template version is a portable copy  *)
(* of a workflow version with a manifest of the resources its steps use;   *)
(* a workflow is made from it by mapping every one of them to a resource   *)
(* of the organization.  A clone does the same with the references of the  *)
(* source as the mappings nobody gave.                                     *)
(*                                                                         *)
(* Each request reads, validates and writes in separate statements: the    *)
(* snapshot or the load, the preview, the validation inside materialize    *)
(* and the transaction are steps between which another user may publish,   *)
(* archive, delete or create what the request has read.                    *)
(***************************************************************************)
EXTENDS Naturals, Sequences, SequencesExt, FiniteSets, TLC

CONSTANTS
  TpUsers,        \* users of one organization
  TpTypeOf,       \* resource -> "http_api_key", "smtp", "store", "workflow", "unpublished"
  TpNameOf,       \* name of each data store
  TpDefinitions,  \* the workflow versions of the organization: sequences of steps
  TpMappingLists, \* the mapping lists a request may carry
  TpMaxVersions,  \* bound: versions of the template
  TpMaxCalls,     \* bound: requests
  TpMaxChanges    \* bound: resources deleted or created

TpNone == "-"
TpResources == DOMAIN TpTypeOf
TpStores == {r \in TpResources : TpTypeOf[r] = "store"}
TpStepTypes == {"task", "http_request", "email_notification", "data_store_get", "execute_workflow"}

\* A step: the resource its config names by id, the name of a data store, the
\* pinned version (given by the workflow it belongs to), whether its version
\* policy is PINNED_VERSION, whether its selector is an expression, and
\* whether a field of it looks like a credential.
TpStep == [type : TpStepTypes, id : TpResources \cup {TpNone}, name : STRING,
           version : TpResources \cup {TpNone}, pinned : BOOLEAN, dynamic : BOOLEAN, secret : BOOLEAN]

VARIABLES
  tpLive,      \* resources that exist: active connections, undeleted stores, workflows
  tpGone,      \* resources that were deleted
  tpStatus,    \* "none", or the template's status
  tpVersions,  \* its versions: [definition, manifest, published]
  tpCalls,     \* the request each user has in progress
  tpMade,      \* the draft workflows made
  tpLeft       \* requests and changes left

tpVars == <<tpLive, tpGone, tpStatus, tpVersions, tpCalls, tpMade, tpLeft>>

TpIdle == [op |-> "none"]

-----------------------------------------------------------------------------
(* Dependencies of a definition                                            *)

\* The kind of resource a step of this type needs.
TpKind(s) == CASE s.type = "data_store_get" -> "DATA_STORE"
               [] s.type = "execute_workflow" -> "WORKFLOW"
               [] OTHER -> "CONNECTION"

TpExpects(s) == IF s.type = "email_notification" THEN "smtp" ELSE "http_api_key"

\* The store a selector finds: by id when it has one, by name otherwise.
TpStoreFound(s) == IF s.id # TpNone THEN s.id \in tpLive \cap TpStores
                   ELSE \E r \in tpLive \cap TpStores : TpNameOf[r] = s.name

\* Steps that depend on a resource: a connection when one is named, every
\* data store step and every call of a workflow.
TpNeeds(d) == {i \in DOMAIN d : \/ TpKind(d[i]) # "CONNECTION"
                                \/ d[i].id # TpNone}

\* What the definition alone says of a dependency.
TpExtracted(s) == CASE TpKind(s) = "DATA_STORE" /\ s.dynamic -> "UNSUPPORTED"
                    [] s.id = TpNone /\ s.name = TpNone -> "MISSING"
                    [] OTHER -> "REQUIRES_MAPPING"

\* Whether the resource the source names is there now.
TpSourceFound(s) ==
  CASE TpKind(s) = "CONNECTION" -> s.id \in tpLive /\ TpTypeOf[s.id] = TpExpects(s)
    [] TpKind(s) = "DATA_STORE" -> TpStoreFound(s)
    [] OTHER -> s.id \in tpLive

TpClass(s) == IF TpExtracted(s) = "REQUIRES_MAPPING" /\ ~ TpSourceFound(s)
              THEN "MISSING" ELSE TpExtracted(s)

TpManifest(d) == [i \in TpNeeds(d) |-> TpClass(d[i])]

\* normalizePortableDefinition refuses a definition with a sensitive field.
TpPortable(d) == \A i \in DOMAIN d : ~ d[i].secret

\* a variant: a mapped store keeps the name it had
TpApplyKeepsName(d, resolved) ==
  [i \in DOMAIN d |->
     IF i \notin TpNeeds(d) \/ ~ \E n \in DOMAIN resolved : resolved[n].key = i THEN d[i]
     ELSE LET m == resolved[SelectLastInSeq(resolved, LAMBDA e : e.key = i)] IN
          CASE TpKind(d[i]) = "CONNECTION" -> [d[i] EXCEPT !.id = m.id]
            [] TpKind(d[i]) = "DATA_STORE" -> [d[i] EXCEPT !.id = m.id]
            [] OTHER -> [d[i] EXCEPT !.id = m.id, !.version = IF d[i].pinned THEN m.version ELSE TpNone]]

\* The definition with the resolved mappings written into it: a mapped store
\* is named by id only, a mapped workflow by its version only when pinned.
TpApply(d, resolved) ==
  [i \in DOMAIN d |->
     IF i \notin TpNeeds(d) \/ ~ \E n \in DOMAIN resolved : resolved[n].key = i THEN d[i]
     ELSE LET m == resolved[SelectLastInSeq(resolved, LAMBDA e : e.key = i)] IN
          CASE TpKind(d[i]) = "CONNECTION" -> [d[i] EXCEPT !.id = m.id]
            [] TpKind(d[i]) = "DATA_STORE" -> [d[i] EXCEPT !.id = m.id, !.name = TpNone]
            [] OTHER -> [d[i] EXCEPT !.id = m.id, !.version = IF d[i].pinned THEN m.version ELSE TpNone]]

-----------------------------------------------------------------------------
(* Validation                                                              *)

\* assertConnection: an active connection of the type the step needs.
TpConnectionActive(s) == s.id \in tpLive /\ TpTypeOf[s.id] = TpExpects(s)

\* Only requests and e-mails have their connection looked at.
TpConnectionValid(s) ==
  s.type \in {"http_request", "email_notification"} /\ s.id # TpNone => TpConnectionActive(s)

\* A call of a workflow: the target exists and the version it names, or its
\* active one, is published.
TpCallValid(s) == /\ s.id \in tpLive
                  /\ TpTypeOf[s.id] = "workflow"
                  /\ s.pinned => s.version = s.id

\* What publishing, and making a workflow of a template, asks of a definition.
TpStoredValid(d) ==
  \A i \in DOMAIN d :
    /\ ~ d[i].secret
    /\ d[i].type = "execute_workflow" => TpCallValid(d[i])
    /\ TpConnectionValid(d[i])
    /\ d[i].type = "data_store_get" /\ ~ d[i].dynamic => TpStoreFound(d[i])

\* What the preview of a restore reports missing: a named connection that is
\* not active, whatever its type, an unavailable store or call.
TpMissing(s) ==
  \/ TpKind(s) = "CONNECTION" /\ s.id # TpNone /\ s.id \notin tpLive
  \/ s.type = "data_store_get" /\ ~ s.dynamic /\ ~ TpStoreFound(s)
  \/ s.type = "execute_workflow" /\ ~ TpCallValid(s)

\* restorePreview's "publishable".
TpPublishable(d) == \A i \in DOMAIN d : ~ TpMissing(d[i]) /\ ~ d[i].secret

\* Whether a mapping's target fits the dependency.
TpMappingValid(s, m) ==
  /\ m.id \in tpLive
  /\ CASE TpKind(s) = "CONNECTION" -> TpTypeOf[m.id] = TpExpects(s)
       [] TpKind(s) = "DATA_STORE" -> m.id \in TpStores
       [] OTHER -> TpTypeOf[m.id] = "workflow" /\ (s.pinned => m.version = m.id)

\* The first mapping of the list that is for the step, as mappings.find.
TpGiven(list, i) == list[SelectInSeq(list, LAMBDA m : m.key = i)]

\* The mappings of a clone: the references of the source by id, each replaced
\* by the last one the request gives for it.
TpMerged(d, list) ==
  LET own == {i \in TpNeeds(d) : d[i].id # TpNone /\ ~ d[i].dynamic}
      given == {list[n].key : n \in DOMAIN list}
      Mapping(k) == IF k \in given THEN list[SelectLastInSeq(list, LAMBDA m : m.key = k)]
                    ELSE [key |-> k, id |-> d[k].id, version |-> d[k].version]
  IN SetToSeq({Mapping(k) : k \in own \cup given})

\* buildPreview leaves no blocker: no mapping twice or for nothing, every
\* dependency mappable and mapped to a resource that fits, and the mapped
\* definition valid.
TpReady(d, manifest, list) ==
  /\ \A m, n \in DOMAIN list : list[m].key = list[n].key => m = n
  /\ \A n \in DOMAIN list : list[n].key \in DOMAIN manifest
  /\ \A i \in DOMAIN manifest :
        /\ manifest[i] \notin {"MISSING", "UNSUPPORTED"}
        /\ \E n \in DOMAIN list : list[n].key = i
        /\ TpMappingValid(d[i], TpGiven(list, i))
  /\ TpStoredValid(TpApply(d, list))

-----------------------------------------------------------------------------
(* Requests                                                                *)

TpDone(u) == tpCalls' = [tpCalls EXCEPT ![u] = TpIdle]
TpGoOn(u, call) == tpCalls' = [tpCalls EXCEPT ![u] = call]
TpOf(u, op, at) == tpCalls[u].op = op /\ tpCalls[u].at = at

TpAsked ==
       {[op |-> op, at |-> "start", source |-> d] : op \in {"create", "version"}, d \in TpDefinitions}
  \cup {[op |-> "publish", at |-> "start", n |-> n] : n \in 1..TpMaxVersions}
  \cup {[op |-> "archive", at |-> "start"]}
  \cup {[op |-> "instantiate", at |-> "start", n |-> n, list |-> l] : n \in 1..TpMaxVersions, l \in TpMappingLists}
  \cup {[op |-> "clone", at |-> "start", source |-> d, list |-> l] : d \in TpDefinitions, l \in TpMappingLists}

\* A user sends a request.  One template is modelled, so only one is created;
\* clones use none and are made before.
TpAsk(u) ==
  /\ tpCalls[u] = TpIdle
  /\ tpLeft.calls > 0
  /\ \E call \in TpAsked :
        /\ call.op = "clone" => tpStatus = "none"
        /\ call.op = "create" => tpStatus = "none" /\ \A v \in TpUsers : tpCalls[v].op # "create"
        /\ call.op \in {"version", "publish", "archive", "instantiate"} => tpStatus # "none"
        /\ call.op = "version" =>
             Len(tpVersions) + Cardinality({v \in TpUsers : tpCalls[v].op = "version"}) < TpMaxVersions
        /\ TpGoOn(u, call)
  /\ tpLeft' = [tpLeft EXCEPT !.calls = @ - 1]
  /\ UNCHANGED <<tpLive, tpGone, tpStatus, tpVersions, tpMade>>

\* sourceSnapshot: the portable definition of a workflow version and its
\* manifest, classified by the resources there are now.
TpSourceSnapshot(u) ==
  LET call == tpCalls[u] IN
  /\ call.op \in {"create", "version", "clone"} /\ call.at = "start"
  /\ IF TpPortable(call.source)
     THEN TpGoOn(u, [at |-> IF call.op = "clone" THEN "preview" ELSE "write",
                     manifest |-> TpManifest(call.source)] @@ call)
     ELSE TpDone(u)
  /\ UNCHANGED <<tpLive, tpGone, tpStatus, tpVersions, tpMade, tpLeft>>

\* createFromWorkflowVersion's transaction: the template and its version 1.
TpCreateFromWorkflowVersion(u) ==
  /\ TpOf(u, "create", "write")
  /\ tpStatus' = "DRAFT"
  /\ tpVersions' = <<[definition |-> tpCalls[u].source, manifest |-> tpCalls[u].manifest, published |-> FALSE]>>
  /\ TpDone(u)
  /\ UNCHANGED <<tpLive, tpGone, tpMade, tpLeft>>

\* createVersion's transaction: the template's row is locked, so its status
\* and the latest number are those of the moment it commits.
TpCreateVersion(u) ==
  /\ TpOf(u, "version", "write")
  /\ IF tpStatus = "ARCHIVED" THEN UNCHANGED tpVersions
     ELSE tpVersions' = Append(tpVersions, [definition |-> tpCalls[u].source,
                                            manifest |-> tpCalls[u].manifest, published |-> FALSE])
  /\ TpDone(u)
  /\ UNCHANGED <<tpLive, tpGone, tpStatus, tpMade, tpLeft>>

\* publish: under the same lock, refused for an archived template and for a
\* version that is published already or not there.
TpPublish(u) ==
  /\ TpOf(u, "publish", "start")
  /\ LET n == tpCalls[u].n IN
     IF tpStatus # "ARCHIVED" /\ n \in DOMAIN tpVersions /\ ~ tpVersions[n].published
     THEN /\ tpVersions' = [tpVersions EXCEPT ![n].published = TRUE]
          /\ tpStatus' = "PUBLISHED"
     ELSE UNCHANGED <<tpVersions, tpStatus>>
  /\ TpDone(u)
  /\ UNCHANGED <<tpLive, tpGone, tpMade, tpLeft>>

\* archive reads the status without a lock ...
TpArchiveRead(u) ==
  /\ TpOf(u, "archive", "start")
  /\ IF tpStatus = "ARCHIVED" THEN TpDone(u) ELSE TpGoOn(u, [tpCalls[u] EXCEPT !.at = "write"])
  /\ UNCHANGED <<tpLive, tpGone, tpStatus, tpVersions, tpMade, tpLeft>>

\* ... and writes by id: a second archive that has read before the first
\* wrote succeeds as well.
TpArchiveWrite(u) ==
  /\ TpOf(u, "archive", "write")
  /\ tpStatus' = "ARCHIVED"
  /\ TpDone(u)
  /\ UNCHANGED <<tpLive, tpGone, tpVersions, tpMade, tpLeft>>

\* instantiate loads the version and refuses one that is not published.
TpLoad(u) ==
  LET call == tpCalls[u] IN
  /\ TpOf(u, "instantiate", "start")
  /\ IF /\ call.n \in DOMAIN tpVersions
        /\ tpStatus = "PUBLISHED" /\ tpVersions[call.n].published
     THEN TpGoOn(u, [at |-> "preview", source |-> tpVersions[call.n].definition,
                     manifest |-> tpVersions[call.n].manifest] @@ call)
     ELSE TpDone(u)
  /\ UNCHANGED <<tpLive, tpGone, tpStatus, tpVersions, tpMade, tpLeft>>

\* buildPreview: the mapped definition, or a refusal.
TpBuildPreview(u) ==
  LET call == tpCalls[u]
      list == IF call.op = "clone" THEN TpMerged(call.source, call.list) ELSE call.list
  IN /\ call.op \in {"instantiate", "clone"} /\ call.at = "preview"
     /\ IF TpReady(call.source, call.manifest, list)
        THEN TpGoOn(u, [at |-> "validate", definition |-> TpApply(call.source, list)] @@ call)
        ELSE TpDone(u)
     /\ UNCHANGED <<tpLive, tpGone, tpStatus, tpVersions, tpMade, tpLeft>>

\* materialize validates the definition once more before its transaction.
TpValidateAgain(u) ==
  LET call == tpCalls[u] IN
  /\ call.op \in {"instantiate", "clone"} /\ call.at = "validate"
  /\ IF TpStoredValid(call.definition) THEN TpGoOn(u, [call EXCEPT !.at = "write"]) ELSE TpDone(u)
  /\ UNCHANGED <<tpLive, tpGone, tpStatus, tpVersions, tpMade, tpLeft>>
\* The draft workflow made of a request's definition.
TpDraft(call) == [op |-> call.op, source |-> call.source, list |-> call.list, definition |-> call.definition]

\* materialize's transaction: the template is read again, with a share lock,
\* when the workflow is made from one.
TpMaterialize(u) ==
  LET call == tpCalls[u] IN
  /\ call.op \in {"instantiate", "clone"} /\ call.at = "write"
  /\ IF call.op = "instantiate" => tpStatus = "PUBLISHED" /\ tpVersions[call.n].published
     THEN tpMade' = tpMade \cup {TpDraft(call)}
     ELSE UNCHANGED tpMade
  /\ TpDone(u)
  /\ UNCHANGED <<tpLive, tpGone, tpStatus, tpVersions, tpLeft>>

\* Another user deletes a connection or a data store (workflows are never
\* deleted), or creates one; a store needs a name no other store has.
TpResourceChange ==
  /\ tpLeft.changes > 0
  /\ \E r \in TpResources :
       \/ /\ r \in tpLive
          /\ TpTypeOf[r] \notin {"workflow", "unpublished"}
          /\ tpLive' = tpLive \ {r} /\ tpGone' = tpGone \cup {r}
       \/ /\ r \notin tpLive \cup tpGone
          /\ r \in TpStores => \A o \in TpStores \cap tpLive : TpNameOf[o] # TpNameOf[r]
          /\ tpLive' = tpLive \cup {r} /\ UNCHANGED tpGone
  /\ tpLeft' = [tpLeft EXCEPT !.changes = @ - 1]
  /\ UNCHANGED <<tpStatus, tpVersions, tpCalls, tpMade>>

\* There is no template yet, or one with a published version.  Two stores
\* never have one name.
TpInit ==
  /\ tpLive \in {TpResources \ missing : missing \in {{}} \cup {{r} : r \in TpResources}}
  /\ \A r, o \in tpLive \cap TpStores : TpNameOf[r] = TpNameOf[o] => r = o
  /\ tpGone = {}
  /\ \/ tpStatus = "none" /\ tpVersions = <<>>
     \/ /\ tpStatus = "PUBLISHED"
        /\ \E d \in TpDefinitions :
             TpPortable(d) /\ tpVersions = <<[definition |-> d, manifest |-> TpManifest(d), published |-> TRUE]>>
  /\ tpCalls = [u \in TpUsers |-> TpIdle]
  /\ tpMade = {}
  /\ tpLeft = [calls |-> TpMaxCalls, changes |-> TpMaxChanges]

TpNext ==
  \/ TpResourceChange
  \/ \E u \in TpUsers :
       \/ TpAsk(u) \/ TpSourceSnapshot(u) \/ TpCreateFromWorkflowVersion(u) \/ TpCreateVersion(u)
       \/ TpPublish(u) \/ TpArchiveRead(u) \/ TpArchiveWrite(u)
       \/ TpLoad(u) \/ TpBuildPreview(u) \/ TpValidateAgain(u) \/ TpMaterialize(u)

TpSpec == TpInit /\ [][TpNext]_tpVars

-----------------------------------------------------------------------------
(* Properties                                                              *)

\* The state is well formed: a template exists exactly when it has versions,
\* and its status is PUBLISHED only with a published version.
TpTypeOK ==
  /\ tpLive \subseteq TpResources /\ tpGone \subseteq TpResources \ tpLive
  /\ tpStatus \in {"none", "DRAFT", "PUBLISHED", "ARCHIVED"}
  /\ tpStatus = "none" <=> tpVersions = <<>>
  /\ tpStatus = "PUBLISHED" => \E n \in DOMAIN tpVersions : tpVersions[n].published
  /\ tpStatus = "DRAFT" => \A n \in DOMAIN tpVersions : ~ tpVersions[n].published
  /\ \A w \in tpMade : w.definition \in Seq(TpStep)

\* A workflow made from a template or a clone refers only to what the request
\* mapped: each dependency names, by id, the resource given for it, in a
\* clone the source's own when none was given.  No store is left selected by
\* a name of the source, and a version is pinned only to the workflow mapped
\* (applyMappings, mergeAutoMappings).
TpRefersAsMapped ==
  \A w \in tpMade : \A i \in DOMAIN w.source :
    LET old == w.source[i]
        new == w.definition[i]
        chosen == {w.list[n] : n \in {n \in DOMAIN w.list : w.list[n].key = i}}
    IN old.type \in {"data_store_get", "execute_workflow"} \/ old.id # TpNone =>
         /\ new.name = TpNone
         /\ new.id \in IF chosen # {} THEN {m.id : m \in chosen}
                       ELSE IF w.op = "clone" THEN {old.id} \ {TpNone} ELSE {}
         /\ new.version # TpNone => new.version = new.id

\* Nothing about an archived template changes: no version is added to it or
\* published, and it is never published again, whatever requests were under
\* way when it was archived ("Archived templates are immutable").
TpArchivedIsFinal ==
  tpStatus = "ARCHIVED" => UNCHANGED <<tpStatus, tpVersions>>

\* No workflow is made from a template that is not published at that moment,
\* even when it was archived after the request had loaded and validated it
\* (the FOR SHARE guard of materialize).
TpMadeWhilePublished ==
  \A w \in tpMade' \ tpMade : w.op = "instantiate" => tpStatus = "PUBLISHED"

\* What the preview of a restore calls publishable passes the validation of
\* publishing, as long as the resources stay (inspectDependencies and
\* validateStoredDefinitionForPublish look at the same references).
TpPreviewPredictsPublish ==
  \A d \in TpDefinitions : TpPublishable(d) => TpStoredValid(d)
=============================================================================
