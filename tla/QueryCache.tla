----------------------------- MODULE QueryCache -----------------------------
(***************************************************************************)
(* What a page of the web application shows: the hooks of                  *)
(* apps/web/features/*/hooks.ts over the query cache they share, one       *)
(* browser tab with its active organization, and the server that answers.  *)
(*                                                                         *)
(* The hooks are tables: a query has a key and the server state it reads,  *)
(* a mutation the state it writes and the keys it invalidates. Entries of  *)
(* the cache do not influence each other, so a behaviour watches one query *)
(* of a page beside one mutation of the same page. The server state both   *)
(* are about is one version number per organization. The cache itself is   *)
(* TanStack Query 5 with the defaults of query-provider.tsx: nothing stays *)
(* fresh, one retry, refetch on mount and on focus.                        *)
(***************************************************************************)
EXTENDS Naturals, Sequences, SequencesExt, FiniteSets, TLC

CONSTANTS
  QcOrgs,        \* the user's organizations
  QcStages,      \* the statuses an execution or test run goes through
  QcMaxVersion,  \* bound: changes of the server state
  QcMaxSwitches, \* bound: changes of the active organization
  QcMaxFaults    \* bound: failed requests and expired access tokens

ASSUME QcAssumption ==
  /\ QcOrgs # {} /\ QcMaxVersion \in Nat /\ QcMaxVersion < Len(QcStages)
  /\ QcMaxSwitches \in Nat /\ QcMaxFaults \in Nat

-----------------------------------------------------------------------------
(* The hooks. "ORG" stands for useAuth().activeOrganizationId.             *)

QcQuery(key, reads) == [key |-> key, reads |-> reads, polls |-> {}]
QcPolling(key, reads, polls) == [key |-> key, reads |-> reads, polls |-> polls]
QcMutation(writes, keys) == [writes |-> writes, keys |-> keys]

QcWorkflowHooks ==
  [queries |->
     [useWorkflows |-> QcQuery(<<"workflows">>, {"workflow", "active"}),
      useWorkflowVersions |-> QcQuery(<<"workflows", "w", "versions">>, {"version"}),
      useWorkflowVersionDiff |-> QcQuery(<<"workflows", "w", "version-diff", "v", "v">>, {"version"}),
      useWorkflowRestorePreview |-> QcQuery(<<"workflows", "w", "restore-preview", "v">>, {"version"}),
      useInvocableWorkflows |-> QcQuery(<<"workflows", "invocable">>, {"workflow", "active"}),
      useWorkflow |-> QcQuery(<<"workflows", "w">>, {"workflow", "active", "version"}),
      useWorkflowTestRuns |-> QcQuery(<<"workflows", "w", "test-runs", "ORG">>, {"test"}),
      useWorkflowTestRun |-> QcPolling(<<"workflows", "w", "test-runs", "t", "ORG">>, {"test"},
                                       {"QUEUED", "RUNNING", "RETRYING"}),
      useCompareTestRunWithLastReal |->
        QcQuery(<<"workflows", "w", "test-runs", "t", "compare-last-real", "ORG">>, {"test"})],
   mutations |->
     [useRestoreWorkflowVersion |->
        QcMutation({"version"}, {<<"workflows", "w">>, <<"workflows", "w", "versions">>}),
      useCreateWorkflow |-> QcMutation({"workflow"}, {<<"workflows">>}),
      useCreateWorkflowVersion |->
        QcMutation({"version"}, {<<"workflows">>, <<"workflows", "w">>}),
      useActivateWorkflowVersion |->
        QcMutation({"workflow", "active", "version"}, {<<"workflows">>, <<"workflows", "w">>}),
      useCreateWorkflowTestRun |-> QcMutation({"test"}, {<<"workflows", "w", "test-runs">>}),
      useCancelWorkflowTestRun |-> QcMutation({"test"}, {<<"workflows", "w", "test-runs">>}),
      useRerunWorkflowTestRun |-> QcMutation({"test"}, {<<"workflows", "w", "test-runs">>}),
      useSkipTestWait |-> QcMutation({"test"}, {<<"workflows", "w", "test-runs">>})]]

QcTriggerHooks ==
  LET change(resource, head) == QcMutation({resource}, {<<head, "w">>})
      webhook == change("trigger", "triggers")
      scheduled == change("schedule", "scheduled-triggers")
      event == change("eventTrigger", "event-triggers")
  IN [queries |->
        [useTriggers |-> QcQuery(<<"triggers", "w">>, {"trigger"}),
         useScheduledTriggers |-> QcQuery(<<"scheduled-triggers", "w">>, {"schedule"}),
         useEventTriggers |-> QcQuery(<<"event-triggers", "w">>, {"eventTrigger"})],
      mutations |->
        [useCreateWebhookTrigger |-> webhook, useUpdateWebhookTrigger |-> webhook,
         useEnableWebhookTrigger |-> webhook, useDisableWebhookTrigger |-> webhook,
         useDeleteWebhookTrigger |-> webhook, useRotateWebhookTrigger |-> webhook,
         useCreateScheduledTrigger |-> scheduled, useUpdateScheduledTrigger |-> scheduled,
         useEnableScheduledTrigger |-> scheduled, useDisableScheduledTrigger |-> scheduled,
         usePauseScheduledTrigger |-> scheduled, useResumeScheduledTrigger |-> scheduled,
         useDeleteScheduledTrigger |-> scheduled,
         usePreviewScheduledTrigger |-> QcMutation({}, {}),
         useCreateEventTrigger |-> event, useUpdateEventTrigger |-> event,
         useEnableEventTrigger |-> event, useDisableEventTrigger |-> event,
         useDeleteEventTrigger |-> event]]

\* a variant: the rotation names the key of a single connection
QcConnectionHooksOne ==
  LET change == QcMutation({"connection"}, {<<"connection", "ORG", "c">>})
  IN [queries |-> [useConnections |-> QcQuery(<<"connections", "ORG", "filters">>, {"connection"})],
      mutations |-> [useRotateConnection |-> change, useTestConnection |-> change]]

QcConnectionHooks ==
  LET change == QcMutation({"connection"}, {<<"connections", "ORG">>})
  IN [queries |-> [useConnections |-> QcQuery(<<"connections", "ORG", "filters">>, {"connection"})],
      mutations |->
        [useCreateConnection |-> change, useUpdateConnection |-> change,
         useRotateConnection |-> change, useRevokeConnection |-> change,
         useEnableConnection |-> change, useDisableConnection |-> change,
         useDeleteConnection |-> change,
         useTestConnection |-> QcMutation({"connection"}, {})]]

(* The summary of a store counts its records.                              *)
QcDataStoreHooks ==
  LET change == QcMutation({"store", "record"}, {<<"data-stores", "ORG">>})
  IN [queries |->
        [useDataStores |-> QcQuery(<<"data-stores", "ORG">>, {"store", "record"}),
         useDataStoreRecords |->
           QcQuery(<<"data-stores", "ORG", "s", "records", "page">>, {"record"})],
      mutations |->
        [useCreateDataStore |-> change, useUpdateDataStore |-> change,
         useDeleteDataStore |-> change,
         useDeleteDataStoreRecord |->
           QcMutation({"record"}, {<<"data-stores", "ORG", "s", "records">>})]]

QcApprovalHooks ==
  [queries |->
     [useApprovals |-> QcQuery(<<"approvals", "ORG", "status", "page">>, {"approval"}),
      useApproval |-> QcQuery(<<"approval", "ORG", "a">>, {"approval"})],
   mutations |->
     [useDecideApproval |-> QcMutation({"approval"}, {<<"approvals">>, <<"approval">>})]]

QcTemplateHooks ==
  [queries |->
     [useTemplates |-> QcQuery(<<"templates", "status">>, {"template"}),
      useTemplate |-> QcQuery(<<"templates", "m">>, {"template"}),
      useTemplateVersions |-> QcQuery(<<"templates", "m", "versions">>, {"template"}),
      useTemplateVersion |-> QcQuery(<<"templates", "m", "versions", "v">>, {"template"})],
   mutations |->
     [useCreateTemplate |-> QcMutation({"template"}, {<<"templates">>}),
      usePublishTemplate |-> QcMutation({"template"}, {<<"templates", "m">>}),
      useArchiveTemplate |-> QcMutation({"template"}, {<<"templates">>}),
      useInstantiateTemplate |-> QcMutation({"workflow"}, {<<"workflows">>}),
      useCloneWorkflow |-> QcMutation({"workflow"}, {<<"workflows">>})]]

QcNotificationHooks ==
  [queries |->
     [useNotificationRules |-> QcQuery(<<"notification-rules", "ORG">>, {"rule"}),
      useNotifications |-> QcQuery(<<"notifications", "ORG", "status", "page">>, {"notification"}),
      useNotification |-> QcQuery(<<"notification", "ORG", "n">>, {"notification"})],
   mutations |->
     [useNotificationRuleMutations |-> QcMutation({"rule"}, {<<"notification-rules">>}),
      useRetryNotification |->
        QcMutation({"notification"}, {<<"notification">>, <<"notifications">>})]]

QcAuditLogHooks ==
  [useAuditLogs |-> QcQuery(<<"audit-logs", "ORG", "filters", "page">>, {"audit"})]

\* a variant: polled only until the worker has taken it
QcExecutionHooksQueued ==
  [queries |->
     [useExecutions |-> QcQuery(<<"executions", "ORG", "params">>, {"execution"}),
      useExecutionTimeline |-> QcQuery(<<"execution-timeline", "ORG", "x">>, {"history"}),
      useExecutionTree |-> QcQuery(<<"execution-tree", "ORG", "x">>, {"history"}),
      useExecution |-> QcPolling(<<"execution", "ORG", "x">>, {"execution"}, {"QUEUED"}),
      useReplayPreview |-> QcQuery(<<"execution-replay-preview", "ORG", "x", "mode">>, {"version"})],
   mutations |->
     [useCreateManualExecution |-> QcMutation({"execution"}, {<<"executions">>}),
      useCancelExecution |-> QcMutation({"execution"}, {<<"execution", "ORG", "x">>}),
      useReplayExecution |-> QcMutation({"execution"}, {<<"execution", "ORG", "x">>})]]

(* "history" is what the timeline and the tree are made of.                *)
QcExecutionHooks ==
  [queries |->
     [useExecutions |-> QcQuery(<<"executions", "ORG", "params">>, {"execution"}),
      useExecutionTimeline |-> QcQuery(<<"execution-timeline", "ORG", "x">>, {"history"}),
      useExecutionTree |-> QcQuery(<<"execution-tree", "ORG", "x">>, {"history"}),
      useExecution |-> QcPolling(<<"execution", "ORG", "x">>, {"execution"},
                                 {"QUEUED", "RUNNING", "RETRYING", "PENDING"}),
      useReplayPreview |-> QcQuery(<<"execution-replay-preview", "ORG", "x", "mode">>, {"version"})],
   mutations |->
     [useCreateManualExecution |->
        QcMutation({"execution"}, {<<"executions">>, <<"workflows", "w">>}),
      useCancelExecution |->
        QcMutation({"execution", "history"}, {<<"execution", "ORG", "x">>, <<"executions">>}),
      useReplayExecution |->
        QcMutation({"execution", "audit"},
                   {<<"executions">>, <<"execution", "ORG", "x">>, <<"audit-logs">>})]]

QcDeadLetterHooks ==
  [queries |->
     [useDeadLetterExecutions |->
        QcQuery(<<"dead-letter-executions", "ORG", "filters", "page">>, {"letter"}),
      useDeadLetterExecution |-> QcQuery(<<"dead-letter-execution", "ORG", "l">>, {"letter"})],
   mutations |->
     [useRetryExecution |->
        QcMutation({"letter", "execution", "audit"},
          {<<"dead-letter-executions">>, <<"dead-letter-execution", "ORG", "l">>,
           <<"executions">>, <<"execution", "ORG", "x">>, <<"audit-logs">>})]]

QcQueries ==
  QcWorkflowHooks.queries @@ QcTriggerHooks.queries @@ QcConnectionHooks.queries
  @@ QcDataStoreHooks.queries @@ QcApprovalHooks.queries @@ QcTemplateHooks.queries
  @@ QcNotificationHooks.queries @@ QcExecutionHooks.queries
  @@ QcDeadLetterHooks.queries @@ QcAuditLogHooks

QcMutations ==
  QcWorkflowHooks.mutations @@ QcTriggerHooks.mutations @@ QcConnectionHooks.mutations
  @@ QcDataStoreHooks.mutations @@ QcApprovalHooks.mutations @@ QcTemplateHooks.mutations
  @@ QcNotificationHooks.mutations @@ QcExecutionHooks.mutations
  @@ QcDeadLetterHooks.mutations @@ ("none" :> QcMutation({}, {}))

(* What is on screen together.                                             *)
QcPages ==
  LET page(queries, mutations) == [queries |-> queries, mutations |-> mutations]
      of(file) == DOMAIN file.mutations
  IN {page({"useWorkflows"}, {"useCreateWorkflow"}),
      page({"useWorkflow", "useWorkflowVersions", "useWorkflowVersionDiff", "useTriggers",
            "useWorkflowRestorePreview", "useScheduledTriggers", "useEventTriggers",
            "useWorkflows", "useInvocableWorkflows", "useConnections", "useDataStores",
            "useWorkflowTestRuns", "useWorkflowTestRun", "useCompareTestRunWithLastReal"},
           {"useCreateWorkflowVersion", "useActivateWorkflowVersion", "useCloneWorkflow",
            "useRestoreWorkflowVersion", "useCreateTemplate", "useCreateManualExecution",
            "useCreateWorkflowTestRun", "useCancelWorkflowTestRun",
            "useRerunWorkflowTestRun", "useSkipTestWait"} \cup of(QcTriggerHooks)),
      page({"useConnections"}, of(QcConnectionHooks) \ {"useRevokeConnection"}),
      page({"useDataStores", "useDataStoreRecords"}, of(QcDataStoreHooks)),
      page({"useApprovals"}, {}),
      page({"useApproval"}, {"useDecideApproval"}),
      page({"useTemplates"}, {}),
      page({"useTemplate", "useTemplateVersions", "useTemplateVersion", "useConnections",
            "useDataStores", "useInvocableWorkflows"},
           {"usePublishTemplate", "useArchiveTemplate", "useInstantiateTemplate"}),
      page({"useNotificationRules", "useNotifications"}, {"useNotificationRuleMutations"}),
      page({"useNotification"}, {"useRetryNotification"}),
      page({"useAuditLogs"}, {}),
      page({"useExecutions", "useWorkflows"}, {}),
      page({"useExecution", "useExecutionTimeline", "useExecutionTree", "useReplayPreview"},
           {"useCancelExecution", "useReplayExecution", "useRetryExecution"}),
      page({"useDeadLetterExecutions"}, {"useRetryExecution"}),
      page({"useDeadLetterExecution"}, {"useRetryExecution"})}

QcFill(key, org) == [i \in DOMAIN key |-> IF key[i] = "ORG" THEN org ELSE key[i]]
QcConcerns(m, q) == QcMutations[m].writes \cap QcQueries[q].reads # {}

(* Mutations that leave a query of their page as it was until its next     *)
(* fetch.                                                                  *)
QcGaps ==
  {<<"useExecutionTimeline", "useCancelExecution">>, <<"useExecutionTree", "useCancelExecution">>,
   <<"useConnections", "useTestConnection">>, <<"useDataStores", "useDeleteDataStoreRecord">>}

(* A query with a mutation beside it that changes what it shows, or alone, *)
(* as the cache tells them apart: does the key name the organization, what *)
(* is polled, and with which organization's prefixes is which organi-      *)
(* zation's key invalidated.                                               *)
QcWatch(q, m) ==
  [keyed |-> \E i \in DOMAIN QcQueries[q].key : QcQueries[q].key[i] = "ORG",
   polls |-> QcQueries[q].polls,
   changes |-> m # "none",
   hits |-> {<<render, org>> \in QcOrgs \X QcOrgs :
               \E prefix \in QcMutations[m].keys :
                 IsPrefix(QcFill(prefix, render), QcFill(QcQueries[q].key, org))},
   gap |-> <<q, m>> \in QcGaps]

QcWatches ==
  UNION {LET pairs == {<<q, m>> \in p.queries \X p.mutations : QcConcerns(m, q)}
         IN {QcWatch(x[1], x[2]) : x \in pairs}
            \cup {QcWatch(q, "none") : q \in {r \in p.queries : \A x \in pairs : x[1] # r}}
         : p \in QcPages}
-----------------------------------------------------------------------------
VARIABLES
  qcWatch,              \* the query and the mutation that are watched
  qcMounted,            \* the page is open
  qcOrg,                \* the active organization of the tab
  qcStored,             \* the one in localStorage, which other tabs change too
  qcCache,              \* the entries of the watched query, by key
  qcServer,             \* the version of the state, per organization
  qcPending,            \* the mutation that waits for its answer, or QcNone
  qcOwn,                \* the change answered while the entry was on screen
  qcSwitches, qcFaults

qcVars == <<qcWatch, qcMounted, qcOrg, qcStored, qcCache, qcServer,
            qcPending, qcOwn, qcSwitches, qcFaults>>

QcNone == <<>>
QcKey(org) == IF qcWatch.keyed THEN org ELSE "all"
QcEmpty == [data |-> QcNone, error |-> FALSE, fetch |-> QcNone]

(* requestHeaders: a request carries the active organization of the moment *)
(* it is sent.                                                             *)
QcRequest(org) ==
  [org |-> org, at |-> "sent", version |-> 0, retried |-> FALSE, again |-> FALSE]

(* Query.fetch: one request at a time. An invalidation replaces the one on *)
(* its way if there are data to show meanwhile; else it is waited for.     *)
QcFetch(entry, org, cancel) ==
  IF entry.fetch # QcNone /\ ~(cancel /\ entry.data # QcNone) THEN entry
  ELSE [entry EXCEPT !.fetch = QcRequest(org)]

QcInit ==
  /\ qcWatch \in QcWatches
  /\ qcMounted = FALSE
  /\ qcOrg = CHOOSE o \in QcOrgs : TRUE
  /\ qcStored = qcOrg
  /\ qcCache = [k \in {QcKey(o) : o \in QcOrgs} |-> QcEmpty]
  /\ qcServer = [o \in QcOrgs |-> 0]
  /\ qcPending = QcNone
  /\ qcOwn = [o \in QcOrgs |-> 0]
  /\ qcSwitches = 0 /\ qcFaults = 0

QcChanges == FoldFunction(+, 0, qcServer)
QcUpdate(key, entry) == qcCache' = [qcCache EXCEPT ![key] = entry]
QcRefetch(org, cancel) == QcUpdate(QcKey(org), QcFetch(qcCache[QcKey(org)], org, cancel))
QcActive(key) == qcMounted /\ key = QcKey(qcOrg)
-----------------------------------------------------------------------------
QcMount ==
  /\ ~qcMounted /\ qcMounted' = TRUE
  /\ QcRefetch(qcOrg, FALSE)
  /\ UNCHANGED <<qcWatch, qcOrg, qcStored, qcServer, qcPending, qcOwn,
                 qcSwitches, qcFaults>>

QcUnmount ==
  /\ qcMounted /\ qcMounted' = FALSE
  /\ UNCHANGED <<qcWatch, qcOrg, qcStored, qcCache, qcServer, qcPending,
                 qcOwn, qcSwitches, qcFaults>>

(* The window gets the focus, or the refetchInterval is over: a status     *)
(* that is not one of those polled ends the polling.                       *)
QcShownStatus == QcStages[qcCache[QcKey(qcOrg)].data.version + 1]
QcPolled ==
  /\ qcMounted /\ qcCache[QcKey(qcOrg)].data # QcNone
  /\ QcShownStatus \in qcWatch.polls

QcAgain ==
  /\ qcCache[QcKey(qcOrg)].fetch = QcNone
  /\ QcRefetch(qcOrg, FALSE)
  /\ UNCHANGED <<qcWatch, qcMounted, qcOrg, qcStored, qcServer, qcPending,
                 qcOwn, qcSwitches, qcFaults>>

QcFocus == qcMounted /\ QcAgain
QcPoll == QcPolled /\ QcAgain

(* A render with another organization: a key that names it is another      *)
(* entry, which is fetched as on mount; one that does not is left alone.   *)
QcRendered(org) ==
  /\ qcOrg' = org
  /\ qcPending' = IF qcPending # QcNone /\ qcMounted
                    THEN [qcPending EXCEPT !.render = org] ELSE qcPending

(* setActiveOrganizationId.                                                *)
QcSwitch ==
  /\ qcSwitches < QcMaxSwitches /\ qcSwitches' = qcSwitches + 1
  /\ \E o \in QcOrgs \ {qcOrg} :
       /\ QcRendered(o) /\ qcStored' = o
       /\ IF qcMounted /\ qcWatch.keyed THEN QcRefetch(o, FALSE) ELSE UNCHANGED qcCache
  /\ UNCHANGED <<qcWatch, qcMounted, qcServer, qcOwn, qcFaults>>

QcSwitchElsewhere ==
  /\ qcSwitches < QcMaxSwitches /\ qcSwitches' = qcSwitches + 1
  /\ \E o \in QcOrgs \ {qcStored} : qcStored' = o
  /\ UNCHANGED <<qcWatch, qcMounted, qcOrg, qcCache, qcServer, qcPending,
                 qcOwn, qcFaults>>
-----------------------------------------------------------------------------
(* The server reads, and the answer is on its way.                         *)
QcServe(key) ==
  /\ qcCache[key].fetch # QcNone /\ qcCache[key].fetch.at = "sent"
  /\ QcUpdate(key, [qcCache[key] EXCEPT !.fetch.at = "answered",
                                        !.fetch.version = qcServer[qcCache[key].fetch.org]])
  /\ UNCHANGED <<qcWatch, qcMounted, qcOrg, qcStored, qcServer, qcPending,
                 qcOwn, qcSwitches, qcFaults>>

QcAnswer(key) ==
  /\ qcCache[key].fetch # QcNone /\ qcCache[key].fetch.at = "answered"
  /\ LET f == qcCache[key].fetch
     IN QcUpdate(key,
          [data |-> [org |-> f.org, version |-> f.version, again |-> f.again],
           error |-> FALSE, fetch |-> QcNone])
  /\ UNCHANGED <<qcWatch, qcMounted, qcOrg, qcStored, qcServer, qcPending,
                 qcOwn, qcSwitches, qcFaults>>

(* A request fails. It is sent once more while the entry is observed.      *)
QcFail(key) ==
  /\ qcFaults < QcMaxFaults /\ qcFaults' = qcFaults + 1
  /\ qcCache[key].fetch # QcNone
  /\ LET f == qcCache[key].fetch
     IN QcUpdate(key, IF ~f.retried /\ QcActive(key)
                        THEN [qcCache[key] EXCEPT !.fetch = [QcRequest(qcOrg)
                                                               EXCEPT !.retried = TRUE]]
                        ELSE [qcCache[key] EXCEPT !.error = TRUE, !.fetch = QcNone])
  /\ UNCHANGED <<qcWatch, qcMounted, qcOrg, qcStored, qcServer, qcPending,
                 qcOwn, qcSwitches>>

(* 401: request() refreshes the session, which takes the active            *)
(* organization from localStorage, and sends the request again.            *)
QcExpired(key) ==
  /\ qcFaults < QcMaxFaults /\ qcFaults' = qcFaults + 1
  /\ qcCache[key].fetch # QcNone /\ qcCache[key].fetch.at = "sent" /\ ~qcCache[key].fetch.again
  /\ QcRendered(qcStored)
  /\ LET sent == [qcCache EXCEPT ![key].fetch.org = qcStored, ![key].fetch.again = TRUE]
         shown == QcKey(qcStored)
     IN qcCache' = IF qcMounted /\ qcWatch.keyed /\ qcStored # qcOrg
                     THEN [sent EXCEPT ![shown] = QcFetch(sent[shown], qcStored, FALSE)]
                     ELSE sent
  /\ UNCHANGED <<qcWatch, qcMounted, qcStored, qcServer, qcOwn, qcSwitches>>

(* Other users, and the worker.                                            *)
QcElsewhere ==
  /\ \E o \in QcOrgs :
       /\ QcChanges < QcMaxVersion
       /\ qcServer' = [qcServer EXCEPT ![o] = @ + 1]
  /\ UNCHANGED <<qcWatch, qcMounted, qcOrg, qcStored, qcCache, qcPending,
                 qcOwn, qcSwitches, qcFaults>>
-----------------------------------------------------------------------------
(* "render" is the organization of the last render of the component: its   *)
(* closure is the one onSuccess runs in.                                   *)
QcMutate ==
  /\ qcMounted /\ qcWatch.changes /\ qcPending = QcNone
  /\ qcOwn = [o \in QcOrgs |-> 0]
  /\ qcPending' = [org |-> qcOrg, render |-> qcOrg, at |-> "sent", version |-> 0]
  /\ UNCHANGED <<qcWatch, qcMounted, qcOrg, qcStored, qcCache, qcServer,
                 qcOwn, qcSwitches, qcFaults>>

QcCommit ==
  /\ qcPending # QcNone /\ qcPending.at = "sent"
  /\ \/ /\ QcChanges < QcMaxVersion
        /\ qcServer' = [qcServer EXCEPT ![qcPending.org] = @ + 1]
        /\ qcPending' = [qcPending EXCEPT !.at = "done", !.version = qcServer'[qcPending.org]]
     \/ /\ qcPending' = QcNone  \* it is refused: onSuccess does not run
        /\ UNCHANGED qcServer
  /\ UNCHANGED <<qcWatch, qcMounted, qcOrg, qcStored, qcCache, qcOwn,
                 qcSwitches, qcFaults>>

(* onSuccess: invalidateQueries, which marks the entries with the prefix   *)
(* and fetches the one that is observed.                                   *)
QcSucceed ==
  /\ qcPending # QcNone /\ qcPending.at = "done"
  /\ qcPending' = QcNone
  /\ qcOwn' = IF qcCache[QcKey(qcOrg)].data # QcNone /\ qcMounted /\ qcOrg = qcPending.org
                THEN [qcOwn EXCEPT ![qcOrg] = qcPending.version] ELSE qcOwn
  /\ qcCache' = [k \in DOMAIN qcCache |->
                   IF QcActive(k) /\ <<qcPending.render, qcOrg>> \in qcWatch.hits
                     THEN QcFetch(qcCache[k], qcOrg, TRUE) ELSE qcCache[k]]
  /\ UNCHANGED <<qcWatch, qcMounted, qcOrg, qcStored, qcServer, qcSwitches,
                 qcFaults>>

QcNext ==
  \/ QcMount \/ QcUnmount \/ QcFocus \/ QcPoll \/ QcSwitch \/ QcSwitchElsewhere
  \/ \E k \in DOMAIN qcCache : QcServe(k) \/ QcAnswer(k) \/ QcFail(k) \/ QcExpired(k)
  \/ QcElsewhere \/ QcMutate \/ QcCommit \/ QcSucceed

QcServed == \E k \in DOMAIN qcCache : QcServe(k) \/ QcAnswer(k)
QcFairness == WF_qcVars(QcPoll) /\ WF_qcVars(QcServed)

QcSpec == QcInit /\ [][QcNext]_qcVars /\ QcFairness
-----------------------------------------------------------------------------
QcTypeOK ==
  /\ qcOrg \in QcOrgs /\ qcStored \in QcOrgs
  /\ \A k \in DOMAIN qcCache :
       /\ qcCache[k].data # QcNone => qcCache[k].data.version \in 0..QcMaxVersion
       /\ qcCache[k].fetch # QcNone => qcCache[k].fetch.org \in QcOrgs

(* A change that was answered while the entry was on screen is shown once  *)
(* nothing is on its way: no answer to a request that was sent before the  *)
(* change replaces it, over pages left, organizations switched and         *)
(* requests that fail, and no hook but those of QcGaps forgets a key.      *)
QcOwnChangeShown ==
  LET entry == qcCache[QcKey(qcOrg)]
  IN /\ qcMounted /\ qcPending = QcNone /\ ~qcWatch.gap
     /\ entry.fetch = QcNone /\ ~entry.error /\ entry.data # QcNone
     /\ entry.data.org = qcOrg
     => entry.data.version >= qcOwn[qcOrg]

(* An entry whose key names an organization holds that organization's      *)
(* data, over switches and failures, unless its request was sent again     *)
(* after the session was refreshed.                                        *)
QcKeyNamesOrg ==
  \A o \in QcOrgs :
    LET d == qcCache[QcKey(o)].data
    IN qcWatch.keyed /\ d # QcNone /\ ~d.again => d.org = o

(* A page that polls does not stay behind the execution or the test run it *)
(* shows while it shows it as queued, running or retrying (refetchInterval *)
(* of useExecution and useWorkflowTestRun). A WAITING one is not polled.   *)
QcFollows ==
  LET d == qcCache[QcKey(qcOrg)].data
  IN []<>~(/\ qcMounted /\ qcWatch.polls # {} /\ d # QcNone
           /\ QcStages[d.version + 1] \in {"QUEUED", "RUNNING", "RETRYING"}
           /\ d.version < qcServer[d.org])

\* The safety of the query cache: after a change a user sees the change made,
\* and what is kept under an organization's key is that organization's.
QcInv == QcTypeOK /\ QcOwnChangeShown /\ QcKeyNamesOrg
=============================================================================
