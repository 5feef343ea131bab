------------------------------ MODULE AiSteps ------------------------------
(***************************************************************************)
(* An AI step: the worker's attempts (step-executor.ts, ai.handler.ts,     *)
(* ai-gateway.ts, error-classifier.ts, retry-policy-resolver.ts), the AI   *)
(* service that answers them (apps/ai-service: llm_service.py, main.py)    *)
(* and the retries the service itself makes at the provider                *)
(* (openai_provider.py).                                                   *)
(*                                                                         *)
(* Two retry loops are stacked, each with its own idea of what may be      *)
(* repeated, and two timers: the worker abandons a request after the       *)
(* step's timeout while the service goes on with it, so requests of        *)
(* several attempts may be at the provider together.                       *)
(***************************************************************************)
EXTENDS Naturals, FiniteSets

CONSTANTS
  AiMaxAttempts,  \* the largest maxAttempts a step may have
  AiMaxRetries    \* OPENAI_MAX_RETRIES

ASSUME AiConstants == AiMaxAttempts \in Nat \ {0} /\ AiMaxRetries \in Nat

AiNone == "-"

\* What a step asks for: the operation and the kind of what it gives with it
\* (the labels of a classification, the schema of an extraction), and
\* whether its text is empty.
AiAsks == [task : {"classify"}, given : {"labels", "no labels"}, text : BOOLEAN]
     \cup [task : {"extract"}, given : {"no schema", "object", "array", "broken"}, text : BOOLEAN]
     \cup [task : {"summarize"}, given : {AiNone}, text : BOOLEAN]

\* What the provider may do with a post: answer with JSON that has the shape
\* asked for, with other JSON or with something else; refuse; or fail.
AiAnswers == {"fits", "list", "other json", "not json"}
AiRefusals == {"400", "401", "quota"}
AiFailures == {"408", "rate limit", "500", "timeout", "connection"}

VARIABLES
  aiAsk,      \* the step: [task, given, text]
  aiMax,      \* its maxAttempts
  aiWorld,    \* [provider, key, configured], and the attempts its policy as written gives
  aiStep,     \* status of the step
  aiAttempt,  \* attempts started
  aiRequests, \* attempt -> its request at the service
  aiOutput    \* what the completed step has as its output

aiVars == <<aiAsk, aiMax, aiWorld, aiStep, aiAttempt, aiRequests, aiOutput>>

-----------------------------------------------------------------------------
(* The retry policy of a step                                              *)

\* The maxAttempts of a policy as it is written: nested under "retry" or
\* not, and absent, not a number, or a number.
AiPolicies == {p \in [nested : BOOLEAN, is : {"absent", "NaN", "number"}, n : 0..AiMaxAttempts + 1] :
                 p.is # "number" => p.n = 0}

\* clampNumber: what is no finite number counts as the least.
AiClamp(p, least, most) ==
  CASE p.is = "NaN" -> least
    [] p.n < least -> least
    [] p.n > most -> most
    [] OTHER -> p.n

AiNumber(n) == [nested |-> FALSE, is |-> "number", n |-> n]

\* What the API stores in the step's row when a version is saved.
AiNormalized(p) ==
  LET given == IF p.is = "absent" THEN AiNumber(1) ELSE p
  IN [AiNumber(AiClamp(given, 1, AiMaxAttempts)) EXCEPT !.nested = TRUE]

\* What the worker takes from a row: it normalizes once more, since the rows
\* of a workflow made from a template hold the policy as it was written.
AiResolve(p) == AiClamp(IF p.is = "absent" THEN AiNumber(1) ELSE p, 1, AiMaxAttempts)

-----------------------------------------------------------------------------
(* The AI service                                                          *)

AiUnasked == [at |-> "none", retries |-> 0, posts |-> 0, last |-> AiNone, status |-> 0]

\* The provider's error for an answer: status the service answers with.
AiStatus(answer) == CASE answer \in {"401", "400", "408", "500", "connection"} -> 502
                      [] answer \in {"quota", "rate limit"} -> 429
                      [] answer = "timeout" -> 504

\* The errors the service repeats: _error_from_response makes a quota, an
\* authentication or any other 4xx error of what is not to be repeated.
AiRetryable(answer) == answer \in AiFailures

\* _parse_response_json, _validate_task_output and the response model of the
\* endpoint.  Without labels the schema lists the default ones and the check
\* that follows lists none; a schema that is none raises an error nobody
\* maps; data that is no object does not fit the endpoint's response.
AiChecked(ask, answer) ==
  IF ask.given = "broken" /\ answer \in {"fits", "other json"} THEN 500
  ELSE IF answer # "fits" \/ ask.given = "no labels" THEN 502
  ELSE IF ask.given = "array" THEN 500 ELSE 200

\* a variant: one more retry than configured
AiGivesUpLate(answer, retries) == ~ AiRetryable(answer) \/ retries > AiMaxRetries

AiGivesUp(answer, retries) == ~ AiRetryable(answer) \/ retries >= AiMaxRetries

AiAt(n, r) == aiRequests' = [aiRequests EXCEPT ![n] = r]

\* The service takes a request: refused without its key, or when the request
\* model does not accept it.
AiServe(n) ==
  /\ aiRequests[n].at = "sent"
  /\ AiAt(n, IF ~ aiWorld.key THEN [aiRequests[n] EXCEPT !.at = "answered", !.status = 401]
             ELSE IF ~ aiAsk.text THEN [aiRequests[n] EXCEPT !.at = "answered", !.status = 422]
             ELSE IF aiWorld.provider = "fake" THEN [aiRequests[n] EXCEPT !.at = "answered", !.status = 200, !.last = "fake"]
             ELSE [aiRequests[n] EXCEPT !.at = "ready"])
  /\ UNCHANGED <<aiAsk, aiMax, aiWorld, aiStep, aiAttempt, aiOutput>>

\* _request_with_retries posts the request.
AiPost(n) ==
  /\ aiRequests[n].at = "ready"
  /\ AiAt(n, [aiRequests[n] EXCEPT !.at = "posted", !.posts = @ + 1])
  /\ UNCHANGED <<aiAsk, aiMax, aiWorld, aiStep, aiAttempt, aiOutput>>

\* The provider answers: the answer is checked, the post repeated after a
\* pause, or the error is the service's answer.
AiAnswered(n, answer) ==
  LET r == [aiRequests[n] EXCEPT !.last = answer] IN
  /\ aiRequests[n].at = "posted"
  /\ AiAt(n, IF answer \in AiAnswers
             THEN [r EXCEPT !.at = "answered", !.status = AiChecked(aiAsk, answer)]
             ELSE IF AiGivesUp(answer, r.retries)
             THEN [r EXCEPT !.at = "answered", !.status = AiStatus(answer)]
             ELSE [r EXCEPT !.at = "ready", !.retries = @ + 1])
  /\ UNCHANGED <<aiAsk, aiMax, aiWorld, aiStep, aiAttempt, aiOutput>>
-----------------------------------------------------------------------------
(* The worker                                                              *)

\* ErrorClassifier: by status for an answer of the service, by the message
\* for the rest ("timed out", "not configured", "fetch failed").
AiClassify(status) == CASE status \in {429, 502, 503, 504} -> "retryable"
                        [] status \in {400, 401, 403} -> "non_retryable"
                        [] OTHER -> "ambiguous"

\* The executor's catch: another attempt is scheduled or the step fails.
AiCatch(class) ==
  aiStep' = IF class = "retryable" /\ aiAttempt' < aiMax THEN "RETRYING" ELSE "FAILED"

\* What the handler hands to the gateway: a request that is on its way.
AiSent == [AiUnasked EXCEPT !.at = "sent"]

\* An attempt starts; without the address or the key of the service the
\* gateway throws a configuration error.
AiStart ==
  /\ aiStep \in {"PENDING", "RETRYING"}
  /\ aiAttempt' = aiAttempt + 1
  /\ IF aiWorld.configured
     THEN /\ aiStep' = "RUNNING"
          /\ AiAt(aiAttempt', AiSent)
     ELSE AiCatch("non_retryable") /\ UNCHANGED aiRequests
  /\ UNCHANGED <<aiAsk, aiMax, aiWorld, aiOutput>>

\* The answer of the service to the attempt in progress arrives.
AiReceive ==
  LET r == aiRequests[aiAttempt] IN
  /\ aiStep = "RUNNING"
  /\ r.at = "answered"
  /\ UNCHANGED aiAttempt
  /\ IF r.status = 200
     THEN aiStep' = "COMPLETED" /\ aiOutput' = r.last
     ELSE AiCatch(AiClassify(r.status)) /\ UNCHANGED aiOutput
  /\ UNCHANGED <<aiAsk, aiMax, aiWorld, aiRequests>>

\* fetch fails, before or after the service has taken the request: the
\* message names no kind of failure, so the effect counts as ambiguous.
AiFetchFails ==
  /\ aiStep = "RUNNING"
  /\ UNCHANGED aiAttempt
  /\ AiCatch("ambiguous")
  /\ \/ UNCHANGED aiRequests
     \/ aiRequests[aiAttempt].at = "sent" /\ AiAt(aiAttempt, AiUnasked)
  /\ UNCHANGED <<aiAsk, aiMax, aiWorld, aiOutput>>

\* The step's timeout: the worker stops waiting, the service is not told.
AiTimeout ==
  /\ aiStep = "RUNNING"
  /\ UNCHANGED aiAttempt
  /\ AiCatch("retryable")
  /\ UNCHANGED <<aiAsk, aiMax, aiWorld, aiRequests, aiOutput>>

AiInit ==
  /\ aiAsk \in AiAsks
  /\ \E p \in AiPolicies :
       /\ aiMax \in {AiResolve(AiNormalized(p)), AiResolve(p)}
       /\ aiWorld \in [provider : {"openai", "fake"}, key : BOOLEAN, configured : BOOLEAN, written : {AiResolve(p)}]
  /\ aiStep = "PENDING" /\ aiAttempt = 0
  /\ aiRequests = [n \in 1..AiMaxAttempts |-> AiUnasked]
  /\ aiOutput = AiNone

AiNext ==
  \/ AiStart \/ AiReceive \/ AiFetchFails \/ AiTimeout
  \/ \E n \in 1..AiMaxAttempts :
       \/ AiServe(n) \/ AiPost(n)
       \/ \E answer \in AiAnswers \cup AiRefusals \cup AiFailures : AiAnswered(n, answer)

\* The executor starts an attempt that is due, and its timer fires.  Nothing
\* is assumed of the service, of the provider or of the network.
AiFairness == WF_aiVars(AiStart) /\ WF_aiVars(AiTimeout)

AiSpec == AiInit /\ [][AiNext]_aiVars /\ AiFairness

-----------------------------------------------------------------------------
(* Properties                                                              *)

\* The state is well formed: one request at most for each attempt started.
AiTypeOK ==
  /\ aiMax \in 1..AiMaxAttempts /\ aiAttempt \in 0..aiMax
  /\ aiStep \in {"PENDING", "RUNNING", "RETRYING", "COMPLETED", "FAILED"}
  /\ aiStep = "RETRYING" => aiAttempt < aiMax
  /\ \A n \in 1..AiMaxAttempts :
       /\ n > aiAttempt => aiRequests[n].at = "none"
       /\ aiRequests[n].at = "answered" => aiRequests[n].status # 0

\* However the two retry loops and the abandoned requests interleave, a step
\* costs at most maxAttempts times one more than OPENAI_MAX_RETRIES posts.
AiPostsBounded ==
  LET posts == UNION {{n} \X (1..aiRequests[n].posts) : n \in 1..AiMaxAttempts}
  IN Cardinality(posts) <= aiMax * (AiMaxRetries + 1)

\* What a completed step has from OpenAI has the shape asked for: a label of
\* the labels, data of the schema ("OpenAI responses use strict JSON outputs
\* and are validated before they are returned to workflow steps",
\* README.md:51).  The fake provider takes no notice of labels or schema.
AiOutputFits ==
  aiStep = "COMPLETED" =>
    IF aiWorld.provider = "fake" THEN aiOutput = "fake"
    ELSE aiOutput = "fits" /\ aiAsk.given \notin {"no labels", "array", "broken"}

\* A request the provider has refused for a reason that repeating does not
\* change (credentials, quota, a rejected request) is not posted again by the
\* service (openai_provider.py:124).
AiRefusalIsFinal ==
  \A n \in 1..AiMaxAttempts :
    aiRequests[n].last \in AiRefusals => aiRequests'[n].posts = aiRequests[n].posts

\* The row of a saved version and the policy as it was written give a step
\* the same number of attempts, so a workflow made from a template retries
\* as the workflow it was copied from (two normalizers in two packages).
AiPolicyAgrees == aiMax = aiWorld.written

AiEnded == aiStep \in {"COMPLETED", "FAILED"}

\* The safety of an AI step: the provider is called no more often than both
\* retry policies allow together, and what is stored is an answer that fits
\* the request.
AiInv == AiTypeOK /\ AiPostsBounded /\ AiOutputFits /\ AiPolicyAgrees
=============================================================================
