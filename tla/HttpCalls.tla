----------------------------- MODULE HttpCalls ------------------------------
(***************************************************************************)
(* What an HTTP connection means to the two programs that use it: the API, *)
(* which accepts, updates and rotates it (normalizeHttpConfig, updateConfig,*)
(* normalizeRotationSecret) and tests it (prepareHttpRequest), and the     *)
(* worker, which resolves it (ConnectionResolver), puts it into the request*)
(* of a step (injectHttpConnection) and sends it (SafeHttpClient).  Values *)
(* of headers are 0 for a public one or the number of the secret used.     *)
(***************************************************************************)
EXTENDS Naturals, FiniteSets, TLC

CONSTANTS
  HcCreates,   \* the bodies of create that are explored
  HcUpdates,   \* the fields an update changes, as partial bodies
  HcMaxHeaders \* the limit on headers of validateHeaders and of sanitizeHeaders, 32 in the code

ASSUME HcConstants == HcMaxHeaders \in Nat

VARIABLES
  hcBody,     \* the body of create
  hcConfig,   \* the stored config; its scheme is "none" before
  hcSecret,   \* the stored secret: its number and, for custom headers, its names
  hcPc,       \* "create", "stored", "send", "done" or "refused"
  hcTest, hcStep,  \* the requests the test and the step make
  hcHost, hcHeaders, hcSent, hcResult  \* the step's request on its way: present host, headers, requests sent, outcome

hcVars == <<hcBody, hcConfig, hcSecret, hcPc, hcTest, hcStep, hcHost, hcHeaders, hcSent, hcResult>>

HcSchemes == {"API_KEY", "BEARER", "BASIC", "CUSTOM_HEADERS"}
HcForbidden == {"host", "content-length", "cookie", "proxy-connection", "x-forwarded-for"}
HcBlocked == HcForbidden \union {"authorization"}
HcNoRequest == [headers |-> <<>>, query |-> <<>>, allowed |-> {}]

\* A body or config: scheme, location ("none": absent), name, user, extra (the
\* names of the public headers), names (of the secret headers) and secret (given
\* or not).
HcTypeOK ==
  /\ hcPc \in {"create", "stored", "send", "done", "refused"}
  /\ hcConfig.scheme /= "none" => hcConfig.scheme \in HcSchemes /\ hcConfig.extra \intersect HcBlocked = {}
                           /\ (hcConfig.scheme = "API_KEY" => hcConfig.location /= "none" /\ hcConfig.name /= "none")
  /\ hcSecret.id \in 0 .. 2 /\ hcSent \in 0 .. 4 /\ hcResult \in {"none", "response", "error"}

\* validateHeaders
HcHeadersValid(names, secret) ==
  Cardinality(names) <= HcMaxHeaders /\ names \intersect HcForbidden = {} /\ (secret \/ names \intersect {"authorization", "x-api-key"} = {})

\* rejectFields: what a body of create may not have beside its scheme.
HcRejected(body) ==
  CASE body.scheme = "API_KEY" -> body.user \/ body.names /= {}
    [] body.scheme = "BEARER" -> body.location /= "none" \/ body.name /= "none" \/ body.user \/ body.names /= {}
    [] body.scheme = "BASIC" -> body.location /= "none" \/ body.name /= "none" \/ body.names /= {}
    [] OTHER -> body.location /= "none" \/ body.name /= "none" \/ body.user \/ body.secret

\* normalizeHttpConfig accepts the body; create also asks for the secret.
HcValid(body, create) ==
  /\ HcHeadersValid(body.extra, FALSE) /\ ~(create /\ HcRejected(body))
  /\ body.scheme = "API_KEY" => body.location /= "none" /\ body.name /= "none" /\ (create => body.secret)
  /\ body.scheme = "BEARER" => (create => body.secret)
  /\ body.scheme = "BASIC" => body.user /\ (create => body.secret)
  /\ body.scheme = "CUSTOM_HEADERS" => (create => body.names /= {}) /\ HcHeadersValid(body.names, TRUE)

\* The config normalizeHttpConfig stores.
HcNormalized(body) ==
  CASE body.scheme = "API_KEY" -> [body EXCEPT !.secret = FALSE, !.user = FALSE, !.names = {}]
    [] body.scheme = "BEARER" -> [body EXCEPT !.secret = FALSE, !.location = "HEADER", !.name = "authorization", !.user = FALSE, !.names = {}]
    [] body.scheme = "BASIC" -> [body EXCEPT !.secret = FALSE, !.location = "none", !.name = "none", !.names = {}]
    [] OTHER -> [body EXCEPT !.secret = FALSE, !.location = "none", !.name = "none", !.user = FALSE]

HcInit ==
  /\ hcBody \in HcCreates /\ hcConfig = [hcBody EXCEPT !.scheme = "none"] /\ hcSecret = [id |-> 0, names |-> {}] /\ hcPc = "create"
  /\ hcTest = HcNoRequest /\ hcStep = HcNoRequest /\ hcHost = "first" /\ hcHeaders = {} /\ hcSent = 0 /\ hcResult = "none"

HcCreate ==
  /\ hcPc = "create"
  /\ IF HcValid(hcBody, TRUE)
     THEN hcPc' = "stored" /\ hcConfig' = HcNormalized(hcBody) /\ hcSecret' = [id |-> 1, names |-> hcBody.names]
     ELSE hcPc' = "refused" /\ UNCHANGED <<hcConfig, hcSecret>>
  /\ UNCHANGED <<hcBody, hcTest, hcStep, hcHost, hcHeaders, hcSent, hcResult>>

\* updateConfig: the fields given over the stored config; a scheme stays.
HcUpdate(change) ==
  LET body == change @@ hcConfig IN
  /\ hcPc = "stored" /\ body.scheme = hcConfig.scheme /\ HcValid(body, FALSE) /\ hcConfig' = HcNormalized(body)
  /\ UNCHANGED <<hcBody, hcSecret, hcPc, hcTest, hcStep, hcHost, hcHeaders, hcSent, hcResult>>

\* normalizeRotationSecret: a new secret, for custom headers with new names.
HcRotate(names) ==
  /\ hcPc = "stored" /\ hcSecret.id = 1
  /\ IF hcConfig.scheme = "CUSTOM_HEADERS" THEN HcHeadersValid(names, TRUE) ELSE names = {}
  /\ hcSecret' = [id |-> 2, names |-> names] /\ hcConfig' = [hcConfig EXCEPT !.names = names]
  /\ UNCHANGED <<hcBody, hcPc, hcTest, hcStep, hcHost, hcHeaders, hcSent, hcResult>>

HcWith(names, value) == [n \in names |-> value]
\* prepareHttpRequest of the API: public headers, then the secret where the scheme puts it.
HcPrepare(config, secret) ==
  LET public == HcWith(config.extra, 0) IN
  CASE config.scheme = "API_KEY" /\ config.location = "QUERY" -> [HcNoRequest EXCEPT !.headers = public, !.query = config.name :> secret.id]
    [] config.scheme = "API_KEY" -> [HcNoRequest EXCEPT !.headers = (config.name :> secret.id) @@ public]
    [] config.scheme \in {"BEARER", "BASIC"} -> [HcNoRequest EXCEPT !.headers = ("authorization" :> secret.id) @@ public]
    [] OTHER -> [HcNoRequest EXCEPT !.headers = HcWith(secret.names, secret.id) @@ public]

\* resolveHttp of the worker: an API key without a name is an error.
HcResolvable(config) == (config.scheme = "API_KEY" => config.name /= "none") /\ (config.scheme = "BASIC" => config.user)

\* injectHttpConnection: the step's own headers, those of the connection over
\* them, the secret over both and exempt from the blocked names.
HcInject(config, secret, own) ==
  LET public == HcWith(config.extra, 0) @@ HcWith(own, 0) IN
  CASE config.scheme = "API_KEY" /\ config.location = "QUERY" -> [HcNoRequest EXCEPT !.headers = public, !.query = config.name :> secret.id]
    [] config.scheme = "API_KEY" -> [HcNoRequest EXCEPT !.headers = (config.name :> secret.id) @@ public, !.allowed = {config.name}]
    [] config.scheme \in {"BEARER", "BASIC"} -> [HcNoRequest EXCEPT !.headers = ("authorization" :> secret.id) @@ public, !.allowed = {"authorization"}]
    [] OTHER -> [HcNoRequest EXCEPT !.headers = HcWith(secret.names, secret.id) @@ public, !.allowed = secret.names]

\* sanitizeHeaders
HcSanitary(request) ==
  Cardinality(DOMAIN request.headers) <= HcMaxHeaders /\ (DOMAIN request.headers \ request.allowed) \intersect HcBlocked = {}

\* A test of the connection, and then a step that uses it with headers of its
\* own.  A step whose headers are refused fails before anything is sent.
HcUse(own) ==
  LET request == HcInject(hcConfig, hcSecret, own) IN
  /\ hcPc = "stored" /\ hcTest' = HcPrepare(hcConfig, hcSecret) /\ hcStep' = request
  /\ IF HcResolvable(hcConfig) /\ HcSanitary(request)
     THEN hcPc' = "send" /\ hcHeaders' = DOMAIN request.headers /\ UNCHANGED hcResult
     ELSE hcPc' = "done" /\ hcResult' = "error" /\ UNCHANGED hcHeaders
  /\ UNCHANGED <<hcBody, hcConfig, hcSecret, hcHost, hcSent>>

HcEnd(result) == hcPc' = "done" /\ hcResult' = result /\ UNCHANGED <<hcHost, hcHeaders>>
\* A redirect to an allowed place: headers go along to the same host only.
HcRedirected(to) ==
  /\ hcHost' = to /\ hcHeaders' = IF to = hcHost THEN hcHeaders ELSE {}
  /\ UNCHANGED <<hcPc, hcResult>>
HcFollowable(count) == count <= 3
\* requestWithRedirects: one request and its answer, or the error of a redirect
\* too many, one without a place to go to or one to plain HTTP.
HcSend ==
  /\ hcPc = "send"
  /\ IF ~HcFollowable(hcSent) THEN HcEnd("error") /\ UNCHANGED hcSent
     ELSE /\ hcSent' = hcSent + 1
          /\ \/ HcEnd("response") \/ HcEnd("error")
             \/ \E to \in {"first", "second"} : HcRedirected(to)
  /\ UNCHANGED <<hcBody, hcConfig, hcSecret, hcTest, hcStep>>

HcNext == \/ HcCreate \/ (\E change \in HcUpdates : HcUpdate(change)) \/ (\E names \in {{}, {"x-a"}, {"authorization"}} : HcRotate(names))
          \/ (\E own \in {{}, {"x-own"}, {"x-public"}} : HcUse(own)) \/ HcSend
HcSpec == HcInit /\ [][HcNext]_hcVars

-----------------------------------------------------------------------------
(* Properties. *)

\* A test of a connection tells about its steps: both make the same request but
\* for the step's own headers, and the worker turns the request of a connection
\* the API accepted down only for having too many headers, whatever updates and
\* rotations came before (411-451, 466-486, connection-resolver.ts:39-67,
\* http-request.handler.ts:93-127).
HcTestPredictsStep ==
  hcPc \in {"send", "done"} =>
    /\ \A h \in DOMAIN hcTest.headers : h \in DOMAIN hcStep.headers /\ hcStep.headers[h] = hcTest.headers[h]
    /\ hcTest.query = hcStep.query
    /\ (hcSent = 0 /\ hcPc = "done") => Cardinality(DOMAIN hcStep.headers) > HcMaxHeaders

\* Headers never leave the first host, and a call ends after four requests
\* however it is redirected (67-98 of safe-http-client.ts).
HcHeadersStayHome == (hcHost /= "first" => hcHeaders = {}) /\ hcSent <= 4
=============================================================================
