--------------------------- MODULE WebhookTriggers ---------------------------
(***************************************************************************)
(* The webhook trigger of one workflow: the cards of the browsers that     *)
(* edit it (webhook-triggers-panel.tsx), the handlers of TriggersService,  *)
(* and the gates a delivery passes in WebhooksService.receive before its   *)
(* execution is claimed. What the claim does next, and the races for one   *)
(* idempotency key, are in WebhookIngress.                                 *)
(*                                                                         *)
(* A token is the number of its issue, and so is a signature secret; the   *)
(* row holds their hash and their encryption, which nothing here tells     *)
(* from the token and the secret. Requests arrive within the signature's   *)
(* tolerance and each signs a nonce of its own.                            *)
(***************************************************************************)
EXTENDS Naturals, Sequences, FiniteSets

CONSTANTS
  WtUsers,      \* the browsers with the panel open
  WtSenders,    \* the deliveries: 1..n, in the order in which they are sent
  WtPayloads,   \* the payloads, [bytes, body], each of them may carry
  WtDefaults,   \* defaultLimits()
  WtLimits,     \* other payloadLimits a card may be given
  WtMaxCalls    \* bound: requests to TriggersService

ASSUME WtAssumption ==
  /\ WtUsers # {} /\ WtSenders \subseteq Nat \ {0} /\ DOMAIN WtPayloads = WtSenders
  /\ WtMaxCalls \in Nat

VARIABLES
  wtRow,     \* the trigger's row, or WtNone
  wtCards,   \* the card a browser shows, with its form, or WtNone
  wtCalls,   \* the request a browser waits for, or WtNone
  wtAgain,   \* the one its open dialog was confirmed for a second time
  wtShown,   \* the one-time secrets a browser was shown
  wtIssued,  \* tokens and secrets issued so far
  wtSent,    \* requests sent to TriggersService
  wtReqs,    \* the deliveries
  wtKeys     \* the idempotency keys of the trigger, in the order of claims

wtVars == <<wtRow, wtCards, wtCalls, wtAgain, wtShown, wtIssued, wtSent,
            wtReqs, wtKeys>>
wtAdmin == <<wtRow, wtCards, wtCalls, wtAgain, wtShown, wtIssued, wtSent>>
wtTraffic == <<wtReqs, wtKeys>>

WtNone == <<>>
WtHeaders == {"Idempotency-Key", "X-Event"}
WtForms == [header : WtHeaders, limits : {WtDefaults} \cup WtLimits, on : BOOLEAN]
WtOps == {"create", "enable", "disable", "rotate", "delete", "rename"}

WtSet(f, x, v) == [f EXCEPT ![x] = v]
WtLive == wtRow # WtNone /\ ~wtRow.deleted
WtFormOf(row) == [header |-> row.header, limits |-> row.limits, on |-> row.on]

(* A row as createWebhookTrigger writes it for the panel, which sends no    *)
(* settings.                                                               *)
WtNewRow(token) ==
  [enabled |-> TRUE, deleted |-> FALSE, token |-> token, preview |-> token,
   header |-> "Idempotency-Key", limits |-> WtDefaults,
   on |-> FALSE, secret |-> 0]

WtInit ==
  /\ wtRow = WtNone
  /\ wtCards = [u \in WtUsers |-> WtNone]
  /\ wtCalls = [u \in WtUsers |-> WtNone]
  /\ wtAgain = [u \in WtUsers |-> WtNone]
  /\ wtShown = [u \in WtUsers |-> {}]
  /\ wtIssued = 0 /\ wtSent = 0
  /\ wtReqs = [q \in WtSenders |-> WtNone]
  /\ wtKeys = WtNone
-----------------------------------------------------------------------------
(* The panel.                                                              *)

(* useTriggers answers: a card is mounted with the settings of that moment *)
(* and keeps its form however often the list is fetched again.             *)
WtFetch(u) ==
  /\ wtCards' = WtSet(wtCards, u,
                  IF ~WtLive THEN WtNone
                  ELSE [enabled |-> wtRow.enabled,
                        form |-> IF wtCards[u] = WtNone THEN WtFormOf(wtRow)
                                 ELSE wtCards[u].form])
  /\ wtCards' # wtCards
  /\ UNCHANGED <<wtRow, wtCalls, wtAgain, wtShown, wtIssued, wtSent, wtTraffic>>

WtCall(op, form) ==
  [op |-> op, at |-> "sent", form |-> form, token |-> 0, secret |-> 0,
   cur |-> WtNone]

(* The buttons are disabled while a request of the panel is pending, but   *)
(* not the button of an open dialog: rotate and delete may be confirmed    *)
(* again before the first answer closes it.                                *)
WtClick(u, op, form) ==
  /\ wtSent < WtMaxCalls
  /\ CASE op = "create" -> wtCards[u] = WtNone /\ wtRow = WtNone
       [] op = "enable" -> wtCards[u] # WtNone /\ ~wtCards[u].enabled
       [] op = "disable" -> wtCards[u] # WtNone /\ wtCards[u].enabled
       [] OTHER -> wtCards[u] # WtNone
  /\ \/ /\ wtCalls[u] = WtNone
        /\ wtCalls' = WtSet(wtCalls, u, WtCall(op, form))
        /\ UNCHANGED wtAgain
     \/ /\ wtCalls[u] # WtNone /\ wtCalls[u].op = op
        /\ op \in {"rotate", "delete"} /\ wtAgain[u] = WtNone
        /\ wtAgain' = WtSet(wtAgain, u, WtCall(op, form))
        /\ UNCHANGED wtCalls
  /\ wtSent' = wtSent + 1
  /\ UNCHANGED <<wtRow, wtShown, wtIssued, wtTraffic>>

WtPress(u, op) == WtClick(u, op, WtNone) /\ UNCHANGED wtCards

(* "Save settings" sends the whole form, with what was typed into it.      *)
WtSave(u) ==
  /\ wtCards[u] # WtNone
  /\ \E f \in WtForms :
       /\ Cardinality({k \in DOMAIN f : f[k] # wtCards[u].form[k]}) <= 1
       /\ WtClick(u, "update", f)
       /\ wtCards' = WtSet(wtCards, u, [wtCards[u] EXCEPT !.form = f])
-----------------------------------------------------------------------------
(* TriggersService. A handler's writes are one statement each; update      *)
(* reads the row first and writes what it computed from that.              *)

WtHandled(u, again, call) ==
  IF again THEN wtAgain' = WtSet(wtAgain, u, call) /\ UNCHANGED wtCalls
           ELSE wtCalls' = WtSet(wtCalls, u, call) /\ UNCHANGED wtAgain

\* a variant: the hash is left to the next save
WtRotatedPreview(row, token) == [row EXCEPT !.preview = token]

WtRotated(row, token) == [row EXCEPT !.token = token, !.preview = token]

WtDeleted(row, token) ==
  [row EXCEPT !.enabled = FALSE, !.deleted = TRUE, !.token = token, !.preview = 0]

(* Every handler but update and create finds the row and changes it with   *)
(* one updateMany, or answers 404.                                         *)
WtWrite(u, again, call) ==
  /\ call.at = "sent" /\ call.op \in {"enable", "disable", "rotate", "delete"}
  /\ LET token == wtIssued + 1
         renew == call.op \in {"rotate", "delete"}
     IN IF WtLive
          THEN /\ wtRow' = CASE call.op = "rotate" -> WtRotated(wtRow, token)
                             [] call.op = "delete" -> WtDeleted(wtRow, token)
                             [] OTHER -> [wtRow EXCEPT !.enabled = call.op = "enable"]
               /\ wtIssued' = IF renew THEN token ELSE wtIssued
               /\ WtHandled(u, again,
                    [call EXCEPT !.at = "done",
                                 !.token = IF call.op = "rotate" THEN token ELSE 0])
          ELSE /\ WtHandled(u, again, [call EXCEPT !.at = "refused"])
               /\ UNCHANGED <<wtRow, wtIssued>>
  /\ UNCHANGED <<wtCards, wtShown, wtSent, wtTraffic>>

WtCreate(u, again, call) ==
  /\ call.at = "sent" /\ call.op = "create"
  /\ wtRow = WtNone
  /\ wtRow' = WtNewRow(wtIssued + 1) /\ wtIssued' = wtIssued + 1
  /\ WtHandled(u, again, [call EXCEPT !.at = "done", !.token = wtIssued + 1])
  /\ UNCHANGED <<wtCards, wtShown, wtSent, wtTraffic>>

(* update: findFirst, where deletedAt is null.                             *)
WtUpdateRead(u, again, call) ==
  /\ call.at = "sent" /\ call.op \in {"update", "rename"}
  /\ WtHandled(u, again, IF WtLive THEN [call EXCEPT !.at = "read", !.cur = wtRow]
                                   ELSE [call EXCEPT !.at = "refused"])
  /\ UNCHANGED <<wtRow, wtCards, wtShown, wtIssued, wtSent, wtTraffic>>

(* normalizeConfig. The save of a card carries every setting; "rename" is  *)
(* a request with the name alone, whose missing signature leaves the       *)
(* defaults, spread over the stored one: not enabled, its secret kept.     *)
WtNormalizeConfig(call, secret) ==
  IF call.op = "rename"
    THEN [header |-> call.cur.header, limits |-> call.cur.limits,
          on |-> FALSE, secret |-> call.cur.secret]
    ELSE [header |-> call.form.header, limits |-> call.form.limits,
          on |-> call.form.on,
          secret |-> IF ~call.form.on THEN 0
                     ELSE IF secret # 0 THEN secret ELSE call.cur.secret]

(* A secret is generated when one is needed and none is stored.            *)
WtNeedsSecret(call) == call.op = "update" /\ call.form.on /\ call.cur.secret = 0

\* a variant: the row that was read is written back with the settings
WtConfiguredWhole(row, call, config) ==
  [call.cur EXCEPT !.header = config.header, !.limits = config.limits,
                   !.on = config.on, !.secret = config.secret]

WtConfigured(row, call, config) ==
  [row EXCEPT !.header = config.header, !.limits = config.limits,
              !.on = config.on, !.secret = config.secret]

WtUpdateWrite(u, again, call) ==
  /\ call.at = "read"
  /\ LET fresh == IF WtNeedsSecret(call) THEN wtIssued + 1 ELSE 0
     IN /\ wtRow' = WtConfigured(wtRow, call, WtNormalizeConfig(call, fresh))
        /\ wtIssued' = IF fresh = 0 THEN wtIssued ELSE fresh
        /\ WtHandled(u, again, [call EXCEPT !.at = "done", !.secret = fresh,
                                            !.cur = WtNone])
  /\ UNCHANGED <<wtCards, wtShown, wtSent, wtTraffic>>

(* The answer arrives: a token or a secret is shown, this once.            *)
WtAnswer(u, again, call) ==
  /\ call.at \in {"done", "refused"}
  /\ WtHandled(u, again, WtNone)
  /\ wtShown' = WtSet(wtShown, u,
       wtShown[u] \cup {<<kind, call[kind]>> :
                          kind \in {k \in {"token", "secret"} : call[k] # 0}})
  /\ UNCHANGED <<wtRow, wtCards, wtIssued, wtSent, wtTraffic>>

WtHandler(u, again, call) ==
  /\ call # WtNone
  /\ \/ WtCreate(u, again, call) \/ WtWrite(u, again, call)
     \/ WtUpdateRead(u, again, call) \/ WtUpdateWrite(u, again, call)
     \/ WtAnswer(u, again, call)
-----------------------------------------------------------------------------
(* A payload: <<"str", length>>, <<"num">>, <<"null">>, <<"arr", values>>   *)
(* or <<"obj", values>>.                                                   *)
WtNested(v) == v[1] \in {"arr", "obj"}

RECURSIVE WtFits(_, _, _), WtCountKeys(_), WtSanitize(_, _, _)

(* walkPayload, without the keys it counts on the way.                     *)
WtFits(v, limits, depth) ==
  /\ depth <= limits.depth
  /\ v[1] = "str" => v[2] <= limits.string
  /\ v[1] = "arr" => Len(v[2]) <= limits.array
  /\ WtNested(v) => \A i \in DOMAIN v[2] : WtFits(v[2][i], limits, depth + 1)

WtCountKeys(v) ==
  LET sum[i \in Nat] == IF i = 0 THEN 0 ELSE sum[i - 1] + WtCountKeys(v[2][i])
  IN IF ~WtNested(v) THEN 0
     ELSE (IF v[1] = "obj" THEN Len(v[2]) ELSE 0) + sum[Len(v[2])]

(* validatePayload.                                                        *)
WtValidPayload(p, limits) ==
  /\ p.bytes <= limits.bytes
  /\ p.body \notin {<<"null">>, <<"obj", <<>>>>}
  /\ WtFits(p.body, limits, 0)
  /\ WtCountKeys(p.body) <= limits.keys

WtCut(s, n) == SubSeq(s, 1, IF Len(s) < n THEN Len(s) ELSE n)

(* sanitizePayload, what is stored with the event and in the execution.    *)
WtSanitize(v, limits, depth) ==
  LET kept == WtCut(v[2], IF v[1] = "arr" THEN limits.array ELSE limits.keys)
  IN CASE depth > limits.depth -> <<"truncated">>
       [] v[1] = "str" ->
            <<"str", IF v[2] > limits.string THEN limits.string ELSE v[2]>>
       [] WtNested(v) ->
            <<v[1], [i \in DOMAIN kept |-> WtSanitize(kept[i], limits, depth + 1)]>>
       [] OTHER -> v
-----------------------------------------------------------------------------
(* A delivery: the sender has a token and perhaps a secret that somebody   *)
(* was shown, and names the event in the default idempotency header.       *)
WtEverShown(kind) == {x[2] : x \in {y \in UNION {wtShown[u] : u \in WtUsers} :
                                       y[1] = kind}}

(* "newest" is the newest token that had been shown when the request was   *)
(* sent: no step reads it.                                                 *)
WtSend(q) ==
  /\ wtReqs[q] = WtNone /\ \A r \in WtSenders : r < q => wtReqs[r] # WtNone
  /\ \E token \in WtEverShown("token"), secret \in WtEverShown("secret") \cup {0},
        p \in WtPayloads[q] :
       wtReqs' = WtSet(wtReqs, q,
         [at |-> "resolve", token |-> token, secret |-> secret, payload |-> p,
          trigger |-> WtNone, execution |-> 0,
          newest |-> CHOOSE t \in WtEverShown("token") :
                       \A s \in WtEverShown("token") : s <= t])
  /\ UNCHANGED <<wtAdmin, wtKeys>>

(* assertSignature.                                                        *)
WtSigned(row, q) == row.on => row.secret # 0 /\ wtReqs[q].secret = row.secret

(* resolveTrigger and the gates on the row it read: token, enabled, the    *)
(* payload against the trigger's limits, the signature.                    *)
WtAdmitted(row, q) ==
  /\ row # WtNone /\ ~row.deleted
  /\ wtReqs[q].token = row.token
  /\ row.enabled
  /\ WtValidPayload(wtReqs[q].payload, row.limits)
  /\ WtSigned(row, q)

WtResolve(q) ==
  /\ wtReqs[q] # WtNone /\ wtReqs[q].at = "resolve"
  /\ wtReqs' = WtSet(wtReqs, q,
       IF WtAdmitted(wtRow, q)
         THEN [wtReqs[q] EXCEPT !.at = "claim", !.trigger = WtFormOf(wtRow)]
         ELSE [wtReqs[q] EXCEPT !.at = "refused"])
  /\ UNCHANGED <<wtAdmin, wtKeys>>

(* The key: the one in the configured header, or the hash of the request.  *)
(* The senders name one event, so its key is "event"; the scope of a key   *)
(* is the trigger.                                                         *)
WtKey(req) ==
  IF req.trigger.header = "Idempotency-Key" THEN <<"event">>
  ELSE <<"auto", req.payload>>

(* The claim: a key that is there answers for the same payload, and is a   *)
(* conflict for another. (The unique index makes lookup and claim one.)    *)
WtClaim(q) ==
  /\ wtReqs[q] # WtNone /\ wtReqs[q].at = "claim"
  /\ LET key == WtKey(wtReqs[q])
         old == {i \in DOMAIN wtKeys : wtKeys[i].key = key}
     IN IF old = {}
          THEN /\ wtKeys' = Append(wtKeys,
                    [key |-> key, payload |-> wtReqs[q].payload,
                     stored |-> WtSanitize(wtReqs[q].payload.body,
                                           wtReqs[q].trigger.limits, 0)])
               /\ wtReqs' = WtSet(wtReqs, q,
                    [wtReqs[q] EXCEPT !.at = "accepted",
                                      !.execution = Len(wtKeys) + 1])
          ELSE LET i == CHOOSE i \in old : TRUE
               IN /\ wtReqs' = WtSet(wtReqs, q,
                       IF wtKeys[i].payload = wtReqs[q].payload
                         THEN [wtReqs[q] EXCEPT !.at = "accepted", !.execution = i]
                         ELSE [wtReqs[q] EXCEPT !.at = "refused"])
                  /\ UNCHANGED wtKeys
  /\ UNCHANGED wtAdmin

WtNext ==
  \/ \E u \in WtUsers :
       \/ WtFetch(u) \/ WtSave(u)
       \/ \E op \in WtOps : WtPress(u, op)
       \/ WtHandler(u, FALSE, wtCalls[u]) \/ WtHandler(u, TRUE, wtAgain[u])
  \/ \E q \in WtSenders : WtSend(q) \/ WtResolve(q) \/ WtClaim(q)

WtSpec == WtInit /\ [][WtNext]_wtVars
-----------------------------------------------------------------------------
(* The row and everything that holds a copy of it keep their shape.        *)
WtTypeOK ==
  /\ wtRow # WtNone =>
       /\ {wtRow.token, wtRow.secret} \subseteq 0..wtIssued
       /\ wtRow.preview = 0 <=> wtRow.deleted
  /\ \A u \in WtUsers : wtShown[u] \subseteq {"token", "secret"} \X (1..wtIssued)

(* A signature that is required has a secret, and one that the update that *)
(* generated it has put in its answer: two cards that save at once, or a   *)
(* request with the name alone, never leave a trigger that asks for a      *)
(* signature nobody can make (triggers.service.ts, update).                *)
WtSignedHasSecret ==
  wtRow # WtNone /\ wtRow.on =>
    /\ wtRow.secret # 0
    /\ \/ wtRow.secret \in WtEverShown("secret")
       \/ \E u \in WtUsers : \E c \in {wtCalls[u], wtAgain[u]} :
            c # WtNone /\ c.secret = wtRow.secret

(* What is stored of a delivery that was accepted is what was sent: the    *)
(* payload limits refuse, and never cut (validatePayload, sanitizePayload).*)
WtStoredIsSent ==
  \A i \in DOMAIN wtKeys : wtKeys[i].stored = wtKeys[i].payload.body

WtAcceptedReqs == {q \in WtSenders : wtReqs[q] # WtNone /\ wtReqs[q].at = "accepted"}

(* "Rotating invalidates the previous URL immediately": a delivery that    *)
(* is accepted came with no older token than any that a panel had been     *)
(* shown when it was sent (webhook-triggers-panel.tsx:55, rotate,          *)
(* resolveTrigger).                                                        *)
WtRotationIsImmediate ==
  \A q \in WtAcceptedReqs : wtReqs[q].token >= wtReqs[q].newest

(* Deliveries of one event get one execution, over rotations and edits of  *)
(* the trigger, unless the configured header took the key from one of them *)
(* and not from the other.                                                 *)
WtOneExecutionPerEvent ==
  \A q, r \in WtAcceptedReqs :
    LET named(x) == wtReqs[x].trigger.header = "Idempotency-Key"
    IN wtReqs[q].payload = wtReqs[r].payload /\ named(q) = named(r)
         => wtReqs[q].execution = wtReqs[r].execution

(* A deleted trigger stays deleted and disabled, whatever handlers that    *)
(* read it before still write.                                             *)
WtDeletedStays ==
  wtRow # WtNone /\ wtRow.deleted =>
    wtRow'.deleted /\ ~wtRow'.enabled /\ wtRow'.token = wtRow.token

(* The safety of webhook triggers: a signed trigger has a secret, a token  *)
(* is dead from the moment of its rotation, a payload is stored as it was  *)
(* sent and within its limits, and an event starts one execution.          *)
WtInv ==
  /\ WtTypeOK /\ WtSignedHasSecret /\ WtStoredIsSent
  /\ WtRotationIsImmediate /\ WtOneExecutionPerEvent
=============================================================================
