-------------------------- MODULE RefreshSessions ---------------------------
(***************************************************************************)
(* The refresh sessions of one ACTIVE user (AuthService) and the tabs of a *)
(* browser that use them (AuthProvider, apiClient).  The tabs share the    *)
(* refresh cookie; each keeps its own access token in memory and joins its *)
(* own 401s in one refresh, while the refresh of a page load does not go   *)
(* through that.  A refresh reads its session and rotates it in a later    *)
(* transaction; a statement that revokes several rows sees those committed *)
(* when it starts (READ COMMITTED).  Requests and answers may be lost.     *)
(***************************************************************************)
EXTENDS Naturals, Sequences, FiniteSets

CONSTANTS
  RsTabs,         \* the tabs of the browser
  RsMaxSessions,  \* bound on the session rows
  RsMaxFaults     \* bound on lost messages, failing calls, expiries, reloads and revocations from elsewhere

ASSUME RsConstants == RsMaxSessions \in Nat \ {0} /\ RsMaxFaults \in Nat

VARIABLES
  rsRows,    \* refresh_token_sessions: family, revokedAt set, replacedBySessionId (0: null), expiresAt over
  rsCookie,  \* the session of the browser's refresh cookie, 0 without one
  rsTab,     \* each tab: the provider's status, an access token that the API still accepts, its effect has run
  rsCall,    \* each call of a tab in progress: where it is, the cookie it sent, the rows its UPDATE has seen, the answer
  rsAll,     \* logoutAll from another device: where it is and the rows its UPDATE has seen
  rsRaced,   \* history: two calls with a cookie overlapped, or a message was lost
  rsFaults

rsVars == <<rsRows, rsCookie, rsTab, rsCall, rsAll, rsRaced, rsFaults>>

RsCalls == RsTabs \X {"mount", "flight", "login", "logout"}
RsIdle == [pc |-> "idle", sent |-> 0, seen |-> {}, out |-> 0, left |-> FALSE]
RsLoaded == [status |-> "loading", token |-> FALSE, mounted |-> FALSE]
RsLiveRow(s) == ~rsRows[s].revoked
RsLive == {s \in DOMAIN rsRows : RsLiveRow(s)}
RsFamily(f) == {s \in DOMAIN rsRows : rsRows[s].family = f}

RsTypeOK ==
  /\ Len(rsRows) <= RsMaxSessions /\ rsCookie \in 0 .. Len(rsRows) /\ rsFaults \in 0 .. RsMaxFaults /\ rsRaced \in BOOLEAN
  /\ \A s \in DOMAIN rsRows : /\ rsRows[s].family \in 1 .. s /\ rsRows[s].revoked \in BOOLEAN /\ rsRows[s].expired \in BOOLEAN
                              /\ rsRows[s].next = 0 \/ (rsRows[s].next \in s + 1 .. Len(rsRows) /\ rsRows[s].revoked)
  /\ rsTab \in [RsTabs -> [status : {"loading", "authenticated", "anonymous"}, token : BOOLEAN, mounted : BOOLEAN]]
  /\ \A c \in RsCalls : /\ rsCall[c].pc \in {"idle", "read", "rotate", "revoke", "revoking", "answer", "me"} /\ rsCall[c].sent \in 0 .. Len(rsRows)
                        /\ rsCall[c].seen \subseteq DOMAIN rsRows /\ rsCall[c].out \in 0 .. Len(rsRows) /\ rsCall[c].left \in BOOLEAN
  /\ rsAll.pc \in {"idle", "revoking"} /\ rsAll.seen \subseteq DOMAIN rsRows

\* The user has signed in once; every tab is being loaded.
RsInit ==
  /\ rsRows = <<[family |-> 1, revoked |-> FALSE, next |-> 0, expired |-> FALSE]>> /\ rsCookie = 1
  /\ rsTab = [t \in RsTabs |-> RsLoaded] /\ rsCall = [c \in RsCalls |-> RsIdle]
  /\ rsAll = [pc |-> "idle", seen |-> {}] /\ rsRaced = FALSE /\ rsFaults = 0

RsInFlight == {c \in RsCalls : rsCall[c].pc \in {"read", "rotate", "revoke", "revoking", "answer"}}
\* A call with credentials: the cookie of the moment goes with it.
RsSends(c) ==
  /\ rsCall[c].pc = "idle" /\ rsCall' = [rsCall EXCEPT ![c] = [RsIdle EXCEPT !.pc = "read", !.sent = rsCookie]]
  /\ rsRaced' = (rsRaced \/ RsInFlight /= {} \/ rsAll.pc /= "idle")

\* The provider's effect refreshes when the page is loaded.
RsMount(t) ==
  /\ ~rsTab[t].mounted /\ rsTab' = [rsTab EXCEPT ![t].mounted = TRUE] /\ RsSends(<<t, "mount">>)
  /\ UNCHANGED <<rsRows, rsCookie, rsAll, rsFaults>>

\* A request is answered 401: singleFlightRefresh, unless one is in progress.
RsUnauthorized(t) ==
  /\ ~rsTab[t].token /\ rsTab[t].status /= "anonymous" /\ RsSends(<<t, "flight">>)
  /\ UNCHANGED <<rsRows, rsCookie, rsTab, rsAll, rsFaults>>

\* The access token of a tab is over.
RsTokenOver(t) ==
  /\ rsTab[t].token /\ rsTab' = [rsTab EXCEPT ![t].token = FALSE]
  /\ UNCHANGED <<rsRows, rsCookie, rsCall, rsAll, rsRaced, rsFaults>>

\* login: a session of a new family (createSessionResponse).
RsLogin(t) ==
  LET c == <<t, "login">>  s == Len(rsRows) + 1 IN
  /\ rsTab[t].status = "anonymous" /\ rsCall[c].pc = "idle" /\ s <= RsMaxSessions
  /\ rsRows' = Append(rsRows, [family |-> s, revoked |-> FALSE, next |-> 0, expired |-> FALSE])
  /\ rsCall' = [rsCall EXCEPT ![c] = [RsIdle EXCEPT !.pc = "answer", !.out = s]] /\ rsRaced' = (rsRaced \/ RsInFlight /= {})
  /\ UNCHANGED <<rsCookie, rsTab, rsAll, rsFaults>>

RsGoes(c, pc) == rsCall' = [rsCall EXCEPT ![c].pc = pc]
RsRefreshes(c) == c[2] \in {"mount", "flight"}

\* refresh up to its transaction: no cookie, an expired token, a session that
\* was revoked or replaced (its family goes), one to rotate.
RsRead(c) ==
  LET s == rsCall[c].sent IN
  /\ rsCall[c].pc = "read" /\ RsRefreshes(c)
  /\ RsGoes(c, IF s = 0 THEN "answer" ELSE IF rsRows[s].expired THEN "answer" ELSE IF rsRows[s].revoked THEN "revoke" ELSE "rotate")
  /\ UNCHANGED <<rsRows, rsCookie, rsTab, rsAll, rsRaced, rsFaults>>

RsRotated(s) == Append([rsRows EXCEPT ![s] = [@ EXCEPT !.revoked = TRUE, !.next = Len(rsRows) + 1]],
                       [family |-> rsRows[s].family, revoked |-> FALSE, next |-> 0, expired |-> FALSE])
\* a variant: the transaction does not ask whether the session was still there
RsRotateBlind(c) ==
  LET s == rsCall[c].sent IN
  /\ rsCall[c].pc = "rotate" /\ Len(rsRows) < RsMaxSessions
  /\ rsRows' = RsRotated(s) /\ rsCall' = [rsCall EXCEPT ![c].pc = "answer", ![c].out = Len(rsRows) + 1]
  /\ UNCHANGED <<rsCookie, rsTab, rsAll, rsRaced, rsFaults>>
\* The transaction: the next session, and the old one revoked and linked to it
\* if it is still live; if not, all is undone and the family goes.
RsRotate(c) ==
  LET s == rsCall[c].sent IN
  /\ rsCall[c].pc = "rotate" /\ Len(rsRows) < RsMaxSessions
  /\ IF RsLiveRow(s)
     THEN rsRows' = RsRotated(s) /\ rsCall' = [rsCall EXCEPT ![c].pc = "answer", ![c].out = Len(rsRows) + 1]
     ELSE RsGoes(c, "revoke") /\ UNCHANGED rsRows
  /\ UNCHANGED <<rsCookie, rsTab, rsAll, rsRaced, rsFaults>>
\* The transaction fails (500); so it does at the bound on rows.
RsRotateFails(c) ==
  /\ rsCall[c].pc = "rotate" /\ (rsFaults < RsMaxFaults \/ Len(rsRows) = RsMaxSessions) /\ RsGoes(c, "answer")
  /\ rsFaults' = IF rsFaults < RsMaxFaults THEN rsFaults + 1 ELSE rsFaults
  /\ UNCHANGED <<rsRows, rsCookie, rsTab, rsAll, rsRaced>>

RsRevoked(seen) == [s \in DOMAIN rsRows |-> IF s \in seen THEN [rsRows[s] EXCEPT !.revoked = TRUE] ELSE rsRows[s]]
\* revokeFamily: its UPDATE starts, and ends.
RsRevokeFamily(c) ==
  /\ rsCall[c].pc = "revoke"
  /\ rsCall' = [rsCall EXCEPT ![c].pc = "revoking", ![c].seen = RsFamily(rsRows[rsCall[c].sent].family) \intersect RsLive]
  /\ UNCHANGED <<rsRows, rsCookie, rsTab, rsAll, rsRaced, rsFaults>>
RsFamilyRevoked(c) ==
  /\ rsCall[c].pc = "revoking" /\ rsRows' = RsRevoked(rsCall[c].seen) /\ rsCall' = [rsCall EXCEPT ![c].pc = "answer", ![c].seen = {}]
  /\ UNCHANGED <<rsCookie, rsTab, rsAll, rsRaced, rsFaults>>

\* logout on the server: the session of the cookie, if its token is not over.
RsLogoutServed(c) ==
  LET s == rsCall[c].sent IN
  /\ rsCall[c].pc = "read" /\ c[2] = "logout"
  /\ rsRows' = IF s = 0 \/ rsRows[s].expired THEN rsRows ELSE RsRevoked({s})
  /\ RsGoes(c, "answer") /\ UNCHANGED <<rsCookie, rsTab, rsAll, rsRaced, rsFaults>>

\* The calls of a page that is gone: the server serves them, nobody reads the answer.
RsLeft(t) ==
  [c \in RsCalls |-> IF c[1] /= t \/ rsCall[c].pc = "idle" THEN rsCall[c]
                     ELSE IF rsCall[c].pc = "me" THEN RsIdle ELSE [rsCall[c] EXCEPT !.left = TRUE]]
\* The cookie of the new session, or none: a refresh that fails clears it whatever the error is.
RsCookie(c) == rsCall[c].out
\* The answer reaches the browser: its cookie is set, or cleared.  The page
\* that asked takes the token and goes on to /auth/me, or drops its session;
\* after logout it is loaded again, and no longer hears of its other calls.
RsAnswer(c) ==
  LET t == c[1]  ok == rsCall[c].out /= 0 IN
  /\ rsCall[c].pc = "answer" /\ rsCookie' = RsCookie(c)
  /\ IF c[2] = "logout"
     THEN /\ rsTab' = [rsTab EXCEPT ![t] = RsLoaded]
          /\ rsCall' = [RsLeft(t) EXCEPT ![c] = RsIdle]
     ELSE IF rsCall[c].left THEN rsCall' = [rsCall EXCEPT ![c] = RsIdle] /\ UNCHANGED rsTab
     ELSE IF ok THEN rsCall' = [rsCall EXCEPT ![c] = [RsIdle EXCEPT !.pc = "me"]] /\ rsTab' = [rsTab EXCEPT ![t].token = TRUE]
     ELSE rsCall' = [rsCall EXCEPT ![c] = RsIdle] /\ rsTab' = [rsTab EXCEPT ![t] = [@ EXCEPT !.status = "anonymous", !.token = FALSE]]
  /\ UNCHANGED <<rsRows, rsAll, rsRaced, rsFaults>>

RsDropped(t, c) ==
  IF c[2] = "login" \/ rsCall[c].left THEN rsTab
  ELSE [rsTab EXCEPT ![t] = IF c[2] = "logout" THEN RsLoaded ELSE [@ EXCEPT !.status = "anonymous", !.token = FALSE]]
\* The request or its answer is lost: the cookie stays, the page drops its session.
RsLost(c) ==
  /\ rsFaults < RsMaxFaults /\ rsCall[c].pc \in {"read", "answer"} /\ rsFaults' = rsFaults + 1
  /\ rsTab' = RsDropped(c[1], c) /\ rsCall' = [rsCall EXCEPT ![c] = RsIdle] /\ rsRaced' = TRUE
  /\ UNCHANGED <<rsRows, rsCookie, rsAll>>

\* applySession: /auth/me answers, or fails: a refresh drops the session, a login shows the error.
RsMe(c) ==
  /\ rsCall[c].pc = "me" /\ rsCall' = [rsCall EXCEPT ![c] = RsIdle]
  /\ \/ rsTab' = [rsTab EXCEPT ![c[1]].status = "authenticated"] /\ UNCHANGED rsFaults
     \/ rsFaults < RsMaxFaults /\ rsFaults' = rsFaults + 1 /\ rsTab' = RsDropped(c[1], c)
  /\ UNCHANGED <<rsRows, rsCookie, rsAll, rsRaced>>

\* The page is loaded again: by the user, or by RequireAuth for a user who is not signed in.
RsReload(t) ==
  /\ rsTab[t].status /= "loading" /\ rsTab' = [rsTab EXCEPT ![t] = RsLoaded] /\ rsCall' = RsLeft(t)
  /\ rsFaults < RsMaxFaults /\ rsFaults' = rsFaults + 1 /\ UNCHANGED <<rsRows, rsCookie, rsAll, rsRaced>>

\* The user signs out in a tab.
RsLogout(t) ==
  /\ rsTab[t].status = "authenticated" /\ RsSends(<<t, "logout">>)
  /\ UNCHANGED <<rsRows, rsCookie, rsTab, rsAll, rsFaults>>

\* logoutAll from another device: its UPDATE starts, and ends.
RsLogoutAll ==
  /\ rsAll.pc = "idle" /\ rsFaults < RsMaxFaults /\ rsFaults' = rsFaults + 1 /\ rsAll' = [pc |-> "revoking", seen |-> RsLive]
  /\ rsRaced' = (rsRaced \/ RsInFlight /= {}) /\ UNCHANGED <<rsRows, rsCookie, rsTab, rsCall>>
RsAllRevoked ==
  /\ rsAll.pc = "revoking" /\ rsRows' = RsRevoked(rsAll.seen) /\ rsAll' = [pc |-> "idle", seen |-> {}]
  /\ UNCHANGED <<rsCookie, rsTab, rsCall, rsRaced, rsFaults>>

\* revokeSession from another device.
RsRevokeSession ==
  /\ rsFaults < RsMaxFaults /\ rsFaults' = rsFaults + 1 /\ \E s \in RsLive : rsRows' = RsRevoked({s})
  /\ rsRaced' = (rsRaced \/ RsInFlight /= {}) /\ UNCHANGED <<rsCookie, rsTab, rsCall, rsAll>>

\* A session is over.
RsExpire ==
  /\ rsFaults < RsMaxFaults /\ rsFaults' = rsFaults + 1
  /\ \E s \in DOMAIN rsRows : ~rsRows[s].expired /\ rsRows' = [rsRows EXCEPT ![s].expired = TRUE]
  /\ UNCHANGED <<rsCookie, rsTab, rsCall, rsAll, rsRaced>>

RsStep(c) == RsRead(c) \/ RsRotate(c) \/ RsRotateFails(c) \/ RsRevokeFamily(c) \/ RsFamilyRevoked(c) \/ RsLogoutServed(c) \/ RsAnswer(c) \/ RsMe(c)
RsNext ==
  \/ \E t \in RsTabs : RsMount(t) \/ RsUnauthorized(t) \/ RsTokenOver(t) \/ RsLogin(t) \/ RsLogout(t) \/ RsReload(t)
  \/ \E c \in RsCalls : RsStep(c) \/ RsLost(c)
  \/ RsLogoutAll \/ RsAllRevoked \/ RsRevokeSession \/ RsExpire

\* A page that is loaded refreshes; the server serves what reaches it, and the browser reads what it is answered.
RsFairness == \A t \in RsTabs : WF_rsVars(RsMount(t)) /\ \A k \in {"mount", "flight", "login", "logout"} : WF_rsVars(RsStep(<<t, k>>))
RsSpec == RsInit /\ [][RsNext]_rsVars /\ RsFairness

-----------------------------------------------------------------------------
(* Properties. *)

\* However refreshes of one cookie, sign-outs and revocations overlap, a family
\* never has two live sessions: the transaction that adds one takes the place of
\* another (auth.service.ts:124-144).
RsOneLivePerFamily == \A s, u \in RsLive : rsRows[s].family = rsRows[u].family => s = u

\* Every session but the first of its family is the replacement of exactly one
\* other: a refresh that loses leaves no session behind (137-143, 264-275).
RsFamilyIsChain ==
  \A s \in DOMAIN rsRows : rsRows[s].family /= s => Cardinality({u \in DOMAIN rsRows : rsRows[u].next = s /\ rsRows[u].family = rsRows[s].family}) = 1

\* As long as calls with the cookie came one after the other and none was lost,
\* the cookie is that of the latest session of its family, so that no refresh of
\* the browser is taken for a reuse of an old one (99-111; auth-provider.tsx:95-107).
RsCookieIsLatest == (~rsRaced /\ rsCookie /= 0 /\ RsInFlight = {}) => rsRows[rsCookie].next = 0

\* The safety of refresh sessions: a family is a chain with one live session at
\* its end, and the cookie of an undisturbed browser is that one.
RsInv == RsTypeOK /\ RsOneLivePerFamily /\ RsFamilyIsChain /\ RsCookieIsLatest
=============================================================================
