----------------------- MODULE RefreshSessionsProofs ------------------------
(***************************************************************************)
(* RsInv for any number of tabs, sessions and faults.  The rows change in  *)
(* three ways only: some are revoked or expire, a family is opened, or a   *)
(* live row is replaced by the next of its family.  One live row per       *)
(* family and the chain of a family follow from that.  The cookie needs    *)
(* Undisturbed: while calls come one after the other there is at most one, *)
(* and what it brings back is the latest row of its family.                *)
(***************************************************************************)
EXTENDS RefreshSessions, SequenceTheorems, FiniteSetTheorems, TLAPS

Row == [family : Nat, revoked : BOOLEAN, next : Nat, expired : BOOLEAN]
Places == {"idle", "read", "rotate", "revoke", "revoking", "answer", "me"}
Tab == [status : {"loading", "authenticated", "anonymous"}, token : BOOLEAN, mounted : BOOLEAN]

\* A call while there are n sessions: one that goes on to its transaction sent
\* the cookie of a session, and one that is not answered has no session yet.
CallRecord(n) == [pc : Places, sent : 0 .. n, seen : SUBSET (1 .. n), out : 0 .. n, left : BOOLEAN]
CallIn(n) == {v \in CallRecord(n) : (v.pc \in {"rotate", "revoke"} => v.sent /= 0) /\ (v.pc /= "answer" => v.out = 0)}

Typed ==
  /\ rsRows \in Seq(Row) /\ Len(rsRows) <= RsMaxSessions /\ rsCookie \in 0 .. Len(rsRows)
  /\ rsCall \in [RsCalls -> CallIn(Len(rsRows))] /\ rsTab \in [RsTabs -> Tab]
  /\ rsAll \in [pc : {"idle", "revoking"}, seen : SUBSET (1 .. Len(rsRows))]
  /\ rsRaced \in BOOLEAN /\ rsFaults \in 0 .. RsMaxFaults

\* The links of the rows: a family is called after its first row, and a row is
\* linked to a later one once it is revoked.
RowsLinked ==
  \A s \in 1 .. Len(rsRows) : /\ rsRows[s].family \in 1 .. s
                              /\ rsRows[s].next = 0 \/ (rsRows[s].next \in s + 1 .. Len(rsRows) /\ rsRows[s].revoked)

\* While calls come one after the other, there is at most one, what it answers
\* with is the latest of its family, and so is the cookie when there is none.
Undisturbed ==
  ~rsRaced =>
    /\ \A c, d \in RsInFlight : c = d
    /\ \A c \in RsInFlight : rsCall[c].pc = "answer" /\ rsCall[c].out /= 0 => rsRows[rsCall[c].out].next = 0
    /\ RsInFlight = {} /\ rsCookie /= 0 => rsRows[rsCookie].next = 0

SessionsInv == Typed /\ RowsLinked /\ RsOneLivePerFamily /\ RsFamilyIsChain /\ Undisturbed

-----------------------------------------------------------------------------
(* The three ways the rows change.                                         *)

\* Rows may have been revoked or have expired.
Weakened ==
  /\ Len(rsRows') = Len(rsRows)
  /\ \A s \in 1 .. Len(rsRows) : /\ rsRows'[s].family = rsRows[s].family /\ rsRows'[s].next = rsRows[s].next
                                 /\ rsRows[s].revoked => rsRows'[s].revoked

\* A live row of family f at the end.
Opened(f) ==
  /\ Len(rsRows') = Len(rsRows) + 1
  /\ rsRows'[Len(rsRows) + 1] = [family |-> f, revoked |-> FALSE, next |-> 0, expired |-> FALSE]

LoggedIn == Opened(Len(rsRows) + 1) /\ \A s \in 1 .. Len(rsRows) : rsRows'[s] = rsRows[s]

Replaced(r) ==
  /\ ~rsRows[r].revoked /\ Opened(rsRows[r].family)
  /\ rsRows'[r].family = rsRows[r].family /\ rsRows'[r].next = Len(rsRows) + 1 /\ rsRows'[r].revoked
  /\ \A s \in 1 .. Len(rsRows) : s /= r => rsRows'[s] = rsRows[s]

RowsChange == rsRows' \in Seq(Row) /\ (Weakened \/ LoggedIn \/ \E r \in 1 .. Len(rsRows) : Replaced(r))

(* A function on 1 .. n is a sequence.                                     *)
LEMMA FunctionIsSeq ==
  ASSUME NEW S, NEW n \in Nat, NEW f \in [1 .. n -> S]
  PROVE  f \in Seq(S) /\ Len(f) = n
  <1>1. f \in Seq(S)
     BY SeqDef
  <1> QED
     BY <1>1, LenProperties

(* A statement that revokes some rows changes nothing else.                *)
LEMMA RevokedRows ==
  ASSUME rsRows \in Seq(Row), NEW seen, rsRows' = RsRevoked(seen)
  PROVE  rsRows' \in Seq(Row) /\ Weakened
  <1> DEFINE n == Len(rsRows)
  <1>1. n \in Nat /\ DOMAIN rsRows = 1 .. n /\ \A s \in 1 .. n : rsRows[s] \in Row
     BY LenProperties, ElementOfSeq
  <1>2. ASSUME NEW s \in 1 .. n PROVE [rsRows[s] EXCEPT !.revoked = TRUE] \in Row
     BY <1>1 DEF Row
  <1>3. rsRows' \in [1 .. n -> Row]
     BY <1>1, <1>2 DEF RsRevoked
  <1>4. rsRows' \in Seq(Row) /\ Len(rsRows') = n
     BY <1>1, <1>3, FunctionIsSeq
  <1>5. ASSUME NEW s \in 1 .. n
        PROVE  /\ rsRows'[s].family = rsRows[s].family /\ rsRows'[s].next = rsRows[s].next
               /\ rsRows[s].revoked => rsRows'[s].revoked
    <2>1. rsRows'[s] = rsRows[s] \/ rsRows'[s] = [rsRows[s] EXCEPT !.revoked = TRUE]
       BY <1>1 DEF RsRevoked
    <2>2. rsRows[s] \in Row
       BY <1>1
    <2> QED
       BY <2>1, <2>2 DEF Row
  <1> QED
     BY <1>4, <1>5 DEF Weakened

(* A row that expires.                                                     *)
LEMMA ExpiredRow ==
  ASSUME rsRows \in Seq(Row), NEW u \in DOMAIN rsRows, rsRows' = [rsRows EXCEPT ![u].expired = TRUE]
  PROVE  rsRows' \in Seq(Row) /\ Weakened
  <1> DEFINE n == Len(rsRows)
  <1>1. n \in Nat /\ DOMAIN rsRows = 1 .. n /\ \A s \in 1 .. n : rsRows[s] \in Row
     BY LenProperties, ElementOfSeq
  <1>2. [rsRows[u] EXCEPT !.expired = TRUE] \in Row
     BY <1>1 DEF Row
  <1>3. rsRows' \in [1 .. n -> Row]
     BY <1>1, <1>2
  <1>4. rsRows' \in Seq(Row) /\ Len(rsRows') = n
     BY <1>1, <1>3, FunctionIsSeq
  <1>5. ASSUME NEW s \in 1 .. n
        PROVE  /\ rsRows'[s].family = rsRows[s].family /\ rsRows'[s].next = rsRows[s].next
               /\ rsRows[s].revoked => rsRows'[s].revoked
    <2>1. rsRows'[s] = rsRows[s] \/ rsRows'[s] = [rsRows[s] EXCEPT !.expired = TRUE]
       BY <1>1
    <2>2. rsRows[s] \in Row
       BY <1>1
    <2> QED
       BY <2>1, <2>2 DEF Row
  <1> QED
     BY <1>4, <1>5 DEF Weakened

(* The transaction that rotates a live session.                            *)
LEMMA RotatedRow ==
  ASSUME rsRows \in Seq(Row), NEW r \in 1 .. Len(rsRows), RsLiveRow(r), rsRows' = RsRotated(r)
  PROVE  rsRows' \in Seq(Row) /\ Replaced(r)
  <1> DEFINE n == Len(rsRows)
             old == [rsRows[r] EXCEPT !.revoked = TRUE, !.next = n + 1]
             new == [family |-> rsRows[r].family, revoked |-> FALSE, next |-> 0, expired |-> FALSE]
             rows == [rsRows EXCEPT ![r] = old]
  <1>1. n \in Nat /\ DOMAIN rsRows = 1 .. n /\ \A s \in 1 .. n : rsRows[s] \in Row
     BY LenProperties, ElementOfSeq
  <1>2. old \in Row /\ new \in Row
    <2>1. rsRows[r] \in Row /\ n + 1 \in Nat
       BY <1>1
    <2> QED
       BY <2>1 DEF Row
  <1>3. rows \in [1 .. n -> Row]
     BY <1>1, <1>2
  <1>4. rows \in Seq(Row) /\ Len(rows) = n
     BY <1>1, <1>3, FunctionIsSeq
  <1>5. rsRows' = Append(rows, new)
     BY DEF RsRotated
  <1>6. /\ rsRows' \in Seq(Row) /\ Len(rsRows') = n + 1 /\ rsRows'[n + 1] = new
        /\ \A s \in 1 .. n : rsRows'[s] = rows[s]
     BY <1>2, <1>4, <1>5, AppendProperties
  <1>7. rsRows'[r] = old /\ \A s \in 1 .. n : s /= r => rsRows'[s] = rsRows[s]
     BY <1>1, <1>6
  <1>8. old.family = rsRows[r].family /\ old.next = n + 1 /\ old.revoked
    <2>1. rsRows[r] \in Row
       BY <1>1
    <2> QED
       BY <2>1 DEF Row
  <1> QED
     BY <1>6, <1>7, <1>8 DEF Replaced, Opened, RsLiveRow

(* A new family.                                                           *)
LEMMA LoggedInRow ==
  ASSUME rsRows \in Seq(Row), NEW t \in RsTabs, RsLogin(t)
  PROVE  rsRows' \in Seq(Row) /\ LoggedIn
  <1> DEFINE n == Len(rsRows)
             new == [family |-> n + 1, revoked |-> FALSE, next |-> 0, expired |-> FALSE]
  <1>1. n \in Nat /\ new \in Row
     BY LenProperties DEF Row
  <1>2. rsRows' = Append(rsRows, new)
     BY DEF RsLogin
  <1> QED
     BY <1>1, <1>2, AppendProperties DEF LoggedIn, Opened

(* The statements that write session rows.                                 *)
LEMMA RowWriters ==
  ASSUME [RsNext]_rsVars
  PROVE  \/ rsRows' = rsRows
         \/ \E t \in RsTabs : RsLogin(t)
         \/ \E c \in RsCalls : RsRotate(c) \/ RsFamilyRevoked(c) \/ RsLogoutServed(c)
         \/ RsAllRevoked \/ RsRevokeSession \/ RsExpire
  BY DEF RsNext, RsStep, RsMount, RsUnauthorized, RsTokenOver, RsLogout, RsReload, RsRead, RsRotateFails, RsRevokeFamily,
     RsAnswer, RsMe, RsLost, RsLogoutAll, rsVars

(* Every step changes the rows in one of the three ways.                   *)
LEMMA RowsStep ==
  ASSUME Typed, [RsNext]_rsVars PROVE RowsChange
  <1> rsRows \in Seq(Row)
     BY DEF Typed
  <1>1. CASE rsRows' = rsRows
     BY <1>1 DEF RowsChange, Weakened
  <1>2. ASSUME NEW seen, rsRows' = RsRevoked(seen) PROVE RowsChange
     BY <1>2, RevokedRows DEF RowsChange
  <1>3. ASSUME NEW t \in RsTabs, RsLogin(t) PROVE RowsChange
     BY <1>3, LoggedInRow DEF RowsChange
  <1>4. ASSUME NEW c \in RsCalls, RsRotate(c) PROVE RowsChange
    <2>1. CASE rsRows' = rsRows
       BY <2>1, <1>1
    <2>2. CASE rsRows' /= rsRows
      <3>1. RsLiveRow(rsCall[c].sent) /\ rsRows' = RsRotated(rsCall[c].sent)
         BY <1>4, <2>2 DEF RsRotate
      <3>2. rsCall[c].sent \in 1 .. Len(rsRows)
        <4>1. Len(rsRows) \in Nat /\ rsCall[c].sent \in 0 .. Len(rsRows) /\ rsCall[c].sent /= 0
           BY <1>4, LenProperties DEF RsRotate, Typed, CallIn, CallRecord
        <4> QED
           BY <4>1
      <3> QED
         BY <3>1, <3>2, RotatedRow DEF RowsChange
    <2> QED
       BY <2>1, <2>2
  <1>5. ASSUME NEW c \in RsCalls, RsFamilyRevoked(c) \/ RsLogoutServed(c) PROVE RowsChange
     BY <1>1, <1>2, <1>5 DEF RsFamilyRevoked, RsLogoutServed
  <1>6. ASSUME RsAllRevoked \/ RsRevokeSession PROVE RowsChange
     BY <1>2, <1>6 DEF RsAllRevoked, RsRevokeSession
  <1>7. ASSUME RsExpire PROVE RowsChange
     BY <1>7, ExpiredRow DEF RsExpire, RowsChange
  <1> QED
     BY <1>1, <1>3, <1>4, <1>5, <1>6, <1>7, RowWriters

(* Links are kept.                                                         *)
LEMMA LinkedNext ==
  ASSUME rsRows \in Seq(Row), RowsLinked, RowsChange PROVE RowsLinked'
  <1> DEFINE n == Len(rsRows)
  <1>0. n \in Nat
     BY LenProperties
  <1>1. CASE Weakened
     BY <1>0, <1>1 DEF Weakened, RowsLinked
  <1>2. CASE LoggedIn
     BY <1>0, <1>2 DEF LoggedIn, Opened, RowsLinked
  <1>3. ASSUME NEW r \in 1 .. n, Replaced(r) PROVE RowsLinked'
    <2> SUFFICES ASSUME NEW s \in 1 .. n + 1
                 PROVE  /\ rsRows'[s].family \in 1 .. s
                        /\ rsRows'[s].next = 0 \/ (rsRows'[s].next \in s + 1 .. n + 1 /\ rsRows'[s].revoked)
       BY <1>3 DEF RowsLinked, Replaced, Opened
    <2>1. CASE s = n + 1
       BY <1>0, <1>3, <2>1 DEF Replaced, Opened, RowsLinked
    <2>2. CASE s = r
       BY <1>0, <1>3, <2>2 DEF Replaced, RowsLinked
    <2>3. CASE s \in 1 .. n /\ s /= r
       BY <1>0, <1>3, <2>3 DEF Replaced, RowsLinked
    <2> QED
       BY <1>0, <2>1, <2>2, <2>3
  <1> QED
     BY <1>1, <1>2, <1>3 DEF RowsChange

(* A family has one live row at most.                                      *)
LEMMA OneLiveNext ==
  ASSUME rsRows \in Seq(Row), RowsLinked, RsOneLivePerFamily, RowsChange PROVE RsOneLivePerFamily'
  <1> DEFINE n == Len(rsRows)
  <1>0. n \in Nat /\ DOMAIN rsRows = 1 .. n /\ rsRows' \in Seq(Row)
     BY LenProperties DEF RowsChange
  <1>1. \A s, u \in 1 .. n : ~rsRows[s].revoked /\ ~rsRows[u].revoked /\ rsRows[s].family = rsRows[u].family => s = u
     BY <1>0 DEF RsOneLivePerFamily, RsLive, RsLiveRow
  <1> SUFFICES ASSUME NEW s \in 1 .. Len(rsRows'), NEW u \in 1 .. Len(rsRows'), ~rsRows'[s].revoked, ~rsRows'[u].revoked,
                      rsRows'[s].family = rsRows'[u].family
               PROVE  s = u
    <2>1. DOMAIN rsRows' = 1 .. Len(rsRows')
       BY <1>0, LenProperties
    <2> QED
       BY <2>1 DEF RsOneLivePerFamily, RsLive, RsLiveRow
  <1>2. CASE Weakened
     BY <1>1, <1>2 DEF Weakened
  <1>3. CASE LoggedIn
    <2>1. \A v \in 1 .. n : rsRows'[v] = rsRows[v] /\ rsRows[v].family < n + 1
       BY <1>0, <1>3 DEF LoggedIn, RowsLinked
    <2>2. rsRows'[n + 1].family = n + 1 /\ Len(rsRows') = n + 1
       BY <1>3 DEF LoggedIn, Opened
    <2>3. \A v \in 1 .. n : rsRows[v].family \in Nat
       BY <1>0 DEF RowsLinked
    <2> QED
       BY <1>0, <1>1, <2>1, <2>2, <2>3
  <1>4. ASSUME NEW r \in 1 .. n, Replaced(r) PROVE s = u
    <2>1. /\ Len(rsRows') = n + 1 /\ rsRows'[n + 1].family = rsRows[r].family /\ ~rsRows[r].revoked /\ rsRows'[r].revoked
          /\ \A v \in 1 .. n : v /= r => rsRows'[v] = rsRows[v]
       BY <1>4 DEF Replaced, Opened
    <2>2. ASSUME NEW v \in 1 .. n, ~rsRows'[v].revoked PROVE rsRows'[v] = rsRows[v] /\ rsRows[v].family /= rsRows[r].family
       BY <1>1, <2>1, <2>2
    <2> QED
       BY <1>0, <1>1, <2>1, <2>2
  <1> QED
     BY <1>2, <1>3, <1>4 DEF RowsChange

\* The rows that s is the replacement of, in its family.
Replaces(s) == {u \in DOMAIN rsRows : rsRows[u].next = s /\ rsRows[u].family = rsRows[s].family}

Chained == \A s \in 1 .. Len(rsRows) : rsRows[s].family /= s => \E r : Replaces(s) = {r}

(* The chain, without counting.                                            *)
LEMMA ChainIs == rsRows \in Seq(Row) => (RsFamilyIsChain <=> Chained)
  <1> SUFFICES ASSUME rsRows \in Seq(Row) PROVE RsFamilyIsChain <=> Chained
     OBVIOUS
  <1>1. Len(rsRows) \in Nat /\ DOMAIN rsRows = 1 .. Len(rsRows)
     BY LenProperties
  <1>2. IsFiniteSet(1 .. Len(rsRows))
     BY <1>1, FS_Interval
  <1>3. ASSUME NEW s PROVE IsFiniteSet(Replaces(s))
    <2>1. Replaces(s) \in SUBSET (1 .. Len(rsRows))
       BY <1>1 DEF Replaces
    <2> QED
       BY <1>2, <2>1, FS_Subset
  <1>4. ASSUME NEW s PROVE Cardinality(Replaces(s)) = 1 <=> \E r : Replaces(s) = {r}
     BY <1>3, FS_Singleton
  <1>5. RsFamilyIsChain <=> \A s \in 1 .. Len(rsRows) : rsRows[s].family /= s => Cardinality(Replaces(s)) = 1
     BY <1>1 DEF RsFamilyIsChain, Replaces
  <1> QED
     BY <1>4, <1>5 DEF Chained

(* A family is a chain.                                                    *)
LEMMA ChainNext ==
  ASSUME rsRows \in Seq(Row), RowsLinked, RsFamilyIsChain, RowsChange PROVE RsFamilyIsChain'
  <1> DEFINE n == Len(rsRows)
  <1>0. n \in Nat /\ DOMAIN rsRows = 1 .. n /\ rsRows' \in Seq(Row) /\ DOMAIN rsRows' = 1 .. Len(rsRows')
     BY LenProperties DEF RowsChange
  <1>1. \A s \in 1 .. n : rsRows[s].family /= s => \E r : Replaces(s) = {r}
     BY ChainIs DEF Chained
  <1>2. \A s \in 1 .. n : rsRows[s].next \in Nat /\ rsRows[s].next <= n /\ rsRows[s].family \in Nat
     BY <1>0 DEF RowsLinked
  <1> SUFFICES ASSUME NEW s \in 1 .. Len(rsRows'), rsRows'[s].family /= s PROVE \E r : Replaces(s)' = {r}
    <2>1. (rsRows \in Seq(Row))' => (RsFamilyIsChain' <=> Chained')
       BY ChainIs, PTL
    <2> QED
       BY <1>0, <2>1 DEF Chained
  <1>3. CASE Weakened
    <2>1. Len(rsRows') = n /\ \A u \in 1 .. n : rsRows'[u].family = rsRows[u].family /\ rsRows'[u].next = rsRows[u].next
       BY <1>3 DEF Weakened
    <2>2. Replaces(s)' = Replaces(s)
       BY <1>0, <2>1 DEF Replaces
    <2> QED
       BY <1>1, <2>1, <2>2
  <1>4. CASE LoggedIn
    <2>1. /\ Len(rsRows') = n + 1 /\ rsRows'[n + 1].family = n + 1 /\ rsRows'[n + 1].next = 0
          /\ \A u \in 1 .. n : rsRows'[u] = rsRows[u]
       BY <1>4 DEF LoggedIn, Opened
    <2>2. s \in 1 .. n
       BY <1>0, <2>1
    <2>3. Replaces(s)' = Replaces(s)
       BY <1>0, <1>2, <2>1, <2>2 DEF Replaces
    <2> QED
       BY <1>1, <2>1, <2>2, <2>3
  <1>5. ASSUME NEW r \in 1 .. n, Replaced(r) PROVE \E p : Replaces(s)' = {p}
    <2>1. /\ Len(rsRows') = n + 1 /\ rsRows'[n + 1].family = rsRows[r].family /\ rsRows'[n + 1].next = 0
          /\ rsRows'[r].family = rsRows[r].family /\ rsRows'[r].next = n + 1
          /\ \A u \in 1 .. n : u /= r => rsRows'[u] = rsRows[u]
       BY <1>5 DEF Replaced, Opened
    <2>2. rsRows[r].next = 0
       BY <1>0, <1>5 DEF Replaced, RowsLinked
    <2>3. CASE s = n + 1
      <3>1. Replaces(s)' = {r}
         BY <1>0, <1>2, <2>1, <2>3 DEF Replaces
      <3> QED
         BY <3>1
    <2>4. CASE s \in 1 .. n
      <3>1. \A u \in 1 .. n : rsRows'[u].family = rsRows[u].family
         BY <2>1
      <3>2. ASSUME NEW u PROVE u \in Replaces(s)' <=> u \in Replaces(s)
        <4>1. CASE u = n + 1
           BY <1>0, <2>1, <2>4, <4>1 DEF Replaces
        <4>2. CASE u = r
           BY <1>0, <2>1, <2>2, <2>4, <4>2 DEF Replaces
        <4>3. CASE u \in 1 .. n /\ u /= r
           BY <1>0, <2>1, <2>4, <3>1, <4>3 DEF Replaces
        <4>4. CASE u \notin 1 .. n + 1
           BY <1>0, <2>1, <4>4 DEF Replaces
        <4> QED
           BY <1>0, <4>1, <4>2, <4>3, <4>4
      <3> QED
        <4>1. Replaces(s)' = Replaces(s)
           BY <3>2
        <4> QED
           BY <1>1, <2>4, <3>1, <4>1
    <2>5. s = n + 1 \/ s \in 1 .. n
       BY <1>0, <2>1
    <2> QED
       BY <2>3, <2>4, <2>5
  <1> QED
     BY <1>3, <1>4, <1>5 DEF RowsChange

(* The invariant says what RsInv says.                                     *)
LEMMA InvSuffices == SessionsInv => RsInv
  <1> SUFFICES ASSUME SessionsInv PROVE RsInv
     OBVIOUS
  <1> USE DEF SessionsInv
  <1>1. RsTypeOK
    <2>1. Len(rsRows) \in Nat /\ DOMAIN rsRows = 1 .. Len(rsRows) /\ \A s \in 1 .. Len(rsRows) : rsRows[s] \in Row
       BY LenProperties, ElementOfSeq DEF Typed
    <2>2. \A s \in DOMAIN rsRows : rsRows[s].revoked \in BOOLEAN /\ rsRows[s].expired \in BOOLEAN
       BY <2>1 DEF Row
    <2>3. ASSUME NEW c \in RsCalls
          PROVE  /\ rsCall[c].pc \in Places /\ rsCall[c].sent \in 0 .. Len(rsRows)
                 /\ rsCall[c].seen \subseteq DOMAIN rsRows /\ rsCall[c].out \in 0 .. Len(rsRows) /\ rsCall[c].left \in BOOLEAN
       BY <2>1 DEF Typed, CallIn, CallRecord
    <2>4. rsAll.pc \in {"idle", "revoking"} /\ rsAll.seen \subseteq DOMAIN rsRows
       BY <2>1 DEF Typed
    <2>5. \A s \in DOMAIN rsRows : /\ rsRows[s].family \in 1 .. s
                                   /\ rsRows[s].next = 0 \/ (rsRows[s].next \in s + 1 .. Len(rsRows) /\ rsRows[s].revoked)
       BY <2>1 DEF RowsLinked
    <2>6. /\ Len(rsRows) <= RsMaxSessions /\ rsCookie \in 0 .. Len(rsRows) /\ rsTab \in [RsTabs -> Tab]
          /\ rsRaced \in BOOLEAN /\ rsFaults \in 0 .. RsMaxFaults
       BY DEF Typed
    <2> QED
       BY <2>2, <2>3, <2>4, <2>5, <2>6 DEF RsTypeOK, Places, Tab
  <1>2. RsCookieIsLatest
     BY DEF RsCookieIsLatest, Undisturbed
  <1> QED
     BY <1>1, <1>2 DEF RsInv

(* Calls, when there are more sessions, and what becomes of one.           *)
LEMMA CallGrows ==
  ASSUME NEW n \in Nat, NEW m \in Nat, n <= m PROVE CallIn(n) \subseteq CallIn(m)
  <1>1. 0 .. n \subseteq 0 .. m /\ 1 .. n \subseteq 1 .. m
     OBVIOUS
  <1> QED
     BY <1>1 DEF CallIn, CallRecord

LEMMA CallMoves ==
  ASSUME NEW n \in Nat, NEW v \in CallIn(n), NEW pc \in Places,
         v.pc /= "answer" \/ pc = "answer", pc \in {"rotate", "revoke"} => v.sent /= 0
  PROVE  [v EXCEPT !.pc = pc] \in CallIn(n)
  <1>1. [v EXCEPT !.pc = pc] \in CallRecord(n)
     BY DEF CallIn, CallRecord
  <1>2. v \in CallRecord(n) /\ (v.pc /= "answer" => v.out = 0)
     BY DEF CallIn
  <1>3. [v EXCEPT !.pc = pc].pc = pc /\ [v EXCEPT !.pc = pc].sent = v.sent /\ [v EXCEPT !.pc = pc].out = v.out
     BY <1>2 DEF CallRecord
  <1> QED
     BY <1>1, <1>2, <1>3 DEF CallIn

LEMMA NewCalls ==
  ASSUME NEW n \in Nat, NEW s \in 0 .. n
  PROVE  /\ RsIdle \in CallIn(n) /\ [RsIdle EXCEPT !.pc = "me"] \in CallIn(n)
         /\ [RsIdle EXCEPT !.pc = "read", !.sent = s] \in CallIn(n)
         /\ [RsIdle EXCEPT !.pc = "answer", !.out = s] \in CallIn(n)
  <1> DEFINE me == [RsIdle EXCEPT !.pc = "me"]
             read == [RsIdle EXCEPT !.pc = "read", !.sent = s]
             answer == [RsIdle EXCEPT !.pc = "answer", !.out = s]
  <1>0. RsIdle \in CallRecord(n) /\ RsIdle.pc = "idle" /\ RsIdle.out = 0
    <2>1. 0 \in 0 .. n /\ {} \subseteq 1 .. n /\ "idle" \in Places
       BY DEF Places
    <2> QED
       BY <2>1 DEF RsIdle, CallRecord
  <1>1. me \in CallRecord(n) /\ me.pc = "me" /\ me.out = 0
     BY <1>0 DEF CallRecord, Places
  <1>2. read \in CallRecord(n) /\ read.pc = "read" /\ read.out = 0
     BY <1>0 DEF CallRecord, Places
  <1>3. answer \in CallRecord(n) /\ answer.pc = "answer"
     BY <1>0 DEF CallRecord, Places
  <1> QED
     BY <1>0, <1>1, <1>2, <1>3 DEF CallIn

(* The calls of a page that is gone.                                       *)
LEMMA LeftCalls ==
  ASSUME NEW n \in Nat, rsCall \in [RsCalls -> CallIn(n)], NEW t PROVE RsLeft(t) \in [RsCalls -> CallIn(n)]
  <1>1. ASSUME NEW v \in CallIn(n) PROVE [v EXCEPT !.left = TRUE] \in CallIn(n)
    <2>1. v \in CallRecord(n) /\ (v.pc /= "answer" => v.out = 0) /\ (v.pc \in {"rotate", "revoke"} => v.sent /= 0)
       BY DEF CallIn
    <2>2. [v EXCEPT !.left = TRUE] \in CallRecord(n)
       BY <2>1 DEF CallRecord
    <2>3. /\ [v EXCEPT !.left = TRUE].pc = v.pc /\ [v EXCEPT !.left = TRUE].sent = v.sent
          /\ [v EXCEPT !.left = TRUE].out = v.out
       BY <2>1 DEF CallRecord
    <2> QED
       BY <2>1, <2>2, <2>3 DEF CallIn
  <1>2. RsIdle \in CallIn(n)
    <2>1. 0 \in 0 .. n
       OBVIOUS
    <2> QED
       BY <2>1, NewCalls
  <1> QED
     BY <1>1, <1>2 DEF RsLeft

(* Rows are never deleted.                                                 *)
LEMMA RowsGrow ==
  ASSUME rsRows \in Seq(Row), RowsChange
  PROVE  Len(rsRows) \in Nat /\ Len(rsRows') \in Nat /\ Len(rsRows) <= Len(rsRows')
  <1>1. Len(rsRows) \in Nat
     BY LenProperties
  <1>2. Len(rsRows') = Len(rsRows) \/ Len(rsRows') = Len(rsRows) + 1
     BY DEF RowsChange, Weakened, LoggedIn, Replaced, Opened
  <1> QED
     BY <1>1, <1>2

(* A step of a call that leaves it in flight.                              *)
LEMMA ServedCalls ==
  ASSUME Typed, RowsChange, NEW c \in RsCalls,
         RsRead(c) \/ RsRotate(c) \/ RsRotateFails(c) \/ RsRevokeFamily(c) \/ RsFamilyRevoked(c) \/ RsLogoutServed(c)
  PROVE  \E v \in CallIn(Len(rsRows')) : rsCall' = [rsCall EXCEPT ![c] = v]
  <1> DEFINE n == Len(rsRows)  m == Len(rsRows')  u == rsCall[c]
  <1>0. n \in Nat /\ m \in Nat /\ n <= m /\ rsRows \in Seq(Row)
     BY RowsGrow DEF Typed
  <1>1. u \in CallIn(n) /\ u \in CallIn(m)
     BY <1>0, CallGrows DEF Typed
  <1>2. u \in CallRecord(m) /\ (u.pc /= "answer" => u.out = 0) /\ (u.pc \in {"rotate", "revoke"} => u.sent /= 0)
     BY <1>1 DEF CallIn
  <1>3. CASE RsRead(c)
    <2>1. PICK pc \in {"answer", "revoke", "rotate"} : rsCall' = [rsCall EXCEPT ![c].pc = pc] /\ (pc /= "answer" => u.sent /= 0)
       BY <1>3 DEF RsRead, RsGoes
    <2>2. [u EXCEPT !.pc = pc] \in CallIn(m)
       BY <1>0, <1>1, <1>3, <2>1, CallMoves DEF RsRead, Places
    <2> QED
       BY <2>1, <2>2
  <1>4. CASE RsRotate(c)
    <2>1. CASE RsLiveRow(u.sent)
      <3> DEFINE v == [u EXCEPT !.pc = "answer", !.out = n + 1]
      <3>1. rsCall' = [rsCall EXCEPT ![c] = v] /\ rsRows' = RsRotated(u.sent)
         BY <1>4, <2>1 DEF RsRotate
      <3>2. u.sent \in 1 .. n
         BY <1>0, <1>1, <1>4 DEF RsRotate, CallIn, CallRecord
      <3>3. m = n + 1
         BY <1>0, <2>1, <3>1, <3>2, RotatedRow DEF Replaced, Opened
      <3>4. v \in CallRecord(m) /\ v.pc = "answer"
        <4>1. n + 1 \in 0 .. m
           BY <1>0, <3>3
        <4> HIDE DEF n, m
        <4> QED
           BY <1>2, <4>1 DEF CallRecord, Places
      <3> QED
         BY <3>1, <3>4 DEF CallIn
    <2>2. CASE ~RsLiveRow(u.sent)
      <3>1. [u EXCEPT !.pc = "revoke"] \in CallIn(m)
         BY <1>0, <1>1, <1>2, <1>4, CallMoves DEF RsRotate, Places
      <3> QED
         BY <1>4, <2>2, <3>1 DEF RsRotate, RsGoes
    <2> QED
       BY <2>1, <2>2
  <1>5. CASE RsRotateFails(c) \/ RsLogoutServed(c)
    <2>1. [u EXCEPT !.pc = "answer"] \in CallIn(m)
       BY <1>0, <1>1, CallMoves DEF Places
    <2> QED
       BY <1>5, <2>1 DEF RsRotateFails, RsLogoutServed, RsGoes
  <1>6. CASE RsRevokeFamily(c)
    <2> DEFINE w == RsFamily(rsRows[u.sent].family) \intersect RsLive
               v == [u EXCEPT !.pc = "revoking", !.seen = w]
    <2>1. w \subseteq 1 .. n /\ m = n
       BY <1>0, <1>6, LenProperties DEF RsFamily, RsRevokeFamily
    <2>2. rsCall' = [rsCall EXCEPT ![c] = v]
       BY <1>6 DEF RsRevokeFamily
    <2>3. v \in CallRecord(m) /\ v.pc = "revoking" /\ v.out = u.out
       BY <1>2, <2>1 DEF CallRecord, Places
    <2>4. u.out = 0
       BY <1>2, <1>6 DEF RsRevokeFamily
    <2> QED
       BY <2>2, <2>3, <2>4 DEF CallIn
  <1>7. CASE RsFamilyRevoked(c)
    <2> DEFINE v == [u EXCEPT !.pc = "answer", !.seen = {}]
    <2>1. rsCall' = [rsCall EXCEPT ![c] = v]
       BY <1>7 DEF RsFamilyRevoked
    <2>2. v \in CallRecord(m) /\ v.pc = "answer"
       BY <1>2 DEF CallRecord, Places
    <2> QED
       BY <2>1, <2>2 DEF CallIn
  <1> QED
     BY <1>3, <1>4, <1>5, <1>6, <1>7

Served(c) == RsRead(c) \/ RsRotate(c) \/ RsRotateFails(c) \/ RsRevokeFamily(c) \/ RsFamilyRevoked(c) \/ RsLogoutServed(c)
Sends(t) == RsMount(t) \/ RsUnauthorized(t) \/ RsLogout(t)

(* The steps that write the calls, and the cookie.                         *)
LEMMA CallWriters ==
  ASSUME [RsNext]_rsVars
  PROVE  \/ UNCHANGED <<rsCall, rsCookie>> /\ (rsRaced' = rsRaced \/ rsRaced' = (rsRaced \/ RsInFlight /= {}))
         \/ \E t \in RsTabs : Sends(t) \/ RsLogin(t) \/ RsReload(t)
         \/ \E c \in RsCalls : Served(c) \/ RsAnswer(c) \/ RsMe(c) \/ RsLost(c)
  BY DEF RsNext, RsStep, RsTokenOver, RsLogoutAll, RsAllRevoked, RsRevokeSession, RsExpire, rsVars, Served, Sends

(* Who sends.                                                              *)
LEMMA SendsIs ==
  ASSUME NEW t \in RsTabs, Sends(t)
  PROVE  UNCHANGED <<rsRows, rsCookie>> /\ \E c \in RsCalls : RsSends(c)
  BY DEF Sends, RsMount, RsUnauthorized, RsLogout, RsCalls

(* Calls stay well formed.                                                 *)
LEMMA CallsNext ==
  ASSUME Typed, RowsChange, [RsNext]_rsVars PROVE rsCall' \in [RsCalls -> CallIn(Len(rsRows'))]
  <1> DEFINE n == Len(rsRows)  m == Len(rsRows')
  <1>0. n \in Nat /\ m \in Nat /\ n <= m
     BY RowsGrow DEF Typed
  <1>1. rsCall \in [RsCalls -> CallIn(m)]
     BY <1>0, CallGrows DEF Typed
  <1>2. ASSUME NEW c \in RsCalls, NEW v \in CallIn(m), rsCall' = [rsCall EXCEPT ![c] = v]
        PROVE  rsCall' \in [RsCalls -> CallIn(m)]
     BY <1>1, <1>2
  <1>3. RsIdle \in CallIn(m) /\ [RsIdle EXCEPT !.pc = "me"] \in CallIn(m)
    <2>1. 0 \in 0 .. m
       BY <1>0
    <2> QED
       BY <1>0, <2>1, NewCalls
  <1>4. ASSUME NEW t \in RsTabs, Sends(t) PROVE rsCall' \in [RsCalls -> CallIn(m)]
    <2>1. PICK c \in RsCalls : RsSends(c)
       BY <1>4, SendsIs
    <2>2. m = n /\ rsCookie \in 0 .. n
       BY <1>4, SendsIs DEF Typed
    <2>3. [RsIdle EXCEPT !.pc = "read", !.sent = rsCookie] \in CallIn(m)
       BY <1>0, <2>2, NewCalls
    <2> QED
       BY <1>2, <2>1, <2>3 DEF RsSends
  <1>5. ASSUME NEW t \in RsTabs, RsLogin(t) PROVE rsCall' \in [RsCalls -> CallIn(m)]
    <2>1. m = n + 1
       BY <1>5, LoggedInRow DEF LoggedIn, Opened, Typed
    <2>2. n + 1 \in 0 .. m
       BY <1>0, <2>1
    <2>3. [RsIdle EXCEPT !.pc = "answer", !.out = n + 1] \in CallIn(m)
       BY <1>0, <2>2, NewCalls
    <2>4. <<t, "login">> \in RsCalls /\ rsCall' = [rsCall EXCEPT ![<<t, "login">>] = [RsIdle EXCEPT !.pc = "answer", !.out = n + 1]]
       BY <1>5 DEF RsLogin, RsCalls
    <2> QED
       BY <1>2, <2>3, <2>4
  <1>6. ASSUME NEW t \in RsTabs, RsReload(t) PROVE rsCall' \in [RsCalls -> CallIn(m)]
     BY <1>0, <1>1, <1>6, LeftCalls DEF RsReload
  <1>7. ASSUME NEW c \in RsCalls, Served(c) PROVE rsCall' \in [RsCalls -> CallIn(m)]
    <2>1. PICK v \in CallIn(m) : rsCall' = [rsCall EXCEPT ![c] = v]
       BY <1>7, ServedCalls DEF Served
    <2> QED
       BY <1>2, <2>1
  <1>8. ASSUME NEW c \in RsCalls, RsAnswer(c) PROVE rsCall' \in [RsCalls -> CallIn(m)]
    <2>1. RsLeft(c[1]) \in [RsCalls -> CallIn(m)]
       BY <1>0, <1>1, LeftCalls
    <2>2. \/ rsCall' = [RsLeft(c[1]) EXCEPT ![c] = RsIdle] \/ rsCall' = [rsCall EXCEPT ![c] = RsIdle]
          \/ rsCall' = [rsCall EXCEPT ![c] = [RsIdle EXCEPT !.pc = "me"]]
       BY <1>8 DEF RsAnswer
    <2>3. ASSUME rsCall' = [RsLeft(c[1]) EXCEPT ![c] = RsIdle] PROVE rsCall' \in [RsCalls -> CallIn(m)]
       BY <1>3, <2>1, <2>3
    <2> QED
       BY <1>2, <1>3, <2>2, <2>3
  <1>9. ASSUME NEW c \in RsCalls, RsMe(c) \/ RsLost(c) PROVE rsCall' \in [RsCalls -> CallIn(m)]
     BY <1>2, <1>3, <1>9 DEF RsMe, RsLost
  <1> QED
     BY <1>1, <1>4, <1>5, <1>6, <1>7, <1>8, <1>9, CallWriters

(* Tabs stay well formed.                                                  *)
LEMMA TabsNext ==
  ASSUME rsTab \in [RsTabs -> Tab], [RsNext]_rsVars PROVE rsTab' \in [RsTabs -> Tab]
  <1>0. RsLoaded \in Tab
     BY DEF RsLoaded, Tab
  <1>1. ASSUME NEW t \in RsTabs
        PROVE  /\ [rsTab[t] EXCEPT !.mounted = TRUE] \in Tab /\ [rsTab[t] EXCEPT !.token = TRUE] \in Tab
               /\ [rsTab[t] EXCEPT !.token = FALSE] \in Tab /\ [rsTab[t] EXCEPT !.status = "authenticated"] \in Tab
               /\ [rsTab[t] EXCEPT !.status = "anonymous", !.token = FALSE] \in Tab
    <2>1. rsTab[t] \in Tab
       OBVIOUS
    <2> QED
       BY <2>1 DEF Tab
  <1>2. ASSUME NEW t \in RsTabs, NEW v \in Tab, rsTab' = [rsTab EXCEPT ![t] = v] PROVE rsTab' \in [RsTabs -> Tab]
     BY <1>2
  <1>3. ASSUME NEW t \in RsTabs, RsMount(t) \/ RsTokenOver(t) \/ RsReload(t) PROVE rsTab' \in [RsTabs -> Tab]
     BY <1>0, <1>1, <1>2, <1>3 DEF RsMount, RsTokenOver, RsReload
  <1>4. ASSUME NEW c \in RsCalls PROVE c[1] \in RsTabs
     BY DEF RsCalls
  <1>5. ASSUME NEW c \in RsCalls PROVE RsDropped(c[1], c) \in [RsTabs -> Tab]
     BY <1>0, <1>1, <1>4 DEF RsDropped
  <1>6. ASSUME NEW c \in RsCalls, RsAnswer(c) PROVE rsTab' \in [RsTabs -> Tab]
    <2>1. \/ rsTab' = rsTab \/ rsTab' = [rsTab EXCEPT ![c[1]] = RsLoaded] \/ rsTab' = [rsTab EXCEPT ![c[1]].token = TRUE]
          \/ rsTab' = [rsTab EXCEPT ![c[1]] = [@ EXCEPT !.status = "anonymous", !.token = FALSE]]
       BY <1>6 DEF RsAnswer
    <2> QED
       BY <1>0, <1>1, <1>2, <1>4, <2>1
  <1>7. ASSUME NEW c \in RsCalls, RsMe(c) \/ RsLost(c) PROVE rsTab' \in [RsTabs -> Tab]
     BY <1>1, <1>2, <1>4, <1>5, <1>7 DEF RsMe, RsLost
  <1> QED
     BY <1>3, <1>6, <1>7 DEF RsNext, RsStep, RsUnauthorized, RsLogin, RsLogout, RsRead, RsRotate, RsRotateFails, RsRevokeFamily,
        RsFamilyRevoked, RsLogoutServed, RsLogoutAll, RsAllRevoked, RsRevokeSession, RsExpire, rsVars

(* Everything stays well formed.                                           *)
LEMMA TypedNext ==
  ASSUME Typed, RowsChange, [RsNext]_rsVars PROVE Typed'
  <1> DEFINE n == Len(rsRows)  m == Len(rsRows')
  <1>0. n \in Nat /\ m \in Nat /\ n <= m /\ rsRows \in Seq(Row)
     BY RowsGrow DEF Typed
  <1>1. m <= RsMaxSessions
    <2>0. n <= RsMaxSessions /\ RsMaxSessions \in Nat
       BY RsConstants DEF Typed
    <2>1. ASSUME NEW seen, rsRows' = RsRevoked(seen) PROVE m = n
       BY <1>0, <2>1, RevokedRows DEF Weakened
    <2>2. ASSUME NEW t \in RsTabs, RsLogin(t) PROVE m <= RsMaxSessions
       BY <1>0, <2>2, LoggedInRow DEF LoggedIn, Opened, RsLogin
    <2>3. ASSUME NEW c \in RsCalls, RsRotate(c) PROVE m <= RsMaxSessions
      <3>1. n < RsMaxSessions
         BY <2>3 DEF RsRotate
      <3>2. m = n \/ m = n + 1
         BY DEF RowsChange, Weakened, LoggedIn, Replaced, Opened
      <3> QED
         BY <1>0, <2>0, <3>1, <3>2
    <2>4. ASSUME NEW c \in RsCalls, RsFamilyRevoked(c) \/ RsLogoutServed(c) PROVE m = n
       BY <2>1, <2>4 DEF RsFamilyRevoked, RsLogoutServed
    <2>5. ASSUME RsAllRevoked \/ RsRevokeSession PROVE m = n
       BY <2>1, <2>5 DEF RsAllRevoked, RsRevokeSession
    <2>6. ASSUME RsExpire PROVE m = n
       BY <1>0, <2>6, ExpiredRow DEF RsExpire, Weakened
    <2> QED
       BY <2>0, <2>2, <2>3, <2>4, <2>5, <2>6, RowWriters
  <1>2. rsCookie' \in 0 .. m
    <2>1. ASSUME NEW c \in RsCalls, RsAnswer(c) PROVE rsCookie' \in 0 .. n
       BY <2>1 DEF RsAnswer, RsCookie, Typed, CallIn, CallRecord
    <2>2. rsCookie' = rsCookie \/ \E c \in RsCalls : RsAnswer(c)
       BY DEF RsNext, RsStep, RsMount, RsUnauthorized, RsTokenOver, RsLogin, RsLogout, RsReload, RsRead, RsRotate, RsRotateFails,
          RsRevokeFamily, RsFamilyRevoked, RsLogoutServed, RsMe, RsLost, RsLogoutAll, RsAllRevoked, RsRevokeSession, RsExpire, rsVars
    <2>3. rsCookie' \in 0 .. n
       BY <2>1, <2>2 DEF Typed
    <2> QED
       BY <1>0, <2>3
  <1>3. rsAll' \in [pc : {"idle", "revoking"}, seen : SUBSET (1 .. m)]
    <2>1. 1 .. n \subseteq 1 .. m /\ RsLive \subseteq 1 .. n
       BY <1>0, LenProperties DEF RsLive
    <2>2. rsAll' = rsAll \/ rsAll' = [pc |-> "revoking", seen |-> RsLive] \/ rsAll' = [pc |-> "idle", seen |-> {}]
       BY DEF RsNext, RsStep, RsMount, RsUnauthorized, RsTokenOver, RsLogin, RsLogout, RsReload, RsRead, RsRotate, RsRotateFails,
          RsRevokeFamily, RsFamilyRevoked, RsLogoutServed, RsAnswer, RsMe, RsLost, RsLogoutAll, RsAllRevoked, RsRevokeSession,
          RsExpire, rsVars
    <2>3. rsAll \in [pc : {"idle", "revoking"}, seen : SUBSET (1 .. n)]
       BY DEF Typed
    <2>4. [pc |-> "revoking", seen |-> RsLive] \in [pc : {"idle", "revoking"}, seen : SUBSET (1 .. n)]
       BY <2>1
    <2>5. [pc |-> "idle", seen |-> {}] \in [pc : {"idle", "revoking"}, seen : SUBSET (1 .. n)]
       OBVIOUS
    <2>6. rsAll' \in [pc : {"idle", "revoking"}, seen : SUBSET (1 .. n)]
       BY <2>2, <2>3, <2>4, <2>5
    <2> HIDE DEF n, m
    <2> QED
       BY <2>1, <2>6
  <1>4. rsRaced' \in BOOLEAN /\ rsFaults' \in 0 .. RsMaxFaults
    <2>1. /\ rsRaced' = rsRaced \/ rsRaced' \in BOOLEAN
          /\ rsFaults' = rsFaults \/ (rsFaults < RsMaxFaults /\ rsFaults' = rsFaults + 1)
       BY DEF RsNext, RsStep, RsSends, RsMount, RsUnauthorized, RsTokenOver, RsLogin, RsLogout, RsReload, RsRead, RsRotate,
          RsRotateFails, RsRevokeFamily, RsFamilyRevoked, RsLogoutServed, RsAnswer, RsMe, RsLost, RsLogoutAll, RsAllRevoked,
          RsRevokeSession, RsExpire, rsVars
    <2>2. rsRaced \in BOOLEAN /\ rsFaults \in 0 .. RsMaxFaults /\ RsMaxFaults \in Nat
       BY RsConstants DEF Typed
    <2>3. rsFaults' \in 0 .. RsMaxFaults
       BY <2>1, <2>2
    <2> QED
       BY <2>1, <2>2, <2>3
  <1> QED
     BY <1>1, <1>2, <1>3, <1>4, CallsNext, TabsNext DEF Typed, RowsChange

Flying == {"read", "rotate", "revoke", "revoking", "answer"}

(* Only a revocation from elsewhere changes rows outside a call, and then  *)
(* no row is linked.                                                       *)
LEMMA QuietRows ==
  ASSUME Typed, [RsNext]_rsVars, ~\E t \in RsTabs : RsLogin(t), ~\E c \in RsCalls : RsRotate(c)
  PROVE  Weakened
  <1> rsRows \in Seq(Row)
     BY DEF Typed
  <1>1. ASSUME NEW seen, rsRows' = RsRevoked(seen) PROVE Weakened
     BY <1>1, RevokedRows
  <1>2. CASE rsRows' = rsRows
     BY <1>2 DEF Weakened
  <1>3. ASSUME NEW c \in RsCalls, RsFamilyRevoked(c) \/ RsLogoutServed(c) PROVE Weakened
     BY <1>1, <1>2, <1>3 DEF RsFamilyRevoked, RsLogoutServed
  <1>4. ASSUME RsAllRevoked \/ RsRevokeSession PROVE Weakened
     BY <1>1, <1>4 DEF RsAllRevoked, RsRevokeSession
  <1>5. ASSUME RsExpire PROVE Weakened
     BY <1>5, ExpiredRow DEF RsExpire
  <1> QED
     BY <1>2, <1>3, <1>4, <1>5, RowWriters

(* A race is never forgotten.                                              *)
LEMMA RacedStays ==
  ASSUME [RsNext]_rsVars PROVE rsRaced => rsRaced'
  BY DEF RsNext, RsStep, RsSends, RsMount, RsUnauthorized, RsTokenOver, RsLogin, RsLogout, RsReload, RsRead, RsRotate,
     RsRotateFails, RsRevokeFamily, RsFamilyRevoked, RsLogoutServed, RsAnswer, RsMe, RsLost, RsLogoutAll, RsAllRevoked,
     RsRevokeSession, RsExpire, rsVars

(* A page that is gone leaves the calls in flight where they are.          *)
LEMMA LeftFlies ==
  ASSUME NEW n, rsCall \in [RsCalls -> CallIn(n)], NEW t, NEW c \in RsCalls
  PROVE  /\ RsLeft(t)[c].pc \in Flying <=> rsCall[c].pc \in Flying
         /\ rsCall[c].pc \in Flying => RsLeft(t)[c].pc = rsCall[c].pc /\ RsLeft(t)[c].out = rsCall[c].out
  <1>1. rsCall[c] \in CallRecord(n)
     BY DEF CallIn
  <1>2. RsIdle.pc = "idle"
     BY DEF RsIdle
  <1>3. [rsCall[c] EXCEPT !.left = TRUE].pc = rsCall[c].pc /\ [rsCall[c] EXCEPT !.left = TRUE].out = rsCall[c].out
     BY <1>1 DEF CallRecord
  <1>4. \/ RsLeft(t)[c] = rsCall[c] \/ RsLeft(t)[c] = [rsCall[c] EXCEPT !.left = TRUE]
        \/ rsCall[c].pc = "me" /\ RsLeft(t)[c] = RsIdle
     BY DEF RsLeft
  <1> QED
     BY <1>2, <1>3, <1>4 DEF Flying

(* One call is in flight after the step, and what it has is the latest.    *)
LEMMA OneFlies ==
  ASSUME NEW c \in RsCalls, RsInFlight' = {c},
         rsCall'[c].pc = "answer" /\ rsCall'[c].out /= 0 => rsRows'[rsCall'[c].out].next = 0
  PROVE  Undisturbed'
  BY DEF Undisturbed

LEMMA UndisturbedNext ==
  ASSUME Typed, RowsLinked, RowsChange, Undisturbed, Typed', [RsNext]_rsVars PROVE Undisturbed'
  <1> SUFFICES ASSUME ~rsRaced' PROVE Undisturbed'
     BY DEF Undisturbed
  <1> DEFINE n == Len(rsRows)
  <1>0. ~rsRaced /\ n \in Nat /\ rsCall \in [RsCalls -> CallIn(n)] /\ rsRows \in Seq(Row)
     BY RacedStays, LenProperties DEF Typed
  <1>1. /\ \A c, d \in RsInFlight : c = d
        /\ \A c \in RsInFlight : rsCall[c].pc = "answer" /\ rsCall[c].out /= 0 => rsRows[rsCall[c].out].next = 0
        /\ RsInFlight = {} /\ rsCookie /= 0 => rsRows[rsCookie].next = 0
     BY <1>0 DEF Undisturbed
  <1>2. /\ \A c : c \in RsInFlight <=> c \in RsCalls /\ rsCall[c].pc \in Flying
        /\ \A c : c \in RsInFlight' <=> c \in RsCalls /\ rsCall'[c].pc \in Flying
     BY DEF RsInFlight, Flying
  <1>3. /\ \A c \in RsCalls : rsCall[c].out \in 0 .. n /\ (rsCall[c].pc /= "answer" => rsCall[c].out = 0)
        /\ rsCookie \in 0 .. n
     BY <1>0 DEF CallIn, CallRecord, Typed
  <1>4. ASSUME Weakened, rsCookie' = rsCookie, RsInFlight' = RsInFlight,
               \A c \in RsInFlight : rsCall'[c].pc = rsCall[c].pc /\ rsCall'[c].out = rsCall[c].out
        PROVE  Undisturbed'
    <2>1. \A s \in 0 .. n : s /= 0 => rsRows'[s].next = rsRows[s].next
       BY <1>0, <1>4 DEF Weakened
    <2>2. RsInFlight \subseteq RsCalls
       BY <1>2
    <2> QED
       BY <1>1, <1>3, <1>4, <2>1, <2>2 DEF Undisturbed
  <1>5. ASSUME NEW t \in RsTabs, Sends(t) PROVE Undisturbed'
    <2>1. PICK c \in RsCalls : RsSends(c)
       BY <1>5, SendsIs
    <2>2. RsInFlight = {} /\ rsCall'[c] = [RsIdle EXCEPT !.pc = "read", !.sent = rsCookie]
       BY <1>0, <2>1 DEF RsSends
    <2>3. rsCall'[c].pc = "read"
       BY <2>2 DEF RsIdle
    <2>4. \A d \in RsCalls : d /= c => rsCall'[d] = rsCall[d]
       BY <1>0, <2>1 DEF RsSends
    <2>5. RsInFlight' = {c}
      <3>1. \A d \in RsCalls : rsCall[d].pc \notin Flying
         BY <1>2, <2>2
      <3>2. \A d : d \in RsInFlight' <=> d = c
         BY <1>2, <2>3, <2>4, <3>1 DEF Flying
      <3> QED
         BY <3>2
    <2> QED
       BY <2>3, <2>5, OneFlies
  <1>6. ASSUME NEW t \in RsTabs, RsLogin(t) PROVE Undisturbed'
    <2> DEFINE c == <<t, "login">>
    <2>1. c \in RsCalls /\ RsInFlight = {} /\ rsCall' = [rsCall EXCEPT ![c] = [RsIdle EXCEPT !.pc = "answer", !.out = n + 1]]
       BY <1>0, <1>6 DEF RsLogin, RsCalls
    <2> HIDE DEF c
    <2>2. rsCall'[c].pc = "answer" /\ rsCall'[c].out = n + 1
       BY <1>0, <2>1 DEF RsIdle
    <2>3. \A d \in RsCalls : d /= c => rsCall'[d] = rsCall[d]
       BY <1>0, <2>1
    <2>4. RsInFlight' = {c}
      <3>1. \A d \in RsCalls : rsCall[d].pc \notin Flying
         BY <1>2, <2>1
      <3>2. \A d : d \in RsInFlight' <=> d = c
         BY <1>2, <2>1, <2>2, <2>3, <3>1 DEF Flying
      <3> QED
         BY <3>2
    <2>5. rsRows'[n + 1].next = 0
       BY <1>0, <1>6, LoggedInRow DEF LoggedIn, Opened
    <2> QED
       BY <2>1, <2>2, <2>4, <2>5, OneFlies
  <1>7. ASSUME NEW t \in RsTabs, RsReload(t) PROVE Undisturbed'
    <2>1. Weakened /\ rsCookie' = rsCookie /\ rsCall' = RsLeft(t)
       BY <1>7 DEF RsReload, Weakened
    <2>2. RsInFlight' = RsInFlight
       BY <1>0, <1>2, <2>1, LeftFlies
    <2>3. \A c \in RsInFlight : rsCall'[c].pc = rsCall[c].pc /\ rsCall'[c].out = rsCall[c].out
       BY <1>0, <1>2, <2>1, LeftFlies
    <2> QED
       BY <1>4, <2>1, <2>2, <2>3
  <1>8. ASSUME NEW c \in RsCalls, Served(c) PROVE Undisturbed'
    <2>1. c \in RsInFlight /\ rsCall[c].pc /= "answer"
       BY <1>2, <1>8 DEF Served, RsRead, RsRotate, RsRotateFails, RsRevokeFamily, RsFamilyRevoked, RsLogoutServed, Flying
    <2>2. PICK v \in CallIn(Len(rsRows')) : rsCall' = [rsCall EXCEPT ![c] = v]
       BY <1>8, ServedCalls DEF Served
    <2>3. \A d \in RsCalls : d /= c => rsCall'[d] = rsCall[d]
       BY <1>0, <2>2
    <2>4. rsCall[c] \in CallRecord(n) /\ rsCall[c].out = 0
       BY <1>0, <1>3, <2>1 DEF CallIn
    <2>5. /\ rsCall'[c].pc \in Flying
          /\ \/ rsCall'[c].out = 0
             \/ /\ rsCall'[c].out = n + 1 /\ rsCall[c].pc = "rotate"
                /\ RsLiveRow(rsCall[c].sent) /\ rsRows' = RsRotated(rsCall[c].sent)
       BY <1>0, <1>8, <2>4 DEF Served, RsRead, RsRotate, RsRotateFails, RsRevokeFamily, RsFamilyRevoked, RsLogoutServed, RsGoes,
          Flying, CallRecord
    <2>6. RsInFlight' = {c}
       BY <1>1, <1>2, <2>1, <2>3, <2>5
    <2>7. rsCall'[c].out /= 0 => rsRows'[rsCall'[c].out].next = 0
      <3> SUFFICES ASSUME rsCall'[c].out /= 0 PROVE rsRows'[rsCall'[c].out].next = 0
         OBVIOUS
      <3>1. rsCall[c].sent \in 1 .. n
        <4>1. rsCall[c].sent \in 0 .. n /\ rsCall[c].sent /= 0
           BY <1>0, <2>5 DEF CallIn, CallRecord
        <4> QED
           BY <1>0, <4>1
      <3>2. Replaced(rsCall[c].sent)
         BY <1>0, <2>5, <3>1, RotatedRow
      <3> QED
         BY <2>5, <3>2 DEF Replaced, Opened
    <2> QED
       BY <2>6, <2>7, OneFlies
  <1>9. ASSUME NEW c \in RsCalls, RsAnswer(c) PROVE Undisturbed'
    <2>1. c \in RsInFlight /\ rsCall[c].pc = "answer" /\ rsRows' = rsRows /\ rsCookie' = rsCall[c].out
       BY <1>2, <1>9 DEF RsAnswer, RsCookie, Flying
    <2>2. ASSUME NEW d \in RsCalls, d /= c PROVE rsCall'[d].pc \notin Flying
      <3>1. rsCall[d].pc \notin Flying
         BY <1>1, <1>2, <2>1, <2>2
      <3>2. rsCall'[d] = rsCall[d] \/ rsCall'[d] = RsLeft(c[1])[d]
         BY <1>0, <1>9, <2>2 DEF RsAnswer, RsLeft
      <3> QED
         BY <1>0, <3>1, <3>2, LeftFlies
    <2>3. rsCall'[c].pc \notin Flying
      <3>1. rsCall'[c] = RsIdle \/ rsCall'[c] = [RsIdle EXCEPT !.pc = "me"]
         BY <1>0, <1>9 DEF RsAnswer, RsLeft
      <3> QED
         BY <3>1 DEF RsIdle, Flying
    <2>4. RsInFlight' = {}
       BY <1>2, <2>2, <2>3
    <2> QED
       BY <1>1, <2>1, <2>4 DEF Undisturbed
  <1>10. ASSUME NEW c \in RsCalls, RsMe(c) PROVE Undisturbed'
    <2>1. Weakened /\ rsCookie' = rsCookie /\ rsCall' = [rsCall EXCEPT ![c] = RsIdle] /\ rsCall[c].pc = "me"
       BY <1>10 DEF RsMe, Weakened
    <2>2. rsCall'[c].pc = "idle" /\ \A d \in RsCalls : d /= c => rsCall'[d] = rsCall[d]
       BY <1>0, <2>1 DEF RsIdle
    <2>3. c \notin RsInFlight /\ RsInFlight' = RsInFlight
       BY <1>2, <2>1, <2>2 DEF Flying
    <2>4. \A d \in RsInFlight : rsCall'[d] = rsCall[d]
       BY <1>2, <2>2, <2>3
    <2> QED
       BY <1>4, <2>1, <2>3, <2>4
  <1>11. ASSUME NEW c \in RsCalls, RsLost(c) PROVE Undisturbed'
     BY <1>11 DEF RsLost
  <1>12. CASE UNCHANGED <<rsCall, rsCookie>>
    <2>1. CASE (\E t \in RsTabs : RsLogin(t)) \/ \E c \in RsCalls : RsRotate(c)
       BY <1>6, <1>8, <2>1 DEF Served
    <2>2. CASE ~((\E t \in RsTabs : RsLogin(t)) \/ \E c \in RsCalls : RsRotate(c))
      <3>1. Weakened
         BY <2>2, QuietRows
      <3>2. RsInFlight' = RsInFlight /\ rsCall' = rsCall
         BY <1>12 DEF RsInFlight
      <3> QED
         BY <1>4, <1>12, <3>1, <3>2
    <2> QED
       BY <2>1, <2>2
  <1> QED
     BY <1>5, <1>6, <1>7, <1>8, <1>9, <1>10, <1>11, <1>12, CallWriters

LEMMA SessionsInit == RsInit => SessionsInv
  <1> SUFFICES ASSUME RsInit PROVE SessionsInv
     OBVIOUS
  <1> DEFINE first == [family |-> 1, revoked |-> FALSE, next |-> 0, expired |-> FALSE]
  <1>1. first \in Row /\ first.family = 1 /\ first.next = 0
     BY DEF Row
  <1>2. rsRows = <<first>>
     BY DEF RsInit
  <1> HIDE DEF first
  <1>3. rsRows \in Seq(Row) /\ Len(rsRows) = 1 /\ rsRows[1] = first /\ DOMAIN rsRows = 1 .. 1
     BY <1>1, <1>2
  <1>4. RsIdle \in CallIn(1)
    <2>1. 0 \in 0 .. 1
       OBVIOUS
    <2> QED
       BY <2>1, NewCalls
  <1>5. Typed
    <2>1. rsTab \in [RsTabs -> Tab]
       BY DEF RsInit, RsLoaded, Tab
    <2>2. rsCall \in [RsCalls -> CallIn(1)] /\ rsCookie \in 0 .. 1
       BY <1>4 DEF RsInit
    <2>3. rsAll \in [pc : {"idle", "revoking"}, seen : SUBSET (1 .. 1)]
       BY DEF RsInit
    <2>4. 1 <= RsMaxSessions /\ 0 \in 0 .. RsMaxFaults
       BY RsConstants
    <2>5. rsFaults = 0 /\ rsRaced = FALSE
       BY DEF RsInit
    <2> QED
       BY <1>3, <2>1, <2>2, <2>3, <2>4, <2>5 DEF Typed
  <1>6. RowsLinked
     BY <1>1, <1>3 DEF RowsLinked
  <1>7. RsOneLivePerFamily
     BY <1>3 DEF RsOneLivePerFamily, RsLive
  <1>8. RsFamilyIsChain
     BY <1>1, <1>3 DEF RsFamilyIsChain
  <1>9. Undisturbed
    <2>1. RsInFlight = {} /\ rsCookie = 1
       BY DEF RsInit, RsInFlight, RsIdle
    <2> QED
       BY <1>1, <1>3, <2>1 DEF Undisturbed
  <1> QED
     BY <1>5, <1>6, <1>7, <1>8, <1>9 DEF SessionsInv

LEMMA SessionsNext == SessionsInv /\ [RsNext]_rsVars => SessionsInv'
  <1> SUFFICES ASSUME SessionsInv, [RsNext]_rsVars PROVE SessionsInv'
     OBVIOUS
  <1>1. Typed /\ rsRows \in Seq(Row) /\ RowsLinked /\ RsOneLivePerFamily /\ RsFamilyIsChain /\ Undisturbed
     BY DEF SessionsInv, Typed
  <1>2. RowsChange
     BY <1>1, RowsStep
  <1>3. Typed'
     BY <1>1, <1>2, TypedNext
  <1>4. RowsLinked' /\ RsOneLivePerFamily' /\ RsFamilyIsChain'
     BY <1>1, <1>2, LinkedNext, OneLiveNext, ChainNext
  <1>5. Undisturbed'
     BY <1>1, <1>2, <1>3, UndisturbedNext
  <1> QED
     BY <1>3, <1>4, <1>5 DEF SessionsInv

(* However the refreshes, sign-ins, sign-outs and revocations of any       *)
(* number of tabs overlap, and whatever is lost: a family of sessions is a *)
(* chain with at most one live session, and the cookie of a browser whose  *)
(* calls came one after the other is that of the latest session of its     *)
(* family (AuthService.refresh, createSessionResponse, revokeFamily).      *)
THEOREM SessionFamiliesAreChains == RsSpec => []RsInv
  <1>1. RsSpec => []SessionsInv
     BY SessionsInit, SessionsNext, PTL DEF RsSpec
  <1> QED
     BY <1>1, InvSuffices, PTL
=============================================================================
