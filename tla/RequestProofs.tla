--------------------------- MODULE RequestProofs ----------------------------
(***************************************************************************)
(* The safety of what users ask of executions, for every value of the      *)
(* constants: starting one by hand (StartRequests) and deciding the approval *)
(* it waits for (ApprovalWait).                                            *)
(***************************************************************************)
EXTENDS StartRequests, ApprovalWait, FiniteSetTheorems, WellFoundedInduction, TLAPS

-----------------------------------------------------------------------------
(***************************************************************************)
(* StartRequests, for any requests and any number of clients and faults: a *)
(* key and the execution it answers with are written in one transaction and *)
(* name each other (SrKeyed), so every answer is the one of the key        *)
(* (SrTold).                                                               *)
(***************************************************************************)

SrExecType == [by : SrClients, status : {"QUEUED", "ENDED"}]
SrKeyType == [body : {srCalls[c].body : c \in SrClients}, response : Nat, status : {"PROCESSING", "ENQUEUED", "FAILED"}]
SrAnswerType == [code : {"none", "rejected", "conflict", "accepted", "unavailable"}, id : Nat]
SrPlaces == {"read", "claim", "wait", "enqueue", "done", "lost"}

SrTyped ==
  /\ srActive \in BOOLEAN /\ srLetter \in Nat /\ srFaults \in 0 .. SrMaxFaults
  /\ \E n \in Nat : SrIds = 1 .. n
  /\ srExecs \in [SrIds -> SrExecType] /\ srKeys \in [DOMAIN srKeys -> SrKeyType]
  /\ srPc \in [SrClients -> SrPlaces] /\ srAnswer \in [SrClients -> SrAnswerType]

\* The execution a key answers with is the one made with the key, and an
\* execution made with a key is the one it answers with.
SrKeyed ==
  /\ \A k \in DOMAIN srKeys :
       /\ srKeys[k].response \in SrIds
       /\ SrHasKey(srExecs[srKeys[k].response].by) /\ SrScope(srExecs[srKeys[k].response].by) = k
       /\ srKeys[k].body = srCalls[srExecs[srKeys[k].response].by].body
  /\ \A e \in SrIds :
       SrHasKey(srExecs[e].by) =>
         SrScope(srExecs[e].by) \in DOMAIN srKeys /\ srKeys[SrScope(srExecs[e].by)].response = e

\* A call that waits has lost to the owner of its key, and one that is to
\* enqueue has made an execution.
SrAtWork ==
  \A c \in SrClients : /\ srPc[c] = "wait" => SrTaken(c)
                       /\ srPc[c] = "enqueue" => \E e \in SrIds : srExecs[e].by = c

\* A client was told of an execution that exists; with a key, of the one of the key.
SrTold ==
  \A c \in SrClients : srAnswer[c].id /= 0 =>
    /\ srAnswer[c].id \in SrIds
    /\ SrHasKey(c) => /\ SrTaken(c) /\ srAnswer[c].id = srKeys[SrScope(c)].response
                      /\ srKeys[SrScope(c)].body = srCalls[c].body

StartInv == SrTyped /\ SrKeyed /\ SrAtWork /\ SrTold /\ SrLetterHasRetry

\* A step that makes no execution and takes no key.
SrKept ==
  /\ srCalls' = srCalls /\ SrIds' = SrIds /\ DOMAIN srKeys' = DOMAIN srKeys /\ srLetter' = srLetter
  /\ \A e \in SrIds : srExecs'[e].by = srExecs[e].by
  /\ \A k \in DOMAIN srKeys : srKeys'[k].body = srKeys[k].body /\ srKeys'[k].response = srKeys[k].response

\* The step that does.
SrMakes(c, id) ==
  /\ srPc[c] = "claim" /\ ~SrTaken(c) /\ SrGo(c, "enqueue")
  /\ srExecs' = SrPut(srExecs, id, [by |-> c, status |-> "QUEUED"])
  /\ srKeys' = IF SrHasKey(c)
               THEN SrPut(srKeys, SrScope(c), [body |-> srCalls[c].body, response |-> id, status |-> "PROCESSING"])
               ELSE srKeys
  /\ srLetter' = srLetter \/ (SrIsReplay(c) /\ srLetter' = id)
  /\ UNCHANGED <<srCalls, srActive, srAnswer, srFaults>>

(* The next id is a new one.                                               *)
LEMMA SrNewId ==
  ASSUME SrTyped
  PROVE  \E n \in Nat : SrIds = 1 .. n /\ Cardinality(SrIds) + 1 = n + 1 /\ n + 1 \notin SrIds
  <1>1. PICK n \in Nat : SrIds = 1 .. n
     BY DEF SrTyped
  <1>2. Cardinality(1 .. n) = n
    <2>1. 1 \in Int /\ n \in Int
       OBVIOUS
    <2> QED
       BY <2>1, FS_Interval
  <1> QED
     BY <1>1, <1>2

(* Marking a key or ending an execution keeps what the properties read.    *)
LEMMA SrMarkKeeps ==
  ASSUME SrTyped, NEW c \in SrClients, NEW s \in {"ENQUEUED", "FAILED"}, SrMark(c, s)
  PROVE  /\ DOMAIN srKeys' = DOMAIN srKeys /\ srKeys' \in [DOMAIN srKeys -> SrKeyType]
         /\ \A k \in DOMAIN srKeys : srKeys'[k].body = srKeys[k].body /\ srKeys'[k].response = srKeys[k].response
  <1>1. srKeys \in [DOMAIN srKeys -> SrKeyType]
     BY DEF SrTyped
  <1>2. CASE srKeys' = srKeys
     BY <1>1, <1>2
  <1>3. CASE srKeys' = [srKeys EXCEPT ![SrScope(c)].status = s]
     BY <1>1, <1>3 DEF SrKeyType
  <1> QED
     BY <1>2, <1>3 DEF SrMark

(* Every step makes an execution or keeps them.                            *)
LEMMA SrMoves ==
  ASSUME SrTyped, [SrNext]_srVars
  PROVE  \/ SrKept /\ srExecs' \in [SrIds -> SrExecType] /\ srKeys' \in [DOMAIN srKeys -> SrKeyType]
         \/ \E c \in SrClients : SrMakes(c, Cardinality(SrIds) + 1)
  <1>0. srExecs \in [SrIds -> SrExecType] /\ srKeys \in [DOMAIN srKeys -> SrKeyType]
     BY DEF SrTyped
  <1>1. CASE UNCHANGED <<srCalls, srLetter, srKeys, srExecs>>
     BY <1>0, <1>1 DEF SrKept, SrIds
  <1>2. ASSUME NEW c \in SrClients, SrClaimManual(c) \/ SrClaimReplay(c)
        PROVE  UNCHANGED <<srCalls, srLetter, srKeys, srExecs>> \/ SrMakes(c, Cardinality(SrIds) + 1)
     BY <1>2, Zenon DEF SrClaimManual, SrClaimReplay, SrCommit, SrMakes
  <1>3. ASSUME NEW c \in SrClients, SrEnqueueManual(c) \/ SrEnqueueReplay(c) \/ SrEnqueueFails(c)
        PROVE  SrKept /\ srExecs' \in [SrIds -> SrExecType] /\ srKeys' \in [DOMAIN srKeys -> SrKeyType]
    <2>1. UNCHANGED <<srCalls, srLetter, srExecs>>
       BY <1>3 DEF SrEnqueueManual, SrEnqueueReplay, SrEnqueueFails
    <2>2. srKeys' = srKeys \/ SrMark(c, "ENQUEUED") \/ SrMark(c, "FAILED")
       BY <1>3 DEF SrEnqueueManual, SrEnqueueReplay, SrEnqueueFails
    <2> QED
       BY <1>0, <2>1, <2>2, SrMarkKeeps DEF SrKept, SrIds
  <1>4. CASE SrRun
    <2>1. PICK e \in SrIds : srExecs' = [srExecs EXCEPT ![e].status = "ENDED"]
       BY <1>4 DEF SrRun
    <2>2. DOMAIN srExecs' = DOMAIN srExecs /\ srExecs' \in [SrIds -> SrExecType]
       BY <1>0, <2>1 DEF SrIds, SrExecType
    <2>3. \A f \in SrIds : srExecs'[f].by = srExecs[f].by
       BY <1>0, <2>1 DEF SrIds, SrExecType
    <2> QED
       BY <1>0, <1>4, <2>2, <2>3 DEF SrRun, SrKept, SrIds
  <1>5. \/ UNCHANGED <<srCalls, srLetter, srKeys, srExecs>> \/ SrRun
        \/ \E c \in SrClients : \/ SrClaimManual(c) \/ SrClaimReplay(c)
                                \/ SrEnqueueManual(c) \/ SrEnqueueReplay(c) \/ SrEnqueueFails(c)
     BY DEF SrNext, SrManual, SrReplay, SrReadManual, SrReadReplay, SrWait, SrCrash, SrAgain, SrSwitch, srVars
  <1> QED
     BY <1>1, <1>2, <1>3, <1>4, <1>5

\* What is there after an execution was made.
SrAfter(c, id) ==
  /\ id \in Nat \ {0} /\ id \notin SrIds /\ SrIds' = SrIds \union {id} /\ \E n \in Nat : SrIds' = 1 .. n
  /\ srExecs'[id] = [by |-> c, status |-> "QUEUED"] /\ \A e \in SrIds : srExecs'[e] = srExecs[e]
  /\ srExecs' \in [SrIds' -> SrExecType']
  /\ DOMAIN srKeys' = DOMAIN srKeys \union (IF SrHasKey(c) THEN {SrScope(c)} ELSE {})
  /\ SrHasKey(c) => /\ SrScope(c) \notin DOMAIN srKeys
                    /\ srKeys'[SrScope(c)] = [body |-> srCalls[c].body, response |-> id, status |-> "PROCESSING"]
  /\ \A k \in DOMAIN srKeys : srKeys'[k] = srKeys[k]
  /\ srKeys' \in [DOMAIN srKeys' -> SrKeyType']

(* The new id is fresh, and everything else is as it was.                  *)
LEMMA SrMade ==
  ASSUME SrTyped, NEW c \in SrClients, NEW id, id = Cardinality(SrIds) + 1, SrMakes(c, id)
  PROVE  SrAfter(c, id)
  <1>0. srExecs \in [SrIds -> SrExecType] /\ srKeys \in [DOMAIN srKeys -> SrKeyType] /\ srCalls' = srCalls
     BY DEF SrTyped, SrMakes
  <1>1. PICK n \in Nat : SrIds = 1 .. n /\ id = n + 1 /\ id \notin SrIds
     BY SrNewId
  <1>2. id \in Nat \ {0}
     BY <1>1
  <1>3. /\ SrIds' = SrIds \union {id} /\ srExecs'[id] = [by |-> c, status |-> "QUEUED"]
        /\ \A e \in SrIds : srExecs'[e] = srExecs[e]
     BY <1>1 DEF SrMakes, SrPut, SrIds
  <1>4. SrIds' = 1 .. n + 1 /\ n + 1 \in Nat
     BY <1>1, <1>3
  <1>5. srExecs' \in [SrIds' -> SrExecType']
    <2>1. srExecs' = [i \in SrIds' |-> srExecs'[i]]
       BY DEF SrMakes, SrPut, SrIds
    <2>2. ASSUME NEW i \in SrIds' PROVE srExecs'[i] \in SrExecType'
       BY <1>0, <1>3, <2>2 DEF SrExecType, SrClients
    <2> QED
       BY <2>1, <2>2
  <1>6. CASE ~SrHasKey(c)
    <2>1. srKeys' = srKeys
       BY <1>6 DEF SrMakes
    <2>2. SrKeyType' = SrKeyType
       BY <1>0 DEF SrKeyType, SrClients
    <2> QED
       BY <1>0, <1>1, <1>2, <1>3, <1>4, <1>5, <1>6, <2>1, <2>2 DEF SrAfter
  <1>7. CASE SrHasKey(c)
    <2>1. SrScope(c) \notin DOMAIN srKeys
       BY <1>7 DEF SrMakes, SrTaken
    <2>2. srKeys' = SrPut(srKeys, SrScope(c), [body |-> srCalls[c].body, response |-> id, status |-> "PROCESSING"])
       BY <1>7 DEF SrMakes
    <2>3. /\ DOMAIN srKeys' = DOMAIN srKeys \union {SrScope(c)}
          /\ srKeys'[SrScope(c)] = [body |-> srCalls[c].body, response |-> id, status |-> "PROCESSING"]
          /\ \A k \in DOMAIN srKeys : srKeys'[k] = srKeys[k]
       BY <2>1, <2>2 DEF SrPut
    <2>4. ASSUME NEW k \in DOMAIN srKeys' PROVE srKeys'[k] \in SrKeyType'
      <3>1. CASE k \in DOMAIN srKeys
         BY <1>0, <2>3, <3>1 DEF SrKeyType, SrClients
      <3>2. CASE k = SrScope(c)
        <4>1. srCalls[c].body \in {srCalls[d].body : d \in SrClients}
           OBVIOUS
        <4> QED
           BY <1>0, <1>2, <2>3, <3>2, <4>1 DEF SrKeyType, SrClients
      <3> QED
         BY <2>3, <2>4, <3>1, <3>2
    <2>5. srKeys' = [k \in DOMAIN srKeys' |-> srKeys'[k]]
       BY <2>2 DEF SrPut
    <2>6. srKeys' \in [DOMAIN srKeys' -> SrKeyType']
       BY <2>4, <2>5
    <2> QED
       BY <1>1, <1>2, <1>3, <1>4, <1>5, <1>7, <2>1, <2>3, <2>6 DEF SrAfter
  <1> QED
     BY <1>6, <1>7

(* Keys and executions go together.                                        *)
LEMMA SrKeyedNext ==
  ASSUME SrTyped, SrKeyed, [SrNext]_srVars
  PROVE  SrKeyed'
  <1>0. srExecs \in [SrIds -> SrExecType]
     BY DEF SrTyped
  <1>1. CASE SrKept
    <2>1. /\ srCalls' = srCalls /\ SrIds' = SrIds /\ DOMAIN srKeys' = DOMAIN srKeys
          /\ \A e \in SrIds : srExecs'[e].by = srExecs[e].by
          /\ \A k \in DOMAIN srKeys : srKeys'[k].body = srKeys[k].body /\ srKeys'[k].response = srKeys[k].response
       BY <1>1 DEF SrKept
    <2>2. ASSUME NEW k \in DOMAIN srKeys
          PROVE  /\ srKeys'[k].response \in SrIds
                 /\ SrHasKey(srExecs'[srKeys'[k].response].by) /\ SrScope(srExecs'[srKeys'[k].response].by) = k
                 /\ srKeys'[k].body = srCalls[srExecs'[srKeys'[k].response].by].body
      <3>1. PICK e \in SrIds : e = srKeys[k].response /\ SrHasKey(srExecs[e].by) /\ SrScope(srExecs[e].by) = k
                               /\ srKeys[k].body = srCalls[srExecs[e].by].body
         BY DEF SrKeyed
      <3>2. srKeys'[k].response = e /\ srKeys'[k].body = srKeys[k].body /\ srExecs'[e].by = srExecs[e].by
         BY <2>1, <3>1
      <3> QED
         BY <3>1, <3>2
    <2>3. ASSUME NEW e \in SrIds, SrHasKey(srExecs'[e].by)
          PROVE  SrScope(srExecs'[e].by) \in DOMAIN srKeys /\ srKeys'[SrScope(srExecs'[e].by)].response = e
      <3>1. srExecs'[e].by = srExecs[e].by
         BY <2>1
      <3>2. SrScope(srExecs[e].by) \in DOMAIN srKeys /\ srKeys[SrScope(srExecs[e].by)].response = e
         BY <2>3, <3>1 DEF SrKeyed
      <3> QED
         BY <2>1, <3>1, <3>2
    <2> QED
       BY <2>1, <2>2, <2>3 DEF SrKeyed, SrHasKey, SrScope
  <1>2. ASSUME NEW c \in SrClients, SrMakes(c, Cardinality(SrIds) + 1) PROVE SrKeyed'
    <2>0. srCalls' = srCalls
       BY <1>2 DEF SrMakes
    <2>1. PICK id : SrAfter(c, id)
       BY <1>2, SrMade
    <2>2. /\ id \notin SrIds /\ SrIds' = SrIds \union {id}
          /\ srExecs'[id].by = c /\ \A e \in SrIds : srExecs'[e] = srExecs[e]
          /\ DOMAIN srKeys' = DOMAIN srKeys \union (IF SrHasKey(c) THEN {SrScope(c)} ELSE {})
          /\ \A k \in DOMAIN srKeys : srKeys'[k] = srKeys[k]
       BY <2>1 DEF SrAfter
    <2>3. SrHasKey(c) => SrScope(c) \notin DOMAIN srKeys /\ srKeys'[SrScope(c)].body = srCalls[c].body /\ srKeys'[SrScope(c)].response = id
       BY <2>1 DEF SrAfter
    <2>4. ASSUME NEW k \in DOMAIN srKeys'
          PROVE  /\ srKeys'[k].response \in SrIds'
                 /\ SrHasKey(srExecs'[srKeys'[k].response].by) /\ SrScope(srExecs'[srKeys'[k].response].by) = k
                 /\ srKeys'[k].body = srCalls[srExecs'[srKeys'[k].response].by].body
      <3>1. CASE k \in DOMAIN srKeys
        <4>1. PICK e \in SrIds : e = srKeys[k].response /\ SrHasKey(srExecs[e].by) /\ SrScope(srExecs[e].by) = k
                                 /\ srKeys[k].body = srCalls[srExecs[e].by].body
           BY <3>1 DEF SrKeyed
        <4>2. srKeys'[k] = srKeys[k] /\ srExecs'[e] = srExecs[e] /\ e \in SrIds'
           BY <2>2, <3>1, <4>1
        <4> QED
           BY <4>1, <4>2
      <3>2. CASE k \notin DOMAIN srKeys
         BY <2>2, <2>3, <2>4, <3>2
      <3> QED
         BY <3>1, <3>2
    <2>5. ASSUME NEW e \in SrIds', SrHasKey(srExecs'[e].by)
          PROVE  SrScope(srExecs'[e].by) \in DOMAIN srKeys' /\ srKeys'[SrScope(srExecs'[e].by)].response = e
      <3>1. CASE e \in SrIds
        <4>1. srExecs'[e] = srExecs[e]
           BY <2>2, <3>1
        <4>2. SrScope(srExecs[e].by) \in DOMAIN srKeys /\ srKeys[SrScope(srExecs[e].by)].response = e
           BY <2>5, <3>1, <4>1 DEF SrKeyed
        <4> QED
           BY <2>2, <4>1, <4>2
      <3>2. CASE e = id
         BY <2>2, <2>3, <2>5, <3>2
      <3> QED
         BY <2>2, <3>1, <3>2
    <2> QED
       BY <2>0, <2>4, <2>5 DEF SrKeyed, SrHasKey, SrScope
  <1> QED
     BY <1>1, <1>2, SrMoves

(* A set of naturals has a least element, and one that is bounded a last.  *)
SrLess == {pair \in Nat \X Nat : pair[1] < pair[2]}

LEMMA SrLast ==
  ASSUME NEW n \in Nat, NEW S, S \subseteq 1 .. n, S /= {}
  PROVE  \E m \in S : \A e \in S : e <= m
  <1> DEFINE Bounds == {m \in Nat : \A e \in S : e <= m}
  <1>1. IsWellFoundedOn(SrLess, Nat)
     BY NatLessThanWellFounded DEF OpToRel, SrLess
  <1>2. n \in Bounds /\ Bounds \subseteq Nat
     OBVIOUS
  <1>3. PICK m \in Bounds : \A p \in Bounds : <<p, m>> \notin SrLess
     BY <1>1, <1>2, WFMin
  <1>4. \A p \in Bounds : ~(p < m)
     BY <1>2, <1>3 DEF SrLess
  <1>5. m \in Nat /\ \A e \in S : e <= m
     BY <1>3
  <1>6. SUFFICES ASSUME m \notin S PROVE FALSE
     BY <1>5
  <1>7. PICK e \in S : TRUE
     OBVIOUS
  <1>8. m - 1 \in Nat
     BY <1>5, <1>7
  <1>9. m - 1 \in Bounds
    <2>1. ASSUME NEW f \in S PROVE f <= m - 1
       BY <1>5, <1>6, <2>1
    <2> QED
       BY <1>8, <2>1
  <1> QED
     BY <1>4, <1>5, <1>9

(* The execution a call enqueues is one that it made.                      *)
LEMMA SrOwnIs ==
  ASSUME SrTyped, SrAtWork, NEW c \in SrClients, srPc[c] = "enqueue"
  PROVE  SrOwn(c) \in SrIds /\ SrOwn(c) \in Nat /\ srExecs[SrOwn(c)].by = c
  <1> DEFINE mine == {e \in SrIds : srExecs[e].by = c}
  <1>1. PICK n \in Nat : SrIds = 1 .. n
     BY DEF SrTyped
  <1>2. mine \subseteq 1 .. n /\ mine /= {}
     BY <1>1 DEF SrAtWork
  <1>3. PICK m \in mine : \A e \in mine : e <= m
     BY <1>2, SrLast
  <1>4. \E e \in SrIds : srExecs[e].by = c /\ \A f \in SrIds : srExecs[f].by = c => f <= e
     BY <1>3
  <1>5. SrOwn(c) \in SrIds /\ srExecs[SrOwn(c)].by = c
     BY <1>4 DEF SrOwn
  <1> QED
     BY <1>1, <1>5

\* What a client may be told.
SrMayTell(c, a) ==
  \/ a = srAnswer[c] \/ a.id = 0
  \/ a.id \in SrIds /\ SrTaken(c) /\ a.id = srKeys[SrScope(c)].response /\ srKeys[SrScope(c)].body = srCalls[c].body
  \/ a.id \in SrIds /\ srExecs[a.id].by = c

\* A step of one client, or of none.
SrCallStep(c) ==
  \E q \in SrPlaces, a \in SrAnswerType :
    /\ srPc' = [srPc EXCEPT ![c] = q] /\ srAnswer' = [srAnswer EXCEPT ![c] = a] /\ SrMayTell(c, a)
    /\ q = "wait" => SrTaken(c)
    /\ q = "enqueue" => SrMakes(c, Cardinality(SrIds) + 1)

(* The answers are those of the code.                                      *)
LEMMA SrFromKey ==
  ASSUME SrTyped, SrKeyed, NEW c \in SrClients, SrTaken(c), SrAnswerFromKey(c)
  PROVE  SrCallStep(c)
  <1> DEFINE row == srKeys[SrScope(c)]
  <1>1. row.response \in SrIds /\ row.response \in Nat
     BY DEF SrTyped, SrKeyed, SrTaken, SrKeyType
  <1>2. CASE row.body /= srCalls[c].body
    <2> DEFINE a == [code |-> "conflict", id |-> 0]
    <2>1. a \in SrAnswerType /\ a.id = 0 /\ "done" \in SrPlaces
       BY DEF SrAnswerType, SrPlaces
    <2>2. srPc' = [srPc EXCEPT ![c] = "done"] /\ srAnswer' = [srAnswer EXCEPT ![c] = a]
       BY <1>2 DEF SrAnswerFromKey, SrReply, SrGo
    <2> QED
       BY <2>1, <2>2, Zenon DEF SrCallStep, SrMayTell
  <1>3. CASE row.body = srCalls[c].body
    <2> DEFINE a == [code |-> "accepted", id |-> row.response]
    <2>1. a \in SrAnswerType /\ a.id = row.response /\ "done" \in SrPlaces
       BY <1>1 DEF SrAnswerType, SrPlaces
    <2>2. srPc' = [srPc EXCEPT ![c] = "done"] /\ srAnswer' = [srAnswer EXCEPT ![c] = a]
       BY <1>3 DEF SrAnswerFromKey, SrReply, SrGo
    <2>3. SrMayTell(c, a)
       BY <1>1, <1>3, <2>1, Zenon DEF SrMayTell
    <2> QED
       BY <2>1, <2>2, <2>3, Zenon DEF SrCallStep
  <1> QED
     BY <1>2, <1>3

LEMMA SrTells ==
  ASSUME SrTyped, NEW c \in SrClients, NEW code, NEW id, SrReply(c, code, id),
         [code |-> code, id |-> id] \in SrAnswerType,
         id = 0 \/ (id \in SrIds /\ srExecs[id].by = c)
  PROVE  SrCallStep(c)
  <1> DEFINE a == [code |-> code, id |-> id]
  <1>1. a \in SrAnswerType /\ a.id = id /\ "done" \in SrPlaces
     BY DEF SrPlaces
  <1>2. srPc' = [srPc EXCEPT ![c] = "done"] /\ srAnswer' = [srAnswer EXCEPT ![c] = a]
     BY DEF SrReply, SrGo
  <1>3. SrMayTell(c, a)
     BY <1>1, Zenon DEF SrMayTell
  <1> QED
     BY <1>1, <1>2, <1>3, Zenon DEF SrCallStep

LEMMA SrGoesOn ==
  ASSUME SrTyped, NEW c \in SrClients, NEW q \in SrPlaces, SrGo(c, q), UNCHANGED srAnswer,
         q = "wait" => SrTaken(c), q = "enqueue" => SrMakes(c, Cardinality(SrIds) + 1)
  PROVE  SrCallStep(c)
  <1>1. srAnswer \in [SrClients -> SrAnswerType]
     BY DEF SrTyped
  <1>2. srAnswer' = [srAnswer EXCEPT ![c] = srAnswer[c]] /\ srAnswer[c] \in SrAnswerType
     BY <1>1
  <1>3. SrMayTell(c, srAnswer[c])
     BY DEF SrMayTell
  <1> QED
     BY <1>2, <1>3, Zenon DEF SrCallStep, SrGo

(* Every step is one of a client, or leaves the clients where they are.    *)
LEMMA SrCallsStep ==
  ASSUME SrTyped, SrKeyed, SrAtWork, [SrNext]_srVars
  PROVE  UNCHANGED <<srPc, srAnswer>> \/ \E c \in SrClients : SrCallStep(c)
  <1>1. ASSUME NEW c \in SrClients, SrReadManual(c) \/ SrReadReplay(c)
        PROVE  SrCallStep(c)
    <2>1. CASE SrReply(c, "rejected", 0)
      <3>1. [code |-> "rejected", id |-> 0] \in SrAnswerType
         BY DEF SrAnswerType
      <3> QED
         BY <2>1, <3>1, SrTells
    <2>2. CASE SrTaken(c) /\ SrAnswerFromKey(c)
       BY <2>2, SrFromKey
    <2>3. CASE SrGo(c, "claim") /\ UNCHANGED srAnswer
       BY <2>3, SrGoesOn, "claim" \in SrPlaces DEF SrPlaces
    <2> QED
       BY <1>1, <2>1, <2>2, <2>3, Zenon DEF SrReadManual, SrReadReplay
  <1>2. ASSUME NEW c \in SrClients, SrClaimManual(c) \/ SrClaimReplay(c)
        PROVE  SrCallStep(c)
    <2>1. UNCHANGED srAnswer
       BY <1>2 DEF SrClaimManual, SrClaimReplay
    <2>2. CASE SrTaken(c)
      <3>1. SrGo(c, "wait")
         BY <1>2, <2>2, Zenon DEF SrClaimManual, SrClaimReplay, SrCommit
      <3> QED
         BY <2>1, <2>2, <3>1, SrGoesOn, "wait" \in SrPlaces DEF SrPlaces
    <2>3. CASE ~SrTaken(c)
      <3>1. SrMakes(c, Cardinality(SrIds) + 1)
         BY <1>2, <2>3, Zenon DEF SrClaimManual, SrClaimReplay, SrCommit, SrMakes
      <3>2. SrGo(c, "enqueue")
         BY <3>1 DEF SrMakes
      <3> QED
         BY <2>1, <3>1, <3>2, SrGoesOn, "enqueue" \in SrPlaces DEF SrPlaces
    <2> QED
       BY <2>2, <2>3
  <1>3. ASSUME NEW c \in SrClients, SrWait(c)
        PROVE  SrCallStep(c)
     BY <1>3, SrFromKey DEF SrWait, SrAtWork
  <1>4. ASSUME NEW c \in SrClients, SrEnqueueManual(c) \/ SrEnqueueReplay(c) \/ SrEnqueueFails(c)
        PROVE  SrCallStep(c)
    <2>1. srPc[c] = "enqueue" /\ (SrReply(c, "accepted", SrOwn(c)) \/ SrReply(c, "unavailable", SrOwn(c)))
       BY <1>4, Zenon DEF SrEnqueueManual, SrEnqueueReplay, SrEnqueueFails
    <2>2. PICK id : id = SrOwn(c)
       OBVIOUS
    <2>3. id \in SrIds /\ id \in Nat /\ srExecs[id].by = c
       BY <2>1, <2>2, SrOwnIs
    <2>4. [code |-> "accepted", id |-> id] \in SrAnswerType /\ [code |-> "unavailable", id |-> id] \in SrAnswerType
       BY <2>3 DEF SrAnswerType
    <2> QED
       BY <2>1, <2>2, <2>3, <2>4, SrTells
  <1>5. ASSUME NEW c \in SrClients, SrCrash(c)
        PROVE  SrCallStep(c)
    <2>1. SrGo(c, "lost") /\ UNCHANGED srAnswer
       BY <1>5 DEF SrCrash
    <2> QED
       BY <2>1, SrGoesOn, "lost" \in SrPlaces DEF SrPlaces
  <1>6. ASSUME NEW c \in SrClients, SrAgain(c)
        PROVE  SrCallStep(c)
    <2>1. srPc' = [srPc EXCEPT ![c] = "read"] /\ srAnswer' = [srAnswer EXCEPT ![c] = SrNoAnswer]
       BY <1>6 DEF SrAgain, SrGo
    <2>2. SrNoAnswer \in SrAnswerType /\ SrNoAnswer.id = 0 /\ "read" \in SrPlaces
       BY DEF SrNoAnswer, SrAnswerType, SrPlaces
    <2> QED
       BY <2>1, <2>2, Zenon DEF SrCallStep, SrMayTell
  <1>7. CASE SrRun \/ SrSwitch \/ UNCHANGED srVars
     BY <1>7 DEF SrRun, SrSwitch, srVars
  <1> QED
     BY <1>1, <1>2, <1>3, <1>4, <1>5, <1>6, <1>7, Zenon DEF SrNext, SrManual, SrReplay

\* Executions and keys are only added, and a letter is only given to a retry.
SrGrows ==
  /\ srCalls' = srCalls /\ SrIds \subseteq SrIds' /\ \E n \in Nat : SrIds' = 1 .. n
  /\ \A e \in SrIds : srExecs'[e].by = srExecs[e].by
  /\ DOMAIN srKeys \subseteq DOMAIN srKeys'
  /\ \A k \in DOMAIN srKeys : srKeys'[k].body = srKeys[k].body /\ srKeys'[k].response = srKeys[k].response
  /\ srExecs' \in [SrIds' -> SrExecType'] /\ srKeys' \in [DOMAIN srKeys' -> SrKeyType']
  /\ srLetter' \in Nat
  /\ srLetter' = srLetter \/ (srLetter' \in SrIds' /\ SrIsReplay(srExecs'[srLetter'].by))

LEMMA SrOnward ==
  ASSUME SrTyped, [SrNext]_srVars
  PROVE  SrGrows
  <1>0. srLetter \in Nat /\ \E n \in Nat : SrIds = 1 .. n
     BY DEF SrTyped
  <1>1. CASE SrKept /\ srExecs' \in [SrIds -> SrExecType] /\ srKeys' \in [DOMAIN srKeys -> SrKeyType]
    <2>0. srCalls' = srCalls
       BY <1>1, Zenon DEF SrKept
    <2>1. SrExecType' = SrExecType /\ SrKeyType' = SrKeyType
       BY <2>0 DEF SrExecType, SrKeyType, SrClients
    <2> QED
       BY <1>0, <1>1, <2>1 DEF SrKept, SrGrows
  <1>2. ASSUME NEW c \in SrClients, SrMakes(c, Cardinality(SrIds) + 1) PROVE SrGrows
    <2>1. PICK id : SrMakes(c, id) /\ SrAfter(c, id)
       BY <1>2, SrMade
    <2>2. /\ id \in Nat /\ SrIds' = SrIds \union {id} /\ \E n \in Nat : SrIds' = 1 .. n
          /\ srExecs'[id].by = c /\ \A e \in SrIds : srExecs'[e] = srExecs[e]
          /\ srExecs' \in [SrIds' -> SrExecType'] /\ srKeys' \in [DOMAIN srKeys' -> SrKeyType']
          /\ DOMAIN srKeys \subseteq DOMAIN srKeys' /\ \A k \in DOMAIN srKeys : srKeys'[k] = srKeys[k]
      <3>1. /\ id \in Nat /\ SrIds' = SrIds \union {id} /\ \E n \in Nat : SrIds' = 1 .. n
            /\ \A e \in SrIds : srExecs'[e] = srExecs[e]
            /\ srExecs' \in [SrIds' -> SrExecType'] /\ srKeys' \in [DOMAIN srKeys' -> SrKeyType']
            /\ DOMAIN srKeys \subseteq DOMAIN srKeys' /\ \A k \in DOMAIN srKeys : srKeys'[k] = srKeys[k]
         BY <2>1, Zenon DEF SrAfter
      <3>2. srExecs'[id] = [by |-> c, status |-> "QUEUED"]
         BY <2>1, Zenon DEF SrAfter
      <3>3. srExecs'[id].by = c
         BY <3>2
      <3> QED
         BY <3>1, <3>3
    <2>3. srCalls' = srCalls /\ (srLetter' = srLetter \/ (SrIsReplay(c) /\ srLetter' = id))
       BY <2>1 DEF SrMakes
    <2> QED
       BY <1>0, <2>2, <2>3 DEF SrGrows
  <1> QED
     BY <1>1, <1>2, SrMoves

LEMMA SrTypedNext ==
  ASSUME SrTyped, SrKeyed, SrAtWork, [SrNext]_srVars
  PROVE  SrTyped'
  <1>1. SrGrows
     BY SrOnward
  <1>2. SrClients' = SrClients
     BY <1>1 DEF SrGrows, SrClients
  <1>3. srActive' \in BOOLEAN
     BY Zenon DEF SrTyped, SrNext, SrManual, SrReplay, SrReadManual, SrReadReplay, SrClaimManual, SrClaimReplay,
        SrEnqueueManual, SrEnqueueReplay, SrEnqueueFails, SrWait, SrCrash, SrAgain, SrRun, SrSwitch, srVars
  <1>4. srFaults' = srFaults \/ SrFault
     BY Zenon DEF SrNext, SrManual, SrReplay, SrReadManual, SrReadReplay, SrClaimManual, SrClaimReplay,
        SrEnqueueManual, SrEnqueueReplay, SrEnqueueFails, SrWait, SrCrash, SrAgain, SrRun, SrSwitch, srVars
  <1>5. srFaults' \in 0 .. SrMaxFaults
     BY <1>4, SrConstants DEF SrTyped, SrFault
  <1>6. srPc' \in [SrClients -> SrPlaces] /\ srAnswer' \in [SrClients -> SrAnswerType]
    <2>1. srPc \in [SrClients -> SrPlaces] /\ srAnswer \in [SrClients -> SrAnswerType]
       BY DEF SrTyped
    <2>2. ASSUME NEW c \in SrClients, SrCallStep(c)
          PROVE  srPc' \in [SrClients -> SrPlaces] /\ srAnswer' \in [SrClients -> SrAnswerType]
       BY <2>1, <2>2 DEF SrCallStep
    <2> QED
       BY <2>1, <2>2, SrCallsStep
  <1>7. SrAnswerType' = SrAnswerType /\ SrPlaces' = SrPlaces
     BY DEF SrAnswerType, SrPlaces
  <1> QED
     BY <1>1, <1>2, <1>3, <1>5, <1>6, <1>7 DEF SrTyped, SrGrows

LEMMA SrAtWorkNext ==
  ASSUME SrTyped, SrKeyed, SrAtWork, [SrNext]_srVars
  PROVE  SrAtWork'
  <1>1. SrGrows
     BY SrOnward
  <1>2. SrClients' = SrClients /\ \A d \in SrClients : SrTaken(d) => SrTaken(d)'
     BY <1>1 DEF SrGrows, SrClients, SrTaken, SrHasKey, SrScope
  <1>3. \A d \in SrClients : (\E e \in SrIds : srExecs[e].by = d) => \E e \in SrIds' : srExecs'[e].by = d
     BY <1>1 DEF SrGrows
  <1>4. srPc \in [SrClients -> SrPlaces]
     BY DEF SrTyped
  <1>5. CASE srPc' = srPc
     BY <1>2, <1>3, <1>5 DEF SrAtWork
  <1>6. ASSUME NEW c \in SrClients, SrCallStep(c) PROVE SrAtWork'
    <2>1. PICK q \in SrPlaces : /\ srPc' = [srPc EXCEPT ![c] = q]
                                /\ q = "wait" => SrTaken(c)
                                /\ q = "enqueue" => SrMakes(c, Cardinality(SrIds) + 1)
       BY <1>6, Zenon DEF SrCallStep
    <2>2. q = "enqueue" => \E e \in SrIds' : srExecs'[e].by = c
      <3>1. SUFFICES ASSUME q = "enqueue" PROVE \E e \in SrIds' : srExecs'[e].by = c
         OBVIOUS
      <3>2. PICK id : SrAfter(c, id)
         BY <2>1, <3>1, SrMade
      <3>3. id \in SrIds' /\ srExecs'[id] = [by |-> c, status |-> "QUEUED"]
         BY <3>2, Zenon DEF SrAfter
      <3>4. srExecs'[id].by = c
         BY <3>3
      <3> QED
         BY <3>3, <3>4
    <2>3. ASSUME NEW d \in SrClients
          PROVE  /\ srPc'[d] = "wait" => SrTaken(d)'
                 /\ srPc'[d] = "enqueue" => \E e \in SrIds' : srExecs'[e].by = d
      <3>1. CASE d = c
         BY <1>2, <1>4, <2>1, <2>2, <3>1
      <3>2. CASE d /= c
        <4>1. srPc'[d] = srPc[d]
           BY <1>4, <2>1, <3>2
        <4> QED
           BY <1>2, <1>3, <4>1 DEF SrAtWork
      <3> QED
         BY <3>1, <3>2
    <2> QED
       BY <1>2, <2>3 DEF SrAtWork
  <1> QED
     BY <1>5, <1>6, SrCallsStep

LEMMA SrToldNext ==
  ASSUME SrTyped, SrKeyed, SrAtWork, SrTold, [SrNext]_srVars
  PROVE  SrTold'
  <1> DEFINE Right(c, id) == /\ id \in SrIds'
                             /\ SrHasKey(c) => /\ SrTaken(c)' /\ id = srKeys'[SrScope(c)].response
                                               /\ srKeys'[SrScope(c)].body = srCalls[c].body
  <1>1. SrGrows
     BY SrOnward
  <1>2. SrClients' = SrClients /\ \A d \in SrClients : SrTaken(d) => SrTaken(d)'
     BY <1>1 DEF SrGrows, SrClients, SrTaken, SrHasKey, SrScope
  <1>3. ASSUME NEW c \in SrClients, NEW id \in SrIds,
               SrHasKey(c) => /\ SrTaken(c) /\ id = srKeys[SrScope(c)].response
                              /\ srKeys[SrScope(c)].body = srCalls[c].body
        PROVE  Right(c, id)
     BY <1>1, <1>2, <1>3 DEF SrGrows, SrTaken
  <1>4. ASSUME NEW c \in SrClients, NEW id \in SrIds, srExecs[id].by = c PROVE Right(c, id)
    <2>1. SrHasKey(c) => /\ SrTaken(c) /\ id = srKeys[SrScope(c)].response
                         /\ srKeys[SrScope(c)].body = srCalls[c].body
      <3>1. SUFFICES ASSUME SrHasKey(c) PROVE /\ SrTaken(c) /\ id = srKeys[SrScope(c)].response
                                              /\ srKeys[SrScope(c)].body = srCalls[c].body
         OBVIOUS
      <3>2. SrScope(c) \in DOMAIN srKeys /\ srKeys[SrScope(c)].response = id
         BY <1>4, <3>1 DEF SrKeyed
      <3>3. srKeys[SrScope(c)].body = srCalls[srExecs[id].by].body
         BY <3>2 DEF SrKeyed
      <3> QED
         BY <1>4, <3>1, <3>2, <3>3 DEF SrTaken
    <2> QED
       BY <1>3, <2>1
  <1>5. ASSUME NEW c \in SrClients, srAnswer[c].id /= 0 PROVE Right(c, srAnswer[c].id)
     BY <1>3, <1>5 DEF SrTold
  <1>6. ASSUME NEW c \in SrClients, NEW a, SrMayTell(c, a), a.id /= 0 PROVE Right(c, a.id)
    <2>1. CASE a = srAnswer[c]
       BY <1>5, <1>6, <2>1
    <2>2. CASE a.id \in SrIds /\ SrTaken(c) /\ a.id = srKeys[SrScope(c)].response /\ srKeys[SrScope(c)].body = srCalls[c].body
       BY <1>3, <2>2
    <2>3. CASE a.id \in SrIds /\ srExecs[a.id].by = c
       BY <1>4, <2>3
    <2> QED
       BY <1>6, <2>1, <2>2, <2>3 DEF SrMayTell
  <1>7. ASSUME NEW d \in SrClients, srAnswer'[d].id /= 0 PROVE Right(d, srAnswer'[d].id)
    <2>1. CASE srAnswer'[d] = srAnswer[d]
       BY <1>5, <1>7, <2>1
    <2>2. ASSUME srAnswer'[d] /= srAnswer[d] PROVE \E a : srAnswer'[d] = a /\ SrMayTell(d, a)
      <3>1. srAnswer \in [SrClients -> SrAnswerType]
         BY DEF SrTyped
      <3>2. PICK c \in SrClients : SrCallStep(c)
         BY <2>2, SrCallsStep
      <3>3. PICK a \in SrAnswerType : srAnswer' = [srAnswer EXCEPT ![c] = a] /\ SrMayTell(c, a)
         BY <3>2 DEF SrCallStep
      <3> QED
         BY <2>2, <3>1, <3>3
    <2> QED
       BY <1>6, <1>7, <2>1, <2>2
  <1>8. srCalls' = srCalls
     BY <1>1 DEF SrGrows
  <1> QED
     BY <1>2, <1>7, <1>8 DEF SrTold, SrHasKey, SrScope

LEMMA SrLetterNext ==
  ASSUME SrTyped, SrLetterHasRetry, [SrNext]_srVars
  PROVE  SrLetterHasRetry'
  <1>1. SrGrows
     BY SrOnward
  <1>2. ASSUME srLetter' /= 0 PROVE srLetter' \in SrIds' /\ SrIsReplay(srExecs'[srLetter'].by)
     BY <1>1, <1>2 DEF SrGrows, SrLetterHasRetry
  <1> QED
     BY <1>1, <1>2 DEF SrGrows, SrLetterHasRetry, SrIsReplay

LEMMA StartInit == SrInit => StartInv
  <1> SUFFICES ASSUME SrInit PROVE StartInv
     OBVIOUS
  <1>1. SrIds = {} /\ DOMAIN srKeys = {} /\ \A c \in SrClients : srAnswer[c] = SrNoAnswer /\ srPc[c] = "read"
     BY DEF SrInit, SrIds
  <1>2. SrNoAnswer \in SrAnswerType /\ SrNoAnswer.id = 0
     BY DEF SrNoAnswer, SrAnswerType
  <1>3. SrTyped
    <2>1. srActive \in BOOLEAN /\ srLetter \in Nat /\ srFaults \in 0 .. SrMaxFaults
       BY SrConstants DEF SrInit
    <2>2. 0 \in Nat /\ SrIds = 1 .. 0
       BY <1>1
    <2>3. srExecs \in [SrIds -> SrExecType] /\ srKeys \in [DOMAIN srKeys -> SrKeyType]
       BY <1>1 DEF SrInit, SrIds
    <2>4. srPc \in [SrClients -> SrPlaces] /\ srAnswer \in [SrClients -> SrAnswerType]
       BY <1>2 DEF SrInit, SrPlaces
    <2> QED
       BY <2>1, <2>2, <2>3, <2>4, Zenon DEF SrTyped
  <1>4. SrLetterHasRetry
     BY DEF SrInit, SrLetterHasRetry
  <1> QED
     BY <1>1, <1>2, <1>3, <1>4 DEF StartInv, SrKeyed, SrAtWork, SrTold

LEMMA StartMeans == StartInv => SrTypeOK /\ SrOnePerKey /\ SrAnswersAgree /\ SrLetterHasRetry
  <1> SUFFICES ASSUME StartInv PROVE SrTypeOK /\ SrOnePerKey /\ SrAnswersAgree /\ SrLetterHasRetry
     OBVIOUS
  <1>0. SrTyped /\ SrKeyed /\ SrTold /\ SrLetterHasRetry
     BY DEF StartInv
  <1>1. SrOnePerKey
     BY <1>0 DEF SrKeyed, SrOnePerKey
  <1>2. SrAnswersAgree
     BY <1>0 DEF SrTold, SrAnswersAgree
  <1>3. \A k \in DOMAIN srKeys : srKeys[k].response \in SrIds /\ srKeys[k].status \in {"PROCESSING", "ENQUEUED", "FAILED"}
     BY <1>0 DEF SrKeyed, SrTyped, SrKeyType
  <1>4. \A e \in SrIds : srExecs[e].by \in SrClients /\ srExecs[e].status \in {"QUEUED", "ENDED"}
     BY <1>0 DEF SrTyped, SrExecType
  <1>5. \A c \in SrClients : srAnswer[c].code \in {"none", "rejected", "conflict", "accepted", "unavailable"} /\ srAnswer[c].id \in {0} \union SrIds
     BY <1>0 DEF SrTyped, SrTold, SrAnswerType
  <1>6. srActive \in BOOLEAN /\ srLetter \in Nat /\ srFaults \in 0 .. SrMaxFaults /\ srPc \in [SrClients -> SrPlaces]
     BY <1>0, Zenon DEF SrTyped
  <1>7. SrTypeOK
     BY <1>3, <1>4, <1>5, <1>6 DEF SrTypeOK, SrPlaces
  <1> QED
     BY <1>0, <1>1, <1>2, <1>7

(* However requests to start an execution are interleaved and repeated,    *)
(* with API crashes and refused jobs between them: a key starts one        *)
(* execution, clients that used one key hear of the same execution and had *)
(* asked for the same, and a dead letter is resolved by a retry that       *)
(* exists.                                                                 *)
THEOREM KeysStartOnce == SrSpec => [](SrTypeOK /\ SrOnePerKey /\ SrAnswersAgree /\ SrLetterHasRetry)
  <1>1. SrInit => StartInv
     BY StartInit
  <1>2. StartInv /\ [SrNext]_srVars => StartInv'
     BY SrTypedNext, SrKeyedNext, SrAtWorkNext, SrToldNext, SrLetterNext, Zenon DEF StartInv
  <1>3. StartInv => SrTypeOK /\ SrOnePerKey /\ SrAnswersAgree /\ SrLetterHasRetry
     BY StartMeans
  <1> QED
     BY <1>1, <1>2, <1>3, PTL DEF SrSpec

-----------------------------------------------------------------------------
(***************************************************************************)
(* ApprovalWait, for any number of workers, decisions and faults.  Workers *)
(* are kept apart by the lease (ApOneRunner), so what one has read of the  *)
(* request and of the step still holds when it writes (ApFound).           *)
(***************************************************************************)

ApExecType == [status : ApActive \union {"COMPLETED", "FAILED", "CANCELLED"}, wait : BOOLEAN,
               owner : ApWorkers \union {ApNobody}, run : Nat]
ApStepType == [status : {"PENDING", "RUNNING", "RETRYING", "COMPLETED", "FAILED"},
               parked : BOOLEAN, due : BOOLEAN, output : ApSettled \union {"none"}]
ApRequestType == [status : ApSettled \union {"NONE", "PENDING", "CANCELLED"}, version : Nat]
ApPlaces == {"idle", "begin", "handle", "ask", "park", "mark", "release", "answer", "finish"}

\* The rows and the places of the workers.
ApTyped ==
  apExec \in ApExecType /\ apStep \in ApStepType /\ apRequest \in ApRequestType /\ apPc \in [ApWorkers -> ApPlaces]

\* The lease: unless the execution was cancelled under it, a worker that is in
\* a run owns it.
ApOneRunner == apExec.status /= "CANCELLED" => \A w \in ApWorkers : apPc[w] /= "idle" => apExec.owner = w

\* What a worker found before it writes.
ApFound ==
  \A w \in ApWorkers : /\ apPc[w] = "answer" => apRequest.status \in ApSettled
                       /\ apPc[w] \in {"park", "mark"} => apRequest.status /= "NONE"
                       /\ apPc[w] = "finish" /\ apExec.status /= "CANCELLED" => apStep.status = "COMPLETED"
                       /\ apExec.status = "COMPLETED" => apPc[w] \in {"idle", "release"}

\* The rest of ApTypeOK: a request is settled once, so its version is 0 or 1,
\* and a job that waits is one the queue knows.
ApRest ==
  /\ apRequest.version \in 0 .. 1
  /\ apRequest.status \in {"NONE", "PENDING"} => apRequest.version = 0
  /\ apLapsed \in BOOLEAN /\ apJobs \subseteq apKnown /\ apKnown \subseteq ApJobIds
  /\ apDecide \in [ApDeciders -> {"idle", "commit", "enqueue"}]
  /\ apRec \in {"idle", "enqueueExpired", "resume"} /\ apCancel \in {"none", "descendants", "done"}
  /\ apFaults \in 0 .. ApMaxFaults

ApprovalInv == ApTyped /\ ApRest /\ ApOneRunner /\ ApFound /\ ApOutputIsDecision /\ ApParkedHasRequest

(* The request is made, settled or cancelled, each once.                   *)
LEMMA ApRequestMoves ==
  ASSUME ApTyped, [ApNext]_apVars
  PROVE  \/ apRequest' = apRequest
         \/ apRequest.status = "NONE" /\ apRequest' = [apRequest EXCEPT !.status = "PENDING"]
         \/ /\ apRequest.status = "PENDING"
            /\ \E s \in ApSettled \union {"CANCELLED"} : \E n \in {1, apRequest.version + 1} : apRequest' = [status |-> s, version |-> n]
  <1> USE DEF ApTyped
  <1>1. ASSUME NEW d \in ApDeciders, ApDecideCommit(d), apRequest' /= apRequest
        PROVE  /\ apRequest.status = "PENDING"
               /\ \E s \in ApSettled \union {"CANCELLED"} : \E n \in {1, apRequest.version + 1} : apRequest' = [status |-> s, version |-> n]
    <2>1. apRequest = [status |-> "PENDING", version |-> 0] /\ apRequest' = [status |-> ApChoice[d], version |-> 1]
       BY <1>1 DEF ApDecideCommit
    <2>2. ApChoice[d] \in ApSettled
       BY ApConstants DEF ApSettled, ApDecisions
    <2> QED
       BY <2>1, <2>2
  <1>2. ASSUME ApCancelRequest, apRequest' /= apRequest
        PROVE  /\ apRequest.status = "PENDING"
               /\ \E s \in ApSettled \union {"CANCELLED"} : \E n \in {1, apRequest.version + 1} : apRequest' = [status |-> s, version |-> n]
     BY <1>2 DEF ApCancelRequest
  <1>3. ASSUME ApExpire
        PROVE  /\ apRequest.status = "PENDING"
               /\ \E s \in ApSettled \union {"CANCELLED"} : \E n \in {1, apRequest.version + 1} : apRequest' = [status |-> s, version |-> n]
    <2>1. "EXPIRED" \in ApSettled
       BY DEF ApSettled
    <2> QED
       BY <1>3, <2>1 DEF ApExpire
  <1>4. ASSUME NEW w \in ApWorkers, ApAsk(w), apRequest' /= apRequest
        PROVE  apRequest.status = "NONE" /\ apRequest' = [apRequest EXCEPT !.status = "PENDING"]
     BY <1>4 DEF ApAsk
  <1>5. \/ apRequest' = apRequest \/ ApCancelRequest \/ ApExpire
        \/ \E d \in ApDeciders : ApDecideCommit(d)
        \/ \E w \in ApWorkers : ApAsk(w)
     BY DEF ApNext, ApWorker, ApReconciler, ApTake, ApBegin, ApLost, ApHandle, ApPark, ApMark, ApAnswer, ApFinish, ApRelease,
        ApCrash, ApDecideRead, ApDecideEnqueue, ApCancelExecution, ApLapse, ApReconcilerDies, ApEnqueueExpired, ApStranded,
        ApResume, ApRecoverRunning, ApRequeue, apRows, apVars
  <1> QED
     BY <1>1, <1>2, <1>3, <1>4, <1>5

(* What the request says is kept.                                          *)
LEMMA ApRequestKept ==
  ASSUME ApTyped, [ApNext]_apVars
  PROVE  /\ apRequest' \in ApRequestType
         /\ apRequest.status \in ApSettled => apRequest' = apRequest
         /\ apRequest.status /= "NONE" => apRequest'.status /= "NONE"
         /\ apRequest.status \notin {"NONE", "PENDING"} => apRequest' = apRequest
  BY ApRequestMoves DEF ApTyped, ApRequestType, ApSettled, ApDecisions

\* A step of a worker leaves the others where they are.
ApOthers(w) == \A v \in ApWorkers : v /= w => apPc'[v] = apPc[v]

(* The worker's steps one by one, and what is left of the others.          *)
LEMMA ApOwnMoves ==
  ASSUME ApTyped, [ApNext]_apVars
  PROVE  \/ \E w \in ApWorkers : (ApWorker(w) \/ ApCrash(w)) /\ ApOthers(w)
         \/ apPc' = apPc /\ UNCHANGED <<apExec, apStep>>
         \/ apPc' = apPc /\ apStep' = apStep /\ apExec' = ApWakeExec
         \/ ApCancelExecution \/ ApRecoverRunning \/ ApRequeue
  <1>1. ASSUME NEW w \in ApWorkers, ApWorker(w) \/ ApCrash(w) PROVE ApOthers(w)
     BY <1>1 DEF ApTyped, ApOthers, ApWorker, ApTake, ApBegin, ApLost, ApHandle, ApAsk, ApPark, ApMark, ApAnswer, ApFinish,
        ApRelease, ApCrash, ApGo
  <1> QED
     BY <1>1 DEF ApNext, ApReconciler, ApDecideRead, ApDecideCommit, ApDecideEnqueue, ApCancelRequest, ApLapse, ApReconcilerDies,
        ApExpire, ApEnqueueExpired, ApStranded, ApResume, apRows, apVars

(* Every row keeps its type.                                               *)
LEMMA ApTypedNext ==
  ASSUME ApTyped, ApFound, [ApNext]_apVars
  PROVE  ApTyped'
  <1> USE DEF ApTyped
  <1>1. apExec' \in ApExecType
    <2>1. apExec.run + 1 \in Nat
       BY DEF ApExecType
    <2>2. \/ apExec' = apExec
          \/ \E w \in ApWorkers : \/ apExec' = [apExec EXCEPT !.status = "RUNNING", !.owner = w, !.run = apExec.run + 1]
                                  \/ apExec' = [apExec EXCEPT !.status = "RETRYING", !.wait = TRUE]
                                  \/ apExec' = [apExec EXCEPT !.status = "COMPLETED", !.wait = FALSE]
                                  \/ apExec' = [apExec EXCEPT !.owner = ApNobody]
          \/ apExec' = [apExec EXCEPT !.status = "QUEUED", !.wait = FALSE]
          \/ apExec' = [apExec EXCEPT !.status = "CANCELLED", !.owner = ApNobody, !.wait = FALSE]
          \/ apExec' = [apExec EXCEPT !.status = "QUEUED", !.owner = ApNobody]
          \/ apExec' = [apExec EXCEPT !.status = "QUEUED"]
      <3>1. ASSUME NEW w \in ApWorkers, ApWorker(w) \/ ApCrash(w)
            PROVE  \/ apExec' = apExec
                   \/ apExec' = [apExec EXCEPT !.status = "RUNNING", !.owner = w, !.run = apExec.run + 1]
                   \/ apExec' = [apExec EXCEPT !.status = "RETRYING", !.wait = TRUE]
                   \/ apExec' = [apExec EXCEPT !.status = "COMPLETED", !.wait = FALSE]
                   \/ apExec' = [apExec EXCEPT !.owner = ApNobody]
         BY <3>1, Zenon DEF ApWorker, ApTake, ApBegin, ApLost, ApHandle, ApAsk, ApPark, ApMark, ApAnswer, ApFinish, ApRelease,
            ApCrash, apRows
      <3>2. \/ \E w \in ApWorkers : ApWorker(w) \/ ApCrash(w)
            \/ apExec' = apExec \/ apExec' = ApWakeExec
            \/ ApCancelExecution \/ ApRecoverRunning \/ ApRequeue
         BY ApOwnMoves
      <3> QED
         BY <3>1, <3>2, Zenon DEF ApWakeExec, ApCancelExecution, ApRecoverRunning, ApRequeue
    <2> QED
       BY <2>1, <2>2 DEF ApExecType, ApActive
  <1>2. apStep' \in ApStepType
    <2>1. \/ apStep' = apStep
          \/ apStep' = [apStep EXCEPT !.status = "RUNNING", !.due = FALSE]
          \/ apStep' = [apStep EXCEPT !.status = "FAILED"]
          \/ apStep' = [apStep EXCEPT !.status = "RETRYING", !.parked = TRUE, !.due = FALSE]
          \/ apStep' = [apStep EXCEPT !.status = "RETRYING", !.parked = FALSE, !.due = TRUE]
          \/ \E w \in ApWorkers : ApAnswer(w)
      <3>1. ASSUME NEW w \in ApWorkers, ApWorker(w) \/ ApCrash(w)
            PROVE  \/ apStep' = apStep
                   \/ apStep' = [apStep EXCEPT !.status = "RUNNING", !.due = FALSE]
                   \/ apStep' = [apStep EXCEPT !.status = "FAILED"]
                   \/ apStep' = [apStep EXCEPT !.status = "RETRYING", !.parked = TRUE, !.due = FALSE]
                   \/ ApAnswer(w)
         BY <3>1, Zenon DEF ApWorker, ApTake, ApBegin, ApLost, ApHandle, ApAsk, ApPark, ApMark, ApFinish, ApRelease, ApCrash, apRows
      <3> QED
         BY <3>1, ApOwnMoves, Zenon DEF ApCancelExecution, ApRecoverRunning, ApRequeue
    <2>2. ASSUME NEW w \in ApWorkers, ApAnswer(w) PROVE apStep' \in ApStepType
       BY <2>2 DEF ApAnswer, ApFound, ApStepType
    <2> QED
       BY <2>1, <2>2 DEF ApStepType
  <1>3. apPc' \in [ApWorkers -> ApPlaces]
    <2>1. ASSUME NEW w \in ApWorkers, NEW q \in ApPlaces, ApGo(w, q) PROVE apPc' \in [ApWorkers -> ApPlaces]
       BY <2>1 DEF ApGo
    <2>2. ASSUME NEW w \in ApWorkers, ApHandle(w) PROVE apPc' \in [ApWorkers -> ApPlaces]
      <3>1. CASE apRequest.status = "NONE"
         BY <2>1, <2>2, <3>1, "ask" \in ApPlaces DEF ApHandle, ApPlaces
      <3>2. CASE apRequest.status = "PENDING"
         BY <2>1, <2>2, <3>2, "park" \in ApPlaces DEF ApHandle, ApPlaces
      <3>3. CASE apRequest.status \in ApSettled
        <4>1. apRequest.status \notin {"NONE", "PENDING", "CANCELLED"}
           BY <3>3 DEF ApSettled, ApDecisions
        <4> QED
           BY <2>1, <2>2, <3>3, <4>1, "answer" \in ApPlaces DEF ApHandle, ApPlaces
      <3>4. CASE apRequest.status = "CANCELLED"
        <4>1. apRequest.status \notin ApSettled
           BY <3>4 DEF ApSettled, ApDecisions
        <4> QED
           BY <2>1, <2>2, <3>4, <4>1, "release" \in ApPlaces DEF ApHandle, ApPlaces
      <3> QED
         BY <3>1, <3>2, <3>3, <3>4 DEF ApRequestType
    <2>3. ASSUME NEW w \in ApWorkers, ApWorker(w) \/ ApCrash(w), ~ApHandle(w)
          PROVE  apPc' = apPc \/ \E q \in {"idle", "begin", "handle", "park", "mark", "release", "finish"} : ApGo(w, q)
       BY <2>3 DEF ApWorker, ApTake, ApBegin, ApLost, ApAsk, ApPark, ApMark, ApAnswer, ApFinish, ApRelease, ApCrash
    <2>4. \A q \in {"idle", "begin", "handle", "park", "mark", "release", "finish"} : q \in ApPlaces
       BY DEF ApPlaces
    <2>5. apPc' = apPc \/ \E w \in ApWorkers : ApWorker(w) \/ ApCrash(w)
       BY ApOwnMoves DEF ApCancelExecution, ApRecoverRunning, ApRequeue
    <2> QED
       BY <2>1, <2>2, <2>3, <2>4, <2>5
  <1> QED
     BY <1>1, <1>2, <1>3, ApRequestKept

(* A cancelled execution stays cancelled.                                  *)
LEMMA ApCancelledStays ==
  ASSUME ApTyped, [ApNext]_apVars, apExec.status = "CANCELLED"
  PROVE  apExec'.status = "CANCELLED"
  <1>1. ASSUME NEW w \in ApWorkers, ApWorker(w) \/ ApCrash(w) PROVE apExec'.status = "CANCELLED"
     BY <1>1 DEF ApTyped, ApExecType, ApActive, ApWorker, ApTake, ApBegin, ApLost, ApHandle, ApAsk, ApPark, ApMark, ApAnswer,
        ApFinish, ApRelease, ApCrash, apRows
  <1> QED
     BY <1>1, ApOwnMoves DEF ApWakeExec, ApCancelExecution, ApRecoverRunning, ApRequeue, ApActive

(* Of two workers in a run of an execution that was not cancelled, one.    *)
LEMMA ApAlone ==
  ASSUME ApOneRunner, apExec.status /= "CANCELLED", NEW w \in ApWorkers, NEW v \in ApWorkers,
         apPc[w] /= "idle", apPc[v] /= "idle"
  PROVE  v = w
  BY DEF ApOneRunner

(* The lease admits one worker at a time.                                  *)
LEMMA ApOneRunnerNext ==
  ASSUME ApTyped, ApOneRunner, [ApNext]_apVars
  PROVE  ApOneRunner'
  <1> SUFFICES ASSUME apExec'.status /= "CANCELLED", NEW v \in ApWorkers, apPc'[v] /= "idle"
               PROVE  apExec'.owner = v
     BY DEF ApOneRunner
  <1> USE DEF ApTyped
  <1>1. apExec.status /= "CANCELLED"
     BY ApCancelledStays
  <1>2. ASSUME NEW w \in ApWorkers, ApTake(w), ApOthers(w) PROVE apExec'.owner = v
    <2>1. CASE apExec' = apExec /\ apPc' = apPc
       BY <1>1, <2>1 DEF ApOneRunner
    <2>2. CASE /\ apExec.owner \in {ApNobody, w} \/ ApLapsedLease
               /\ apExec' = [apExec EXCEPT !.status = "RUNNING", !.owner = w, !.run = apExec.run + 1]
      <3>1. apExec'.owner = w
         BY <2>2 DEF ApExecType
      <3>2. ASSUME v /= w PROVE FALSE
        <4>1. apPc[v] /= "idle"
           BY <1>2, <3>2 DEF ApOthers
        <4>2. apExec.owner = v
           BY <1>1, <4>1 DEF ApOneRunner
        <4> QED
           BY <2>2, <3>2, <4>1, <4>2, ApNobodyWorks DEF ApLapsedLease
      <3> QED
         BY <3>1, <3>2
    <2> QED
       BY <1>2, <2>1, <2>2 DEF ApTake
  <1>3. ASSUME NEW w \in ApWorkers, ApRelease(w), ApOthers(w) PROVE apExec'.owner = v
    <2>1. v /= w
       BY <1>3 DEF ApRelease, ApGo
    <2>2. apPc[v] /= "idle" /\ apPc[w] /= "idle"
       BY <1>3, <2>1 DEF ApOthers, ApRelease
    <2> QED
       BY <1>1, <2>1, <2>2, ApAlone
  <1>4. ASSUME NEW w \in ApWorkers, ApCrash(w) \/ ApBegin(w) \/ ApHandle(w) \/ ApAsk(w) \/ ApPark(w) \/ ApMark(w) \/ ApAnswer(w)
                                    \/ ApFinish(w), ApOthers(w)
        PROVE  apExec'.owner = v
    <2>1. apExec'.owner = apExec.owner
       BY <1>4 DEF ApExecType, ApCrash, ApBegin, ApLost, ApHandle, ApAsk, ApPark, ApMark, ApAnswer, ApFinish, apRows
    <2>2. apPc[w] /= "idle"
       BY <1>4 DEF ApCrash, ApBegin, ApHandle, ApAsk, ApPark, ApMark, ApAnswer, ApFinish
    <2>3. apPc[v] /= "idle"
       BY <1>4, <2>2 DEF ApOthers
    <2> QED
       BY <1>1, <2>1, <2>3 DEF ApOneRunner
  <1>5. CASE apPc' = apPc /\ (apExec' = apExec \/ apExec' = ApWakeExec)
     BY <1>1, <1>5 DEF ApOneRunner, ApWakeExec, ApExecType
  <1>6. CASE ApCancelExecution
     BY <1>6 DEF ApCancelExecution, ApExecType
  <1>7. CASE ApRecoverRunning
    <2>1. apPc[v] /= "idle" /\ apPc[apExec.owner] = "idle"
       BY <1>7 DEF ApRecoverRunning, ApLapsedLease
    <2> QED
       BY <1>1, <2>1 DEF ApOneRunner
  <1>8. CASE ApRequeue
     BY <1>1, <1>8 DEF ApRequeue, ApOneRunner, ApExecType
  <1> QED
     BY <1>2, <1>3, <1>4, <1>5, <1>6, <1>7, <1>8, ApOwnMoves DEF ApWorker

(* A step that is COMPLETED stays so unless a worker in a run redoes it.   *)
LEMMA ApStepKept ==
  ASSUME ApTyped, [ApNext]_apVars, apStep.status = "COMPLETED", apStep' /= apStep
  PROVE  \E w \in ApWorkers : /\ apPc[w] \in {"handle", "park", "answer"}
                              /\ ApHandle(w) \/ ApPark(w) \/ ApAnswer(w)
                              /\ apExec' = apExec /\ apPc'[w] \in {"release", "mark", "finish"}
                              /\ apPc'[w] = "finish" => apStep'.status = "COMPLETED"
  <1> USE DEF ApTyped
  <1>1. ASSUME NEW w \in ApWorkers, ApWorker(w) \/ ApCrash(w) PROVE ApHandle(w) \/ ApPark(w) \/ ApAnswer(w)
     BY <1>1 DEF ApWorker, ApTake, ApBegin, ApLost, ApAsk, ApMark, ApFinish, ApRelease, ApCrash, apRows
  <1>2. PICK w \in ApWorkers : ApHandle(w) \/ ApPark(w) \/ ApAnswer(w)
     BY <1>1, ApOwnMoves DEF ApCancelExecution, ApRecoverRunning, ApRequeue
  <1>3. CASE ApHandle(w)
    <2>1. apRequest.status = "CANCELLED"
       BY <1>3 DEF ApHandle
    <2> QED
       BY <1>3, <2>1 DEF ApHandle, ApGo, ApSettled, ApDecisions
  <1>4. CASE ApPark(w)
     BY <1>4 DEF ApPark, ApGo
  <1>5. CASE ApAnswer(w)
     BY <1>5 DEF ApAnswer, ApGo, ApStepType
  <1> QED
     BY <1>2, <1>3, <1>4, <1>5

(* What a worker has found still holds when it writes.                     *)
LEMMA ApFoundNext ==
  ASSUME ApTyped, ApOneRunner, ApFound, ApOutputIsDecision, [ApNext]_apVars
  PROVE  ApFound'
  <1> USE DEF ApTyped
  <1>0. ASSUME NEW v \in ApWorkers, apPc'[v] /= apPc[v] PROVE ApWorker(v) \/ ApCrash(v)
     BY <1>0, ApOwnMoves DEF ApOthers, ApCancelExecution, ApRecoverRunning, ApRequeue
  <1>1. ASSUME NEW v \in ApWorkers, apPc'[v] = "answer" PROVE apRequest'.status \in ApSettled
    <2>1. CASE apPc[v] = "answer"
       BY <2>1, ApRequestKept DEF ApFound
    <2>2. CASE apPc[v] /= "answer"
      <3>1. ApHandle(v)
         BY <1>0, <1>1, <2>2 DEF ApWorker, ApTake, ApBegin, ApLost, ApAsk, ApPark, ApMark, ApAnswer, ApFinish, ApRelease, ApCrash, ApGo
      <3> QED
         BY <1>1, <3>1 DEF ApHandle, ApGo, ApRequestType
    <2> QED
       BY <2>1, <2>2
  <1>2. ASSUME NEW v \in ApWorkers, apPc'[v] \in {"park", "mark"} PROVE apRequest'.status /= "NONE"
    <2>1. CASE apPc[v] \in {"park", "mark"}
       BY <2>1, ApRequestKept DEF ApFound
    <2>2. CASE apPc[v] \notin {"park", "mark"}
      <3>1. ApHandle(v) \/ ApAsk(v)
         BY <1>0, <1>2, <2>2 DEF ApWorker, ApTake, ApBegin, ApLost, ApPark, ApMark, ApAnswer, ApFinish, ApRelease, ApCrash, ApGo
      <3> QED
         BY <1>2, <3>1 DEF ApHandle, ApAsk, ApGo, ApRequestType
    <2> QED
       BY <2>1, <2>2
  <1>3. ASSUME NEW v \in ApWorkers, apPc'[v] = "finish", apExec'.status /= "CANCELLED" PROVE apStep'.status = "COMPLETED"
    <2>0. apExec.status /= "CANCELLED"
       BY <1>3, ApCancelledStays
    <2>1. CASE apPc[v] = "finish"
      <3>1. apStep.status = "COMPLETED"
         BY <2>0, <2>1 DEF ApFound
      <3>2. ASSUME apStep' /= apStep PROVE FALSE
        <4>1. PICK w \in ApWorkers : apPc[w] \in {"handle", "park", "answer"}
           BY <3>1, <3>2, ApStepKept
        <4> QED
           BY <2>0, <2>1, <4>1, ApAlone
      <3> QED
         BY <3>1, <3>2
    <2>2. CASE apPc[v] /= "finish"
      <3>1. ApBegin(v) \/ ApAnswer(v)
         BY <1>0, <1>3, <2>2 DEF ApWorker, ApTake, ApLost, ApHandle, ApAsk, ApPark, ApMark, ApFinish, ApRelease, ApCrash, ApGo, ApRequestType
      <3> QED
         BY <1>3, <3>1 DEF ApBegin, ApLost, ApAnswer, ApGo, ApStepType, apRows
    <2> QED
       BY <2>1, <2>2
  <1>4. ASSUME NEW v \in ApWorkers, apExec'.status = "COMPLETED" PROVE apPc'[v] \in {"idle", "release"}
    <2>1. CASE apExec.status = "COMPLETED"
      <3>1. apPc[v] \in {"idle", "release"}
         BY <2>1 DEF ApFound
      <3>2. CASE apPc'[v] /= apPc[v]
         BY <1>0, <2>1, <3>1, <3>2 DEF ApActive, ApWorker, ApTake, ApBegin, ApHandle, ApAsk, ApPark, ApMark, ApAnswer, ApFinish,
            ApRelease, ApCrash, ApGo
      <3> QED
         BY <3>1, <3>2
    <2>2. CASE apExec.status /= "COMPLETED"
      <3>1. ASSUME NEW w \in ApWorkers, ApWorker(w) \/ ApCrash(w) PROVE ApFinish(w) /\ apExec.status \in ApActive /\ apPc'[w] = "release"
         BY <1>4, <2>2, <3>1 DEF ApExecType, ApWorker, ApTake, ApBegin, ApLost, ApHandle, ApAsk, ApPark, ApMark, ApAnswer, ApFinish,
            ApRelease, ApCrash, ApGo, apRows
      <3>2. PICK w \in ApWorkers : ApFinish(w) /\ apExec.status \in ApActive /\ apPc'[w] = "release" /\ ApOthers(w)
         BY <1>4, <2>2, <3>1, ApOwnMoves DEF ApWakeExec, ApCancelExecution, ApRecoverRunning, ApRequeue, ApExecType
      <3>3. CASE v /= w
        <4>1. apPc'[v] = apPc[v] /\ apPc[w] /= "idle" /\ apExec.status /= "CANCELLED"
           BY <3>2, <3>3 DEF ApOthers, ApFinish, ApActive
        <4> QED
           BY <3>3, <4>1, ApAlone
      <3> QED
         BY <3>2, <3>3
    <2> QED
       BY <2>1, <2>2
  <1> QED
     BY <1>1, <1>2, <1>3, <1>4 DEF ApFound

(* The output of the step, and the end of the execution, have a decision.  *)
LEMMA ApOutputNext ==
  ASSUME ApTyped, ApOneRunner, ApFound, ApOutputIsDecision, [ApNext]_apVars
  PROVE  ApOutputIsDecision'
  <1> USE DEF ApTyped
  <1>1. ASSUME apStep'.status = "COMPLETED"
        PROVE  apRequest'.status \in ApSettled /\ apStep'.output = apRequest'.status
    <2>1. CASE \E w \in ApWorkers : ApAnswer(w)
       BY <2>1 DEF ApAnswer, ApFound, ApStepType
    <2>2. CASE ~\E w \in ApWorkers : ApAnswer(w)
      <3>1. ASSUME NEW w \in ApWorkers, ApWorker(w) \/ ApCrash(w) PROVE apStep' = apStep
         BY <1>1, <2>2, <3>1 DEF ApStepType, ApWorker, ApTake, ApBegin, ApLost, ApHandle, ApAsk, ApPark, ApMark, ApFinish, ApRelease,
            ApCrash, apRows
      <3>2. apStep' = apStep
         BY <1>1, <3>1, ApOwnMoves DEF ApStepType, ApCancelExecution, ApRecoverRunning, ApRequeue
      <3> QED
         BY <1>1, <3>2, ApRequestKept DEF ApOutputIsDecision
    <2> QED
       BY <2>1, <2>2
  <1>2. ASSUME apExec'.status = "COMPLETED" PROVE apStep'.status = "COMPLETED"
    <2>1. CASE apExec.status = "COMPLETED"
      <3>1. apStep.status = "COMPLETED"
         BY <2>1 DEF ApOutputIsDecision
      <3>2. ASSUME apStep' /= apStep PROVE FALSE
        <4>1. PICK w \in ApWorkers : apPc[w] \in {"handle", "park", "answer"}
           BY <3>1, <3>2, ApStepKept
        <4> QED
           BY <2>1, <4>1 DEF ApFound
      <3> QED
         BY <3>1, <3>2
    <2>2. CASE apExec.status /= "COMPLETED"
      <3>1. ASSUME NEW w \in ApWorkers, ApWorker(w) \/ ApCrash(w) PROVE ApFinish(w) /\ apExec.status \in ApActive /\ apStep' = apStep
         BY <1>2, <2>2, <3>1 DEF ApExecType, ApWorker, ApTake, ApBegin, ApLost, ApHandle, ApAsk, ApPark, ApMark, ApAnswer, ApFinish,
            ApRelease, ApCrash, apRows
      <3>2. PICK w \in ApWorkers : ApFinish(w) /\ apExec.status \in ApActive /\ apStep' = apStep
         BY <1>2, <2>2, <3>1, ApOwnMoves DEF ApWakeExec, ApCancelExecution, ApRecoverRunning, ApRequeue, ApExecType
      <3> QED
         BY <3>2 DEF ApFinish, ApFound, ApActive
    <2> QED
       BY <2>1, <2>2
  <1> QED
     BY <1>1, <1>2 DEF ApOutputIsDecision

(* An execution is parked with a request.                                  *)
LEMMA ApParkedNext ==
  ASSUME ApTyped, ApFound, ApParkedHasRequest, [ApNext]_apVars
  PROVE  ApParkedHasRequest'
  <1> USE DEF ApTyped
  <1>1. ASSUME apExec'.wait, ~apExec.wait PROVE apRequest'.status /= "NONE"
    <2>1. ASSUME NEW w \in ApWorkers, ApWorker(w) \/ ApCrash(w) PROVE apPc[w] = "mark"
       BY <1>1, <2>1 DEF ApExecType, ApWorker, ApTake, ApBegin, ApLost, ApHandle, ApAsk, ApPark, ApMark, ApAnswer, ApFinish,
          ApRelease, ApCrash, apRows
    <2>2. PICK w \in ApWorkers : apPc[w] = "mark"
       BY <1>1, <2>1, ApOwnMoves DEF ApWakeExec, ApCancelExecution, ApRecoverRunning, ApRequeue, ApExecType
    <2> QED
       BY <2>2, ApRequestKept DEF ApFound
  <1>2. ASSUME apExec.wait PROVE apRequest'.status /= "NONE"
     BY <1>2, ApRequestKept DEF ApParkedHasRequest
  <1> QED
     BY <1>1, <1>2 DEF ApParkedHasRequest

(* The queue takes ids of the five kinds.                                  *)
LEMMA ApQueueTyped ==
  ASSUME ApTyped, ApRest, [ApNext]_apVars
  PROVE  apJobs' \subseteq apKnown' /\ apKnown' \subseteq ApJobIds
  <1>0. apJobs \subseteq apKnown /\ apKnown \subseteq ApJobIds
     BY DEF ApRest
  <1>1. apRequest.version \in Nat /\ apExec.run \in Nat
     BY DEF ApTyped, ApRequestType, ApExecType
  <1>2. ASSUME NEW kind \in {"approval", "expired", "retry", "queued"}, NEW n \in Nat, ApAdd(kind, n)
        PROVE  apJobs' \subseteq apKnown' /\ apKnown' \subseteq ApJobIds
    <2>0. [kind |-> kind, n |-> n] \in ApJobIds
       BY DEF ApJobIds
    <2>1. PICK id : id = [kind |-> kind, n |-> n] /\ id \in ApJobIds
       BY <2>0
    <2>2. apJobs' \subseteq apJobs \union {id} /\ apKnown' = apKnown \union {id}
       BY <1>2, <2>1 DEF ApAdd
    <2> QED
       BY <1>0, <2>1, <2>2
  <1>3. \/ apJobs' \subseteq apJobs /\ apKnown' = apKnown
        \/ ApAdd("approval", apRequest.version) \/ ApAdd("expired", apExec.run)
        \/ ApAdd("retry", apExec.run) \/ ApAdd("queued", apExec.run)
    <2>1. ASSUME NEW w \in ApWorkers, ApTake(w) PROVE apJobs' \subseteq apJobs /\ apKnown' = apKnown
       BY <2>1 DEF ApTake
    <2>2. \/ UNCHANGED <<apJobs, apKnown>> \/ \E w \in ApWorkers : ApTake(w)
          \/ ApAdd("approval", apRequest.version) \/ ApAdd("expired", apExec.run)
          \/ ApAdd("retry", apExec.run) \/ ApAdd("queued", apExec.run)
       BY DEF ApNext, ApWorker, ApReconciler, ApBegin, ApHandle, ApAsk, ApPark, ApMark, ApAnswer, ApFinish, ApRelease,
          ApCrash, ApDecideRead, ApDecideCommit, ApDecideEnqueue, ApCancelExecution, ApCancelRequest, ApLapse, ApReconcilerDies,
          ApExpire, ApEnqueueExpired, ApStranded, ApResume, ApRecoverRunning, ApRequeue, apVars
    <2> QED
       BY <2>1, <2>2
  <1> QED
     BY <1>0, <1>1, <1>2, <1>3

LEMMA ApRestNext ==
  ASSUME ApTyped, ApRest, [ApNext]_apVars
  PROVE  ApRest'
  <1>1. apRequest'.version \in 0 .. 1 /\ (apRequest'.status \in {"NONE", "PENDING"} => apRequest'.version = 0)
    <2>1. apRequest \in ApRequestType /\ apRequest.version \in 0 .. 1
          /\ (apRequest.status \in {"NONE", "PENDING"} => apRequest.version = 0)
       BY DEF ApTyped, ApRest
    <2>2. CASE apRequest.status = "NONE" /\ apRequest' = [apRequest EXCEPT !.status = "PENDING"]
       BY <2>1, <2>2 DEF ApRequestType
    <2>3. ASSUME apRequest.status = "PENDING", NEW s \in ApSettled \union {"CANCELLED"}, NEW n \in {1, apRequest.version + 1},
                 apRequest' = [status |-> s, version |-> n]
          PROVE  apRequest'.version = 1 /\ apRequest'.status \notin {"NONE", "PENDING"}
       BY <2>1, <2>3 DEF ApSettled, ApDecisions
    <2> QED
       BY <2>1, <2>2, <2>3, ApRequestMoves
  <1>2. apLapsed' \in BOOLEAN
    <2>1. apLapsed' = apLapsed \/ apLapsed' = TRUE
       BY DEF ApNext, ApWorker, ApReconciler, ApTake, ApBegin, ApLost, ApHandle, ApAsk, ApPark, ApMark, ApAnswer, ApFinish,
          ApRelease, ApCrash, ApDecideRead, ApDecideCommit, ApDecideEnqueue, ApCancelExecution, ApCancelRequest, ApLapse,
          ApReconcilerDies, ApExpire, ApEnqueueExpired, ApStranded, ApResume, ApRecoverRunning, ApRequeue, apRows, apVars
    <2> QED
       BY <2>1 DEF ApRest
  <1>3. apDecide' \in [ApDeciders -> {"idle", "commit", "enqueue"}]
    <2>1. \/ apDecide' = apDecide
          \/ \E d \in ApDeciders, p \in {"idle", "commit", "enqueue"} : apDecide' = [apDecide EXCEPT ![d] = p]
       BY DEF ApNext, ApWorker, ApReconciler, ApTake, ApBegin, ApHandle, ApAsk, ApPark, ApMark, ApAnswer, ApFinish,
          ApRelease, ApCrash, ApDecideRead, ApDecideCommit, ApDecideEnqueue, ApCancelExecution, ApCancelRequest, ApLapse,
          ApReconcilerDies, ApExpire, ApEnqueueExpired, ApStranded, ApResume, ApRecoverRunning, ApRequeue, apVars
    <2> QED
       BY <2>1 DEF ApRest
  <1>4. apRec' \in {"idle", "enqueueExpired", "resume"} /\ apCancel' \in {"none", "descendants", "done"}
    <2>1. apRec' \in {apRec, "idle", "enqueueExpired", "resume"} /\ apCancel' \in {apCancel, "descendants", "done"}
       BY DEF ApNext, ApWorker, ApReconciler, ApTake, ApBegin, ApHandle, ApAsk, ApPark, ApMark, ApAnswer, ApFinish,
          ApRelease, ApCrash, ApDecideRead, ApDecideCommit, ApDecideEnqueue, ApCancelExecution, ApCancelRequest, ApLapse,
          ApReconcilerDies, ApExpire, ApEnqueueExpired, ApStranded, ApResume, ApRecoverRunning, ApRequeue, apVars
    <2> QED
       BY <2>1 DEF ApRest
  <1>5. apFaults' \in 0 .. ApMaxFaults
    <2>1. apFaults' = apFaults \/ (apFaults < ApMaxFaults /\ apFaults' = apFaults + 1)
       BY DEF ApNext, ApWorker, ApReconciler, ApTake, ApBegin, ApHandle, ApAsk, ApPark, ApMark, ApAnswer, ApFinish,
          ApRelease, ApCrash, ApDecideRead, ApDecideCommit, ApDecideEnqueue, ApCancelExecution, ApCancelRequest, ApLapse,
          ApReconcilerDies, ApExpire, ApEnqueueExpired, ApStranded, ApResume, ApRecoverRunning, ApRequeue, apVars
    <2> QED
       BY <2>1, ApConstants DEF ApRest
  <1> QED
     BY <1>1, <1>2, <1>3, <1>4, <1>5, ApQueueTyped DEF ApRest, ApJobIds

LEMMA ApprovalInit == ApInit => ApprovalInv
  <1> SUFFICES ASSUME ApInit PROVE ApprovalInv
     OBVIOUS
  <1>1. ApTyped
     BY DEF ApInit, ApTyped, ApExecType, ApStepType, ApRequestType, ApPlaces, ApActive
  <1>2. ApRest
    <2>0. 0 \in Nat
       OBVIOUS
    <2>1. [kind |-> "start", n |-> 0] \in ApJobIds
       BY <2>0 DEF ApJobIds
    <2>2. apJobs \subseteq apKnown /\ apKnown \subseteq ApJobIds
       BY <2>1 DEF ApInit
    <2>3. apRequest.version = 0 /\ apRequest.version \in 0 .. 1
       BY DEF ApInit
    <2>4. apFaults \in 0 .. ApMaxFaults
       BY ApConstants DEF ApInit
    <2>5. apDecide \in [ApDeciders -> {"idle", "commit", "enqueue"}]
       BY DEF ApInit
    <2>6. apLapsed \in BOOLEAN /\ apRec \in {"idle", "enqueueExpired", "resume"} /\ apCancel \in {"none", "descendants", "done"}
       BY DEF ApInit
    <2> QED
       BY <2>2, <2>3, <2>4, <2>5, <2>6, Zenon DEF ApRest
  <1> QED
     BY <1>1, <1>2 DEF ApInit, ApprovalInv, ApOneRunner, ApFound, ApOutputIsDecision, ApParkedHasRequest

LEMMA ApprovalNext == ApprovalInv /\ [ApNext]_apVars => ApprovalInv'
  BY ApTypedNext, ApRestNext, ApOneRunnerNext, ApFoundNext, ApOutputNext, ApParkedNext DEF ApprovalInv

(* For any number of workers, decisions, crashes and lost enqueues: the    *)
(* rows and the queue are well formed, with a version of at most 1; a step *)
(* passes its approval only with the outcome stored in the request, the    *)
(* execution completes only after it, an execution is parked only with a   *)
(* request, and a request that is settled, expired or cancelled never      *)
(* changes again (ApprovalsService.decide, ApprovalHandler, the            *)
(* reconciler's recoverApprovals and ExecutionsService.cancel).            *)
THEOREM ApprovalsAreDecidedOnce == ApSpec => []ApInv /\ [][ApDecidedOnce]_apVars
  <1>1. ApprovalInv => ApInv
    <2> SUFFICES ASSUME ApprovalInv PROVE ApInv
       OBVIOUS
    <2>1. ApTyped /\ ApRest
       BY DEF ApprovalInv
    <2>2. apRequest \in [status : ApSettled \union {"NONE", "PENDING", "CANCELLED"}, version : 0 .. 1]
       BY <2>1 DEF ApTyped, ApRest, ApRequestType
    <2>3. ApTypeOK
       BY <2>1, <2>2, Zenon DEF ApTyped, ApRest, ApTypeOK, ApExecType, ApStepType, ApPlaces
    <2> QED
       BY <2>3 DEF ApprovalInv, ApInv
  <1>2. ApprovalInv /\ [ApNext]_apVars => [ApDecidedOnce]_apVars
     BY ApRequestKept DEF ApprovalInv, ApDecidedOnce
  <1> QED
     BY <1>1, <1>2, ApprovalInit, ApprovalNext, PTL DEF ApSpec
=============================================================================
