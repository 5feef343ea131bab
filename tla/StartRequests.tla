--------------------------- MODULE StartRequests ----------------------------
(***************************************************************************)
(* Requests that start an execution by hand (ExecutionsService.createManual*)
(* and replay): concurrent and repeated calls with idempotency keys, a     *)
(* queue that may refuse the job, an API that may die in the middle, and   *)
(* clients that call again.  One workflow, and one failed execution that   *)
(* can be replayed, with its dead letter.                                  *)
(***************************************************************************)
EXTENDS Naturals, FiniteSets

CONSTANTS
  SrCallSets,  \* requests to explore together: for each client kind "MANUAL", "FULL_REPLAY" or "RETRY_FROM_FAILURE", key ("none": no key) and body
  SrMaxFaults  \* bound on crashes, refused jobs and changes of the workflow

ASSUME SrConstants == SrMaxFaults \in Nat /\ \A r \in SrCallSets : \A c \in DOMAIN r : DOMAIN r[c] = {"kind", "key", "body"}

VARIABLES
  srCalls,   \* the requests of this behaviour
  srActive,  \* the workflow is ACTIVE with an ACTIVE version
  srLetter,  \* the dead letter of the failed execution: 0 while open, else the execution that resolved it
  srKeys,    \* idempotency_keys: by scope and key the request hash, the response and the status
  srExecs,   \* executions created, in order
  srPc, srAnswer, srFaults

srVars == <<srCalls, srActive, srLetter, srKeys, srExecs, srPc, srAnswer, srFaults>>

SrClients == DOMAIN srCalls
SrIsReplay(c) == srCalls[c].kind /= "MANUAL"
SrHasKey(c) == srCalls[c].key /= "none"
SrScope(c) == <<srCalls[c].kind, srCalls[c].key>>
SrTaken(c) == SrHasKey(c) /\ SrScope(c) \in DOMAIN srKeys
SrIds == DOMAIN srExecs
SrNoAnswer == [code |-> "none", id |-> 0]

SrTypeOK ==
  /\ srActive \in BOOLEAN /\ srLetter \in Nat
  /\ \A k \in DOMAIN srKeys : srKeys[k].response \in SrIds /\ srKeys[k].status \in {"PROCESSING", "ENQUEUED", "FAILED"}
  /\ \A e \in SrIds : srExecs[e].by \in SrClients /\ srExecs[e].status \in {"QUEUED", "ENDED"}
  /\ srPc \in [SrClients -> {"read", "claim", "wait", "enqueue", "done", "lost"}]
  /\ \A c \in SrClients : srAnswer[c].code \in {"none", "rejected", "conflict", "accepted", "unavailable"} /\ srAnswer[c].id \in {0} \union SrIds
  /\ srFaults \in 0 .. SrMaxFaults

SrInit ==
  /\ srCalls \in SrCallSets
  /\ srActive = TRUE /\ srLetter = 0 /\ srKeys = <<>> /\ srExecs = <<>>
  /\ srPc = [c \in SrClients |-> "read"] /\ srAnswer = [c \in SrClients |-> SrNoAnswer] /\ srFaults = 0

SrGo(c, pc) == srPc' = [srPc EXCEPT ![c] = pc]
SrReply(c, code, id) == SrGo(c, "done") /\ srAnswer' = [srAnswer EXCEPT ![c] = [code |-> code, id |-> id]]
SrFault == srFaults < SrMaxFaults /\ srFaults' = srFaults + 1

\* What a key that is taken answers: a conflict for another body, else the
\* response stored with the execution.
SrAnswerFromKey(c) ==
  LET row == srKeys[SrScope(c)] IN
  IF row.body /= srCalls[c].body THEN SrReply(c, "conflict", 0) ELSE SrReply(c, "accepted", row.response)

\* createManual up to the transaction: a manual run needs an active version;
\* then the key is looked up.
SrReadManual(c) ==
  /\ srPc[c] = "read" /\ ~SrIsReplay(c)
  /\ IF ~srActive THEN SrReply(c, "rejected", 0)
     ELSE IF SrTaken(c) THEN SrAnswerFromKey(c)
     ELSE SrGo(c, "claim") /\ UNCHANGED srAnswer
  /\ UNCHANGED <<srCalls, srActive, srLetter, srKeys, srExecs, srFaults>>

\* replay up to the transaction: the version is the one of the source, which
\* has failed and can be replayed in both modes.
SrReadReplay(c) ==
  /\ srPc[c] = "read" /\ SrIsReplay(c)
  /\ IF SrTaken(c) THEN SrAnswerFromKey(c) ELSE SrGo(c, "claim") /\ UNCHANGED srAnswer
  /\ UNCHANGED <<srCalls, srActive, srLetter, srKeys, srExecs, srFaults>>

\* f with v at k.
SrPut(f, k, v) == [i \in DOMAIN f \union {k} |-> IF i = k THEN v ELSE f[i]]

\* a variant: the key is written without a unique constraint
SrCommitAgain(c, letter) ==
  LET id == Cardinality(SrIds) + 1 IN
  /\ srExecs' = SrPut(srExecs, id, [by |-> c, status |-> "QUEUED"])
  /\ srKeys' = IF SrHasKey(c)
               THEN SrPut(srKeys, SrScope(c), [body |-> srCalls[c].body, response |-> id, status |-> "PROCESSING"])
               ELSE srKeys
  /\ srLetter' = letter /\ SrGo(c, "enqueue")

\* One transaction: the key with its response, and the execution QUEUED.  A key
\* that is taken by now (P2002) rolls all of it back.
SrCommit(c, letter) ==
  LET id == Cardinality(SrIds) + 1 IN
  IF SrTaken(c)
  THEN SrGo(c, "wait") /\ UNCHANGED <<srLetter, srKeys, srExecs>>
  ELSE /\ srExecs' = SrPut(srExecs, id, [by |-> c, status |-> "QUEUED"])
       /\ srKeys' = IF SrHasKey(c)
                    THEN SrPut(srKeys, SrScope(c), [body |-> srCalls[c].body, response |-> id, status |-> "PROCESSING"])
                    ELSE srKeys
       /\ srLetter' = letter /\ SrGo(c, "enqueue")

\* createManualClaim.
SrClaimManual(c) ==
  /\ srPc[c] = "claim" /\ ~SrIsReplay(c) /\ SrCommit(c, srLetter)
  /\ UNCHANGED <<srCalls, srActive, srAnswer, srFaults>>

\* The transaction of replay, which also resolves the open dead letter of the source.
SrClaimReplay(c) ==
  /\ srPc[c] = "claim" /\ SrIsReplay(c)
  /\ SrCommit(c, IF srLetter = 0 THEN Cardinality(SrIds) + 1 ELSE srLetter)
  /\ UNCHANGED <<srCalls, srActive, srAnswer, srFaults>>

\* waitForIdempotentResponse: the response is there, it was committed with the key.
SrWait(c) ==
  /\ srPc[c] = "wait" /\ SrAnswerFromKey(c)
  /\ UNCHANGED <<srCalls, srActive, srLetter, srKeys, srExecs, srFaults>>

\* The execution of the call that is about to enqueue: the last one it created.
SrOwn(c) == CHOOSE e \in SrIds : srExecs[e].by = c /\ \A f \in SrIds : srExecs[f].by = c => f <= e
SrMark(c, status) == srKeys' = IF SrHasKey(c) THEN [srKeys EXCEPT ![SrScope(c)].status = status] ELSE srKeys

\* createManual: the job is added, then the key is marked.
SrEnqueueManual(c) ==
  /\ srPc[c] = "enqueue" /\ ~SrIsReplay(c) /\ SrMark(c, "ENQUEUED") /\ SrReply(c, "accepted", SrOwn(c))
  /\ UNCHANGED <<srCalls, srActive, srLetter, srExecs, srFaults>>

\* replay: the same, with a key only when the client sent one.
SrEnqueueReplay(c) ==
  /\ srPc[c] = "enqueue" /\ SrIsReplay(c) /\ SrMark(c, "ENQUEUED") /\ SrReply(c, "accepted", SrOwn(c))
  /\ UNCHANGED <<srCalls, srActive, srLetter, srExecs, srFaults>>

\* The queue refuses the job: 503, recoverable; the execution stays QUEUED.
SrEnqueueFails(c) ==
  /\ srPc[c] = "enqueue" /\ SrFault /\ SrReply(c, "unavailable", SrOwn(c))
  /\ IF SrIsReplay(c) THEN UNCHANGED srKeys ELSE SrMark(c, "FAILED")
  /\ UNCHANGED <<srCalls, srActive, srLetter, srExecs>>

SrCrash(c) ==
  /\ srPc[c] \in {"claim", "wait", "enqueue"} /\ SrFault /\ SrGo(c, "lost")
  /\ UNCHANGED <<srCalls, srActive, srLetter, srKeys, srExecs, srAnswer>>

\* A client without an answer, or told to, calls again.
SrAgain(c) ==
  /\ srPc[c] = "lost" \/ srAnswer[c].code = "unavailable"
  /\ SrGo(c, "read") /\ srAnswer' = [srAnswer EXCEPT ![c] = SrNoAnswer]
  /\ UNCHANGED <<srCalls, srActive, srLetter, srKeys, srExecs, srFaults>>

\* A worker runs an execution to its end, and the workflow is switched.
SrRun == \E e \in SrIds : srExecs[e].status = "QUEUED" /\ srExecs' = [srExecs EXCEPT ![e].status = "ENDED"]
         /\ UNCHANGED <<srCalls, srActive, srLetter, srKeys, srPc, srAnswer, srFaults>>
SrSwitch == SrFault /\ srActive' = ~srActive /\ UNCHANGED <<srCalls, srLetter, srKeys, srExecs, srPc, srAnswer>>

SrManual(c) == SrReadManual(c) \/ SrClaimManual(c) \/ SrEnqueueManual(c)
SrReplay(c) == SrReadReplay(c) \/ SrClaimReplay(c) \/ SrEnqueueReplay(c)
SrNext == \/ \E c \in SrClients : SrManual(c) \/ SrReplay(c) \/ SrWait(c) \/ SrEnqueueFails(c) \/ SrCrash(c) \/ SrAgain(c)
          \/ SrRun \/ SrSwitch
SrSpec == SrInit /\ [][SrNext]_srVars

-----------------------------------------------------------------------------
(* Properties. *)

\* One key never starts two executions: not for concurrent calls, not for calls
\* repeated after a crash or a refused job (66-99, 548-571).
SrOnePerKey ==
  \A e, f \in SrIds :
    (SrHasKey(srExecs[e].by) /\ SrHasKey(srExecs[f].by) /\ SrScope(srExecs[e].by) = SrScope(srExecs[f].by)) => e = f

\* Two clients that used one key and were both told of an execution were told
\* of the same one, and had asked for the same (70, 553, 764).
SrAnswersAgree ==
  \A c, d \in SrClients :
    (SrHasKey(c) /\ SrHasKey(d) /\ SrScope(c) = SrScope(d) /\ srAnswer[c].id /= 0 /\ srAnswer[d].id /= 0)
      => srAnswer[c].id = srAnswer[d].id /\ srCalls[c].body = srCalls[d].body

\* A dead letter is resolved only by a retry that exists, in the transaction that makes it (598-605).
SrLetterHasRetry == srLetter /= 0 => srLetter \in SrIds /\ SrIsReplay(srExecs[srLetter].by)

=============================================================================
