------------------------ MODULE NotificationDelivery ------------------------
(***************************************************************************)
(* The delivery of one NotificationRequest: the job added when it is       *)
(* created, NotificationProcessor.deliver on several workers, and the      *)
(* NotificationReconcilerService that gives up leases and adds jobs again. *)
(* The provider may accept a message and the call still fail.              *)
(***************************************************************************)
EXTENDS Naturals, FiniteSets

CONSTANTS
  NtWorkers,
  NtMaxAttempts,  \* NOTIFICATION_MAX_ATTEMPTS, 5 in the code
  NtMaxFaults     \* bound on crashes and on leases that run out on a live worker

ASSUME NtConstants == NtMaxAttempts \in Nat \ {0} /\ NtMaxFaults \in Nat /\ IsFiniteSet(NtWorkers)

VARIABLES
  ntRow,      \* the request with its delivery row
  ntJobs,     \* the delivery jobs that wait in the queue
  ntPc,       \* where each worker is
  ntCalls,    \* calls of provider.send
  ntAccepted, \* messages the provider took
  ntLate,     \* a lease has run out on a live worker
  ntFaults

ntVars == <<ntRow, ntJobs, ntPc, ntCalls, ntAccepted, ntLate, ntFaults>>

NtNobody == "nobody"
ASSUME NtNobodyWorks == NtNobody \notin NtWorkers
NtOver == {"SENT", "DEAD_LETTER"}

NtTypeOK ==
  /\ ntRow \in [status : {"PENDING", "PROCESSING", "FAILED"} \union NtOver, owner : NtWorkers \union {NtNobody},
                leased : BOOLEAN, due : BOOLEAN, attempts : Nat]
  /\ ntRow.leased => ntRow.owner /= NtNobody
  /\ ntJobs \in 0 .. 2 /\ ntPc \in [NtWorkers -> {"idle", "prepare", "send", "sent", "failed", "rejected"}]
  /\ ntCalls \in Nat /\ ntAccepted \in 0 .. ntCalls /\ ntLate \in BOOLEAN /\ ntFaults \in 0 .. NtMaxFaults

\* createRequest has committed; the queue.add after it may have been lost.
NtInit ==
  /\ ntRow = [status |-> "PENDING", owner |-> NtNobody, leased |-> FALSE, due |-> TRUE, attempts |-> 0]
  /\ ntJobs \in 0 .. 1 /\ ntPc = [w \in NtWorkers |-> "idle"]
  /\ ntCalls = 0 /\ ntAccepted = 0 /\ ntLate = FALSE /\ ntFaults = 0

NtGo(w, pc) == ntPc' = [ntPc EXCEPT ![w] = pc]
NtFault == ntFaults < NtMaxFaults /\ ntFaults' = ntFaults + 1

NtClaimable == ntRow.status \in {"PENDING", "FAILED"} /\ ntRow.due /\ ~ntRow.leased
\* deliver: the claim is one conditional update; a job that finds nothing to
\* claim ends.
NtClaim(w) ==
  /\ ntPc[w] = "idle" /\ ntJobs > 0 /\ ntJobs' = ntJobs - 1
  /\ IF NtClaimable
     THEN NtGo(w, "prepare") /\ ntRow' = [ntRow EXCEPT !.status = "PROCESSING", !.owner = w, !.leased = TRUE]
     ELSE UNCHANGED <<ntRow, ntPc>>
  /\ UNCHANGED <<ntCalls, ntAccepted, ntLate, ntFaults>>

\* A recipient, template or connection that cannot work is a permanent error;
\* else the attempt is counted before the provider is called.
NtPrepare(w) ==
  /\ ntPc[w] = "prepare"
  /\ \/ NtGo(w, "rejected") /\ UNCHANGED ntRow
     \/ NtGo(w, "send") /\ ntRow' = [ntRow EXCEPT !.attempts = @ + 1]
  /\ UNCHANGED <<ntJobs, ntCalls, ntAccepted, ntLate, ntFaults>>

\* provider.send: taken, refused for good or for now, or taken and the answer lost.
NtSend(w) ==
  /\ ntPc[w] = "send" /\ ntCalls' = ntCalls + 1
  /\ \/ NtGo(w, "sent") /\ ntAccepted' = ntAccepted + 1
     \/ NtGo(w, "rejected") /\ UNCHANGED ntAccepted
     \/ NtGo(w, "failed") /\ ntAccepted' \in {ntAccepted, ntAccepted + 1}
  /\ UNCHANGED <<ntRow, ntJobs, ntLate, ntFaults>>

\* SENT, by id.
NtRecordSent(w) ==
  /\ ntPc[w] = "sent" /\ NtGo(w, "idle")
  /\ ntRow' = [ntRow EXCEPT !.status = "SENT", !.owner = NtNobody, !.leased = FALSE, !.due = TRUE]
  /\ UNCHANGED <<ntJobs, ntCalls, ntAccepted, ntLate, ntFaults>>

\* dead of fail: a permanent error or no attempt left.
NtDead(w) == ntPc[w] = "rejected" \/ ntRow.attempts >= NtMaxAttempts

\* fail: DEAD_LETTER, or FAILED with a back-off; by id.  A failure before the
\* first attempt counts as one.
NtFail(w) ==
  /\ ntPc[w] \in {"failed", "rejected"} /\ NtGo(w, "idle")
  /\ ntRow' = [status |-> IF NtDead(w) THEN "DEAD_LETTER" ELSE "FAILED", owner |-> NtNobody, leased |-> FALSE,
               due |-> NtDead(w), attempts |-> IF ntRow.attempts = 0 THEN 1 ELSE ntRow.attempts]
  /\ UNCHANGED <<ntJobs, ntCalls, ntAccepted, ntLate, ntFaults>>

NtCrash(w) ==
  /\ ntPc[w] /= "idle" /\ NtFault /\ NtGo(w, "idle")
  /\ UNCHANGED <<ntRow, ntJobs, ntCalls, ntAccepted, ntLate>>

-----------------------------------------------------------------------------
\* The lease passes: of its own when the worker has gone, as a fault when it is
\* only slow.
NtLeaseOver ==
  /\ ntRow.leased /\ ntRow' = [ntRow EXCEPT !.leased = FALSE]
  /\ IF ntPc[ntRow.owner] = "idle" THEN UNCHANGED <<ntFaults, ntLate>> ELSE NtFault /\ ntLate' = TRUE
  /\ UNCHANGED <<ntJobs, ntPc, ntCalls, ntAccepted>>

\* nextAttemptAt passes.
NtBackoffOver == ~ntRow.due /\ ntRow' = [ntRow EXCEPT !.due = TRUE] /\ UNCHANGED <<ntJobs, ntPc, ntCalls, ntAccepted, ntLate, ntFaults>>

\* reconcile: PROCESSING rows whose lease is over become FAILED and due.
NtGiveUp ==
  /\ ntRow.status = "PROCESSING" /\ ~ntRow.leased
  /\ ntRow' = [ntRow EXCEPT !.status = "FAILED", !.owner = NtNobody, !.due = TRUE]
  /\ UNCHANGED <<ntJobs, ntPc, ntCalls, ntAccepted, ntLate, ntFaults>>

\* reconcile: what is due gets a job, also beside one it has: the id changes
\* every 10 seconds.  Two jobs are enough for a claim that comes too late.
NtRequeue ==
  /\ ntRow.status \in {"PENDING", "FAILED"} /\ ntRow.due /\ ntJobs < 2 /\ ntJobs' = ntJobs + 1
  /\ UNCHANGED <<ntRow, ntPc, ntCalls, ntAccepted, ntLate, ntFaults>>

NtDeliver(w) == NtClaim(w) \/ NtPrepare(w) \/ NtSend(w) \/ NtRecordSent(w) \/ NtFail(w)
NtNext == \/ \E w \in NtWorkers : NtDeliver(w) \/ NtCrash(w)
          \/ NtLeaseOver \/ NtBackoffOver \/ NtGiveUp \/ NtRequeue

\* Workers take jobs and go on, the reconciler runs on a timer, time passes.
NtFairness ==
  /\ \A w \in NtWorkers : WF_ntVars(NtDeliver(w))
  /\ WF_ntVars(NtGiveUp) /\ WF_ntVars(NtRequeue) /\ WF_ntVars(NtBackoffOver)
  /\ WF_ntVars(ntRow.leased /\ ntPc[ntRow.owner] = "idle" /\ NtLeaseOver)
NtSpec == NtInit /\ [][NtNext]_ntVars /\ NtFairness

-----------------------------------------------------------------------------
(* Properties. *)

\* Crashes and slow workers apart, the provider is called at most
\* NOTIFICATION_MAX_ATTEMPTS times: every call is counted before it is made (60, 75).
NtCallsBounded == ntCalls <= NtMaxAttempts + ntFaults

\* What is recorded SENT was taken by the provider (61-64).
NtSentIsTrue == ntRow.status = "SENT" => ntAccepted > 0

\* A request that is over stays over, and is not sent again, as long as no
\* lease ran out under a live worker (51, 64, 78).
NtOverStays == ntRow.status \in NtOver /\ ~ntLate => ntRow'.status = ntRow.status /\ ntCalls' = ntCalls
=============================================================================
