---------------------------- MODULE Connections -----------------------------
(***************************************************************************)
(* One connection of an organization (ConnectionsService): users who edit, *)
(* rotate, switch, test and delete it at the same time, an author whose    *)
(* workflow version refers to it, and a worker that resolves it for a step *)
(* (ConnectionResolver).  Every operation reads the row first and writes   *)
(* later; a transaction that revokes secrets sees those committed when its *)
(* statement starts (READ COMMITTED).                                      *)
(***************************************************************************)
EXTENDS Naturals, Sequences, FiniteSets

CONSTANTS
  CnRoles,     \* the role of each user: "OWNER", "ADMIN" or "EDITOR"
  CnMaxWrites  \* bound on the operations that write

ASSUME CnConstants == CnMaxWrites \in Nat /\ \A u \in DOMAIN CnRoles : CnRoles[u] \in {"OWNER", "ADMIN", "EDITOR"}

VARIABLES
  cnRow,     \* the connection: status, deletedAt set, a setting of the config, the secret its preview shows, the last test
  cnSecrets, \* the status of each of its secrets, in order of creation
  cnUsed,    \* a workflow version refers to the connection
  cnPc, cnOp,  \* where each user's operation is, and what it has read
  cnAuthor,  \* "idle", "checked" or "done": the author's createVersion
  cnWorker,  \* the worker's resolve: where it is, the secrets that were ACTIVE during it, the result
  cnRaced,   \* history: two operations on the row have overlapped
  cnWrites

cnVars == <<cnRow, cnSecrets, cnUsed, cnPc, cnOp, cnAuthor, cnWorker, cnRaced, cnWrites>>

CnUsers == DOMAIN CnRoles
CnOps == {"update", "rotate", "enable", "disable", "delete", "test"}
CnLive == {s \in DOMAIN cnSecrets : cnSecrets[s] = "ACTIVE"}
CnNoOp == [op |-> "none", setting |-> 0, preview |-> 0, seen |-> {}]

CnTypeOK ==
  /\ cnRow.status \in {"ACTIVE", "DISABLED", "DELETED"} /\ cnRow.deleted \in BOOLEAN /\ cnRow.setting \in 0 .. CnMaxWrites
  /\ cnRow.preview \in DOMAIN cnSecrets /\ cnRow.tested \in {"none", "SUCCESS", "FAILED"} /\ cnUsed \in BOOLEAN
  /\ cnPc \in [CnUsers -> {"idle", "revoke", "write"}] /\ cnAuthor \in {"idle", "checked", "done"}
  /\ \A u \in CnUsers : cnOp[u].op \in CnOps \union {"none"} /\ cnOp[u].seen \subseteq DOMAIN cnSecrets /\ (cnPc[u] = "idle") = (cnOp[u] = CnNoOp)
  /\ cnWorker.pc \in {"idle", "loaded", "done"} /\ cnWorker.live \subseteq DOMAIN cnSecrets /\ cnWrites \in 0 .. CnMaxWrites

\* create: the connection ACTIVE with one ACTIVE secret.
CnInit ==
  /\ cnRow = [status |-> "ACTIVE", deleted |-> FALSE, setting |-> 0, preview |-> 1, tested |-> "none"] /\ cnSecrets = <<"ACTIVE">>
  /\ cnUsed = FALSE /\ cnPc = [u \in CnUsers |-> "idle"] /\ cnOp = [u \in CnUsers |-> CnNoOp]
  /\ cnAuthor = "idle" /\ cnWorker = [pc |-> "idle", live |-> {}, result |-> "none", secret |-> 0] /\ cnRaced = FALSE /\ cnWrites = 0

\* assertCanManage, assertCanUse and the owner check of delete
CnMay(u, op) ==
  CASE op = "delete" -> CnRoles[u] = "OWNER"
    [] op = "test" -> CnRoles[u] \in {"OWNER", "ADMIN", "EDITOR"}
    [] OTHER -> CnRoles[u] \in {"OWNER", "ADMIN"}

\* What an operation asks of the row it has found: rotate and test an ACTIVE
\* connection, delete one that no version uses.
CnAllows(op) ==
  CASE op \in {"rotate", "test"} -> cnRow.status = "ACTIVE"
    [] op \in {"enable", "disable"} -> cnRow.status /= "DELETED"
    [] op = "delete" -> ~cnUsed
    [] OTHER -> TRUE

\* An operation up to its transaction: the role, the row (findConnection), the
\* config it will write back.
CnBegin(u, op) ==
  /\ cnPc[u] = "idle" /\ cnWrites < CnMaxWrites /\ CnMay(u, op) /\ ~cnRow.deleted /\ CnAllows(op)
  /\ cnPc' = [cnPc EXCEPT ![u] = IF op \in {"rotate", "delete"} THEN "revoke" ELSE "write"]
  /\ cnOp' = [cnOp EXCEPT ![u] = [op |-> op, setting |-> cnRow.setting, preview |-> cnRow.preview, seen |-> {}]]
  /\ cnWrites' = cnWrites + 1 /\ UNCHANGED <<cnRow, cnSecrets, cnUsed, cnAuthor, cnWorker, cnRaced>>

\* rotate and delete: the statement that revokes the ACTIVE secrets starts.
CnRevoke(u) ==
  /\ cnPc[u] = "revoke" /\ cnPc' = [cnPc EXCEPT ![u] = "write"] /\ cnOp' = [cnOp EXCEPT ![u].seen = CnLive]
  /\ UNCHANGED <<cnRow, cnSecrets, cnUsed, cnAuthor, cnWorker, cnRaced, cnWrites>>

CnRevoked(u) == [s \in DOMAIN cnSecrets |-> IF s \in cnOp[u].seen THEN "REVOKED" ELSE cnSecrets[s]]
\* A worker in the middle of a resolve sees the secrets of both sides of a commit.
CnSeen == cnWorker' = [cnWorker EXCEPT !.live = IF cnWorker.pc = "loaded" THEN @ \union {s \in DOMAIN cnSecrets' : cnSecrets'[s] = "ACTIVE"} ELSE @]
CnDone(u) ==
  /\ cnPc' = [cnPc EXCEPT ![u] = "idle"] /\ cnOp' = [cnOp EXCEPT ![u] = CnNoOp]
  /\ cnRaced' = (cnRaced \/ \E t \in CnUsers \ {u} : cnPc[t] /= "idle") /\ UNCHANGED <<cnUsed, cnAuthor, cnWrites>>

\* update: the config that was read with the setting changed, preview included.
CnUpdate(u) ==
  /\ cnPc[u] = "write" /\ cnOp[u].op = "update"
  /\ cnRow' = [cnRow EXCEPT !.setting = cnWrites, !.preview = cnOp[u].preview]
  /\ UNCHANGED <<cnSecrets, cnWorker>> /\ CnDone(u)

\* a variant: the new secret is added and the old one left
CnRotateAdds(u) ==
  /\ cnPc[u] = "write" /\ cnOp[u].op = "rotate"
  /\ cnSecrets' = Append(cnSecrets, "ACTIVE") /\ cnRow' = [cnRow EXCEPT !.setting = cnOp[u].setting, !.preview = Len(cnSecrets) + 1]
  /\ CnSeen /\ CnDone(u)
\* rotate: the ACTIVE secrets seen are revoked, a new one is ACTIVE, and the
\* config is written back with the new preview.  A secret that another
\* transaction made ACTIVE meanwhile violates secrets_one_active_per_connection
\* and undoes all of it.
CnRotate(u) ==
  /\ cnPc[u] = "write" /\ cnOp[u].op = "rotate"
  /\ IF CnLive \subseteq cnOp[u].seen
     THEN /\ cnSecrets' = Append(CnRevoked(u), "ACTIVE")
          /\ cnRow' = [cnRow EXCEPT !.setting = cnOp[u].setting, !.preview = Len(cnSecrets) + 1] /\ CnSeen
     ELSE UNCHANGED <<cnRow, cnSecrets, cnWorker>>
  /\ CnDone(u)

CnSetEnabled(u) ==
  /\ cnPc[u] = "write" /\ cnOp[u].op \in {"enable", "disable"}
  /\ cnRow' = [cnRow EXCEPT !.status = IF cnOp[u].op = "enable" THEN "ACTIVE" ELSE "DISABLED"]
  /\ UNCHANGED <<cnSecrets, cnWorker>> /\ CnDone(u)

\* delete: the secrets seen are revoked, the row keeps its references.
CnDelete(u) ==
  /\ cnPc[u] = "write" /\ cnOp[u].op = "delete"
  /\ cnSecrets' = CnRevoked(u) /\ cnRow' = [cnRow EXCEPT !.status = "DELETED", !.deleted = TRUE] /\ CnSeen /\ CnDone(u)

\* test with updateLastTest; the secret may have gone in between.
CnTest(u) ==
  /\ cnPc[u] = "write" /\ cnOp[u].op = "test"
  /\ \E outcome \in {"SUCCESS", "FAILED"} : (CnLive = {} => outcome = "FAILED") /\ cnRow' = [cnRow EXCEPT !.tested = outcome]
  /\ UNCHANGED <<cnSecrets, cnWorker>> /\ CnDone(u)

\* createVersion of an author: assertConnection, and later the insert.
CnReferenceCheck ==
  /\ cnAuthor = "idle" /\ ~cnRow.deleted /\ cnRow.status = "ACTIVE" /\ cnAuthor' = "checked"
  /\ UNCHANGED <<cnRow, cnSecrets, cnUsed, cnPc, cnOp, cnWorker, cnRaced, cnWrites>>
CnReference ==
  /\ cnAuthor = "checked" /\ cnAuthor' = "done" /\ cnUsed' = TRUE
  /\ UNCHANGED <<cnRow, cnSecrets, cnPc, cnOp, cnWorker, cnRaced, cnWrites>>

\* ConnectionResolver.load: the connection ...
CnLoad ==
  /\ cnWorker.pc = "idle"
  /\ cnWorker' = IF cnRow.deleted THEN [cnWorker EXCEPT !.pc = "done", !.result = "CONNECTION_NOT_FOUND"]
                 ELSE IF cnRow.status /= "ACTIVE" THEN [cnWorker EXCEPT !.pc = "done", !.result = "CONNECTION_REVOKED"]
                 ELSE [cnWorker EXCEPT !.pc = "loaded", !.live = CnLive]
  /\ UNCHANGED <<cnRow, cnSecrets, cnUsed, cnPc, cnOp, cnAuthor, cnRaced, cnWrites>>
\* ... and its ACTIVE secret.
CnLoadSecret ==
  /\ cnWorker.pc = "loaded"
  /\ IF CnLive = {} THEN cnWorker' = [cnWorker EXCEPT !.pc = "done", !.result = "INVALID_CONNECTION_CONFIG"]
     ELSE \E s \in CnLive : cnWorker' = [cnWorker EXCEPT !.pc = "done", !.result = "RESOLVED", !.secret = s]
  /\ UNCHANGED <<cnRow, cnSecrets, cnUsed, cnPc, cnOp, cnAuthor, cnRaced, cnWrites>>

CnNext ==
  \/ \E u \in CnUsers : \/ \E op \in CnOps : CnBegin(u, op)
                        \/ CnRevoke(u) \/ CnUpdate(u) \/ CnRotate(u) \/ CnSetEnabled(u) \/ CnDelete(u) \/ CnTest(u)
  \/ CnReferenceCheck \/ CnReference \/ CnLoad \/ CnLoadSecret
CnSpec == CnInit /\ [][CnNext]_cnVars

-----------------------------------------------------------------------------
(* Properties. *)

\* However rotations overlap, no two secrets are ACTIVE (150-163, the partial unique index).
CnOneActiveSecret == Cardinality(CnLive) <= 1

\* A step that resolves the connection while it is rotated gets a secret that
\* was ACTIVE during the call, and fails for want of one only if the connection
\* was deleted under it (connection-resolver.ts:88-96).
CnRotationIsSeamless ==
  /\ cnWorker.result = "RESOLVED" => cnWorker.secret \in cnWorker.live
  /\ cnWorker.result = "INVALID_CONNECTION_CONFIG" => cnRow.deleted

\* A deleted connection stays deleted, also for an operation that had read it before (250-255).
CnDeletedStays == cnRow.deleted => cnRow'.deleted

\* Unless two operations overlapped, the preview users see belongs to the secret
\* in use, and a deleted connection has none (150-168, 383-394).
CnPreviewIsCurrent == ~cnRaced => IF cnRow.deleted THEN CnLive = {} ELSE CnLive = {cnRow.preview}

=============================================================================
