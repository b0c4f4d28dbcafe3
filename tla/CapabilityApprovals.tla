------------------------ MODULE CapabilityApprovals ------------------------
(***************************************************************************)
(* CapabilityApprovalStore (yuanpu-runtime/src/capabilities/approval.ts):    *)
(* one-time permissions of the desktop user for one capability call each.   *)
(*                                                                         *)
(* Every operation runs alone, in #locked: it changes #records and then     *)
(* writes the document, and the write may fail after memory has changed.    *)
(* The argument "written" of an operation says whether it succeeded; an     *)
(* operation whose write fails throws.  Only executionFor and get look at   *)
(* memory outside the queue.                                                *)
(***************************************************************************)
CONSTANT Request          \* the ids of createId

VARIABLES
  approval,     \* #records: the status of each request, "absent" if unknown
  document,     \* the same in the file
  execution,    \* #pendingExecutions: requests whose call can still be made
  lapsed        \* requests whose expiresAt has passed

approvals == <<approval, document, execution, lapsed>>

Live  == {"pending", "approved"}
Final == {"denied", "consumed", "expired", "cancelled"}
ApprovalStatus == Live \cup Final \cup {"absent"}

ApprovalsTypeOK ==
  /\ approval \in [Request -> ApprovalStatus]
  /\ document \in [Request -> ApprovalStatus]
  /\ execution \subseteq Request /\ lapsed \subseteq Request

ApprovalsInit ==
  /\ approval = [r \in Request |-> "absent"] /\ document = approval
  /\ execution = {} /\ lapsed = {}

Persist(written) == document' = IF written THEN approval' ELSE document

(* The clock passes expiresAt.                                              *)
Lapses(r) ==
  /\ approval[r] \in Live /\ r \notin lapsed /\ lapsed' = lapsed \cup {r}
  /\ UNCHANGED <<approval, document, execution>>

(* #expireRecords.                                                          *)
Swept == [r \in Request |->
            IF approval[r] \in Live /\ r \in lapsed THEN "expired" ELSE approval[r]]

(* authorize without a request id.                                          *)
AsksApproval(r, written) ==
  /\ approval[r] = "absent" /\ r \notin lapsed
  /\ approval' = [approval EXCEPT ![r] = "pending"]
  /\ execution' = execution \cup {r}
  /\ Persist(written) /\ UNCHANGED lapsed

(* authorize with one: the approval is spent before the call is made.       *)
Consumes(r, written) ==
  /\ r \notin lapsed /\ approval[r] = "approved"
  /\ approval' = [approval EXCEPT ![r] = "consumed"]
  /\ execution' = execution \ {r}
  /\ Persist(written) /\ UNCHANGED lapsed

RefusesLapsed(r, written) ==
  /\ r \in lapsed
  /\ approval' = [approval EXCEPT ![r] = "expired"]
  /\ Persist(written) /\ UNCHANGED <<execution, lapsed>>

RefusesUse(r) == /\ r \notin lapsed /\ approval[r] # "approved"
                 /\ UNCHANGED approvals

ListsPending(written) ==
  /\ Swept # approval /\ approval' = Swept
  /\ Persist(written) /\ UNCHANGED <<execution, lapsed>>

DecidesAnything(r) == Swept[r] # "absent"                         \* mutant
Decidable(r) == Swept[r] = "pending"

Decides(r, decision, written) ==
  /\ Decidable(r)
  /\ approval' = [Swept EXCEPT ![r] = decision]
  /\ execution' = IF decision = "denied" THEN execution \ {r} ELSE execution
  /\ Persist(written) /\ UNCHANGED lapsed

RefusesDecision(r) ==
  /\ ~Decidable(r)
  /\ approval' = Swept /\ UNCHANGED <<document, execution, lapsed>>

(* cancelRun, for the requests R of the run.                                *)
CancelsRun(R, written) ==
  /\ approval' = [r \in Request |-> IF r \in R /\ approval[r] \in Live
                                    THEN "cancelled" ELSE approval[r]]
  /\ IF approval' = approval THEN UNCHANGED document ELSE Persist(written)
  /\ execution' = IF approval' = approval \/ written THEN execution \ R
                                                     ELSE execution
  /\ UNCHANGED lapsed

(* open: the calls died with the process, so nothing left live is honoured. *)
OnlyPendingDropped == {"pending"}                                 \* mutant
DroppedAtOpen == Live

Opens ==
  /\ approval' = [r \in Request |->
       IF document[r] \in DroppedAtOpen THEN "cancelled" ELSE document[r]]
  /\ document' = approval' /\ execution' = {} /\ UNCHANGED lapsed
=============================================================================
