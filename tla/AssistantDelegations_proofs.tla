--------------------- MODULE AssistantDelegations_proofs ---------------------
(***************************************************************************)
(* Theorems about AssistantDelegations, for any tasks, follow-ups, requests *)
(* and decision handlers, and any number of failed writes and restarts.     *)
(*                                                                         *)
(* Six invariants carry them.  EffectsInv is about the approval store: a    *)
(* call that was made is spent in memory and in the file.  JobsInv is about *)
(* the queue, the job and the run of a task: who still has something to     *)
(* write over its record.                                                   *)
(* RoutesInv pairs each handler of the route with the one operation it      *)
(* waits for; GrantsInv says which grant a record, a job and a run work     *)
(* under, and with it that the variables have their types; TurnsInv relates *)
(* the turn of a record to those of the run and of the adapter's file;      *)
(* RecordsInv says what is on record while a handler makes an effect.       *)
(***************************************************************************)
EXTENDS AssistantDelegations, TLAPS, FiniteSetTheorems

(* A call that was made was approved and is spent, in memory and in the     *)
(* file, and the requests of a cancelled run can no longer be approved.     *)
Unmade(r) == performed[r] = 0
Spent(r)  == performed[r] = 1 /\ approval[r] \in Final /\ document[r] \in Final
MadeOnce  == /\ DOMAIN approval = Request /\ DOMAIN document = Request
             /\ DOMAIN performed = Request /\ DOMAIN owner = Request
             /\ \A r \in Request : Unmade(r) \/ Spent(r)
Revoked   == /\ revoked \subseteq Request
             /\ \A r \in revoked : approval[r] \notin Live /\ owner[r] = "run"
EffectsInv == MadeOnce /\ Revoked

-----------------------------------------------------------------------------
(* What an operation of the store keeps: the requests have the statuses s   *)
(* in memory afterwards, and its write of the document may have failed.     *)
LEMMA Writing ==
  ASSUME MadeOnce, NEW written, Persist(written), DOMAIN approval' = Request,
         UNCHANGED performed, DOMAIN owner' = Request,
         \A r \in Request : approval[r] \in Final => approval'[r] \in Final
  PROVE  MadeOnce'
<1>1. DOMAIN document' = Request
  BY DEF Persist, MadeOnce
<1>2. \A r \in Request : Spent(r) => Spent(r)'
  BY DEF Persist, Spent
<1>. QED
  BY <1>1, <1>2 DEF MadeOnce, Unmade

(* The steps that leave the store alone.                                    *)
Elsewhere == UNCHANGED <<approvals, performed, owner, revoked>>

LEMMA ElsewhereKeeps ==
  ASSUME EffectsInv, Elsewhere
  PROVE  EffectsInv'
BY DEF EffectsInv, MadeOnce, Revoked, Unmade, Spent, Elsewhere, approvals

LEMMA AskingKeeps ==
  ASSUME EffectsInv, NEW r \in Request, NEW written, AsksApproval(r, written), NEW who,
         owner[r] = Nil, owner' = [owner EXCEPT ![r] = who], UNCHANGED <<performed, revoked>>
  PROVE  EffectsInv' /\ \A q \in Request : approval[q] \in Final => approval'[q] \notin Live
<1>1. DOMAIN approval' = Request /\ DOMAIN owner' = Request
  BY DEF EffectsInv, MadeOnce, AsksApproval
<1>2. \A q \in Request : approval[q] \in Final => approval'[q] \in Final
  BY DEF EffectsInv, MadeOnce, AsksApproval, Final
<1>3. MadeOnce'
  BY <1>1, <1>2, Writing DEF EffectsInv, AsksApproval
<1>4. r \notin revoked
  BY BoundsAssumption DEF EffectsInv, Revoked
<1>5. Revoked'
  BY <1>4 DEF EffectsInv, Revoked, MadeOnce, AsksApproval
<1>. QED
  BY <1>2, <1>3, <1>5 DEF EffectsInv, Final, Live

LEMMA DecidingKeeps ==
  ASSUME EffectsInv, NEW r, NEW decision, NEW written, Decides(r, decision, written),
         UNCHANGED <<performed, owner, revoked>>
  PROVE  EffectsInv' /\ \A q \in Request : approval[q] \in Final => approval'[q] \notin Live
<1>1. DOMAIN approval' = Request /\ DOMAIN owner' = Request
  BY DEF EffectsInv, MadeOnce, Decides, Swept
<1>2. \A q \in Request : approval[q] \notin Live => approval'[q] = approval[q]
  BY DEF EffectsInv, MadeOnce, Decides, Decidable, Swept, Live
<1>3. MadeOnce'
  BY <1>1, <1>2, Writing DEF EffectsInv, Decides, Final, Live
<1>4. Revoked'
  BY <1>2 DEF EffectsInv, Revoked
<1>. QED
  BY <1>2, <1>3, <1>4 DEF EffectsInv, Final, Live

LEMMA SweepingKeeps ==
  ASSUME EffectsInv, approval' = Swept, UNCHANGED <<performed, owner, revoked>>,
         (\E written : Persist(written)) \/ UNCHANGED document
  PROVE  EffectsInv' /\ \A q \in Request : approval[q] \in Final => approval'[q] \notin Live
<1>1. DOMAIN approval' = Request /\ DOMAIN owner' = Request
  BY DEF EffectsInv, MadeOnce, Swept
<1>2. \A q \in Request : approval[q] \notin Live => approval'[q] = approval[q]
  BY DEF EffectsInv, MadeOnce, Swept
<1>3. \E written : Persist(written)
  <2>1. UNCHANGED document => Persist(FALSE)
    BY DEF Persist
  <2>. QED
    BY <2>1
<1>4. MadeOnce'
  BY <1>1, <1>2, <1>3, Writing DEF EffectsInv, Final, Live
<1>5. Revoked'
  BY <1>2 DEF EffectsInv, Revoked
<1>. QED
  BY <1>2, <1>4, <1>5 DEF EffectsInv, Final, Live

(* The call is made only of an approved request, which is spent by then.    *)
LEMMA ExecutingKeeps ==
  ASSUME EffectsInv, NEW h \in Handler, Executes(h)
  PROVE  /\ EffectsInv'
         /\ \A q \in Request : /\ approval[q] \in Final => approval'[q] \notin Live
                               /\ q \in revoked => performed'[q] = performed[q]
<1>. DEFINE r == handler[h].id
<1>1. UNCHANGED <<owner, revoked>>
  BY DEF Executes, RouteOnly
<1>2. CASE Consumes(r, TRUE) /\ performed' = [performed EXCEPT ![r] = @ + 1]
  <2>1. /\ DOMAIN approval' = Request /\ document' = approval' /\ DOMAIN performed' = Request
        /\ \A q \in Request \ {r} : approval'[q] = approval[q] /\ performed'[q] = performed[q]
    BY <1>2 DEF Consumes, Persist, EffectsInv, MadeOnce
  <2>2. r \in Request => /\ approval[r] \notin Final /\ approval'[r] \in Final
                         /\ approval[r] \in Live /\ approval'[r] \notin Live
                         /\ performed[r] = 0 /\ performed'[r] = 1
    <3>1. r \in Request => approval[r] = "approved" /\ approval'[r] = "consumed"
      BY <1>2 DEF Consumes, EffectsInv, MadeOnce
    <3>2. r \in Request => performed[r] = 0
      BY <3>1 DEF EffectsInv, MadeOnce, Unmade, Spent, Final
    <3>3. r \in Request => performed'[r] = performed[r] + 1
      BY <1>2 DEF EffectsInv, MadeOnce
    <3>. QED
      BY <3>1, <3>2, <3>3 DEF Final, Live
  <2>3. \A q \in Request : Unmade(q)' \/ Spent(q)'
    <3>. TAKE q \in Request
    <3>1. CASE q = r
      BY <3>1, <2>1, <2>2 DEF Spent
    <3>2. CASE q # r
      BY <3>2, <2>1 DEF Spent, Unmade, EffectsInv, MadeOnce
    <3>. QED
      BY <3>1, <3>2
  <2>4. MadeOnce'
    BY <1>1, <2>1, <2>3 DEF EffectsInv, MadeOnce
  <2>5. r \notin revoked
    BY <2>2 DEF EffectsInv, Revoked
  <2>6. Revoked'
    BY <1>1, <2>1, <2>5 DEF EffectsInv, Revoked
  <2>. QED
    BY <2>1, <2>2, <2>4, <2>5, <2>6 DEF EffectsInv, Live, Final
<1>3. CASE \E written : Consumes(r, written) /\ UNCHANGED performed
  <2>1. PICK written : Consumes(r, written) /\ UNCHANGED performed
    BY <1>3
  <2>2. /\ DOMAIN approval' = Request /\ Persist(written)
        /\ \A q \in Request : approval'[q] = approval[q] \/ approval'[q] = "consumed"
    BY <2>1 DEF Consumes, EffectsInv, MadeOnce
  <2>3. MadeOnce'
    BY <1>1, <2>1, <2>2, Writing DEF EffectsInv, MadeOnce, Final
  <2>4. Revoked'
    BY <1>1, <2>2 DEF EffectsInv, Revoked, Live
  <2>. QED
    BY <2>1, <2>2, <2>3, <2>4 DEF EffectsInv, Live, Final
<1>4. CASE \E written : RefusesLapsed(r, written) /\ UNCHANGED performed
  <2>1. PICK written : RefusesLapsed(r, written) /\ UNCHANGED performed
    BY <1>4
  <2>2. /\ DOMAIN approval' = Request /\ Persist(written)
        /\ \A q \in Request : approval'[q] = approval[q] \/ approval'[q] = "expired"
    BY <2>1 DEF RefusesLapsed, EffectsInv, MadeOnce
  <2>3. MadeOnce'
    BY <1>1, <2>1, <2>2, Writing DEF EffectsInv, MadeOnce, Final
  <2>4. Revoked'
    BY <1>1, <2>2 DEF EffectsInv, Revoked, Live
  <2>. QED
    BY <2>1, <2>2, <2>3, <2>4 DEF EffectsInv, Live, Final
<1>5. CASE UNCHANGED <<approvals, performed>>
  <2>1. Elsewhere
    BY <1>1, <1>5 DEF Elsewhere
  <2>. QED
    BY <1>5, <2>1, ElsewhereKeeps DEF approvals, Final, Live
<1>. QED
  BY <1>2, <1>3, <1>4, <1>5 DEF Executes, RefusesUse

(* cancelRun returns only once none of the requests of the run is live.     *)
LEMMA CancellingKeeps ==
  ASSUME EffectsInv, NEW written, AgentRunCancelled(written)
  PROVE  EffectsInv' /\ \A q \in Request : approval[q] \in Final => approval'[q] \notin Live
<1>1. UNCHANGED <<owner, performed>> /\ revoked' \subseteq revoked \cup OfRun
  BY DEF AgentRunCancelled
<1>2. /\ DOMAIN approval' = Request
      /\ \A q \in Request : IF q \in OfRun /\ approval[q] \in Live
                            THEN approval'[q] = "cancelled" ELSE approval'[q] = approval[q]
  BY DEF AgentRunCancelled, CancelsRun
<1>3. Persist(written) \/ Persist(FALSE)
  BY DEF AgentRunCancelled, CancelsRun, Persist
<1>4. MadeOnce'
  <2>1. \A q \in Request : approval[q] \in Final => approval'[q] \in Final
    BY <1>2 DEF Final, Live
  <2>. QED
    BY <1>1, <1>2, <1>3, <2>1, Writing DEF EffectsInv, MadeOnce
<1>5. Revoked'
  BY <1>1, <1>2 DEF EffectsInv, Revoked, OfRun, Live
<1>. QED
  BY <1>2, <1>4, <1>5 DEF EffectsInv, Final, Live

(* What the next process reads was written by then, so a call that was made *)
(* is still spent, and what was still live is not.                          *)
LEMMA RestartKeeps ==
  ASSUME EffectsInv, Restart
  PROVE  EffectsInv' /\ \A q \in Request : approval'[q] \notin Live
<1>1. UNCHANGED <<owner, performed, revoked>>
  BY DEF Restart
<1>2. /\ DOMAIN approval' = Request /\ document' = approval'
      /\ \A q \in Request : IF document[q] \in Live THEN approval'[q] = "cancelled"
                                                    ELSE approval'[q] = document[q]
  BY DEF Restart, Opens, DroppedAtOpen
<1>3. MadeOnce'
  BY <1>1, <1>2 DEF EffectsInv, MadeOnce, Spent, Unmade, Final, Live
<1>4. \A q \in Request : approval'[q] \notin Live
  BY <1>2 DEF Live
<1>. QED
  BY <1>1, <1>3, <1>4 DEF EffectsInv, Revoked

-----------------------------------------------------------------------------
(* One step: the invariant is kept, no final request becomes live again,    *)
(* and no call of a cancelled run is made.                                  *)
Stays == \A r \in Request : /\ approval[r] \in Final => approval'[r] \notin Live
                            /\ r \in revoked => performed'[r] = performed[r]

LEMMA EffectsStep ==
  ASSUME EffectsInv, [Next]_vars
  PROVE  EffectsInv' /\ Stays
<1>1. CASE Elsewhere
  <2>1. UNCHANGED <<approval, performed>>
    BY <1>1 DEF Elsewhere, approvals
  <2>. QED
    BY <1>1, <2>1, ElsewhereKeeps DEF Stays, Final, Live
<1>2. ASSUME NEW t \in Task, RunAsks(t), ~Elsewhere PROVE EffectsInv' /\ Stays
  <2>1. UNCHANGED <<performed, revoked>>
    BY <1>2 DEF RunAsks, observed
  <2>2. PICK r \in Request, written \in BOOLEAN :
          owner[r] = Nil /\ owner' = [owner EXCEPT ![r] = t] /\ AsksApproval(r, written)
    BY <1>2, <2>1 DEF RunAsks, Elsewhere
  <2>. QED
    BY <2>1, <2>2, AskingKeeps DEF Stays
<1>3. ASSUME NEW r \in Request, NEW written \in BOOLEAN, AgentRunAsks(r, written)
      PROVE  EffectsInv' /\ Stays
  <2>1. /\ UNCHANGED <<performed, revoked>> /\ owner[r] = Nil
        /\ owner' = [owner EXCEPT ![r] = "run"] /\ AsksApproval(r, written)
    BY <1>3 DEF AgentRunAsks, observed
  <2>. QED
    BY <2>1, AskingKeeps DEF Stays
<1>4. ASSUME NEW written \in BOOLEAN, AgentRunCancelled(written)
      PROVE  EffectsInv' /\ Stays
  <2>1. UNCHANGED performed
    BY <1>4 DEF AgentRunCancelled
  <2>. QED
    BY <1>4, <2>1, CancellingKeeps DEF Stays
<1>5. ASSUME NEW written \in BOOLEAN, ListsRequests(written) PROVE EffectsInv' /\ Stays
  <2>1. /\ UNCHANGED <<performed, owner, revoked>>
        /\ approval' = Swept /\ Persist(written)
    BY <1>5 DEF ListsRequests, ListsPending, observed
  <2>. QED
    BY <2>1, SweepingKeeps DEF Stays
<1>6. ASSUME NEW h \in Handler, Approves(h) PROVE EffectsInv' /\ Stays
  <2>1. UNCHANGED <<performed, owner, revoked>>
    BY <1>6 DEF Approves, RouteOnly
  <2>2. CASE \E id, decision, written : Decides(id, decision, written)
    BY <2>1, <2>2, DecidingKeeps DEF Stays
  <2>3. CASE \E id : RefusesDecision(id)
    <3>1. approval' = Swept /\ UNCHANGED document
      BY <2>3 DEF RefusesDecision
    <3>. QED
      BY <2>1, <3>1, SweepingKeeps DEF Stays
  <2>. QED
    BY <1>6, <2>2, <2>3 DEF Approves
<1>7. ASSUME NEW h \in Handler, Executes(h) PROVE EffectsInv' /\ Stays
  BY <1>7, ExecutingKeeps DEF Stays
<1>8. CASE Restart
  <2>1. UNCHANGED performed
    BY <1>8 DEF Restart
  <2>. QED
    BY <1>8, <2>1, RestartKeeps DEF Stays
<1>9. ASSUME NEW r \in Request, TimePasses(r) PROVE EffectsInv' /\ Stays
  <2>1. UNCHANGED <<approval, document, performed, owner, revoked>>
    BY <1>9 DEF TimePasses, Lapses, observed
  <2>. QED
    BY <2>1 DEF EffectsInv, MadeOnce, Revoked, Unmade, Spent, Stays, Final, Live
<1>10. ASSUME NEW t \in Task,
              \/ CallsAny(t) \/ Operates(t) \/ DeadlinePasses(t) \/ TimesOut(t)
              \/ ListsApprovals(t)
       PROVE  Elsewhere
  <2>1. CASE CallsAny(t) \/ DeadlinePasses(t) \/ TimesOut(t) \/ ListsApprovals(t)
    BY <2>1 DEF CallsAny, Calls, DeadlinePasses, TimesOut, ListsApprovals, Elsewhere, observed
  <2>2. CASE Start(t) \/ Follow(t) \/ Decide(t) \/ Running(t) \/ End(t) \/ Cancel(t)
    BY <2>2 DEF Start, Follow, Decide, Running, End, Cancel, Elsewhere, observed
  <2>3. CASE Status(t) \/ Expire(t) \/ Look(t) \/ Begin(t) \/ Settle(t) \/ OperationFails(t)
    BY <2>3 DEF Status, Resolves, Expire, Look, Begin, Settle, OperationFails, Elsewhere,
                observed
  <2>. QED
    BY <1>10, <2>1, <2>2, <2>3 DEF Operates
<1>11. ASSUME NEW t \in Task, Runs(t), ~RunAsks(t) PROVE Elsewhere
  BY <1>11 DEF Runs, RunThrows, RunOpens, RunPrompts, RunVerifies, RunAnswers, RunCloses,
               Elsewhere, observed
<1>12. ASSUME NEW h \in Handler, NEW id, NEW d, Receives(h, id, d) \/ CallEnds(h)
       PROVE  Elsewhere
  BY <1>12 DEF Receives, CallEnds, RouteOnly, Elsewhere, observed
<1>13. CASE Close \/ UNCHANGED vars
  BY <1>1, <1>13 DEF Close, vars, Elsewhere, observed
<1>14. CASE \E t \in Task : \/ CallsAny(t) \/ Operates(t) \/ Runs(t)
                            \/ DeadlinePasses(t) \/ TimesOut(t) \/ ListsApprovals(t)
  BY <1>1, <1>2, <1>10, <1>11, <1>14
<1>15. CASE \E h \in Handler, id \in Id, d \in {"approved", "denied"} : Receives(h, id, d)
  BY <1>1, <1>12, <1>15
<1>16. CASE \E h \in Handler : Routes(h)
  BY <1>1, <1>6, <1>7, <1>12, <1>16 DEF Routes
<1>. QED
  BY <1>3, <1>4, <1>5, <1>8, <1>9, <1>13, <1>14, <1>15, <1>16 DEF Next

LEMMA EffectsHold == Spec => []EffectsInv
<1>1. Init => EffectsInv
  BY DEF Init, ApprovalsInit, EffectsInv, MadeOnce, Revoked, Unmade
<1>2. EffectsInv /\ [Next]_vars => EffectsInv'
  BY EffectsStep
<1>. QED
  BY <1>1, <1>2, PTL DEF Spec

(* The call of a request is made at most once, however often it is decided, *)
(* whichever write of the approval document fails and wherever the process  *)
(* dies: by the time the call is made its approval is spent, in memory and  *)
(* in the file the next process reads.                                      *)
THEOREM EffectsAreMadeOnce == Spec => []EffectAtMostOnce
<1>1. ASSUME EffectsInv PROVE EffectAtMostOnce
  <2>. SUFFICES ASSUME NEW r \in Request PROVE performed[r] <= 1
    BY DEF EffectAtMostOnce
  <2>1. performed[r] = 0 \/ performed[r] = 1
    BY <1>1 DEF EffectsInv, MadeOnce, Unmade, Spent
  <2>2. CASE performed[r] = 0
    BY <2>2
  <2>3. CASE performed[r] = 1
    BY <2>3
  <2>. QED
    BY <2>1, <2>2, <2>3
<1>. QED
  BY <1>1, EffectsHold, PTL

(* A request that was refused, spent, cancelled or left to expire can never *)
(* be used again, and once cancelRun has returned no call of that run is    *)
(* made.                                                                    *)
THEOREM FinalIsForGood == Spec => FinalStaysFinal
<1>1. EffectsInv /\ [Next]_vars => [Stays]_vars
  BY EffectsStep
<1>. QED
  BY <1>1, EffectsHold, PTL DEF Spec, FinalStaysFinal, Stays

-----------------------------------------------------------------------------
(* The job of a task has one operation in the queue at most: the write of   *)
(* "running" while it is queued, the end once it settles.                   *)
JobOps == {"running", "end"}
IsQueue(q) == \E S : q \in Seq(S)
NoneOf(q)  == \A i \in DOMAIN q : q[i].op \notin JobOps
Only(q, o) == /\ \A i \in DOMAIN q : q[i].op \in JobOps => q[i].op = o
              /\ \A i, k \in DOMAIN q : q[i].op \in JobOps /\ q[k].op \in JobOps => i = k

(* What joining and leaving a queue keep of that.                           *)
LEMMA QueueOps ==
  ASSUME NEW q, IsQueue(q)
  PROVE  /\ \A x : /\ IsQueue(Append(q, x))
                   /\ x.op \notin JobOps /\ NoneOf(q) => NoneOf(Append(q, x))
                   /\ \A o : x.op \notin JobOps /\ Only(q, o) => Only(Append(q, x), o)
                   /\ NoneOf(q) => Only(Append(q, x), x.op)
         /\ q # <<>> => /\ IsQueue(Tail(q))
                        /\ NoneOf(q) => NoneOf(Tail(q)) /\ Head(q).op \notin JobOps
                        /\ \A o : Only(q, o) =>
                             /\ Only(Tail(q), o)
                             /\ Head(q).op \in JobOps => Head(q).op = o /\ NoneOf(Tail(q))
<1>1. PICK S : q \in Seq(S)
  BY DEF IsQueue
<1>2. ASSUME NEW x
      PROVE  /\ IsQueue(Append(q, x)) /\ DOMAIN Append(q, x) = 1..(Len(q) + 1)
             /\ \A i \in 1..Len(q) : Append(q, x)[i] = q[i]
             /\ Append(q, x)[Len(q) + 1] = x
  <2>1. q \in Seq(S \cup {x}) /\ x \in S \cup {x}
    BY <1>1
  <2>. HIDE <1>1
  <2>2. Append(q, x) \in Seq(S \cup {x}) /\ Len(Append(q, x)) = Len(q) + 1
    BY <2>1
  <2>. QED
    BY <2>1, <2>2 DEF IsQueue
<1>3. DOMAIN q = 1..Len(q) /\ Len(q) \in Nat
  BY <1>1
<1>4. ASSUME NEW x
      PROVE  /\ x.op \notin JobOps /\ NoneOf(q) => NoneOf(Append(q, x))
             /\ \A o : x.op \notin JobOps /\ Only(q, o) => Only(Append(q, x), o)
             /\ NoneOf(q) => Only(Append(q, x), x.op)
  <2>1. \A i \in DOMAIN Append(q, x) : (i \in DOMAIN q /\ Append(q, x)[i] = q[i])
                                       \/ (i = Len(q) + 1 /\ Append(q, x)[i] = x)
    BY <1>2, <1>3
  <2>. QED
    BY <2>1, Zenon DEF NoneOf, Only
<1>5. ASSUME q # <<>>
      PROVE  /\ IsQueue(Tail(q)) /\ Head(q) = q[1] /\ 1 \in DOMAIN q
             /\ \A i \in DOMAIN Tail(q) : i + 1 \in DOMAIN q /\ Tail(q)[i] = q[i + 1] /\ i + 1 # 1
             /\ \A i, k \in DOMAIN Tail(q) : i + 1 = k + 1 => i = k
  <2>1. Tail(q) \in Seq(S) /\ Len(Tail(q)) = Len(q) - 1 /\ Len(q) > 0
    BY <1>1, <1>5
  <2>. QED
    BY <1>1, <1>3, <1>5, <2>1 DEF IsQueue
<1>6. ASSUME q # <<>>
      PROVE  /\ NoneOf(q) => NoneOf(Tail(q)) /\ Head(q).op \notin JobOps
             /\ \A o : Only(q, o) =>
                  /\ Only(Tail(q), o)
                  /\ Head(q).op \in JobOps => Head(q).op = o /\ NoneOf(Tail(q))
  BY <1>5, <1>6 DEF NoneOf, Only
<1>. QED
  BY <1>2, <1>4, <1>5, <1>6

(* A task has a job while its record is accepted, running or cancelled, and *)
(* no effect of it is then in flight; only a task with a grant has one.     *)
InProgress == {"accepted", "running", "cancelled"}
GoodRecord(l) == DOMAIN l = DOMAIN NoRecord /\ (l.effect # Nil => l.grant # Nil)
GoodJob(l, j) ==
  /\ DOMAIN j = DOMAIN NoJob /\ DOMAIN j.rec = DOMAIN NoRecord
  /\ j.at \in {"none", "queued", "racing", "settling"}
  /\ j.at # "none" => l.status \in InProgress /\ l.effect = Nil /\ j.rec.effect = Nil
GoodRun(j, n) == DOMAIN n = DOMAIN NoRun /\ (n.at = "authorizing" => j.at = "racing")
GoodQueue(j, q) ==
  /\ IsQueue(q)
  /\ j.at \in {"none", "racing"} => NoneOf(q)
  /\ j.at = "queued" => Only(q, "running")
  /\ j.at = "settling" => Only(q, "end")
Good(l, j, n, q) == GoodRecord(l) /\ GoodJob(l, j) /\ GoodRun(j, n) /\ GoodQueue(j, q)

OnTasks == /\ DOMAIN ledger = Task /\ DOMAIN job = Task
           /\ DOMAIN run = Task /\ DOMAIN queue = Task
GoodTask(t) == Good(ledger[t], job[t], run[t], queue[t])
JobsInv == OnTasks /\ \A t \in Task : GoodTask(t)

LEMMA GoodQueues ==
  ASSUME NEW j, NEW q, GoodQueue(j, q)
  PROVE  /\ q # <<>> => GoodQueue(j, Tail(q))
         /\ \A x : x.op \notin JobOps => GoodQueue(j, Append(q, x))
         /\ \A x : x.op \notin JobOps /\ q # <<>> => GoodQueue(j, Append(Tail(q), x))
<1>1. ASSUME NEW p, GoodQueue(j, p), NEW x, x.op \notin JobOps
      PROVE  GoodQueue(j, Append(p, x))
  BY <1>1, QueueOps DEF GoodQueue
<1>2. q # <<>> => GoodQueue(j, Tail(q))
  BY QueueOps DEF GoodQueue
<1>. QED
  BY <1>1, <1>2

(* A step of one task.                                                      *)
OnlyTask(t) ==
  /\ OnTasks'
  /\ \A u \in Task \ {t} : /\ ledger'[u] = ledger[u] /\ job'[u] = job[u]
                           /\ run'[u] = run[u] /\ queue'[u] = queue[u]

LEMMA OneTask ==
  ASSUME JobsInv, NEW t \in Task, OnlyTask(t), GoodTask(t)'
  PROVE  JobsInv'
BY DEF JobsInv, GoodTask, OnlyTask

(* A caller that joins the queue.                                           *)
LEMMA JoinKeeps ==
  ASSUME JobsInv, NEW t \in Task, NEW x, x.op \notin JobOps, Joins(t, x),
         UNCHANGED <<ledger, job, run>>
  PROVE  JobsInv'
<1>1. OnlyTask(t) /\ queue'[t] = Append(queue[t], x)
  BY DEF JobsInv, OnTasks, OnlyTask, Joins
<1>2. GoodTask(t)'
  BY <1>1, GoodQueues DEF JobsInv, GoodTask, Good
<1>. QED
  BY <1>1, <1>2, OneTask

LEMMA NothingKeeps ==
  ASSUME JobsInv, UNCHANGED <<ledger, job, run, queue>>
  PROVE  JobsInv'
BY DEF JobsInv, OnTasks, GoodTask

(* An abort ends a race and leaves what is queued or settling alone.        *)
LEMMA AbortKeeps ==
  ASSUME NEW t \in Task, GoodTask(t), NEW q, GoodQueue(job[t], q)
  PROVE  /\ GoodJob(ledger[t], JobAborted(t))
         /\ JobAborted(t).at = "none" => job[t].at = "none"
         /\ JobAborted(t).rec = job[t].rec
         /\ GoodRun(JobAborted(t), RunAborted(t))
         /\ GoodQueue(JobAborted(t), QueueAborted(t, q))
<1>1. CASE Racing(t)
  <2>1. /\ JobAborted(t) = [job[t] EXCEPT !.aborted = TRUE, !.at = "settling",
                                          !.result = Plain("unknown")]
        /\ job[t].at = "racing"
    BY <1>1 DEF Racing, JobAborted
  <2>2. /\ DOMAIN JobAborted(t) = DOMAIN job[t] /\ JobAborted(t).at = "settling"
        /\ JobAborted(t).rec = job[t].rec
    BY <2>1 DEF GoodTask, Good, GoodJob, NoJob
  <2>3. GoodJob(ledger[t], JobAborted(t))
    BY <2>1, <2>2 DEF GoodTask, Good, GoodJob
  <2>4. GoodRun(JobAborted(t), RunAborted(t))
    BY <1>1 DEF RunAborted, GoodTask, Good, GoodRun, NoRun
  <2>5. GoodQueue(JobAborted(t), QueueAborted(t, q))
    BY <1>1, <2>1, <2>2, QueueOps DEF QueueAborted, GoodQueue, Op
  <2>. QED
    BY <2>2, <2>3, <2>4, <2>5
<1>2. CASE ~Racing(t)
  <2>1. /\ JobAborted(t).at = job[t].at /\ DOMAIN JobAborted(t) = DOMAIN job[t]
        /\ JobAborted(t).rec = job[t].rec
    BY <1>2 DEF Racing, JobAborted, GoodTask, Good, GoodJob, NoJob
  <2>2. RunAborted(t) = run[t] /\ QueueAborted(t, q) = q
    BY <1>2 DEF RunAborted, QueueAborted
  <2>. QED
    BY <2>1, <2>2 DEF GoodTask, Good, GoodJob, GoodRun, GoodQueue
<1>. QED
  BY <1>1, <1>2

(* The operation of the job joins a queue that has none.                    *)
LEMMA JobJoins ==
  ASSUME NEW q, IsQueue(q), NoneOf(q), NEW o
  PROVE  IsQueue(Append(q, Op(o, Nil))) /\ Only(Append(q, Op(o, Nil)), o)
<1>1. Op(o, Nil).op = o
  BY DEF Op
<1>. QED
  BY <1>1, QueueOps

(* A submission, which may have to wait for the grant of the task.          *)
LEMMA SubmitKeeps ==
  ASSUME JobsInv, NEW t \in Task, NEW r, job[t].at = "none", queue[t] # <<>>,
         GoodRecord(r), r.status = "accepted", r.effect = Nil, Submits(t, r), UNCHANGED run
  PROVE  JobsInv'
<1>1. OnlyTask(t)
  BY DEF JobsInv, OnTasks, OnlyTask, Submits, Dispatches, Leaves, LeavesThen
<1>2. /\ NoneOf(queue[t]) /\ NoneOf(Tail(queue[t])) /\ IsQueue(Tail(queue[t]))
      /\ GoodTask(t) /\ run[t].at # "authorizing"
  BY QueueOps DEF JobsInv, GoodTask, Good, GoodQueue, GoodRun
<1>3. CASE r.needs
  <2>1. /\ ledger'[t] = [r EXCEPT !.status = "waiting_approval", !.asks = <<t, TurnOf(r)>>]
        /\ job'[t] = job[t] /\ queue'[t] = Tail(queue[t])
    BY <1>3 DEF JobsInv, OnTasks, Submits, Leaves
  <2>2. GoodRecord(ledger'[t])
    BY <2>1 DEF GoodRecord, NoRecord
  <2>. QED
    BY <1>1, <1>2, <2>1, <2>2, OneTask DEF GoodTask, Good, GoodJob, GoodQueue
<1>4. CASE ~r.needs
  <2>1. /\ ledger'[t] = r /\ queue'[t] = Append(Tail(queue[t]), Op("running", Nil))
        /\ job'[t] = [at |-> "queued", aborted |-> FALSE, rec |-> r, result |-> NoResult]
    BY <1>4 DEF JobsInv, OnTasks, Submits, Dispatches, LeavesThen
  <2>2. GoodJob(ledger'[t], job'[t])
    BY <2>1 DEF GoodJob, GoodRecord, NoJob, InProgress
  <2>3. GoodQueue(job'[t], queue'[t])
    BY <1>2, <2>1, JobJoins DEF GoodQueue
  <2>4. GoodRun(job'[t], run'[t])
    BY <1>2 DEF GoodTask, Good, GoodRun
  <2>. QED
    BY <1>1, <2>1, <2>2, <2>3, <2>4, OneTask DEF GoodTask, Good
<1>. QED
  BY <1>3, <1>4

(* An operation that is not of the job, and leaves the job and its run.     *)
LEMMA RecordKeeps ==
  ASSUME JobsInv, NEW t \in Task, OnlyTask(t), queue[t] # <<>>,
         UNCHANGED <<job, run>>, GoodRecord(ledger'[t]),
         ledger'[t] = ledger[t] \/ job[t].at = "none",
         \/ queue'[t] = Tail(queue[t])
         \/ \E x : x.op \notin JobOps /\ queue'[t] = Append(Tail(queue[t]), x)
  PROVE  JobsInv'
<1>1. GoodTask(t)
  BY DEF JobsInv
<1>2. GoodQueue(job[t], queue'[t])
  BY <1>1, GoodQueues DEF GoodTask, Good
<1>3. GoodJob(ledger'[t], job[t])
  BY <1>1 DEF GoodTask, Good, GoodJob
<1>. QED
  BY <1>1, <1>2, <1>3, OneTask DEF GoodTask, Good

(* Every operation, at the head of its queue.                               *)
LEMMA OperationKeeps ==
  ASSUME JobsInv, NEW t \in Task, Operates(t)
  PROVE  JobsInv'
<1>1. GoodTask(t) /\ OnTasks
  BY DEF JobsInv
<1>2. ASSUME ledger[t].status \notin InProgress PROVE job[t].at = "none"
  BY <1>1, <1>2 DEF GoodTask, Good, GoodJob
<1>3. CASE Start(t)
  <2>1. CASE Known(t)
    <3>1. UNCHANGED <<ledger, job, run>> /\ Leaves(t) /\ queue[t] # <<>>
      BY <1>3, <2>1 DEF Start, At
    <3>2. OnlyTask(t) /\ queue'[t] = Tail(queue[t])
      BY <1>1, <3>1 DEF OnlyTask, OnTasks, Leaves
    <3>. QED
      BY <1>1, <3>1, <3>2, RecordKeeps DEF GoodTask, Good
  <2>2. CASE ~Known(t)
    <3>1. PICK needs \in BOOLEAN :
            Submits(t, [NoRecord EXCEPT !.status = "accepted", !.needs = needs])
      BY <1>3, <2>2 DEF Start
    <3>2. UNCHANGED run /\ queue[t] # <<>> /\ job[t].at = "none"
      BY <1>2, <1>3, <2>2 DEF Start, At, Known, InProgress
    <3>. DEFINE r == [NoRecord EXCEPT !.status = "accepted", !.needs = needs]
    <3>3. GoodRecord(r) /\ r.status = "accepted" /\ r.effect = Nil
      BY DEF GoodRecord, NoRecord
    <3>. QED
      BY <3>1, <3>2, <3>3, SubmitKeeps
  <2>. QED
    BY <2>1, <2>2
<1>4. CASE Follow(t)
  <2>1. UNCHANGED run /\ queue[t] # <<>>
    BY <1>4 DEF Follow, At
  <2>2. CASE CanFollow(t)
    <3>. DEFINE r == [ledger[t] EXCEPT !.status = "accepted", !.asks = Nil,
                        !.grant = Nil, !.effect = Nil, !.seen = @ \cup {By(t)}]
    <3>1. Submits(t, r) /\ job[t].at = "none"
      BY <1>2, <1>4, <2>2 DEF Follow, CanFollow, InProgress
    <3>2. GoodRecord(r) /\ r.status = "accepted" /\ r.effect = Nil
      BY <1>1 DEF GoodTask, Good, GoodRecord, NoRecord
    <3>. QED
      BY <2>1, <3>1, <3>2, SubmitKeeps
  <2>3. CASE ~CanFollow(t)
    <3>1. UNCHANGED <<ledger, job>> /\ Leaves(t)
      BY <1>4, <2>3 DEF Follow
    <3>2. OnlyTask(t) /\ queue'[t] = Tail(queue[t])
      BY <1>1, <2>1, <3>1 DEF OnlyTask, OnTasks, Leaves
    <3>. QED
      BY <1>1, <2>1, <3>1, <3>2, RecordKeeps DEF GoodTask, Good
  <2>. QED
    BY <2>2, <2>3
<1>5. CASE Decide(t)
  <2>. DEFINE d == handler[By(t)]
              r == [ledger[t] EXCEPT !.status = "accepted", !.asks = Nil, !.grant = d.id]
              Decided == WaitsFor(t, d.id) /\ ledger[t].grant = Nil /\ t \notin overdue
  <2>1. UNCHANGED run /\ queue[t] # <<>>
    BY <1>5 DEF Decide, At
  <2>2. CASE Decided /\ d.decision # "denied"
    <3>1. ledger' = [ledger EXCEPT ![t] = r] /\ Dispatches(t, r) /\ job[t].at = "none"
      BY <1>2, <1>5, <2>2 DEF Decide, WaitsFor, InProgress
    <3>2. /\ GoodRecord(r) /\ r.status = "accepted" /\ r.effect = Nil
          /\ DOMAIN r = DOMAIN NoRecord
      BY <1>1, <2>2 DEF GoodTask, Good, GoodRecord, NoRecord
    <3>3. OnlyTask(t) /\ ledger'[t] = r
          /\ queue'[t] = Append(Tail(queue[t]), Op("running", Nil))
          /\ job'[t] = [at |-> "queued", aborted |-> FALSE, rec |-> r, result |-> NoResult]
      BY <1>1, <2>1, <3>1 DEF OnTasks, OnlyTask, Dispatches, LeavesThen
    <3>. HIDE DEF r
    <3>4. GoodJob(ledger'[t], job'[t])
      BY <3>2, <3>3 DEF GoodJob, NoJob, InProgress
    <3>5. GoodQueue(job'[t], queue'[t])
      <4>1. NoneOf(Tail(queue[t])) /\ IsQueue(Tail(queue[t]))
        BY <1>1, <2>1, <3>1, QueueOps DEF GoodTask, Good, GoodQueue
      <4>. QED
        BY <3>3, <4>1, JobJoins DEF GoodQueue
    <3>6. GoodRun(job'[t], run'[t])
      BY <1>1, <2>1, <3>1 DEF GoodTask, Good, GoodRun
    <3>. QED
      BY <3>2, <3>3, <3>4, <3>5, <3>6, OneTask DEF GoodTask, Good
  <2>3. CASE ~(Decided /\ d.decision # "denied")
    <3>1. /\ UNCHANGED job /\ Leaves(t)
          /\ \/ ledger' = ledger
             \/ /\ ledger' = [ledger EXCEPT ![t].status = "failed", ![t].asks = Nil]
                /\ job[t].at = "none"
      BY <1>2, <1>5, <2>3 DEF Decide, WaitsFor, InProgress
    <3>2. OnlyTask(t) /\ queue'[t] = Tail(queue[t])
      BY <1>1, <2>1, <3>1 DEF OnlyTask, OnTasks, Leaves
    <3>3. GoodRecord(ledger'[t]) /\ (ledger'[t] = ledger[t] \/ job[t].at = "none")
      BY <1>1, <3>1 DEF GoodTask, Good, GoodRecord, OnTasks, NoRecord
    <3>. QED
      BY <2>1, <3>1, <3>2, <3>3, RecordKeeps
  <2>. QED
    BY <2>2, <2>3
<1>6. CASE Running(t)
  <2>1. /\ queue[t] # <<>> /\ Head(queue[t]).op = "running"
        /\ job[t].at = "queued" /\ NoneOf(Tail(queue[t])) /\ IsQueue(Tail(queue[t]))
    BY <1>1, <1>6, QueueOps DEF Running, At, GoodTask, Good, GoodJob, GoodQueue, JobOps
  <2>2. OnlyTask(t) /\ ledger'[t] = [job[t].rec EXCEPT !.status = "running"]
    BY <1>1, <1>6 DEF Running, OnTasks, OnlyTask, Leaves, LeavesThen
  <2>3. /\ GoodRecord(ledger'[t]) /\ ledger'[t].status \in InProgress
        /\ ledger'[t].effect = Nil /\ DOMAIN job[t].rec = DOMAIN NoRecord
        /\ job[t].rec.effect = Nil /\ DOMAIN job[t] = DOMAIN NoJob
    BY <1>1, <2>1, <2>2 DEF GoodTask, Good, GoodJob, GoodRecord, NoRecord, InProgress
  <2>4. \/ /\ job' = [job EXCEPT ![t].at = "settling"] /\ run' = run
           /\ queue' = [queue EXCEPT ![t] = Append(Tail(@), Op("end", Nil))]
        \/ /\ job' = [job EXCEPT ![t].at = "racing"]
           /\ run' = [run EXCEPT ![t] = Launched(job[t])]
           /\ queue' = [queue EXCEPT ![t] = Tail(@)]
    BY <1>6 DEF Running, Leaves, LeavesThen
  <2>5. GoodJob(ledger'[t], job'[t])
    BY <1>1, <2>3, <2>4 DEF GoodJob, OnTasks, NoJob
  <2>6. GoodQueue(job'[t], queue'[t])
    <3>1. \/ job'[t].at = "settling" /\ queue'[t] = Append(Tail(queue[t]), Op("end", Nil))
          \/ job'[t].at = "racing" /\ queue'[t] = Tail(queue[t])
      BY <1>1, <2>3, <2>4 DEF OnTasks, NoJob
    <3>. QED
      BY <2>1, <3>1, JobJoins DEF GoodQueue
  <2>7. GoodRun(job'[t], run'[t])
    BY <1>1, <2>1, <2>3, <2>4 DEF GoodTask, Good, GoodRun, OnTasks, NoJob, NoRun, Launched
  <2>. QED
    BY <2>2, <2>3, <2>5, <2>6, <2>7, OneTask DEF GoodTask, Good
<1>7. CASE End(t)
  <2>1. /\ queue[t] # <<>> /\ Head(queue[t]).op = "end"
        /\ job[t].at = "settling" /\ NoneOf(Tail(queue[t])) /\ IsQueue(Tail(queue[t]))
    BY <1>1, <1>7, QueueOps DEF End, At, GoodTask, Good, GoodJob, GoodQueue, JobOps
  <2>2. /\ OnlyTask(t) /\ job'[t] = NoJob /\ run'[t] = run[t] /\ queue'[t] = Tail(queue[t])
        /\ \/ ledger'[t] = ledger[t]
           \/ ledger'[t] = [ledger[t] EXCEPT !.status = Outcome(t).status,
                                             !.asks = Outcome(t).asks]
    BY <1>1, <1>7 DEF End, OnTasks, OnlyTask, Leaves
  <2>3. GoodRecord(ledger'[t])
    BY <1>1, <2>2 DEF GoodTask, Good, GoodRecord, NoRecord
  <2>4. GoodRun(job'[t], run'[t])
    BY <1>1, <2>1, <2>2 DEF GoodTask, Good, GoodRun
  <2>. QED
    BY <2>1, <2>2, <2>3, <2>4, OneTask DEF GoodTask, Good, GoodJob, GoodQueue, NoJob
<1>8. CASE Cancel(t)
  <2>1. queue[t] # <<>>
    BY <1>8 DEF Cancel, At
  <2>2. CASE ledger[t].status \notin Cancellable \/ InEffect(t)
    <3>1. /\ UNCHANGED <<job, run>> /\ Leaves(t)
          /\ \/ ledger' = ledger
             \/ /\ ledger' = [ledger EXCEPT ![t].status = "unknown", ![t].asks = Nil]
                /\ ledger[t].effect # Nil
      BY <1>8, <2>2 DEF Cancel, InEffect
    <3>2. OnlyTask(t) /\ queue'[t] = Tail(queue[t])
      BY <1>1, <3>1 DEF OnlyTask, OnTasks, Leaves
    <3>3. GoodRecord(ledger'[t]) /\ (ledger'[t] = ledger[t] \/ job[t].at = "none")
      BY <1>1, <3>1 DEF GoodTask, Good, GoodRecord, GoodJob, OnTasks, NoRecord
    <3>. QED
      BY <2>1, <3>1, <3>2, <3>3, RecordKeeps
  <2>3. CASE ~(ledger[t].status \notin Cancellable \/ InEffect(t))
    <3>1. /\ OnlyTask(t) /\ job'[t] = JobAborted(t) /\ run'[t] = RunAborted(t)
          /\ queue'[t] = QueueAborted(t, Tail(queue[t]))
          /\ \/ ledger'[t] = ledger[t]
             \/ ledger'[t] = [ledger[t] EXCEPT !.status = "cancelled"]
      BY <1>1, <1>8, <2>3 DEF Cancel, OnTasks, OnlyTask
    <3>2. GoodQueue(job[t], Tail(queue[t]))
      BY <1>1, <2>1, GoodQueues DEF GoodTask, Good
    <3>3. /\ GoodJob(ledger[t], job'[t]) /\ GoodRun(job'[t], run'[t])
          /\ GoodQueue(job'[t], queue'[t])
      BY <1>1, <3>1, <3>2, AbortKeeps
    <3>4. GoodRecord(ledger'[t]) /\ GoodJob(ledger'[t], job'[t])
      BY <1>1, <3>1, <3>3 DEF GoodTask, Good, GoodRecord, GoodJob, NoRecord, InProgress
    <3>. QED
      BY <3>1, <3>3, <3>4, OneTask DEF GoodTask, Good
  <2>. QED
    BY <2>2, <2>3
<1>9. CASE Status(t) \/ Look(t)
  <2>1. /\ queue[t] # <<>> /\ UNCHANGED <<job, run>>
        /\ ledger' = [ledger EXCEPT ![t] = Resolved(t)]
    BY <1>9 DEF Status, Look, Resolves, At
  <2>2. \/ queue' = [queue EXCEPT ![t] = Tail(@)]
        \/ \E x : x.op \notin JobOps /\ queue' = [queue EXCEPT ![t] = Append(Tail(@), x)]
    BY <1>9 DEF Status, Look, Leaves, LeavesThen, Op, JobOps
  <2>3. /\ OnlyTask(t)
        /\ \/ queue'[t] = Tail(queue[t])
           \/ \E x : x.op \notin JobOps /\ queue'[t] = Append(Tail(queue[t]), x)
    BY <1>1, <2>1, <2>2 DEF OnlyTask, OnTasks
  <2>4. GoodRecord(ledger'[t]) /\ (ledger'[t] = ledger[t] \/ job[t].at = "none")
    BY <1>1, <1>2, <2>1 DEF GoodTask, Good, GoodRecord, OnTasks, NoRecord, Resolved,
                            Resolvable, InProgress
  <2>. QED
    BY <2>1, <2>3, <2>4, RecordKeeps
<1>10. CASE Expire(t) \/ Begin(t) \/ Settle(t)
  <2>1. queue[t] # <<>> /\ UNCHANGED <<job, run>>
    BY <1>10 DEF Expire, Begin, Settle, At
  <2>2. \/ queue' = [queue EXCEPT ![t] = Tail(@)]
        \/ \E x : x.op \notin JobOps /\ queue' = [queue EXCEPT ![t] = Append(Tail(@), x)]
    BY <1>10 DEF Expire, Begin, Settle, Leaves, LeavesThen, Op, JobOps
  <2>3. \/ ledger' = ledger
        \/ /\ ledger[t].status = "waiting_approval"
           /\ \/ \E o : ledger' = [ledger EXCEPT ![t] = Settled(t, o)]
              \/ \E id : ledger[t].grant # Nil /\ ledger' = [ledger EXCEPT ![t].effect = id]
    BY <1>10 DEF Expire, Begin, CanBegin, Settle, WaitsFor
  <2>4. /\ OnlyTask(t)
        /\ \/ queue'[t] = Tail(queue[t])
           \/ \E x : x.op \notin JobOps /\ queue'[t] = Append(Tail(queue[t]), x)
    BY <1>1, <2>1, <2>2, <2>3 DEF OnlyTask, OnTasks
  <2>5. GoodRecord(ledger'[t]) /\ (ledger'[t] = ledger[t] \/ job[t].at = "none")
    <3>1. CASE ledger' = ledger
      BY <1>1, <3>1 DEF GoodTask, Good
    <3>2. ASSUME ledger[t].status = "waiting_approval", NEW o,
                 ledger' = [ledger EXCEPT ![t] = Settled(t, o)]
          PROVE  GoodRecord(ledger'[t]) /\ job[t].at = "none"
      <4>1. ledger'[t] = Settled(t, o)
        BY <1>1, <3>2 DEF OnTasks
      <4>. QED
        BY <1>1, <1>2, <3>2, <4>1 DEF GoodTask, Good, GoodRecord, NoRecord, Settled, InProgress
    <3>3. ASSUME ledger[t].status = "waiting_approval", ledger[t].grant # Nil, NEW id,
                 ledger' = [ledger EXCEPT ![t].effect = id]
          PROVE  GoodRecord(ledger'[t]) /\ job[t].at = "none"
      <4>1. ledger'[t] = [ledger[t] EXCEPT !.effect = id]
        BY <1>1, <3>3 DEF OnTasks
      <4>. QED
        BY <1>1, <1>2, <3>3, <4>1 DEF GoodTask, Good, GoodRecord, NoRecord, InProgress
    <3>. QED
      BY <2>3, <3>1, <3>2, <3>3
  <2>. QED
    BY <2>1, <2>4, <2>5, RecordKeeps
<1>11. CASE OperationFails(t)
  <2>1. queue[t] # <<>> /\ UNCHANGED <<ledger, run>>
    BY <1>11 DEF OperationFails
  <2>2. CASE UNCHANGED job /\ \/ Leaves(t)
                              \/ \E x : x.op \notin JobOps /\ LeavesThen(t, x)
    <3>1. /\ OnlyTask(t)
          /\ \/ queue'[t] = Tail(queue[t])
             \/ \E x : x.op \notin JobOps /\ queue'[t] = Append(Tail(queue[t]), x)
      BY <1>1, <2>1, <2>2 DEF OnlyTask, OnTasks, Leaves, LeavesThen
    <3>. QED
      BY <1>1, <2>1, <2>2, <3>1, RecordKeeps DEF GoodTask, Good
  <2>3. CASE /\ Head(queue[t]).op \in JobOps
             /\ \/ /\ job' = [job EXCEPT ![t].at = "settling", ![t].result = NoResult]
                   /\ LeavesThen(t, Op("end", Nil))
                \/ job' = [job EXCEPT ![t] = NoJob] /\ Leaves(t)
    <3>1. /\ NoneOf(Tail(queue[t])) /\ IsQueue(Tail(queue[t]))
          /\ job[t].at \in {"queued", "settling"}
      BY <1>1, <2>1, <2>3, QueueOps DEF GoodTask, Good, GoodQueue, GoodJob
    <3>2. /\ OnlyTask(t)
          /\ \/ /\ job'[t] = [job[t] EXCEPT !.at = "settling", !.result = NoResult]
                /\ queue'[t] = Append(Tail(queue[t]), Op("end", Nil))
             \/ job'[t] = NoJob /\ queue'[t] = Tail(queue[t])
      BY <1>1, <2>1, <2>3 DEF OnlyTask, OnTasks, Leaves, LeavesThen
    <3>3. /\ DOMAIN job'[t] = DOMAIN NoJob
          /\ \/ /\ job'[t].at = "settling" /\ job'[t].rec = job[t].rec
                /\ queue'[t] = Append(Tail(queue[t]), Op("end", Nil))
             \/ /\ job'[t].at = "none" /\ job'[t].rec = NoRecord
                /\ queue'[t] = Tail(queue[t])
      <4>1. DOMAIN job[t] = {"at", "aborted", "rec", "result"}
        BY <1>1 DEF GoodTask, Good, GoodJob, NoJob
      <4>2. CASE job'[t] = [job[t] EXCEPT !.at = "settling", !.result = NoResult]
                 /\ queue'[t] = Append(Tail(queue[t]), Op("end", Nil))
        <5>1. /\ DOMAIN job'[t] = DOMAIN job[t] /\ job'[t].at = "settling"
              /\ job'[t].rec = job[t].rec
          BY <4>1, <4>2
        <5>. QED
          BY <1>1, <4>2, <5>1 DEF GoodTask, Good, GoodJob
      <4>3. CASE job'[t] = NoJob /\ queue'[t] = Tail(queue[t])
        BY <4>3 DEF NoJob
      <4>. QED
        BY <3>2, <4>2, <4>3
    <3>4. GoodJob(ledger[t], job'[t])
      BY <1>1, <3>1, <3>3 DEF GoodTask, Good, GoodJob
    <3>5. GoodQueue(job'[t], queue'[t])
      BY <3>1, <3>3, JobJoins DEF GoodQueue
    <3>6. GoodRun(job'[t], run[t])
      BY <1>1, <3>1 DEF GoodTask, Good, GoodRun
    <3>. QED
      BY <1>1, <2>1, <3>2, <3>4, <3>5, <3>6, OneTask DEF GoodTask, Good
  <2>. QED
    BY <1>11, <2>2, <2>3 DEF OperationFails, Op, JobOps
<1>. QED
  BY <1>3, <1>4, <1>5, <1>6, <1>7, <1>8, <1>9, <1>10, <1>11 DEF Operates

(* The adapter's run, whose end joins the queue of a task still racing.     *)
LEMMA RunKeeps ==
  ASSUME JobsInv, NEW t \in Task, Runs(t)
  PROVE  JobsInv'
<1>1. GoodTask(t) /\ OnTasks
  BY DEF JobsInv
<1>2. CASE RunOpens(t) \/ RunPrompts(t) \/ RunVerifies(t) \/ RunAsks(t) \/ RunAnswers(t)
  <2>1. /\ UNCHANGED <<ledger, job, queue>> /\ OnlyTask(t)
        /\ DOMAIN run'[t] = DOMAIN run[t] /\ run'[t].at # "authorizing"
    <3>1. CASE RunOpens(t)
      BY <1>1, <3>1 DEF RunOpens, GoodTask, Good, GoodRun, NoRun, OnTasks, OnlyTask
    <3>2. CASE RunPrompts(t)
      BY <1>1, <3>2 DEF RunPrompts, GoodTask, Good, GoodRun, NoRun, OnTasks, OnlyTask
    <3>3. CASE RunVerifies(t)
      BY <1>1, <3>3 DEF RunVerifies, GoodTask, Good, GoodRun, NoRun, OnTasks, OnlyTask
    <3>4. CASE RunAsks(t)
      <4>1. /\ UNCHANGED <<ledger, job, queue>>
            /\ \/ \E a : run' = [run EXCEPT ![t].at = "prompting", ![t].asked = a]
               \/ run' = [run EXCEPT ![t].at = "prompting"]
        BY <3>4 DEF RunAsks
      <4>. QED
        BY <1>1, <4>1 DEF GoodTask, Good, GoodRun, NoRun, OnTasks, OnlyTask
    <3>5. CASE RunAnswers(t)
      BY <1>1, <3>5 DEF RunAnswers, GoodTask, Good, GoodRun, NoRun, OnTasks, OnlyTask
    <3>. QED
      BY <1>2, <3>1, <3>2, <3>3, <3>4, <3>5
  <2>. QED
    BY <1>1, <2>1, OneTask DEF GoodTask, Good, GoodRun
<1>3. CASE RunThrows(t) \/ RunCloses(t)
  <2>1. run[t].at = "authorizing" => job[t].at = "racing"
    BY <1>1 DEF GoodTask, Good, GoodRun
  <2>2. CASE job[t].at = "racing"
    <3>1. /\ NoneOf(queue[t]) /\ IsQueue(queue[t])
          /\ DOMAIN job[t] = {"at", "aborted", "rec", "result"}
      BY <1>1, <2>2 DEF GoodTask, Good, GoodQueue, GoodJob, NoJob
    <3>2. /\ UNCHANGED ledger /\ run' = [run EXCEPT ![t] = NoRun]
          /\ queue' = [queue EXCEPT ![t] = Append(@, Op("end", Nil))]
          /\ \/ job' = [job EXCEPT ![t].at = "settling"]
             \/ \E x : job' = [job EXCEPT ![t].at = "settling", ![t].result = x]
      BY <1>3, <2>2 DEF RunThrows, RunCloses, Racing, Joins
    <3>3. /\ OnlyTask(t) /\ run'[t] = NoRun /\ UNCHANGED ledger
          /\ queue'[t] = Append(queue[t], Op("end", Nil))
      BY <1>1, <3>2 DEF OnTasks, OnlyTask
    <3>4. /\ DOMAIN job'[t] = DOMAIN job[t] /\ job'[t].at = "settling"
          /\ job'[t].rec = job[t].rec
      BY <1>1, <3>1, <3>2 DEF OnTasks
    <3>5. GoodJob(ledger[t], job'[t])
      BY <1>1, <2>2, <3>4 DEF GoodTask, Good, GoodJob
    <3>6. GoodQueue(job'[t], queue'[t])
      BY <3>1, <3>3, <3>4, JobJoins DEF GoodQueue
    <3>7. GoodRun(job'[t], run'[t])
      BY <3>3 DEF GoodRun, NoRun
    <3>. QED
      BY <1>1, <3>3, <3>5, <3>6, <3>7, OneTask DEF GoodTask, Good
  <2>3. CASE job[t].at # "racing"
    <3>1. UNCHANGED <<ledger, job, queue>> /\ run' = [run EXCEPT ![t] = NoRun]
      BY <1>3, <2>1, <2>3 DEF RunThrows, RunCloses, RunAt, Racing
    <3>2. OnlyTask(t) /\ run'[t] = NoRun
      BY <1>1, <3>1 DEF OnTasks, OnlyTask
    <3>. QED
      BY <1>1, <3>1, <3>2, OneTask DEF GoodTask, Good, GoodRun, NoRun
  <2>. QED
    BY <2>2, <2>3
<1>. QED
  BY <1>2, <1>3 DEF Runs

(* The route's handlers: what they queue is for the task of their request.  *)
LEMMA RouteKeeps ==
  ASSUME JobsInv, NEW h, UNCHANGED <<ledger, job, run>>,
         UNCHANGED queue \/ \E t \in Task : \E o : o \notin JobOps /\ Joins(t, Op(o, h))
  PROVE  JobsInv'
<1>1. CASE UNCHANGED queue
  BY <1>1, NothingKeeps
<1>2. ASSUME NEW t \in Task, NEW o, o \notin JobOps, Joins(t, Op(o, h)) PROVE JobsInv'
  <2>1. Op(o, h).op \notin JobOps
    BY <1>2 DEF Op
  <2>. QED
    BY <1>2, <2>1, JoinKeeps
<1>. QED
  BY <1>1, <1>2

LEMMA GoodIdle ==
  ASSUME NEW l
  PROVE  GoodJob(l, NoJob) /\ GoodRun(NoJob, NoRun) /\ GoodQueue(NoJob, <<>>)
<1>1. IsQueue(<<>>) /\ NoneOf(<<>>)
  <2>1. <<>> \in Seq({})
    OBVIOUS
  <2>. QED
    BY <2>1 DEF IsQueue, NoneOf
<1>2. NoJob.at = "none" /\ NoJob.rec = NoRecord /\ NoRun.at = "none"
  BY DEF NoJob, NoRun
<1>. QED
  BY <1>1, <1>2 DEF GoodJob, GoodRun, GoodQueue

(* One step of anyone.                                                      *)
LEMMA JobsStep ==
  ASSUME JobsInv, [Next]_vars
  PROVE  JobsInv'
<1>1. ASSUME NEW t \in Task, CallsAny(t) \/ ListsApprovals(t) PROVE JobsInv'
  <2>1. \A o, b : o \in {"start", "cancel", "status", "followUp", "expire"} =>
          Op(o, b).op \notin JobOps
    BY DEF Op, JobOps
  <2>2. /\ UNCHANGED <<ledger, job, run>>
        /\ \E o, b : o \in {"start", "cancel", "status", "followUp", "expire"}
                     /\ Joins(t, Op(o, b))
    BY <1>1 DEF CallsAny, Calls, ListsApprovals
  <2>. QED
    BY <2>1, <2>2, JoinKeeps
<1>2. ASSUME NEW t \in Task, DeadlinePasses(t) PROVE JobsInv'
  BY <1>2, NothingKeeps DEF DeadlinePasses
<1>3. ASSUME NEW t \in Task, TimesOut(t) PROVE JobsInv'
  <2>1. GoodTask(t) /\ OnTasks
    BY DEF JobsInv
  <2>2. /\ UNCHANGED ledger /\ OnlyTask(t) /\ job'[t] = JobAborted(t)
        /\ run'[t] = RunAborted(t) /\ queue'[t] = QueueAborted(t, queue[t])
    BY <1>3, <2>1 DEF TimesOut, OnTasks, OnlyTask
  <2>. QED
    BY <2>1, <2>2, AbortKeeps, OneTask DEF GoodTask, Good
<1>4. ASSUME NEW h \in Handler, NEW id, NEW d, Receives(h, id, d) PROVE JobsInv'
  <2>1. /\ UNCHANGED <<ledger, job, run>>
        /\ \/ UNCHANGED queue
           \/ \E t \in Task : \E o \in {"decide", "look"} : Joins(t, Op(o, h))
    BY <1>4 DEF Receives
  <2>. QED
    BY <2>1, RouteKeeps DEF JobOps
<1>5. ASSUME NEW h \in Handler, Routes(h) PROVE JobsInv'
  <2>1. UNCHANGED <<ledger, job, run>>
    BY <1>5 DEF Routes, Approves, Executes, CallEnds, RouteOnly
  <2>2. UNCHANGED queue \/ \E t \in Task : Joins(t, Op("settle", h))
    BY <1>5 DEF Routes, Approves, Executes, CallEnds, ToSettle, Throws
  <2>. QED
    BY <2>1, <2>2, RouteKeeps DEF JobOps
<1>6. CASE Close
  <2>1. UNCHANGED ledger /\ OnTasks'
        /\ \A t \in Task : /\ job'[t] = JobAborted(t) /\ run'[t] = RunAborted(t)
                           /\ queue'[t] = QueueAborted(t, queue[t])
    BY <1>6 DEF Close, JobsInv, OnTasks
  <2>. QED
    BY <2>1, AbortKeeps DEF JobsInv, GoodTask, Good
<1>7. CASE Restart
  <2>1. OnTasks' /\ \A t \in Task : /\ ledger'[t] = Reconciled(Reopened(ledger[t]))
                                    /\ job'[t] = NoJob /\ run'[t] = NoRun /\ queue'[t] = <<>>
    BY <1>7 DEF Restart, OnTasks
  <2>2. ASSUME NEW t \in Task PROVE GoodRecord(ledger'[t])
    <3>1. GoodRecord(ledger[t])
      BY DEF JobsInv, GoodTask, Good
    <3>2. GoodRecord(Reopened(ledger[t]))
      BY <3>1 DEF Reopened, GoodRecord, NoRecord
    <3>. QED
      BY <2>1, <3>2 DEF Reconciled, GoodRecord, NoRecord
  <2>. QED
    BY <2>1, <2>2, GoodIdle DEF JobsInv, GoodTask, Good
<1>8. CASE UNCHANGED <<ledger, job, run, queue>>
  BY <1>8, NothingKeeps
<1>9. CASE \E r \in Request, written \in BOOLEAN : AgentRunAsks(r, written)
  BY <1>8, <1>9 DEF AgentRunAsks, tasks
<1>10. CASE \E written \in BOOLEAN : AgentRunCancelled(written) \/ ListsRequests(written)
  BY <1>8, <1>10 DEF AgentRunCancelled, ListsRequests, tasks
<1>11. CASE (\E r \in Request : TimePasses(r)) \/ UNCHANGED vars
  BY <1>8, <1>11 DEF TimePasses, vars, tasks
<1>12. CASE \E t \in Task : \/ CallsAny(t) \/ Operates(t) \/ Runs(t)
                            \/ DeadlinePasses(t) \/ TimesOut(t) \/ ListsApprovals(t)
  BY <1>1, <1>2, <1>3, <1>12, OperationKeeps, RunKeeps
<1>. QED
  BY <1>4, <1>5, <1>6, <1>7, <1>9, <1>10, <1>11, <1>12 DEF Next

LEMMA JobsHold == Spec => []JobsInv
<1>1. Init => JobsInv
  <2>. SUFFICES ASSUME Init PROVE JobsInv
    OBVIOUS
  <2>1. OnTasks /\ \A t \in Task : /\ ledger[t] = NoRecord /\ job[t] = NoJob
                                   /\ run[t] = NoRun /\ queue[t] = <<>>
    BY DEF Init, OnTasks
  <2>2. GoodRecord(NoRecord)
    BY DEF GoodRecord, NoRecord
  <2>. QED
    BY <2>1, <2>2, GoodIdle DEF JobsInv, GoodTask, Good
<1>2. JobsInv /\ [Next]_vars => JobsInv'
  BY JobsStep
<1>. QED
  BY <1>1, <1>2, PTL DEF Spec

-----------------------------------------------------------------------------
(* What a step does to a record that has settled.                           *)
Interrupted(t) == ledger[t].status = "unknown" /\ ledger[t].effect # Nil
Cancelled(t)   == ledger[t].status = "cancelled" /\ ~StartsLate(t)
Kept(t) ==
  /\ Interrupted(t) => ledger'[t].status = "unknown" /\ ledger'[t].effect = ledger[t].effect
  /\ Cancelled(t) => ledger'[t].status = "cancelled"

LEMMA OperationLeaves ==
  ASSUME JobsInv, NEW t \in Task, Operates(t), NEW u \in Task
  PROVE  Kept(u)
<1>1. GoodTask(t) /\ OnTasks
  BY DEF JobsInv
<1>2. CASE ledger'[u] = ledger[u]
  BY <1>2 DEF Kept, Interrupted, Cancelled
<1>3. ASSUME Running(t) PROVE job[t].at = "queued"
  BY <1>1, <1>3, QueueOps DEF Running, At, GoodTask, Good, GoodJob, GoodQueue, JobOps
<1>4. CASE u = t /\ (Interrupted(t) \/ Cancelled(t))
  <2>1. ~Running(t) /\ DOMAIN ledger[t] = DOMAIN NoRecord
    BY <1>1, <1>3, <1>4 DEF Interrupted, Cancelled, StartsLate, GoodTask, Good, GoodJob,
                            GoodRecord, InProgress
  <2>2. ledger[t].status \in {"unknown", "cancelled"}
    BY <1>4 DEF Interrupted, Cancelled
  <2>3. CASE Start(t) \/ Follow(t) \/ Decide(t) \/ End(t)
    <3>1. UNCHANGED ledger
      BY <2>2, <2>3 DEF Start, Known, Follow, CanFollow, Decide, WaitsFor, End, StillRunning
    <3>. QED
      BY <1>2, <1>4, <3>1
  <2>4. CASE Cancel(t)
    <3>1. CASE Cancelled(t)
      <4>1. UNCHANGED ledger
        BY <2>4, <3>1 DEF Cancel, Cancelled, Cancellable
      <4>. QED
        BY <1>2, <1>4, <4>1
    <3>2. CASE Interrupted(t)
      <4>1. ledger' = [ledger EXCEPT ![t].status = "unknown", ![t].asks = Nil]
        BY <2>4, <3>2 DEF Cancel, Interrupted, Cancellable, InEffect
      <4>. QED
        BY <1>1, <1>4, <2>1, <3>2, <4>1 DEF Kept, Interrupted, Cancelled, OnTasks, NoRecord
    <3>. QED
      BY <1>4, <3>1, <3>2
  <2>5. CASE Status(t) \/ Look(t)
    <3>1. ledger' = [ledger EXCEPT ![t] = ledger[t]]
      BY <1>4, <2>5 DEF Status, Look, Resolves, Resolved, Resolvable, Interrupted, Cancelled
    <3>. QED
      BY <1>1, <1>2, <1>4, <3>1 DEF OnTasks
  <2>6. CASE Expire(t) \/ Begin(t) \/ Settle(t) \/ OperationFails(t)
    <3>1. UNCHANGED ledger
      BY <2>2, <2>6 DEF Expire, Begin, CanBegin, Settle, WaitsFor, OperationFails
    <3>. QED
      BY <1>2, <1>4, <3>1
  <2>. QED
    BY <2>1, <2>3, <2>4, <2>5, <2>6 DEF Operates
<1>5. CASE u # t
  <2>1. \/ UNCHANGED ledger
        \/ \E l : ledger' = [ledger EXCEPT ![t] = l]
    BY DEF Operates, Start, Submits, Follow, Decide, Running, End, Cancel, Status, Look,
           Resolves, Expire, Begin, Settle, OperationFails
  <2>. QED
    BY <1>1, <1>2, <1>5, <2>1 DEF OnTasks
<1>. QED
  BY <1>4, <1>5 DEF Kept

LEMMA OthersLeave ==
  ASSUME [Next]_vars, \A t \in Task : ~Operates(t), NEW u \in Task
  PROVE  Kept(u)
<1>1. CASE UNCHANGED ledger
  BY <1>1 DEF Kept, Interrupted, Cancelled
<1>2. CASE Restart
  <2>1. ledger'[u] = Reconciled(Reopened(ledger[u]))
    BY <1>2 DEF Restart
  <2>2. ledger[u].status \in {"unknown", "cancelled"} => ledger'[u] = ledger[u]
    BY <2>1 DEF Reconciled, Reopened
  <2>. QED
    BY <2>2 DEF Kept, Interrupted, Cancelled
<1>3. CASE \E t \in Task : \/ CallsAny(t) \/ Runs(t) \/ DeadlinePasses(t) \/ TimesOut(t)
                           \/ ListsApprovals(t)
  BY <1>1, <1>3 DEF CallsAny, Calls, Runs, RunThrows, RunOpens, RunPrompts, RunVerifies, RunAsks,
    RunAnswers, RunCloses, DeadlinePasses, TimesOut, ListsApprovals
<1>4. CASE \/ \E h \in Handler, id \in Id, d \in {"approved", "denied"} : Receives(h, id, d)
           \/ \E h \in Handler : Routes(h)
  BY <1>1, <1>4 DEF Receives, Routes, Approves, Executes, CallEnds, RouteOnly
<1>5. CASE \/ \E r \in Request, written \in BOOLEAN : AgentRunAsks(r, written)
           \/ \E written \in BOOLEAN : AgentRunCancelled(written) \/ ListsRequests(written)
  BY <1>1, <1>5 DEF AgentRunAsks, AgentRunCancelled, ListsRequests, tasks
<1>6. CASE (\E r \in Request : TimePasses(r)) \/ Close \/ UNCHANGED vars
  BY <1>1, <1>6 DEF TimePasses, Close, vars, tasks
<1>. QED
  BY <1>2, <1>3, <1>4, <1>5, <1>6 DEF Next

LEMMA RecordsKept ==
  ASSUME JobsInv, [Next]_vars
  PROVE  \A t \in Task : Kept(t)
BY OperationLeaves, OthersLeave

(* The outcome of an effect that was interrupted stays unknown, whatever is *)
(* looked up, cancelled, answered late or read back after a restart: no job *)
(* of the task can be left to write over it, because an effect begins only  *)
(* when its task waits for the approval, and then its job has ended.        *)
THEOREM InterruptedStaysUnknown == Spec => InterruptedEffectStaysUnknown
<1>1. JobsInv /\ [Next]_vars =>
        [\A t \in Task :
           ledger[t].status = "unknown" /\ ledger[t].effect # Nil =>
             ledger'[t].status = "unknown" /\ ledger'[t].effect = ledger[t].effect]_vars
  BY RecordsKept DEF Kept, Interrupted
<1>. QED
  BY <1>1, JobsHold, PTL DEF Spec, InterruptedEffectStaysUnknown

(* A task reported cancelled stays cancelled: the queue holds no write that *)
(* its job captured before, except the first one of a job started, or       *)
(* approved, while the cancellation waited.                                 *)
THEOREM CancelledStaysCancelled == Spec => CancelledIsFinal
<1>1. JobsInv /\ [Next]_vars =>
        [\A t \in Task : ledger[t].status = "cancelled" /\ ~StartsLate(t)
                         => ledger'[t].status = "cancelled"]_vars
  BY RecordsKept DEF Kept, Cancelled
<1>. QED
  BY <1>1, JobsHold, PTL DEF Spec, CancelledIsFinal

-----------------------------------------------------------------------------
(* What a handler waits for.  It has one operation in the queues at most,   *)
(* and that operation is where the handler says it is.                      *)

HandlerOps == {"decide", "look", "begin", "settle"}
Items(q)   == {q[i] : i \in DOMAIN q}
Served(q)  == {o \in Items(q) : o.op \in HandlerOps}
Once(q) == \A i, k \in DOMAIN q :
  q[i].op \in HandlerOps /\ q[k].op \in HandlerOps /\ q[i].by = q[k].by => i = k
Free(q, h) == \A o \in Served(q) : o.by # h

Serves(t, o) ==
  /\ o.by \in Handler
  /\ o.op = "decide" => handler[o.by].at = "granting"
  /\ o.op = "look"   => handler[o.by].at = "looking"
  /\ o.op = "begin"  => handler[o.by].at = "beginning"
  /\ o.op = "settle" => handler[o.by].at \in {"settling", "catching"}
  /\ o.op # "decide" => owner[handler[o.by].id] = t
Paired(t) == Once(queue[t]) /\ \A o \in Served(queue[t]) : Serves(t, o)
Apart == \A t, u \in Task : \A o \in Served(queue[t]), x \in Served(queue[u]) :
           o.by = x.by => t = u

(* A handler past the grants works on a request somebody asked for.  One    *)
(* that may make the call of a task was approved, and has begun the effect. *)
Active(h) == handler[h].at \notin {"none", "granting"}
On(h, r)  == Active(h) /\ handler[h].id = r
Beginning == {"deciding", "executing", "calling"}
Owned(h) ==
  /\ Active(h) => handler[h].id \in Request /\ owner[handler[h].id] # Nil
  /\ handler[h].started => Active(h) /\ owner[handler[h].id] \in Task
  /\ handler[h].at \in {"executing", "calling"} => handler[h].decision = "approved"
  /\ /\ handler[h].at \in Beginning /\ handler[h].decision = "approved"
     /\ owner[handler[h].id] \in Task
     => handler[h].started

Counted(r) ==
  /\ decisions[r] = 0 => \A h \in Handler : ~On(h, r)
  /\ decisions[r] = 1 => \A h, k \in Handler : On(h, r) /\ On(k, r) => h = k
  /\ r \in inFlight => \E h \in Handler : handler[h].at = "calling" /\ On(h, r)
  /\ r \in execution => owner[r] # Nil

RouteTypes ==
  /\ handler \in [Handler -> Decision] /\ owner \in [Request -> Task \cup {"run", Nil}]
  /\ decisions \in [Request -> 0..2] /\ execution \subseteq Request
  /\ inFlight \subseteq Request
Queues == (\A t \in Task : Paired(t)) /\ Apart
RoutesInv == /\ RouteTypes /\ Queues
             /\ \A h \in Handler : Owned(h)
             /\ \A r \in Request : Counted(r)

(* What joining and leaving a queue keep of that.                           *)
LEMMA ItemsOfQueue ==
  ASSUME NEW q, IsQueue(q)
  PROVE  /\ \A x : Items(Append(q, x)) = Items(q) \cup {x}
         /\ \A x : Once(q) /\ (x.op \in HandlerOps => Free(q, x.by)) => Once(Append(q, x))
         /\ q # <<>> => /\ Items(Tail(q)) \subseteq Items(q) /\ Head(q) \in Items(q)
                        /\ Once(q) => /\ Once(Tail(q))
                                      /\ Head(q).op \in HandlerOps =>
                                           Free(Tail(q), Head(q).by)
<1>1. PICK S : q \in Seq(S)
  BY DEF IsQueue
<1>2. DOMAIN q = 1..Len(q) /\ Len(q) \in Nat
  BY <1>1
<1>3. ASSUME NEW x
      PROVE  /\ DOMAIN Append(q, x) = DOMAIN q \cup {Len(q) + 1} /\ Len(q) + 1 \notin DOMAIN q
             /\ \A i \in DOMAIN q : Append(q, x)[i] = q[i]
             /\ Append(q, x)[Len(q) + 1] = x
  <2>1. q \in Seq(S \cup {x}) /\ x \in S \cup {x}
    BY <1>1
  <2>. HIDE <1>1
  <2>2. Append(q, x) \in Seq(S \cup {x}) /\ Len(Append(q, x)) = Len(q) + 1
    BY <2>1
  <2>. QED
    BY <1>2, <2>1, <2>2
<1>4. ASSUME NEW x
      PROVE  /\ Items(Append(q, x)) = Items(q) \cup {x}
             /\ Once(q) /\ (x.op \in HandlerOps => Free(q, x.by)) => Once(Append(q, x))
  <2>. DEFINE p == Append(q, x)
  <2>. HIDE DEF p
  <2>1. Items(p) = Items(q) \cup {x}
    <3>1. /\ DOMAIN p = DOMAIN q \cup {Len(q) + 1} /\ p[Len(q) + 1] = x
          /\ \A i \in DOMAIN q : p[i] = q[i]
      BY <1>3 DEF p
    <3>2. \A o : o \in Items(p) <=> \E i \in DOMAIN p : o = p[i]
      BY DEF Items
    <3>3. \A o : o \in Items(q) <=> \E i \in DOMAIN q : o = q[i]
      BY DEF Items
    <3>4. \A o : o \in Items(p) <=> o \in Items(q) \/ o = x
      BY <3>1, <3>2, <3>3, Zenon
    <3>. QED
      BY <3>4
  <2>2. ASSUME Once(q), x.op \in HandlerOps => Free(q, x.by) PROVE Once(p)
    <3>1. \A i \in DOMAIN q : q[i] \in Items(q)
      BY DEF Items
    <3>2. \A i \in DOMAIN q : q[i].op \in HandlerOps /\ x.op \in HandlerOps => q[i].by # x.by
      BY <2>2, <3>1 DEF Free, Served
    <3>3. \A i \in DOMAIN p : \/ i \in DOMAIN q /\ p[i] = q[i]
                              \/ i = Len(q) + 1 /\ p[i] = x
      BY <1>3 DEF p
    <3>. QED
      BY <2>2, <3>2, <3>3 DEF Once
  <2>. QED
    BY <2>1, <2>2 DEF p
<1>5. ASSUME q # <<>>
      PROVE  /\ Items(Tail(q)) \subseteq Items(q) /\ Head(q) \in Items(q)
             /\ Once(q) => /\ Once(Tail(q))
                           /\ Head(q).op \in HandlerOps => Free(Tail(q), Head(q).by)
  <2>1. /\ Head(q) = q[1] /\ 1 \in DOMAIN q
        /\ \A i \in DOMAIN Tail(q) : i + 1 \in DOMAIN q /\ Tail(q)[i] = q[i + 1] /\ i + 1 # 1
        /\ \A i, k \in DOMAIN Tail(q) : i + 1 = k + 1 => i = k
    <3>1. Tail(q) \in Seq(S) /\ Len(Tail(q)) = Len(q) - 1 /\ Len(q) > 0
      BY <1>1, <1>5
    <3>. QED
      BY <1>1, <1>2, <1>5, <3>1
  <2>2. Items(Tail(q)) \subseteq Items(q) /\ Head(q) \in Items(q)
    BY <2>1 DEF Items
  <2>3. ASSUME Once(q)
        PROVE  Once(Tail(q)) /\ (Head(q).op \in HandlerOps => Free(Tail(q), Head(q).by))
    BY <2>1, <2>3 DEF Once, Free, Served, Items
  <2>. QED
    BY <2>2, <2>3
<1>. QED
  BY <1>4, <1>5

(* Steps that no handler takes.                                             *)
OwnersKept == \A r \in Request : owner[r] # Nil => owner'[r] = owner[r]

LEMMA QueuesKeep ==
  ASSUME RoutesInv, UNCHANGED handler, OwnersKept,
         \A t \in Task : Once(queue'[t]) /\ Served(queue'[t]) \subseteq Served(queue[t])
  PROVE  Queues'
<1>1. ASSUME NEW t \in Task, NEW o \in Served(queue'[t]) PROVE Serves(t, o)'
  <2>1. Serves(t, o) /\ o.op \in HandlerOps
    BY <1>1 DEF RoutesInv, Queues, Paired, Served
  <2>2. o.op # "decide" => handler[o.by].id \in Request /\ owner[handler[o.by].id] = t
    BY <2>1 DEF Serves, RoutesInv, Owned, Active, HandlerOps
  <2>3. t # Nil
    BY BoundsAssumption
  <2>. QED
    BY <2>1, <2>2, <2>3 DEF Serves, OwnersKept
<1>2. Apart'
  BY DEF RoutesInv, Queues, Apart
<1>. QED
  BY <1>1, <1>2 DEF Queues, Paired

(* Handler h alone changes, and with it the queue of t.                     *)
OnlyHandler(h) == \A k \in Handler \ {h} : handler'[k] = handler[k]

LEMMA QueuesMove ==
  ASSUME RoutesInv, NEW h \in Handler, OnlyHandler(h), UNCHANGED owner, NEW t \in Task,
         \A u \in Task \ {t} : queue'[u] = queue[u] /\ Free(queue[u], h),
         Once(queue'[t]),
         \A o \in Served(queue'[t]) : \/ o.by = h /\ Serves(t, o)'
                                      \/ o.by # h /\ o \in Served(queue[t])
  PROVE  Queues'
<1>1. ASSUME NEW u \in Task, NEW o \in Served(queue'[u]) PROVE Serves(u, o)'
  <2>1. CASE o.by = h
    BY <1>1, <2>1 DEF Free
  <2>2. CASE o.by # h
    <3>1. o \in Served(queue[u])
      BY <1>1, <2>2
    <3>2. Serves(u, o)
      BY <3>1 DEF RoutesInv, Queues, Paired
    <3>. QED
      BY <2>2, <3>2 DEF Serves, OnlyHandler
  <2>. QED
    BY <2>1, <2>2
<1>2. \A u \in Task : Once(queue'[u])
  BY DEF RoutesInv, Queues, Paired
<1>3. ASSUME NEW u \in Task, NEW v \in Task, NEW o \in Served(queue'[u]),
             NEW x \in Served(queue'[v]), o.by = x.by
      PROVE  u = v
  <2>1. CASE o.by = h
    BY <1>3, <2>1 DEF Free
  <2>2. CASE o.by # h
    BY <1>3, <2>2 DEF RoutesInv, Queues, Apart
  <2>. QED
    BY <2>1, <2>2
<1>. QED
  BY <1>1, <1>2, <1>3 DEF Queues, Paired, Apart

(* Where h is once it has left the queues: it waited nowhere, or for the    *)
(* operation at the head of t's.                                            *)
Waiting == {"granting", "looking", "beginning", "settling", "catching"}
From(h, t, q) ==
  \/ handler[h].at \notin Waiting /\ q = queue[t]
  \/ /\ queue[t] # <<>> /\ Head(queue[t]).op \in HandlerOps
     /\ By(t) = h /\ q = Tail(queue[t])

LEMMA OutOfTheQueues ==
  ASSUME RoutesInv, JobsInv, NEW h \in Handler, NEW t \in Task, NEW q, From(h, t, q)
  PROVE  /\ IsQueue(q) /\ Once(q) /\ Served(q) \subseteq Served(queue[t]) /\ Free(q, h)
         /\ \A u \in Task \ {t} : Free(queue[u], h)
<1>1. IsQueue(queue[t]) /\ Once(queue[t])
  BY DEF JobsInv, GoodTask, Good, GoodQueue, RoutesInv, Queues, Paired
<1>2. CASE handler[h].at \notin Waiting /\ q = queue[t]
  <2>1. \A u \in Task : Free(queue[u], h)
    BY <1>2 DEF RoutesInv, Queues, Paired, Serves, Served, Free, Waiting, HandlerOps
  <2>. QED
    BY <1>1, <1>2, <2>1
<1>3. CASE /\ queue[t] # <<>> /\ Head(queue[t]).op \in HandlerOps
           /\ By(t) = h /\ q = Tail(queue[t])
  <2>1. /\ Items(q) \subseteq Items(queue[t]) /\ Head(queue[t]) \in Items(queue[t])
        /\ Once(q) /\ Free(q, h)
    BY <1>1, <1>3, ItemsOfQueue DEF By
  <2>2. IsQueue(q)
    BY <1>1, <1>3, QueueOps
  <2>3. Head(queue[t]) \in Served(queue[t]) /\ Head(queue[t]).by = h
    BY <1>3, <2>1 DEF Served, By
  <2>4. \A u \in Task \ {t} : Free(queue[u], h)
    BY <2>3 DEF RoutesInv, Queues, Apart, Free
  <2>. QED
    BY <2>1, <2>2, <2>4 DEF Served
<1>. QED
  BY <1>2, <1>3 DEF From

(* What callers, jobs and runs do to a queue.                               *)
PlainMove(q, p) ==
  \/ p = q
  \/ q # <<>> /\ p = Tail(q)
  \/ \E x : /\ x.op \notin HandlerOps
            /\ p = Append(q, x) \/ (q # <<>> /\ p = Append(Tail(q), x))

LEMMA PlainMoves ==
  ASSUME NEW q, NEW p, IsQueue(q), Once(q), PlainMove(q, p)
  PROVE  Once(p) /\ Served(p) \subseteq Served(q)
<1>1. ASSUME NEW w, IsQueue(w), Once(w), NEW x, x.op \notin HandlerOps
      PROVE  Once(Append(w, x)) /\ Served(Append(w, x)) \subseteq Served(w)
  <2>1. Items(Append(w, x)) = Items(w) \cup {x} /\ Once(Append(w, x))
    BY <1>1, ItemsOfQueue
  <2>. QED
    BY <1>1, <2>1 DEF Served
<1>2. q # <<>> => IsQueue(Tail(q)) /\ Once(Tail(q)) /\ Served(Tail(q)) \subseteq Served(q)
  BY ItemsOfQueue, QueueOps DEF Served
<1>. QED
  BY <1>1, <1>2 DEF PlainMove

LEMMA HandlerLeaves ==
  ASSUME RoutesInv, JobsInv, NEW h \in Handler, OnlyHandler(h), UNCHANGED owner,
         NEW t \in Task, NEW q, From(h, t, q), NEW p, PlainMove(q, p),
         queue' = [queue EXCEPT ![t] = p]
  PROVE  Queues'
<1>1. queue'[t] = p /\ \A u \in Task \ {t} : queue'[u] = queue[u]
  BY DEF JobsInv, OnTasks
<1>2. /\ IsQueue(q) /\ Once(q) /\ Served(q) \subseteq Served(queue[t]) /\ Free(q, h)
      /\ \A u \in Task \ {t} : Free(queue[u], h)
  BY OutOfTheQueues
<1>3. Once(p) /\ Served(p) \subseteq Served(q)
  BY <1>2, PlainMoves
<1>4. \A o \in Served(queue'[t]) : o.by # h /\ o \in Served(queue[t])
  BY <1>1, <1>2, <1>3 DEF Free
<1>. QED
  BY <1>1, <1>2, <1>3, <1>4, QueuesMove

LEMMA HandlerJoins ==
  ASSUME RoutesInv, JobsInv, NEW h \in Handler, OnlyHandler(h), UNCHANGED owner,
         NEW t \in Task, NEW q, From(h, t, q), NEW o \in HandlerOps, Serves(t, Op(o, h))',
         queue' = [queue EXCEPT ![t] = Append(q, Op(o, h))]
  PROVE  Queues'
<1>. DEFINE x == Op(o, h)
<1>1. x.op = o /\ x.by = h
  BY DEF Op
<1>2. queue'[t] = Append(q, x) /\ \A u \in Task \ {t} : queue'[u] = queue[u]
  BY DEF JobsInv, OnTasks
<1>3. /\ IsQueue(q) /\ Once(q) /\ Served(q) \subseteq Served(queue[t]) /\ Free(q, h)
      /\ \A u \in Task \ {t} : Free(queue[u], h)
  BY OutOfTheQueues
<1>. HIDE DEF x
<1>4. Once(queue'[t]) /\ Items(queue'[t]) = Items(q) \cup {x}
  <2>1. Items(Append(q, x)) = Items(q) \cup {x}
    BY <1>3, ItemsOfQueue
  <2>2. Free(q, x.by)
    BY <1>1, <1>3
  <2>3. Once(Append(q, x))
    BY <1>3, <2>2, ItemsOfQueue
  <2>. QED
    BY <1>2, <2>1, <2>3
<1>5. \A y \in Served(queue'[t]) : y = x \/ y \in Served(q)
  BY <1>4 DEF Served
<1>6. \A y \in Served(queue'[t]) : \/ y.by = h /\ Serves(t, y)'
                                   \/ y.by # h /\ y \in Served(queue[t])
  BY <1>1, <1>3, <1>5 DEF Free, x
<1>. QED
  BY <1>2, <1>3, <1>4, <1>6, QueuesMove

LEMMA HandlerStays ==
  ASSUME RoutesInv, JobsInv, NEW h \in Handler, OnlyHandler(h), UNCHANGED <<owner, queue>>,
         handler[h].at \notin Waiting
  PROVE  Queues'
<1>1. \A u \in Task : Free(queue[u], h)
  BY DEF RoutesInv, Queues, Paired, Serves, Served, Free, Waiting, HandlerOps
<1>2. CASE Task = {}
  BY <1>2 DEF Queues, Apart
<1>3. CASE Task # {}
  <2>1. PICK t \in Task : TRUE
    BY <1>3
  <2>. QED
    BY <1>1, <2>1, QueuesMove DEF Free, RoutesInv, Queues, Paired
<1>. QED
  BY <1>2, <1>3

(* A step that changes no handler: callers, jobs and runs come and go.      *)
LEMMA PlainStep ==
  ASSUME RoutesInv, JobsInv, UNCHANGED <<handler, decisions, inFlight>>, OwnersKept,
         owner' \in [Request -> Task \cup {"run", Nil}], execution' \subseteq Request,
         \A r \in execution' : r \in execution \/ owner'[r] # Nil,
         \A t \in Task : PlainMove(queue[t], queue'[t])
  PROVE  RoutesInv'
<1>1. Queues'
  <2>1. \A t \in Task : IsQueue(queue[t]) /\ Once(queue[t])
    BY DEF JobsInv, GoodTask, Good, GoodQueue, RoutesInv, Queues, Paired
  <2>. QED
    BY <2>1, PlainMoves, QueuesKeep
<1>2. RouteTypes'
  BY DEF RoutesInv, RouteTypes
<1>3. \A r \in Request : owner[r] # Nil => owner'[r] = owner[r]
  BY DEF OwnersKept
<1>4. ASSUME NEW h \in Handler PROVE Owned(h)'
  <2>1. Owned(h) /\ (handler[h].at \in Beginning => Active(h))
    BY DEF RoutesInv, Active, Beginning
  <2>. QED
    BY <1>3, <2>1 DEF Owned, Active
<1>5. ASSUME NEW r \in Request PROVE Counted(r)'
  <2>1. Counted(r)
    BY DEF RoutesInv
  <2>. QED
    BY <1>3, <2>1 DEF Counted, On, Active
<1>. QED
  BY <1>1, <1>2, <1>4, <1>5 DEF RoutesInv

(* A step of handler h, that takes up no request.                           *)
LEMMA HandlerStep ==
  ASSUME RoutesInv, NEW h \in Handler, Queues', NEW d \in Decision,
         handler' = [handler EXCEPT ![h] = d], UNCHANGED <<owner, decisions>>,
         execution' \subseteq execution, Owned(h)',
         d.at \notin {"none", "granting"} => Active(h) /\ d.id = handler[h].id,
         \A r \in inFlight' : \/ d.at = "calling" /\ r = d.id /\ r \in Request
                              \/ r \in inFlight /\ ~(handler[h].at = "calling" /\ r = handler[h].id)
  PROVE  RoutesInv'
<1>1. RouteTypes'
  BY DEF RoutesInv, RouteTypes
<1>2. handler'[h] = d /\ OnlyHandler(h)
  BY DEF RoutesInv, RouteTypes, OnlyHandler
<1>3. ASSUME NEW k \in Handler PROVE Owned(k)'
  <2>1. CASE k # h
    BY <1>2, <2>1 DEF RoutesInv, Owned, Active, OnlyHandler
  <2>. QED
    BY <2>1
<1>4. ASSUME NEW r \in Request PROVE Counted(r)'
  <2>1. Counted(r)
    BY DEF RoutesInv
  <2>2. \A k \in Handler : On(k, r)' => On(k, r)
    BY <1>2 DEF On, Active, OnlyHandler
  <2>3. ASSUME r \in inFlight' PROVE \E k \in Handler : handler'[k].at = "calling" /\ On(k, r)'
    <3>1. CASE d.at = "calling" /\ r = d.id
      BY <1>2, <3>1 DEF On, Active
    <3>2. CASE r \in inFlight /\ ~(handler[h].at = "calling" /\ r = handler[h].id)
      <4>1. PICK k \in Handler : handler[k].at = "calling" /\ On(k, r)
        BY <2>1, <3>2 DEF Counted
      <4>2. k # h
        BY <3>2, <4>1 DEF On
      <4>. QED
        BY <1>2, <4>1, <4>2 DEF OnlyHandler, On, Active
    <3>. QED
      BY <2>3, <3>1, <3>2
  <2>. QED
    BY <2>1, <2>2, <2>3 DEF Counted
<1>. QED
  BY <1>1, <1>3, <1>4 DEF RoutesInv

LEMMA PlainAt ==
  ASSUME RoutesInv, JobsInv, UNCHANGED <<handler, decisions, inFlight, owner, execution>>,
         NEW t \in Task, NEW p, PlainMove(queue[t], p), queue' = [queue EXCEPT ![t] = p]
  PROVE  RoutesInv'
<1>1. \A u \in Task : PlainMove(queue[u], queue'[u])
  BY DEF JobsInv, OnTasks, PlainMove
<1>2. \A r \in execution : r \in Request /\ owner[r] # Nil
  BY DEF RoutesInv, RouteTypes, Counted
<1>. QED
  BY <1>1, <1>2, PlainStep DEF OwnersKept, RoutesInv, RouteTypes

(* The operation at the head of a queue is that of a handler.               *)
LEMMA AtTheHead ==
  ASSUME RoutesInv, JobsInv, NEW t \in Task, queue[t] # <<>>,
         Head(queue[t]).op \in HandlerOps
  PROVE  /\ By(t) \in Handler /\ Serves(t, Head(queue[t]))
         /\ From(By(t), t, Tail(queue[t]))
<1>1. Head(queue[t]) \in Items(queue[t])
  BY ItemsOfQueue DEF JobsInv, GoodTask, Good, GoodQueue
<1>2. Serves(t, Head(queue[t]))
  BY <1>1 DEF RoutesInv, Queues, Paired, Served
<1>. QED
  BY <1>2 DEF Serves, By, From

(* The operations of a task.                                                *)
LEMMA PlainOperations ==
  ASSUME RoutesInv, JobsInv, NEW t \in Task,
         \/ Start(t) \/ Follow(t) \/ Running(t) \/ End(t) \/ Cancel(t) \/ Status(t)
         \/ Expire(t)
  PROVE  RoutesInv'
<1>1. UNCHANGED <<handler, decisions, inFlight, owner, execution>>
  BY DEF Start, Follow, Running, End, Cancel, Status, Resolves, Expire, approvals, observed
<1>2. queue[t] # <<>>
  BY DEF Start, Follow, Running, End, Cancel, Status, Expire, At
<1>3. \A o, b : o \in {"running", "end"} => Op(o, b).op \notin HandlerOps
  BY DEF Op, HandlerOps
<1>4. \E p : PlainMove(queue[t], p) /\ queue' = [queue EXCEPT ![t] = p]
  <2>1. CASE Leaves(t)
    BY <1>2, <2>1 DEF Leaves, PlainMove
  <2>2. CASE LeavesThen(t, Op("running", Nil)) \/ LeavesThen(t, Op("end", Nil))
    BY <1>2, <1>3, <2>2 DEF LeavesThen, PlainMove
  <2>3. CASE queue' = [queue EXCEPT ![t] = QueueAborted(t, Tail(@))]
    <3>1. PlainMove(queue[t], QueueAborted(t, Tail(queue[t])))
      BY <1>2, <1>3 DEF QueueAborted, PlainMove
    <3>. QED
      BY <2>3, <3>1
  <2>4. CASE Start(t) \/ Follow(t)
    BY <2>1, <2>2, <2>4 DEF Start, Submits, Dispatches, Follow
  <2>5. CASE Running(t) \/ End(t) \/ Cancel(t) \/ Status(t) \/ Expire(t)
    BY <2>1, <2>2, <2>3, <2>5 DEF Running, End, Cancel, Status, Expire
  <2>. QED
    BY <2>4, <2>5
<1>. QED
  BY <1>1, <1>4, PlainAt

(* What a handler does next: its task is settled, or it is done.            *)
NoNewCall(h) ==
  /\ UNCHANGED <<owner, decisions>> /\ execution' \subseteq execution
  /\ \A r \in inFlight' : r \in inFlight /\ ~(handler[h].at = "calling" /\ r = handler[h].id)

LEMMA SettlingKeeps ==
  ASSUME RoutesInv, JobsInv, NEW h \in Handler, NEW t \in Task, NEW q, From(h, t, q),
         Active(h), owner[handler[h].id] = t, NoNewCall(h),
         NEW at \in {"settling", "catching"}, NEW outcome \in {"completed", "failed", "unknown"},
         handler' = [handler EXCEPT ![h].at = at, ![h].outcome = outcome],
         queue' = [queue EXCEPT ![t] = Append(q, Op("settle", h))]
  PROVE  RoutesInv'
<1>. DEFINE d == [handler[h] EXCEPT !.at = at, !.outcome = outcome]
<1>1. /\ d \in Decision /\ d.at = at /\ d.id = handler[h].id /\ d.started = handler[h].started
      /\ handler' = [handler EXCEPT ![h] = d] /\ handler'[h] = d /\ OnlyHandler(h)
  BY DEF RoutesInv, RouteTypes, Decision, OnlyHandler
<1>. HIDE DEF d
<1>2. Serves(t, Op("settle", h))'
  BY <1>1 DEF Serves, Op, NoNewCall
<1>3. Queues'
  BY <1>1, <1>2, HandlerJoins DEF NoNewCall, HandlerOps
<1>4. Owned(h)'
  BY <1>1 DEF RoutesInv, Owned, Active, Beginning, NoNewCall
<1>. QED
  BY <1>1, <1>3, <1>4, HandlerStep DEF NoNewCall

LEMMA IdleIsADecision == Idle \in Decision /\ Idle.at = "none" /\ ~Idle.started
BY DEF Idle, Handling, Decision

LEMMA EndingKeeps ==
  ASSUME RoutesInv, JobsInv, NEW h \in Handler, Ends(h), NoNewCall(h),
         \/ UNCHANGED queue /\ handler[h].at \notin Waiting
         \/ \E t \in Task : \E q, p : /\ From(h, t, q) /\ PlainMove(q, p)
                                      /\ queue' = [queue EXCEPT ![t] = p]
  PROVE  RoutesInv'
<1>1. /\ handler' = [handler EXCEPT ![h] = Idle] /\ handler'[h] = Idle /\ OnlyHandler(h)
      /\ UNCHANGED owner
  BY DEF Ends, RoutesInv, RouteTypes, OnlyHandler, NoNewCall
<1>2. Queues'
  BY <1>1, HandlerLeaves, HandlerStays
<1>3. Owned(h)'
  BY <1>1, IdleIsADecision DEF Owned, Active, Beginning
<1>. QED
  BY <1>1, <1>2, <1>3, IdleIsADecision, HandlerStep DEF NoNewCall

(* The operations of handlers.                                              *)
LEMMA HandlerOperations ==
  ASSUME RoutesInv, JobsInv, NEW t \in Task, Decide(t) \/ Look(t) \/ Begin(t) \/ Settle(t)
  PROVE  RoutesInv'
<1>. PICK h : h = By(t)
  OBVIOUS
<1>. DEFINE q == Tail(queue[t])
<1>1. queue[t] # <<>> /\ Head(queue[t]).op \in HandlerOps
  BY DEF Decide, Look, Begin, Settle, At, HandlerOps
<1>2. h \in Handler /\ Serves(t, Head(queue[t])) /\ From(h, t, q)
  BY <1>1, AtTheHead
<1>3. handler[h] \in Decision /\ Owned(h)
  BY <1>2 DEF RoutesInv, RouteTypes
<1>4. PlainMove(q, q) /\ \A x : x.op \notin HandlerOps => PlainMove(q, Append(q, x))
  BY DEF PlainMove
<1>5. NoNewCall(h)
  <2>1. UNCHANGED <<owner, decisions, execution, inFlight>>
    BY DEF Decide, Look, Resolves, Begin, Settle, approvals, observed
  <2>2. handler[h].at # "calling"
    BY <1>1, <1>2 DEF Serves, By, HandlerOps
  <2>. QED
    BY <2>1, <2>2 DEF NoNewCall
<1>. HIDE DEF q
<1>6. CASE Ends(h) /\ (Leaves(t) \/ LeavesThen(t, Op("running", Nil)))
  <2>1. \E p : PlainMove(q, p) /\ queue' = [queue EXCEPT ![t] = p]
    BY <1>4, <1>6 DEF Leaves, LeavesThen, q, Op, HandlerOps
  <2>. QED
    BY <1>2, <1>5, <1>6, <2>1, EndingKeeps
<1>7. ASSUME Head(queue[t]).op # "decide", Catches(h, t), LeavesThen(t, Op("settle", h))
      PROVE  RoutesInv'
  <2>1. Active(h) /\ owner[handler[h].id] = t
    BY <1>1, <1>2, <1>7 DEF Serves, Active, By, HandlerOps
  <2>2. \E o \in {"completed", "failed", "unknown"} :
          handler' = [handler EXCEPT ![h].at = "catching", ![h].outcome = o]
    BY <1>7 DEF Catches
  <2>3. queue' = [queue EXCEPT ![t] = Append(q, Op("settle", h))]
    BY <1>7 DEF LeavesThen, q
  <2>. QED
    BY <1>2, <1>5, <2>1, <2>2, <2>3, SettlingKeeps
<1>8. CASE Decide(t)
  BY <1>6, <1>8 DEF Decide, Dispatches
<1>9. CASE Settle(t)
  BY <1>6, <1>7, <1>9 DEF Settle, At
<1>10. CASE Look(t)
  <2>1. /\ Head(queue[t]).op = "look" /\ handler[h].at = "looking"
        /\ owner[handler[h].id] = t
    BY <1>2, <1>10 DEF Look, At, Serves, Owned, By
  <2>2. CASE /\ handler[h].decision = "approved" /\ LeavesThen(t, Op("begin", h))
             /\ handler' = [handler EXCEPT ![h].at = "beginning"]
    <3>. DEFINE d == [handler[h] EXCEPT !.at = "beginning"]
    <3>1. /\ d \in Decision /\ d.at = "beginning" /\ d.id = handler[h].id
          /\ handler' = [handler EXCEPT ![h] = d] /\ handler'[h] = d /\ OnlyHandler(h)
          /\ d.started = handler[h].started
      BY <1>2, <1>3, <2>2 DEF RoutesInv, RouteTypes, Decision, OnlyHandler
    <3>. HIDE DEF d
    <3>2. queue' = [queue EXCEPT ![t] = Append(q, Op("begin", h))]
      BY <2>2 DEF LeavesThen, q
    <3>3. Serves(t, Op("begin", h))' /\ UNCHANGED owner
      BY <1>2, <1>5, <2>1, <3>1 DEF Serves, Op, NoNewCall
    <3>4. Queues'
      BY <1>2, <3>1, <3>2, <3>3, HandlerJoins DEF HandlerOps
    <3>5. Owned(h)' /\ Active(h)
      BY <1>3, <2>1, <3>1, <3>3 DEF Owned, Active, Beginning
    <3>. QED
      BY <1>2, <1>5, <3>1, <3>4, <3>5, HandlerStep DEF NoNewCall
  <2>3. CASE /\ handler[h].decision # "approved" /\ Leaves(t)
             /\ handler' = [handler EXCEPT ![h].at = "deciding"]
    <3>. DEFINE d == [handler[h] EXCEPT !.at = "deciding"]
    <3>1. /\ d \in Decision /\ d.at = "deciding" /\ d.id = handler[h].id
          /\ d.decision # "approved" /\ d.started = handler[h].started
          /\ handler' = [handler EXCEPT ![h] = d] /\ handler'[h] = d /\ OnlyHandler(h)
      BY <1>2, <1>3, <2>3 DEF RoutesInv, RouteTypes, Decision, OnlyHandler
    <3>. HIDE DEF d
    <3>2. Queues' /\ UNCHANGED owner
      BY <1>2, <1>4, <1>5, <2>3, <3>1, HandlerLeaves DEF Leaves, q, NoNewCall
    <3>3. Owned(h)' /\ Active(h)
      BY <1>3, <2>1, <3>1, <3>2 DEF Owned, Active, Beginning
    <3>. QED
      BY <1>2, <1>5, <3>1, <3>2, <3>3, HandlerStep DEF NoNewCall
  <2>. QED
    BY <1>7, <1>10, <2>1, <2>2, <2>3 DEF Look
<1>11. CASE Begin(t)
  <2>1. /\ Head(queue[t]).op = "begin" /\ handler[h].at = "beginning"
        /\ owner[handler[h].id] = t
    BY <1>2, <1>11 DEF Begin, At, Serves, Owned, By
  <2>2. CASE /\ Leaves(t)
             /\ handler' = [handler EXCEPT ![h].at = "deciding", ![h].started = TRUE]
    <3>. DEFINE d == [handler[h] EXCEPT !.at = "deciding", !.started = TRUE]
    <3>1. /\ d \in Decision /\ d.at = "deciding" /\ d.id = handler[h].id /\ d.started
          /\ handler' = [handler EXCEPT ![h] = d] /\ handler'[h] = d /\ OnlyHandler(h)
      BY <1>2, <1>3, <2>2 DEF RoutesInv, RouteTypes, Decision, OnlyHandler
    <3>. HIDE DEF d
    <3>2. Queues' /\ UNCHANGED owner
      BY <1>2, <1>4, <1>5, <2>2, <3>1, HandlerLeaves DEF Leaves, q, NoNewCall
    <3>3. Owned(h)' /\ Active(h)
      BY <1>3, <2>1, <3>1, <3>2 DEF Owned, Active, Beginning
    <3>. QED
      BY <1>2, <1>5, <3>1, <3>2, <3>3, HandlerStep DEF NoNewCall
  <2>. QED
    BY <1>7, <1>11, <2>1, <2>2 DEF Begin
<1>. QED
  BY <1>8, <1>9, <1>10, <1>11

LEMMA FailureKeeps ==
  ASSUME RoutesInv, JobsInv, NEW t \in Task, OperationFails(t)
  PROVE  RoutesInv'
<1>. PICK h : h = By(t)
  OBVIOUS
<1>. DEFINE op == Head(queue[t]).op
<1>1. queue[t] # <<>> /\ UNCHANGED <<owner, decisions, execution, inFlight>>
  BY DEF OperationFails, approvals, observed
<1>2. CASE UNCHANGED handler /\ (Leaves(t) \/ LeavesThen(t, Op("end", Nil)))
  <2>1. Op("end", Nil).op \notin HandlerOps
    BY DEF Op, HandlerOps
  <2>2. \E p : PlainMove(queue[t], p) /\ queue' = [queue EXCEPT ![t] = p]
    BY <1>1, <1>2, <2>1 DEF Leaves, LeavesThen, PlainMove
  <2>. QED
    BY <1>1, <1>2, <2>2, PlainAt
<1>3. CASE op \in HandlerOps
  <2>1. h \in Handler /\ Serves(t, Head(queue[t])) /\ From(h, t, Tail(queue[t]))
    BY <1>1, <1>3, AtTheHead
  <2>2. handler[h].at # "calling"
    BY <1>3, <2>1 DEF Serves, By, HandlerOps
  <2>3. NoNewCall(h)
    BY <1>1, <2>2 DEF NoNewCall
  <2>4. CASE Ends(h) /\ Leaves(t)
    <3>1. PlainMove(Tail(queue[t]), Tail(queue[t]))
      BY DEF PlainMove
    <3>. QED
      BY <2>1, <2>3, <2>4, <3>1, EndingKeeps DEF Leaves
  <2>5. CASE op # "decide" /\ Catches(h, t) /\ LeavesThen(t, Op("settle", h))
    <3>1. Active(h) /\ owner[handler[h].id] = t
      BY <1>3, <2>1, <2>5 DEF Serves, Active, By, HandlerOps
    <3>2. \E o \in {"completed", "failed", "unknown"} :
            handler' = [handler EXCEPT ![h].at = "catching", ![h].outcome = o]
      BY <2>5 DEF Catches
    <3>. QED
      BY <2>1, <2>3, <2>5, <3>1, <3>2, SettlingKeeps DEF LeavesThen
  <2>. QED
    BY <1>3, <2>4, <2>5 DEF OperationFails, HandlerOps
<1>4. CASE op \notin HandlerOps
  BY <1>2, <1>4 DEF OperationFails, HandlerOps
<1>. QED
  BY <1>3, <1>4

(* The steps of the route between the operations.                           *)
LEMMA ToTheLedger ==
  ASSUME RoutesInv, JobsInv, NEW h \in Handler, handler[h].at \in Beginning, NoNewCall(h),
         Throws(h) \/ \E o \in {"completed", "failed", "unknown"} : ToSettle(h, o)
  PROVE  RoutesInv'
<1>1. Active(h) /\ handler[h].at \notin Waiting
  BY DEF Active, Beginning, Waiting
<1>2. CASE owner[handler[h].id] \in Task
  <2>. DEFINE t == owner[handler[h].id]
  <2>1. From(h, t, queue[t])
    BY <1>1 DEF From
  <2>2. \E at \in {"settling", "catching"}, o \in {"completed", "failed", "unknown"} :
          handler' = [handler EXCEPT ![h].at = at, ![h].outcome = o]
    BY <1>2 DEF Throws, ToSettle, Catches
  <2>3. queue' = [queue EXCEPT ![t] = Append(queue[t], Op("settle", h))]
    BY <1>2 DEF Throws, ToSettle, Joins
  <2>. QED
    BY <1>1, <1>2, <2>1, <2>2, <2>3, SettlingKeeps
<1>3. CASE owner[handler[h].id] \notin Task
  <2>1. Ends(h) /\ UNCHANGED queue
    BY <1>3 DEF Throws, ToSettle
  <2>. QED
    BY <1>1, <2>1, EndingKeeps
<1>. QED
  BY <1>2, <1>3

LEMMA RouteSteps ==
  ASSUME RoutesInv, JobsInv, NEW h \in Handler, Routes(h)
  PROVE  RoutesInv'
<1>1. UNCHANGED <<owner, decisions>>
  BY DEF Routes, Approves, Executes, CallEnds, RouteOnly
<1>2. execution' \subseteq execution
  BY DEF Routes, Approves, Executes, CallEnds, Decides, RefusesDecision, Consumes,
         RefusesLapsed, RefusesUse, approvals
<1>3. handler[h] \in Decision /\ Owned(h)
  BY DEF RoutesInv, RouteTypes
<1>4. ASSUME handler[h].at \in Beginning, NEW at \in {"executing", "calling"},
             handler' = [handler EXCEPT ![h].at = at], UNCHANGED queue,
             handler[h].decision = "approved",
             inFlight' = IF at = "calling" THEN inFlight \cup {handler[h].id} ELSE inFlight,
             handler[h].at # "calling"
      PROVE  RoutesInv'
  <2>. DEFINE d == [handler[h] EXCEPT !.at = at]
  <2>1. /\ d \in Decision /\ d.at = at /\ d.id = handler[h].id
        /\ d.decision = "approved" /\ d.started = handler[h].started
        /\ handler' = [handler EXCEPT ![h] = d] /\ handler'[h] = d /\ OnlyHandler(h)
    BY <1>3, <1>4 DEF RoutesInv, RouteTypes, Decision, OnlyHandler
  <2>. HIDE DEF d
  <2>2. Queues'
    BY <1>1, <1>4, <2>1, HandlerStays DEF Beginning, Waiting
  <2>3. Owned(h)' /\ Active(h)
    BY <1>1, <1>3, <1>4, <2>1 DEF Owned, Active, Beginning
  <2>4. \A r \in inFlight' : \/ d.at = "calling" /\ r = d.id /\ r \in Request
                             \/ r \in inFlight /\ ~(handler[h].at = "calling" /\ r = handler[h].id)
    BY <1>3, <1>4, <2>1, <2>3 DEF Owned
  <2>. QED
    BY <1>1, <1>2, <2>1, <2>2, <2>3, <2>4, HandlerStep
<1>5. CASE Approves(h)
  <2>1. handler[h].at = "deciding" /\ UNCHANGED inFlight
    BY <1>5 DEF Approves, HandlerAt
  <2>2. NoNewCall(h)
    BY <1>1, <1>2, <2>1 DEF NoNewCall
  <2>3. handler[h].decision \in {"approved", "denied"}
    BY <1>3 DEF Decision
  <2>. QED
    BY <1>4, <1>5, <2>1, <2>2, <2>3, ToTheLedger DEF Approves, Beginning
<1>6. CASE Executes(h)
  <2>1. handler[h].at = "executing" /\ handler[h].decision = "approved"
    BY <1>3, <1>6 DEF Executes, HandlerAt, Owned
  <2>2. CASE Throws(h) /\ UNCHANGED inFlight
    BY <1>1, <1>2, <2>1, <2>2, ToTheLedger DEF Beginning, NoNewCall
  <2>. QED
    BY <1>4, <1>6, <2>1, <2>2 DEF Executes, Beginning
<1>7. CASE CallEnds(h)
  <2>1. NoNewCall(h) /\ handler[h].at \in Beginning
    BY <1>1, <1>2, <1>7 DEF CallEnds, HandlerAt, NoNewCall, Beginning
  <2>. QED
    BY <1>7, <2>1, ToTheLedger DEF CallEnds
<1>. QED
  BY <1>5, <1>6, <1>7 DEF Routes

(* A request arrives: its handler joins a queue, or goes straight to the    *)
(* decision, and the request was asked for.                                 *)
LEMMA ReceivingKeeps ==
  ASSUME RoutesInv, JobsInv, NEW h \in Handler, NEW id \in Id,
         NEW decision \in {"approved", "denied"}, Receives(h, id, decision)
  PROVE  RoutesInv'
<1>1. handler[h].at = "none" /\ UNCHANGED <<owner, execution, inFlight>>
  BY DEF Receives, approvals
<1>2. \A at : Handling(id, decision, at).id = id /\ ~Handling(id, decision, at).started
              /\ Handling(id, decision, at).at = at
  BY DEF Handling
<1>3. \A at \in {"granting", "looking", "deciding"} : Handling(id, decision, at) \in Decision
  BY DEF Handling, Decision
<1>4. \A t \in Task : From(h, t, queue[t])
  BY <1>1 DEF From, Waiting
<1>5. ASSUME NEW t \in Task, handler' = [handler EXCEPT ![h] = Handling(id, decision, "granting")],
             Joins(t, Op("decide", h)), UNCHANGED decisions
      PROVE  RoutesInv'
  <2>1. handler'[h] = Handling(id, decision, "granting") /\ OnlyHandler(h)
    BY <1>5 DEF RoutesInv, RouteTypes, OnlyHandler
  <2>2. Serves(t, Op("decide", h))'
    BY <1>2, <2>1 DEF Serves, Op
  <2>3. Queues'
    BY <1>1, <1>4, <1>5, <2>1, <2>2, HandlerJoins DEF Joins, HandlerOps
  <2>4. Owned(h)'
    BY <1>2, <2>1 DEF Owned, Active, Beginning
  <2>. QED
    BY <1>1, <1>2, <1>3, <1>5, <2>3, <2>4, HandlerStep
<1>6. ASSUME id \in execution, NEW at \in {"looking", "deciding"},
             handler' = [handler EXCEPT ![h] = Handling(id, decision, at)], Queues',
             at = "deciding" => owner[id] \notin Task,
             decisions' = [decisions EXCEPT ![id] = IF @ = 0 THEN 1 ELSE 2]
      PROVE  RoutesInv'
  <2>1. handler'[h] = Handling(id, decision, at) /\ OnlyHandler(h) /\ RouteTypes'
    BY <1>1, <1>3, <1>6 DEF RoutesInv, RouteTypes, OnlyHandler
  <2>2. id \in Request /\ owner[id] # Nil
    BY <1>6 DEF RoutesInv, RouteTypes, Counted
  <2>3. ASSUME NEW k \in Handler PROVE Owned(k)'
    <3>1. CASE k = h
      BY <1>1, <1>2, <1>6, <2>1, <2>2, <3>1 DEF Owned, Active, Beginning
    <3>2. CASE k # h
      BY <1>1, <2>1, <3>2 DEF RoutesInv, Owned, Active, OnlyHandler
    <3>. QED
      BY <3>1, <3>2
  <2>4. ASSUME NEW r \in Request PROVE Counted(r)'
    <3>1. Counted(r) /\ \A k \in Handler \ {h} : On(k, r)' <=> On(k, r)
      BY <2>1 DEF RoutesInv, On, Active, OnlyHandler
    <3>2. On(h, r)' => r = id
      BY <1>2, <2>1 DEF On
    <3>3. ~On(h, r)
      BY <1>1 DEF On, Active
    <3>4. decisions[r] \in 0..2 /\ (r # id => decisions'[r] = decisions[r])
          /\ (r = id => decisions'[r] = IF decisions[r] = 0 THEN 1 ELSE 2)
      BY <1>6 DEF RoutesInv, RouteTypes
    <3>5. /\ decisions'[r] = 0 => \A k \in Handler : ~On(k, r)'
          /\ decisions'[r] = 1 => \A j, k \in Handler : On(j, r)' /\ On(k, r)' => j = k
      BY <3>1, <3>2, <3>3, <3>4 DEF Counted
    <3>6. r \in inFlight' => \E k \in Handler : handler'[k].at = "calling" /\ On(k, r)'
      BY <1>1, <2>1, <3>1, <3>3 DEF Counted, OnlyHandler
    <3>. QED
      BY <1>1, <3>1, <3>5, <3>6 DEF Counted
  <2>. QED
    BY <1>6, <2>1, <2>3, <2>4 DEF RoutesInv
<1>7. CASE owner[id] \in Task /\ id \in execution
           /\ handler' = [handler EXCEPT ![h] = Handling(id, decision, "looking")]
           /\ Joins(owner[id], Op("look", h))
           /\ decisions' = [decisions EXCEPT ![id] = IF @ = 0 THEN 1 ELSE 2]
  <2>. PICK t \in Task : t = owner[id]
    BY <1>7
  <2>1. handler'[h] = Handling(id, decision, "looking") /\ OnlyHandler(h)
    BY <1>7 DEF RoutesInv, RouteTypes, OnlyHandler
  <2>2. Serves(t, Op("look", h))'
    BY <1>1, <1>2, <2>1 DEF Serves, Op
  <2>3. queue' = [queue EXCEPT ![t] = Append(queue[t], Op("look", h))]
    BY <1>7 DEF Joins
  <2>4. Queues'
    BY <1>1, <1>4, <2>1, <2>2, <2>3, HandlerJoins DEF HandlerOps
  <2>. QED
    BY <1>6, <1>7, <2>4
<1>8. CASE owner[id] \notin Task /\ id \in execution
           /\ handler' = [handler EXCEPT ![h] = Handling(id, decision, "deciding")]
           /\ UNCHANGED queue
           /\ decisions' = [decisions EXCEPT ![id] = IF @ = 0 THEN 1 ELSE 2]
  <2>1. OnlyHandler(h)
    BY <1>8 DEF RoutesInv, RouteTypes, OnlyHandler
  <2>2. Queues'
    BY <1>1, <1>8, <2>1, HandlerStays DEF Waiting
  <2>. QED
    BY <1>6, <1>8, <2>2
<1>. QED
  BY <1>5, <1>7, <1>8 DEF Receives

LEMMA PlainNowhere ==
  ASSUME RoutesInv, JobsInv,
         UNCHANGED <<handler, decisions, inFlight, owner, queue>>, execution' \subseteq execution
  PROVE  RoutesInv'
<1>1. \A r \in execution : r \in Request /\ owner[r] # Nil
  BY DEF RoutesInv, RouteTypes, Counted
<1>. QED
  BY <1>1, PlainStep DEF OwnersKept, RoutesInv, RouteTypes, PlainMove

(* A request is asked for, by a task or an Agent run.                       *)
LEMMA AskingIsPlain ==
  ASSUME RoutesInv, JobsInv, UNCHANGED <<handler, decisions, inFlight, queue>>,
         NEW r \in Request, NEW who \in Task \cup {"run"}, owner[r] = Nil,
         owner' = [owner EXCEPT ![r] = who], execution' = execution \cup {r}
  PROVE  RoutesInv'
<1>1. who # Nil /\ owner \in [Request -> Task \cup {"run", Nil}] /\ execution \subseteq Request
  BY BoundsAssumption DEF RoutesInv, RouteTypes
<1>2. \A q \in execution : owner[q] # Nil
  BY <1>1 DEF RoutesInv, Counted
<1>3. \A q \in execution' : q \in execution \/ owner'[q] # Nil
  BY <1>1
<1>. QED
  BY <1>1, <1>3, PlainStep DEF OwnersKept, PlainMove

LEMMA RunsArePlain ==
  ASSUME RoutesInv, JobsInv, NEW t \in Task, Runs(t)
  PROVE  RoutesInv'
<1>1. UNCHANGED <<handler, decisions, inFlight>>
  BY DEF Runs, RunThrows, RunOpens, RunPrompts, RunVerifies, RunAsks, RunAnswers, RunCloses,
         NothingElse, observed
<1>2. CASE RunAsks(t)
  <2>1. UNCHANGED queue
    BY <1>2 DEF RunAsks
  <2>2. CASE UNCHANGED <<approvals, owner>>
    BY <1>1, <2>1, <2>2, PlainNowhere DEF approvals
  <2>3. ASSUME NEW r \in Request, NEW written, owner[r] = Nil,
               owner' = [owner EXCEPT ![r] = t], AsksApproval(r, written)
        PROVE  RoutesInv'
    BY <1>1, <2>1, <2>3, AskingIsPlain DEF AsksApproval
  <2>. QED
    BY <1>2, <2>2, <2>3 DEF RunAsks
<1>3. CASE Runs(t) /\ ~RunAsks(t)
  <2>1. UNCHANGED <<owner, execution>>
    BY <1>3 DEF Runs, RunThrows, RunOpens, RunPrompts, RunVerifies, RunAnswers, RunCloses,
                approvals
  <2>2. UNCHANGED queue \/ Joins(t, Op("end", Nil))
    BY <1>3 DEF Runs, RunThrows, RunOpens, RunPrompts, RunVerifies, RunAnswers, RunCloses
  <2>3. \A q : PlainMove(q, Append(q, Op("end", Nil)))
    BY DEF PlainMove, Op, HandlerOps
  <2>. QED
    BY <1>1, <2>1, <2>2, <2>3, PlainNowhere, PlainAt DEF Joins
<1>. QED
  BY <1>2, <1>3

LEMMA RoutesStep ==
  ASSUME RoutesInv, JobsInv, [Next]_vars
  PROVE  RoutesInv'
<1>1. ASSUME NEW t \in Task, CallsAny(t) \/ ListsApprovals(t) \/ TimesOut(t) \/ DeadlinePasses(t)
      PROVE  RoutesInv'
  <2>1. UNCHANGED <<handler, decisions, inFlight, owner, execution>>
    BY <1>1 DEF CallsAny, Calls, ListsApprovals, TimesOut, DeadlinePasses, approvals, observed
  <2>2. CASE CallsAny(t) \/ ListsApprovals(t)
    <3>1. \E o, b : o \in {"start", "cancel", "status", "followUp", "expire"}
                    /\ Joins(t, Op(o, b))
      BY <2>2 DEF CallsAny, Calls, ListsApprovals
    <3>2. \A o, b, q : o \in {"start", "cancel", "status", "followUp", "expire"} =>
                         PlainMove(q, Append(q, Op(o, b)))
      BY DEF PlainMove, Op, HandlerOps
    <3>3. PICK o, b : o \in {"start", "cancel", "status", "followUp", "expire"}
                      /\ Joins(t, Op(o, b))
      BY <3>1
    <3>. DEFINE p == Append(queue[t], Op(o, b))
    <3>4. PlainMove(queue[t], p)
      BY <3>2, <3>3
    <3>5. queue' = [queue EXCEPT ![t] = p]
      BY <3>3 DEF Joins
    <3>. HIDE DEF p
    <3>. QED
      BY <2>1, <3>4, <3>5, PlainAt
  <2>3. CASE TimesOut(t)
    <3>1. PlainMove(queue[t], QueueAborted(t, queue[t]))
      BY DEF PlainMove, QueueAborted, Op, HandlerOps
    <3>. QED
      BY <2>1, <2>3, <3>1, PlainAt DEF TimesOut
  <2>4. CASE DeadlinePasses(t)
    BY <2>1, <2>4, PlainNowhere DEF DeadlinePasses
  <2>. QED
    BY <1>1, <2>2, <2>3, <2>4
<1>2. CASE \E r \in Request, written \in BOOLEAN : AgentRunAsks(r, written)
  <2>1. PICK r \in Request, written \in BOOLEAN : AgentRunAsks(r, written)
    BY <1>2
  <2>. QED
    BY <2>1, AskingIsPlain DEF AgentRunAsks, AsksApproval, tasks, observed
<1>3. CASE \E written \in BOOLEAN : AgentRunCancelled(written) \/ ListsRequests(written)
  <2>1. /\ UNCHANGED <<handler, decisions, inFlight, owner, queue>>
        /\ execution' \subseteq execution
    BY <1>3 DEF AgentRunCancelled, CancelsRun, ListsRequests, ListsPending, tasks, observed
  <2>. QED
    BY <2>1, PlainNowhere
<1>4. CASE (\E r \in Request : TimePasses(r)) \/ UNCHANGED vars
  BY <1>4, PlainNowhere DEF TimePasses, Lapses, vars, tasks, observed, approvals
<1>5. CASE Close
  <2>1. \A t \in Task : PlainMove(queue[t], queue'[t])
    BY <1>5 DEF Close, PlainMove, QueueAborted, Op, HandlerOps
  <2>2. UNCHANGED <<handler, decisions, inFlight, owner, execution>>
    BY <1>5 DEF Close, approvals, observed
  <2>3. \A r \in execution : r \in Request /\ owner[r] # Nil
    BY DEF RoutesInv, RouteTypes, Counted
  <2>. QED
    BY <2>1, <2>2, <2>3, PlainStep DEF OwnersKept, RoutesInv, RouteTypes
<1>6. CASE Restart
  <2>1. /\ \A h \in Handler : handler'[h] = Idle
        /\ handler' \in [Handler -> Decision] /\ UNCHANGED <<owner, decisions>>
        /\ execution' = {} /\ inFlight' = {} /\ \A t \in Task : queue'[t] = <<>>
    BY <1>6, IdleIsADecision DEF Restart, Opens
  <2>2. Once(<<>>) /\ Served(<<>>) = {}
    BY DEF Once, Served, Items
  <2>3. Queues'
    BY <2>1, <2>2 DEF Queues, Paired, Apart
  <2>4. \A h \in Handler : Owned(h)' /\ ~Active(h)'
    BY <2>1, IdleIsADecision DEF Owned, Active, Beginning
  <2>5. \A r \in Request : Counted(r)'
    BY <2>1, <2>4 DEF Counted, On
  <2>. QED
    BY <2>1, <2>3, <2>4, <2>5 DEF RoutesInv, RouteTypes
<1>7. ASSUME NEW t \in Task, Operates(t) PROVE RoutesInv'
  BY <1>7, PlainOperations, HandlerOperations, FailureKeeps DEF Operates
<1>. QED
  BY <1>1, <1>2, <1>3, <1>4, <1>5, <1>6, <1>7, RunsArePlain, ReceivingKeeps, RouteSteps DEF Next

LEMMA RoutesInit == Init => RoutesInv
<1>. SUFFICES ASSUME Init PROVE RoutesInv
  OBVIOUS
<1>1. /\ \A h \in Handler : handler[h] = Idle
      /\ handler \in [Handler -> Decision] /\ owner \in [Request -> Task \cup {"run", Nil}]
      /\ decisions \in [Request -> 0..2]
      /\ execution = {} /\ inFlight = {} /\ \A t \in Task : queue[t] = <<>>
  BY IdleIsADecision DEF Init, ApprovalsInit
<1>2. Once(<<>>) /\ Served(<<>>) = {}
  BY DEF Once, Served, Items
<1>3. Queues
  BY <1>1, <1>2 DEF Queues, Paired, Apart
<1>4. \A h \in Handler : Owned(h) /\ ~Active(h)
  BY <1>1, IdleIsADecision DEF Owned, Active, Beginning
<1>5. \A r \in Request : Counted(r)
  BY <1>1, <1>4 DEF Counted, On
<1>. QED
  BY <1>1, <1>3, <1>4, <1>5 DEF RoutesInv, RouteTypes

LEMMA RoutesHold == Spec => [](RoutesInv /\ JobsInv)
<1>1. RoutesInv /\ JobsInv /\ [Next]_vars => RoutesInv'
  BY RoutesStep
<1>. QED
  BY <1>1, RoutesInit, JobsHold, PTL DEF Spec

-----------------------------------------------------------------------------
(* Types, and the grants they rest on.  A record that waits without a grant *)
(* asks for one; every other wait is for a request.  A record that may be   *)
(* worked under has the grant it needs, and so have its job and its run.    *)

LEMMA TurnOfSeen ==
  /\ \A seen \in SUBSET FollowUp : IsFiniteSet(seen) /\ Cardinality(seen) \in Turn
  /\ 0 \in Turn /\ Turn \subseteq Nat
<1>1. Cardinality(FollowUp) \in Nat
  BY BoundsAssumption, FS_CardinalityType
<1>2. ASSUME NEW seen \in SUBSET FollowUp PROVE IsFiniteSet(seen) /\ Cardinality(seen) \in Turn
  <2>1. IsFiniteSet(seen) /\ Cardinality(seen) <= Cardinality(FollowUp)
    BY BoundsAssumption, FS_Subset
  <2>2. Cardinality(seen) \in Nat
    BY <2>1, FS_CardinalityType
  <2>. QED
    BY <1>1, <2>1, <2>2 DEF Turn
<1>. QED
  BY <1>1, <1>2 DEF Turn

Waits(l) ==
  l.status = "waiting_approval" => l.needs /\ (l.asks \in Grant <=> l.grant = Nil)
Allowed(l) ==
  /\ l.status \in {"accepted", "running", "unknown"} /\ l.needs => l.grant # Nil
  /\ l.grant # Nil => l.needs
Needed(l, s, j, n) ==
  /\ s.status = "waiting_approval" => l.needs
  /\ j.result.status = "waiting_approval" => l.needs
  /\ n.grant # Nil => l.needs
  /\ n.asked # Nil \/ n.at = "asking" => n.grant # Nil
Captured(l, j) ==
  j.at # "none" => /\ j.rec.needs = l.needs /\ j.rec.grant = l.grant /\ j.rec.seen = l.seen
                   /\ j.rec.needs => j.rec.grant # Nil
Answered(s, n) == n.at = "closing" => s.status \notin {"absent", "running"}
Sound(l, s, j, n) ==
  /\ l \in Record /\ s \in State /\ j \in Job /\ n \in Run
  /\ l.status = "absent" => l = NoRecord
  /\ Waits(l) /\ Allowed(l) /\ Needed(l, s, j, n) /\ Captured(l, j) /\ Answered(s, n)

Asks(o) == /\ o \in Queued
           /\ o.op = "expire" => o.by \in Grant
           /\ o.op = "followUp" => o.by \in FollowUp
Asking == {o \in Queued : Asks(o)}

TaskTypes == /\ ledger \in [Task -> Record] /\ state \in [Task -> State]
             /\ job \in [Task -> Job] /\ run \in [Task -> Run]
             /\ queue \in [Task -> Seq(Asking)]
SoundTask(t) == Sound(ledger[t], state[t], job[t], run[t])
GrantsInv == TaskTypes /\ \A t \in Task : SoundTask(t)

LEMMA IdsApart ==
  /\ Nil \notin Request /\ Nil \notin Grant
  /\ \A r \in Request : r \notin Grant
BY IdsAssumption DEF Id

LEMMA NothingIsSound ==
  /\ NoRecord \in Record /\ NoState \in State /\ NoJob \in Job /\ NoRun \in Run
  /\ Sound(NoRecord, NoState, NoJob, NoRun)
<1>1. NoRecord \in Record
  BY DEF NoRecord, Record
<1>2. NoState \in State
  BY TurnOfSeen DEF NoState, State
<1>3. NoJob \in Job
  BY <1>1 DEF NoJob, Job, NoResult
<1>4. NoRun \in Run
  BY TurnOfSeen DEF NoRun, Run
<1>5. Waits(NoRecord) /\ Allowed(NoRecord) /\ Needed(NoRecord, NoState, NoJob, NoRun)
  BY DEF Waits, Allowed, Needed, NoRecord, NoState, NoJob, NoRun, NoResult
<1>6. Captured(NoRecord, NoJob) /\ Answered(NoState, NoRun)
  BY DEF Captured, Answered, NoJob, NoRun
<1>. QED
  BY <1>1, <1>2, <1>3, <1>4, <1>5, <1>6 DEF Sound

(* A step of task t: what its record, state, job, run and queue become.     *)
Becomes(t, l, s, j, n) ==
  /\ ledger' = [ledger EXCEPT ![t] = l] /\ state' = [state EXCEPT ![t] = s]
  /\ job' = [job EXCEPT ![t] = j] /\ run' = [run EXCEPT ![t] = n]

LEMMA Unchanged ==
  ASSUME TaskTypes, NEW t \in Task
  PROVE  /\ UNCHANGED ledger => ledger' = [ledger EXCEPT ![t] = ledger[t]]
         /\ UNCHANGED state => state' = [state EXCEPT ![t] = state[t]]
         /\ UNCHANGED job => job' = [job EXCEPT ![t] = job[t]]
         /\ UNCHANGED run => run' = [run EXCEPT ![t] = run[t]]
BY DEF TaskTypes

LEMMA Becoming ==
  ASSUME GrantsInv, NEW t \in Task, NEW l, NEW s, NEW j, NEW n,
         Becomes(t, l, s, j, n), Sound(l, s, j, n), queue' \in [Task -> Seq(Asking)]
  PROVE  GrantsInv'
<1>1. l \in Record /\ s \in State /\ j \in Job /\ n \in Run
  BY DEF Sound
<1>2. TaskTypes'
  BY <1>1 DEF GrantsInv, TaskTypes, Becomes
<1>3. /\ ledger'[t] = l /\ state'[t] = s /\ job'[t] = j /\ run'[t] = n
      /\ \A u \in Task \ {t} : /\ ledger'[u] = ledger[u] /\ state'[u] = state[u]
                               /\ job'[u] = job[u] /\ run'[u] = run[u]
  BY DEF GrantsInv, TaskTypes, Becomes
<1>4. ASSUME NEW u \in Task PROVE SoundTask(u)'
  BY <1>3 DEF GrantsInv, SoundTask
<1>. QED
  BY <1>2, <1>4 DEF GrantsInv

(* The queues hold operations, whoever joins or leaves them.                *)
LEMMA QueueTypes ==
  ASSUME GrantsInv, NEW t \in Task, NEW q \in Seq(Asking),
         \/ UNCHANGED queue
         \/ queue' = [queue EXCEPT ![t] = q]
         \/ \E x \in Asking : queue' = [queue EXCEPT ![t] = Append(q, x)]
  PROVE  queue' \in [Task -> Seq(Asking)]
<1>1. \A x \in Asking : Append(q, x) \in Seq(Asking)
  OBVIOUS
<1>. QED
  BY <1>1 DEF GrantsInv, TaskTypes

LEMMA OpTypes ==
  /\ \A o \in {"start", "cancel", "status", "running", "end"} : Op(o, Nil) \in Asking
  /\ \A f \in FollowUp : Op("followUp", f) \in Asking
  /\ \A g \in Grant : Op("expire", g) \in Asking
  /\ \A o \in HandlerOps, h \in Handler : Op(o, h) \in Asking
BY DEF Op, Asking, Asks, Queued, Id, HandlerOps

LEMMA Queue ==
  ASSUME GrantsInv, NEW t \in Task
  PROVE  /\ queue[t] \in Seq(Asking)
         /\ queue[t] # <<>> => /\ Tail(queue[t]) \in Seq(Asking) /\ Asks(Head(queue[t]))
<1>1. queue[t] \in Seq(Asking)
  BY DEF GrantsInv, TaskTypes
<1>2. queue[t] # <<>> => Tail(queue[t]) \in Seq(Asking) /\ Head(queue[t]) \in Asking
  BY <1>1
<1>. QED
  BY <1>1, <1>2 DEF Asking

LEMMA QueuesTyped ==
  ASSUME GrantsInv, RoutesInv, JobsInv, [Next]_vars
  PROVE  queue' \in [Task -> Seq(Asking)]
<1>1. ASSUME NEW t \in Task, NEW x \in Asking,
             Joins(t, x) \/ (LeavesThen(t, x) /\ queue[t] # <<>>)
      PROVE  queue' \in [Task -> Seq(Asking)]
  <2>1. PICK q \in Seq(Asking) : queue' = [queue EXCEPT ![t] = Append(q, x)]
    BY <1>1, Queue DEF Joins, LeavesThen
  <2>. QED
    BY <2>1, QueueTypes
<1>2. ASSUME NEW t \in Task, Leaves(t), queue[t] # <<>>
      PROVE  queue' \in [Task -> Seq(Asking)]
  BY <1>2, Queue, QueueTypes DEF Leaves
<1>3. CASE UNCHANGED queue
  BY <1>3 DEF GrantsInv, TaskTypes
<1>4. ASSUME NEW t \in Task, NEW q \in Seq(Asking)
      PROVE  QueueAborted(t, q) \in Seq(Asking)
  BY <1>4, OpTypes DEF QueueAborted
<1>5. ASSUME NEW t \in Task, CallsAny(t) \/ ListsApprovals(t) \/ TimesOut(t) \/ DeadlinePasses(t)
      PROVE  queue' \in [Task -> Seq(Asking)]
  <2>1. CASE CallsAny(t)
    <3>1. PICK x \in Asking : Joins(t, x)
      BY <2>1, OpTypes DEF CallsAny, Calls
    <3>. QED
      BY <1>1, <3>1
  <2>2. CASE ListsApprovals(t)
    <3>1. ledger[t].asks \in Grant
      BY <2>2 DEF ListsApprovals, Expirable, GrantsInv, SoundTask, Sound, Waits
    <3>. QED
      BY <1>1, <2>2, <3>1, OpTypes DEF ListsApprovals
  <2>3. CASE TimesOut(t)
    BY <1>4, <2>3, Queue DEF TimesOut, GrantsInv, TaskTypes
  <2>4. CASE DeadlinePasses(t)
    BY <1>3, <2>4 DEF DeadlinePasses
  <2>. QED
    BY <1>5, <2>1, <2>2, <2>3, <2>4
<1>6. ASSUME NEW t \in Task, Operates(t) PROVE queue' \in [Task -> Seq(Asking)]
  <2>. PICK h : h = By(t)
    OBVIOUS
  <2>1. Head(queue[t]).op \in HandlerOps /\ queue[t] # <<>> => h \in Handler
    BY AtTheHead
  <2>2. queue[t] # <<>>
    BY <1>6 DEF Operates, Start, Follow, Decide, Running, End, Cancel, Status, Expire, Look,
                Begin, Settle, At, OperationFails
  <2>3. CASE Cancel(t)
    <3>1. Leaves(t) \/ queue' = [queue EXCEPT ![t] = QueueAborted(t, Tail(queue[t]))]
      BY <2>3 DEF Cancel
    <3>. QED
      BY <1>2, <1>4, <2>2, <3>1, Queue, QueueTypes
  <2>4. Leaves(t) \/ LeavesThen(t, Op("running", Nil)) \/ LeavesThen(t, Op("end", Nil))
        => queue' \in [Task -> Seq(Asking)]
    BY <1>1, <1>2, <2>2, OpTypes
  <2>5. \A o \in HandlerOps : h \in Handler /\ LeavesThen(t, Op(o, h))
                              => queue' \in [Task -> Seq(Asking)]
    BY <1>1, <2>2, OpTypes
  <2>6. CASE Start(t) \/ Follow(t) \/ Running(t) \/ End(t) \/ Status(t) \/ Expire(t) \/ Decide(t)
    <3>1. CASE Start(t) \/ Follow(t)
      <4>1. Leaves(t) \/ \E r : Submits(t, r)
        BY <3>1, Zenon DEF Start, Follow
      <4>2. \A r : Submits(t, r) => Leaves(t) \/ LeavesThen(t, Op("running", Nil))
        BY DEF Submits, Dispatches
      <4>. QED
        BY <2>4, <4>1, <4>2
    <3>2. CASE Running(t) \/ End(t) \/ Status(t) \/ Expire(t)
      BY <2>4, <3>2 DEF Running, End, Status, Expire
    <3>3. CASE Decide(t)
      BY <2>4, <3>3 DEF Decide, Dispatches
    <3>. QED
      BY <2>6, <3>1, <3>2, <3>3
  <2>7. CASE Look(t) \/ Begin(t) \/ Settle(t)
    <3>1. Leaves(t) \/ LeavesThen(t, Op("begin", h)) \/ LeavesThen(t, Op("settle", h))
      BY <2>7 DEF Look, Begin, Settle
    <3>2. h \in Handler
      BY <2>1, <2>2, <2>7 DEF Look, Begin, Settle, At, HandlerOps
    <3>. QED
      BY <2>4, <2>5, <3>1, <3>2 DEF HandlerOps
  <2>8. CASE OperationFails(t)
    <3>1. \/ Leaves(t) \/ LeavesThen(t, Op("end", Nil))
          \/ Head(queue[t]).op \in HandlerOps /\ LeavesThen(t, Op("settle", h))
      BY <2>8 DEF OperationFails, HandlerOps
    <3>. QED
      BY <2>1, <2>2, <2>4, <2>5, <3>1 DEF HandlerOps
  <2>. QED
    BY <1>6, <2>3, <2>6, <2>7, <2>8 DEF Operates
<1>7. ASSUME NEW t \in Task, Runs(t) PROVE queue' \in [Task -> Seq(Asking)]
  <2>1. UNCHANGED queue \/ Joins(t, Op("end", Nil))
    BY <1>7 DEF Runs, RunThrows, RunOpens, RunPrompts, RunVerifies, RunAsks, RunAnswers, RunCloses
  <2>. QED
    BY <1>1, <1>3, <2>1, OpTypes
<1>8. ASSUME NEW h \in Handler, Routes(h) PROVE queue' \in [Task -> Seq(Asking)]
  <2>1. UNCHANGED queue \/ \E t \in Task : Joins(t, Op("settle", h))
    BY <1>8 DEF Routes, Approves, Executes, CallEnds, ToSettle, Throws
  <2>. QED
    BY <1>1, <1>3, <2>1, OpTypes DEF HandlerOps
<1>9. ASSUME NEW h \in Handler, NEW id, NEW d, Receives(h, id, d)
      PROVE  queue' \in [Task -> Seq(Asking)]
  <2>1. UNCHANGED queue \/ \E t \in Task, o \in {"decide", "look"} : Joins(t, Op(o, h))
    BY <1>9 DEF Receives
  <2>. QED
    BY <1>1, <1>3, <2>1, OpTypes DEF HandlerOps
<1>10. CASE Close
  BY <1>4, <1>10, Queue DEF Close
<1>11. CASE Restart
  BY <1>11 DEF Restart
<1>12. CASE \/ \E r \in Request, written \in BOOLEAN : AgentRunAsks(r, written)
            \/ \E written \in BOOLEAN : AgentRunCancelled(written) \/ ListsRequests(written)
            \/ \E r \in Request : TimePasses(r)
            \/ UNCHANGED vars
  BY <1>3, <1>12 DEF AgentRunAsks, AgentRunCancelled, ListsRequests, TimePasses, vars, tasks
<1>. QED
  BY <1>5, <1>6, <1>7, <1>8, <1>9, <1>10, <1>11, <1>12 DEF Next

(* What a change of the record leaves sound.                                *)
LEMMA RecordMoves ==
  ASSUME NEW l, NEW s, NEW j, NEW n, Sound(l, s, j, n), NEW m \in Record,
         m.status # "absent", l.needs => m.needs, Waits(m), Allowed(m),
         j.at # "none" => m.grant = l.grant /\ m.seen = l.seen /\ m.needs = l.needs
  PROVE  Sound(m, s, j, n)
BY DEF Sound, Needed, Captured

Changed(l, status, asks) == [l EXCEPT !.status = status, !.asks = asks]

LEMMA Changing ==
  ASSUME NEW l \in Record, NEW asks \in Id \cup {Nil}, NEW m, NEW st, m = Changed(l, st, asks),
         st \in {"waiting_approval", "accepted", "running", "completed", "failed", "unknown",
                 "cancelled"}
  PROVE  /\ m \in Record /\ m.status = st /\ m.asks = asks /\ m.needs = l.needs
         /\ m.grant = l.grant /\ m.seen = l.seen /\ m.effect = l.effect
BY DEF Record, Changed

LEMMA ChangingKeeps ==
  ASSUME NEW l, NEW s, NEW j, NEW n, Sound(l, s, j, n), l.status # "absent",
         NEW st \in {"completed", "failed", "cancelled", "unknown", "waiting_approval"},
         NEW asks \in Id \cup {Nil},
         st \in {"unknown", "waiting_approval"} /\ l.needs => l.grant # Nil,
         st = "waiting_approval" => l.needs /\ asks \notin Grant
  PROVE  Sound(Changed(l, st, asks), s, j, n)
<1>. l \in Record
  BY DEF Sound
<1>. PICK m : m = Changed(l, st, asks)
  OBVIOUS
<1>1. /\ m \in Record /\ m.status = st /\ m.asks = asks /\ m.needs = l.needs
      /\ m.grant = l.grant /\ m.seen = l.seen
  BY Changing
<1>2. Waits(m) /\ Allowed(m)
  BY <1>1 DEF Waits, Allowed, Sound
<1>. QED
  BY <1>1, <1>2, RecordMoves

LEMMA OnlyRecord ==
  ASSUME GrantsInv, NEW t \in Task, NEW m, Sound(m, state[t], job[t], run[t]),
         ledger' = [ledger EXCEPT ![t] = m], UNCHANGED <<state, job, run>>,
         queue' \in [Task -> Seq(Asking)]
  PROVE  GrantsInv'
<1>1. Becomes(t, m, state[t], job[t], run[t])
  BY Unchanged DEF Becomes, GrantsInv
<1>. QED
  BY <1>1, Becoming

LEMMA NothingMoves ==
  ASSUME GrantsInv, UNCHANGED <<ledger, state, job, run>>, queue' \in [Task -> Seq(Asking)]
  PROVE  GrantsInv'
<1>1. TaskTypes'
  BY DEF GrantsInv, TaskTypes
<1>2. \A t \in Task : SoundTask(t)'
  BY DEF GrantsInv, SoundTask
<1>. QED
  BY <1>1, <1>2 DEF GrantsInv

(* The job of a dispatch, and a submission.                                 *)
NewJob(r) == [at |-> "queued", aborted |-> FALSE, rec |-> r, result |-> NoResult]

LEMMA Dispatching ==
  ASSUME NEW l, NEW s, NEW j, NEW n, Sound(l, s, j, n), NEW r \in Record,
         r.status = "accepted", l.needs => r.needs, Allowed(r)
  PROVE  Sound(r, s, NewJob(r), n)
<1>. PICK k : k = NewJob(r)
  OBVIOUS
<1>1. k \in Job /\ k.rec = r /\ k.result.status = "thrown"
  BY DEF NewJob, Job, NoResult
<1>2. Waits(r) /\ Needed(r, s, k, n) /\ Captured(r, k)
  BY <1>1 DEF Sound, Waits, Needed, Captured, Allowed
<1>. QED
  BY <1>1, <1>2 DEF Sound

LEMMA Submitting ==
  ASSUME GrantsInv, NEW t \in Task, job[t].at = "none", NEW r \in Record,
         r.status = "accepted", r.grant = Nil, ledger[t].needs => r.needs,
         Submits(t, r), UNCHANGED <<state, run>>, queue' \in [Task -> Seq(Asking)]
  PROVE  GrantsInv'
<1>1. SoundTask(t)
  BY DEF GrantsInv
<1>2. CASE r.needs
  <2>. PICK m : m = Changed(r, "waiting_approval", <<t, TurnOf(r)>>)
    OBVIOUS
  <2>1. <<t, TurnOf(r)>> \in Grant /\ <<t, TurnOf(r)>> \in Id
    BY TurnOfSeen DEF TurnOf, Record, Grant, Id
  <2>2. /\ m \in Record /\ m.status = "waiting_approval" /\ m.asks \in Grant /\ m.needs
        /\ m.grant = Nil
    BY <1>2, <2>1, Changing
  <2>3. Sound(m, state[t], job[t], run[t])
    BY <1>1, <2>2, RecordMoves DEF SoundTask, Waits, Allowed
  <2>4. ledger' = [ledger EXCEPT ![t] = m] /\ UNCHANGED job
    BY <1>2 DEF Submits, Changed
  <2>. QED
    BY <2>3, <2>4, OnlyRecord
<1>3. CASE ~r.needs
  <2>1. Sound(r, state[t], NewJob(r), run[t])
    BY <1>1, <1>3, Dispatching DEF SoundTask, Allowed
  <2>2. Becomes(t, r, state[t], NewJob(r), run[t])
    BY <1>3, Unchanged DEF Submits, Dispatches, NewJob, Becomes, GrantsInv
  <2>. QED
    BY <2>1, <2>2, Becoming
<1>. QED
  BY <1>2, <1>3

LEMMA SubmissionsAreSound ==
  ASSUME GrantsInv, JobsInv, NEW t \in Task, Start(t) \/ Follow(t),
         queue' \in [Task -> Seq(Asking)]
  PROVE  GrantsInv'
<1>1. SoundTask(t) /\ state' = state /\ run' = run
  <2>1. CASE Start(t)
    BY <2>1, Zenon DEF GrantsInv, Start
  <2>2. CASE Follow(t)
    BY <2>2, Zenon DEF GrantsInv, Follow
  <2>. QED
    BY <2>1, <2>2
<1>2. ledger[t].status \notin InProgress => job[t].at = "none"
  BY DEF JobsInv, GoodTask, Good, GoodJob
<1>3. CASE UNCHANGED <<ledger, job>>
  BY <1>1, <1>3, NothingMoves
<1>4. CASE Start(t) /\ ~Known(t)
  <2>1. PICK needs \in BOOLEAN :
          Submits(t, [NoRecord EXCEPT !.status = "accepted", !.needs = needs])
    BY <1>4, Zenon DEF Start
  <2>. PICK r : r = [NoRecord EXCEPT !.status = "accepted", !.needs = needs]
    OBVIOUS
  <2>2. r \in Record /\ r.status = "accepted" /\ r.grant = Nil
    BY <2>1 DEF Record, NoRecord
  <2>3. ledger[t] = NoRecord /\ job[t].at = "none"
    BY <1>1, <1>2, <1>4 DEF Known, SoundTask, Sound, InProgress
  <2>4. ~ledger[t].needs
    BY <2>3 DEF NoRecord
  <2>. QED
    BY <1>1, <2>1, <2>2, <2>3, <2>4, Submitting
<1>5. CASE Follow(t) /\ CanFollow(t)
  <2>. PICK r : r = [ledger[t] EXCEPT !.status = "accepted", !.asks = Nil, !.grant = Nil,
                       !.effect = Nil, !.seen = @ \cup {By(t)}]
    OBVIOUS
  <2>1. Submits(t, r) /\ job[t].at = "none"
    BY <1>2, <1>5 DEF Follow, CanFollow, InProgress
  <2>2. By(t) \in FollowUp
    BY <1>5, Queue DEF Follow, At, By, Asks
  <2>3. r \in Record /\ r.status = "accepted" /\ r.grant = Nil /\ r.needs = ledger[t].needs
    BY <1>1, <2>2 DEF SoundTask, Sound, Record
  <2>. QED
    BY <1>1, <2>1, <2>3, Submitting
<1>. QED
  BY <1>3, <1>4, <1>5, Zenon DEF Start, Follow

(* A decision about the grant of a task.                                    *)
LEMMA DecisionsAreSound ==
  ASSUME GrantsInv, JobsInv, NEW t \in Task, Decide(t), queue' \in [Task -> Seq(Asking)]
  PROVE  GrantsInv'
<1>. PICK d : d = handler[By(t)]
  OBVIOUS
<1>1. SoundTask(t) /\ UNCHANGED <<state, run>>
  BY DEF GrantsInv, Decide
<1>2. CASE UNCHANGED <<ledger, job>>
  BY <1>1, <1>2, NothingMoves
<1>3. CASE /\ WaitsFor(t, d.id) /\ ledger[t].grant = Nil /\ UNCHANGED job
           /\ ledger' = [ledger EXCEPT ![t].status = "failed", ![t].asks = Nil]
  <2>1. Sound(Changed(ledger[t], "failed", Nil), state[t], job[t], run[t])
    BY <1>1, <1>3, ChangingKeeps DEF SoundTask, WaitsFor
  <2>2. ledger' = [ledger EXCEPT ![t] = Changed(ledger[t], "failed", Nil)]
    BY <1>3 DEF Changed
  <2>. QED
    BY <1>1, <1>3, <2>1, <2>2, OnlyRecord
<1>4. ASSUME WaitsFor(t, d.id), ledger[t].grant = Nil, NEW r,
             r = [ledger[t] EXCEPT !.status = "accepted", !.asks = Nil, !.grant = d.id],
             ledger' = [ledger EXCEPT ![t] = r], Dispatches(t, r)
      PROVE  GrantsInv'
  <2>1. ledger[t].needs /\ d.id \in Grant /\ ledger[t] \in Record
    BY <1>1, <1>4 DEF SoundTask, Sound, Waits, WaitsFor
  <2>2. r \in Record /\ r.status = "accepted" /\ r.grant # Nil /\ r.needs
    BY <1>4, <2>1, IdsApart DEF Record
  <2>3. Sound(r, state[t], NewJob(r), run[t])
    BY <1>1, <2>2, Dispatching DEF SoundTask, Allowed
  <2>4. Becomes(t, r, state[t], NewJob(r), run[t])
    BY <1>1, <1>4, Unchanged DEF Dispatches, NewJob, Becomes, GrantsInv
  <2>. QED
    BY <2>3, <2>4, Becoming
<1>. QED
  BY <1>2, <1>3, <1>4 DEF Decide

(* The job of a dispatch, and what an abort does to it and to its run.      *)
LEMMA AbortingKeeps ==
  ASSUME NEW t \in Task, SoundTask(t)
  PROVE  Sound(ledger[t], state[t], JobAborted(t), RunAborted(t))
<1>. DEFINE j == JobAborted(t)
            n == RunAborted(t)
<1>1. /\ j \in Job /\ (j.at # "none" => job[t].at # "none") /\ j.rec = job[t].rec
      /\ j.result.status = "waiting_approval" => job[t].result.status = "waiting_approval"
  <2>1. CASE job[t].at = "racing"
    BY <2>1 DEF JobAborted, SoundTask, Sound, Job, Result, Plain
  <2>2. CASE job[t].at # "racing"
    BY <2>2 DEF JobAborted, SoundTask, Sound, Job
  <2>. QED
    BY <2>1, <2>2
<1>2. n = NoRun \/ /\ n \in Run /\ n.at = run[t].at /\ n.turn = run[t].turn
                   /\ n.grant = run[t].grant /\ n.asked = run[t].asked
  BY DEF RunAborted, SoundTask, Sound, Run
<1>. HIDE DEF j, n
<1>3. n \in Run /\ Needed(ledger[t], state[t], j, n)
  <2>1. n \in Run
    BY <1>2, NothingIsSound
  <2>2. Needed(ledger[t], state[t], job[t], run[t])
    BY DEF SoundTask, Sound
  <2>3. n.grant # Nil => n.grant = run[t].grant
    BY <1>2 DEF NoRun
  <2>4. n.asked # Nil \/ n.at = "asking" => n.grant # Nil
    BY <1>2, <2>2 DEF Needed, NoRun
  <2>. QED
    BY <1>1, <2>1, <2>2, <2>3, <2>4 DEF Needed
<1>4. Captured(ledger[t], j) /\ Answered(state[t], n)
  BY <1>1, <1>2 DEF SoundTask, Sound, Captured, Answered, NoRun
<1>. QED
  BY <1>1, <1>3, <1>4 DEF SoundTask, Sound, j, n

LEMMA RunningIsSound ==
  ASSUME GrantsInv, JobsInv, NEW t \in Task, Running(t), queue' \in [Task -> Seq(Asking)]
  PROVE  GrantsInv'
<1>. PICK m : m = [job[t].rec EXCEPT !.status = "running"]
  OBVIOUS
<1>1. job[t].at = "queued"
  BY QueueOps DEF JobsInv, Running, At, GoodTask, Good, GoodJob, GoodQueue, JobOps
<1>2. SoundTask(t) /\ job[t].rec \in Record /\ ledger' = [ledger EXCEPT ![t] = m]
      /\ UNCHANGED state
  BY DEF GrantsInv, SoundTask, Sound, Job, Running
<1>3. /\ m \in Record /\ m.status = "running" /\ m.needs = ledger[t].needs
      /\ m.grant = ledger[t].grant /\ m.seen = ledger[t].seen
      /\ m.needs <=> m.grant # Nil
  BY <1>1, <1>2 DEF SoundTask, Sound, Captured, Record, Allowed
<1>4. Sound(m, state[t], job[t], run[t])
  BY <1>2, <1>3, RecordMoves DEF SoundTask, Waits, Allowed
<1>5. CASE job' = [job EXCEPT ![t].at = "settling"] /\ UNCHANGED run
  <2>. PICK j : j = [job[t] EXCEPT !.at = "settling"]
    OBVIOUS
  <2>1. j \in Job /\ j.rec = job[t].rec /\ j.result = job[t].result
    BY <1>2 DEF SoundTask, Sound, Job
  <2>2. Sound(m, state[t], j, run[t])
    BY <1>1, <1>4, <2>1 DEF Sound, Needed, Captured
  <2>3. Becomes(t, m, state[t], j, run[t])
    BY <1>2, <1>5, Unchanged DEF Becomes, GrantsInv
  <2>. QED
    BY <2>2, <2>3, Becoming
<1>6. CASE job' = [job EXCEPT ![t].at = "racing"] /\ run' = [run EXCEPT ![t] = Launched(job[t])]
  <2>. PICK j, n : j = [job[t] EXCEPT !.at = "racing"] /\ n = Launched(job[t])
    OBVIOUS
  <2>1. j \in Job /\ j.rec = job[t].rec /\ j.result = job[t].result
    BY <1>2 DEF SoundTask, Sound, Job
  <2>2. TurnOf(job[t].rec) \in Turn /\ job[t].rec.grant \in Grant \cup {Nil}
    BY <1>2, TurnOfSeen DEF Record, TurnOf
  <2>3. n \in Run /\ n.at = "authorizing" /\ n.grant = m.grant /\ n.asked = Nil
    BY <1>1, <1>2, <1>3, <2>2 DEF Launched, Run, SoundTask, Sound, Captured
  <2>4. Needed(m, state[t], j, n) /\ Captured(m, j) /\ Answered(state[t], n)
    BY <1>1, <1>3, <1>4, <2>1, <2>3 DEF Sound, Needed, Captured, Answered
  <2>5. Sound(m, state[t], j, n)
    BY <1>4, <2>1, <2>3, <2>4 DEF Sound
  <2>6. Becomes(t, m, state[t], j, n)
    BY <1>2, <1>6, Unchanged DEF Becomes, GrantsInv
  <2>. QED
    BY <2>5, <2>6, Becoming
<1>. QED
  BY <1>5, <1>6 DEF Running

LEMMA EndIsSound ==
  ASSUME GrantsInv, NEW t \in Task, End(t), queue' \in [Task -> Seq(Asking)]
  PROVE  GrantsInv'
<1>1. SoundTask(t) /\ UNCHANGED <<state, run>> /\ job' = [job EXCEPT ![t] = NoJob]
  BY DEF GrantsInv, End
<1>2. ASSUME NEW m, Sound(m, state[t], job[t], run[t]), ledger' = [ledger EXCEPT ![t] = m]
      PROVE  GrantsInv'
  <2>1. Sound(m, state[t], NoJob, run[t])
    BY <1>2, NothingIsSound DEF Sound, Needed, Captured, NoJob, NoResult
  <2>2. Becomes(t, m, state[t], NoJob, run[t])
    BY <1>1, <1>2, Unchanged DEF Becomes, GrantsInv
  <2>. QED
    BY <2>1, <2>2, Becoming
<1>3. CASE UNCHANGED ledger
  BY <1>1, <1>2, <1>3, Unchanged DEF GrantsInv, SoundTask
<1>4. CASE StillRunning(t)
  <2>. PICK o : o = Outcome(t)
    OBVIOUS
  <2>1. job[t].result = NoResult \/ job[t].result \in Result
    BY <1>1 DEF SoundTask, Sound, Job
  <2>2. /\ o.status \in {"waiting_approval", "completed", "failed", "unknown"}
        /\ o.asks \in Request \cup {Nil}
        /\ o.status = "waiting_approval" => job[t].result.status = "waiting_approval"
    BY <2>1 DEF Outcome, Thrown, Plain, Result
  <2>3. o.asks \in Id \cup {Nil} /\ o.asks \notin Grant
    BY <2>2, IdsApart DEF Id
  <2>4. ledger[t].needs => ledger[t].grant # Nil
    BY <1>1, <1>4 DEF SoundTask, Sound, Allowed, StillRunning
  <2>5. o.status = "waiting_approval" => ledger[t].needs
    BY <1>1, <2>2 DEF SoundTask, Sound, Needed
  <2>6. Sound(Changed(ledger[t], o.status, o.asks), state[t], job[t], run[t])
    BY <1>1, <1>4, <2>2, <2>3, <2>4, <2>5, ChangingKeeps DEF SoundTask, StillRunning
  <2>7. ledger' = [ledger EXCEPT ![t] = Changed(ledger[t], o.status, o.asks)]
    BY <1>4 DEF End, Changed
  <2>. QED
    BY <1>2, <2>6, <2>7
<1>. QED
  BY <1>3, <1>4 DEF End

LEMMA CancellingIsSound ==
  ASSUME GrantsInv, JobsInv, NEW t \in Task, Cancel(t), queue' \in [Task -> Seq(Asking)]
  PROVE  GrantsInv'
<1>1. SoundTask(t) /\ UNCHANGED state
  BY DEF GrantsInv, Cancel
<1>2. CASE UNCHANGED <<ledger, job, run>>
  BY <1>1, <1>2, NothingMoves
<1>3. CASE /\ ledger[t].status \in Cancellable /\ InEffect(t) /\ UNCHANGED <<job, run>>
           /\ ledger' = [ledger EXCEPT ![t].status = "unknown", ![t].asks = Nil]
  <2>1. ledger[t].grant # Nil
    BY <1>3 DEF JobsInv, GoodTask, Good, GoodRecord, InEffect
  <2>2. Sound(Changed(ledger[t], "unknown", Nil), state[t], job[t], run[t])
    BY <1>1, <1>3, <2>1, ChangingKeeps DEF SoundTask, Cancellable
  <2>3. ledger' = [ledger EXCEPT ![t] = Changed(ledger[t], "unknown", Nil)]
    BY <1>3 DEF Changed
  <2>. QED
    BY <1>1, <1>3, <2>2, <2>3, OnlyRecord
<1>4. CASE /\ ledger[t].status \in Cancellable
           /\ job' = [job EXCEPT ![t] = JobAborted(t)] /\ run' = [run EXCEPT ![t] = RunAborted(t)]
           /\ ledger' = [ledger EXCEPT ![t].status = "cancelled"] \/ ledger' = ledger
  <2>1. Sound(ledger[t], state[t], JobAborted(t), RunAborted(t))
    BY <1>1, AbortingKeeps
  <2>2. CASE ledger' = ledger
    BY <1>1, <1>4, <2>1, <2>2, Unchanged, Becoming DEF Becomes, GrantsInv
  <2>3. CASE ledger' = [ledger EXCEPT ![t].status = "cancelled"]
    <3>. PICK m : m = [ledger[t] EXCEPT !.status = "cancelled"]
      OBVIOUS
    <3>1. /\ m \in Record /\ m.status = "cancelled" /\ m.needs = ledger[t].needs
          /\ m.grant = ledger[t].grant /\ m.seen = ledger[t].seen
      BY <1>1 DEF SoundTask, Sound, Record
    <3>2. Waits(m) /\ Allowed(m)
      BY <1>1, <3>1 DEF SoundTask, Sound, Waits, Allowed
    <3>3. Sound(m, state[t], JobAborted(t), RunAborted(t))
      BY <2>1, <3>1, <3>2, RecordMoves
    <3>. QED
      BY <1>1, <1>4, <2>3, <3>3, Unchanged, Becoming DEF Becomes, GrantsInv
  <2>. QED
    BY <1>4, <2>2, <2>3
<1>. QED
  BY <1>2, <1>3, <1>4 DEF Cancel

(* An answer looked up in the adapter's file, and a settlement.             *)
LEMMA ResolvingIsSound ==
  ASSUME GrantsInv, NEW t \in Task, Resolves(t), UNCHANGED <<job, run>>,
         queue' \in [Task -> Seq(Asking)]
  PROVE  GrantsInv'
<1>1. SoundTask(t) /\ UNCHANGED state /\ ledger' = [ledger EXCEPT ![t] = Resolved(t)]
  BY DEF GrantsInv, Resolves
<1>2. CASE ~Resolvable(t)
  BY <1>1, <1>2, OnlyRecord DEF Resolved, SoundTask
<1>3. CASE Resolvable(t)
  <2>1. /\ state[t].status \in {"waiting_approval", "completed", "failed"}
        /\ state[t].asks \in Request \cup {Nil} /\ ledger[t].status = "unknown"
    BY <1>1, <1>3 DEF Resolvable, SoundTask, Sound, State
  <2>2. state[t].asks \in Id \cup {Nil} /\ state[t].asks \notin Grant
    BY <2>1, IdsApart DEF Id
  <2>3. ledger[t].needs => ledger[t].grant # Nil
    BY <1>1, <2>1 DEF SoundTask, Sound, Allowed
  <2>4. state[t].status = "waiting_approval" => ledger[t].needs
    BY <1>1 DEF SoundTask, Sound, Needed
  <2>5. Sound(Changed(ledger[t], state[t].status, state[t].asks), state[t], job[t], run[t])
    BY <1>1, <2>1, <2>2, <2>3, <2>4, ChangingKeeps DEF SoundTask
  <2>. QED
    BY <1>1, <1>3, <2>5, OnlyRecord DEF Resolved, Changed
<1>. QED
  BY <1>2, <1>3

LEMMA SettlingIsSound ==
  ASSUME GrantsInv, NEW t \in Task, NEW st \in {"completed", "failed", "unknown"},
         ledger[t].status = "waiting_approval",
         st = "unknown" => ledger[t].asks \notin Grant,
         ledger' = [ledger EXCEPT ![t] = Settled(t, st)], UNCHANGED <<state, job, run>>,
         queue' \in [Task -> Seq(Asking)]
  PROVE  GrantsInv'
<1>. PICK m : m = Settled(t, st)
  OBVIOUS
<1>1. SoundTask(t)
  BY DEF GrantsInv
<1>2. /\ m \in Record /\ m.status = st /\ m.needs = ledger[t].needs
      /\ m.grant = ledger[t].grant /\ m.seen = ledger[t].seen
  BY <1>1 DEF SoundTask, Sound, Record, Settled
<1>3. Waits(m) /\ Allowed(m)
  BY <1>1, <1>2 DEF SoundTask, Sound, Waits, Allowed
<1>. QED
  BY <1>1, <1>2, <1>3, RecordMoves, OnlyRecord DEF SoundTask

LEMMA SettlementsAreSound ==
  ASSUME GrantsInv, RoutesInv, JobsInv, NEW t \in Task, Expire(t) \/ Begin(t) \/ Settle(t),
         queue' \in [Task -> Seq(Asking)]
  PROVE  GrantsInv'
<1>. PICK h : h = By(t)
  OBVIOUS
<1>1. SoundTask(t) /\ UNCHANGED <<state, job, run>>
  BY DEF GrantsInv, Expire, Begin, Settle
<1>2. CASE UNCHANGED ledger
  BY <1>1, <1>2, NothingMoves
<1>3. CASE Expire(t)
  BY <1>1, <1>2, <1>3, SettlingIsSound DEF Expire, WaitsFor
<1>4. CASE Begin(t) \/ Settle(t)
  <2>1. h \in Handler /\ handler[h].id \in Request /\ handler[h] \in Decision
    <3>0. queue[t] # <<>> /\ Head(queue[t]).op \in {"begin", "settle"}
      BY <1>4 DEF Begin, Settle, At
    <3>1. h \in Handler /\ Serves(t, Head(queue[t])) /\ h = Head(queue[t]).by
      BY <3>0, AtTheHead DEF HandlerOps, By
    <3>2. Active(h)
      BY <3>0, <3>1 DEF Serves, Active
    <3>. QED
      BY <3>1, <3>2 DEF RoutesInv, Owned, RouteTypes
  <2>2. CASE ledger' = [ledger EXCEPT ![t] = Settled(t, handler[h].outcome)]
             /\ WaitsFor(t, handler[h].id)
    <3>1. /\ handler[h].outcome \in {"completed", "failed", "unknown"}
          /\ ledger[t].asks \notin Grant /\ ledger[t].status = "waiting_approval"
      BY <2>1, <2>2, IdsApart DEF WaitsFor, Decision
    <3>. QED
      BY <1>1, <2>2, <3>1, SettlingIsSound
  <2>3. CASE CanBegin(t, handler[h].id) /\ ledger' = [ledger EXCEPT ![t].effect = handler[h].id]
    <3>. PICK m : m = [ledger[t] EXCEPT !.effect = handler[h].id]
      OBVIOUS
    <3>1. /\ m \in Record /\ m.status = ledger[t].status /\ m.needs = ledger[t].needs
          /\ m.grant = ledger[t].grant /\ m.seen = ledger[t].seen /\ m.asks = ledger[t].asks
      BY <1>1, <2>1 DEF SoundTask, Sound, Record
    <3>2. Waits(m) /\ Allowed(m) /\ m.status # "absent"
      BY <1>1, <2>3, <3>1 DEF SoundTask, Sound, Waits, Allowed, CanBegin, WaitsFor
    <3>. QED
      BY <1>1, <2>3, <3>1, <3>2, RecordMoves, OnlyRecord DEF SoundTask
  <2>. QED
    BY <1>2, <1>4, <2>2, <2>3 DEF Begin, Settle
<1>. QED
  BY <1>3, <1>4

LEMMA FailureIsSound ==
  ASSUME GrantsInv, JobsInv, NEW t \in Task, OperationFails(t),
         queue' \in [Task -> Seq(Asking)]
  PROVE  GrantsInv'
<1>1. SoundTask(t) /\ UNCHANGED <<ledger, state, run>>
  BY DEF GrantsInv, OperationFails
<1>2. CASE UNCHANGED job
  BY <1>1, <1>2, NothingMoves
<1>3. ASSUME NEW j \in Job, job' = [job EXCEPT ![t] = j], j.result = NoResult,
             j.at # "none" => job[t].at # "none" /\ j.rec = job[t].rec
      PROVE  GrantsInv'
  <2>1. Sound(ledger[t], state[t], j, run[t])
    BY <1>1, <1>3 DEF SoundTask, Sound, Needed, Captured, NoResult
  <2>2. Becomes(t, ledger[t], state[t], j, run[t])
    BY <1>1, <1>3, Unchanged DEF Becomes, GrantsInv
  <2>. QED
    BY <2>1, <2>2, Becoming
<1>4. CASE job' = [job EXCEPT ![t] = NoJob]
  BY <1>3, <1>4, NothingIsSound DEF NoJob
<1>5. CASE /\ Head(queue[t]).op \in JobOps
           /\ job' = [job EXCEPT ![t].at = "settling", ![t].result = NoResult]
  <2>. PICK j : j = [job[t] EXCEPT !.at = "settling", !.result = NoResult]
    OBVIOUS
  <2>1. j \in Job /\ j.rec = job[t].rec /\ j.result = NoResult
    BY <1>1 DEF SoundTask, Sound, Job
  <2>2. job[t].at # "none"
    BY <1>5, QueueOps DEF OperationFails, JobsInv, GoodTask, Good, GoodQueue
  <2>. QED
    BY <1>3, <1>5, <2>1, <2>2
<1>. QED
  BY <1>2, <1>4, <1>5 DEF OperationFails, JobOps

(* The adapter's run.                                                       *)
LEMMA RunsAreSound ==
  ASSUME GrantsInv, JobsInv, NEW t \in Task, Runs(t), queue' \in [Task -> Seq(Asking)]
  PROVE  GrantsInv'
<1>1. SoundTask(t) /\ UNCHANGED ledger
  BY DEF GrantsInv, Runs, RunThrows, RunOpens, RunPrompts, RunVerifies, RunAsks, RunAnswers,
         RunCloses
<1>2. ASSUME UNCHANGED <<state, job>>, NEW n \in Run, run' = [run EXCEPT ![t] = n],
             n.grant # Nil => run[t].grant # Nil, n.at # "closing",
             n.asked # Nil \/ n.at = "asking" => n.grant # Nil
      PROVE  GrantsInv'
  <2>1. Sound(ledger[t], state[t], job[t], n)
    BY <1>1, <1>2 DEF SoundTask, Sound, Needed, Answered
  <2>2. Becomes(t, ledger[t], state[t], job[t], n)
    BY <1>1, <1>2, Unchanged DEF Becomes, GrantsInv
  <2>. QED
    BY <2>1, <2>2, Becoming
<1>3. run[t] \in Run /\ Needed(ledger[t], state[t], job[t], run[t])
  BY <1>1 DEF SoundTask, Sound
<1>4. CASE RunOpens(t)
  <2>. PICK n : n = [run[t] EXCEPT !.at = "opening"]
    OBVIOUS
  <2>1. n \in Run /\ n.at = "opening" /\ n.grant = run[t].grant /\ n.asked = run[t].asked
    BY <1>3 DEF Run
  <2>. QED
    BY <1>2, <1>3, <1>4, <2>1 DEF RunOpens, Needed
<1>5. CASE RunVerifies(t)
  <2>. PICK n : n = [run[t] EXCEPT !.at = "asking"]
    OBVIOUS
  <2>1. n \in Run /\ n.at = "asking" /\ n.grant = run[t].grant /\ n.asked = run[t].asked
    BY <1>3 DEF Run
  <2>. QED
    BY <1>2, <1>3, <1>5, <2>1 DEF RunVerifies, Needed
<1>6. CASE RunAsks(t)
  <2>1. ASSUME NEW a \in Request \cup {Nil},
               run' = [run EXCEPT ![t].at = "prompting", ![t].asked = a]
        PROVE  GrantsInv'
    <3>. PICK n : n = [run[t] EXCEPT !.at = "prompting", !.asked = a]
      OBVIOUS
    <3>1. n \in Run /\ n.at = "prompting" /\ n.grant = run[t].grant
      BY <1>3 DEF Run
    <3>2. run[t].grant # Nil
      BY <1>3, <1>6 DEF RunAsks, RunAt, Needed
    <3>. QED
      BY <1>2, <1>6, <2>1, <3>1, <3>2 DEF RunAsks
  <2>2. CASE run' = [run EXCEPT ![t].at = "prompting"]
    <3>. PICK n : n = [run[t] EXCEPT !.at = "prompting"]
      OBVIOUS
    <3>1. n \in Run /\ n.at = "prompting" /\ n.grant = run[t].grant /\ n.asked = run[t].asked
      BY <1>3 DEF Run
    <3>. QED
      BY <1>2, <1>3, <1>6, <2>2, <3>1 DEF RunAsks, Needed
  <2>. QED
    BY <1>6, <2>1, <2>2 DEF RunAsks
<1>7. CASE RunPrompts(t)
  <2>. PICK n, s : n = [run[t] EXCEPT !.at = "prompting"] /\ s = Prompted(t)
    OBVIOUS
  <2>1. n \in Run /\ n.at = "prompting" /\ n.grant = run[t].grant /\ n.asked = run[t].asked
    BY <1>3 DEF Run
  <2>2. s \in State /\ s.status = "running"
    BY <1>3 DEF Prompted, State, Run
  <2>3. Sound(ledger[t], s, job[t], n)
    BY <1>1, <2>1, <2>2 DEF SoundTask, Sound, Needed, Answered
  <2>4. Becomes(t, ledger[t], s, job[t], n)
    BY <1>1, <1>7, Unchanged DEF RunPrompts, Becomes, GrantsInv
  <2>. QED
    BY <2>3, <2>4, Becoming
<1>8. CASE RunAnswers(t)
  <2>1. PICK a \in Answers(t) :
          state' = [state EXCEPT ![t] = [status |-> a.status, asks |-> a.asks,
                                         turn |-> run[t].turn]]
    BY <1>8 DEF RunAnswers
  <2>. PICK n, s : /\ n = [run[t] EXCEPT !.at = "closing"]
                   /\ s = [status |-> a.status, asks |-> a.asks, turn |-> run[t].turn]
    OBVIOUS
  <2>2. n \in Run /\ n.at = "closing" /\ n.grant = run[t].grant /\ n.asked = run[t].asked
    BY <1>3 DEF Run
  <2>3. /\ a.status \in {"waiting_approval", "completed", "failed", "unknown"}
        /\ a.asks \in Request \cup {Nil}
        /\ a.status = "waiting_approval" => run[t].asked # Nil
    BY <1>3, <2>1 DEF Answers, Plain, Run
  <2>4. s \in State /\ s.status = a.status
    BY <1>3, <2>3 DEF State, Run
  <2>5. Sound(ledger[t], s, job[t], n)
    BY <1>1, <2>2, <2>3, <2>4 DEF SoundTask, Sound, Needed, Answered
  <2>6. Becomes(t, ledger[t], s, job[t], n)
    BY <1>1, <1>8, <2>1, Unchanged DEF RunAnswers, Becomes, GrantsInv
  <2>. QED
    BY <2>5, <2>6, Becoming
<1>9. ASSUME NEW j \in Job, job' = [job EXCEPT ![t] = j], run' = [run EXCEPT ![t] = NoRun],
             UNCHANGED state, j.rec = job[t].rec, j.at # "none" => job[t].at # "none",
             j.result.status = "waiting_approval" => ledger[t].needs
      PROVE  GrantsInv'
  <2>1. Sound(ledger[t], state[t], j, NoRun)
    BY <1>1, <1>9, NothingIsSound DEF SoundTask, Sound, Needed, Captured, Answered, NoRun
  <2>2. Becomes(t, ledger[t], state[t], j, NoRun)
    BY <1>1, <1>9, Unchanged DEF Becomes, GrantsInv
  <2>. QED
    BY <2>1, <2>2, Becoming
<1>10. CASE RunThrows(t)
  <2>. PICK j : j = [job[t] EXCEPT !.at = "settling"]
    OBVIOUS
  <2>1. j \in Job /\ j.rec = job[t].rec /\ j.result = job[t].result
    BY <1>1 DEF SoundTask, Sound, Job
  <2>2. job[t].at # "none"
    BY <1>10 DEF RunThrows, RunAt, JobsInv, GoodTask, Good, GoodRun
  <2>. QED
    BY <1>3, <1>9, <1>10, <2>1, <2>2 DEF RunThrows, Needed
<1>11. CASE RunCloses(t) /\ ~Racing(t)
  BY <1>2, <1>11, NothingIsSound DEF RunCloses, NoRun
<1>12. CASE RunCloses(t) /\ Racing(t)
  <2>. PICK r : r = [status |-> state[t].status, asks |-> state[t].asks]
    OBVIOUS
  <2>. PICK j : j = [job[t] EXCEPT !.at = "settling", !.result = r]
    OBVIOUS
  <2>1. r \in Result /\ r.status = state[t].status
    BY <1>1, <1>12 DEF RunCloses, RunAt, SoundTask, Sound, Answered, State, Result
  <2>2. j \in Job /\ j.rec = job[t].rec /\ j.result = r
    BY <1>1, <2>1 DEF SoundTask, Sound, Job
  <2>3. job' = [job EXCEPT ![t] = j]
    BY <1>12 DEF RunCloses
  <2>. QED
    BY <1>3, <1>9, <1>12, <2>1, <2>2, <2>3 DEF RunCloses, Racing, Needed
<1>. QED
  BY <1>4, <1>5, <1>6, <1>7, <1>8, <1>10, <1>11, <1>12 DEF Runs

LEMMA RestartIsSound ==
  ASSUME GrantsInv, Restart
  PROVE  GrantsInv'
<1>1. ASSUME NEW t \in Task
      PROVE  Sound(Reconciled(Reopened(ledger[t])), state[t], NoJob, NoRun)
  <2>. PICK l, m : l = Reopened(ledger[t]) /\ m = Reconciled(l)
    OBVIOUS
  <2>1. SoundTask(t)
    BY DEF GrantsInv
  <2>2. Sound(ledger[t], state[t], NoJob, NoRun)
    BY <2>1, NothingIsSound DEF SoundTask, Sound, Needed, Captured, Answered, NoJob, NoRun,
                                NoResult
  <2>3. Sound(l, state[t], NoJob, NoRun)
    <3>1. CASE ledger[t].status \in {"accepted", "running"}
      <4>1. /\ l \in Record /\ l.status = "unknown" /\ l.needs = ledger[t].needs
            /\ l.grant = ledger[t].grant /\ l.seen = ledger[t].seen
        BY <2>1, <3>1 DEF Reopened, SoundTask, Sound, Record
      <4>2. Waits(l) /\ Allowed(l)
        BY <2>1, <3>1, <4>1 DEF SoundTask, Sound, Waits, Allowed
      <4>. QED
        BY <2>2, <4>1, <4>2, RecordMoves
    <3>2. CASE ledger[t].status \notin {"accepted", "running"}
      BY <2>2, <3>2 DEF Reopened
    <3>. QED
      BY <3>1, <3>2
  <2>4. CASE m = l
    BY <2>3, <2>4
  <2>5. CASE m # l
    <3>1. l.grant # Nil /\ l.status = "waiting_approval" /\ m = Changed(l, "unknown", Nil)
      BY <2>5 DEF Reconciled, Changed
    <3>. QED
      BY <2>3, <3>1, ChangingKeeps
  <2>. QED
    BY <2>4, <2>5
<1>2. /\ \A t \in Task : /\ ledger'[t] = Reconciled(Reopened(ledger[t])) /\ state'[t] = state[t]
                         /\ job'[t] = NoJob /\ run'[t] = NoRun
      /\ DOMAIN ledger' = Task
      /\ ledger' = [t \in Task |-> Reconciled(Reopened(ledger[t]))]
      /\ job' = [t \in Task |-> NoJob] /\ run' = [t \in Task |-> NoRun] /\ UNCHANGED state
      /\ queue' = [t \in Task |-> <<>>]
  BY DEF Restart
<1>3. \A t \in Task : SoundTask(t)'
  BY <1>1, <1>2 DEF SoundTask
<1>4. ledger' \in [Task -> Record]
  <2>1. \A t \in Task : Reconciled(Reopened(ledger[t])) \in Record
    BY <1>1 DEF Sound
  <2>. QED
    BY <1>2, <2>1
<1>5. TaskTypes'
  BY <1>2, <1>4, NothingIsSound DEF GrantsInv, TaskTypes
<1>. QED
  BY <1>3, <1>5 DEF GrantsInv

LEMMA AbortsAreSound ==
  ASSUME GrantsInv, (\E t \in Task : TimesOut(t)) \/ Close, queue' \in [Task -> Seq(Asking)]
  PROVE  GrantsInv'
<1>1. \A t \in Task : Sound(ledger[t], state[t], JobAborted(t), RunAborted(t))
  BY AbortingKeeps DEF GrantsInv
<1>2. CASE Close
  <2>1. /\ UNCHANGED <<ledger, state>> /\ job' = [t \in Task |-> JobAborted(t)]
        /\ run' = [t \in Task |-> RunAborted(t)]
    BY <1>2 DEF Close
  <2>2. \A t \in Task : JobAborted(t) \in Job /\ RunAborted(t) \in Run
    BY <1>1 DEF Sound
  <2>3. TaskTypes'
    BY <2>1, <2>2 DEF GrantsInv, TaskTypes
  <2>4. \A t \in Task : SoundTask(t)'
    BY <1>1, <2>1 DEF SoundTask
  <2>. QED
    BY <2>3, <2>4 DEF GrantsInv
<1>3. ASSUME NEW t \in Task, TimesOut(t) PROVE GrantsInv'
  <2>1. Becomes(t, ledger[t], state[t], JobAborted(t), RunAborted(t))
    BY <1>3, Unchanged DEF TimesOut, Becomes, GrantsInv
  <2>. QED
    BY <1>1, <2>1, Becoming
<1>. QED
  BY <1>2, <1>3

LEMMA GrantsStep ==
  ASSUME GrantsInv, RoutesInv, JobsInv, [Next]_vars
  PROVE  GrantsInv'
<1>1. queue' \in [Task -> Seq(Asking)]
  BY QueuesTyped
<1>2. ASSUME NEW t \in Task, Operates(t) PROVE GrantsInv'
  <2>1. CASE Status(t) \/ Look(t)
    BY <1>1, <2>1, ResolvingIsSound DEF Status, Look, Resolves
  <2>. QED
    BY <1>1, <1>2, <2>1, SubmissionsAreSound, DecisionsAreSound, RunningIsSound, EndIsSound,
       CancellingIsSound, SettlementsAreSound, FailureIsSound DEF Operates
<1>3. CASE UNCHANGED <<ledger, state, job, run>>
  BY <1>1, <1>3, NothingMoves
<1>4. ASSUME NEW t \in Task, CallsAny(t) \/ ListsApprovals(t) \/ DeadlinePasses(t)
      PROVE  GrantsInv'
  BY <1>3, <1>4 DEF CallsAny, Calls, ListsApprovals, DeadlinePasses
<1>5. CASE \/ \E h \in Handler, id \in Id, d \in {"approved", "denied"} : Receives(h, id, d)
           \/ \E h \in Handler : Routes(h)
  BY <1>3, <1>5 DEF Receives, Routes, Approves, Executes, CallEnds, RouteOnly
<1>6. CASE \/ \E r \in Request, written \in BOOLEAN : AgentRunAsks(r, written)
           \/ \E written \in BOOLEAN : AgentRunCancelled(written) \/ ListsRequests(written)
  BY <1>3, <1>6 DEF AgentRunAsks, AgentRunCancelled, ListsRequests, tasks
<1>7. CASE (\E r \in Request : TimePasses(r)) \/ UNCHANGED vars
  BY <1>3, <1>7 DEF TimePasses, vars, tasks
<1>. QED
  BY <1>1, <1>2, <1>4, <1>5, <1>6, <1>7, RunsAreSound, AbortsAreSound, RestartIsSound DEF Next

LEMMA GrantsHold == Spec => [](GrantsInv /\ RoutesInv /\ JobsInv)
<1>1. Init => GrantsInv
  <2>. SUFFICES ASSUME Init PROVE GrantsInv
    OBVIOUS
  <2>1. /\ ledger = [t \in Task |-> NoRecord] /\ state = [t \in Task |-> NoState]
        /\ job = [t \in Task |-> NoJob] /\ run = [t \in Task |-> NoRun]
        /\ queue = [t \in Task |-> <<>>]
    BY DEF Init
  <2>2. TaskTypes
    BY <2>1, NothingIsSound DEF TaskTypes
  <2>. QED
    BY <2>1, <2>2, NothingIsSound DEF GrantsInv, SoundTask
<1>2. GrantsInv /\ RoutesInv /\ JobsInv /\ [Next]_vars => GrantsInv'
  BY GrantsStep
<1>. QED
  BY <1>1, <1>2, RoutesHold, PTL DEF Spec

(* The other variables.                                                     *)
StoreMoves ==
  \/ UNCHANGED approvals
  \/ \E r \in Request, w \in BOOLEAN : AsksApproval(r, w)
  \/ \E r, w : Consumes(r, w) \/ RefusesLapsed(r, w)
  \/ \E r, w : \E d \in {"approved", "denied"} : Decides(r, d, w)
  \/ \E r : RefusesDecision(r) \/ RefusesUse(r)
  \/ \E w : ListsPending(w)
  \/ \E R, w : CancelsRun(R, w)
  \/ \E r \in Request : Lapses(r)
  \/ Opens

LEMMA StoreTypes ==
  ASSUME ApprovalsTypeOK, StoreMoves
  PROVE  ApprovalsTypeOK'
<1>1. Swept \in [Request -> ApprovalStatus]
  BY DEF ApprovalsTypeOK, Swept, ApprovalStatus, Final
<1>2. ASSUME NEW w, Persist(w), approval' \in [Request -> ApprovalStatus],
             execution' \subseteq Request, UNCHANGED lapsed
      PROVE  ApprovalsTypeOK'
  BY <1>2 DEF ApprovalsTypeOK, Persist
<1>3. ASSUME NEW r \in Request, NEW w \in BOOLEAN, AsksApproval(r, w) PROVE ApprovalsTypeOK'
  BY <1>2, <1>3 DEF AsksApproval, ApprovalsTypeOK, ApprovalStatus, Live
<1>4. ASSUME NEW r, NEW w, Consumes(r, w) PROVE ApprovalsTypeOK'
  BY <1>2, <1>4 DEF Consumes, ApprovalsTypeOK, ApprovalStatus, Final
<1>5. ASSUME NEW r, NEW w, RefusesLapsed(r, w) PROVE ApprovalsTypeOK'
  BY <1>2, <1>5 DEF RefusesLapsed, ApprovalsTypeOK, ApprovalStatus, Final
<1>6. ASSUME NEW w, ListsPending(w) PROVE ApprovalsTypeOK'
  BY <1>1, <1>2, <1>6 DEF ListsPending, ApprovalsTypeOK
<1>7. ASSUME NEW r, NEW w, NEW d \in {"approved", "denied"}, Decides(r, d, w)
      PROVE  ApprovalsTypeOK'
  <2>1. approval' \in [Request -> ApprovalStatus] /\ execution' \subseteq Request
    BY <1>1, <1>7 DEF Decides, ApprovalsTypeOK, ApprovalStatus, Final, Live
  <2>. QED
    BY <1>2, <1>7, <2>1 DEF Decides
<1>8. ASSUME NEW r, RefusesDecision(r) \/ RefusesUse(r) PROVE ApprovalsTypeOK'
  BY <1>1, <1>8 DEF RefusesDecision, RefusesUse, ApprovalsTypeOK, approvals
<1>9. ASSUME NEW R, NEW w, CancelsRun(R, w) PROVE ApprovalsTypeOK'
  <2>1. approval' \in [Request -> ApprovalStatus] /\ execution' \subseteq Request
    BY <1>9 DEF CancelsRun, ApprovalsTypeOK, ApprovalStatus, Final
  <2>2. Persist(w) \/ UNCHANGED document
    BY <1>9 DEF CancelsRun
  <2>. QED
    BY <1>2, <1>9, <2>1, <2>2 DEF CancelsRun, ApprovalsTypeOK
<1>10. ASSUME NEW r \in Request, Lapses(r) PROVE ApprovalsTypeOK'
  BY <1>10 DEF Lapses, ApprovalsTypeOK
<1>11. ASSUME Opens PROVE ApprovalsTypeOK'
  BY <1>11 DEF Opens, ApprovalsTypeOK, ApprovalStatus, Final
<1>12. UNCHANGED approvals => ApprovalsTypeOK'
  BY DEF ApprovalsTypeOK, approvals
<1>. QED
  BY <1>3, <1>4, <1>5, <1>6, <1>7, <1>8, <1>9, <1>10, <1>11, <1>12 DEF StoreMoves

LEMMA StoreSteps ==
  ASSUME RoutesInv, [Next]_vars
  PROVE  StoreMoves
<1>1. ASSUME NEW h \in Handler, Approves(h) PROVE StoreMoves
  <2>1. handler[h].decision \in {"approved", "denied"}
    BY DEF RoutesInv, RouteTypes, Decision
  <2>2. \/ \E w : Decides(handler[h].id, handler[h].decision, w)
        \/ RefusesDecision(handler[h].id)
    BY <1>1 DEF Approves
  <2>. QED
    BY <2>1, <2>2 DEF StoreMoves
<1>2. ASSUME NEW h \in Handler, Executes(h) PROVE StoreMoves
  <2>1. \/ \E w : Consumes(handler[h].id, w) \/ RefusesLapsed(handler[h].id, w)
        \/ RefusesUse(handler[h].id) \/ UNCHANGED approvals
    BY <1>2 DEF Executes
  <2>. QED
    BY <2>1 DEF StoreMoves
<1>3. ASSUME NEW t \in Task, Operates(t) PROVE UNCHANGED approvals
  <2>1. CASE Start(t)
    BY <2>1, Zenon DEF Start
  <2>2. CASE Follow(t)
    BY <2>2, Zenon DEF Follow
  <2>3. CASE Decide(t) \/ Running(t) \/ End(t) \/ Cancel(t) \/ Status(t) \/ Expire(t)
    BY <2>3 DEF Decide, Running, End, Cancel, Status, Expire, Resolves
  <2>4. CASE Look(t) \/ Begin(t) \/ Settle(t) \/ OperationFails(t)
    BY <2>4 DEF Look, Resolves, Begin, Settle, OperationFails
  <2>. QED
    BY <1>3, <2>1, <2>2, <2>3, <2>4 DEF Operates
<1>4. ASSUME NEW t \in Task, Runs(t) PROVE StoreMoves
  <2>1. UNCHANGED approvals \/ \E r \in Request, w \in BOOLEAN : AsksApproval(r, w)
    BY <1>4 DEF Runs, RunThrows, RunOpens, RunPrompts, RunVerifies, RunAsks, RunAnswers,
                RunCloses
  <2>. QED
    BY <2>1 DEF StoreMoves
<1>5. ASSUME NEW t \in Task, \/ CallsAny(t) \/ ListsApprovals(t) \/ TimesOut(t)
                             \/ DeadlinePasses(t)
      PROVE  UNCHANGED approvals
  BY <1>5 DEF CallsAny, Calls, ListsApprovals, TimesOut, DeadlinePasses
<1>6. ASSUME \/ \E h \in Handler : CallEnds(h)
             \/ \E h \in Handler, id \in Id, d \in {"approved", "denied"} : Receives(h, id, d)
             \/ Close \/ UNCHANGED vars
      PROVE  UNCHANGED approvals
  BY <1>6 DEF CallEnds, Receives, Close, vars
<1>7. CASE \E r \in Request, w \in BOOLEAN : AgentRunAsks(r, w)
  BY <1>7 DEF AgentRunAsks, StoreMoves
<1>8. CASE \E w \in BOOLEAN : AgentRunCancelled(w) \/ ListsRequests(w)
  BY <1>8 DEF AgentRunCancelled, ListsRequests, StoreMoves
<1>9. CASE (\E r \in Request : TimePasses(r)) \/ Restart
  BY <1>9 DEF TimePasses, Restart, StoreMoves
<1>10. UNCHANGED approvals => StoreMoves
  BY DEF StoreMoves
<1>. QED
  BY <1>1, <1>2, <1>3, <1>4, <1>5, <1>6, <1>7, <1>8, <1>9, <1>10 DEF Next, Routes

Counters ==
  /\ closed \in BOOLEAN /\ overdue \subseteq Task
  /\ prompts \in [Task -> [Turn -> Nat]] /\ performed \in [Request -> Nat]
  /\ answers \in [Task -> Turn \cup {Nil}] /\ revoked \subseteq Request
  /\ faults \in 0..MaxFaults /\ restarts \in 0..MaxRestarts

LEMMA FaultsCounted ==
  ASSUME faults \in 0..MaxFaults, UNCHANGED faults \/ Faulty \/ \E w : Writes(w)
  PROVE  faults' \in 0..MaxFaults
BY BoundsAssumption DEF Faulty, Writes

LEMMA TurnsOfTask ==
  ASSUME GrantsInv, NEW t \in Task
  PROVE  /\ TurnOf(ledger[t]) \in Turn /\ TurnOf(job[t].rec) \in Turn
         /\ state[t].turn \in Turn /\ run[t].turn \in Turn
<1>1. ledger[t] \in Record /\ job[t].rec \in Record /\ state[t] \in State /\ run[t] \in Run
  BY DEF GrantsInv, SoundTask, Sound, Job
<1>2. \A r \in Record : TurnOf(r) \in Turn
  BY TurnOfSeen DEF TurnOf, Record
<1>. QED
  BY <1>1, <1>2 DEF State, Run

(* What an operation does to the answers.                                   *)
LEMMA OperationsAnswer ==
  ASSUME NEW t \in Task, Operates(t)
  PROVE  /\ UNCHANGED <<closed, overdue, prompts, performed, revoked, restarts>>
         /\ UNCHANGED faults \/ Faulty \/ \E w : Writes(w)
         /\ \/ UNCHANGED answers
            \/ \E n \in {Nil, TurnOf(job[t].rec), TurnOf(ledger[t]), state[t].turn, answers[t]} :
                 answers' = [answers EXCEPT ![t] = n]
<1>1. CASE Start(t)
  BY <1>1, Zenon DEF Start, observed, bounds
<1>2. CASE Follow(t)
  BY <1>2, Zenon DEF Follow, bounds
<1>3. CASE Decide(t) \/ Running(t) \/ Cancel(t) \/ Expire(t) \/ Begin(t) \/ OperationFails(t)
  BY <1>3 DEF Decide, Running, Cancel, Expire, Begin, OperationFails, observed, bounds
<1>4. CASE End(t) \/ Settle(t)
  BY <1>4 DEF End, Settle, bounds
<1>5. CASE Status(t) \/ Look(t)
  <2>1. Resolves(t)
    BY <1>5 DEF Status, Look
  <2>. QED
    BY <2>1 DEF Resolves, bounds
<1>. QED
  BY <1>1, <1>2, <1>3, <1>4, <1>5 DEF Operates

LEMMA CountersStep ==
  ASSUME Counters, GrantsInv, [Next]_vars
  PROVE  Counters'
<1>. USE DEF Counters
<1>1. ASSUME NEW t \in Task, CallsAny(t) \/ ListsApprovals(t) \/ TimesOut(t) \/ DeadlinePasses(t)
      PROVE  Counters'
  BY <1>1 DEF CallsAny, Calls, ListsApprovals, TimesOut, DeadlinePasses, observed, bounds
<1>2. ASSUME NEW t \in Task, Operates(t) PROVE Counters'
  <2>1. faults' \in 0..MaxFaults
    BY <1>2, OperationsAnswer, FaultsCounted
  <2>2. answers' \in [Task -> Turn \cup {Nil}]
    <3>1. CASE UNCHANGED answers
      BY <3>1
    <3>2. ASSUME NEW n \in {Nil, TurnOf(job[t].rec), TurnOf(ledger[t]), state[t].turn, answers[t]},
                 answers' = [answers EXCEPT ![t] = n]
          PROVE  answers' \in [Task -> Turn \cup {Nil}]
      <4>1. n \in Turn \cup {Nil}
        BY <3>2, TurnsOfTask
      <4>. QED
        BY <3>2, <4>1
    <3>. QED
      BY <1>2, <3>1, <3>2, OperationsAnswer
  <2>. QED
    BY <1>2, <2>1, <2>2, OperationsAnswer
<1>3. ASSUME NEW t \in Task, Runs(t) PROVE Counters'
  <2>1. UNCHANGED <<closed, overdue, performed, answers, revoked, restarts>>
    BY <1>3 DEF Runs, RunThrows, RunOpens, RunPrompts, RunVerifies, RunAsks, RunAnswers,
                RunCloses, NothingElse, observed
  <2>2. prompts' \in [Task -> [Turn -> Nat]]
    <3>1. UNCHANGED prompts \/ prompts' = [prompts EXCEPT ![t][run[t].turn] = @ + 1]
      BY <1>3 DEF Runs, RunThrows, RunOpens, RunPrompts, RunVerifies, RunAsks, RunAnswers,
                  RunCloses, observed
    <3>. PICK n, p : n = run[t].turn /\ p = [prompts[t] EXCEPT ![n] = prompts[t][n] + 1]
      OBVIOUS
    <3>2. n \in Turn /\ prompts[t] \in [Turn -> Nat]
      BY TurnsOfTask
    <3>3. p \in [Turn -> Nat]
      BY <3>2
    <3>4. prompts' = prompts \/ prompts' = [prompts EXCEPT ![t] = p]
      BY <3>1
    <3>. QED
      BY <3>3, <3>4
  <2>3. faults' \in 0..MaxFaults
    <3>1. UNCHANGED faults \/ Faulty \/ \E w : Writes(w)
      BY <1>3 DEF Runs, RunThrows, RunOpens, RunPrompts, RunVerifies, RunAsks, RunAnswers,
                  RunCloses
    <3>. QED
      BY <3>1, FaultsCounted
  <2>. QED
    BY <2>1, <2>2, <2>3
<1>4. ASSUME NEW h \in Handler, Routes(h) PROVE Counters'
  <2>1. UNCHANGED <<closed, overdue, prompts, answers, revoked, restarts>>
    BY <1>4 DEF Routes, Approves, Executes, CallEnds, RouteOnly
  <2>2. performed' \in [Request -> Nat]
    <3>1. UNCHANGED performed \/ performed' = [performed EXCEPT ![handler[h].id] = @ + 1]
      BY <1>4 DEF Routes, Approves, Executes, CallEnds
    <3>. QED
      BY <3>1
  <2>3. faults' \in 0..MaxFaults
    <3>1. UNCHANGED faults \/ Faulty \/ \E w : Writes(w)
      BY <1>4 DEF Routes, Approves, Executes, CallEnds
    <3>. QED
      BY <3>1, FaultsCounted
  <2>. QED
    BY <2>1, <2>2, <2>3
<1>5. ASSUME NEW h, NEW id, NEW d, Receives(h, id, d) PROVE Counters'
  BY <1>5 DEF Receives
<1>6. ASSUME NEW r \in Request, NEW w \in BOOLEAN, AgentRunAsks(r, w) PROVE Counters'
  BY <1>6, FaultsCounted DEF AgentRunAsks, tasks, observed
<1>7. ASSUME NEW w \in BOOLEAN, AgentRunCancelled(w) \/ ListsRequests(w) PROVE Counters'
  BY <1>7, FaultsCounted DEF AgentRunCancelled, OfRun, ListsRequests, tasks, observed
<1>8. ASSUME NEW r \in Request, TimePasses(r) PROVE Counters'
  BY <1>8 DEF TimePasses, tasks, observed, bounds
<1>9. CASE Close
  BY <1>9 DEF Close, observed, bounds
<1>10. CASE Restart
  <2>1. restarts' \in 0..MaxRestarts
    BY <1>10, BoundsAssumption DEF Restart
  <2>2. UNCHANGED <<overdue, prompts, performed, answers, revoked, faults>> /\ closed' = FALSE
    BY <1>10 DEF Restart
  <2>. QED
    BY <2>1, <2>2
<1>11. CASE UNCHANGED vars
  BY <1>11 DEF vars, tasks, observed, bounds
<1>. QED
  BY <1>1, <1>2, <1>3, <1>4, <1>5, <1>6, <1>7, <1>8, <1>9, <1>10, <1>11 DEF Next

LEMMA CountersInit == Init => Counters /\ ApprovalsTypeOK
<1>. SUFFICES ASSUME Init PROVE Counters /\ ApprovalsTypeOK
  OBVIOUS
<1>1. ApprovalsTypeOK
  BY DEF Init, ApprovalsInit, ApprovalsTypeOK, ApprovalStatus
<1>2. prompts \in [Task -> [Turn -> Nat]] /\ answers \in [Task -> Turn \cup {Nil}]
  <2>1. [n \in Turn |-> 0] \in [Turn -> Nat]
    OBVIOUS
  <2>2. prompts = [t \in Task |-> [n \in Turn |-> 0]] /\ answers = [t \in Task |-> Nil]
    BY DEF Init
  <2>. QED
    BY <2>1, <2>2
<1>3. /\ performed \in [Request -> Nat] /\ revoked \subseteq Request /\ closed \in BOOLEAN
      /\ overdue \subseteq Task
  BY DEF Init
<1>4. faults \in 0..MaxFaults /\ restarts \in 0..MaxRestarts
  <2>1. faults = 0 /\ restarts = 0
    BY DEF Init
  <2>. QED
    BY <2>1, BoundsAssumption
<1>. QED
  BY <1>1, <1>2, <1>3, <1>4 DEF Counters

(* Every record, job, run, operation and answer has its type: a task waits  *)
(* for ids it was given, works under a grant of its own, and its turn is    *)
(* one of those its follow-ups allow.                                       *)
THEOREM DelegationTypes == Spec => []TypeOK
<1>1. Counters /\ ApprovalsTypeOK /\ GrantsInv /\ RoutesInv /\ [Next]_vars
        => Counters' /\ ApprovalsTypeOK'
  BY CountersStep, StoreSteps, StoreTypes
<1>2. Counters /\ ApprovalsTypeOK /\ GrantsInv /\ RoutesInv => TypeOK
  <2>1. Seq(Asking) \subseteq Seq(Queued)
    BY DEF Asking
  <2>. QED
    BY <2>1 DEF TypeOK, Counters, GrantsInv, TaskTypes, RoutesInv, RouteTypes
<1>. QED
  BY <1>1, <1>2, CountersInit, GrantsHold, PTL DEF Spec

-----------------------------------------------------------------------------
(* Turns.  The adapter's file names the last turn given to the model, and   *)
(* so does a run that gave its turn.  A turn is not given while its record  *)
(* is absent, waits for the grant or has a job that has yet to write        *)
(* "running", and a run that has yet to give its turn then has an old one.  *)
ToPrompt(n) == n.at \in {"authorizing", "opening"}
Given(p, c, k, n) ==        \* prompts, turn of the record, turn of the file, run
  /\ \A i \in Turn : p[i] <= 1 /\ (i > k => p[i] = 0)
  /\ k <= c
  /\ ToPrompt(n) => p[n.turn] = 0
  /\ n.at # "none" => k <= n.turn /\ n.turn <= c
  /\ n.at # "none" /\ ~ToPrompt(n) => k = n.turn
Ungiven(p, c, n) == p[c] = 0 /\ (ToPrompt(n) => n.turn < c)

LEMMA GivenAlike ==
  ASSUME NEW p, NEW c, NEW k, NEW n, NEW m, Given(p, c, k, n),
         \/ m.at = "none"
         \/ m.turn = n.turn /\ n.at # "none" /\ (ToPrompt(m) <=> ToPrompt(n))
  PROVE  Given(p, c, k, m) /\ (Ungiven(p, c, n) => Ungiven(p, c, m))
BY DEF Given, Ungiven, ToPrompt

LEMMA TurnAdvances ==
  ASSUME NEW p \in [Turn -> Nat], NEW c \in Turn, NEW k \in Turn, NEW n, Given(p, c, k, n),
         n.turn \in Turn, c + 1 \in Turn
  PROVE  Given(p, c + 1, k, n) /\ Ungiven(p, c + 1, n)
<1>1. c \in Nat /\ k \in Nat /\ n.turn \in Nat
  BY TurnOfSeen
<1>2. ToPrompt(n) => n.at # "none"
  BY DEF ToPrompt
<1>. QED
  BY <1>1, <1>2 DEF Given, Ungiven

LEMMA TurnLaunched ==
  ASSUME NEW p \in [Turn -> Nat], NEW c \in Turn, NEW k \in Turn, NEW n, NEW m,
         Given(p, c, k, n), Ungiven(p, c, n), m.at = "authorizing", m.turn = c
  PROVE  Given(p, c, k, m)
<1>1. c \in Nat /\ k \in Nat
  BY TurnOfSeen
<1>2. ToPrompt(m)
  BY DEF ToPrompt
<1>. QED
  BY <1>1, <1>2 DEF Given, Ungiven

LEMMA TurnGiven ==
  ASSUME NEW p \in [Turn -> Nat], NEW c \in Turn, NEW k \in Turn, NEW n, NEW m,
         Given(p, c, k, n), n.turn \in Turn, n.at = "opening", m.at = "prompting",
         m.turn = n.turn, NEW q, q = [p EXCEPT ![n.turn] = @ + 1]
  PROVE  Given(q, c, n.turn, m) /\ (Ungiven(p, c, n) => Ungiven(q, c, m))
<1>1. c \in Nat /\ k \in Nat /\ n.turn \in Nat /\ Turn \subseteq Nat
  BY TurnOfSeen
<1>2. ToPrompt(n) /\ ~ToPrompt(m) /\ n.at # "none"
  BY DEF ToPrompt
<1>3. p[n.turn] = 0 /\ k <= n.turn /\ n.turn <= c
  BY <1>2 DEF Given
<1>4. q[n.turn] = 1 /\ \A i \in Turn : i # n.turn => q[i] = p[i]
  BY <1>3
<1>5. ASSUME NEW i \in Turn PROVE q[i] <= 1 /\ (i > n.turn => q[i] = 0)
  <2>1. CASE i = n.turn
    BY <1>1, <1>4, <2>1
  <2>2. CASE i # n.turn
    BY <1>1, <1>3, <1>4, <2>2 DEF Given
  <2>. QED
    BY <2>1, <2>2
<1>6. Ungiven(p, c, n) => q[c] = 0
  BY <1>1, <1>2, <1>4 DEF Ungiven
<1>. QED
  BY <1>1, <1>2, <1>3, <1>5, <1>6 DEF Given, Ungiven

Now(t) == TurnOf(ledger[t])
AwaitsGrant(t) == ledger[t].status = "waiting_approval" /\ ledger[t].grant = Nil
Unsubmitted(t) == ledger[t].status = "absent" \/ AwaitsGrant(t) \/ job[t].at = "queued"
Turns(t) ==
  /\ Given(prompts[t], Now(t), state[t].turn, run[t])
  /\ Unsubmitted(t) => Ungiven(prompts[t], Now(t), run[t])
TurnsInv == \A t \in Task : Turns(t)
Invs == Counters /\ GrantsInv /\ RoutesInv /\ JobsInv

(* What a step does to the turn of a task: nothing, or its run ends ...     *)
SameTurn(t) ==
  /\ prompts'[t] = prompts[t] /\ state'[t].turn = state[t].turn /\ Now(t)' = Now(t)
  /\ Unsubmitted(t)' => Unsubmitted(t)
  /\ \/ run'[t].at = "none"
     \/ /\ run'[t].turn = run[t].turn /\ run[t].at # "none"
        /\ ToPrompt(run'[t]) <=> ToPrompt(run[t])
NextTurn(t) ==                            \* ... a follow-up was accepted ...
  /\ prompts'[t] = prompts[t] /\ state'[t] = state[t] /\ run'[t] = run[t]
  /\ Now(t)' = Now(t) + 1
Launches(t) ==                            \* ... its job starts the run ...
  /\ prompts'[t] = prompts[t] /\ state'[t] = state[t] /\ Now(t)' = Now(t)
  /\ Unsubmitted(t) /\ ~Unsubmitted(t)'
  /\ run'[t].at = "authorizing" /\ run'[t].turn = Now(t)
Gives(t) ==                               \* ... or it gives its turn to the model
  /\ run[t].at = "opening" /\ run'[t].at = "prompting" /\ run'[t].turn = run[t].turn
  /\ state'[t].turn = run[t].turn /\ Now(t)' = Now(t) /\ Unsubmitted(t)' = Unsubmitted(t)
  /\ prompts'[t] = [prompts[t] EXCEPT ![run[t].turn] = @ + 1]
TurnStep(t) == SameTurn(t) \/ NextTurn(t) \/ Launches(t) \/ Gives(t)

LEMMA TurnsKept ==
  ASSUME Invs, NEW t \in Task, Turns(t), TurnStep(t), Now(t)' \in Turn
  PROVE  Turns(t)'
<1>. PICK p, c, k, n : p = prompts[t] /\ c = Now(t) /\ k = state[t].turn /\ n = run[t]
  OBVIOUS
<1>. PICK q, d, j, m : q = prompts'[t] /\ d = Now(t)' /\ j = state'[t].turn /\ m = run'[t]
  OBVIOUS
<1>1. p \in [Turn -> Nat] /\ c \in Turn /\ k \in Turn /\ n.turn \in Turn
  BY TurnsOfTask DEF Invs, Counters, Now
<1>2. Given(p, c, k, n) /\ (Unsubmitted(t) => Ungiven(p, c, n))
  BY DEF Turns
<1>3. SUFFICES Given(q, d, j, m) /\ (Unsubmitted(t)' => Ungiven(q, d, m))
  BY DEF Turns
<1>4. CASE SameTurn(t)
  BY <1>2, <1>4, GivenAlike DEF SameTurn
<1>5. CASE NextTurn(t)
  BY <1>1, <1>2, <1>5, TurnAdvances DEF NextTurn
<1>6. CASE Launches(t)
  BY <1>1, <1>2, <1>6, TurnLaunched DEF Launches
<1>7. CASE Gives(t)
  <2>1. /\ n.at = "opening" /\ m.at = "prompting" /\ m.turn = n.turn /\ j = n.turn /\ d = c
        /\ q = [p EXCEPT ![n.turn] = @ + 1] /\ Unsubmitted(t)' = Unsubmitted(t)
    BY <1>7 DEF Gives
  <2>2. Given(q, c, n.turn, m) /\ (Ungiven(p, c, n) => Ungiven(q, c, m))
    BY <1>1, <1>2, <2>1, TurnGiven
  <2>. QED
    BY <1>2, <2>1, <2>2
<1>. QED
  BY <1>4, <1>5, <1>6, <1>7 DEF TurnStep

(* Which turn it is, and whether it was submitted, depends on the record    *)
(* and the job.                                                             *)
Waited(l, j) == \/ l.status = "absent"
                \/ l.status = "waiting_approval" /\ l.grant = Nil
                \/ j.at = "queued"
LEMMA StillTheTurn ==
  ASSUME Invs, NEW t \in Task, NEW l, ledger' = [ledger EXCEPT ![t] = l],
         l.seen = ledger[t].seen, Waited(l, job'[t]) => Unsubmitted(t),
         UNCHANGED <<prompts, state>>,
         \/ run'[t] = NoRun
         \/ run'[t].at = run[t].at /\ run'[t].turn = run[t].turn
  PROVE  SameTurn(t)
<1>1. ledger'[t] = l
  BY DEF Invs, GrantsInv, TaskTypes
<1>2. Now(t)' = Now(t)
  BY <1>1 DEF Now, TurnOf
<1>3. Unsubmitted(t)' => Unsubmitted(t)
  BY <1>1 DEF Unsubmitted, AwaitsGrant, Waited
<1>. QED
  BY <1>2, <1>3 DEF SameTurn, NoRun, ToPrompt

LEMMA OtherTask ==
  ASSUME NEW u, ledger'[u] = ledger[u], state'[u] = state[u], job'[u] = job[u],
         run'[u] = run[u], prompts'[u] = prompts[u]
  PROVE  SameTurn(u)
BY DEF SameTurn, Now, Unsubmitted, AwaitsGrant, ToPrompt

LEMMA OneMore ==
  ASSUME NEW seen \in SUBSET FollowUp, NEW f, f \notin seen
  PROVE  Cardinality(seen \cup {f}) = Cardinality(seen) + 1
BY TurnOfSeen, FS_AddElement

(* A step of the operation of t, which writes its record only.              *)
LEMMA RecordTurn ==
  ASSUME Invs, NEW t \in Task, NEW l, ledger' = [ledger EXCEPT ![t] = l],
         l.seen = ledger[t].seen,
         \/ Unsubmitted(t)
         \/ l.status # "absent" /\ (l.status = "waiting_approval" => l.grant # Nil),
         job'[t].at = "queued" => Unsubmitted(t), UNCHANGED <<prompts, state>>,
         \/ run'[t] = NoRun
         \/ run'[t].at = run[t].at /\ run'[t].turn = run[t].turn
  PROVE  SameTurn(t)
BY StillTheTurn DEF Waited

LEMMA StartsTurn ==
  ASSUME Invs, NEW t \in Task, Start(t)
  PROVE  TurnStep(t)
<1>1. SoundTask(t) /\ UNCHANGED <<prompts, state, run>>
  BY Zenon DEF Invs, GrantsInv, Start, observed
<1>2. CASE Known(t)
  <2>1. UNCHANGED <<ledger, job>>
    BY <1>2, Zenon DEF Start
  <2>. QED
    BY <1>1, <2>1, OtherTask DEF TurnStep
<1>3. CASE ~Known(t)
  <2>1. PICK needs \in BOOLEAN :
          Submits(t, [NoRecord EXCEPT !.status = "accepted", !.needs = needs])
    BY <1>3, Zenon DEF Start
  <2>. PICK r : r = [NoRecord EXCEPT !.status = "accepted", !.needs = needs]
    OBVIOUS
  <2>. PICK m : m = [r EXCEPT !.status = "waiting_approval", !.asks = <<t, TurnOf(r)>>]
    OBVIOUS
  <2>2. ledger' = [ledger EXCEPT ![t] = r] \/ ledger' = [ledger EXCEPT ![t] = m]
    BY <2>1 DEF Submits
  <2>3. r.seen = {} /\ m.seen = {}
    BY DEF NoRecord
  <2>4. Unsubmitted(t) /\ ledger[t].seen = {}
    BY <1>1, <1>3 DEF Known, Unsubmitted, SoundTask, Sound, NoRecord
  <2>5. SameTurn(t)
    BY <1>1, <2>2, <2>3, <2>4, RecordTurn
  <2>. QED
    BY <2>5 DEF TurnStep
<1>. QED
  BY <1>2, <1>3

LEMMA FollowsTurn ==
  ASSUME Invs, NEW t \in Task, Follow(t)
  PROVE  TurnStep(t)
<1>1. SoundTask(t) /\ UNCHANGED <<prompts, state, run>>
  BY Zenon DEF Invs, GrantsInv, Follow
<1>2. CASE ~CanFollow(t)
  <2>1. UNCHANGED <<ledger, job>>
    BY <1>2, Zenon DEF Follow
  <2>. QED
    BY <1>1, <2>1, OtherTask DEF TurnStep
<1>3. CASE CanFollow(t)
  <2>. PICK f : f = By(t)
    OBVIOUS
  <2>. PICK r : r = [ledger[t] EXCEPT !.status = "accepted", !.asks = Nil, !.grant = Nil,
                       !.effect = Nil, !.seen = @ \cup {f}]
    OBVIOUS
  <2>. PICK m : m = [r EXCEPT !.status = "waiting_approval", !.asks = <<t, TurnOf(r)>>]
    OBVIOUS
  <2>1. Submits(t, r)
    BY <1>3, Zenon DEF Follow
  <2>2. ledger' = [ledger EXCEPT ![t] = r] \/ ledger' = [ledger EXCEPT ![t] = m]
    BY <2>1 DEF Submits
  <2>3. ledger[t].seen \in SUBSET FollowUp /\ r.seen = ledger[t].seen \cup {f} /\ m.seen = r.seen
    BY <1>1 DEF SoundTask, Sound, Record
  <2>4. ledger'[t].seen = ledger[t].seen \cup {f}
    BY <2>2, <2>3 DEF Invs, GrantsInv, TaskTypes
  <2>5. Now(t)' = Now(t) + 1
    BY <1>3, <2>3, <2>4, OneMore DEF Now, TurnOf, CanFollow
  <2>. QED
    BY <1>1, <2>5 DEF TurnStep, NextTurn
<1>. QED
  BY <1>2, <1>3

LEMMA DecisionsTurn ==
  ASSUME Invs, NEW t \in Task, Decide(t)
  PROVE  TurnStep(t)
<1>1. /\ SoundTask(t) /\ UNCHANGED <<prompts, state, run>>
      /\ ledger[t].status = "waiting_approval" /\ ledger[t].grant = Nil => Unsubmitted(t)
  BY DEF Invs, GrantsInv, Decide, observed, Unsubmitted, AwaitsGrant
<1>2. CASE UNCHANGED <<ledger, job>>
  BY <1>1, <1>2, OtherTask DEF TurnStep
<1>3. ASSUME NEW l, l.seen = ledger[t].seen, ledger' = [ledger EXCEPT ![t] = l],
             ledger[t].status = "waiting_approval", ledger[t].grant = Nil
      PROVE  TurnStep(t)
  BY <1>1, <1>3, RecordTurn DEF TurnStep
<1>4. \/ UNCHANGED <<ledger, job>>
      \/ /\ ledger[t].status = "waiting_approval" /\ ledger[t].grant = Nil
         /\ \E l : l.seen = ledger[t].seen /\ ledger' = [ledger EXCEPT ![t] = l]
  <2>. PICK d : d = handler[By(t)]
    OBVIOUS
  <2>. PICK l, m : /\ l = [ledger[t] EXCEPT !.status = "failed", !.asks = Nil]
                   /\ m = [ledger[t] EXCEPT !.status = "accepted", !.asks = Nil, !.grant = d.id]
    OBVIOUS
  <2>1. l.seen = ledger[t].seen /\ m.seen = ledger[t].seen
    BY <1>1 DEF SoundTask, Sound, Record
  <2>2. \/ UNCHANGED <<ledger, job>>
        \/ /\ ledger[t].status = "waiting_approval" /\ ledger[t].grant = Nil
           /\ ledger' = [ledger EXCEPT ![t] = l] \/ ledger' = [ledger EXCEPT ![t] = m]
    BY DEF Decide, WaitsFor
  <2>. QED
    BY <2>1, <2>2
<1>. QED
  BY <1>2, <1>3, <1>4

LEMMA RunningTurn ==
  ASSUME Invs, NEW t \in Task, Running(t)
  PROVE  TurnStep(t)
<1>. PICK l : l = [job[t].rec EXCEPT !.status = "running"]
  OBVIOUS
<1>1. job[t].at = "queued"
  BY QueueOps DEF Invs, JobsInv, Running, At, GoodTask, Good, GoodJob, GoodQueue, JobOps
<1>2. SoundTask(t) /\ ledger' = [ledger EXCEPT ![t] = l] /\ UNCHANGED <<prompts, state>>
  BY DEF Invs, GrantsInv, Running, observed
<1>3. job[t].rec \in Record /\ job[t].rec.seen = ledger[t].seen
  BY <1>1, <1>2 DEF SoundTask, Sound, Job, Captured
<1>4. l.status = "running" /\ l.seen = ledger[t].seen
  BY <1>3 DEF Record
<1>5. Unsubmitted(t)
  BY <1>1 DEF Unsubmitted
<1>6. CASE UNCHANGED run
  BY <1>2, <1>4, <1>5, <1>6, RecordTurn DEF TurnStep
<1>7. CASE run' = [run EXCEPT ![t] = Launched(job[t])] /\ job' = [job EXCEPT ![t].at = "racing"]
  <2>1. run'[t] = Launched(job[t]) /\ job'[t].at = "racing" /\ ledger'[t] = l
    BY <1>2, <1>7 DEF Invs, GrantsInv, TaskTypes, Job, SoundTask, Sound
  <2>2. run'[t].at = "authorizing" /\ run'[t].turn = Now(t)
    BY <1>3, <2>1 DEF Launched, Now, TurnOf
  <2>3. Now(t)' = Now(t) /\ ~Unsubmitted(t)'
    BY <1>4, <2>1 DEF Now, TurnOf, Unsubmitted, AwaitsGrant
  <2>. QED
    BY <1>2, <1>5, <2>2, <2>3 DEF TurnStep, Launches
<1>. QED
  BY <1>6, <1>7 DEF Running

(* What an abort does to the job and the run of the task.                   *)
LEMMA AbortsTurn ==
  ASSUME NEW t, SoundTask(t)
  PROVE  /\ JobAborted(t).at = "queued" => job[t].at = "queued"
         /\ \/ RunAborted(t) = NoRun
            \/ RunAborted(t).at = run[t].at /\ RunAborted(t).turn = run[t].turn
BY DEF JobAborted, RunAborted, SoundTask, Sound, Job, Run

LEMMA CancelsTurn ==
  ASSUME Invs, NEW t \in Task, Cancel(t)
  PROVE  TurnStep(t)
<1>1. SoundTask(t) /\ UNCHANGED <<prompts, state>>
  BY DEF Invs, GrantsInv, Cancel, observed
<1>2. CASE UNCHANGED <<ledger, job, run>>
  BY <1>1, <1>2, OtherTask DEF TurnStep
<1>. PICK l, m : /\ l = [ledger[t] EXCEPT !.status = "unknown", !.asks = Nil]
                 /\ m = [ledger[t] EXCEPT !.status = "cancelled"]
  OBVIOUS
<1>3. /\ l.status = "unknown" /\ l.seen = ledger[t].seen
      /\ m.status = "cancelled" /\ m.seen = ledger[t].seen
  BY <1>1 DEF SoundTask, Sound, Record
<1>4. CASE ledger' = [ledger EXCEPT ![t] = l] /\ UNCHANGED <<job, run>>
  BY <1>1, <1>3, <1>4, RecordTurn DEF TurnStep, Unsubmitted
<1>5. CASE /\ job' = [job EXCEPT ![t] = JobAborted(t)] /\ run' = [run EXCEPT ![t] = RunAborted(t)]
           /\ ledger' = [ledger EXCEPT ![t] = m] \/ UNCHANGED ledger
           /\ ledger[t].status \in Cancellable
  <2>1. /\ job'[t] = JobAborted(t) /\ run'[t] = RunAborted(t)
    BY <1>5 DEF Invs, GrantsInv, TaskTypes
  <2>2. /\ job'[t].at = "queued" => Unsubmitted(t)
        /\ \/ run'[t] = NoRun
           \/ run'[t].at = run[t].at /\ run'[t].turn = run[t].turn
    BY <1>1, <2>1, AbortsTurn DEF Unsubmitted
  <2>3. CASE ledger' = [ledger EXCEPT ![t] = m]
    BY <1>1, <1>3, <2>2, <2>3, RecordTurn DEF TurnStep
  <2>4. CASE UNCHANGED ledger
    <3>1. ledger' = [ledger EXCEPT ![t] = ledger[t]]
      BY <2>4 DEF Invs, GrantsInv, TaskTypes
    <3>2. Unsubmitted(t) \/ /\ ledger[t].status # "absent"
                            /\ ledger[t].status = "waiting_approval" => ledger[t].grant # Nil
      BY DEF Unsubmitted, AwaitsGrant
    <3>. QED
      BY <1>1, <2>2, <3>1, <3>2, RecordTurn DEF TurnStep
  <2>. QED
    BY <1>5, <2>3, <2>4
<1>. QED
  BY <1>2, <1>4, <1>5 DEF Cancel

LEMMA EndsTurn ==
  ASSUME Invs, NEW t \in Task, End(t)
  PROVE  TurnStep(t)
<1>1. SoundTask(t) /\ UNCHANGED <<prompts, state, run>> /\ job'[t].at = "none"
  BY DEF Invs, GrantsInv, TaskTypes, End, NoJob
<1>2. CASE StillRunning(t)
  <2>. PICK o : o = Outcome(t)
    OBVIOUS
  <2>. PICK l : l = [ledger[t] EXCEPT !.status = o.status, !.asks = o.asks]
    OBVIOUS
  <2>1. ledger' = [ledger EXCEPT ![t] = l]
    BY <1>2 DEF End
  <2>2. l.status = o.status /\ l.seen = ledger[t].seen /\ l.grant = ledger[t].grant
    BY <1>1 DEF SoundTask, Sound, Record
  <2>3. job[t].result = NoResult \/ job[t].result \in Result
    BY <1>1 DEF SoundTask, Sound, Job
  <2>4. /\ o.status # "absent"
        /\ o.status = "waiting_approval" => job[t].result.status = "waiting_approval"
    BY <2>3 DEF Outcome, Thrown, Plain, Result
  <2>5. o.status = "waiting_approval" => ledger[t].grant # Nil
    BY <1>1, <1>2, <2>4 DEF SoundTask, Sound, Needed, Allowed, StillRunning
  <2>. QED
    BY <1>1, <2>1, <2>2, <2>4, <2>5, RecordTurn DEF TurnStep
<1>3. CASE ~StillRunning(t)
  <2>1. ledger' = [ledger EXCEPT ![t] = ledger[t]]
    BY <1>3 DEF End, Invs, GrantsInv, TaskTypes
  <2>2. Unsubmitted(t) \/ /\ ledger[t].status # "absent"
                          /\ ledger[t].status = "waiting_approval" => ledger[t].grant # Nil
    BY DEF Unsubmitted, AwaitsGrant
  <2>. QED
    BY <1>1, <2>1, <2>2, RecordTurn DEF TurnStep
<1>. QED
  BY <1>2, <1>3

LEMMA LookupsTurn ==
  ASSUME Invs, NEW t \in Task, Resolves(t)
  PROVE  TurnStep(t)
<1>1. SoundTask(t) /\ UNCHANGED <<prompts, state, run, job>>
      /\ ledger' = [ledger EXCEPT ![t] = Resolved(t)]
  BY DEF Invs, GrantsInv, Resolves
<1>2. CASE Resolvable(t)
  <2>. PICK l : l = [ledger[t] EXCEPT !.status = state[t].status, !.asks = state[t].asks]
    OBVIOUS
  <2>1. ledger' = [ledger EXCEPT ![t] = l]
    BY <1>1, <1>2 DEF Resolved
  <2>2. l.status = state[t].status /\ l.seen = ledger[t].seen /\ l.grant = ledger[t].grant
    BY <1>1 DEF SoundTask, Sound, Record
  <2>3. l.status # "absent" /\ (l.status = "waiting_approval" => l.grant # Nil)
    BY <1>1, <1>2, <2>2 DEF Resolvable, SoundTask, Sound, Needed, Allowed
  <2>. QED
    BY <1>1, <2>1, <2>2, <2>3, RecordTurn DEF TurnStep, Unsubmitted
<1>3. CASE ~Resolvable(t)
  <2>1. UNCHANGED ledger
    BY <1>1, <1>3 DEF Resolved, Invs, GrantsInv, TaskTypes
  <2>. QED
    BY <1>1, <2>1, OtherTask DEF TurnStep
<1>. QED
  BY <1>2, <1>3

LEMMA SettlementsTurn ==
  ASSUME Invs, NEW t \in Task, Expire(t) \/ Begin(t) \/ Settle(t)
  PROVE  TurnStep(t)
<1>. PICK h : h = By(t)
  OBVIOUS
<1>1. SoundTask(t) /\ UNCHANGED <<prompts, state, job, run>>
  BY DEF Invs, GrantsInv, Expire, Begin, Settle, observed
<1>2. CASE UNCHANGED ledger
  BY <1>1, <1>2, OtherTask DEF TurnStep
<1>3. ASSUME NEW st, st \in {"completed", "failed", "unknown"},
             ledger' = [ledger EXCEPT ![t] = Settled(t, st)]
      PROVE  TurnStep(t)
  <2>. PICK l : l = Settled(t, st)
    OBVIOUS
  <2>1. l.status = st /\ l.seen = ledger[t].seen
    BY <1>1 DEF SoundTask, Sound, Record, Settled
  <2>. QED
    BY <1>1, <1>3, <2>1, RecordTurn DEF TurnStep, Unsubmitted
<1>4. CASE Expire(t)
  BY <1>2, <1>3, <1>4 DEF Expire
<1>5. CASE Begin(t)
  <2>. PICK l : l = [ledger[t] EXCEPT !.effect = handler[h].id]
    OBVIOUS
  <2>1. UNCHANGED ledger \/ ledger' = [ledger EXCEPT ![t] = l]
    BY <1>5 DEF Begin
  <2>2. l.status = ledger[t].status /\ l.seen = ledger[t].seen /\ l.grant = ledger[t].grant
    BY <1>1 DEF SoundTask, Sound, Record
  <2>3. \/ Unsubmitted(t)
        \/ l.status # "absent" /\ (l.status = "waiting_approval" => l.grant # Nil)
    BY <2>2 DEF Unsubmitted, AwaitsGrant
  <2>4. CASE ledger' = [ledger EXCEPT ![t] = l]
    BY <1>1, <2>2, <2>3, <2>4, RecordTurn DEF TurnStep, Unsubmitted
  <2>. QED
    BY <1>2, <2>1, <2>4
<1>6. CASE Settle(t)
  <2>1. h \in Handler
    BY <1>6, AtTheHead DEF Settle, At, HandlerOps, Invs, By
  <2>2. handler[h].outcome \in {"completed", "failed", "unknown"}
    BY <2>1 DEF Invs, RoutesInv, RouteTypes, Decision
  <2>. QED
    BY <1>2, <1>3, <1>6, <2>2 DEF Settle
<1>. QED
  BY <1>4, <1>5, <1>6

LEMMA FailuresTurn ==
  ASSUME Invs, NEW t \in Task, OperationFails(t)
  PROVE  TurnStep(t)
<1>1. SoundTask(t) /\ UNCHANGED <<prompts, state, run, ledger>>
  BY DEF Invs, GrantsInv, OperationFails, observed
<1>2. job' = job \/ job'[t].at # "queued"
  BY DEF OperationFails, Invs, GrantsInv, TaskTypes, Job, NoJob
<1>3. Unsubmitted(t)' => Unsubmitted(t)
  BY <1>1, <1>2 DEF Unsubmitted, AwaitsGrant
<1>. QED
  BY <1>1, <1>3 DEF TurnStep, SameTurn, Now

LEMMA RunsTurn ==
  ASSUME Invs, NEW t \in Task, Turns(t), Runs(t)
  PROVE  TurnStep(t)
<1>1. SoundTask(t) /\ UNCHANGED ledger
  BY DEF Invs, GrantsInv, Runs, RunThrows, RunOpens, RunPrompts, RunVerifies, RunAsks,
         RunAnswers, RunCloses
<1>2. ASSUME UNCHANGED prompts, state'[t].turn = state[t].turn,
             job' = job \/ job'[t].at # "queued",
             \/ run'[t].at = "none"
             \/ /\ run'[t].turn = run[t].turn /\ run[t].at # "none"
                /\ ToPrompt(run'[t]) <=> ToPrompt(run[t])
      PROVE  TurnStep(t)
  <2>1. Unsubmitted(t)' => Unsubmitted(t)
    BY <1>1, <1>2 DEF Unsubmitted, AwaitsGrant
  <2>. QED
    BY <1>1, <1>2, <2>1 DEF TurnStep, SameTurn, Now
<1>3. CASE RunThrows(t) \/ RunCloses(t)
  <2>1. UNCHANGED <<prompts, state>> /\ run'[t] = NoRun /\ (job' = job \/ job'[t].at = "settling")
    BY <1>1, <1>3 DEF RunThrows, RunCloses, observed, Invs, GrantsInv, TaskTypes, SoundTask,
                      Sound, Job
  <2>. QED
    BY <1>2, <2>1 DEF NoRun
<1>4. CASE RunOpens(t) \/ RunVerifies(t) \/ RunAsks(t)
  <2>1. UNCHANGED <<prompts, state, job>>
    BY <1>4 DEF RunOpens, RunVerifies, RunAsks, observed
  <2>2. /\ run'[t].turn = run[t].turn /\ run[t].at # "none"
        /\ ToPrompt(run'[t]) <=> ToPrompt(run[t])
    <3>1. CASE RunOpens(t)
      BY <1>1, <3>1 DEF RunOpens, RunAt, ToPrompt, Invs, GrantsInv, TaskTypes, SoundTask,
                        Sound, Run
    <3>2. CASE RunVerifies(t)
      BY <1>1, <3>2 DEF RunVerifies, RunAt, ToPrompt, Invs, GrantsInv, TaskTypes, SoundTask,
                        Sound, Run
    <3>3. CASE RunAsks(t)
      <4>1. run[t].at = "asking" /\ run'[t].at = "prompting" /\ run'[t].turn = run[t].turn
        BY <1>1, <3>3 DEF RunAsks, RunAt, Invs, GrantsInv, TaskTypes, SoundTask, Sound, Run
      <4>. QED
        BY <4>1 DEF ToPrompt
    <3>. QED
      BY <1>4, <3>1, <3>2, <3>3
  <2>. QED
    BY <1>2, <2>1, <2>2
<1>5. CASE RunAnswers(t)
  <2>1. /\ UNCHANGED <<prompts, job>> /\ run[t].at = "prompting" /\ run'[t].at = "closing"
        /\ run'[t].turn = run[t].turn /\ state'[t].turn = run[t].turn
    BY <1>1, <1>5 DEF RunAnswers, RunAt, observed, Invs, GrantsInv, TaskTypes, SoundTask,
                      Sound, Run, State
  <2>2. state[t].turn = run[t].turn
    BY <2>1 DEF Turns, Given, ToPrompt
  <2>. QED
    BY <1>2, <2>1, <2>2 DEF ToPrompt
<1>6. CASE RunPrompts(t)
  <2>1. /\ UNCHANGED job /\ run[t].at = "opening" /\ run'[t].at = "prompting"
        /\ run'[t].turn = run[t].turn /\ state'[t].turn = run[t].turn
    BY <1>1, <1>6 DEF RunPrompts, RunAt, Prompted, Invs, GrantsInv, TaskTypes, SoundTask,
                      Sound, Run, State
  <2>2. prompts'[t] = [prompts[t] EXCEPT ![run[t].turn] = @ + 1]
    BY <1>6 DEF RunPrompts, Invs, Counters
  <2>. QED
    BY <1>1, <2>1, <2>2 DEF TurnStep, Gives, Now, Unsubmitted, AwaitsGrant
<1>. QED
  BY <1>3, <1>4, <1>5, <1>6 DEF Runs

(* A step of one task leaves the others alone.                              *)
LEMMA OthersTurn ==
  ASSUME Invs, NEW t \in Task, Operates(t) \/ Runs(t), NEW u \in Task, u # t
  PROVE  SameTurn(u)
<1>. USE DEF Invs, GrantsInv, TaskTypes, Counters
<1>1. ASSUME ledger' = ledger \/ \E l : ledger' = [ledger EXCEPT ![t] = l],
             state' = state \/ \E s : state' = [state EXCEPT ![t] = s],
             job' = job \/ \E j : job' = [job EXCEPT ![t] = j],
             run' = run \/ \E n : run' = [run EXCEPT ![t] = n],
             prompts' = prompts \/ \E p : prompts' = [prompts EXCEPT ![t] = p]
      PROVE  SameTurn(u)
  BY <1>1, OtherTask
<1>0. ASSUME NEW r, Submits(t, r), UNCHANGED <<state, run, prompts>>
      PROVE  SameTurn(u)
  <2>1. \E l : ledger' = [ledger EXCEPT ![t] = l]
    BY <1>0, Zenon DEF Submits
  <2>2. job' = job \/ \E j : job' = [job EXCEPT ![t] = j]
    BY <1>0, Zenon DEF Submits, Dispatches
  <2>. QED
    BY <1>0, <1>1, <2>1, <2>2
<1>2. CASE Start(t)
  <2>1. /\ UNCHANGED <<state, run, prompts>>
        /\ UNCHANGED <<ledger, job>> \/ \E r : Submits(t, r)
    BY <1>2, Zenon DEF Start, observed
  <2>. QED
    BY <1>0, <1>1, <2>1
<1>3. CASE Follow(t)
  <2>1. /\ UNCHANGED <<state, run, prompts>>
        /\ UNCHANGED <<ledger, job>> \/ \E r : Submits(t, r)
    BY <1>3, Zenon DEF Follow
  <2>. QED
    BY <1>0, <1>1, <2>1
<1>4. CASE Decide(t)
  BY <1>1, <1>4 DEF Decide, Dispatches, observed
<1>5. CASE Running(t)
  BY <1>1, <1>5 DEF Running, observed
<1>6. CASE End(t)
  <2>1. UNCHANGED <<state, run, prompts>> /\ job' = [job EXCEPT ![t] = NoJob]
    BY <1>6 DEF End
  <2>2. ledger' = ledger \/ \E l : ledger' = [ledger EXCEPT ![t] = l]
    BY <1>6 DEF End
  <2>. QED
    BY <1>1, <2>1, <2>2
<1>7. CASE Cancel(t)
  BY <1>1, <1>7 DEF Cancel, observed
<1>8. CASE Status(t) \/ Look(t)
  <2>1. Resolves(t)
    BY <1>8 DEF Status, Look
  <2>. QED
    BY <1>1, <2>1 DEF Resolves
<1>9. CASE Expire(t) \/ Begin(t) \/ Settle(t)
  BY <1>1, <1>9 DEF Expire, Begin, Settle, observed
<1>10. CASE OperationFails(t)
  BY <1>1, <1>10 DEF OperationFails, observed
<1>11. CASE RunThrows(t) \/ RunCloses(t) \/ RunOpens(t) \/ RunVerifies(t)
  BY <1>1, <1>11 DEF RunThrows, RunCloses, RunOpens, RunVerifies, observed
<1>12. CASE RunAsks(t)
  BY <1>1, <1>12 DEF RunAsks, observed
<1>13. CASE RunAnswers(t)
  BY <1>1, <1>13 DEF RunAnswers, observed
<1>14. CASE RunPrompts(t)
  BY <1>1, <1>14 DEF RunPrompts
<1>. QED
  BY <1>2, <1>3, <1>4, <1>5, <1>6, <1>7, <1>8, <1>9, <1>10, <1>11, <1>12, <1>13, <1>14
     DEF Operates, Runs

(* An abort by a timer, a close or the next process.                        *)
LEMMA AbortedTurn ==
  ASSUME Invs, NEW u \in Task, UNCHANGED <<ledger, state, prompts>>,
         job'[u] = JobAborted(u), run'[u] = RunAborted(u)
  PROVE  SameTurn(u)
<1>1. SoundTask(u) /\ ledger' = [ledger EXCEPT ![u] = ledger[u]]
  BY DEF Invs, GrantsInv, TaskTypes
<1>2. /\ job'[u].at = "queued" => Unsubmitted(u)
      /\ \/ run'[u] = NoRun
         \/ run'[u].at = run[u].at /\ run'[u].turn = run[u].turn
  BY <1>1, AbortsTurn DEF Unsubmitted
<1>3. Unsubmitted(u) \/ /\ ledger[u].status # "absent"
                        /\ ledger[u].status = "waiting_approval" => ledger[u].grant # Nil
  BY DEF Unsubmitted, AwaitsGrant
<1>. QED
  BY <1>1, <1>2, <1>3, RecordTurn

LEMMA RestartedTurn ==
  ASSUME Invs, NEW u \in Task, Restart
  PROVE  SameTurn(u)
<1>. PICK l, m : l = Reopened(ledger[u]) /\ m = Reconciled(l)
  OBVIOUS
<1>1. SoundTask(u) /\ ledger'[u] = m /\ job'[u] = NoJob /\ run'[u] = NoRun
  BY DEF Invs, GrantsInv, Restart
<1>2. /\ l.seen = ledger[u].seen /\ l.grant = ledger[u].grant
      /\ l = ledger[u] \/ l.status = "unknown"
  BY <1>1 DEF Reopened, SoundTask, Sound, Record
<1>3. /\ m.seen = l.seen /\ m.grant = l.grant
      /\ m = l \/ m.status = "unknown"
  <2>1. l \in Record
    BY <1>1 DEF Reopened, SoundTask, Sound, Record
  <2>. QED
    BY <2>1 DEF Reconciled, Record
<1>4. Unsubmitted(u)' => Unsubmitted(u)
  BY <1>1, <1>2, <1>3 DEF Unsubmitted, AwaitsGrant, NoJob
<1>5. UNCHANGED <<prompts, state>>
  BY DEF Restart
<1>. QED
  BY <1>1, <1>2, <1>3, <1>4, <1>5 DEF SameTurn, Now, TurnOf, NoRun

LEMMA StepOfTurns ==
  ASSUME Invs, TurnsInv, [Next]_vars, NEW u \in Task
  PROVE  TurnStep(u)
<1>1. ASSUME NEW t \in Task, Operates(t) PROVE TurnStep(u)
  <2>1. CASE u = t
    <3>1. Status(t) \/ Look(t) => Resolves(t)
      BY DEF Status, Look
    <3>. QED
      BY <1>1, <2>1, <3>1, StartsTurn, FollowsTurn, DecisionsTurn, RunningTurn, EndsTurn,
         CancelsTurn, LookupsTurn, SettlementsTurn, FailuresTurn DEF Operates
  <2>2. CASE u # t
    BY <1>1, <2>2, OthersTurn DEF TurnStep
  <2>. QED
    BY <2>1, <2>2
<1>2. ASSUME NEW t \in Task, Runs(t) PROVE TurnStep(u)
  BY <1>2, RunsTurn, OthersTurn DEF TurnsInv, TurnStep
<1>3. CASE UNCHANGED <<ledger, state, job, run, prompts>>
  BY <1>3, OtherTask DEF TurnStep
<1>4. ASSUME NEW t \in Task, CallsAny(t) \/ ListsApprovals(t) \/ DeadlinePasses(t)
      PROVE  TurnStep(u)
  BY <1>3, <1>4 DEF CallsAny, Calls, ListsApprovals, DeadlinePasses, observed
<1>5. CASE \/ \E h \in Handler, id \in Id, d \in {"approved", "denied"} : Receives(h, id, d)
           \/ \E h \in Handler : Routes(h)
  <2>1. UNCHANGED <<ledger, state, job, run, prompts>>
    BY <1>5 DEF Receives, Routes, Approves, Executes, CallEnds, RouteOnly
  <2>. QED
    BY <1>3, <2>1
<1>6. CASE \/ \E r \in Request, written \in BOOLEAN : AgentRunAsks(r, written)
           \/ \E written \in BOOLEAN : AgentRunCancelled(written) \/ ListsRequests(written)
  BY <1>3, <1>6 DEF AgentRunAsks, AgentRunCancelled, ListsRequests, tasks, observed
<1>7. CASE (\E r \in Request : TimePasses(r)) \/ UNCHANGED vars
  BY <1>3, <1>7 DEF TimePasses, vars, tasks, observed
<1>8. ASSUME NEW t \in Task, TimesOut(t) PROVE TurnStep(u)
  <2>1. /\ UNCHANGED <<ledger, state, prompts>>
        /\ job' = [job EXCEPT ![t] = JobAborted(t)] /\ run' = [run EXCEPT ![t] = RunAborted(t)]
    BY <1>8 DEF TimesOut, observed
  <2>2. CASE u = t
    BY <2>1, <2>2, AbortedTurn DEF Invs, GrantsInv, TaskTypes, TurnStep
  <2>3. CASE u # t
    BY <2>1, <2>3, OtherTask DEF Invs, GrantsInv, TaskTypes, TurnStep
  <2>. QED
    BY <2>2, <2>3
<1>9. CASE Close
  BY <1>9, AbortedTurn DEF Close, TurnStep, observed
<1>10. CASE Restart
  BY <1>10, RestartedTurn DEF TurnStep
<1>. QED
  BY <1>1, <1>2, <1>4, <1>5, <1>6, <1>7, <1>8, <1>9, <1>10 DEF Next

LEMMA TurnsStep ==
  ASSUME Invs, TurnsInv, [Next]_vars, GrantsInv'
  PROVE  TurnsInv'
<1>1. ASSUME NEW t \in Task PROVE Turns(t)'
  <2>1. TurnStep(t)
    BY StepOfTurns
  <2>2. Now(t)' \in Turn
    BY TurnOfSeen DEF GrantsInv, SoundTask, Sound, Record, Now, TurnOf
  <2>. QED
    BY <2>1, <2>2, TurnsKept DEF TurnsInv
<1>. QED
  BY <1>1 DEF TurnsInv

LEMMA TurnsInit == Init => TurnsInv
<1>. SUFFICES ASSUME Init, NEW t \in Task PROVE Turns(t)
  BY DEF TurnsInv
<1>1. /\ ledger[t] = NoRecord /\ state[t] = NoState /\ run[t] = NoRun
      /\ prompts[t] = [n \in Turn |-> 0]
  BY DEF Init
<1>2. Now(t) = 0 /\ state[t].turn = 0
  BY <1>1, FS_EmptySet DEF Now, TurnOf, NoRecord, NoState
<1>3. Given(prompts[t], Now(t), state[t].turn, run[t]) /\ Ungiven(prompts[t], Now(t), run[t])
  BY <1>1, <1>2, TurnOfSeen DEF Given, Ungiven, ToPrompt, NoRun
<1>. QED
  BY <1>3 DEF Turns

LEMMA TurnsHold == Spec => [](Invs /\ TurnsInv)
<1>1. Init => Counters /\ TurnsInv
  BY CountersInit, TurnsInit
<1>2. Invs /\ TurnsInv /\ [Next]_vars /\ GrantsInv' => Counters' /\ TurnsInv'
  BY CountersStep, TurnsStep DEF Invs
<1>. QED
  BY <1>1, <1>2, GrantsHold, PTL DEF Spec, Invs

(* "Accepted task IDs are never submitted twice after a lost response or    *)
(* restart": no turn of a task is given to the model twice, because a run   *)
(* starts only for a turn nobody gave yet, and its own is the only one it   *)
(* gives.                                                                   *)
THEOREM TurnsAreSubmittedOnce == Spec => []SubmittedOnce
<1>1. TurnsInv => SubmittedOnce
  BY DEF TurnsInv, Turns, Given, SubmittedOnce
<1>. QED
  BY <1>1, TurnsHold, PTL

(* What a record shows once it has an answer for the turn it is at.         *)
LEMMA AnswersKept ==
  ASSUME Invs, TurnsInv, [Next]_vars, NEW t \in Task, answers'[t] # answers[t],
         answers'[t] # Nil, prompts[t][Now(t)] > 0
  PROVE  answers'[t] = Now(t)
<1>. USE DEF Now
<1>1. DOMAIN answers = Task
  BY DEF Invs, Counters
<1>2. PICK u \in Task : End(u) \/ Resolves(u) \/ Settle(u) \/ Follow(u)
  <2>1. \A u \in Task : \/ Start(u) \/ Decide(u) \/ Running(u) \/ Cancel(u) \/ Expire(u)
                        \/ Begin(u) \/ OperationFails(u) \/ Runs(u)
                        => UNCHANGED answers
    <3>. TAKE u \in Task
    <3>1. Start(u) => UNCHANGED answers
      BY Zenon DEF Start, observed
    <3>2. Runs(u) => UNCHANGED answers
      BY DEF Runs, RunThrows, RunOpens, RunPrompts, RunVerifies, RunAsks, RunAnswers,
             RunCloses, observed
    <3>3. \/ Decide(u) \/ Running(u) \/ Cancel(u) \/ Expire(u) \/ Begin(u)
          \/ OperationFails(u)
          => UNCHANGED answers
      BY DEF Decide, Running, Cancel, Expire, Begin, OperationFails, observed
    <3>. QED
      BY <3>1, <3>2, <3>3
  <2>2. \/ \E u \in Task : CallsAny(u) \/ ListsApprovals(u) \/ TimesOut(u) \/ DeadlinePasses(u)
        \/ \E h \in Handler, id \in Id, d \in {"approved", "denied"} : Receives(h, id, d)
        \/ \E h \in Handler : Routes(h)
        => UNCHANGED answers
    BY DEF CallsAny, Calls, ListsApprovals, TimesOut, DeadlinePasses, Receives, Routes,
           Approves, Executes, CallEnds, RouteOnly, observed
  <2>3. \/ \E r \in Request, written \in BOOLEAN : AgentRunAsks(r, written)
        \/ \E written \in BOOLEAN : AgentRunCancelled(written) \/ ListsRequests(written)
        \/ \E r \in Request : TimePasses(r)
        \/ Close \/ Restart \/ UNCHANGED vars
        => UNCHANGED answers
    BY DEF AgentRunAsks, AgentRunCancelled, ListsRequests, TimePasses, Close, Restart, vars,
           tasks, observed
  <2>4. \A u \in Task : Status(u) \/ Look(u) => Resolves(u)
    BY DEF Status, Look
  <2>. QED
    BY <2>1, <2>2, <2>3, <2>4 DEF Next, Operates
<1>3. CASE End(u)
  <2>1. u = t /\ answers'[t] = TurnOf(job[t].rec)
    BY <1>1, <1>3 DEF End
  <2>2. job[t].at = "settling"
    BY <1>3, <2>1, QueueOps DEF Invs, JobsInv, End, At, GoodTask, Good, GoodJob, GoodQueue,
                               JobOps
  <2>3. job[t].rec.seen = ledger[t].seen
    BY <2>2 DEF Invs, GrantsInv, SoundTask, Sound, Captured
  <2>. QED
    BY <2>1, <2>3 DEF TurnOf
<1>4. CASE Settle(u)
  BY <1>1, <1>4 DEF Settle
<1>5. CASE Follow(u)
  <2>1. answers' = answers \/ answers' = [answers EXCEPT ![u] = Nil]
    BY <1>5, Zenon DEF Follow
  <2>. QED
    BY <1>1, <2>1
<1>6. CASE Resolves(u)
  <2>1. u = t /\ answers'[t] = state[t].turn
    BY <1>1, <1>6 DEF Resolves
  <2>2. Given(prompts[t], Now(t), state[t].turn, run[t])
    BY DEF TurnsInv, Turns
  <2>3. Now(t) \in Nat /\ state[t].turn \in Nat /\ Now(t) \in Turn
    BY TurnsOfTask, TurnOfSeen DEF Invs
  <2>4. ~(Now(t) > state[t].turn) /\ state[t].turn <= Now(t)
    BY <2>2, <2>3 DEF Given
  <2>. QED
    BY <2>1, <2>3, <2>4
<1>. QED
  BY <1>2, <1>3, <1>4, <1>5, <1>6

(* A turn that reached the model is never answered with an older result: a  *)
(* job answers for the turn it captured, and a lookup reads a file that     *)
(* names the last turn the model was given.                                 *)
THEOREM AnswersAreOfTheirTurn == Spec => AnswerOfItsTurn
<1>1. Invs /\ TurnsInv /\ [Next]_vars =>
        [\A t \in Task :
           answers'[t] # answers[t] /\ answers'[t] # Nil
             /\ prompts[t][TurnOf(ledger[t])] > 0 =>
           answers'[t] = TurnOf(ledger[t])]_vars
  BY AnswersKept DEF Now
<1>. QED
  BY <1>1, TurnsHold, PTL DEF Spec, AnswerOfItsTurn

-----------------------------------------------------------------------------
(* The effect on record.  From its beginning on, the record of the task     *)
(* names the request, and waits for it unless a cancellation or a restart   *)
(* made its outcome unknown.                                                *)
Marked(t, r) ==
  /\ ledger[t].effect = r
  /\ \/ ledger[t].status = "unknown"
     \/ ledger[t].status = "waiting_approval" /\ ledger[t].asks = r
Commits(h) == handler[h].at \in Beginning /\ handler[h].decision = "approved"
Recorded(h) ==
  Commits(h) /\ owner[handler[h].id] \in Task /\ decisions[handler[h].id] = 1
    => Marked(owner[handler[h].id], handler[h].id)
RecordsInv == \A h \in Handler : Recorded(h)

(* Only a settlement for the request itself takes the mark away.            *)
LEMMA OperationsMark ==
  ASSUME Invs, NEW t \in Task, Operates(t), NEW r \in Request, Marked(t, r),
         ledger[t].status = "waiting_approval", Settle(t) => handler[By(t)].id # r
  PROVE  Marked(t, r)'
<1>1. /\ SoundTask(t) /\ GoodTask(t) /\ r # Nil /\ r \notin Grant
      /\ ledger[t].effect = r /\ ledger[t].asks = r /\ DOMAIN ledger = Task
  BY IdsApart DEF Invs, GrantsInv, JobsInv, OnTasks, Marked
<1>2. ledger[t].grant # Nil /\ job[t].at = "none"
  BY <1>1 DEF GoodTask, Good, GoodRecord, GoodJob
<1>3. CASE UNCHANGED ledger
  BY <1>3 DEF Marked
<1>4. CASE Start(t)
  BY <1>3, <1>4, Zenon DEF Start, Known
<1>5. CASE Follow(t)
  BY <1>3, <1>5, Zenon DEF Follow, CanFollow
<1>6. CASE Decide(t)
  BY <1>2, <1>3, <1>6 DEF Decide
<1>7. CASE Running(t) \/ End(t)
  <2>1. ~Running(t)
    BY <1>1, <1>2, QueueOps DEF Running, At, GoodTask, Good, GoodQueue, JobOps
  <2>. QED
    BY <1>3, <1>7, <2>1 DEF End, StillRunning
<1>8. CASE Cancel(t)
  <2>1. ledger' = [ledger EXCEPT ![t].status = "unknown", ![t].asks = Nil]
    BY <1>1, <1>8 DEF Cancel, Cancellable, InEffect
  <2>2. ledger'[t].status = "unknown" /\ ledger'[t].effect = r
    BY <1>1, <2>1 DEF SoundTask, Sound, Record
  <2>. QED
    BY <2>2 DEF Marked
<1>9. CASE Status(t) \/ Look(t)
  <2>1. ledger' = [ledger EXCEPT ![t] = ledger[t]]
    BY <1>9 DEF Status, Look, Resolves, Resolved, Resolvable
  <2>2. ledger'[t] = ledger[t]
    BY <1>1, <2>1
  <2>. QED
    BY <2>2 DEF Marked
<1>10. CASE Expire(t)
  <2>1. By(t) \in Grant
    BY <1>10, Queue DEF Invs, Expire, At, By, Asks
  <2>2. UNCHANGED ledger
    BY <1>1, <1>10, <2>1 DEF Expire, WaitsFor
  <2>. QED
    BY <1>3, <2>2
<1>11. CASE Begin(t) \/ OperationFails(t)
  BY <1>1, <1>3, <1>11 DEF Begin, CanBegin, OperationFails
<1>12. CASE Settle(t)
  BY <1>1, <1>3, <1>12 DEF Settle, WaitsFor
<1>. QED
  BY <1>4, <1>5, <1>6, <1>7, <1>8, <1>9, <1>10, <1>11, <1>12 DEF Operates

LEMMA OneRecord ==
  ASSUME JobsInv, NEW u \in Task, Operates(u), NEW t \in Task, t # u
  PROVE  ledger'[t] = ledger[t]
<1>1. DOMAIN ledger = Task
  BY DEF JobsInv, OnTasks
<1>2. \/ UNCHANGED ledger
      \/ \E l : ledger' = [ledger EXCEPT ![u] = l]
  <2>1. CASE Start(u)
    BY <2>1, Zenon DEF Start, Submits
  <2>2. CASE Follow(u)
    BY <2>2, Zenon DEF Follow, Submits
  <2>3. CASE \/ Decide(u) \/ Running(u) \/ End(u) \/ Cancel(u) \/ Status(u) \/ Look(u)
             \/ Expire(u) \/ Begin(u) \/ Settle(u) \/ OperationFails(u)
    BY <2>3 DEF Decide, Running, End, Cancel, Status, Look, Resolves, Expire, Begin, Settle,
                OperationFails
  <2>. QED
    BY <2>1, <2>2, <2>3 DEF Operates
<1>. QED
  BY <1>1, <1>2

LEMMA MarksKept ==
  ASSUME Invs, [Next]_vars, NEW t \in Task, NEW r \in Request, Marked(t, r),
         Settle(t) => handler[By(t)].id # r
  PROVE  Marked(t, r)'
<1>1. /\ SoundTask(t) /\ r # Nil /\ ledger[t].effect = r
      /\ ledger[t].status \in {"unknown", "waiting_approval"}
  BY IdsApart DEF Invs, GrantsInv, Marked
<1>2. CASE ledger[t].status = "unknown"
  <2>1. Kept(t)
    BY RecordsKept DEF Invs
  <2>. QED
    BY <1>1, <1>2, <2>1 DEF Kept, Interrupted, Marked
<1>3. CASE ledger[t].status = "waiting_approval"
  <2>1. CASE ledger'[t] = ledger[t]
    BY <2>1 DEF Marked
  <2>2. ASSUME NEW u \in Task, Operates(u) PROVE Marked(t, r)'
    <3>1. CASE u = t
      BY <1>3, <2>2, <3>1, OperationsMark
    <3>2. CASE u # t
      BY <2>1, <2>2, <3>2, OneRecord DEF Invs
    <3>. QED
      BY <3>1, <3>2
  <2>3. CASE Restart
    <3>. PICK m : m = ledger[t]
      OBVIOUS
    <3>1. /\ ledger'[t] = Reconciled(m) /\ m \in Record /\ m.effect = r
      BY <1>1, <1>3, <2>3 DEF Restart, Reopened, SoundTask, Sound
    <3>2. ledger'[t] = m \/ (ledger'[t].status = "unknown" /\ ledger'[t].effect = r)
      BY <3>1 DEF Reconciled, Record
    <3>. QED
      BY <1>1, <2>1, <3>2 DEF Marked
  <2>4. CASE \E u \in Task : \/ CallsAny(u) \/ Runs(u) \/ DeadlinePasses(u) \/ TimesOut(u)
                             \/ ListsApprovals(u)
    BY <2>1, <2>4 DEF CallsAny, Calls, Runs, RunThrows, RunOpens, RunPrompts, RunVerifies,
      RunAsks, RunAnswers, RunCloses, DeadlinePasses, TimesOut, ListsApprovals
  <2>5. CASE \/ \E h \in Handler, id \in Id, d \in {"approved", "denied"} : Receives(h, id, d)
             \/ \E h \in Handler : Routes(h)
    BY <2>1, <2>5 DEF Receives, Routes, Approves, Executes, CallEnds, RouteOnly
  <2>6. CASE \/ \E q \in Request, written \in BOOLEAN : AgentRunAsks(q, written)
             \/ \E written \in BOOLEAN : AgentRunCancelled(written) \/ ListsRequests(written)
             \/ (\E q \in Request : TimePasses(q)) \/ Close \/ UNCHANGED vars
    BY <2>1, <2>6 DEF AgentRunAsks, AgentRunCancelled, ListsRequests, TimePasses, Close, vars,
                      tasks
  <2>. QED
    BY <2>2, <2>3, <2>4, <2>5, <2>6 DEF Next
<1>. QED
  BY <1>1, <1>2, <1>3

(* How a handler comes to commit itself to a call.                          *)
Moves(h) ==
  \/ handler'[h] = handler[h]
  \/ ~Commits(h)'
  \/ /\ handler[h].at \in Beginning /\ UNCHANGED ledger
     /\ handler'[h].id = handler[h].id /\ handler'[h].decision = handler[h].decision
  \/ handler'[h].id \in execution /\ owner[handler'[h].id] \notin Task
  \/ \E t \in Task : /\ Begin(t) /\ By(t) = h /\ CanBegin(t, handler[h].id)
                     /\ handler'[h].id = handler[h].id

LEMMA HandlersMove ==
  ASSUME RoutesInv, JobsInv, [Next]_vars, NEW h \in Handler
  PROVE  Moves(h)
<1>1. handler \in [Handler -> Decision]
  BY DEF RoutesInv, RouteTypes
<1>2. CASE UNCHANGED handler
  BY <1>2 DEF Moves
<1>3. ASSUME NEW k, NEW d, handler' = [handler EXCEPT ![k] = d],
             d.at \notin Beginning \/ d.decision # "approved"
      PROVE  Moves(h)
  BY <1>1, <1>3 DEF Moves, Commits
<1>4. ASSUME NEW k \in Handler, \/ Ends(k) \/ \E t : Catches(k, t)
                                \/ \E o : ToSettle(k, o) \/ Throws(k)
      PROVE  Moves(h)
  <2>. PICK o : UNCHANGED handler \/ Ends(k) \/ (\E t : Catches(k, t)) \/ ToSettle(k, o)
    BY <1>4 DEF Throws
  <2>. PICK c, s : /\ c = [handler[k] EXCEPT !.at = "catching",
                             !.outcome = IF handler[k].started THEN "unknown" ELSE "failed"]
                   /\ s = [handler[k] EXCEPT !.at = "settling", !.outcome = o]
    OBVIOUS
  <2>1. c.at \notin Beginning /\ s.at \notin Beginning /\ Idle.at \notin Beginning
    BY <1>1 DEF Decision, Beginning, Idle, Handling
  <2>2. \/ UNCHANGED handler \/ handler' = [handler EXCEPT ![k] = c]
        \/ handler' = [handler EXCEPT ![k] = s] \/ handler' = [handler EXCEPT ![k] = Idle]
    BY DEF Ends, Catches, ToSettle
  <2>. QED
    BY <1>2, <1>3, <2>1, <2>2
<1>5. ASSUME NEW t \in Task, Operates(t) PROVE Moves(h)
  <2>. PICK k : k = By(t)
    OBVIOUS
  <2>1. At(t, "decide") \/ At(t, "look") \/ At(t, "begin") \/ At(t, "settle")
        => k \in Handler /\ Serves(t, Head(queue[t]))
    BY AtTheHead DEF At, HandlerOps
  <2>2. CASE Start(t)
    BY <1>2, <2>2, Zenon DEF Start
  <2>3. CASE Follow(t)
    BY <1>2, <2>3, Zenon DEF Follow
  <2>4. CASE Running(t) \/ End(t) \/ Cancel(t) \/ Status(t) \/ Expire(t)
    BY <1>2, <2>4 DEF Running, End, Cancel, Status, Expire
  <2>5. CASE Decide(t)
    BY <1>4, <2>1, <2>5 DEF Decide
  <2>6. CASE Settle(t)
    BY <1>4, <2>1, <2>6 DEF Settle
  <2>7. CASE Look(t)
    <3>1. CASE \E u : Catches(k, u)
      BY <1>4, <2>1, <2>7, <3>1 DEF Look
    <3>2. CASE handler' = [handler EXCEPT ![k].at = "beginning"]
      <4>. PICK d : d = [handler[k] EXCEPT !.at = "beginning"]
        OBVIOUS
      <4>1. d.at \notin Beginning
        BY <1>1, <2>1, <2>7 DEF Look, Decision, Beginning
      <4>. QED
        BY <1>3, <3>2, <4>1
    <3>3. CASE handler' = [handler EXCEPT ![k].at = "deciding"] /\ handler[k].decision # "approved"
      <4>. PICK d : d = [handler[k] EXCEPT !.at = "deciding"]
        OBVIOUS
      <4>1. d.decision # "approved"
        BY <1>1, <2>1, <2>7, <3>3 DEF Look, Decision
      <4>. QED
        BY <1>3, <3>3, <4>1
    <3>. QED
      BY <2>7, <3>1, <3>2, <3>3 DEF Look
  <2>8. CASE Begin(t)
    <3>1. CASE \E u : Catches(k, u)
      BY <1>4, <2>1, <2>8, <3>1 DEF Begin
    <3>2. CASE /\ CanBegin(t, handler[k].id)
               /\ handler' = [handler EXCEPT ![k].at = "deciding", ![k].started = TRUE]
      <4>1. CASE h = k
        <5>1. handler'[h].id = handler[h].id
          BY <1>1, <3>2, <4>1 DEF Decision
        <5>. QED
          BY <2>8, <3>2, <4>1, <5>1 DEF Moves
      <4>2. CASE h # k
        BY <1>1, <3>2, <4>2 DEF Moves
      <4>. QED
        BY <4>1, <4>2
    <3>. QED
      BY <2>8, <3>1, <3>2 DEF Begin
  <2>9. CASE OperationFails(t)
    <3>1. UNCHANGED handler \/ Ends(k) \/ Catches(k, t)
      BY <2>9 DEF OperationFails
    <3>2. CASE k \in Handler
      BY <1>2, <1>4, <3>1, <3>2
    <3>3. CASE k \notin Handler
      BY <1>1, <3>1, <3>3 DEF Moves, Ends, Catches
    <3>. QED
      BY <3>2, <3>3
  <2>. QED
    BY <1>5, <2>2, <2>3, <2>4, <2>5, <2>6, <2>7, <2>8, <2>9 DEF Operates
<1>6. ASSUME NEW k \in Handler, Routes(k) PROVE Moves(h)
  <2>1. CASE \/ Throws(k) \/ \E o : ToSettle(k, o)
    BY <1>4, <2>1
  <2>2. CASE /\ handler[k].at \in {"deciding", "executing"} /\ UNCHANGED ledger
             /\ \E at \in {"executing", "calling"} : handler' = [handler EXCEPT ![k].at = at]
    BY <1>1, <2>2 DEF Moves, Decision, Beginning
  <2>. QED
    BY <1>6, <2>1, <2>2 DEF Routes, Approves, Executes, CallEnds, HandlerAt, RouteOnly
<1>7. ASSUME NEW k \in Handler, NEW id \in Id, NEW d, Receives(k, id, d) PROVE Moves(h)
  <2>1. CASE \E at \in {"granting", "looking"} :
                handler' = [handler EXCEPT ![k] = Handling(id, d, at)]
    BY <1>3, <2>1 DEF Handling, Beginning
  <2>2. CASE /\ id \in execution /\ owner[id] \notin Task
             /\ handler' = [handler EXCEPT ![k] = Handling(id, d, "deciding")]
    BY <1>1, <2>2 DEF Moves, Handling
  <2>. QED
    BY <1>7, <2>1, <2>2 DEF Receives
<1>8. CASE Restart
  <2>1. handler'[h] = Idle
    BY <1>8 DEF Restart
  <2>. QED
    BY <2>1 DEF Moves, Commits, Idle, Handling, Beginning
<1>9. ASSUME NEW t \in Task, \/ CallsAny(t) \/ Runs(t) \/ DeadlinePasses(t) \/ TimesOut(t)
                             \/ ListsApprovals(t)
      PROVE  Moves(h)
  BY <1>2, <1>9 DEF CallsAny, Calls, Runs, RunThrows, RunOpens, RunPrompts, RunVerifies, RunAsks,
    RunAnswers, RunCloses, DeadlinePasses, TimesOut, ListsApprovals, NothingElse
<1>10. CASE \/ \E q \in Request, written \in BOOLEAN : AgentRunAsks(q, written)
            \/ \E written \in BOOLEAN : AgentRunCancelled(written) \/ ListsRequests(written)
            \/ (\E q \in Request : TimePasses(q)) \/ Close \/ UNCHANGED vars
  BY <1>2, <1>10 DEF AgentRunAsks, AgentRunCancelled, ListsRequests, TimePasses, Close, vars
<1>. QED
  BY <1>5, <1>6, <1>7, <1>8, <1>9, <1>10 DEF Next

(* A request keeps its owner, and its decisions are counted up.             *)
LEMMA OwnersStay ==
  ASSUME RoutesInv, [Next]_vars
  PROVE  OwnersKept
<1>1. ASSUME NEW r \in Request, NEW who, owner[r] = Nil, owner' = [owner EXCEPT ![r] = who]
      PROVE  OwnersKept
  BY <1>1 DEF RoutesInv, RouteTypes, OwnersKept
<1>2. CASE UNCHANGED owner
  BY <1>2 DEF OwnersKept
<1>3. ASSUME NEW t \in Task, Operates(t) PROVE UNCHANGED owner
  <2>1. CASE Start(t)
    BY <2>1, Zenon DEF Start
  <2>2. CASE Follow(t)
    BY <2>2, Zenon DEF Follow
  <2>3. CASE Decide(t) \/ Running(t) \/ End(t) \/ Cancel(t) \/ Status(t) \/ Expire(t)
    BY <2>3 DEF Decide, Running, End, Cancel, Status, Expire, Resolves
  <2>4. CASE Look(t) \/ Begin(t) \/ Settle(t) \/ OperationFails(t)
    BY <2>4 DEF Look, Resolves, Begin, Settle, OperationFails
  <2>. QED
    BY <1>3, <2>1, <2>2, <2>3, <2>4 DEF Operates
<1>4. ASSUME NEW t \in Task, Runs(t) PROVE OwnersKept
  <2>1. \/ UNCHANGED owner
        \/ \E r \in Request : owner[r] = Nil /\ owner' = [owner EXCEPT ![r] = t]
    BY <1>4 DEF Runs, RunThrows, RunOpens, RunPrompts, RunVerifies, RunAsks, RunAnswers,
                RunCloses
  <2>. QED
    BY <1>1, <1>2, <2>1
<1>5. ASSUME NEW t \in Task, CallsAny(t) \/ DeadlinePasses(t) \/ TimesOut(t) \/ ListsApprovals(t)
      PROVE  UNCHANGED owner
  BY <1>5 DEF CallsAny, Calls, DeadlinePasses, TimesOut, ListsApprovals
<1>6. CASE \/ \E h \in Handler, id \in Id, d \in {"approved", "denied"} : Receives(h, id, d)
           \/ \E h \in Handler : Routes(h)
  BY <1>2, <1>6 DEF Receives, Routes, Approves, Executes, CallEnds, RouteOnly
<1>7. CASE \E r \in Request, written \in BOOLEAN : AgentRunAsks(r, written)
  BY <1>1, <1>7 DEF AgentRunAsks
<1>8. CASE \/ \E written \in BOOLEAN : AgentRunCancelled(written) \/ ListsRequests(written)
           \/ (\E r \in Request : TimePasses(r)) \/ Close \/ Restart \/ UNCHANGED vars
  BY <1>2, <1>8 DEF AgentRunCancelled, ListsRequests, TimePasses, Close, Restart, vars
<1>. QED
  BY <1>2, <1>3, <1>4, <1>5, <1>6, <1>7, <1>8 DEF Next

LEMMA DecisionsStay ==
  ASSUME RoutesInv, [Next]_vars, NEW r \in Request, decisions'[r] = 1
  PROVE  decisions[r] \in {0, 1}
<1>1. CASE UNCHANGED decisions
  BY <1>1
<1>2. ASSUME NEW h, NEW id, NEW d, Receives(h, id, d) PROVE decisions[r] \in {0, 1}
  <2>1. CASE decisions' = [decisions EXCEPT ![id] = IF @ = 0 THEN 1 ELSE 2]
    BY <2>1 DEF RoutesInv, RouteTypes
  <2>. QED
    BY <1>1, <1>2, <2>1 DEF Receives
<1>3. ASSUME NEW t \in Task, Operates(t) PROVE UNCHANGED decisions
  <2>1. CASE Start(t)
    BY <2>1, Zenon DEF Start, observed
  <2>2. CASE Follow(t)
    BY <2>2, Zenon DEF Follow
  <2>3. CASE Decide(t) \/ Running(t) \/ End(t) \/ Cancel(t) \/ Status(t) \/ Expire(t)
    BY <2>3 DEF Decide, Running, End, Cancel, Status, Expire, Resolves, observed
  <2>4. CASE Look(t) \/ Begin(t) \/ Settle(t) \/ OperationFails(t)
    BY <2>4 DEF Look, Resolves, Begin, Settle, OperationFails, observed
  <2>. QED
    BY <1>3, <2>1, <2>2, <2>3, <2>4 DEF Operates
<1>4. ASSUME NEW t \in Task, \/ Runs(t) \/ CallsAny(t) \/ DeadlinePasses(t) \/ TimesOut(t)
                             \/ ListsApprovals(t)
      PROVE  UNCHANGED decisions
  BY <1>4 DEF Runs, RunThrows, RunOpens, RunPrompts, RunVerifies, RunAsks, RunAnswers, RunCloses,
              CallsAny, Calls, DeadlinePasses, TimesOut, ListsApprovals, observed
<1>5. CASE \E h \in Handler : Routes(h)
  BY <1>1, <1>5 DEF Routes, Approves, Executes, CallEnds, RouteOnly
<1>6. CASE \/ \E q \in Request, written \in BOOLEAN : AgentRunAsks(q, written)
           \/ \E written \in BOOLEAN : AgentRunCancelled(written) \/ ListsRequests(written)
           \/ (\E q \in Request : TimePasses(q)) \/ Close \/ Restart \/ UNCHANGED vars
  BY <1>1, <1>6 DEF AgentRunAsks, AgentRunCancelled, ListsRequests, TimePasses, Close, Restart,
                    vars, tasks, observed
<1>. QED
  BY <1>1, <1>2, <1>3, <1>4, <1>5, <1>6 DEF Next

LEMMA RecordsStep ==
  ASSUME Invs, RecordsInv, [Next]_vars
  PROVE  RecordsInv'
<1>. SUFFICES ASSUME NEW h \in Handler PROVE Recorded(h)'
  BY DEF RecordsInv
<1>. PICK r, t : r = handler'[h].id /\ t = owner'[r]
  OBVIOUS
<1>. SUFFICES ASSUME Commits(h)', t \in Task, decisions'[r] = 1
              PROVE  Marked(t, r)'
  BY DEF Recorded
<1>1. Moves(h) /\ OwnersKept
  BY HandlersMove, OwnersStay DEF Invs
<1>2. ASSUME handler[h].at \in Beginning, handler[h].decision = "approved",
             handler[h].id = r
      PROVE  /\ r \in Request /\ Marked(t, r)
             /\ \A k \in Handler : On(k, r) => k = h
  <2>1. Active(h) /\ Owned(h)
    BY <1>2 DEF Active, Beginning, Invs, RoutesInv
  <2>2. r \in Request /\ owner[r] = t /\ On(h, r)
    BY <1>1, <1>2, <2>1 DEF Owned, OwnersKept, On
  <2>3. decisions[r] = 1
    BY <2>2, DecisionsStay DEF Invs, RoutesInv, Counted
  <2>4. \A k \in Handler : On(k, r) => k = h
    BY <2>2, <2>3 DEF Invs, RoutesInv, Counted
  <2>. QED
    BY <1>2, <2>2, <2>3, <2>4 DEF RecordsInv, Recorded, Commits
<1>3. CASE handler'[h] = handler[h]
  <2>1. handler[h].at \in Beginning /\ handler[h].decision = "approved" /\ handler[h].id = r
    BY <1>3 DEF Commits
  <2>2. ASSUME Settle(t) PROVE handler[By(t)].id # r
    <3>. PICK o, k : o = Head(queue[t]) /\ k = By(t)
      OBVIOUS
    <3>1. k \in Handler /\ Serves(t, o) /\ o.op = "settle" /\ o.by = k
      BY <2>2, AtTheHead DEF Invs, Settle, At, HandlerOps, By
    <3>2. handler[k].at \in {"settling", "catching"}
      BY <3>1 DEF Serves
    <3>. QED
      BY <1>2, <2>1, <3>1, <3>2 DEF On, Active, Beginning
  <2>. QED
    BY <1>2, <2>1, <2>2, MarksKept
<1>4. CASE /\ handler[h].at \in Beginning /\ UNCHANGED ledger
           /\ handler'[h].id = handler[h].id /\ handler'[h].decision = handler[h].decision
  <2>1. handler[h].decision = "approved"
    BY <1>4 DEF Commits
  <2>. QED
    BY <1>2, <1>4, <2>1 DEF Marked
<1>5. CASE r \in execution /\ owner[r] \notin Task
  <2>1. owner[r] # Nil /\ r \in Request
    BY <1>5 DEF Invs, RoutesInv, RouteTypes, Counted
  <2>. QED
    BY <1>1, <1>5, <2>1 DEF OwnersKept
<1>6. ASSUME NEW u \in Task, Begin(u), By(u) = h, CanBegin(u, handler[h].id),
             handler[h].id = r
      PROVE  Marked(t, r)'
  <2>1. Serves(u, Head(queue[u])) /\ Head(queue[u]).op = "begin" /\ Head(queue[u]).by = h
    BY <1>6, AtTheHead DEF Invs, Begin, At, HandlerOps, By
  <2>2. owner[r] = u /\ UNCHANGED owner
    BY <1>6, <2>1 DEF Serves, Begin
  <2>3. ledger' = [ledger EXCEPT ![t].effect = r]
    BY <1>6, <2>2 DEF Begin
  <2>4. /\ ledger'[t].effect = r /\ ledger'[t].status = "waiting_approval"
        /\ ledger'[t].asks = r
    BY <1>6, <2>2, <2>3 DEF Invs, GrantsInv, TaskTypes, Record, CanBegin, WaitsFor
  <2>. QED
    BY <2>4 DEF Marked
<1>. QED
  BY <1>1, <1>3, <1>4, <1>5, <1>6 DEF Moves

LEMMA RecordsHold == Spec => [](Invs /\ RecordsInv)
<1>1. Init => RecordsInv
  BY DEF Init, RecordsInv, Recorded, Commits, Idle, Handling, Beginning
<1>2. Invs /\ RecordsInv /\ [Next]_vars => RecordsInv'
  BY RecordsStep
<1>. QED
  BY <1>1, <1>2, TurnsHold, PTL DEF Spec

(* While the effect of a task is being made its record says so: it was      *)
(* written before the decision, and nobody but the handler that makes the   *)
(* call settles it, when its decision was not sent twice.  So the process   *)
(* that starts after a crash finds the effect and leaves it unknown.        *)
THEOREM EffectsAreOnRecord == Spec => []EffectOnRecord
<1>1. ASSUME Invs, RecordsInv PROVE EffectOnRecord
  <2>. SUFFICES ASSUME NEW r \in inFlight, decisions[r] = 1, owner[r] \in Task
                PROVE  /\ ledger[owner[r]].effect = r
                       /\ ledger[owner[r]].status \in {"waiting_approval", "unknown"}
    BY DEF EffectOnRecord, OnRecord
  <2>1. r \in Request
    BY <1>1 DEF Invs, RoutesInv, RouteTypes
  <2>2. PICK h \in Handler : handler[h].at = "calling" /\ On(h, r)
    BY <1>1, <2>1 DEF Invs, RoutesInv, Counted
  <2>3. Commits(h) /\ handler[h].id = r
    BY <1>1, <2>2 DEF Invs, RoutesInv, Owned, Commits, On, Beginning
  <2>4. Marked(owner[r], r)
    BY <1>1, <2>3 DEF RecordsInv, Recorded
  <2>. QED
    BY <2>4 DEF Marked
<1>. QED
  BY <1>1, RecordsHold, PTL
=============================================================================
