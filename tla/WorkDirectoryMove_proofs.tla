---------------------- MODULE WorkDirectoryMove_proofs ----------------------
(***************************************************************************)
(* Theorems about WorkDirectoryMove, for any tree, any requests and targets *)
(* and any number of failing steps, changes by others and crashes.          *)
(***************************************************************************)
EXTENDS WorkDirectoryMove, SequenceTheorems, TLAPS

Together == \A i \in Item : at[i] = row
RecordOf(r) == /\ journal[r].state = "prepared" => journal[r].from = row
               /\ journal[r].state = "committed" => row = Target[r]

(* Files are apart only while a record says where they belong, and there is *)
(* one such record at most; nobody is let in before it is settled.          *)
FilesInv ==
  /\ PendingRequests = {} => Together
  /\ \A r, s \in PendingRequests : r = s
  /\ \A r \in PendingRequests : RecordOf(r)
DoorInv == Open => PendingRequests = {}

(* A move that has begun has the tree to itself.                            *)
AloneInv ==
  /\ task # Nil => "reader" \notin users
  /\ task # Nil /\ task.phase # "preparing" => users = {}
  /\ mode \in {"down", "recovering"} => users = {}

(* Where the move in progress is: which steps have been made, and what its  *)
(* record says.                                                             *)
BeforeJournal ==
  /\ task.phase \in {"preparing", "saving"}
  /\ PendingRequests = {} /\ mode = "serving" /\ task.by = "move"
  /\ task.state = "prepared" /\ task.from = row
  /\ journal[task.req] # Nil => journal[task.req].state = "rolled_back"

Moving ==
  /\ task.phase = "moving" /\ PendingRequests = {task.req} /\ mode = "serving"
  /\ task.state = "prepared" /\ task.from = row /\ task.by = "move"
  /\ journal[task.req].state = "prepared" /\ task.step <= Len(MoveOrder)
  /\ \A i \in 1..task.step : at[MoveOrder[i]] = Target[task.req]

Reconciling ==
  /\ task.phase = "reconciling" /\ PendingRequests \subseteq {task.req}
  /\ journal[task.req] # Nil /\ Desired = row
  /\ journal[task.req].state \in Forward <=> task.state \in Forward
  /\ task.step <= Len(ReconcileOrder(task.state))
  /\ \A i \in 1..task.step : at[ReconcileOrder(task.state)[i]] = row

MoveInv == task # Nil => mode # "down" /\ (BeforeJournal \/ Moving \/ Reconciling)

Inv == TypeOK /\ FilesInv /\ DoorInv /\ AloneInv /\ MoveInv

-----------------------------------------------------------------------------
(* Both orders visit every item of the tree, and nothing else.              *)
LEMMA OrdersCover ==
  ASSUME NEW state
  PROVE  /\ MoveOrder \in Seq(Item) /\ ReconcileOrder(state) \in Seq(Item)
         /\ Len(MoveOrder) = Length
         /\ Len(ReconcileOrder(state)) = Length /\ Length \in Nat
         /\ \A x \in Item : \E i \in 1..Len(MoveOrder) : MoveOrder[i] = x
         /\ \A x \in Item : \E i \in 1..Len(ReconcileOrder(state)) :
                              ReconcileOrder(state)[i] = x
<1>. DEFINE D == IF state \in Forward THEN Directories ELSE Reverse(Directories)
<1>1. /\ Directories \in Seq(Item) /\ Headers \in Seq(Item)
      /\ Len(Directories) \in Nat /\ Len(Headers) \in Nat
  BY MoveAssumption DEF Item
<1>2. D \in Seq(Item) /\ Len(D) = Len(Directories)
  <2>1. \A i \in 1..Len(Directories) : Directories[Len(Directories) - i + 1] \in Item
    BY <1>1
  <2>2. Reverse(Directories) \in [1..Len(Directories) -> Item]
    BY <2>1 DEF Reverse
  <2>3. Reverse(Directories) \in Seq(Item) /\ Len(Reverse(Directories)) = Len(Directories)
    BY <2>2, <1>1
  <2>. QED
    BY <2>3, <1>1
<1>3. \A x \in Directory : \E i \in 1..Len(Directories) : Directories[i] = x
  BY <1>1 DEF Directory, Range
<1>4. \A x \in Header : \E i \in 1..Len(Headers) : Headers[i] = x
  BY <1>1 DEF Header, Range
<1>5. \A x \in Directory : \E i \in 1..Len(D) : D[i] = x
  <2>1. CASE state \in Forward
    BY <2>1, <1>3
  <2>2. CASE state \notin Forward
    <3>. TAKE x \in Directory
    <3>1. PICK i \in 1..Len(Directories) : Directories[i] = x
      BY <1>3
    <3>2. Len(Directories) - i + 1 \in 1..Len(Directories)
      BY <1>1
    <3>3. Reverse(Directories)[Len(Directories) - i + 1] = Directories[i]
      BY <3>2, <1>1 DEF Reverse
    <3>. QED
      BY <3>1, <3>2, <3>3, <2>2, <1>2
  <2>. QED
    BY <2>1, <2>2
<1>6. /\ MoveOrder \in Seq(Item) /\ Len(MoveOrder) = Len(Directories) + Len(Headers)
      /\ \A i \in 1..Len(MoveOrder) :
           MoveOrder[i] = IF i <= Len(Directories) THEN Directories[i]
                                                   ELSE Headers[i - Len(Directories)]
  BY <1>1, ConcatProperties, Zenon DEF MoveOrder
<1>. HIDE DEF D
<1>7. /\ Headers \o D \in Seq(Item) /\ Len(Headers \o D) = Len(Headers) + Len(D)
      /\ \A i \in 1..Len(Headers) + Len(D) :
           (Headers \o D)[i] = IF i <= Len(Headers) THEN Headers[i]
                                                    ELSE D[i - Len(Headers)]
  BY <1>1, <1>2, ConcatProperties, Zenon
<1>8. \A x \in Item : \E i \in 1..Len(MoveOrder) : MoveOrder[i] = x
  <2>. TAKE x \in Item
  <2>1. CASE x \in Directory
    BY <2>1, <1>3, <1>6, <1>1
  <2>2. CASE x \in Header
    <3>1. PICK i \in 1..Len(Headers) : Headers[i] = x
      BY <2>2, <1>4
    <3>2. i + Len(Directories) \in 1..Len(MoveOrder)
      BY <1>6, <1>1
    <3>. QED
      BY <3>1, <3>2, <1>6, <1>1
  <2>. QED
    BY <2>1, <2>2 DEF Item
<1>9. \A x \in Item : \E i \in 1..Len(Headers \o D) : (Headers \o D)[i] = x
  <2>. TAKE x \in Item
  <2>1. CASE x \in Header
    BY <2>1, <1>4, <1>7, <1>1, <1>2
  <2>2. CASE x \in Directory
    <3>1. PICK i \in 1..Len(D) : D[i] = x
      BY <2>2, <1>5
    <3>2. i + Len(Headers) \in 1..Len(Headers \o D)
      BY <1>7, <1>1, <1>2
    <3>3. (Headers \o D)[i + Len(Headers)] = D[i + Len(Headers) - Len(Headers)]
      BY <3>2, <1>7, <1>1, <1>2
    <3>4. i + Len(Headers) - Len(Headers) = i
      BY <1>1
    <3>. QED
      BY <3>1, <3>2, <3>3, <3>4, Zenon
  <2>. QED
    BY <2>1, <2>2 DEF Item
<1>10. ReconcileOrder(state) = Headers \o D
  BY DEF ReconcileOrder, D
<1>11. /\ ReconcileOrder(state) \in Seq(Item)
       /\ Len(ReconcileOrder(state)) = Len(Directories) + Len(Headers)
       /\ \A x \in Item : \E i \in 1..Len(ReconcileOrder(state)) :
                            ReconcileOrder(state)[i] = x
  BY <1>1, <1>2, <1>7, <1>9, <1>10
<1>12. Length \in Nat
  BY <1>1 DEF Length
<1>. QED
  BY <1>6, <1>8, <1>11, <1>12 DEF Length

-----------------------------------------------------------------------------
(* A move goes to a phase, makes a step of it, or gives its record a state. *)
AtItsStart(u) == u \in Task /\ u.step = 0

LEMMA TaskUpdates ==
  ASSUME NEW t \in Task
  PROVE  /\ t.from \in Place /\ t.req \in Request /\ t.state \in Recorded /\ t.step \in Nat
         /\ \A p \in {"saving", "moving", "reconciling"} :
              AtItsStart([t EXCEPT !.phase = p, !.step = 0])
         /\ AtItsStart([t EXCEPT !.phase = "reconciling", !.step = 0, !.by = "handler"])
         /\ \A s \in Recorded :
              /\ AtItsStart([t EXCEPT !.state = s, !.step = 0, !.by = "handler"])
              /\ AtItsStart([t EXCEPT !.state = s, !.phase = "reconciling", !.step = 0])
         /\ [t EXCEPT !.step = @ + 1] \in Task
         /\ [t EXCEPT !.step = @ + 1].step = t.step + 1
<1>1. t.from \in Place /\ t.req \in Request /\ t.state \in Recorded /\ t.step \in Nat
  BY DEF Task
<1>2. \A p \in {"saving", "moving", "reconciling"} :
        AtItsStart([t EXCEPT !.phase = p, !.step = 0])
  BY DEF Task, AtItsStart
<1>3. AtItsStart([t EXCEPT !.phase = "reconciling", !.step = 0, !.by = "handler"])
  BY DEF Task, AtItsStart
<1>4. \A s \in Recorded : AtItsStart([t EXCEPT !.state = s, !.step = 0, !.by = "handler"])
  BY DEF Task, AtItsStart
<1>5. \A s \in Recorded :
        AtItsStart([t EXCEPT !.state = s, !.phase = "reconciling", !.step = 0])
  BY DEF Task, AtItsStart
<1>6. [t EXCEPT !.step = @ + 1] \in Task /\ [t EXCEPT !.step = @ + 1].step = t.step + 1
  BY DEF Task
<1>. QED
  BY <1>1, <1>2, <1>3, <1>4, <1>5, <1>6, Zenon

LEMMA NewTasks ==
  ASSUME NEW r \in Request, NEW f \in Place, NEW s \in Recorded
  PROVE  /\ AtItsStart([req |-> r, from |-> f, state |-> s, phase |-> "preparing",
                        step |-> 0, by |-> "move"])
         /\ AtItsStart([req |-> r, from |-> f, state |-> s, phase |-> "reconciling",
                        step |-> 0, by |-> "handler"])
BY DEF Task, AtItsStart

(* What the updates of a move leave alone, and that it goes on.             *)
GoesOnAs(u, t) == u # Nil /\ u.req = t.req /\ u.from = t.from

LEMMA GoesToPhase ==
  ASSUME NEW t \in Task, NEW u, NEW p \in {"saving", "moving", "reconciling"},
         u = [t EXCEPT !.phase = p, !.step = 0]
  PROVE  u.phase = p /\ u.state = t.state /\ u.by = t.by /\ u.step = 0 /\ GoesOnAs(u, t)
<1>1. AtItsStart(u)
  BY TaskUpdates
<1>2. u \in Task /\ u # Nil
  BY <1>1, NilAssumption DEF AtItsStart
<1>. QED
  BY <1>2 DEF Task, GoesOnAs

LEMMA GoesToHandler ==
  ASSUME NEW t \in Task, NEW u, u = [t EXCEPT !.phase = "reconciling", !.step = 0, !.by = "handler"]
  PROVE  u.phase = "reconciling" /\ u.state = t.state /\ u.step = 0 /\ GoesOnAs(u, t)
<1>1. AtItsStart(u)
  BY TaskUpdates
<1>2. u \in Task /\ u # Nil
  BY <1>1, NilAssumption DEF AtItsStart
<1>. QED
  BY <1>2 DEF Task, GoesOnAs

LEMMA RecordsAgain ==
  ASSUME NEW t \in Task, NEW u, NEW s \in Recorded,
         u = [t EXCEPT !.state = s, !.step = 0, !.by = "handler"]
  PROVE  u.phase = t.phase /\ u.state = s /\ u.step = 0 /\ GoesOnAs(u, t)
<1>1. AtItsStart(u)
  BY TaskUpdates
<1>2. u \in Task /\ u # Nil
  BY <1>1, NilAssumption DEF AtItsStart
<1>. QED
  BY <1>2 DEF Task, GoesOnAs

LEMMA Records ==
  ASSUME NEW t \in Task, NEW u, NEW s \in Recorded,
         u = [t EXCEPT !.state = s, !.phase = "reconciling", !.step = 0]
  PROVE  u.phase = "reconciling" /\ u.state = s /\ u.step = 0 /\ GoesOnAs(u, t)
<1>1. AtItsStart(u)
  BY TaskUpdates
<1>2. u \in Task /\ u # Nil
  BY <1>1, NilAssumption DEF AtItsStart
<1>. QED
  BY <1>2 DEF Task, GoesOnAs

LEMMA StepsOn ==
  ASSUME NEW t \in Task, NEW u, u = [t EXCEPT !.step = @ + 1]
  PROVE  /\ u.phase = t.phase /\ u.state = t.state /\ u.by = t.by
         /\ u.step = t.step + 1 /\ GoesOnAs(u, t)
<1>1. u \in Task /\ u # Nil
  BY TaskUpdates, NilAssumption DEF AtItsStart
<1>. QED
  BY <1>1 DEF Task, GoesOnAs

Goes == task' = Nil \/ task' = task \/ AtItsStart(task')
Throwing == Throws /\ task \in Task

LEMMA ThrowsGoes == Throwing => Goes
BY TaskUpdates DEF Throwing, Throws, Goes

(* Type correctness: every variable stays in its set, whatever fails.       *)
LEMMA TypeStep ==
  ASSUME TypeOK, MoveInv, [Next]_vars
  PROVE  TypeOK'
<1>0. Length \in Nat /\ Len(MoveOrder) = Length /\ \A s : Len(ReconcileOrder(s)) = Length
  BY OrdersCover, Zenon
<1>1. \A s : \A i \in 1..Length : ReconcileOrder(s)[i] \in Item
  BY OrdersCover
<1>2. \A i \in 1..Length : MoveOrder[i] \in Item
  BY OrdersCover
<1>3. ASSUME Steps PROVE task \in Task /\ Target[task.req] \in Place
  <2>1. task \in Task
    BY <1>3 DEF TypeOK, Steps, Prepare, SaveJournal, MoveStep, Commit, ReconcileStep,
                Settle, TaskAt
  <2>. QED
    BY <2>1, TaskUpdates, MoveAssumption
<1>. DEFINE Advances == task \in Task /\ task.step < Length
                        /\ task' = [task EXCEPT !.step = @ + 1]
            TaskOK == task \in Task \cup {Nil} /\ (task # Nil => task.step \in 0..Length)
<1>4. ASSUME Goes \/ Advances PROVE TaskOK'
  <2>1. CASE task' = Nil \/ task' = task
    BY <2>1 DEF TypeOK
  <2>2. CASE AtItsStart(task')
    BY <2>2, <1>0 DEF AtItsStart
  <2>3. CASE Advances
    <3>1. task' \in Task /\ task'.step = task.step + 1 /\ task.step \in Nat
      BY <2>3, TaskUpdates, Zenon
    <3>. QED
      BY <2>3, <3>1, <1>0
  <2>. QED
    BY <1>4, <2>1, <2>2, <2>3 DEF Goes
<1>. HIDE DEF TaskOK
<1>5. ASSUME TaskAt("moving") \/ TaskAt("reconciling")
      PROVE  /\ task.req \in Request
             /\ \A s \in Recorded : [journal[task.req] EXCEPT !.state = s] \in Record
  <2>1. task \in Task /\ task.req \in Request
    BY <1>5, TaskUpdates DEF TaskAt, TypeOK
  <2>2. journal[task.req] # Nil
    BY <1>5 DEF TaskAt, MoveInv, BeforeJournal, Moving, Reconciling, PendingRequests
  <2>3. journal[task.req] \in Record
    BY <2>1, <2>2 DEF TypeOK
  <2>. QED
    BY <2>1, <2>3 DEF Record
<1>6. ASSUME Faulty \/ UNCHANGED faults PROVE faults' \in 0..MaxFaults
  BY <1>6, MoveAssumption DEF Faulty, TypeOK
<1>7. ASSUME Throws \/ UNCHANGED mode
      PROVE  mode' \in {"down", "recovering", "serving", "blocked"}
  BY <1>7 DEF Throws, TypeOK
<1>8. CASE AcquiresRead \/ ReleasesRead \/ SubmitsRun \/ RunEnds
  BY <1>8 DEF TypeOK, AcquiresRead, ReleasesRead, SubmitsRun, RunEnds, UsedBy, files
<1>9. CASE \E r \in Request : Move(r)
  <2>1. Goes
    BY <1>9, NewTasks DEF Move, Goes, TypeOK, Recorded
  <2>. QED
    BY <1>9, <1>4, <2>1 DEF Move, files, others, TypeOK, TaskOK
<1>10. CASE Prepare
  <2>1. Goes
    BY <1>10, <1>3, TaskUpdates DEF Prepare, Proceeds, Goes, Steps
  <2>. QED
    BY <1>10, <1>4, <1>6, <2>1 DEF Prepare, files, TypeOK, TaskOK
<1>11. CASE SaveJournal
  <2>1. Goes
    BY <1>11, <1>3, TaskUpdates, ThrowsGoes DEF SaveJournal, Proceeds, Goes, Steps, Throwing
  <2>2. task.req \in Request /\ [from |-> task.from, state |-> "prepared"] \in Record
    BY <1>11, <1>3, TaskUpdates DEF Steps, Record, Recorded
  <2>3. journal' \in [Request -> Record \cup {Nil}]
    BY <1>11, <2>2 DEF SaveJournal, TypeOK
  <2>4. (Faulty \/ UNCHANGED faults) /\ (Throws \/ UNCHANGED mode)
    BY <1>11 DEF SaveJournal
  <2>. QED
    BY <1>11, <1>4, <1>6, <1>7, <2>1, <2>3, <2>4 DEF SaveJournal, others, TypeOK, TaskOK
<1>12. CASE MoveStep
  <2>1. Goes \/ Advances
    BY <1>12, <1>0, <1>3, ThrowsGoes DEF MoveStep, MakesStep, Steps, Throwing
  <2>2. MoveOrder[task.step + 1] \in Item
    <3>1. task.step \in Nat /\ task.step < Length
      BY <1>12, <1>0, <1>3, TaskUpdates DEF MoveStep, Steps
    <3>. QED
      BY <3>1, <1>0, <1>2
  <2>3. at' \in [Item -> Place]
    BY <1>12, <1>3, <2>2 DEF MoveStep, MakesStep, Steps, TypeOK
  <2>4. (Faulty \/ UNCHANGED faults) /\ (Throws \/ UNCHANGED mode)
    BY <1>12 DEF MoveStep, MakesStep
  <2>. QED
    BY <1>12, <1>4, <1>6, <1>7, <2>1, <2>3, <2>4 DEF MoveStep, others, TypeOK, TaskOK
<1>13. CASE Commit
  <2>1. Goes
    BY <1>13, <1>3, TaskUpdates, ThrowsGoes DEF Commit, Goes, Steps, Throwing, Recorded
  <2>2. journal' \in [Request -> Record \cup {Nil}] /\ row' \in Place
    BY <1>13, <1>3, <1>5 DEF Commit, Steps, TypeOK, Recorded
  <2>3. (Faulty \/ UNCHANGED faults) /\ (Throws \/ UNCHANGED mode)
    BY <1>13 DEF Commit
  <2>. QED
    BY <1>13, <1>4, <1>6, <1>7, <2>1, <2>2, <2>3 DEF Commit, others, TypeOK, TaskOK
<1>14. CASE ReconcileStep
  <2>1. Goes \/ Advances
    BY <1>14, <1>0, <1>3, ThrowsGoes DEF ReconcileStep, MakesStep, Steps, Throwing
  <2>2. ReconcileOrder(task.state)[task.step + 1] \in Item
    <3>1. task.step \in Nat /\ task.step < Length
      BY <1>14, <1>0, <1>3, TaskUpdates DEF ReconcileStep, Steps
    <3>. QED
      BY <3>1, <1>0, <1>1
  <2>3. at' \in [Item -> Place]
    BY <1>14, <1>3, <2>2, TaskUpdates DEF ReconcileStep, MakesStep, Desired, Steps, TypeOK
  <2>4. (Faulty \/ UNCHANGED faults) /\ (Throws \/ UNCHANGED mode)
    BY <1>14 DEF ReconcileStep, MakesStep
  <2>. QED
    BY <1>14, <1>4, <1>6, <1>7, <2>1, <2>3, <2>4 DEF ReconcileStep, others, TypeOK, TaskOK
<1>15. CASE Settle
  <2>1. Goes
    BY <1>15, <1>3, TaskUpdates, ThrowsGoes
    DEF Settle, SettledAs, Goes, Steps, Throwing, Recorded
  <2>2. journal' \in [Request -> Record \cup {Nil}]
    BY <1>15, <1>5 DEF Settle, SettledAs, TypeOK, Recorded
  <2>3. (Faulty \/ UNCHANGED faults) /\ (Throws \/ UNCHANGED mode)
    BY <1>15 DEF Settle
  <2>. QED
    BY <1>15, <1>4, <1>6, <1>7, <2>1, <2>2, <2>3 DEF Settle, others, TypeOK, TaskOK
<1>16. CASE Crash
  BY <1>16, MoveAssumption DEF TypeOK, Crash, files
<1>17. CASE Boot
  BY <1>17 DEF TypeOK, Boot, files, others
<1>18. CASE Recover
  <2>1. \A r \in PendingRequests :
          r \in Request /\ journal[r].from \in Place /\ journal[r].state \in Recorded
    BY DEF PendingRequests, TypeOK, Record
  <2>2. Goes
    BY <1>18, <2>1, NewTasks DEF Recover, Goes
  <2>. QED
    BY <1>18, <1>4, <2>2 DEF Recover, files, others, TypeOK, TaskOK
<1>19. CASE Meddle
  <2>1. occupied' \subseteq Directory \X Place /\ edited' \subseteq Header
    <3>1. CASE UNCHANGED occupied
      BY <1>19, <3>1 DEF Meddle, TypeOK
    <3>2. CASE \E d \in Directory, p \in Place :
                 occupied' = occupied \ {<<d, p>>} \/ occupied' = occupied \cup {<<d, p>>}
      BY <1>19, <3>2 DEF Meddle, TypeOK
    <3>. QED
      BY <1>19, <3>1, <3>2 DEF Meddle
  <2>. QED
    BY <1>19, <2>1, MoveAssumption DEF Meddle, files, TypeOK
<1>20. CASE UNCHANGED vars
  BY <1>20 DEF TypeOK, vars, files, others
<1>. QED
  BY <1>8, <1>9, <1>10, <1>11, <1>12, <1>13, <1>14, <1>15, <1>16, <1>17, <1>18, <1>19, <1>20
  DEF Next, Steps


-----------------------------------------------------------------------------
(* While files and paths stay as they are so does what is known of them.    *)
LEMMA SameFiles ==
  ASSUME FilesInv, UNCHANGED files
  PROVE  FilesInv' /\ PendingRequests' = PendingRequests
BY DEF FilesInv, files, Together, PendingRequests, RecordOf

(* Every error after the journal was written leads back to its record, or   *)
(* leaves nobody inside.                                                    *)
LEMMA ThrowsKeeps ==
  ASSUME TypeOK, AloneInv, MoveInv, task # Nil, task.phase \in {"moving", "reconciling"},
         Throws, UNCHANGED <<row, journal, users>>
  PROVE  ~Open' /\ AloneInv' /\ MoveInv'
<1>1. users = {} /\ task \in Task
  BY DEF AloneInv, TypeOK
<1>2. CASE task.by = "move"
  <2>1. journal[task.req] # Nil
    BY DEF MoveInv, BeforeJournal, Moving, Reconciling, PendingRequests
  <2>2. /\ task' = [task EXCEPT !.phase = "reconciling", !.step = 0, !.by = "handler"]
        /\ mode' = mode
    BY <1>2, <2>1 DEF Throws
  <2>3. /\ task' # Nil /\ task'.phase = "reconciling" /\ task'.req = task.req
        /\ task'.state = task.state /\ task'.from = task.from /\ task'.step = 0
    BY <1>1, <2>2, GoesToHandler DEF GoesOnAs
  <2>4. PendingRequests \subseteq {task.req} /\ Desired = row
        /\ (journal[task.req].state \in Forward <=> task.state \in Forward)
    BY DEF MoveInv, BeforeJournal, Moving, Reconciling, Desired, Forward
  <2>5. Reconciling'
    BY <2>1, <2>3, <2>4, OrdersCover DEF Reconciling, PendingRequests, Desired
  <2>. QED
    BY <1>1, <2>2, <2>3, <2>5 DEF AloneInv, MoveInv, Open
<1>3. CASE task.by # "move"
  <2>1. task' = Nil /\ mode' \in {"down", "blocked"}
    BY <1>1, <1>3 DEF Throws, Task
  <2>. QED
    BY <1>1, <2>1 DEF AloneInv, MoveInv, Open
<1>. QED
  BY <1>2, <1>3

(* The parts hold together, whichever step fails or is the last one of its  *)
(* process, and whatever others do to the files.                            *)
LEMMA InvStep ==
  ASSUME Inv, [Next]_vars
  PROVE  Inv'
<1>. USE DEF Inv
<1>0. TypeOK'
  BY TypeStep
<1>1. SUFFICES FilesInv' /\ DoorInv' /\ AloneInv' /\ MoveInv'
  BY <1>0
<1>2. /\ Length \in Nat /\ Len(MoveOrder) = Length
      /\ \A st : Len(ReconcileOrder(st)) = Length
      /\ \A x \in Item : \E i \in 1..Length : MoveOrder[i] = x
      /\ \A st : \A x \in Item : \E i \in 1..Length : ReconcileOrder(st)[i] = x
  BY OrdersCover
<1>3. CASE AcquiresRead \/ ReleasesRead \/ SubmitsRun \/ RunEnds
  <2>1. UNCHANGED <<files, task, mode>>
    BY <1>3 DEF AcquiresRead, ReleasesRead, SubmitsRun, RunEnds, UsedBy
  <2>2. AloneInv'
    BY <1>3, <2>1 DEF AcquiresRead, ReleasesRead, SubmitsRun, RunEnds, UsedBy, AloneInv,
                      Open
  <2>3. MoveInv'
    BY <2>1 DEF MoveInv, BeforeJournal, Moving, Reconciling, PendingRequests, Desired, files
  <2>. QED
    BY <2>1, <2>2, <2>3, SameFiles DEF DoorInv, Open
<1>4. ASSUME NEW q \in Request, Move(q) PROVE FilesInv' /\ DoorInv' /\ AloneInv' /\ MoveInv'
  <2>1. UNCHANGED <<files, mode, users>>
    BY <1>4 DEF Move, others
  <2>2. /\ task' # Nil /\ task'.req = q /\ task'.from = row /\ task'.state = "prepared"
        /\ task'.phase = "preparing" /\ task'.by = "move"
    BY <1>0, <1>4, NilAssumption, NewTasks DEF Move, AtItsStart, TypeOK, Recorded
  <2>3. PendingRequests = {} /\ mode = "serving" /\ "reader" \notin users
        /\ (journal[q] # Nil => journal[q].state = "rolled_back")
    BY <1>4 DEF Move, CanStart, DoorInv, Open
  <2>4. BeforeJournal'
    BY <2>1, <2>2, <2>3, SameFiles DEF BeforeJournal, files
  <2>. QED
    BY <2>1, <2>2, <2>3, <2>4, SameFiles DEF DoorInv, Open, AloneInv, MoveInv
<1>5. CASE Prepare
  <2>1. UNCHANGED <<files, mode, users>> /\ task # Nil /\ BeforeJournal
    BY <1>5 DEF Prepare, TaskAt, MoveInv, Moving, Reconciling
  <2>2. CASE task' = Nil
    BY <2>1, <2>2, SameFiles DEF DoorInv, AloneInv, MoveInv, BeforeJournal
  <2>3. CASE Acceptable(task) /\ Proceeds("saving")
    <3>1. /\ task' # Nil /\ task'.phase = "saving" /\ task'.req = task.req
          /\ task'.by = task.by /\ task'.state = task.state /\ task'.from = task.from
      BY <2>1, <2>3, GoesToPhase DEF Proceeds, TypeOK, GoesOnAs
    <3>2. users = {}
      BY <2>1, <2>3 DEF Acceptable, AloneInv, TypeOK
    <3>3. BeforeJournal'
      BY <2>1, <3>1, SameFiles DEF BeforeJournal, files
    <3>. QED
      BY <2>1, <3>1, <3>2, <3>3, SameFiles DEF DoorInv, Open, AloneInv, MoveInv
  <2>. QED
    BY <1>5, <2>2, <2>3 DEF Prepare
<1>6. CASE SaveJournal
  <2>1. /\ UNCHANGED <<at, row, users>> /\ task # Nil /\ task \in Task /\ users = {}
        /\ BeforeJournal
    BY <1>6 DEF SaveJournal, TaskAt, MoveInv, Moving, Reconciling, others, AloneInv, TypeOK
  <2>2. CASE /\ journal' = [journal EXCEPT ![task.req] =
                              [from |-> task.from, state |-> "prepared"]]
             /\ Proceeds("moving") /\ UNCHANGED mode
    <3>1. /\ task' # Nil /\ task'.phase = "moving" /\ task'.req = task.req
          /\ task'.by = task.by /\ task'.state = task.state /\ task'.from = task.from
          /\ task'.step = 0 /\ task.req \in Request
      BY <2>1, <2>2, GoesToPhase, TaskUpdates DEF Proceeds, GoesOnAs
    <3>2. [from |-> task.from, state |-> "prepared"] # Nil
      BY <2>1, NilAssumption DEF Record, Recorded, Task
    <3>3. PendingRequests' = {task.req} /\ journal'[task.req].from = row
          /\ journal'[task.req].state = "prepared"
      BY <2>1, <2>2, <3>1, <3>2 DEF PendingRequests, Pending, BeforeJournal, TypeOK
    <3>4. Moving'
      BY <1>2, <2>1, <2>2, <3>1, <3>3 DEF Moving, BeforeJournal
    <3>. QED
      BY <2>1, <2>2, <3>1, <3>3, <3>4
      DEF FilesInv, RecordOf, DoorInv, Open, AloneInv, MoveInv
  <2>3. CASE Throws /\ UNCHANGED journal
    <3>1. UNCHANGED files
      BY <2>1, <2>3 DEF files
    <3>2. CASE journal[task.req] = Nil
      <4>1. task' = Nil /\ mode' = "serving"
        BY <2>1, <2>3, <3>2 DEF Throws, BeforeJournal
      <4>. QED
        BY <2>1, <3>1, <4>1, SameFiles DEF DoorInv, AloneInv, MoveInv, BeforeJournal
    <3>3. CASE journal[task.req] # Nil
      <4>1. task' = [task EXCEPT !.phase = "reconciling", !.step = 0, !.by = "handler"]
        BY <1>6, <2>1, <2>3, <3>3 DEF Throws, BeforeJournal, SaveJournal, TaskAt
      <4>2. /\ task' # Nil /\ task'.phase = "reconciling" /\ task'.req = task.req
            /\ task'.state = task.state /\ task'.from = task.from /\ task'.step = 0
        BY <2>1, <4>1, GoesToHandler DEF GoesOnAs
      <4>3. Reconciling'
        BY <1>2, <2>1, <3>1, <3>3, <4>2, SameFiles
        DEF Reconciling, BeforeJournal, Desired, Forward, files
      <4>. QED
        BY <2>1, <2>3, <3>1, <4>2, <4>3, SameFiles DEF DoorInv, Open, AloneInv, MoveInv,
                                                  Throws, BeforeJournal
    <3>. QED
      BY <3>2, <3>3
  <2>. QED
    BY <1>6, <2>2, <2>3 DEF SaveJournal
<1>7. CASE MoveStep
  <2>1. /\ UNCHANGED <<row, journal, users>> /\ task # Nil /\ task \in Task /\ users = {}
        /\ Moving /\ task.step < Length
    BY <1>2, <1>7 DEF MoveStep, TaskAt, MoveInv, BeforeJournal, Reconciling, others,
                      AloneInv, TypeOK
  <2>2. FilesInv'
    BY <2>1 DEF FilesInv, Moving, PendingRequests, RecordOf
  <2>3. CASE Throws
    BY <2>1, <2>2, <2>3, ThrowsKeeps DEF Moving, DoorInv
  <2>4. CASE /\ at' = [at EXCEPT ![MoveOrder[task.step + 1]] = Target[task.req]]
             /\ task' = [task EXCEPT !.step = @ + 1] /\ UNCHANGED mode
    <3>1. /\ task' # Nil /\ task'.phase = "moving" /\ task'.req = task.req
          /\ task'.by = task.by /\ task'.state = task.state /\ task'.from = task.from
          /\ task'.step = task.step + 1 /\ task.step \in Nat
      BY <2>1, <2>4, StepsOn, TaskUpdates DEF GoesOnAs, Moving
    <3>2. \A i \in 1..Length : MoveOrder[i] \in Item
      BY OrdersCover
    <3>3. \A i \in 1..task.step : at'[MoveOrder[i]] = Target[task.req]
      BY <2>1, <2>4, <3>1, <3>2, <1>2 DEF Moving, TypeOK
    <3>4. at'[MoveOrder[task.step + 1]] = Target[task.req]
      BY <2>1, <2>4, <3>1, <3>2, <1>2 DEF TypeOK
    <3>5. \A i \in 1..(task.step + 1) : at'[MoveOrder[i]] = Target[task.req]
      BY <3>1, <3>3, <3>4
    <3>6. PendingRequests' = PendingRequests
      BY <2>1 DEF PendingRequests
    <3>7. Moving'
      BY <1>2, <2>1, <2>4, <3>1, <3>5, <3>6 DEF Moving
    <3>. QED
      BY <2>1, <2>2, <2>4, <3>1, <3>7 DEF DoorInv, Open, AloneInv, MoveInv
  <2>. QED
    BY <1>7, <2>3, <2>4 DEF MoveStep, MakesStep
<1>8. CASE Commit
  <2>1. /\ UNCHANGED <<at, users>> /\ task # Nil /\ task \in Task /\ users = {}
        /\ Moving /\ task.step = Length
    BY <1>2, <1>8 DEF Commit, TaskAt, MoveInv, BeforeJournal, Reconciling, others,
                      AloneInv, TypeOK
  <2>2. CASE Throws /\ UNCHANGED <<row, journal>>
    <3>1. FilesInv'
      BY <2>1, <2>2, SameFiles DEF files
    <3>. QED
      BY <2>1, <2>2, <3>1, ThrowsKeeps DEF Moving, DoorInv
  <2>3. CASE /\ row' = Target[task.req] /\ UNCHANGED mode
             /\ journal' = [journal EXCEPT ![task.req].state = "committed"]
             /\ task' = [task EXCEPT !.state = "committed", !.phase = "reconciling", !.step = 0]
    <3>1. /\ task' # Nil /\ task'.phase = "reconciling" /\ task'.req = task.req
          /\ task'.state = "committed" /\ task'.step = 0 /\ task.req \in Request
      BY <2>1, <2>3, Records, TaskUpdates DEF GoesOnAs, Recorded
    <3>2. /\ journal[task.req] \in Record /\ journal' \in [Request -> Record \cup {Nil}]
      BY <1>0, <2>1, <3>1 DEF Moving, TypeOK, PendingRequests
    <3>3. journal'[task.req].state = "committed" /\ journal'[task.req] # Nil
          /\ \A r \in Request \ {task.req} : journal'[r] = journal[r]
      BY <2>3, <3>1, <3>2, NilAssumption DEF TypeOK, Record, Recorded
    <3>4. PendingRequests' = {task.req}
      BY <2>1, <3>1, <3>3 DEF PendingRequests, Pending, Moving
    <3>5. Reconciling'
      BY <1>2, <2>3, <3>1, <3>3, <3>4 DEF Reconciling, Desired, Forward
    <3>. QED
      BY <2>1, <2>3, <3>1, <3>3, <3>4, <3>5
      DEF FilesInv, RecordOf, DoorInv, Open, AloneInv, MoveInv
  <2>. QED
    BY <1>8, <2>2, <2>3 DEF Commit
<1>9. CASE ReconcileStep
  <2>1. /\ UNCHANGED <<row, journal, users>> /\ task # Nil /\ task \in Task /\ users = {}
        /\ Reconciling /\ task.step < Length
    BY <1>2, <1>9 DEF ReconcileStep, TaskAt, MoveInv, BeforeJournal, Moving, others,
                      AloneInv, TypeOK
  <2>. DEFINE item == ReconcileOrder(task.state)[task.step + 1]
  <2>2. task.step \in Nat /\ item \in Item
    <3>0. task.step \in Nat
      BY <2>1, TaskUpdates
    <3>1. task.step \in Nat /\ task.step + 1 \in 1..Length
      BY <1>2, <2>1, <3>0
    <3>2. \A st : \A i \in 1..Length : ReconcileOrder(st)[i] \in Item
      BY OrdersCover
    <3>. QED
      BY <3>1, <3>2
  <2>3. at' = at \/ at' = [at EXCEPT ![item] = row]
    BY <1>9, <2>1 DEF ReconcileStep, MakesStep, Reconciling
  <2>. HIDE DEF item
  <2>4. \A x \in Item : at[x] = row => at'[x] = row
    BY <2>2, <2>3 DEF TypeOK
  <2>5. FilesInv'
    BY <2>1, <2>4 DEF FilesInv, PendingRequests, RecordOf, Together
  <2>6. CASE Throws
    BY <2>1, <2>5, <2>6, ThrowsKeeps DEF Reconciling, DoorInv
  <2>7. CASE /\ at' = [at EXCEPT ![item] = row]
             /\ task' = [task EXCEPT !.step = @ + 1] /\ UNCHANGED mode
    <3>1. /\ task' # Nil /\ task'.phase = "reconciling" /\ task'.req = task.req
          /\ task'.state = task.state /\ task'.from = task.from
          /\ task'.step = task.step + 1
      BY <2>1, <2>7, StepsOn DEF GoesOnAs, Reconciling
    <3>2. \A i \in 1..Length : ReconcileOrder(task.state)[i] \in Item
      BY OrdersCover
    <3>3. \A i \in 1..task.step : at'[ReconcileOrder(task.state)[i]] = row
      BY <1>2, <2>1, <2>2, <2>4, <3>2 DEF Reconciling
    <3>4. at'[ReconcileOrder(task.state)[task.step + 1]] = row
      BY <2>2, <2>7 DEF TypeOK, item
    <3>5. \A i \in 1..(task.step + 1) : at'[ReconcileOrder(task.state)[i]] = row
      BY <2>2, <3>3, <3>4
    <3>6. PendingRequests' = PendingRequests
      BY <2>1 DEF PendingRequests
    <3>7. Reconciling'
      BY <1>2, <2>1, <2>2, <3>1, <3>5, <3>6 DEF Reconciling, Desired
    <3>. QED
      BY <2>1, <2>5, <2>7, <3>1, <3>7 DEF DoorInv, Open, AloneInv, MoveInv
  <2>. QED
    BY <1>9, <2>1, <2>6, <2>7 DEF ReconcileStep, MakesStep, Reconciling, item
<1>10. CASE Settle
  <2>1. /\ UNCHANGED <<at, row, users>> /\ task # Nil /\ task \in Task /\ users = {}
        /\ Reconciling /\ task.step = Length /\ task.req \in Request
    BY <1>2, <1>10, TaskUpdates DEF Settle, TaskAt, MoveInv, BeforeJournal, Moving, others,
                      AloneInv, TypeOK
  <2>2. Together
    BY <1>2, <2>1 DEF Reconciling, Together
  <2>3. CASE /\ journal' = [journal EXCEPT ![task.req].state = SettledAs]
             /\ task' = Nil /\ UNCHANGED mode
    <3>1. journal[task.req] \in Record
      BY <2>1 DEF Reconciling, TypeOK
    <3>2. journal'[task.req].state = SettledAs
          /\ \A r \in Request \ {task.req} : journal'[r] = journal[r]
      BY <2>1, <2>3, <3>1 DEF TypeOK, Record
    <3>3. PendingRequests' = {}
      BY <2>1, <3>2 DEF PendingRequests, Pending, SettledAs, Reconciling
    <3>. QED
      BY <2>1, <2>2, <2>3, <3>3 DEF FilesInv, Together, DoorInv, AloneInv, MoveInv
  <2>4. CASE Throws /\ UNCHANGED journal
    <3>1. FilesInv'
      BY <2>1, <2>4, SameFiles DEF files
    <3>. QED
      BY <2>1, <2>4, <3>1, ThrowsKeeps DEF Reconciling, DoorInv
  <2>5. CASE /\ task' = [task EXCEPT !.state = SettledAs, !.step = 0, !.by = "handler"]
             /\ UNCHANGED <<mode, journal>>
    <3>0. SettledAs \in Recorded /\ task.phase = "reconciling"
      BY <2>1 DEF SettledAs, Recorded, Reconciling
    <3>1. /\ task' # Nil /\ task'.phase = "reconciling" /\ task'.req = task.req
          /\ task'.state = SettledAs /\ task'.from = task.from /\ task'.step = 0
      <4>1. task'.phase = task.phase /\ task'.state = SettledAs /\ task'.step = 0
            /\ GoesOnAs(task', task)
        BY <2>1, <2>5, <3>0, RecordsAgain, Zenon
      <4>. QED
        BY <3>0, <4>1 DEF GoesOnAs
    <3>2. SettledAs \in Forward <=> task.state \in Forward
      BY DEF SettledAs, Forward
    <3>3. UNCHANGED files
      BY <2>1, <2>5 DEF files
    <3>4. Reconciling'
      BY <1>2, <2>1, <3>1, <3>2, <3>3, SameFiles DEF Reconciling, Desired, files
    <3>. QED
      BY <2>1, <2>5, <3>1, <3>3, <3>4, SameFiles DEF DoorInv, Open, AloneInv, MoveInv
  <2>. QED
    BY <1>10, <2>3, <2>4, <2>5 DEF Settle
<1>11. CASE Crash
  BY <1>11, SameFiles DEF Crash, DoorInv, Open, AloneInv, MoveInv
<1>12. CASE Boot
  <2>1. UNCHANGED <<files, task, users>> /\ users = {} /\ mode' = "recovering"
    BY <1>12 DEF Boot, others, AloneInv
  <2>2. task = Nil
    BY <1>12 DEF Boot, MoveInv
  <2>. QED
    BY <2>1, <2>2, SameFiles DEF DoorInv, Open, AloneInv, MoveInv
<1>13. CASE Recover
  <2>1. UNCHANGED <<files, users>> /\ users = {}
    BY <1>13 DEF Recover, others, AloneInv
  <2>2. CASE PendingRequests = {} /\ mode' = "serving" /\ UNCHANGED task
    BY <1>13, <2>1, <2>2, SameFiles DEF Recover, DoorInv, AloneInv, MoveInv
  <2>3. ASSUME NEW q \in PendingRequests, UNCHANGED mode,
               task' = [req |-> q, from |-> journal[q].from, state |-> journal[q].state,
                        phase |-> "reconciling", step |-> 0, by |-> "handler"]
        PROVE  FilesInv' /\ DoorInv' /\ AloneInv' /\ MoveInv'
    <3>1. q \in Request /\ journal[q] \in Record /\ journal[q] # Nil
          /\ journal[q].state \in Pending
      BY NilAssumption DEF PendingRequests, TypeOK
    <3>2. /\ task' # Nil /\ task'.req = q /\ task'.from = journal[q].from
          /\ task'.state = journal[q].state /\ task'.phase = "reconciling" /\ task'.step = 0
      BY <2>3, <3>1, NilAssumption, NewTasks DEF AtItsStart, Record
    <3>3. PendingRequests \subseteq {q} /\ RecordOf(q)
      BY DEF FilesInv
    <3>4. Reconciling'
      BY <1>2, <2>1, <3>1, <3>2, <3>3, SameFiles
      DEF Reconciling, Desired, RecordOf, Pending, Forward, files
    <3>. QED
      BY <1>13, <2>1, <2>3, <3>2, <3>4, SameFiles DEF Recover, DoorInv, Open, AloneInv, MoveInv
  <2>. QED
    BY <1>13, <2>2, <2>3 DEF Recover
<1>14. CASE Meddle \/ UNCHANGED vars
  <2>1. UNCHANGED <<files, task, mode, users>>
    BY <1>14 DEF Meddle, vars, others
  <2>2. MoveInv'
    BY <2>1 DEF MoveInv, BeforeJournal, Moving, Reconciling, PendingRequests, Desired, files
  <2>. QED
    BY <2>1, <2>2, SameFiles DEF DoorInv, Open, AloneInv
<1>. QED
  BY <1>3, <1>4, <1>5, <1>6, <1>7, <1>8, <1>9, <1>10, <1>11, <1>12, <1>13, <1>14
  DEF Next, Steps
-----------------------------------------------------------------------------
LEMMA InvHolds == Spec => []Inv
<1>1. Init => Inv
  <2>. SUFFICES ASSUME Init PROVE Inv
    OBVIOUS
  <2>1. TypeOK
    BY MoveAssumption DEF Init, TypeOK
  <2>2. PendingRequests = {}
    BY DEF Init, PendingRequests
  <2>3. Together
    BY DEF Init, Together
  <2>. QED
    BY <2>1, <2>2, <2>3 DEF Init, Inv, FilesInv, DoorInv, AloneInv, MoveInv
<1>2. Inv /\ [Next]_vars => Inv'
  BY InvStep
<1>. QED
  BY <1>1, <1>2, PTL DEF Spec

(* Every variable stays in its set, whatever fails, meddles or crashes.     *)
THEOREM TypeCorrect == Spec => []TypeOK
<1>1. Inv => TypeOK
  BY DEF Inv
<1>. QED
  BY <1>1, InvHolds, PTL

(* Nothing is moved under a reader, nor under a run that outlives the       *)
(* request that submitted it: by the time a move touches a file it is alone *)
(* in the tree, and so are its error handler and the recovery.              *)
THEOREM LeasesAreHonoured == Spec => LeasesHonoured
<1>1. Inv /\ [Next]_vars => [users # {} => UNCHANGED <<at, row>>]_vars
  <2>. SUFFICES ASSUME Inv, [Next]_vars, users # {} PROVE UNCHANGED <<at, row>>
    OBVIOUS
  <2>1. task # Nil => task.phase = "preparing"
    BY DEF Inv, AloneInv
  <2>2. ~MoveStep /\ ~Commit /\ ~ReconcileStep /\ ~Settle
    BY <2>1 DEF MoveStep, Commit, ReconcileStep, Settle, TaskAt
  <2>3. CASE AcquiresRead \/ ReleasesRead \/ SubmitsRun \/ RunEnds
    BY <2>3 DEF AcquiresRead, ReleasesRead, SubmitsRun, RunEnds, UsedBy, files
  <2>4. CASE \E r \in Request : Move(r)
    BY <2>4 DEF Move, files
  <2>5. CASE Prepare \/ SaveJournal \/ Crash \/ Boot \/ Recover \/ Meddle
    BY <2>5 DEF Prepare, SaveJournal, Crash, Boot, Recover, Meddle, files
  <2>6. CASE UNCHANGED vars
    BY <2>6 DEF vars, files
  <2>. QED
    BY <2>2, <2>3, <2>4, <2>5, <2>6 DEF Next, Steps
<1>. QED
  BY <1>1, InvHolds, PTL DEF Spec, LeasesHonoured

-----------------------------------------------------------------------------
(* A step that leaves the recorded moves alone lets the door open or shut.  *)
LEMMA DoorSteps ==
  ASSUME Inv, Inv', UNCHANGED <<row, Taken>>
  PROVE  [Atomic!AtomicNext]_(<<PlaceRead, Taken, Open>>)
<1>1. PlaceRead = row /\ PlaceRead' = row'
  BY DEF Inv, FilesInv, DoorInv, PlaceRead, Together
<1>2. Open \in BOOLEAN /\ Open' \in BOOLEAN
  BY DEF Open
<1>. QED
  BY <1>1, <1>2, Zenon DEF Atomic!AtomicNext, Atomic!Admit, Atomic!Shut

(* The tree moves as AtomicMove says: whoever is let in finds the directory, *)
(* the tool states, the headers and the database in one place, and a        *)
(* request, however often it is sent and whatever fails, moves it once.     *)
THEOREM MovesAreAtomic == Spec => MovesAtomically
<1>1. Init => Atomic!AtomicInit
  BY DEF Init, Atomic!AtomicInit, PlaceRead, Taken, Open
<1>2. Inv /\ Inv' /\ [Next]_vars => [Atomic!AtomicNext]_(<<PlaceRead, Taken, Open>>)
  <2>. SUFFICES ASSUME Inv, Inv', [Next]_vars
                PROVE  [Atomic!AtomicNext]_(<<PlaceRead, Taken, Open>>)
    OBVIOUS
  <2>1. CASE UNCHANGED <<row, journal>>
    BY <2>1, DoorSteps DEF Taken
  <2>2. CASE SaveJournal /\ journal' # journal
    <3>1. UNCHANGED row /\ task \in Task /\ BeforeJournal
      BY <2>2 DEF SaveJournal, TaskAt, Inv, TypeOK, MoveInv, Moving, Reconciling
    <3>2. journal' = [journal EXCEPT ![task.req] = [from |-> task.from, state |-> "prepared"]]
      BY <2>2 DEF SaveJournal
    <3>3. task.req \in Request /\ (journal[task.req] # Nil => journal[task.req].state \notin Forward)
      BY <3>1, TaskUpdates DEF BeforeJournal, Forward
    <3>4. Taken' = Taken
      BY <3>2, <3>3 DEF Taken, Forward, Inv, TypeOK
    <3>. QED
      BY <3>1, <3>4, DoorSteps
  <2>3. CASE Commit /\ <<row, journal>>' # <<row, journal>>
    <3>1. task \in Task /\ Moving /\ ~Open
      BY <2>3 DEF Commit, TaskAt, Inv, TypeOK, MoveInv, BeforeJournal, Reconciling, Open
    <3>2. /\ row' = Target[task.req]
          /\ journal' = [journal EXCEPT ![task.req].state = "committed"]
          /\ task' = [task EXCEPT !.state = "committed", !.phase = "reconciling", !.step = 0]
      BY <2>3 DEF Commit
    <3>3. ~Open'
      <4>1. task' # Nil
        BY <3>1, <3>2, Records DEF GoesOnAs, Recorded
      <4>. QED
        BY <4>1 DEF Open
    <3>4. task.req \in Request /\ journal[task.req] \in Record
      BY <3>1, TaskUpdates DEF Moving, PendingRequests, Inv, TypeOK
    <3>5. /\ task.req \notin Taken /\ task.req \in Taken'
          /\ \A r \in Request \ {task.req} : journal'[r] = journal[r]
      BY <3>1, <3>2, <3>4, NilAssumption DEF Taken, Forward, Moving, Record, Recorded, Inv, TypeOK
    <3>6. Taken' = Taken \cup {task.req}
      BY <3>4, <3>5 DEF Taken
    <3>7. PlaceRead' = Target[task.req] /\ (Open' <=> Open)
      BY <3>1, <3>2, <3>3 DEF PlaceRead
    <3>8. Atomic!Take(task.req)
      BY <3>1, <3>5, <3>6, <3>7, <3>3 DEF Atomic!Take, Open
    <3>. QED
      BY <3>4, <3>8 DEF Atomic!AtomicNext
  <2>4. CASE Settle /\ journal' # journal
    <3>1. UNCHANGED row /\ task \in Task /\ Reconciling
      BY <2>4 DEF Settle, TaskAt, Inv, TypeOK, MoveInv, Moving, BeforeJournal
    <3>2. journal' = [journal EXCEPT ![task.req].state = SettledAs]
      BY <2>4 DEF Settle
    <3>3. task.req \in Request /\ journal[task.req] \in Record
      BY <3>1, TaskUpdates DEF Reconciling, Inv, TypeOK
    <3>4. \A r \in Request : journal'[r] # Nil /\ journal'[r].state \in Forward
                             <=> journal[r] # Nil /\ journal[r].state \in Forward
      <4>1. SettledAs \in Forward <=> journal[task.req].state \in Forward
        BY <3>1 DEF Reconciling, SettledAs, Forward
      <4>2. journal'[task.req].state = SettledAs /\ journal'[task.req] \in Record
        BY <3>2, <3>3 DEF SettledAs, Recorded, Record, Inv, TypeOK
      <4>. QED
        BY <3>2, <3>3, <4>1, <4>2, NilAssumption DEF Inv, TypeOK
    <3>5. Taken' = Taken
      BY <3>4 DEF Taken
    <3>. QED
      BY <3>1, <3>5, DoorSteps
  <2>5. \/ SaveJournal /\ journal' # journal
        \/ Commit /\ <<row, journal>>' # <<row, journal>>
        \/ Settle /\ journal' # journal
        \/ UNCHANGED <<row, journal>>
    <3>1. CASE MoveStep \/ ReconcileStep
      BY <3>1 DEF MoveStep, ReconcileStep
    <3>2. CASE AcquiresRead \/ ReleasesRead \/ SubmitsRun \/ RunEnds
      BY <3>2 DEF AcquiresRead, ReleasesRead, SubmitsRun, RunEnds, UsedBy, files
    <3>3. CASE (\E r \in Request : Move(r)) \/ Prepare \/ Crash \/ Boot \/ Recover \/ Meddle
      BY <3>3 DEF Move, Prepare, Crash, Boot, Recover, Meddle, files
    <3>4. CASE SaveJournal \/ Settle
      BY <3>4 DEF SaveJournal, Settle
    <3>5. CASE UNCHANGED vars
      BY <3>5 DEF vars, files
    <3>. QED
      BY <3>1, <3>2, <3>3, <3>4, <3>5 DEF Next, Steps
  <2>. QED
    BY <2>1, <2>2, <2>3, <2>4, <2>5
<1>. QED
  BY <1>1, <1>2, InvHolds, PTL DEF Spec, MovesAtomically, Atomic!AtomicSpec, Atomic!atomicVars
=============================================================================
