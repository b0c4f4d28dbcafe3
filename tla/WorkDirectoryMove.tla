-------------------------- MODULE WorkDirectoryMove --------------------------
(***************************************************************************)
(* Moving a Work folder or conversation: WorkDirectoryMoveCoordinator       *)
(* (apps/runtime/src/work-directory-move.ts) over commitMove of the         *)
(* conversation store.                                                      *)
(*                                                                         *)
(* A move renames the work directory and the tool state directories derived *)
(* from it, rewrites the header of every session in it, and then commits    *)
(* the new paths and the journal in one transaction.  Until then the old    *)
(* place is authoritative and a failure or the next start goes back to it;  *)
(* afterwards both go forward.  Any step may fail, also after its effect    *)
(* (a rename whose directory cannot be synced), the process may die between *)
(* any two, and others may use the same files meanwhile.  Reading the       *)
(* database is assumed to succeed.                                          *)
(***************************************************************************)
EXTENDS Naturals, Sequences, SequencesExt

CONSTANTS
  Request,         \* ids of move requests, which may be sent again
  Place,           \* where the tree can be
  Origin,
  Target,          \* the destination each request names
  Directories,     \* journal.directories: the work directory, tool states
  Headers,         \* journal.headers
  Nil,
  MaxFaults,       \* bound: steps that fail
  MaxMeddling,     \* bound: changes made by others
  MaxCrashes       \* bound: crashes

Directory == Range(Directories)
Header    == Range(Headers)
Item      == Directory \cup Header

ASSUME MoveAssumption ==
  /\ Origin \in Place /\ Target \in [Request -> Place]
  /\ Directories \in Seq(Directory) /\ Headers \in Seq(Header)
  /\ Directory \cap Header = {}
  /\ MaxFaults \in Nat /\ MaxMeddling \in Nat /\ MaxCrashes \in Nat

Recorded == {"prepared", "committed", "done", "rolled_back"}
Pending  == {"prepared", "committed"}
Forward  == {"committed", "done"}

(* The order in which the steps of a move are made, and those of reconcile. *)
MoveOrder == Directories \o Headers
RewritesTwice(state) == Headers \o Directories \o Headers            \* mutant
Length == Len(Directories) + Len(Headers)
ReconcileOrder(state) ==
  Headers \o (IF state \in Forward THEN Directories ELSE Reverse(Directories))

Record == [from : Place, state : Recorded]
Task == [req : Request, from : Place, state : Recorded,
         phase : {"preparing", "saving", "moving", "reconciling"},
         step : Nat,           \* steps of the phase already made
         by : {"move", "handler"}]   \* who reconciles; recover is like the handler

ASSUME NilAssumption == Nil \notin Record /\ Nil \notin Task

VARIABLES
  at,        \* the place of each directory, and the cwd each header names
  row,       \* the paths in the database
  journal,   \* the record of each request in the database, or Nil
  task,      \* the move or recovery in progress, or Nil
  mode,      \* of the process; "blocked" is #blocked after startup
  users,     \* of the tree: a request (#readers), a run in progress
  occupied,  \* <<d, p>>: another entry has the name of d at p
  edited,    \* session files changed since their header was journalled
  faults, meddled, crashes

files  == <<at, row, journal>>
others == <<users, occupied, edited, meddled>>
vars   == <<files, task, mode, others, faults, crashes>>

TypeOK ==
  /\ at \in [Item -> Place] /\ row \in Place
  /\ journal \in [Request -> Record \cup {Nil}]
  /\ task \in Task \cup {Nil}
  /\ task # Nil => task.step \in 0..Length
  /\ mode \in {"down", "recovering", "serving", "blocked"}
  /\ users \subseteq {"reader", "run"}
  /\ occupied \subseteq Directory \X Place /\ edited \subseteq Header
  /\ faults \in 0..MaxFaults /\ meddled \in 0..MaxMeddling
  /\ crashes \in 0..MaxCrashes

Init ==
  /\ at = [i \in Item |-> Origin] /\ row = Origin
  /\ journal = [r \in Request |-> Nil] /\ task = Nil
  /\ mode = "recovering" /\ users = {}
  /\ occupied = {} /\ edited = {} /\ faults = 0 /\ meddled = 0 /\ crashes = 0

Faulty == faults < MaxFaults /\ faults' = faults + 1
Open   == mode = "serving" /\ task = Nil                    \* ~busy

-----------------------------------------------------------------------------
(* The lease: requests read under it, and submit runs that outlive it.      *)

UsedBy(now) == users' = now /\ UNCHANGED <<files, task, mode, occupied, edited, meddled,
                                            faults, crashes>>
AcquiresRead == Open /\ "reader" \notin users /\ UsedBy(users \cup {"reader"})
ReleasesRead == "reader" \in users /\ UsedBy(users \ {"reader"})
SubmitsRun   == "reader" \in users /\ "run" \notin users /\ UsedBy(users \cup {"run"})
RunEnds      == "run" \in users /\ UsedBy(users \ {"run"})

-----------------------------------------------------------------------------
(* move: a request that was carried out is answered from its record.        *)

MovesAgain(r) == Open /\ "reader" \notin users                                 \* mutant
StartsUnderLease(r) ==                                               \* mutant
  Open /\ (journal[r] # Nil => journal[r].state = "rolled_back")
CanStart(r) == /\ Open /\ "reader" \notin users
               /\ journal[r] # Nil => journal[r].state = "rolled_back"

Move(r) ==
  /\ CanStart(r)
  /\ task' = [req |-> r, from |-> row, state |-> "prepared", phase |-> "preparing",
              step |-> 0, by |-> "move"]
  /\ UNCHANGED <<files, mode, others, faults, crashes>>

(* prepare changes nothing: it refuses, or the move goes on.                *)
Acceptable(t) ==
  /\ Target[t.req] # row /\ "run" \notin users
  /\ \A i \in Item : at[i] = row
  /\ \A d \in Directory : <<d, Target[t.req]>> \notin occupied

TaskAt(phase) == task # Nil /\ task.phase = phase
Proceeds(phase) == task' = [task EXCEPT !.phase = phase, !.step = 0]

Prepare ==
  /\ TaskAt("preparing")
  /\ \/ Acceptable(task) /\ Proceeds("saving") /\ edited' = {} /\ UNCHANGED faults
     \/ ~Acceptable(task) /\ task' = Nil /\ UNCHANGED <<edited, faults>>
     \/ Faulty /\ task' = Nil /\ UNCHANGED edited
  /\ UNCHANGED <<files, mode, users, occupied, meddled, crashes>>

(* What an error does: reconcile, and block if that fails too.              *)
Throws ==
  IF task.by = "move" /\ task.phase # "preparing" /\ journal[task.req] # Nil
  THEN /\ task' = [task EXCEPT !.phase = "reconciling", !.step = 0, !.by = "handler"]
       /\ UNCHANGED mode
  ELSE /\ task' = Nil
       /\ mode' = IF mode = "recovering" THEN "down"
                  ELSE IF task.by = "handler" THEN "blocked" ELSE mode

SaveJournal ==
  /\ TaskAt("saving")
  /\ \/ /\ journal' = [journal EXCEPT ![task.req] =
                         [from |-> task.from, state |-> "prepared"]]
        /\ Proceeds("moving") /\ UNCHANGED <<mode, faults>>
     \/ Faulty /\ Throws /\ UNCHANGED journal
  /\ UNCHANGED <<at, row, others, crashes>>

OtherEnd(p) == IF p = Target[task.req] THEN task.from ELSE Target[task.req]

(* relocate and rewriteHeader, to place p: a step already made is skipped,  *)
(* one that finds another entry in its way or a changed session throws.     *)
BlocksWhenDone(i, p) ==                                              \* mutant
  \/ i \in Directory /\ at[i] = p
  \/ i \in Header /\ i \in edited
Blocks(i, p) ==
  \/ i \in Directory /\ <<i, IF at[i] = p THEN OtherEnd(p) ELSE p>> \in occupied
  \/ i \in Header /\ i \in edited

MakesStep(i, p) ==
  \/ /\ ~Blocks(i, p) /\ at' = [at EXCEPT ![i] = p]
     /\ task' = [task EXCEPT !.step = @ + 1] /\ UNCHANGED <<mode, faults>>
  \/ Blocks(i, p) /\ Throws /\ UNCHANGED <<at, faults>>
  \/ /\ Faulty /\ Throws
     /\ \/ UNCHANGED at
        \/ ~Blocks(i, p) /\ at' = [at EXCEPT ![i] = p]

MoveStep ==
  /\ TaskAt("moving") /\ task.step < Len(MoveOrder)
  /\ MakesStep(MoveOrder[task.step + 1], Target[task.req])
  /\ UNCHANGED <<row, journal, others, crashes>>

(* verify and commitMove: paths and journal in one transaction.             *)
Commit ==
  /\ TaskAt("moving") /\ task.step = Len(MoveOrder)
  /\ \/ /\ "run" \notin users
        /\ row' = Target[task.req]
        /\ journal' = [journal EXCEPT ![task.req].state = "committed"]
        /\ task' = [task EXCEPT !.state = "committed", !.phase = "reconciling", !.step = 0]
        /\ UNCHANGED <<mode, faults>>
     \/ /\ ("run" \in users /\ UNCHANGED faults) \/ Faulty
        /\ Throws /\ UNCHANGED <<row, journal>>
  /\ UNCHANGED <<at, others, crashes>>

-----------------------------------------------------------------------------
(* reconcile, of a move, of its error handler and of recover.               *)

Desired == IF task.state \in Forward THEN Target[task.req] ELSE task.from

ReconcileStep ==
  /\ TaskAt("reconciling") /\ task.step < Len(ReconcileOrder(task.state))
  /\ MakesStep(ReconcileOrder(task.state)[task.step + 1], Desired)
  /\ UNCHANGED <<row, journal, others, crashes>>

SettledAs == IF task.state \in Forward THEN "done" ELSE "rolled_back"

Settle ==
  /\ TaskAt("reconciling") /\ task.step = Len(ReconcileOrder(task.state))
  /\ \/ /\ journal' = [journal EXCEPT ![task.req].state = SettledAs]
        /\ task' = Nil /\ UNCHANGED <<mode, faults>>
     \/ /\ Faulty /\ UNCHANGED journal      \* journal.state is set before save
        /\ IF task.by = "move"
           THEN task' = [task EXCEPT !.state = SettledAs, !.step = 0, !.by = "handler"]
                /\ UNCHANGED mode
           ELSE Throws
  /\ UNCHANGED <<at, row, others, crashes>>

-----------------------------------------------------------------------------
(* A crash, and recover of the next process before it serves anyone.        *)

Crash ==
  /\ mode # "down" /\ crashes < MaxCrashes /\ crashes' = crashes + 1
  /\ mode' = "down" /\ task' = Nil /\ users' = {}
  /\ UNCHANGED <<files, occupied, edited, meddled, faults>>

Boot == /\ mode = "down" /\ mode' = "recovering"
        /\ UNCHANGED <<files, task, others, faults, crashes>>

OnlyPrepared == {r \in Request : journal[r] # Nil /\ journal[r].state = "prepared"}  \* mutant
PendingRequests == {r \in Request : journal[r] # Nil /\ journal[r].state \in Pending}

Recover ==
  /\ mode = "recovering" /\ task = Nil
  /\ \/ \E r \in PendingRequests :
          /\ task' = [req |-> r, from |-> journal[r].from, state |-> journal[r].state,
                      phase |-> "reconciling", step |-> 0, by |-> "handler"]
          /\ UNCHANGED mode
     \/ PendingRequests = {} /\ mode' = "serving" /\ UNCHANGED task
  /\ UNCHANGED <<files, others, faults, crashes>>

-----------------------------------------------------------------------------
(* Others create or remove an entry where a directory could go, or write to *)
(* a session file.                                                          *)
Meddle ==
  /\ meddled < MaxMeddling /\ meddled' = meddled + 1
  /\ \/ /\ \E d \in Directory, p \in Place :
             /\ at[d] # p
             /\ occupied' = IF <<d, p>> \in occupied THEN occupied \ {<<d, p>>}
                                                     ELSE occupied \cup {<<d, p>>}
        /\ UNCHANGED edited
     \/ /\ \E h \in Header \ edited : edited' = edited \cup {h}
        /\ UNCHANGED occupied
  /\ UNCHANGED <<files, task, mode, users, faults, crashes>>

-----------------------------------------------------------------------------
Steps == Prepare \/ SaveJournal \/ MoveStep \/ Commit \/ ReconcileStep \/ Settle

Next ==
  \/ AcquiresRead \/ ReleasesRead \/ SubmitsRun \/ RunEnds
  \/ \E r \in Request : Move(r)
  \/ Steps \/ Crash \/ Boot \/ Recover \/ Meddle

Spec == Init /\ [][Next]_vars

(* The awaited steps of a move go on, and a dead process is started again.  *)
Fairness == WF_vars(Steps) /\ WF_vars(Boot \/ Recover)
LiveSpec == Spec /\ Fairness

-----------------------------------------------------------------------------
(* The tree moves as AtomicMove says: whenever readers are admitted the work *)
(* directory, the tool states, the session headers and the database name    *)
(* one place, and a request that is sent again, also after a failure or a   *)
(* crash, moves the tree at most once.                                      *)
PlaceRead == IF Open /\ \E i \in Item : at[i] # row THEN Nil ELSE row
Taken == {r \in Request : journal[r] # Nil /\ journal[r].state \in Forward}
Atomic == INSTANCE AtomicMove WITH place <- PlaceRead, taken <- Taken, open <- Open
MovesAtomically == Atomic!AtomicSpec

(* Nothing is moved under a reader, nor under a run that outlives the       *)
(* request that submitted it.                                               *)
LeasesHonoured == [][users # {} => UNCHANGED <<at, row>>]_vars

(* A journalled move is settled without help, by itself or by the next      *)
(* start, however often the process dies: only a failing step or another    *)
(* user of the files can leave it pending.                                  *)
Unsettled == \E r \in Request : journal[r] # Nil /\ journal[r].state \notin {"done", "rolled_back"}
SettlesUnaided == Unsettled ~> (~Unsettled \/ faults > 0 \/ meddled > 0)
=============================================================================
