---------------------------- MODULE RuntimeUpdate ----------------------------
(***************************************************************************)
(* Activating a staged Runtime: RuntimeUpdater                              *)
(* (apps/desktop/src/runtime-updater.ts) as RuntimeManager                  *)
(* (apps/desktop/src/runtime-manager.ts) calls it.                          *)
(*                                                                         *)
(* The next start after a download installs the new Runtime, copies the     *)
(* metadata database, records the activation, and points current.json at    *)
(* it.  The new Runtime migrates the database.  Once it has been healthy    *)
(* for a while the activation is confirmed; a launch that fails, or the     *)
(* next start after a crash, restores the database and the pointer.  The    *)
(* steps are single operations on the disk: each may fail, and the App may  *)
(* die between any two, taking its Runtime along.  A write or a removal     *)
(* that fails is an error; a read of the pointer or of the record that      *)
(* fails is answered as if there were no such file, and the code goes on.   *)
(*                                                                         *)
(* A snapshot is always taken: only a running Runtime stages an update, and *)
(* it has made the database.  Version 0 is the Runtime packaged with the    *)
(* App, which needs no current.json.  Whoever needs the Runtime starts it   *)
(* again (start() asks neither the restart timer nor its budget).           *)
(***************************************************************************)
EXTENDS Naturals

CONSTANTS
  MaxVersion,      \* bound: versions published
  Bad,             \* versions that never become healthy
  Nil,
  MaxWork,         \* bound: changes made to the database
  MaxFaults,       \* bound: operations that fail
  MaxCrashes       \* bound: ends of the App or of the Runtime

Version == 0..MaxVersion

(* What a file of the database holds: the schema and the changes, and for a *)
(* log also the main file it belongs to.                                    *)
Content == [schema : Version, data : 0..MaxWork]
Log     == [schema : Version, data : 0..MaxWork, over : Content]
Files   == [main : Content \cup {Nil}, log : Log \cup {Nil}]
Empty   == [main |-> Nil, log |-> Nil]

Activation == [previous : Version, activated : Version]
Staged     == [version : Version, file : BOOLEAN, listed : BOOLEAN]
Command    == [version : Version, pending : BOOLEAN]
Confirmation == [step : {"forget", "clean"}, version : Version]

ASSUME UpdateAssumption ==
  /\ MaxVersion \in Nat /\ MaxWork \in Nat /\ MaxFaults \in Nat /\ MaxCrashes \in Nat
  /\ Bad \subseteq Version \ {0}
  /\ Nil \notin Version /\ Nil \notin Content /\ Nil \notin Log
  /\ Nil \notin Activation /\ Nil \notin Staged /\ Nil \notin Command

VARIABLES
  current,      \* current.json
  activation,   \* activation-pending.json, or Nil
  staging,      \* .staging, or Nil
  backup,       \* activation-database-backup
  database,     \* automation.sqlite and its write-ahead log
  pc,           \* the step of start() under way, or "running", or "idle"
  doing,        \* the record a start has read or is making, or Nil
  after,        \* where restoring continues
  launched,     \* the command of the child, or Nil; pending until its timer fires
  confirming,   \* calls of confirmActivation under way, by the step they are at
  download,     \* the version a call of stage is writing, or Nil
  (* what has happened *)
  good,         \* the version that was confirmed last
  trial,        \* the version that was announced last, or Nil
  tries,        \* how often it was launched before it was confirmed; bound: 2
  lapses,       \* files taken for missing, or removed beside a start
  faults, crashes

disk    == <<current, activation, staging, backup, database>>
memory  == <<pc, doing, after, launched, confirming, download>>
history == <<good, trial, tries>>
vars    == <<disk, memory, history, lapses, faults, crashes>>

Contents == IF database.log = Nil THEN database.main
            ELSE [schema |-> database.log.schema, data |-> database.log.data]
Sound == database.log # Nil => database.log.over = database.main

Restoring == {"restore", "restoreLog", "clean", "repoint", "forget"}
Promoting == {"install", "snapshot", "copy", "copyLog", "announce", "switch", "unstage"}

TypeOK ==
  /\ current \in Version /\ activation \in Activation \cup {Nil}
  /\ staging \in Staged \cup {Nil}
  /\ backup \in Files /\ database \in Files /\ database.main # Nil
  /\ pc \in Restoring \cup Promoting \cup
            {"idle", "recover", "promote", "giveUp", "decide", "launching", "running",
             "rollback", "fallback"}
  /\ doing \in Activation \cup {Nil} /\ after \in {"promote", "relaunch"}
  /\ launched \in Command \cup {Nil}
  /\ confirming \subseteq Confirmation /\ download \in Version \cup {Nil}
  /\ good \in Version /\ trial \in Version \cup {Nil} /\ tries \in 0..2
  /\ lapses \subseteq {"dropped", "retried", "packaged", "beside"}
  /\ faults \in 0..MaxFaults /\ crashes \in 0..MaxCrashes

Init ==
  /\ current = 0 /\ activation = Nil /\ staging = Nil /\ backup = Empty
  /\ database = [main |-> [schema |-> 0, data |-> 0], log |-> Nil]
  /\ pc = "idle" /\ doing = Nil /\ after = "promote" /\ launched = Nil
  /\ confirming = {} /\ download = Nil
  /\ good = 0 /\ trial = Nil /\ tries = 0
  /\ lapses = {} /\ faults = 0 /\ crashes = 0

Faulty == faults < MaxFaults /\ faults' = faults + 1

(* A read that fails although the file is there.                            *)
Misses(lapse) == Faulty /\ lapses' = lapses \cup {lapse}
Reads == UNCHANGED <<faults, lapses>>

(* A start that fails; the next one begins anew.                            *)
KeepsThePromise == "failed"                                          \* mutant
AfterFailure == "idle"
StartFails == pc' = AfterFailure /\ doing' = Nil /\ launched' = Nil

Launches(version, pending) ==
  /\ launched' = [version |-> version, pending |-> pending] /\ pc' = "launching"
  /\ tries' = IF version = trial /\ version # good /\ tries < 2 THEN tries + 1 ELSE tries

-----------------------------------------------------------------------------
(* recoverUnconfirmedActivation and rollbackActivation.                     *)

Start ==
  /\ pc = "idle" /\ pc' = "recover"
  /\ UNCHANGED <<disk, doing, after, launched, confirming, download, history, lapses,
                 faults, crashes>>

TriesAgain == IF activation # Nil /\ activation.activated = current    \* mutant
              THEN Nil ELSE activation
Unconfirmed == activation

(* A call of confirmActivation may still be removing the same files.        *)
Beside == IF confirming = {} THEN {} ELSE {"beside"}

(* A record that cannot be read is removed like one that is not there.      *)
Forgets == activation' = Nil /\ doing' = Nil /\ pc' = "promote"

Recover ==
  /\ pc = "recover" /\ after' = "promote"
  /\ \/ /\ Unconfirmed # Nil /\ doing' = Unconfirmed /\ pc' = "restore"
        /\ lapses' = lapses \cup Beside /\ UNCHANGED <<activation, faults>>
     \/ Unconfirmed = Nil /\ Forgets /\ lapses' = lapses \cup Beside /\ UNCHANGED faults
     \/ activation # Nil /\ Forgets /\ lapses' = lapses \cup Beside \cup {"dropped"} /\ Faulty
  /\ UNCHANGED <<current, staging, backup, database, launched, confirming, download,
                 history, crashes>>

(* An activation that a failed launch does not belong to, or that cannot be *)
(* read, is left alone: whatever is current is launched.                    *)
Recorded == activation # Nil /\ activation.activated = launched.version

Rollback ==
  /\ pc = "rollback" /\ after' = "relaunch"
  /\ \/ Recorded /\ doing' = activation /\ pc' = "restore" /\ Reads
     \/ ~Recorded /\ pc' = "fallback" /\ UNCHANGED doing /\ Reads
     \/ Recorded /\ pc' = "fallback" /\ UNCHANGED doing /\ Misses("retried")
  /\ UNCHANGED <<disk, launched, confirming, download, history, crashes>>

Fallback ==
  /\ pc = "fallback"
  /\ \/ Launches(current, FALSE) /\ Reads
     \/ current # 0 /\ Launches(0, FALSE) /\ Misses("packaged")
  /\ UNCHANGED <<disk, doing, after, confirming, download, good, trial, crashes>>

(* The files one after the other, then the removal of the copies, the       *)
(* pointer, and the record last.                                            *)
KeepsTheLog == database.log                                          \* mutant
RestoredLog == backup.log
KeepsThePointer == current                                           \* mutant
RestoredPointer == doing.previous

RestoreDatabase ==
  \/ /\ pc = "restore" /\ backup.main # Nil
     /\ database' = [database EXCEPT !.main = backup.main] /\ pc' = "restoreLog"
     /\ UNCHANGED backup
  \/ /\ pc = "restoreLog" /\ database' = [database EXCEPT !.log = RestoredLog]
     /\ pc' = "clean" /\ UNCHANGED backup
  \/ /\ pc = "clean" /\ \/ backup.main # Nil /\ backup' = [backup EXCEPT !.main = Nil]
                        \/ backup.log # Nil /\ backup' = [backup EXCEPT !.log = Nil]
     /\ UNCHANGED <<database, pc>>
  \/ /\ pc = "clean" /\ backup = Empty /\ pc' = "repoint" /\ UNCHANGED <<database, backup>>

RestoreStep ==
  /\ \/ RestoreDatabase /\ UNCHANGED <<current, activation, doing, launched, tries>>
     \/ /\ pc = "restore" /\ backup.main = Nil /\ StartFails
        /\ UNCHANGED <<current, activation, backup, database, tries>>
     \/ /\ pc = "repoint" /\ current' = RestoredPointer /\ pc' = "forget"
        /\ UNCHANGED <<activation, backup, database, doing, launched, tries>>
     \/ /\ pc = "forget" /\ activation' = Nil /\ doing' = Nil
        /\ \/ after = "promote" /\ pc' = "promote" /\ UNCHANGED <<launched, tries>>
           \/ after = "relaunch" /\ Launches(doing.previous, FALSE)
        /\ UNCHANGED <<current, backup, database>>
  /\ UNCHANGED <<staging, after, confirming, download, good, trial, lapses, faults,
                 crashes>>

RestoreFails ==
  /\ pc \in Restoring \cup {"recover"} /\ StartFails /\ Faulty
  /\ UNCHANGED <<disk, after, confirming, download, history, lapses, crashes>>

-----------------------------------------------------------------------------
(* promoteStaged: whatever fails, the staged files are given up.            *)

Stageable == staging # Nil /\ staging.file /\ staging.listed

Installs(previous) ==
  /\ pc = "install" /\ staging' = [staging EXCEPT !.file = FALSE] /\ pc' = "snapshot"
  /\ doing' = [previous |-> previous, activated |-> staging.version]

Install ==
  /\ \/ Installs(current) /\ Reads
     \/ current # 0 /\ Installs(0) /\ Misses("packaged")
  /\ UNCHANGED <<current, activation, backup, database, after, launched, confirming,
                 download, history, crashes>>

PromoteStep ==
  /\ \/ /\ pc = "promote" /\ pc' = (IF Stageable THEN "install" ELSE "giveUp")
        /\ UNCHANGED <<disk, doing, trial, tries>>
     \/ /\ pc = "snapshot" /\ backup' = Empty /\ pc' = "copy"
        /\ UNCHANGED <<current, activation, staging, database, doing, trial, tries>>
     \/ /\ pc = "copy" /\ backup' = [backup EXCEPT !.main = database.main] /\ pc' = "copyLog"
        /\ UNCHANGED <<current, activation, staging, database, doing, trial, tries>>
     \/ /\ pc = "copyLog" /\ backup' = [backup EXCEPT !.log = database.log] /\ pc' = "announce"
        /\ UNCHANGED <<current, activation, staging, database, doing, trial, tries>>
     \/ /\ pc = "announce" /\ activation' = doing /\ pc' = "switch"
        /\ trial' = doing.activated /\ tries' = 0
        /\ UNCHANGED <<current, staging, backup, database, doing>>
     \/ /\ pc = "switch" /\ current' = doing.activated /\ pc' = "unstage"
        /\ UNCHANGED <<activation, staging, backup, database, doing, trial, tries>>
     \/ /\ pc \in {"unstage", "giveUp"} /\ staging' = Nil /\ doing' = Nil /\ pc' = "decide"
        /\ UNCHANGED <<current, activation, backup, database, trial, tries>>
  /\ UNCHANGED <<after, launched, confirming, download, good, lapses, faults, crashes>>

(* The staged files are removed a second time; only that may fail a start.  *)
PromoteFails ==
  /\ Faulty
  /\ \/ pc \in Promoting \cup {"promote"} /\ pc' = "giveUp" /\ doing' = Nil
        /\ UNCHANGED launched
     \/ pc = "giveUp" /\ StartFails
  /\ UNCHANGED <<disk, after, confirming, download, history, lapses, crashes>>

(* prepareActivation reads the pointer and then the record.                 *)
Decide ==
  /\ pc = "decide"
  /\ \/ Launches(current, activation # Nil /\ activation.activated = current) /\ Reads
     \/ activation # Nil /\ Launches(current, FALSE) /\ Faulty /\ UNCHANGED lapses
     \/ current # 0 /\ Launches(0, FALSE) /\ Misses("packaged")
  /\ UNCHANGED <<disk, doing, after, confirming, download, good, trial, crashes>>

-----------------------------------------------------------------------------
(* The child: it migrates the database, which refuses an older Runtime,     *)
(* becomes healthy or not, works, and ends, folding the log in or not.      *)

Write(content) ==
  database' = [database EXCEPT !.log = [schema |-> content.schema, data |-> content.data,
                                        over |-> database.main]]

Migrate ==
  /\ pc = "launching" /\ Contents.schema < launched.version
  /\ Write([Contents EXCEPT !.schema = launched.version])
  /\ UNCHANGED <<current, activation, staging, backup, memory, history, lapses, faults,
                 crashes>>

Healthy ==
  /\ pc = "launching" /\ launched.version \notin Bad
  /\ Contents.schema = launched.version /\ pc' = "running"
  /\ UNCHANGED <<disk, doing, after, launched, confirming, download, history, lapses,
                 faults, crashes>>

FoldLog == \/ database' = [main |-> Contents, log |-> Nil]
           \/ UNCHANGED database

(* A launch that does not become healthy: an activation is rolled back.     *)
LaunchFails ==
  /\ pc = "launching"
  /\ \/ /\ launched.version \in Bad \/ Contents.schema > launched.version \/ ~Sound
        /\ UNCHANGED faults
     \/ Faulty
  /\ FoldLog
  /\ \/ launched.pending /\ pc' = "rollback" /\ UNCHANGED <<doing, launched>>
     \/ ~launched.pending /\ StartFails
  /\ UNCHANGED <<current, activation, staging, backup, after, confirming, download, history,
                 lapses, crashes>>

(* What a Runtime changes while a record names it is provisional.           *)
Work ==
  /\ pc = "running" /\ Contents.data < MaxWork
  /\ Write([Contents EXCEPT !.data = @ + 1])
  /\ UNCHANGED <<current, activation, staging, backup, memory, good, trial, tries, lapses,
                 faults, crashes>>

RuntimeEnds ==
  /\ pc = "running" /\ crashes < MaxCrashes /\ crashes' = crashes + 1
  /\ FoldLog /\ pc' = "idle" /\ launched' = Nil
  /\ UNCHANGED <<current, activation, staging, backup, doing, after, confirming, download,
                 history, lapses, faults>>

AppEnds ==
  /\ crashes < MaxCrashes /\ crashes' = crashes + 1
  /\ IF pc \in {"launching", "running"} THEN FoldLog ELSE UNCHANGED database
  /\ pc' = "idle" /\ doing' = Nil /\ launched' = Nil /\ confirming' = {} /\ download' = Nil
  /\ UNCHANGED <<current, activation, staging, backup, after, history, lapses, faults>>

-----------------------------------------------------------------------------
(* confirmActivation, from a timer its Runtime's end would clear.           *)

Confirm ==
  /\ pc = "running" /\ launched.pending
  /\ launched' = [launched EXCEPT !.pending = FALSE]
  /\ \/ /\ Recorded /\ UNCHANGED faults
        /\ confirming' = confirming \cup {[step |-> "forget", version |-> launched.version]}
     \/ ~Recorded /\ UNCHANGED <<confirming, faults>>
     \/ Recorded /\ UNCHANGED confirming /\ Faulty
  /\ UNCHANGED <<disk, pc, doing, after, download, history, lapses, crashes>>

(* The two removals, whatever has become of the Runtime in between.         *)
ConfirmStep(c) ==
  /\ c \in confirming
  /\ \/ /\ c.step = "forget" /\ activation' = Nil
        /\ confirming' = (confirming \ {c}) \cup {[c EXCEPT !.step = "clean"]}
        /\ good' = c.version /\ UNCHANGED backup
     \/ /\ c.step = "clean" /\ backup' = Empty /\ confirming' = confirming \ {c}
        /\ UNCHANGED <<activation, good>>
  /\ UNCHANGED <<current, staging, database, pc, doing, after, launched, download, trial,
                 tries, lapses, faults, crashes>>

ConfirmFails(c) ==
  /\ c \in confirming /\ confirming' = confirming \ {c} /\ Faulty
  /\ UNCHANGED <<disk, pc, doing, after, launched, download, history, lapses, crashes>>

-----------------------------------------------------------------------------
(* stage, for a version newer than the one that runs.                       *)

Download(v) ==
  /\ pc = "running" /\ download = Nil /\ v > launched.version
  /\ download' = v /\ staging' = [version |-> v, file |-> TRUE, listed |-> FALSE]
  /\ UNCHANGED <<current, activation, backup, database, pc, doing, after, launched,
                 confirming, history, lapses, faults, crashes>>

Publish ==
  /\ download # Nil /\ download' = Nil
  /\ staging' = IF staging = [version |-> download, file |-> TRUE, listed |-> FALSE]
                THEN [staging EXCEPT !.listed = TRUE] ELSE Nil
  /\ UNCHANGED <<current, activation, backup, database, pc, doing, after, launched,
                 confirming, history, lapses, faults, crashes>>

StartStep == \/ Start \/ Recover \/ Rollback \/ Fallback \/ RestoreStep \/ Install
             \/ PromoteStep \/ Decide \/ Migrate \/ Healthy \/ LaunchFails

Next ==
  \/ StartStep \/ RestoreFails \/ PromoteFails \/ Work \/ RuntimeEnds \/ AppEnds
  \/ Confirm \/ Publish
  \/ \E c \in Confirmation : ConfirmStep(c) \/ ConfirmFails(c)
  \/ \E v \in Version : Download(v)

Spec == Init /\ [][Next]_vars

(* The host event client of a running App calls start() until it succeeds,  *)
(* and a start goes on.                                                     *)
LiveSpec == Spec /\ WF_vars(StartStep)

-----------------------------------------------------------------------------
(* The record of an activation that is not over was removed: a start could  *)
(* not read it, or a confirmation went on beside a start.                   *)
RecordLost == lapses \cap {"dropped", "beside"} # {}

(* The packaged Runtime was launched, or recorded as the previous one,      *)
(* although there is a pointer to another.                                  *)
PointerLost == "packaged" \in lapses

(* A Runtime is launched only on a database it can open: one no newer       *)
(* Runtime has migrated, and whose log belongs to its main file, after any  *)
(* crash in the copies, the restoring and the switch ("failure or an App    *)
(* crash before confirmation restores both the previous Runtime pointer and *)
(* that database snapshot", docs/agent-runtime-contracts.md:172-173).  The  *)
(* log is excepted once a record was lost, the schema once the pointer was. *)
RunsOnItsOwnData ==
  pc \in {"launching", "running"} =>
    /\ Sound \/ RecordLost
    /\ Contents.schema <= launched.version \/ PointerLost

(* What runs is the version that was confirmed last, or a provisional one   *)
(* whose record on disk takes the next start back to the confirmed one      *)
(* (runtime-updater.ts:228), unless that record or the pointer was lost.    *)
KnownGoodOrProvisional ==
  pc \in {"launching", "running"} =>
    \/ launched.version = good
    \/ activation = [previous |-> good, activated |-> launched.version]
    \/ RecordLost \/ PointerLost

(* An unconfirmed Runtime is not launched twice: "This keeps crash loops on *)
(* the last known-good Runtime instead of repeatedly retrying an            *)
(* unconfirmed binary" (runtime-updater.ts:289-291).  The code breaks it:   *)
(* a record that cannot be read is taken for a missing one (:223-225).      *)
NotTriedAgain == tries <= 1

(* The same unless its record could not be read, at a start or at the       *)
(* rollback of its launch, or was lost.                                     *)
TriedOnce == NotTriedAgain \/ RecordLost \/ "retried" \in lapses

(* An activation on record whose database copy is gone fails every start.   *)
Stuck == pc \in {"idle", "recover", "restore"} /\ activation # Nil /\ backup.main = Nil

(* The pointer leads to a version that cannot run on the database, and no   *)
(* record leads back.                                                       *)
Stranded ==
  /\ RecordLost \/ PointerLost
  /\ activation = Nil /\ (current \in Bad \/ Contents.schema > current \/ ~Sound)

(* A Runtime that can run comes back after any fault and crash, or the      *)
(* starts are stuck (runtime-updater.ts:158, runtime-manager.ts:429), or a  *)
(* lost record or pointer has left them a version that cannot run.          *)
RuntimeComesBack == <>[](pc = "running") \/ <>[]Stuck \/ <>[]Stranded

(* The copy a recorded activation needs for its rollback is there whenever  *)
(* no start is under way, also after a crash: "failure or an App crash      *)
(* before confirmation restores both the previous Runtime pointer and that  *)
(* database snapshot" (docs/agent-runtime-contracts.md:172-173).  The code  *)
(* breaks it: the copy goes before the record (runtime-updater.ts:177,      *)
(* 234-237).                                                                *)
RollbackStaysPossible == pc = "idle" /\ activation # Nil => backup.main # Nil
=============================================================================
