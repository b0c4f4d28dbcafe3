------------------------ MODULE RuntimeUpdate_proofs ------------------------
(***************************************************************************)
(* Theorems about RuntimeUpdate, for any versions published, however many   *)
(* of them are bad, and any number of changes, faults and crashes.          *)
(***************************************************************************)
EXTENDS RuntimeUpdate, TLAPS

Launched == {"launching", "running", "rollback", "fallback"}

(* What a start, a confirmation or a download under way knows, whatever was *)
(* lost: a restoring start its record, a promotion the complete new file.   *)
MemoryInv ==
  /\ pc \in Restoring => doing # Nil /\ activation \in {doing, Nil}
  /\ pc \in Promoting \ {"install"} => doing # Nil
  /\ pc \in Promoting => download = Nil /\ staging # Nil
  /\ pc \in Promoting \ {"install"} => ~staging.file
  /\ pc = "install" => Stageable
  /\ staging # Nil /\ download # Nil => ~staging.listed
  /\ pc \in Launched => launched # Nil
  /\ pc \in {"promote", "install", "snapshot", "copy", "copyLog", "announce"} =>
       activation = Nil
  /\ pc = "switch" => activation \in {doing, Nil}
  /\ pc = "forget" => current = doing.previous

(* Nothing in the database, or in its copy, was migrated beyond a version.  *)
DatabaseUpTo(v) ==
  /\ database.main.schema <= v
  /\ database.log # Nil => database.log.schema <= v

CopyUpTo(v) ==
  /\ backup.main # Nil => backup.main.schema <= v
  /\ backup.log # Nil => backup.log.schema <= v

(* A record leads from an older version to the current one, or is about to. *)
Leads(record) ==
  /\ record.previous < record.activated
  /\ current \in {record.previous, record.activated}

(* As long as the pointer is not lost it names what was launched, and       *)
(* nothing is newer than it: the database, while restoring also the         *)
(* version restored, and its copy.  What is staged is newer.                *)
Ordered ==
  /\ DatabaseUpTo(current)
  /\ staging # Nil /\ staging.file => current < staging.version
  /\ pc \in Launched => launched.version = current
  /\ activation # Nil => Leads(activation) /\ CopyUpTo(activation.previous)
  /\ pc \in Restoring => Leads(doing) /\ CopyUpTo(doing.previous)
  /\ pc \in {"snapshot", "copy", "copyLog", "announce", "switch"} =>
       doing.previous = current /\ current < doing.activated
  /\ pc \in {"copy", "copyLog", "announce"} => CopyUpTo(current)
  /\ pc = "restoreLog" => database.main.schema <= doing.previous
  /\ pc \in {"clean", "repoint", "forget"} => DatabaseUpTo(doing.previous)

SchemaInv == PointerLost \/ Ordered

CopySound == backup.main # Nil /\ backup.log # Nil => backup.log.over = backup.main

(* As long as no record is lost the database is sound except while one asks *)
(* for it to be restored, the copy for that is sound, and a confirmation is *)
(* not under way beside a start.                                            *)
Intact ==
  /\ confirming # {} => /\ pc \in {"running", "idle", "recover"} /\ Sound
                        /\ launched # Nil => ~launched.pending
  /\ activation = Nil => Sound
  /\ activation # Nil => CopySound
  /\ pc \in Restoring \cup {"switch"} => activation = doing
  /\ pc \in Launched \cup {"switch", "unstage", "giveUp", "decide", "clean", "repoint", "forget"}
       => Sound
  /\ pc \in {"copyLog", "announce"} => backup.main = database.main
  /\ pc = "announce" => backup.log = database.log
  /\ pc = "restoreLog" => backup.main # Nil /\ database.main = backup.main

SoundInv == RecordLost \/ Intact

(* As long as neither is lost: without a record the pointer is at the       *)
(* confirmed version, and a record leads back to it.                        *)
LeadsBack ==
  /\ activation = Nil => current = good
  /\ activation # Nil => activation.previous = good
  /\ \A c \in confirming : c.version = current

KnownInv == RecordLost \/ PointerLost \/ LeadsBack

(* As long as every record is read: what was announced is on record until   *)
(* it is confirmed or no longer current, and launched once at most.         *)
Counted ==
  /\ tries <= 1 /\ trial # 0 /\ (staging # Nil => staging.version > 0)
  /\ activation = Nil => current \in {good, 0}
  /\ activation # Nil => /\ activation.previous \in {good, 0}
                         /\ current \in {good, 0, activation.activated}
                         /\ trial = activation.activated
  /\ activation # Nil /\ pc \in {"switch", "unstage", "giveUp", "decide"} => tries = 0
  /\ pc \in Promoting \ {"install"} => doing.activated > 0
  /\ pc \in {"snapshot", "copy", "copyLog", "announce"} => doing.previous \in {current, 0}
  /\ pc \in Launched /\ launched.pending => Recorded /\ launched.version = current
  /\ pc = "rollback" => launched.pending
  /\ pc # "fallback"
  /\ \A c \in confirming : c.version = current

TriesInv == RecordLost \/ "retried" \in lapses \/ Counted

Inv == TypeOK /\ MemoryInv /\ SchemaInv /\ SoundInv /\ KnownInv /\ TriesInv

-----------------------------------------------------------------------------
(* The files of the database.                                               *)

LEMMA LaunchesIs ==
  ASSUME NEW v \in Version, NEW p \in BOOLEAN, Launches(v, p)
  PROVE  /\ launched' \in Command /\ launched' # Nil
         /\ launched'.version = v /\ launched'.pending = p
         /\ pc' = "launching"
         /\ \/ tries' = tries
            \/ v = trial /\ v # good /\ tries < 2 /\ tries' = tries + 1
BY UpdateAssumption DEF Launches, Command

(* A launch is of a version, and counted at most twice.                     *)
LEMMA LaunchesType ==
  ASSUME tries \in 0..2, NEW v \in Version, NEW p \in BOOLEAN, Launches(v, p)
  PROVE  launched' \in Command /\ pc' = "launching" /\ tries' \in 0..2
<1>1. launched' \in Command /\ pc' = "launching"
  BY LaunchesIs
<1>2. tries' = tries \/ (tries < 2 /\ tries' = tries + 1)
  BY LaunchesIs
<1>. QED
  BY <1>1, <1>2

LEMMA ContentsType ==
  ASSUME TypeOK
  PROVE  /\ Contents \in Content
         /\ database.log # Nil => Contents.schema = database.log.schema
         /\ database.log = Nil => Contents.schema = database.main.schema
BY UpdateAssumption DEF TypeOK, Contents, Version, Content, Log, Files

(* Closing the database leaves it as usable as it was.                      *)
LEMMA FoldLogKeeps ==
  ASSUME TypeOK, FoldLog
  PROVE  /\ database' \in Files /\ database'.main # Nil
         /\ Sound => Sound'
         /\ \A v \in Version : DatabaseUpTo(v) => DatabaseUpTo(v)'
<1>1. CASE database' = [main |-> Contents, log |-> Nil]
  <2>1. database' \in Files /\ database'.main = Contents /\ database'.log = Nil
    BY <1>1, ContentsType DEF Files
  <2>. QED
    BY <2>1, ContentsType, UpdateAssumption DEF DatabaseUpTo, Sound
<1>2. CASE UNCHANGED database
  BY <1>2 DEF TypeOK, DatabaseUpTo, Sound
<1>. QED
  BY <1>1, <1>2 DEF FoldLog

(* A transaction leaves the main file and writes the log over it.           *)
LEMMA WriteKeeps ==
  ASSUME TypeOK, NEW c \in Content, Write(c)
  PROVE  /\ database' \in Files /\ database'.main = database.main
         /\ database'.log # Nil /\ database'.log.schema = c.schema
         /\ Sound'
<1> DEFINE log == [schema |-> c.schema, data |-> c.data, over |-> database.main]
<1>1. log \in Log /\ log.schema = c.schema /\ log.over = database.main
  BY DEF TypeOK, Files, Content, Log
<1>2. database' = [database EXCEPT !.log = log]
  BY DEF Write
<1>3. database' \in Files /\ database'.main = database.main /\ database'.log = log
  BY <1>1, <1>2 DEF TypeOK, Files
<1>. QED
  BY <1>1, <1>3, UpdateAssumption DEF Sound

(* What a running Runtime writes.                                           *)
LEMMA ChildWrites ==
  ASSUME TypeOK, MemoryInv, Migrate \/ Work
  PROVE  /\ database' \in Files /\ database'.main = database.main
         /\ database'.log # Nil /\ Sound'
         /\ database'.log.schema = IF Migrate THEN launched.version ELSE Contents.schema
<1>1. Contents \in Content
  BY ContentsType
<1>2. CASE Migrate
  <2>1. launched.version \in Version
    BY <1>2 DEF Migrate, MemoryInv, Launched, TypeOK, Command
  <2>2. [Contents EXCEPT !.schema = launched.version] \in Content
    BY <1>1, <2>1 DEF Content
  <2>3. [Contents EXCEPT !.schema = launched.version].schema = launched.version
    BY <1>1 DEF Content
  <2>. QED
    BY <1>2, <2>2, <2>3, WriteKeeps DEF Migrate
<1>3. CASE Work /\ ~Migrate
  <2>1. [Contents EXCEPT !.data = @ + 1] \in Content
    BY <1>1, <1>3, UpdateAssumption DEF Content, Work
  <2>2. [Contents EXCEPT !.data = @ + 1].schema = Contents.schema
    BY <1>1 DEF Content
  <2>. QED
    BY <1>3, <2>1, <2>2, WriteKeeps DEF Work
<1>. QED
  BY <1>2, <1>3

-----------------------------------------------------------------------------
(* The types.                                                               *)

LEMMA TypeStep ==
  ASSUME TypeOK, MemoryInv, [Next]_vars
  PROVE  TypeOK'
<1> USE UpdateAssumption DEF TypeOK, disk, memory, history
<1>1. CASE Start
  BY <1>1 DEF Start
<1>2. CASE Recover
  <2>1. lapses' \subseteq {"dropped", "retried", "packaged", "beside"}
    BY <1>2 DEF Recover, Beside
  <2>2. faults' \in 0..MaxFaults
    BY <1>2 DEF Recover, Faulty
  <2>3. /\ activation' \in Activation \cup {Nil} /\ doing' \in Activation \cup {Nil}
        /\ pc' \in {"restore", "promote"} /\ after' = "promote"
    BY <1>2 DEF Recover, Unconfirmed, Forgets
  <2>. QED
    BY <1>2, <2>1, <2>2, <2>3 DEF Recover, Restoring
<1>3. CASE Rollback
  <2>1. lapses' \subseteq {"dropped", "retried", "packaged", "beside"}
    BY <1>3 DEF Rollback, Reads, Misses
  <2>2. faults' \in 0..MaxFaults
    BY <1>3 DEF Rollback, Reads, Misses, Faulty
  <2>3. doing' \in Activation \cup {Nil} /\ pc' \in {"restore", "fallback"}
    BY <1>3 DEF Rollback
  <2>. QED
    BY <1>3, <2>1, <2>2, <2>3 DEF Rollback, Restoring
<1>4. CASE Fallback
  <2>1. 0 \in Version /\ FALSE \in BOOLEAN
    BY DEF Version
  <2>2. launched' \in Command /\ pc' = "launching" /\ tries' \in 0..2
    <3>1. \/ Launches(current, FALSE)
          \/ Launches(0, FALSE)
      BY <1>4 DEF Fallback
    <3>. QED
      BY <2>1, <3>1, LaunchesType
  <2>3. lapses' \subseteq {"dropped", "retried", "packaged", "beside"}
    BY <1>4 DEF Fallback, Reads, Misses
  <2>4. faults' \in 0..MaxFaults
    <3>1. faults' = faults \/ Faulty
      BY <1>4 DEF Fallback, Reads, Misses
    <3>. QED
      BY <3>1 DEF Faulty
  <2>. QED
    BY <1>4, <2>2, <2>3, <2>4 DEF Fallback
<1>5. CASE RestoreStep
  <2>1. CASE RestoreDatabase
    <3>1. backup' \in Files /\ database' \in Files /\ database'.main # Nil
      BY <2>1 DEF RestoreDatabase, RestoredLog, Files
    <3>. QED
      BY <1>5, <2>1, <3>1 DEF RestoreStep, RestoreDatabase, Restoring, StartFails
  <2>2. CASE pc = "restore" /\ StartFails /\ ~RestoreDatabase
    BY <1>5, <2>2 DEF RestoreStep, StartFails, AfterFailure
  <2>3. CASE pc = "repoint"
    <3>1. doing.previous \in Version
      BY <2>3 DEF MemoryInv, Restoring, Activation
    <3>. QED
      BY <1>5, <2>3, <3>1 DEF RestoreStep, RestoreDatabase, RestoredPointer, Restoring
  <2>4. CASE pc = "forget"
    <3>1. doing.previous \in Version /\ FALSE \in BOOLEAN
      BY <2>4 DEF MemoryInv, Restoring, Activation
    <3>2. CASE after = "promote"
      BY <1>5, <2>4, <3>2 DEF RestoreStep, RestoreDatabase
    <3>3. CASE after = "relaunch"
      <4>1. Launches(doing.previous, FALSE)
        BY <1>5, <2>4, <3>3 DEF RestoreStep, RestoreDatabase
      <4>2. launched' \in Command /\ pc' = "launching" /\ tries' \in 0..2
        BY <3>1, <4>1, LaunchesType
      <4>. QED
        BY <1>5, <2>4, <3>3, <4>2 DEF RestoreStep, RestoreDatabase
    <3>. QED
      BY <3>2, <3>3
  <2>. QED
    BY <1>5, <2>1, <2>2, <2>3, <2>4 DEF RestoreStep
<1>6. CASE RestoreFails
  BY <1>6 DEF RestoreFails, StartFails, AfterFailure, Faulty
<1>7. CASE Install
  <2>1. staging \in Staged /\ 0 \in Version
    BY <1>7 DEF Install, Installs, MemoryInv, Stageable, Version
  <2>2. staging' \in Staged
    BY <1>7, <2>1 DEF Install, Installs, Staged
  <2>3. doing' \in Activation
    BY <1>7, <2>1 DEF Install, Installs, Staged, Activation
  <2>. QED
    BY <1>7, <2>2, <2>3 DEF Install, Installs, Reads, Misses, Faulty, Promoting
<1>8. CASE PromoteStep
  <2>1. backup' \in Files
    BY <1>8 DEF PromoteStep, Files, Empty
  <2>2. pc \in {"announce", "switch"} => doing \in Activation /\ doing.activated \in Version
    BY DEF MemoryInv, Promoting, Activation
  <2>. QED
    BY <1>8, <2>1, <2>2 DEF PromoteStep, Promoting
<1>9. CASE PromoteFails
  BY <1>9 DEF PromoteFails, StartFails, AfterFailure, Faulty
<1>10. CASE Decide
  <2>1. 0 \in Version /\ FALSE \in BOOLEAN
        /\ (activation # Nil /\ activation.activated = current) \in BOOLEAN
    BY DEF Version
  <2>2. launched' \in Command /\ pc' = "launching" /\ tries' \in 0..2
    <3>1. \/ Launches(current, activation # Nil /\ activation.activated = current)
          \/ Launches(current, FALSE)
          \/ Launches(0, FALSE)
      BY <1>10 DEF Decide
    <3>. QED
      BY <2>1, <3>1, LaunchesType
  <2>3. lapses' \subseteq {"dropped", "retried", "packaged", "beside"}
    BY <1>10 DEF Decide, Reads, Misses
  <2>4. faults' \in 0..MaxFaults
    <3>1. faults' = faults \/ Faulty
      BY <1>10 DEF Decide, Reads, Misses
    <3>. QED
      BY <3>1 DEF Faulty
  <2>. QED
    BY <1>10, <2>2, <2>3, <2>4 DEF Decide
<1>11. CASE Migrate \/ Work
  BY <1>11, ChildWrites DEF Migrate, Work
<1>12. CASE Healthy
  BY <1>12 DEF Healthy
<1>13. CASE LaunchFails
  BY <1>13, FoldLogKeeps DEF LaunchFails, StartFails, AfterFailure, Faulty
<1>14. CASE RuntimeEnds
  BY <1>14, FoldLogKeeps DEF RuntimeEnds
<1>15. CASE AppEnds
  BY <1>15, FoldLogKeeps DEF AppEnds
<1>16. CASE Confirm
  <2>1. launched \in Command
    BY <1>16 DEF Confirm, MemoryInv, Launched
  <2>2. launched' \in Command
    BY <1>16, <2>1 DEF Confirm, Command
  <2>3. [step |-> "forget", version |-> launched.version] \in Confirmation
    BY <2>1 DEF Command, Confirmation
  <2>. QED
    BY <1>16, <2>2, <2>3 DEF Confirm, Faulty
<1>17. ASSUME NEW c \in Confirmation, ConfirmStep(c)
       PROVE  TypeOK'
  <2>1. [c EXCEPT !.step = "clean"] \in Confirmation /\ c.version \in Version
    BY DEF Confirmation
  <2>2. Empty \in Files
    BY DEF Empty, Files
  <2>. QED
    BY <1>17, <2>1, <2>2 DEF ConfirmStep
<1>18. ASSUME NEW c \in Confirmation, ConfirmFails(c)
       PROVE  TypeOK'
  BY <1>18 DEF ConfirmFails, Faulty
<1>19. CASE Publish
  <2>1. CASE staging' = Nil
    BY <1>19, <2>1 DEF Publish
  <2>2. CASE staging' # Nil
    <3>1. download \in Version /\ staging = [version |-> download, file |-> TRUE, listed |-> FALSE]
      BY <1>19, <2>2 DEF Publish
    <3>2. staging \in Staged
      BY <3>1 DEF Staged
    <3>3. staging' \in Staged
      BY <1>19, <2>2, <3>1, <3>2 DEF Publish, Staged
    <3>. QED
      BY <1>19, <3>3 DEF Publish
  <2>. QED
    BY <2>1, <2>2
<1>20. ASSUME NEW v \in Version, Download(v)
       PROVE  TypeOK'
  BY <1>20 DEF Download, Staged
<1>21. CASE UNCHANGED vars
  BY <1>21 DEF vars
<1> HIDE DEF TypeOK
<1>. QED
  BY <1>1, <1>2, <1>3, <1>4, <1>5, <1>6, <1>7, <1>8, <1>9, <1>10, <1>11, <1>12, <1>13,
     <1>14, <1>15, <1>16, <1>17, <1>18, <1>19, <1>20, <1>21 DEF Next, StartStep

-----------------------------------------------------------------------------
(* What the steps under way know.                                           *)

LEMMA MemoryStep ==
  ASSUME TypeOK, MemoryInv, [Next]_vars
  PROVE  MemoryInv'
<1> USE UpdateAssumption DEF MemoryInv, Restoring, Promoting, Launched, Stageable,
                             disk, memory, history
<1>1. CASE Start
  BY <1>1 DEF Start
<1>2. CASE Recover
  BY <1>2 DEF Recover, Unconfirmed, Forgets
<1>3. CASE Rollback
  <2>1. Recorded => activation # Nil
    BY DEF Recorded
  <2>. QED
    BY <1>3, <2>1 DEF Rollback
<1>4. CASE Fallback
  <2>1. launched' # Nil /\ pc' = "launching"
    <3>1. \/ Launches(current, FALSE)
          \/ Launches(0, FALSE)
      BY <1>4 DEF Fallback
    <3>2. FALSE \in BOOLEAN /\ current \in Version /\ 0 \in Version
      BY DEF TypeOK, Version
    <3>. QED
      BY <3>1, <3>2, LaunchesIs
  <2>. QED
    BY <1>4, <2>1 DEF Fallback
<1>5. CASE RestoreStep
  <2>1. CASE RestoreDatabase
    BY <1>5, <2>1 DEF RestoreStep, RestoreDatabase, StartFails, AfterFailure
  <2>2. CASE pc = "restore" /\ StartFails
    BY <1>5, <2>2 DEF RestoreStep, RestoreDatabase, StartFails, AfterFailure
  <2>3. CASE pc = "repoint"
    BY <1>5, <2>3 DEF RestoreStep, RestoreDatabase, RestoredPointer
  <2>4. CASE pc = "forget"
    <3>1. CASE after = "promote"
      BY <1>5, <2>4, <3>1 DEF RestoreStep, RestoreDatabase
    <3>2. CASE after = "relaunch"
      <4>1. Launches(doing.previous, FALSE) /\ doing.previous \in Version
        BY <1>5, <2>4, <3>2 DEF RestoreStep, RestoreDatabase, TypeOK, Activation
      <4>2. launched' # Nil /\ pc' = "launching"
        BY <4>1, LaunchesIs
      <4>. QED
        BY <1>5, <2>4, <3>2, <4>2 DEF RestoreStep, RestoreDatabase
    <3>. QED
      BY <3>1, <3>2 DEF TypeOK
  <2>. QED
    BY <1>5, <2>1, <2>2, <2>3, <2>4 DEF RestoreStep
<1>6. CASE RestoreFails
  BY <1>6 DEF RestoreFails, StartFails, AfterFailure
<1>7. CASE Install
  <2>1. staging \in Staged /\ 0 \in Version
    BY <1>7 DEF Install, Installs, TypeOK, Version
  <2>2. doing' \in Activation
    BY <1>7, <2>1 DEF Install, Installs, Staged, Activation, TypeOK
  <2>3. staging' \in Staged /\ ~staging'.file
    BY <1>7, <2>1 DEF Install, Installs, Staged
  <2>. QED
    BY <1>7, <2>2, <2>3 DEF Install, Installs
<1>8. CASE PromoteStep
  BY <1>8 DEF PromoteStep
<1>9. CASE PromoteFails
  BY <1>9 DEF PromoteFails, StartFails, AfterFailure
<1>10. CASE Decide
  <2>1. launched' # Nil /\ pc' = "launching"
    <3>1. \/ Launches(current, activation # Nil /\ activation.activated = current)
          \/ Launches(current, FALSE)
          \/ Launches(0, FALSE)
      BY <1>10 DEF Decide
    <3>2. (activation # Nil /\ activation.activated = current) \in BOOLEAN
          /\ FALSE \in BOOLEAN /\ current \in Version /\ 0 \in Version
      BY DEF TypeOK, Version
    <3>. QED
      BY <3>1, <3>2, LaunchesIs
  <2>. QED
    BY <1>10, <2>1 DEF Decide
<1>11. CASE Migrate \/ Work
  BY <1>11 DEF Migrate, Work
<1>12. CASE Healthy
  BY <1>12 DEF Healthy
<1>13. CASE LaunchFails
  BY <1>13 DEF LaunchFails, StartFails, AfterFailure
<1>14. CASE RuntimeEnds
  BY <1>14 DEF RuntimeEnds
<1>15. CASE AppEnds
  BY <1>15 DEF AppEnds
<1>16. CASE Confirm
  <2>1. launched \in Command
    BY <1>16 DEF Confirm, TypeOK
  <2>2. launched' # Nil
    BY <1>16, <2>1 DEF Confirm, Command
  <2>. QED
    BY <1>16, <2>2 DEF Confirm
<1>17. ASSUME NEW c \in Confirmation, ConfirmStep(c)
       PROVE  MemoryInv'
  BY <1>17 DEF ConfirmStep
<1>18. ASSUME NEW c \in Confirmation, ConfirmFails(c)
       PROVE  MemoryInv'
  BY <1>18 DEF ConfirmFails
<1>19. CASE Publish
  BY <1>19 DEF Publish
<1>20. ASSUME NEW v \in Version, Download(v)
       PROVE  MemoryInv'
  BY <1>20 DEF Download
<1>21. CASE UNCHANGED vars
  BY <1>21 DEF vars
<1> HIDE DEF MemoryInv
<1>. QED
  BY <1>1, <1>2, <1>3, <1>4, <1>5, <1>6, <1>7, <1>8, <1>9, <1>10, <1>11, <1>12, <1>13,
     <1>14, <1>15, <1>16, <1>17, <1>18, <1>19, <1>20, <1>21 DEF Next, StartStep

(* What was lost stays lost.                                                *)
LEMMA LapsesGrow ==
  ASSUME [Next]_vars
  PROVE  lapses \subseteq lapses'
BY DEF Next, vars, disk, memory, history, StartStep, Start, Recover, Rollback, Fallback,
       RestoreStep, RestoreFails, Install, PromoteStep, PromoteFails, Decide, Migrate,
       Healthy, LaunchFails, Work, RuntimeEnds, AppEnds, Confirm, ConfirmStep, ConfirmFails,
       Publish, Download, Reads, Misses

LEMMA UpToLater ==
  ASSUME TypeOK, NEW v \in Version, NEW w \in Version, v <= w
  PROVE  /\ DatabaseUpTo(v) => DatabaseUpTo(w)
         /\ CopyUpTo(v) => CopyUpTo(w)
BY UpdateAssumption DEF TypeOK, DatabaseUpTo, CopyUpTo, Files, Content, Log, Version

-----------------------------------------------------------------------------
(* The schemas.                                                             *)

LEMMA SchemaStep ==
  ASSUME TypeOK, MemoryInv, SchemaInv, [Next]_vars
  PROVE  SchemaInv'
<1>. SUFFICES ASSUME ~PointerLost'
              PROVE  Ordered'
  BY DEF SchemaInv
<1>lost. ~PointerLost /\ "packaged" \notin lapses'
  BY LapsesGrow DEF PointerLost
<1>ord. Ordered
  BY <1>lost DEF SchemaInv
<1> USE UpdateAssumption DEF Ordered, disk, memory, history
<1>1. CASE Start
  BY <1>1, <1>ord DEF Start, Restoring, Launched, Leads, DatabaseUpTo, CopyUpTo
<1>2. CASE Recover
  BY <1>2, <1>ord DEF Recover, Unconfirmed, Forgets, Restoring, Launched, Leads,
                      DatabaseUpTo, CopyUpTo
<1>3. CASE Rollback
  BY <1>3, <1>ord DEF Rollback, Recorded, Restoring, Launched, Leads, DatabaseUpTo, CopyUpTo
<1>4. CASE Fallback
  <2>1. Launches(current, FALSE)
    BY <1>4, <1>lost DEF Fallback, Misses
  <2>2. launched'.version = current /\ pc' = "launching"
    BY <2>1, LaunchesIs DEF TypeOK
  <2>. QED
    BY <1>4, <2>2, <1>ord DEF Fallback, Restoring, Launched, Leads, DatabaseUpTo, CopyUpTo
<1>5. CASE RestoreStep
  <2>0. /\ pc \in Restoring /\ doing \in Activation
        /\ activation \in {doing, Nil}
        /\ doing.previous \in Version /\ doing.activated \in Version
    <3>1. pc \in Restoring
      BY <1>5 DEF RestoreStep, RestoreDatabase, Restoring
    <3>. QED
      BY <3>1 DEF MemoryInv, TypeOK, Activation
  <2>1. Leads(doing) /\ CopyUpTo(doing.previous) /\ doing.previous <= current
        /\ doing.previous < doing.activated
    BY <2>0, <1>ord DEF Leads, Version, TypeOK
  <2>2. CASE pc = "restore" /\ RestoreDatabase
    <3>1. /\ database'.main = backup.main /\ database'.log = database.log
          /\ backup.main # Nil /\ pc' = "restoreLog"
          /\ UNCHANGED <<current, activation, backup, doing, staging>>
      BY <1>5, <2>2 DEF RestoreStep, RestoreDatabase, TypeOK, Files
    <3>2. backup.main.schema <= doing.previous /\ backup.main.schema <= current
      BY <2>0, <2>1, <3>1 DEF CopyUpTo, TypeOK, Files, Content, Version
    <3>. QED
      BY <2>0, <2>1, <3>1, <3>2, <1>ord DEF Restoring, Launched, Leads, DatabaseUpTo, CopyUpTo
  <2>3. CASE pc = "restoreLog" /\ RestoreDatabase
    <3>1. /\ database'.main = database.main /\ database'.log = backup.log
          /\ pc' = "clean"
          /\ UNCHANGED <<current, activation, backup, doing, staging>>
      BY <1>5, <2>3 DEF RestoreStep, RestoreDatabase, RestoredLog, TypeOK, Files
    <3>2. DatabaseUpTo(doing.previous)'
      BY <2>3, <2>1, <3>1, <1>ord DEF CopyUpTo, DatabaseUpTo
    <3>3. DatabaseUpTo(current)'
      BY <2>0, <2>1, <2>3, <3>1, <3>2, <1>ord
         DEF CopyUpTo, DatabaseUpTo, TypeOK, Files, Content, Log, Version
    <3>. QED
      BY <2>0, <2>1, <3>1, <3>2, <3>3, <1>ord DEF Restoring, Launched, Leads, CopyUpTo
  <2>4. CASE pc = "clean" /\ RestoreDatabase
    <3>1. /\ backup'.main \in {backup.main, Nil} /\ backup'.log \in {backup.log, Nil}
          /\ pc' \in {"clean", "repoint"}
          /\ UNCHANGED <<current, activation, database, doing, staging>>
      BY <1>5, <2>4 DEF RestoreStep, RestoreDatabase, TypeOK, Files
    <3>. QED
      BY <2>0, <2>1, <2>4, <3>1, <1>ord DEF Restoring, Launched, Leads, CopyUpTo, DatabaseUpTo
  <2>5. CASE pc = "restore" /\ StartFails /\ UNCHANGED <<current, activation, backup, database>>
    BY <1>5, <2>5, <1>ord DEF RestoreStep, StartFails, AfterFailure, Restoring, Launched,
                              Leads, DatabaseUpTo, CopyUpTo
  <2>6. CASE pc = "repoint"
    <3>1. /\ current' = doing.previous /\ pc' = "forget"
          /\ UNCHANGED <<activation, backup, database, doing, staging>>
      BY <1>5, <2>6 DEF RestoreStep, RestoreDatabase, RestoredPointer
    <3>2. staging # Nil /\ staging.file => doing.previous < staging.version
      BY <2>0, <2>1, <1>ord DEF TypeOK, Staged, Version
    <3>3. Leads(doing)'
      BY <2>1, <3>1 DEF Leads
    <3>4. DatabaseUpTo(doing.previous)
      BY <2>6, <1>ord
    <3>. QED
      BY <2>0, <2>1, <3>1, <3>2, <3>3, <3>4, <1>ord
         DEF Restoring, Launched, Leads, DatabaseUpTo, CopyUpTo
  <2>7. CASE pc = "forget"
    <3>1. current = doing.previous
      BY <2>7 DEF MemoryInv
    <3>2. /\ activation' = Nil /\ UNCHANGED <<current, backup, database, staging>>
          /\ \/ pc' = "promote"
             \/ Launches(doing.previous, FALSE)
      BY <1>5, <2>7 DEF RestoreStep, RestoreDatabase
    <3>3. pc' = "promote" \/ (pc' = "launching" /\ launched'.version = current)
      BY <2>0, <3>1, <3>2, LaunchesIs
    <3>. QED
      BY <3>2, <3>3, <1>ord DEF Restoring, Launched, DatabaseUpTo
  <2>. QED
    BY <1>5, <2>2, <2>3, <2>4, <2>5, <2>6, <2>7 DEF RestoreStep, RestoreDatabase
<1>6. CASE RestoreFails
  BY <1>6, <1>ord DEF RestoreFails, StartFails, AfterFailure, Restoring, Launched, Leads,
                      DatabaseUpTo, CopyUpTo
<1>7. CASE Install
  <2>1. Installs(current)
    BY <1>7, <1>lost DEF Install, Misses
  <2>2. staging \in Staged /\ staging.file /\ staging # Nil /\ activation = Nil
    BY <2>1 DEF Installs, MemoryInv, Stageable, TypeOK, Promoting
  <2>3. /\ doing'.previous = current /\ doing'.activated = staging.version
        /\ pc' = "snapshot" /\ ~staging'.file
    BY <2>1, <2>2 DEF Installs, Staged
  <2>. QED
    BY <1>7, <2>2, <2>3, <1>ord DEF Install, Restoring, Launched, Leads, DatabaseUpTo
<1>8. CASE PromoteStep
  <2>0. pc \in Promoting \ {"install"} => staging # Nil /\ ~staging.file
                                         /\ doing \in Activation
    BY DEF MemoryInv, TypeOK, Promoting
  <2>1. CASE pc = "promote"
    BY <1>8, <2>1, <1>ord DEF PromoteStep, Restoring, Launched, Leads, DatabaseUpTo, CopyUpTo
  <2>2. CASE pc = "snapshot"
    BY <1>8, <2>2, <1>ord DEF PromoteStep, MemoryInv, Empty, Restoring, Launched,
                              DatabaseUpTo, CopyUpTo
  <2>3. CASE pc = "copy"
    <3>1. /\ backup'.main = database.main /\ backup'.log = backup.log /\ pc' = "copyLog"
          /\ UNCHANGED <<current, activation, staging, database, doing>>
      BY <1>8, <2>3 DEF PromoteStep, TypeOK, Files
    <3>. QED
      BY <2>3, <3>1, <1>ord DEF MemoryInv, Restoring, Launched, DatabaseUpTo, CopyUpTo
  <2>4. CASE pc = "copyLog"
    <3>1. /\ backup'.log = database.log /\ backup'.main = backup.main /\ pc' = "announce"
          /\ UNCHANGED <<current, activation, staging, database, doing>>
      BY <1>8, <2>4 DEF PromoteStep, TypeOK, Files
    <3>. QED
      BY <2>4, <3>1, <1>ord DEF MemoryInv, Restoring, Launched, DatabaseUpTo, CopyUpTo
  <2>5. CASE pc = "announce"
    BY <1>8, <2>5, <1>ord DEF PromoteStep, Restoring, Launched, Leads, DatabaseUpTo, CopyUpTo
  <2>6. CASE pc = "switch"
    <3>1. /\ current' = doing.activated /\ pc' = "unstage"
          /\ UNCHANGED <<activation, staging, backup, database, doing>>
      BY <1>8, <2>6 DEF PromoteStep
    <3>2. /\ doing.previous = current /\ current < doing.activated
          /\ activation \in {doing, Nil} /\ ~staging.file
          /\ doing.activated \in Version
      BY <2>0, <2>6, <1>ord DEF MemoryInv, Promoting, Activation
    <3>3. current <= doing.activated
      BY <3>2 DEF TypeOK, Version
    <3>4. DatabaseUpTo(doing.activated)
      BY <3>2, <3>3, UpToLater, <1>ord DEF TypeOK
    <3>. QED
      BY <3>1, <3>2, <3>4, <1>ord DEF Restoring, Launched, Leads, DatabaseUpTo, CopyUpTo
  <2>7. CASE pc \in {"unstage", "giveUp"}
    BY <1>8, <2>7, <1>ord DEF PromoteStep, Restoring, Launched, Leads, DatabaseUpTo, CopyUpTo
  <2>. QED
    BY <1>8, <2>1, <2>2, <2>3, <2>4, <2>5, <2>6, <2>7 DEF PromoteStep
<1>9. CASE PromoteFails
  BY <1>9, <1>ord DEF PromoteFails, StartFails, AfterFailure, Restoring, Launched, Leads,
                      DatabaseUpTo, CopyUpTo
<1>10. CASE Decide
  <2>1. \E p \in BOOLEAN : Launches(current, p)
    BY <1>10, <1>lost DEF Decide, Misses
  <2>2. launched'.version = current /\ pc' = "launching"
    BY <2>1, LaunchesIs DEF TypeOK
  <2>. QED
    BY <1>10, <2>2, <1>ord DEF Decide, Restoring, Launched, Leads, DatabaseUpTo, CopyUpTo
<1>11. CASE Migrate \/ Work
  <2>1. /\ pc \in Launched /\ launched.version = current
        /\ UNCHANGED <<current, activation, staging, backup, pc, doing, launched>>
    BY <1>11, <1>ord DEF Migrate, Work, Launched
  <2>2. Contents.schema <= current
    BY ContentsType, <1>ord DEF DatabaseUpTo
  <2>3. database'.main = database.main /\ database'.log.schema <= current
    <3>1. database'.log.schema \in {launched.version, Contents.schema}
          /\ database'.main = database.main
      BY <1>11, ChildWrites
    <3>2. current <= current
      BY DEF TypeOK, Version
    <3>. QED
      BY <2>1, <2>2, <3>1, <3>2
  <2>. QED
    BY <2>1, <2>3, <1>ord, <1>11 DEF Migrate, Work, Restoring, Launched, Leads, DatabaseUpTo, CopyUpTo
<1>12. CASE Healthy
  BY <1>12, <1>ord DEF Healthy, Restoring, Launched, Leads, DatabaseUpTo, CopyUpTo
<1>13. CASE LaunchFails
  <2>1. FoldLog /\ pc' \in {"rollback", "idle"}
        /\ UNCHANGED <<current, activation, staging, backup>>
        /\ (pc' = "rollback" => launched' = launched) /\ pc = "launching"
    BY <1>13 DEF LaunchFails, StartFails, AfterFailure
  <2>2. DatabaseUpTo(current)'
    BY <2>1, FoldLogKeeps, <1>ord DEF TypeOK, DatabaseUpTo
  <2>. QED
    BY <2>1, <2>2, <1>ord DEF Restoring, Launched, Leads, CopyUpTo
<1>14. CASE RuntimeEnds
  <2>1. DatabaseUpTo(current)'
    BY <1>14, FoldLogKeeps, <1>ord DEF RuntimeEnds, TypeOK, DatabaseUpTo
  <2>. QED
    BY <1>14, <2>1, <1>ord DEF RuntimeEnds, Restoring, Launched, Leads, CopyUpTo
<1>15. CASE AppEnds
  <2>1. DatabaseUpTo(current)'
    BY <1>15, FoldLogKeeps, <1>ord DEF AppEnds, TypeOK, DatabaseUpTo
  <2>. QED
    BY <1>15, <2>1, <1>ord DEF AppEnds, Restoring, Launched, Leads, CopyUpTo
<1>16. CASE Confirm
  <2>1. launched'.version = launched.version
    BY <1>16 DEF Confirm, MemoryInv, Launched, TypeOK, Command
  <2>. QED
    BY <1>16, <2>1, <1>ord DEF Confirm, Restoring, Launched, Leads, DatabaseUpTo, CopyUpTo
<1>17. ASSUME NEW c \in Confirmation, ConfirmStep(c)
       PROVE  Ordered'
  BY <1>17, <1>ord DEF ConfirmStep, Empty, Restoring, Launched, Leads, DatabaseUpTo, CopyUpTo
<1>18. ASSUME NEW c \in Confirmation, ConfirmFails(c)
       PROVE  Ordered'
  BY <1>18, <1>ord DEF ConfirmFails, Restoring, Launched, Leads, DatabaseUpTo, CopyUpTo
<1>19. CASE Publish
  <2>1. staging' = Nil \/ (staging # Nil /\ staging'.version = staging.version /\ staging.file)
    <3>1. CASE staging = [version |-> download, file |-> TRUE, listed |-> FALSE]
      <4>1. staging \in Staged /\ staging # Nil
        <5>1. download \in Version
          BY <1>19 DEF Publish, TypeOK
        <5>2. staging \in Staged
          BY <3>1, <5>1 DEF Staged
        <5>. QED
          BY <5>2
      <4>2. staging' = [staging EXCEPT !.listed = TRUE] /\ staging.file
        BY <1>19, <3>1 DEF Publish
      <4>. QED
        BY <4>1, <4>2 DEF Staged
    <3>2. CASE staging # [version |-> download, file |-> TRUE, listed |-> FALSE]
      BY <1>19, <3>2 DEF Publish
    <3>. QED
      BY <3>1, <3>2
  <2>. QED
    BY <1>19, <2>1, <1>ord DEF Publish, Restoring, Launched, Leads, DatabaseUpTo, CopyUpTo
<1>20. ASSUME NEW v \in Version, Download(v)
       PROVE  Ordered'
  <2>1. staging'.version = v /\ current < v
    BY <1>20, <1>ord DEF Download, Launched
  <2>. QED
    BY <1>20, <2>1, <1>ord DEF Download, Restoring, Launched, Leads, DatabaseUpTo, CopyUpTo
<1>21. CASE UNCHANGED vars
  BY <1>21, <1>ord DEF vars, Restoring, Launched, Leads, DatabaseUpTo, CopyUpTo
<1> HIDE DEF Ordered
<1>. QED
  BY <1>1, <1>2, <1>3, <1>4, <1>5, <1>6, <1>7, <1>8, <1>9, <1>10, <1>11, <1>12, <1>13,
     <1>14, <1>15, <1>16, <1>17, <1>18, <1>19, <1>20, <1>21 DEF Next, StartStep

-----------------------------------------------------------------------------
(* The logs and the copies.                                                 *)

LEMMA SoundStep ==
  ASSUME TypeOK, MemoryInv, SoundInv, [Next]_vars
  PROVE  SoundInv'
<1>. SUFFICES ASSUME ~RecordLost'
              PROVE  Intact'
  BY DEF SoundInv
<1>lost. ~RecordLost /\ "dropped" \notin lapses' /\ "beside" \notin lapses'
  BY LapsesGrow DEF RecordLost
<1>int. Intact
  BY <1>lost DEF SoundInv
<1> USE UpdateAssumption DEF Intact, disk, memory, history, Restoring, Launched
<1>1. CASE Start
  BY <1>1, <1>int DEF Start, Sound, CopySound
<1>2. CASE Recover
  <2>1. confirming = {}
    BY <1>2, <1>lost DEF Recover, Beside
  <2>2. \/ activation # Nil /\ doing' = activation /\ activation' = activation /\ pc' = "restore"
        \/ activation = Nil /\ activation' = Nil /\ pc' = "promote"
    BY <1>2, <1>lost DEF Recover, Unconfirmed, Forgets
  <2>. QED
    BY <1>2, <2>1, <2>2, <1>int DEF Recover, Sound, CopySound
<1>3. CASE Rollback
  BY <1>3, <1>int DEF Rollback, Sound, CopySound
<1>4. CASE Fallback
  <2>1. pc' = "launching"
    BY <1>4 DEF Fallback, Launches
  <2>. QED
    BY <1>4, <2>1, <1>int DEF Fallback, Sound, CopySound
<1>5. CASE RestoreStep
  <2>0. pc \in Restoring /\ activation = doing /\ activation # Nil /\ CopySound
        /\ confirming = {} /\ confirming' = {}
    <3>1. pc \in Restoring /\ confirming' = confirming
      BY <1>5 DEF RestoreStep, RestoreDatabase
    <3>. QED
      BY <3>1, <1>int DEF MemoryInv
  <2>1. CASE pc = "restore" /\ RestoreDatabase
    <3>1. /\ database'.main = backup.main /\ backup.main # Nil /\ pc' = "restoreLog"
          /\ UNCHANGED <<activation, backup, doing>>
      BY <1>5, <2>1 DEF RestoreStep, RestoreDatabase, TypeOK, Files
    <3>. QED
      BY <2>0, <3>1 DEF CopySound
  <2>2. CASE pc = "restoreLog" /\ RestoreDatabase
    <3>1. /\ database'.main = database.main /\ database'.log = backup.log
          /\ pc' = "clean" /\ UNCHANGED <<activation, backup, doing>>
      BY <1>5, <2>2 DEF RestoreStep, RestoreDatabase, RestoredLog, TypeOK, Files
    <3>2. backup.main # Nil /\ database.main = backup.main
      BY <2>2, <1>int
    <3>. QED
      BY <2>0, <3>1, <3>2 DEF CopySound, Sound
  <2>3. CASE pc = "clean" /\ RestoreDatabase
    <3>1. /\ backup'.main \in {backup.main, Nil} /\ backup'.log \in {backup.log, Nil}
          /\ pc' \in {"clean", "repoint"}
          /\ UNCHANGED <<activation, database, doing>>
      BY <1>5, <2>3 DEF RestoreStep, RestoreDatabase, TypeOK, Files
    <3>2. Sound
      BY <2>3, <1>int
    <3>. QED
      BY <2>0, <3>1, <3>2 DEF CopySound, Sound
  <2>4. CASE pc = "restore" /\ StartFails /\ UNCHANGED <<activation, backup, database>>
    BY <2>0, <2>4 DEF StartFails, AfterFailure, CopySound
  <2>5. CASE pc = "repoint"
    <3>1. pc' = "forget" /\ UNCHANGED <<activation, backup, database, doing>>
      BY <1>5, <2>5 DEF RestoreStep, RestoreDatabase
    <3>2. Sound
      BY <2>5, <1>int
    <3>. QED
      BY <2>0, <3>1, <3>2 DEF CopySound, Sound
  <2>6. CASE pc = "forget"
    <3>1. activation' = Nil /\ UNCHANGED database /\ pc' \in {"promote", "launching"}
      BY <1>5, <2>6 DEF RestoreStep, RestoreDatabase, Launches
    <3>2. Sound
      BY <2>6, <1>int
    <3>. QED
      BY <2>0, <3>1, <3>2 DEF Sound
  <2>. QED
    BY <1>5, <2>1, <2>2, <2>3, <2>4, <2>5, <2>6 DEF RestoreStep, RestoreDatabase
<1>6. CASE RestoreFails
  BY <1>6, <1>int DEF RestoreFails, StartFails, AfterFailure, Sound, CopySound
<1>7. CASE Install
  <2>1. activation = Nil /\ pc = "install" /\ pc' = "snapshot"
    BY <1>7 DEF Install, Installs, MemoryInv
  <2>. QED
    BY <1>7, <2>1, <1>int DEF Install, Sound
<1>8. CASE PromoteStep
  <2>0. confirming = {} /\ confirming' = {}
    BY <1>8, <1>int DEF PromoteStep
  <2>1. CASE pc = "promote"
    BY <1>8, <2>0, <2>1, <1>int DEF PromoteStep, MemoryInv, Sound
  <2>2. CASE pc = "snapshot"
    BY <1>8, <2>0, <2>2, <1>int DEF PromoteStep, MemoryInv, Sound
  <2>3. CASE pc = "copy"
    <3>1. /\ backup'.main = database.main /\ pc' = "copyLog"
          /\ UNCHANGED <<activation, database>>
      BY <1>8, <2>3 DEF PromoteStep, TypeOK, Files
    <3>. QED
      BY <2>0, <2>3, <3>1, <1>int DEF MemoryInv, Sound
  <2>4. CASE pc = "copyLog"
    <3>1. /\ backup'.log = database.log /\ backup'.main = backup.main /\ pc' = "announce"
          /\ UNCHANGED <<activation, database>>
      BY <1>8, <2>4 DEF PromoteStep, TypeOK, Files
    <3>. QED
      BY <2>0, <2>4, <3>1, <1>int DEF MemoryInv, Sound
  <2>5. CASE pc = "announce"
    <3>1. activation' = doing /\ UNCHANGED <<backup, database, doing>> /\ pc' = "switch"
      BY <1>8, <2>5 DEF PromoteStep
    <3>2. Sound /\ backup.main = database.main /\ backup.log = database.log
      BY <2>5, <1>int DEF MemoryInv
    <3>. QED
      BY <2>0, <3>1, <3>2 DEF Sound, CopySound
  <2>6. CASE pc = "switch"
    BY <1>8, <2>0, <2>6, <1>int DEF PromoteStep, Sound, CopySound
  <2>7. CASE pc \in {"unstage", "giveUp"}
    BY <1>8, <2>0, <2>7, <1>int DEF PromoteStep, Sound, CopySound
  <2>. QED
    BY <1>8, <2>1, <2>2, <2>3, <2>4, <2>5, <2>6, <2>7 DEF PromoteStep
<1>9. CASE PromoteFails
  <2>1. Sound
    BY <1>9, <1>int DEF PromoteFails, MemoryInv, Promoting
  <2>2. confirming = {}
    BY <1>9, <1>int DEF PromoteFails, Promoting
  <2>3. pc' \in {"giveUp", "idle"}
    BY <1>9 DEF PromoteFails, StartFails, AfterFailure
  <2>. QED
    BY <1>9, <2>1, <2>2, <2>3, <1>int DEF PromoteFails, Sound, CopySound
<1>10. CASE Decide
  <2>1. pc' = "launching"
    BY <1>10 DEF Decide, Launches
  <2>. QED
    BY <1>10, <2>1, <1>int DEF Decide, Sound, CopySound
<1>11. CASE Migrate \/ Work
  <2>1. Sound'
    BY <1>11, ChildWrites
  <2>2. pc \in {"launching", "running"}
        /\ UNCHANGED <<activation, backup, pc, doing, launched, confirming>>
    BY <1>11 DEF Migrate, Work
  <2>. QED
    BY <2>1, <2>2, <1>int DEF CopySound
<1>12. CASE Healthy
  BY <1>12, <1>int DEF Healthy, Sound, CopySound
<1>13. CASE LaunchFails
  <2>1. Sound' /\ confirming = {} /\ confirming' = {}
    BY <1>13, <1>int, FoldLogKeeps DEF LaunchFails
  <2>2. pc' \in {"rollback", "idle"} /\ UNCHANGED <<activation, backup>>
    BY <1>13 DEF LaunchFails, StartFails, AfterFailure
  <2>. QED
    BY <2>1, <2>2, <1>int DEF CopySound
<1>14. CASE RuntimeEnds
  <2>1. Sound'
    BY <1>14, <1>int, FoldLogKeeps DEF RuntimeEnds
  <2>. QED
    BY <1>14, <2>1, <1>int DEF RuntimeEnds, CopySound
<1>15. CASE AppEnds
  <2>1. Sound => Sound'
    BY <1>15, FoldLogKeeps DEF AppEnds, Sound
  <2>. QED
    BY <1>15, <2>1, <1>int DEF AppEnds, CopySound
<1>16. CASE Confirm
  <2>1. ~launched'.pending /\ Sound
    BY <1>16, <1>int DEF Confirm, MemoryInv, TypeOK, Command
  <2>. QED
    BY <1>16, <2>1, <1>int DEF Confirm, Sound, CopySound
<1>17. ASSUME NEW c \in Confirmation, ConfirmStep(c)
       PROVE  Intact'
  <2>1. pc \in {"running", "idle", "recover"} /\ Sound /\ (launched # Nil => ~launched.pending)
    BY <1>17, <1>int DEF ConfirmStep
  <2>2. activation' = Nil \/ (activation' = activation /\ backup' = Empty)
    BY <1>17 DEF ConfirmStep
  <2>3. UNCHANGED <<database, pc, launched>>
    BY <1>17 DEF ConfirmStep
  <2>. QED
    BY <2>1, <2>2, <2>3 DEF Sound, CopySound, Empty
<1>18. ASSUME NEW c \in Confirmation, ConfirmFails(c)
       PROVE  Intact'
  BY <1>18, <1>int DEF ConfirmFails, Sound, CopySound
<1>19. CASE Publish
  BY <1>19, <1>int DEF Publish, Sound, CopySound
<1>20. ASSUME NEW v \in Version, Download(v)
       PROVE  Intact'
  BY <1>20, <1>int DEF Download, Sound, CopySound
<1>21. CASE UNCHANGED vars
  BY <1>21, <1>int DEF vars, Sound, CopySound
<1> HIDE DEF Intact
<1>. QED
  BY <1>1, <1>2, <1>3, <1>4, <1>5, <1>6, <1>7, <1>8, <1>9, <1>10, <1>11, <1>12, <1>13,
     <1>14, <1>15, <1>16, <1>17, <1>18, <1>19, <1>20, <1>21 DEF Next, StartStep

-----------------------------------------------------------------------------
(* The version that was confirmed.                                          *)

LEMMA KnownStep ==
  ASSUME TypeOK, MemoryInv, SchemaInv, SoundInv, KnownInv, [Next]_vars
  PROVE  KnownInv'
<1>. SUFFICES ASSUME ~RecordLost', ~PointerLost'
              PROVE  LeadsBack'
  BY DEF KnownInv
<1>lost. /\ ~RecordLost /\ ~PointerLost
         /\ "dropped" \notin lapses' /\ "beside" \notin lapses' /\ "packaged" \notin lapses'
  BY LapsesGrow DEF RecordLost, PointerLost
<1>ord. Ordered
  BY <1>lost DEF SchemaInv
<1>int. Intact
  BY <1>lost DEF SoundInv
<1>back. LeadsBack
  BY <1>lost DEF KnownInv
<1> USE UpdateAssumption DEF LeadsBack, disk, memory, history
<1>1. CASE UNCHANGED <<current, activation, good>> /\ confirming' \subseteq confirming
  BY <1>1, <1>back
<1>2. CASE Recover
  <2>1. activation' = activation
    BY <1>2, <1>lost DEF Recover, Unconfirmed, Forgets
  <2>. QED
    BY <1>2, <2>1, <1>back DEF Recover
<1>3. CASE RestoreStep
  <2>1. pc \in Restoring
    BY <1>3 DEF RestoreStep, RestoreDatabase, Restoring
  <2>2. activation = doing /\ activation # Nil /\ confirming' = {} /\ doing.previous = good
    BY <1>3, <2>1, <1>int, <1>back DEF Intact, MemoryInv, RestoreStep, Restoring
  <2>3. CASE pc = "repoint"
    BY <1>3, <2>2, <2>3 DEF RestoreStep, RestoreDatabase, RestoredPointer
  <2>4. CASE pc = "forget"
    BY <1>3, <2>2, <2>4 DEF RestoreStep, RestoreDatabase, MemoryInv
  <2>5. CASE pc \notin {"repoint", "forget"}
    BY <1>3, <2>2, <2>5, <1>back DEF RestoreStep, RestoreDatabase
  <2>. QED
    BY <2>3, <2>4, <2>5
<1>4. CASE PromoteStep
  <2>1. confirming' = {}
    BY <1>4, <1>int DEF PromoteStep, Intact
  <2>2. CASE pc = "announce"
    <3>1. activation' = doing /\ current' = current /\ good' = good
      BY <1>4, <2>2 DEF PromoteStep
    <3>2. doing # Nil /\ doing.previous = current /\ current = good
      BY <2>2, <1>ord, <1>back DEF Ordered, MemoryInv, Promoting
    <3>. QED
      BY <2>1, <3>1, <3>2
  <2>3. CASE pc = "switch"
    <3>1. activation # Nil
      BY <2>3, <1>int DEF Intact, MemoryInv, Promoting
    <3>. QED
      BY <1>4, <2>1, <2>3, <3>1, <1>back DEF PromoteStep
  <2>4. CASE pc \notin {"announce", "switch"}
    BY <1>4, <2>1, <2>4, <1>back DEF PromoteStep
  <2>. QED
    BY <2>2, <2>3, <2>4
<1>5. CASE Confirm
  <2>1. launched.version = current
    BY <1>5, <1>ord DEF Confirm, Ordered, Launched
  <2>. QED
    BY <1>5, <2>1, <1>back DEF Confirm
<1>6. ASSUME NEW c \in Confirmation, ConfirmStep(c)
      PROVE  LeadsBack'
  <2>1. c.version = current /\ current' = current
    BY <1>6, <1>back DEF ConfirmStep
  <2>2. [c EXCEPT !.step = "clean"].version = c.version
    BY DEF Confirmation
  <2>. QED
    BY <1>6, <2>1, <2>2, <1>back DEF ConfirmStep
<1> HIDE DEF LeadsBack
<1>. QED
  BY <1>1, <1>2, <1>3, <1>4, <1>5, <1>6
     DEF Next, vars, StartStep, Start, Rollback, Fallback, RestoreFails, Install, PromoteFails,
         Decide, Migrate, Healthy, LaunchFails, Work, RuntimeEnds, AppEnds, ConfirmFails,
         Publish, Download

-----------------------------------------------------------------------------
(* The launches.                                                            *)

LEMMA TriesStep ==
  ASSUME TypeOK, MemoryInv, SoundInv, TriesInv, [Next]_vars
  PROVE  TriesInv'
<1>. SUFFICES ASSUME ~RecordLost', "retried" \notin lapses'
              PROVE  Counted'
  BY DEF TriesInv
<1>lost. /\ ~RecordLost /\ "retried" \notin lapses
         /\ "dropped" \notin lapses' /\ "beside" \notin lapses'
  BY LapsesGrow DEF RecordLost
<1>int. Intact
  BY <1>lost DEF SoundInv
<1>cnt. Counted
  BY <1>lost DEF TriesInv
<1> USE UpdateAssumption DEF Counted, disk, memory, history, Restoring, Launched, Promoting
<1>1. CASE Start
  BY <1>1, <1>cnt DEF Start
<1>2. CASE Recover
  <2>1. activation' = activation /\ pc' \in {"restore", "promote"}
    BY <1>2, <1>lost DEF Recover, Unconfirmed, Forgets
  <2>. QED
    BY <1>2, <2>1, <1>cnt DEF Recover
<1>3. CASE Rollback
  <2>1. Recorded
    BY <1>3, <1>cnt DEF Rollback
  <2>2. pc' = "restore"
    BY <1>3, <2>1 DEF Rollback, Misses
  <2>. QED
    BY <1>3, <2>2, <1>cnt DEF Rollback
<1>4. CASE Fallback
  BY <1>4, <1>cnt DEF Fallback
<1>5. CASE RestoreStep
  <2>1. pc \in Restoring
    BY <1>5 DEF RestoreStep, RestoreDatabase
  <2>2. activation = doing /\ activation # Nil /\ confirming' = {}
        /\ doing.previous \in {good, 0}
    BY <1>5, <2>1, <1>int, <1>cnt DEF Intact, MemoryInv, RestoreStep
  <2>3. CASE pc = "repoint"
    BY <1>5, <2>2, <2>3, <1>cnt DEF RestoreStep, RestoreDatabase, RestoredPointer
  <2>4. CASE pc = "forget"
    <3>1. current = doing.previous /\ doing.previous \in Version
      BY <2>2, <2>4 DEF MemoryInv, TypeOK, Activation
    <3>2. activation' = Nil /\ UNCHANGED <<current, good, trial, staging>>
      BY <1>5, <2>4 DEF RestoreStep, RestoreDatabase
    <3>3. CASE pc' = "promote" /\ tries' = tries
      BY <2>2, <3>1, <3>2, <3>3, <1>cnt
    <3>4. CASE Launches(doing.previous, FALSE)
      <4>1. pc' = "launching" /\ ~launched'.pending
        BY <3>1, <3>4, LaunchesIs
      <4>2. tries' = tries
        BY <2>2, <3>1, <3>4, LaunchesIs, <1>cnt
      <4>. QED
        BY <2>2, <3>1, <3>2, <4>1, <4>2, <1>cnt
    <3>. QED
      BY <1>5, <2>4, <3>3, <3>4 DEF RestoreStep, RestoreDatabase
  <2>5. CASE pc \notin {"repoint", "forget"}
    <3>1. UNCHANGED <<current, activation, good, trial, tries, staging>>
      BY <1>5, <2>5 DEF RestoreStep, RestoreDatabase
    <3>2. pc' \in {"restoreLog", "clean", "repoint", "idle"}
      BY <1>5, <2>5 DEF RestoreStep, RestoreDatabase, StartFails, AfterFailure
    <3>. QED
      BY <2>2, <3>1, <3>2, <1>cnt
  <2>. QED
    BY <2>3, <2>4, <2>5
<1>6. CASE RestoreFails
  BY <1>6, <1>cnt DEF RestoreFails, StartFails, AfterFailure
<1>7. CASE Install
  <2>1. staging \in Staged /\ staging # Nil /\ staging.version > 0 /\ activation = Nil
    BY <1>7, <1>cnt DEF Install, Installs, MemoryInv, Stageable, TypeOK
  <2>2. staging' # Nil => staging'.version = staging.version
    BY <1>7, <2>1 DEF Install, Installs, Staged
  <2>3. doing'.activated = staging.version /\ doing'.previous \in {current, 0}
        /\ pc' = "snapshot"
    BY <1>7 DEF Install, Installs
  <2>. QED
    BY <1>7, <2>1, <2>2, <2>3, <1>cnt DEF Install
<1>8. CASE PromoteStep
  <2>1. CASE pc = "promote"
    BY <1>8, <2>1, <1>cnt DEF PromoteStep, MemoryInv
  <2>2. CASE pc \in {"snapshot", "copy", "copyLog"}
    BY <1>8, <2>2, <1>cnt DEF PromoteStep, MemoryInv
  <2>3. CASE pc = "announce"
    <3>1. /\ activation' = doing /\ trial' = doing.activated /\ tries' = 0 /\ pc' = "switch"
          /\ UNCHANGED <<current, staging, doing, good, confirming>>
      BY <1>8, <2>3 DEF PromoteStep
    <3>2. activation = Nil /\ doing.activated > 0 /\ doing.previous \in {current, 0}
          /\ doing.activated \in Version
      BY <2>3, <1>cnt DEF MemoryInv, TypeOK, Activation
    <3>3. trial' # 0
      BY <3>1, <3>2 DEF Version
    <3>. QED
      BY <3>1, <3>2, <3>3, <1>cnt
  <2>4. CASE pc = "switch"
    <3>1. activation = doing /\ activation # Nil /\ confirming' = {}
      BY <1>8, <2>4, <1>int DEF Intact, MemoryInv, PromoteStep
    <3>. QED
      BY <1>8, <2>4, <3>1, <1>cnt DEF PromoteStep
  <2>5. CASE pc \in {"unstage", "giveUp"}
    BY <1>8, <2>5, <1>cnt DEF PromoteStep
  <2>. QED
    BY <1>8, <2>1, <2>2, <2>3, <2>4, <2>5 DEF PromoteStep
<1>9. CASE PromoteFails
  <2>1. activation # Nil => tries = 0 \/ pc = "idle"
    BY <1>9, <1>cnt DEF PromoteFails, MemoryInv
  <2>. QED
    BY <1>9, <2>1, <1>cnt DEF PromoteFails, StartFails, AfterFailure
<1>10. CASE Decide
  <2>1. PICK v \in {current, 0}, p \in BOOLEAN :
          Launches(v, p) /\ (p => v = current /\ activation # Nil
                                  /\ activation.activated = current)
    BY <1>10 DEF Decide
  <2>2. v \in Version
    BY <2>1 DEF TypeOK, Version
  <2>3. launched'.version = v /\ launched'.pending = p /\ pc' = "launching"
    BY <2>1, <2>2, LaunchesIs
  <2>4. tries' <= 1
    <3>1. tries' = tries \/ (v = trial /\ v # good /\ tries' = tries + 1)
      BY <2>1, <2>2, LaunchesIs
    <3>2. CASE activation = Nil
      BY <2>1, <3>1, <3>2, <1>cnt
    <3>3. CASE activation # Nil
      BY <1>10, <3>1, <3>3, <1>cnt DEF Decide
    <3>. QED
      BY <3>2, <3>3
  <2>5. launched'.pending => Recorded' /\ launched'.version = current
    BY <1>10, <2>1, <2>3 DEF Decide, Recorded
  <2>. QED
    BY <1>10, <2>3, <2>4, <2>5, <1>cnt DEF Decide
<1>11. CASE Migrate \/ Work
  BY <1>11, <1>cnt DEF Migrate, Work, Recorded
<1>12. CASE Healthy
  BY <1>12, <1>cnt DEF Healthy, Recorded
<1>13. CASE LaunchFails
  BY <1>13, <1>cnt DEF LaunchFails, StartFails, AfterFailure, Recorded
<1>14. CASE RuntimeEnds
  BY <1>14, <1>cnt DEF RuntimeEnds
<1>15. CASE AppEnds
  BY <1>15, <1>cnt DEF AppEnds
<1>16. CASE Confirm
  <2>1. launched.version = current /\ ~launched'.pending
    BY <1>16, <1>cnt DEF Confirm, MemoryInv, TypeOK, Command
  <2>. QED
    BY <1>16, <2>1, <1>cnt DEF Confirm
<1>17. ASSUME NEW c \in Confirmation, ConfirmStep(c)
       PROVE  Counted'
  <2>1. pc \in {"running", "idle", "recover"} /\ (launched # Nil => ~launched.pending)
    BY <1>17, <1>int DEF ConfirmStep, Intact
  <2>2. c.version = current
    BY <1>17, <1>cnt DEF ConfirmStep
  <2>3. [c EXCEPT !.step = "clean"].version = c.version
    BY DEF Confirmation
  <2>4. pc = "running" => ~launched.pending
    BY <2>1 DEF MemoryInv
  <2>5. \A d \in confirming' : d.version = current
    BY <1>17, <2>2, <2>3, <1>cnt DEF ConfirmStep
  <2>. QED
    BY <1>17, <2>1, <2>2, <2>4, <2>5, <1>cnt DEF ConfirmStep
<1>18. ASSUME NEW c \in Confirmation, ConfirmFails(c)
       PROVE  Counted'
  BY <1>18, <1>cnt DEF ConfirmFails, Recorded
<1>19. CASE Publish
  <2>1. staging' # Nil => staging # Nil /\ staging'.version = staging.version
    <3>1. CASE staging = [version |-> download, file |-> TRUE, listed |-> FALSE]
      <4>1. download \in Version
        BY <1>19 DEF Publish, TypeOK
      <4>2. staging \in Staged
        BY <3>1, <4>1 DEF Staged
      <4>3. staging' = [staging EXCEPT !.listed = TRUE]
        BY <1>19, <3>1 DEF Publish
      <4>. QED
        BY <4>2, <4>3 DEF Staged
    <3>2. CASE staging # [version |-> download, file |-> TRUE, listed |-> FALSE]
      BY <1>19, <3>2 DEF Publish
    <3>. QED
      BY <3>1, <3>2
  <2>. QED
    BY <1>19, <2>1, <1>cnt DEF Publish, Recorded
<1>20. ASSUME NEW v \in Version, Download(v)
       PROVE  Counted'
  <2>1. launched.version \in Version
    BY <1>20 DEF Download, MemoryInv, TypeOK, Command
  <2>2. v > 0 /\ staging'.version = v
    BY <1>20, <2>1 DEF Download, Version
  <2>. QED
    BY <1>20, <2>2, <1>cnt DEF Download, Recorded
<1>21. CASE UNCHANGED vars
  BY <1>21, <1>cnt DEF vars, Recorded
<1> HIDE DEF Counted
<1>. QED
  BY <1>1, <1>2, <1>3, <1>4, <1>5, <1>6, <1>7, <1>8, <1>9, <1>10, <1>11, <1>12, <1>13,
     <1>14, <1>15, <1>16, <1>17, <1>18, <1>19, <1>20, <1>21 DEF Next, StartStep

-----------------------------------------------------------------------------
LEMMA InvHolds == Spec => []Inv
<1>1. Init => Inv
  <2>1. ASSUME Init
        PROVE  /\ TypeOK /\ MemoryInv
               /\ database.main.schema = 0 /\ database.log = Nil /\ backup = Empty
    <3>1. 0 \in Version /\ [schema |-> 0, data |-> 0] \in Content
      BY UpdateAssumption DEF Version, Content
    <3>2. database \in Files /\ database.main # Nil /\ backup \in Files
      BY <2>1, <3>1, UpdateAssumption DEF Init, Files, Empty
    <3>3. faults \in 0..MaxFaults /\ crashes \in 0..MaxCrashes /\ tries \in 0..2
      BY <2>1, UpdateAssumption DEF Init
    <3>4. TypeOK
      BY <2>1, <3>1, <3>2, <3>3 DEF Init, TypeOK
    <3>5. MemoryInv
      BY <2>1 DEF Init, MemoryInv, Restoring, Promoting, Launched
    <3>. QED
      BY <2>1, <3>4, <3>5 DEF Init
  <2>2. ASSUME Init
        PROVE  Ordered
    <3>1. DatabaseUpTo(current)
      BY <2>1, <2>2 DEF Init, DatabaseUpTo
    <3>. QED
      BY <2>2, <3>1 DEF Init, Ordered, Restoring, Launched
  <2>3. Init => Intact
    BY <2>1 DEF Init, Intact, Sound, Restoring, Launched
  <2>4. Init => LeadsBack
    BY DEF Init, LeadsBack
  <2>5. ASSUME Init
        PROVE  Counted
    <3>1. trial # 0
      BY <2>5, UpdateAssumption DEF Init, Version
    <3>. QED
      BY <2>5, <3>1 DEF Init, Counted, Promoting, Launched
  <2>. QED
    BY <2>1, <2>2, <2>3, <2>4, <2>5 DEF Inv, SchemaInv, SoundInv, KnownInv, TriesInv
<1>2. Inv /\ [Next]_vars => Inv'
  BY TypeStep, MemoryStep, SchemaStep, SoundStep, KnownStep, TriesStep DEF Inv
<1>. QED
  BY <1>1, <1>2, PTL DEF Spec

-----------------------------------------------------------------------------
(* Every variable keeps its type: a launched Runtime has its command, and   *)
(* what is lost is one of the four lapses.                                  *)
THEOREM TypeCorrect == Spec => []TypeOK
  BY InvHolds, PTL DEF Inv

(* A Runtime is launched only on a database it can open, wherever the copy  *)
(* of restoreMetadataDatabase or backupMetadataDatabase was cut off and     *)
(* whatever operation failed: a failed read of current.json can only bring  *)
(* a newer schema, and a lost record only the log of another main file.     *)
THEOREM DatabaseFitsTheRuntime == Spec => []RunsOnItsOwnData
<1>1. ASSUME Inv, pc \in {"launching", "running"}
      PROVE  /\ Sound \/ RecordLost
             /\ Contents.schema <= launched.version \/ PointerLost
  <2>1. Sound \/ RecordLost
    BY <1>1 DEF Inv, SoundInv, Intact, Launched
  <2>2. ASSUME ~PointerLost
        PROVE  Contents.schema <= launched.version
    <3>1. DatabaseUpTo(current) /\ launched.version = current
      BY <1>1, <2>2 DEF Inv, SchemaInv, Ordered, Launched
    <3>. QED
      BY <1>1, <3>1, ContentsType DEF Inv, DatabaseUpTo
  <2>. QED
    BY <2>1, <2>2
<1>2. Inv => RunsOnItsOwnData
  BY <1>1 DEF RunsOnItsOwnData
<1>. QED
  BY <1>2, InvHolds, PTL

(* What runs is the confirmed version or a provisional one that the record  *)
(* on disk leads back from, after any writes, removals and reads that       *)
(* failed, unless a record or the pointer was lost to one of them.          *)
THEOREM NothingUnconfirmedStays == Spec => []KnownGoodOrProvisional
<1>1. ASSUME Inv, pc \in {"launching", "running"}, ~RecordLost, ~PointerLost
      PROVE  \/ launched.version = good
             \/ activation = [previous |-> good, activated |-> launched.version]
  <2>1. launched.version = current /\ (activation # Nil => Leads(activation))
    BY <1>1 DEF Inv, SchemaInv, Ordered, Launched
  <2>2. /\ activation = Nil => current = good
        /\ activation # Nil => activation.previous = good
    BY <1>1 DEF Inv, KnownInv, LeadsBack
  <2>3. CASE activation = Nil
    BY <2>1, <2>2, <2>3
  <2>4. CASE activation # Nil
    <3>1. activation \in Activation
      BY <1>1, <2>4 DEF Inv, TypeOK
    <3>2. activation.previous = good /\ current \in {good, activation.activated}
      BY <2>1, <2>2, <2>4 DEF Leads
    <3>. QED
      BY <2>1, <3>1, <3>2 DEF Activation
  <2>. QED
    BY <2>3, <2>4
<1>2. Inv => KnownGoodOrProvisional
  BY <1>1 DEF KnownGoodOrProvisional
<1>. QED
  BY <1>2, InvHolds, PTL

(* prepareActivation takes back what was not confirmed before it considers  *)
(* anything staged, so nothing unconfirmed is launched twice as long as its *)
(* record is read when there is one and not removed beside a start.         *)
THEOREM UnconfirmedIsTriedOnce == Spec => []TriedOnce
<1>1. Inv => TriedOnce
  BY DEF Inv, TriesInv, Counted, TriedOnce, NotTriedAgain
<1>. QED
  BY <1>1, InvHolds, PTL
=============================================================================
