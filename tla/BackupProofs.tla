----------------------------- MODULE BackupProofs -----------------------------
(***************************************************************************)
(* Theorems about Backup for any number of runs, any retention and any     *)
(* number of attempts.                                                     *)
(***************************************************************************)
EXTENDS Backup, TLAPS

USE BackupAssumption

LEMMA AnAttempt == 0 < MaxAttempts /\ 0 \in 0..MaxAttempts
OBVIOUS

\* Where run r is fits what it was asked to do; it has attempts left until it
\* has looked for the save, and has nothing of the save before it asked for it.
Fits(r) ==
  UnderWay(r) =>
    /\ run[r] \in Run
    /\ pc[r] \in {"restore", "restoring"} <=> run[r].mode = "restore"
    /\ pc[r] \in {"dump", "dumping", "prune dump"} => run[r].mode \in {"all", "pg"}
    /\ pc[r] \in {"dump", "dumping", "save", "status", "new_status"} => run[r].attempts < MaxAttempts
    /\ pc[r] \in {"dump", "dumping", "save"} => run[r].asked = None /\ ~run[r].changed
    /\ pc[r] = "dumping" => ~run[r].dry

\* Past its dump, run r finds it, not a day old.
Past == {"save", "status", "new_status", "copy", "prune dump", "prune rdb"}
HasDumped(r) ==
  pc[r] \in Past /\ run[r].mode \in {"all", "pg"} /\ ~run[r].dry =>
    \E f \in Whole : f.by = r /\ f.day = day

\* What run r asked for is on its way, until a save has ended.
IsAwaited(r) ==
  UnderWay(r) /\ run[r].asked # None =>
    /\ run[r].asked <= memory
    /\ saving # None => run[r].asked <= saving
    /\ At(r, "new_status") /\ saves # run[r].seen => run[r].asked <= rdb
    /\ run[r].changed => run[r].asked <= rdb

\* Versions only grow on their way from memory to the disk.
SavesGrow == rdb <= memory /\ (saving # None => rdb <= saving /\ saving <= memory)

IInv ==
  /\ TypeOK
  /\ \A r \in Runs : Fits(r) /\ HasDumped(r) /\ IsAwaited(r)
  /\ SavesGrow
  /\ SureSnapshotsAreFresh

LEMMA Initially == Init => IInv
<1> SUFFICES ASSUME Init PROVE IInv
  OBVIOUS
<1> USE DEF Init
<1>1. TypeOK
  <2>1. day \in 0..MaxDay /\ memory \in Versions /\ rdb \in Versions /\ saves \in Nat
    BY DEF Versions
  <2>2. pc \in [Runs -> Steps]
    BY DEF Steps
  <2>3. run \in [Runs -> Run \cup {None}]
    OBVIOUS
  <2>4. QED
    BY <2>1, <2>2, <2>3 DEF TypeOK
<1>2. \A r \in Runs : Fits(r) /\ HasDumped(r) /\ IsAwaited(r)
  BY DEF Fits, HasDumped, IsAwaited, UnderWay, Past
<1>3. SavesGrow /\ SureSnapshotsAreFresh
  BY DEF SavesGrow, SureSnapshotsAreFresh
<1>4. QED
  BY <1>1, <1>2, <1>3 DEF IInv

-----------------------------------------------------------------------------
(* A step of one run                                                       *)

\* What another run does changes neither where this one is nor what it knows.
LEMMA Others ==
  ASSUME TypeOK, NEW r \in Runs, Work(r) \/ Start(r), NEW o \in Runs, o # r
  PROVE  pc'[o] = pc[o] /\ run'[o] = run[o]
<1> USE DEF Goto, Note, Stop, TypeOK
<1>1. CASE Start(r)  BY <1>1 DEF Start
<1>2. CASE Fail(r)  BY <1>2 DEF Fail
<1>3. CASE Dump(r)  BY <1>3 DEF Dump, DumpBegin, DumpEnd, DumpFail
<1>4. CASE Bgsave(r) \/ Status(r)  BY <1>4 DEF Bgsave, Status
<1>5. CASE NewStatus(r) \/ CopySnapshot(r)  BY <1>5 DEF NewStatus, CopySnapshot
<1>6. CASE Prune(r)  BY <1>6 DEF Prune, PruneDumps, PruneSnapshots
<1>7. CASE Restore(r)  BY <1>7 DEF Restore, RestoreBegin, RestoreEnd
<1>8. QED
  BY <1>1, <1>2, <1>3, <1>4, <1>5, <1>6, <1>7 DEF Work, Snapshot

\* So a step of a run keeps the invariant if it does for the run itself, takes
\* no dump of the day away, and starts no save but of what is in memory.
LEMMA StepOfRun ==
  ASSUME IInv, NEW r \in Runs, Work(r) \/ Start(r), TypeOK',
         Fits(r)', HasDumped(r)', IsAwaited(r)',
         day' = day, memory' = memory, rdb' = rdb, saves' = saves,
         saving' = saving \/ (saving = None /\ saving' = memory),
         \A f \in Whole : f.day = day => f \in Whole',
         \A f \in files' : f \in files \/ (f.sure => f.fresh)
  PROVE  IInv'
<1>1. ASSUME NEW o \in Runs, o # r PROVE Fits(o)' /\ HasDumped(o)' /\ IsAwaited(o)'
  <2>1. pc'[o] = pc[o] /\ run'[o] = run[o]
    BY <1>1, Others DEF IInv
  <2>2. Fits(o) /\ HasDumped(o) /\ IsAwaited(o)
    BY DEF IInv
  <2>3. Fits(o)'
    BY <2>1, <2>2 DEF Fits, UnderWay
  <2>4. HasDumped(o)'
    BY <2>1, <2>2 DEF HasDumped, Past
  <2>5. IsAwaited(o)'
    BY <2>1, <2>2 DEF IsAwaited, UnderWay, At
  <2>6. QED
    BY <2>3, <2>4, <2>5
<1>2. SavesGrow'
  BY DEF IInv, SavesGrow, TypeOK, Versions
<1>3. SureSnapshotsAreFresh'
  BY DEF IInv, SureSnapshotsAreFresh
<1>4. QED
  BY <1>1, <1>2, <1>3 DEF IInv

-----------------------------------------------------------------------------
(* The steps of a run                                                      *)

LEMMA Noted ==
  ASSUME TypeOK, NEW r \in Runs, NEW step \in Steps, NEW now \in Run \cup {None}, Note(r, step, now)
  PROVE  /\ pc' \in [Runs -> Steps] /\ run' \in [Runs -> Run \cup {None}]
         /\ pc'[r] = step /\ run'[r] = now
BY DEF TypeOK, Note

LEMMA Went ==
  ASSUME TypeOK, NEW r \in Runs, NEW step \in Steps, Goto(r, step)
  PROVE  /\ pc' \in [Runs -> Steps] /\ run' \in [Runs -> Run \cup {None}]
         /\ pc'[r] = step /\ run'[r] = run[r]
BY DEF TypeOK, Goto

\* A run that stops leaves the invariant to the others.
LEMMA Stopped ==
  ASSUME IInv, NEW r \in Runs, Work(r), NEW status \in {"exit 0", "exit 1"}, Stop(r, status),
         UNCHANGED <<day, valkey>>, torn' \in BOOLEAN, files' \subseteq File,
         \A f \in Whole : f.day = day => f \in Whole',
         \A f \in files' : f \in files \/ (f.sure => f.fresh)
  PROVE  IInv'
<1>1. status \in Steps
  BY DEF Steps
<1>2. /\ pc' \in [Runs -> Steps] /\ run' \in [Runs -> Run \cup {None}]
      /\ pc'[r] = status /\ run'[r] = None
  BY <1>1, Noted DEF Stop, IInv
<1>3. TypeOK'
  BY <1>2 DEF IInv, TypeOK, valkey
<1>4. Fits(r)' /\ HasDumped(r)' /\ IsAwaited(r)'
  BY <1>2 DEF Fits, HasDumped, IsAwaited, UnderWay, Past
<1>5. QED
  BY <1>3, <1>4, StepOfRun DEF valkey

LEMMA FailSteps == ASSUME IInv, NEW r \in Runs, Fail(r) PROVE IInv'
BY Stopped DEF Fail, IInv, TypeOK, Whole, Work

LEMMA StartSteps == ASSUME IInv, NEW r \in Runs, Start(r) PROVE IInv'
<1>1. PICK mode \in Modes, dry \in BOOLEAN, cli \in BOOLEAN :
        Note(r, CASE mode \in {"all", "pg"} -> "dump" [] mode = "valkey" -> "save" [] OTHER -> "restore",
             [mode |-> mode, dry |-> dry, cli |-> cli, torn |-> FALSE, asked |-> None,
              seen |-> 0, attempts |-> 0, changed |-> FALSE])
  BY DEF Start
<1> DEFINE step == CASE mode \in {"all", "pg"} -> "dump" [] mode = "valkey" -> "save" [] OTHER -> "restore"
           now  == [mode |-> mode, dry |-> dry, cli |-> cli, torn |-> FALSE, asked |-> None,
                    seen |-> 0, attempts |-> 0, changed |-> FALSE]
<1>2. step \in Steps /\ step \in {"dump", "save", "restore"}
  BY DEF Steps, Modes
<1>3. /\ step = "dump" => mode \in {"all", "pg"}
      /\ step = "save" => mode = "valkey"
      /\ step = "restore" <=> mode = "restore"
  BY DEF Modes
<1>4. now \in Run
  BY DEF Run
<1>5. /\ pc' \in [Runs -> Steps] /\ run' \in [Runs -> Run \cup {None}]
      /\ pc'[r] = step /\ run'[r] = now
  <2> HIDE DEF step, now
  <2>1. Note(r, step, now)
    BY <1>1 DEF step, now
  <2>2. QED
    BY <1>2, <1>4, <2>1, Noted DEF IInv
<1>6. UNCHANGED <<day, torn, valkey, files>>
  BY DEF Start
<1>7. TypeOK'
  BY <1>5, <1>6 DEF IInv, TypeOK, valkey
<1>8. Fits(r)'
  <2>1. now.mode = mode /\ now.attempts = 0 /\ now.asked = None /\ now.changed = FALSE
    OBVIOUS
  <2>2. step \in {"dump", "dumping", "prune dump"} => mode \in {"all", "pg"}
    BY <1>2, <1>3
  <2>3. step \in {"restore", "restoring"} <=> mode = "restore"
    BY <1>2, <1>3
  <2>4. now.attempts < MaxAttempts
    OBVIOUS
  <2> HIDE DEF step, now
  <2>5. run'[r] \in Run /\ run'[r].mode = mode
    BY <1>4, <1>5, <2>1
  <2>6. pc'[r] \in {"restore", "restoring"} <=> run'[r].mode = "restore"
    BY <1>5, <2>3, <2>5
  <2>7. pc'[r] \in {"dump", "dumping", "prune dump"} => run'[r].mode \in {"all", "pg"}
    BY <1>5, <2>2, <2>5
  <2>8. run'[r].attempts < MaxAttempts /\ run'[r].asked = None /\ ~run'[r].changed
    BY <1>5, <2>1, <2>4
  <2>9. pc'[r] # "dumping"
    BY <1>2, <1>5
  <2>10. QED
    BY <2>5, <2>6, <2>7, <2>8, <2>9 DEF Fits
<1>9. HasDumped(r)'
  <2>1. now.mode = mode
    OBVIOUS
  <2> HIDE DEF step, now
  <2>2. QED
    BY <1>2, <1>3, <1>5, <2>1 DEF HasDumped, Past
<1>10. IsAwaited(r)'
  BY <1>5 DEF IsAwaited
<1>11. QED
  BY <1>6, <1>7, <1>8, <1>9, <1>10, StepOfRun DEF valkey, Whole

LEMMA DumpSteps == ASSUME IInv, NEW r \in Runs, Dump(r) PROVE IInv'
<1> USE DEF IInv
<1>1. CASE DumpBegin(r)
  <2>1. UnderWay(r) /\ At(r, "dump") /\ run[r] \in Run /\ run[r].mode \in {"all", "pg"} /\ run[r].attempts < MaxAttempts
           /\ run[r].asked = None /\ ~run[r].changed
    BY <1>1 DEF DumpBegin, At, UnderWay, Fits
  <2>2. UNCHANGED <<day, torn, valkey, files>>
    BY <1>1 DEF DumpBegin
  <2>3. CASE run[r].dry
    <3>1. PICK step \in {"save", "prune dump"} : Goto(r, step) /\ step = AfterDump(r)
      BY <1>1, <2>3 DEF DumpBegin, AfterDump
    <3>2. /\ pc' \in [Runs -> Steps] /\ run' \in [Runs -> Run \cup {None}]
          /\ pc'[r] = step /\ run'[r] = run[r]
      BY <3>1, Went DEF Steps
    <3>3. TypeOK'
      BY <2>2, <3>2 DEF TypeOK, valkey
    <3>4. Fits(r)' /\ HasDumped(r)' /\ IsAwaited(r)'
      BY <2>1, <2>3, <3>2 DEF Fits, HasDumped, IsAwaited
    <3>5. QED
      BY <2>2, <3>3, <3>4, StepOfRun DEF valkey, Whole, Work, Dump
  <2>4. CASE ~run[r].dry
    <3> DEFINE now == [run[r] EXCEPT !.torn = torn]
    <3>1. /\ now \in Run
          /\ now.mode = run[r].mode /\ now.attempts = run[r].attempts
          /\ now.asked = run[r].asked /\ now.changed = run[r].changed /\ now.dry = run[r].dry
      BY <2>1 DEF Run, TypeOK
    <3>2. Note(r, "dumping", now)
      BY <1>1, <2>4 DEF DumpBegin
    <3> HIDE DEF now
    <3>3. /\ pc' \in [Runs -> Steps] /\ run' \in [Runs -> Run \cup {None}]
          /\ pc'[r] = "dumping" /\ run'[r] = now
      BY <3>1, <3>2, Noted DEF Steps
    <3>4. TypeOK'
      BY <2>2, <3>3 DEF TypeOK, valkey
    <3>5. Fits(r)' /\ HasDumped(r)' /\ IsAwaited(r)'
      BY <2>1, <2>4, <3>1, <3>3 DEF Fits, HasDumped, IsAwaited, Past
    <3>6. QED
      BY <2>2, <3>4, <3>5, StepOfRun DEF valkey, Whole, Work, Dump
  <2>5. QED
    BY <2>3, <2>4
<1>2. CASE DumpEnd(r)
  <2>1. /\ UnderWay(r) /\ At(r, "dumping") /\ run[r] \in Run /\ run[r].mode \in {"all", "pg"}
        /\ run[r].attempts < MaxAttempts /\ run[r].asked = None /\ ~run[r].changed
    BY <1>2 DEF DumpEnd, At, UnderWay, Fits
  <2>2. PICK step \in {"save", "prune dump"} : Goto(r, step) /\ step = AfterDump(r)
    BY <1>2 DEF DumpEnd, AfterDump
  <2>3. /\ pc' \in [Runs -> Steps] /\ run' \in [Runs -> Run \cup {None}]
        /\ pc'[r] = step /\ run'[r] = run[r]
    BY <2>2, Went DEF Steps
  <2>4. UNCHANGED <<day, torn, valkey>> /\ files' = files \cup {NewDump(r, TRUE)}
    BY <1>2 DEF DumpEnd
  <2>5. /\ NewDump(r, TRUE) \in File /\ NewDump(r, TRUE) \in Whole'
        /\ NewDump(r, TRUE).by = r /\ NewDump(r, TRUE).day = day /\ ~NewDump(r, TRUE).sure
    BY <2>1, <2>4 DEF NewDump, File, Run, TypeOK, Whole
  <2>6. TypeOK'
    BY <2>3, <2>4, <2>5 DEF TypeOK, valkey
  <2>7. Fits(r)' /\ IsAwaited(r)'
    BY <2>1, <2>3 DEF Fits, IsAwaited
  <2>8. HasDumped(r)'
    BY <2>4, <2>5 DEF HasDumped
  <2>9. QED
    BY <2>4, <2>5, <2>6, <2>7, <2>8, StepOfRun DEF valkey, Whole, Work, Dump
<1>3. CASE DumpFail(r)
  <2>1. UnderWay(r) /\ run[r] \in Run
    BY <1>3 DEF DumpFail, At, UnderWay, Fits
  <2>2. NewDump(r, FALSE) \in File /\ ~NewDump(r, FALSE).sure
    BY <2>1 DEF NewDump, File, Run, TypeOK
  <2>3. files' \subseteq File
    BY <1>3, <2>2 DEF DumpFail, TypeOK
  <2>4. \A f \in Whole : f \in Whole'
    BY <1>3 DEF DumpFail, Whole
  <2>5. QED
    BY <1>3, <2>2, <2>3, <2>4, Stopped DEF DumpFail, Work, Dump, TypeOK
<1>4. QED
  BY <1>1, <1>2, <1>3 DEF Dump

LEMMA BgsaveSteps == ASSUME IInv, NEW r \in Runs, Bgsave(r) PROVE IInv'
<1> USE DEF IInv
<1>1. /\ UnderWay(r) /\ At(r, "save") /\ run[r] \in Run /\ run[r].mode # "restore"
      /\ run[r].attempts < MaxAttempts /\ run[r].asked = None /\ ~run[r].changed
  BY DEF Bgsave, At, UnderWay, Fits
<1>2. UNCHANGED <<day, torn, memory, rdb, saves, files>>
  BY DEF Bgsave
<1>3. CASE run[r].dry
  <2>1. Goto(r, "copy") /\ UNCHANGED saving
    BY <1>3 DEF Bgsave
  <2>2. /\ pc' \in [Runs -> Steps] /\ run' \in [Runs -> Run \cup {None}]
        /\ pc'[r] = "copy" /\ run'[r] = run[r]
    BY <2>1, Went DEF Steps
  <2>3. TypeOK'
    BY <1>2, <2>1, <2>2 DEF TypeOK
  <2>4. Fits(r)' /\ HasDumped(r)' /\ IsAwaited(r)'
    BY <1>1, <1>3, <2>2 DEF Fits, HasDumped, IsAwaited
  <2>5. QED
    BY <1>2, <2>1, <2>3, <2>4, StepOfRun DEF Whole, Work, Snapshot
<1>4. CASE ~run[r].dry
  <2> DEFINE asked == IF saving = None THEN memory ELSE None
             now == [run[r] EXCEPT !.asked = asked]
  <2>1. PICK step \in {"status", "copy"} : Note(r, step, now)
    BY <1>4 DEF Bgsave
  <2>2. saving' = IF saving = None THEN memory ELSE saving
    BY <1>4 DEF Bgsave
  <2>3. asked \in Versions \cup {None}
    BY DEF TypeOK
  <2>4. /\ now \in Run /\ now.asked = asked
        /\ now.mode = run[r].mode /\ now.attempts = run[r].attempts
        /\ now.dry = run[r].dry /\ now.changed = run[r].changed
    <3> HIDE DEF asked
    <3>1. QED
      BY <1>1, <2>3 DEF Run
  <2> HIDE DEF now
  <2>5. /\ pc' \in [Runs -> Steps] /\ run' \in [Runs -> Run \cup {None}]
        /\ pc'[r] = step /\ run'[r] = now
    <3>1. step \in Steps
      BY DEF Steps
    <3>2. QED
      BY <2>1, <2>4, <3>1, Noted
  <2>6. TypeOK'
    BY <1>2, <2>2, <2>5 DEF TypeOK
  <2>7. Fits(r)'
    BY <1>1, <2>4, <2>5 DEF Fits
  <2>8. HasDumped(r)'
    <3>1. HasDumped(r) /\ pc[r] \in Past
      BY <1>1 DEF At, Past
    <3>2. Whole' = Whole
      BY <1>2 DEF Whole
    <3>3. QED
      BY <1>2, <2>4, <2>5, <3>1, <3>2 DEF HasDumped
  <2>9. IsAwaited(r)'
    BY <1>1, <1>2, <2>2, <2>4, <2>5 DEF IsAwaited, At, TypeOK, Versions
  <2>10. QED
    BY <1>2, <2>2, <2>6, <2>7, <2>8, <2>9, StepOfRun DEF Whole, Work, Snapshot
<1>5. QED
  BY <1>3, <1>4

LEMMA StatusSteps == ASSUME IInv, NEW r \in Runs, Status(r) PROVE IInv'
<1> USE DEF IInv
<1> DEFINE now == [run[r] EXCEPT !.seen = saves]
<1>1. /\ UnderWay(r) /\ At(r, "status") /\ run[r] \in Run /\ run[r].mode # "restore"
      /\ run[r].attempts < MaxAttempts
  BY DEF Status, At, UnderWay, Fits
<1>2. UNCHANGED <<day, torn, valkey, files>> /\ Note(r, "new_status", now)
  BY DEF Status
<1>3. /\ now \in Run /\ now.asked = run[r].asked /\ now.seen = saves
      /\ now.mode = run[r].mode /\ now.attempts = run[r].attempts
      /\ now.dry = run[r].dry /\ now.changed = run[r].changed
  BY <1>1 DEF Run, TypeOK
<1> HIDE DEF now
<1>4. /\ pc' \in [Runs -> Steps] /\ run' \in [Runs -> Run \cup {None}]
      /\ pc'[r] = "new_status" /\ run'[r] = now
  BY <1>2, <1>3, Noted DEF Steps
<1>5. TypeOK'
  BY <1>2, <1>4 DEF TypeOK, valkey
<1>6. Fits(r)'
  BY <1>1, <1>3, <1>4 DEF Fits
<1>7. HasDumped(r)'
  <2>1. HasDumped(r) /\ pc[r] \in Past
    BY <1>1 DEF At, Past
  <2>2. Whole' = Whole
    BY <1>2 DEF Whole
  <2>3. QED
    BY <1>2, <1>3, <1>4, <2>1, <2>2 DEF HasDumped
<1>8. IsAwaited(r)'
  BY <1>1, <1>2, <1>3, <1>4 DEF IsAwaited, At, valkey
<1>9. QED
  BY <1>2, <1>5, <1>6, <1>7, <1>8, StepOfRun DEF valkey, Whole, Work, Snapshot

LEMMA NewStatusSteps == ASSUME IInv, NEW r \in Runs, NewStatus(r) PROVE IInv'
<1> USE DEF IInv
<1> DEFINE n   == run[r].attempts + 1
           now == Looked(r, n)
<1>1. /\ UnderWay(r) /\ At(r, "new_status") /\ run[r] \in Run /\ run[r].mode # "restore"
      /\ run[r].attempts < MaxAttempts
  BY DEF NewStatus, At, UnderWay, Fits
<1>2. /\ UNCHANGED <<day, torn, valkey, files>>
      /\ Note(r, IF saves # run[r].seen \/ n >= MaxAttempts THEN "copy" ELSE "status", now)
  BY DEF NewStatus
<1>3. run[r].attempts \in 0..MaxAttempts
  BY <1>1 DEF Run
<1>4. n \in 0..MaxAttempts
  BY <1>1, <1>3
<1>5. PICK step \in {"copy", "status"} : Note(r, step, now) /\ (step = "status" => n < MaxAttempts)
  BY <1>2, <1>4
<1>6. /\ now \in Run /\ now.asked = run[r].asked /\ now.changed = (saves # run[r].seen)
      /\ now.mode = run[r].mode /\ now.attempts = n /\ now.dry = run[r].dry
  <2> HIDE DEF n
  <2>1. QED
    BY <1>1, <1>4 DEF Run, Looked
<1> HIDE DEF n, now
<1>7. /\ pc' \in [Runs -> Steps] /\ run' \in [Runs -> Run \cup {None}]
      /\ pc'[r] = step /\ run'[r] = now
  <2>1. step \in Steps
    BY DEF Steps
  <2>2. QED
    BY <1>5, <1>6, <2>1, Noted
<1>8. TypeOK'
  BY <1>2, <1>7 DEF TypeOK, valkey
<1>9. Fits(r)'
  BY <1>1, <1>5, <1>6, <1>7 DEF Fits
<1>10. HasDumped(r)'
  <2>1. HasDumped(r) /\ pc[r] \in Past
    BY <1>1 DEF At, Past
  <2>2. Whole' = Whole
    BY <1>2 DEF Whole
  <2>3. QED
    BY <1>2, <1>6, <1>7, <2>1, <2>2 DEF HasDumped
<1>11. IsAwaited(r)'
  BY <1>1, <1>2, <1>5, <1>6, <1>7 DEF IsAwaited, At, valkey
<1>12. QED
  BY <1>2, <1>8, <1>9, <1>10, <1>11, StepOfRun DEF valkey, Whole, Work, Snapshot

LEMMA CopySteps == ASSUME IInv, NEW r \in Runs, CopySnapshot(r) PROVE IInv'
<1> USE DEF IInv
<1> DEFINE now == [run[r] EXCEPT !.asked = None, !.attempts = 0, !.changed = FALSE]
           new == [kind |-> "rdb", by |-> r, day |-> day, whole |-> FALSE, torn |-> FALSE,
                   sure |-> run[r].changed /\ run[r].asked # None,
                   fresh |-> run[r].asked # None => rdb >= run[r].asked]
<1>1. UnderWay(r) /\ At(r, "copy") /\ run[r] \in Run /\ run[r].mode # "restore"
  BY DEF CopySnapshot, At, UnderWay, Fits
<1>2. UNCHANGED <<day, torn, valkey>>
  BY DEF CopySnapshot
<1>3. PICK step \in {"prune dump", "prune rdb"} :
        Note(r, step, now) /\ (step = "prune dump" => run[r].mode = "all")
  BY DEF CopySnapshot
<1>4. /\ now \in Run /\ now.asked = None /\ ~now.changed
      /\ now.mode = run[r].mode /\ now.dry = run[r].dry /\ now.attempts < MaxAttempts
  <2>1. now \in Run
    <3>1. 0 \in 0..MaxAttempts
      BY AnAttempt
    <3>2. QED
      BY <1>1, <3>1 DEF Run
  <2>2. now.asked = None /\ ~now.changed /\ now.mode = run[r].mode /\ now.dry = run[r].dry
    BY <1>1 DEF Run
  <2>3. now.attempts = 0
    BY <1>1 DEF Run
  <2>4. 0 < MaxAttempts
    BY AnAttempt
  <2> HIDE DEF now
  <2>5. QED
    BY <2>1, <2>2, <2>3, <2>4
<1> HIDE DEF now
<1>5. /\ pc' \in [Runs -> Steps] /\ run' \in [Runs -> Run \cup {None}]
      /\ pc'[r] = step /\ run'[r] = now
  <2>1. step \in Steps
    BY DEF Steps
  <2>2. QED
    BY <1>3, <1>4, <2>1, Noted
<1>6. new \in File /\ new \notin Whole /\ new.kind = "rdb"
  BY DEF File, Whole, TypeOK
<1>7. new.sure => new.fresh
  <2>1. IsAwaited(r)
    OBVIOUS
  <2>2. run[r].changed /\ run[r].asked # None => run[r].asked <= rdb
    BY <1>1, <2>1 DEF IsAwaited
  <2>3. run[r].asked \in Versions \cup {None} /\ rdb \in Versions
    BY <1>1 DEF Run, TypeOK
  <2>4. QED
    BY <2>2, <2>3 DEF Versions
<1>8. files' = files \/ files' = files \cup {new}
  BY DEF CopySnapshot
<1> HIDE DEF new
<1>9. TypeOK'
  BY <1>2, <1>5, <1>6, <1>8 DEF TypeOK, valkey
<1>10. Fits(r)'
  BY <1>1, <1>3, <1>4, <1>5 DEF Fits
<1>11. HasDumped(r)'
  <2>1. HasDumped(r) /\ pc[r] \in Past
    BY <1>1 DEF At, Past
  <2>2. Whole' = Whole
    BY <1>6, <1>8 DEF Whole
  <2>3. QED
    BY <1>2, <1>4, <1>5, <2>1, <2>2 DEF HasDumped
<1>12. IsAwaited(r)'
  BY <1>4, <1>5 DEF IsAwaited
<1>13. QED
  BY <1>2, <1>7, <1>8, <1>9, <1>10, <1>11, <1>12, StepOfRun DEF valkey, Whole, Work, Snapshot

\* What is dumped today is not pruned today.
LEMMA Young ==
  ASSUME TypeOK, NEW r \in Runs, NEW kind, NEW f \in files, f.day = day
  PROVE  f \notin Pruned(r, kind)
BY DEF Pruned, TypeOK

LEMMA PruneSteps == ASSUME IInv, NEW r \in Runs, Prune(r) PROVE IInv'
<1> USE DEF IInv
<1>1. \A kind : \A f \in Whole : f.day = day => f \notin Pruned(r, kind)
  BY Young DEF Whole
<1>2. CASE PruneDumps(r) /\ run[r].mode = "all"
  <2>1. UnderWay(r) /\ At(r, "prune dump") /\ run[r] \in Run
    BY <1>2 DEF PruneDumps, At, UnderWay, Fits
  <2>2. UNCHANGED <<day, torn, valkey>> /\ files' = files \ Pruned(r, "dump") /\ Goto(r, "prune rdb")
    BY <1>2 DEF PruneDumps
  <2>3. /\ pc' \in [Runs -> Steps] /\ run' \in [Runs -> Run \cup {None}]
        /\ pc'[r] = "prune rdb" /\ run'[r] = run[r]
    BY <2>2, Went DEF Steps
  <2>4. TypeOK'
    BY <2>2, <2>3 DEF TypeOK, valkey
  <2>5. \A f \in Whole : f.day = day => f \in Whole'
    BY <1>1, <2>2 DEF Whole
  <2>6. Fits(r)'
    BY <1>2, <2>1, <2>3 DEF Fits, Modes
  <2>7. HasDumped(r)'
    <3>1. HasDumped(r) /\ pc[r] \in Past
      BY <2>1 DEF At, Past
    <3>2. QED
      BY <2>2, <2>3, <2>5, <3>1 DEF HasDumped
  <2>8. IsAwaited(r)'
    BY <2>1, <2>2, <2>3 DEF IsAwaited, At, valkey
  <2>9. QED
    BY <2>2, <2>4, <2>5, <2>6, <2>7, <2>8, StepOfRun DEF valkey, Work, Prune
<1>3. CASE PruneDumps(r) /\ run[r].mode # "all"
  BY <1>1, <1>3, Stopped DEF PruneDumps, Work, Prune, Whole, TypeOK
<1>4. CASE PruneSnapshots(r)
  BY <1>1, <1>4, Stopped DEF PruneSnapshots, Work, Prune, Whole, TypeOK
<1>5. QED
  BY <1>2, <1>3, <1>4 DEF Prune

LEMMA RestoreSteps == ASSUME IInv, NEW r \in Runs, Restore(r) PROVE IInv'
<1> USE DEF IInv
<1>1. CASE RestoreBegin(r)
  <2>1. PICK f \in files :
          /\ f.kind = "dump"
          /\ IF f.whole THEN Note(r, "restoring", [run[r] EXCEPT !.torn = f.torn]) ELSE Stop(r, "exit 1")
    BY <1>1 DEF RestoreBegin
  <2>2. UnderWay(r) /\ At(r, "restore") /\ run[r] \in Run /\ run[r].mode = "restore"
    BY <1>1 DEF RestoreBegin, At, UnderWay, Fits
  <2>3. UNCHANGED <<day, valkey, files>> /\ torn' = TRUE
    BY <1>1 DEF RestoreBegin
  <2>4. CASE f.whole
    <3> DEFINE now == [run[r] EXCEPT !.torn = f.torn]
    <3>1. f \in File
      BY DEF TypeOK
    <3>2. /\ now \in Run /\ now.mode = run[r].mode /\ now.asked = run[r].asked
          /\ now.changed = run[r].changed
      BY <2>2, <3>1 DEF Run, File
    <3>3. Note(r, "restoring", now)
      BY <2>1, <2>4
    <3> HIDE DEF now
    <3>4. /\ pc' \in [Runs -> Steps] /\ run' \in [Runs -> Run \cup {None}]
          /\ pc'[r] = "restoring" /\ run'[r] = now
      BY <3>2, <3>3, Noted DEF Steps
    <3>5. TypeOK'
      BY <2>3, <3>4 DEF TypeOK, valkey
    <3>6. Fits(r)' /\ HasDumped(r)'
      BY <2>2, <3>2, <3>4 DEF Fits, HasDumped, Past
    <3>7. IsAwaited(r)'
      BY <2>2, <2>3, <3>2, <3>4 DEF IsAwaited, At, valkey
    <3>8. QED
      BY <2>3, <3>5, <3>6, <3>7, StepOfRun DEF valkey, Work, Restore, Whole
  <2>5. CASE ~f.whole
    BY <2>1, <2>3, <2>5, Stopped DEF Work, Restore, Whole, TypeOK
  <2>6. QED
    BY <2>4, <2>5
<1>2. CASE RestoreEnd(r)
  <2>1. run[r] \in Run
    BY <1>2 DEF RestoreEnd, At, UnderWay, Fits
  <2>2. run[r].torn \in BOOLEAN
    BY <2>1 DEF Run
  <2>3. QED
    BY <1>2, <2>2, Stopped DEF RestoreEnd, Work, Restore, Whole, TypeOK
<1>3. QED
  BY <1>1, <1>2 DEF Restore

-----------------------------------------------------------------------------
(* Valkey and time                                                         *)

LEMMA TickSteps == ASSUME IInv, Tick PROVE IInv'
<1> USE DEF IInv, Tick
<1>1. TypeOK'
  BY DEF TypeOK, valkey
<1>2. ASSUME NEW r \in Runs PROVE Fits(r)' /\ HasDumped(r)' /\ IsAwaited(r)'
  <2>1. ~UnderWay(r)'
    BY DEF UnderWay
  <2>2. pc'[r] \notin Past
    BY <2>1 DEF UnderWay, Past
  <2>3. QED
    BY <2>1, <2>2 DEF Fits, HasDumped, IsAwaited
<1>3. SavesGrow' /\ SureSnapshotsAreFresh'
  BY DEF SavesGrow, SureSnapshotsAreFresh, valkey
<1>4. QED
  BY <1>1, <1>2, <1>3

LEMMA ValkeySteps == ASSUME IInv, Use \/ AutoSave \/ SaveEnds \/ SaveFails PROVE IInv'
<1>1. UNCHANGED <<day, torn, files, run, pc>>
  BY DEF Use, AutoSave, SaveEnds, SaveFails
<1>2. /\ memory' \in Versions /\ rdb' \in Versions /\ saving' \in Versions \cup {None} /\ saves' \in Nat
      /\ memory' >= memory /\ saves' >= saves
      /\ saves' # saves => saving # None /\ rdb' = saving /\ saving' = None
      /\ saves' = saves => rdb' = rdb
      /\ saving' # None => saving' = saving \/ saving' = memory
  BY DEF Use, AutoSave, SaveEnds, SaveFails, TypeOK, Versions, IInv
<1>3. TypeOK'
  BY <1>1, <1>2 DEF TypeOK, IInv
<1>4. SavesGrow'
  BY DEF IInv, SavesGrow, TypeOK, Versions, Use, AutoSave, SaveEnds, SaveFails
<1>5. ASSUME NEW r \in Runs PROVE Fits(r)' /\ HasDumped(r)' /\ IsAwaited(r)'
  <2>1. pc'[r] = pc[r] /\ run'[r] = run[r]
    BY <1>1
  <2>2. Fits(r)'
    BY <2>1 DEF IInv, Fits, UnderWay
  <2>3. HasDumped(r)'
    <3>1. Whole' = Whole
      BY <1>1 DEF Whole
    <3>2. HasDumped(r)
      BY DEF IInv
    <3>3. QED
      BY <1>1, <2>1, <3>1, <3>2 DEF HasDumped
  <2>4. ASSUME UnderWay(r), run[r].asked # None PROVE IsAwaited(r)'
    <3>1. run[r].asked \in Versions
      BY <2>4 DEF IInv, Fits, Run
    <3>2. /\ run[r].asked <= memory
          /\ saving # None => run[r].asked <= saving
          /\ At(r, "new_status") /\ saves # run[r].seen => run[r].asked <= rdb
          /\ run[r].changed => run[r].asked <= rdb
      BY <2>4 DEF IInv, IsAwaited
    <3>3. run[r].asked <= memory'
      BY <1>2, <3>1, <3>2 DEF IInv, TypeOK, Versions
    <3>4. saving' # None => run[r].asked <= saving'
      BY <1>2, <3>1, <3>2
    <3>5. saves' # saves => run[r].asked <= rdb'
      BY <1>2, <3>2
    <3>6. run[r].asked <= rdb => run[r].asked <= rdb'
      BY <1>2, <3>2
    <3>7. At(r, "new_status")' /\ saves' # run[r].seen => run[r].asked <= rdb'
      BY <2>1, <3>2, <3>5, <3>6 DEF At
    <3>8. run[r].changed => run[r].asked <= rdb'
      BY <3>2, <3>6
    <3>9. QED
      BY <2>1, <3>3, <3>4, <3>7, <3>8 DEF IsAwaited
  <2>5. ~UnderWay(r) \/ run[r].asked = None => IsAwaited(r)'
    BY <2>1 DEF IsAwaited, UnderWay
  <2>6. QED
    BY <2>2, <2>3, <2>4, <2>5
<1>6. SureSnapshotsAreFresh'
  BY <1>1 DEF IInv, SureSnapshotsAreFresh
<1>7. QED
  BY <1>3, <1>4, <1>5, <1>6 DEF IInv

LEMMA Inductive == IInv /\ [Next]_vars => IInv'
<1> SUFFICES ASSUME IInv, [Next]_vars PROVE IInv'
  OBVIOUS
<1>1. CASE Outside
  BY <1>1, TickSteps, ValkeySteps DEF Outside
<1>2. ASSUME NEW r \in Runs, Start(r) \/ Work(r) PROVE IInv'
  BY <1>2, StartSteps, FailSteps, DumpSteps, BgsaveSteps, StatusSteps, NewStatusSteps, CopySteps,
     PruneSteps, RestoreSteps DEF Work, Snapshot
<1>3. CASE UNCHANGED vars
  <2> USE <1>3 DEF vars, valkey
  <2>1. TypeOK' /\ SavesGrow' /\ SureSnapshotsAreFresh'
    BY DEF IInv, TypeOK, SavesGrow, SureSnapshotsAreFresh
  <2>2. ASSUME NEW r \in Runs PROVE Fits(r)' /\ HasDumped(r)' /\ IsAwaited(r)'
    <3>1. Fits(r) /\ HasDumped(r) /\ IsAwaited(r)
      BY DEF IInv
    <3>2. Whole' = Whole
      BY DEF Whole
    <3>3. QED
      BY <3>1, <3>2 DEF Fits, HasDumped, IsAwaited, UnderWay, At
  <2>3. QED
    BY <2>1, <2>2 DEF IInv
<1>4. QED
  BY <1>1, <1>2, <1>3 DEF Next

LEMMA Invariant == Spec => []IInv
BY Initially, Inductive, PTL DEF Spec

-----------------------------------------------------------------------------
(* Theorems                                                                *)

\* Every file, run and save has its type, whatever fails in a run.
THEOREM TypeCorrect == Spec => []TypeOK
<1>1. IInv => TypeOK
  BY DEF IInv
<1>2. QED
  BY <1>1, Invariant, PTL

\* A snapshot the script saw end is no older than its BGSAVE, for any number of
\* runs, saves of Valkey's own and attempts.
THEOREM SnapshotsAreFresh == Spec => []SureSnapshotsAreFresh
<1>1. IInv => SureSnapshotsAreFresh
  BY DEF IInv
<1>2. QED
  BY <1>1, Invariant, PTL

\* Pruning keeps a completed dump where there was one, for any retention.
THEOREM DumpsStay == Spec => LastDumpStays
<1>1. ASSUME IInv, [Next]_vars, Whole # {} PROVE Whole' # {}
  <2>1. ASSUME NEW r \in Runs, PruneDumps(r) PROVE Whole' # {}
    <3>1. files' = files \ Pruned(r, "dump") /\ At(r, "prune dump")
      BY <2>1 DEF PruneDumps
    <3>2. CASE run[r].dry
      BY <1>1, <3>1, <3>2 DEF Pruned, Whole
    <3>3. CASE ~run[r].dry
      <4>1. PICK f \in Whole : f.day = day
        BY <1>1, <3>1, <3>3 DEF IInv, Fits, HasDumped, At, UnderWay, Past
      <4>2. f \notin Pruned(r, "dump")
        BY <1>1, <4>1 DEF Pruned, IInv, TypeOK
      <4>3. QED
        BY <3>1, <4>1, <4>2 DEF Whole
    <3>4. QED
      BY <3>2, <3>3
  <2>2. ASSUME NEW r \in Runs, PruneSnapshots(r) PROVE Whole' # {}
    BY <1>1, <2>2 DEF PruneSnapshots, Pruned, Whole
  <2>3. CASE files \subseteq files'
    BY <1>1, <2>3 DEF Whole
  <2>4. files \subseteq files' \/ \E r \in Runs : Prune(r)
    BY <1>1 DEF Next, Outside, Tick, Use, AutoSave, SaveEnds, SaveFails, Start, Work, Dump, DumpBegin, DumpEnd,
                DumpFail, Snapshot, Bgsave, Status, NewStatus, CopySnapshot, Restore, RestoreBegin,
                RestoreEnd, Fail, vars
  <2>5. QED
    BY <2>1, <2>2, <2>3, <2>4 DEF Prune
<1>2. IInv /\ [Next]_vars => [Whole # {} => Whole' # {}]_vars
  BY <1>1
<1>3. QED
  BY <1>2, Invariant, PTL DEF Spec, LastDumpStays

\* Who is told that a dump of the database succeeded finds it whole, whatever
\* other runs prune meanwhile.
THEOREM SuccessLeavesADump == Spec => SuccessIsADump
<1> DEFINE Good(r) == pc'[r] = "exit 0" /\ UnderWay(r) /\ run[r].mode \in {"all", "pg"} /\ ~run[r].dry =>
                        \E f \in Whole' : f.by = r
<1>1. ASSUME IInv, [Next]_vars, NEW r \in Runs PROVE Good(r)
  <2> SUFFICES ASSUME pc'[r] = "exit 0", UnderWay(r), run[r].mode \in {"all", "pg"}, ~run[r].dry
               PROVE  \E f \in Whole' : f.by = r
    OBVIOUS
  <2>1. pc'[r] # pc[r]
    BY DEF UnderWay
  <2>2. Work(r) \/ Start(r)
    BY <1>1, <2>1, Others DEF Next, Outside, Tick, Use, AutoSave, SaveEnds, SaveFails, vars, IInv
  <2>3. ~Start(r)
    BY DEF Start, UnderWay, At
  <2>4. run[r] \in Run /\ run[r].mode # "restore" /\ pc \in [Runs -> Steps]
    BY <1>1 DEF IInv, Fits, TypeOK
  <2>5. ~Restore(r)
    BY <1>1, <2>4 DEF Restore, RestoreBegin, RestoreEnd, IInv, Fits, At
  <2>6. ~Dump(r) /\ ~Snapshot(r) /\ ~Fail(r)
    BY <2>4 DEF Dump, DumpBegin, DumpEnd, DumpFail, Snapshot, Bgsave, Status, NewStatus, CopySnapshot,
                Fail, Goto, Stop, Note, AfterDump
  <2>7. Prune(r)
    BY <2>2, <2>3, <2>5, <2>6 DEF Work
  <2>8. PICK f \in Whole : f.by = r /\ f.day = day
    BY <1>1, <2>7 DEF Prune, PruneDumps, PruneSnapshots, IInv, HasDumped, At, Past
  <2>9. \A kind : f \notin Pruned(r, kind)
    BY <1>1, <2>8, Young DEF IInv, Whole
  <2>10. f \in Whole'
    BY <2>7, <2>8, <2>9 DEF Prune, PruneDumps, PruneSnapshots, Whole
  <2>11. QED
    BY <2>8, <2>10
<1>2. IInv /\ [Next]_vars => [\A r \in Runs : Good(r)]_vars
  BY <1>1
<1>3. QED
  BY <1>2, Invariant, PTL DEF Spec, SuccessIsADump

\* A dry run of a backup, wherever it is, touches neither the files nor Valkey.
THEOREM DryRunsTouchNothing == Spec => DryRunKeepsBackups
<1> DEFINE Good(r) == UnderWay(r) /\ run[r].dry /\ pc'[r] # pc[r] => UNCHANGED <<files, saving>>
<1>1. ASSUME IInv, [Next]_vars, NEW r \in Runs PROVE Good(r)
  <2> SUFFICES ASSUME UnderWay(r), run[r].dry, pc'[r] # pc[r] PROVE UNCHANGED <<files, saving>>
    OBVIOUS
  <2>1. Work(r) \/ Start(r)
    BY <1>1, Others DEF Next, Outside, Tick, Use, AutoSave, SaveEnds, SaveFails, vars, IInv
  <2>2. ~At(r, "dumping")
    BY <1>1 DEF IInv, Fits, At
  <2>3. CASE Start(r) \/ Fail(r) \/ Restore(r)
    BY <2>3 DEF Start, Fail, Restore, RestoreBegin, RestoreEnd, valkey
  <2>4. CASE Dump(r)
    BY <2>2, <2>4 DEF Dump, DumpBegin, DumpEnd, DumpFail, valkey
  <2>5. CASE Snapshot(r)
    BY <2>5 DEF Snapshot, Bgsave, Status, NewStatus, CopySnapshot, valkey
  <2>6. CASE Prune(r)
    BY <2>6 DEF Prune, PruneDumps, PruneSnapshots, Pruned, valkey
  <2>7. QED
    BY <2>1, <2>3, <2>4, <2>5, <2>6 DEF Work
<1>2. IInv /\ [Next]_vars => [\A r \in Runs : Good(r)]_vars
  BY <1>1
<1>3. QED
  BY <1>2, Invariant, PTL DEF Spec, DryRunKeepsBackups

=============================================================================
