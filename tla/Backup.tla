-------------------------------- MODULE Backup --------------------------------
(***************************************************************************)
(* scripts/backup.sh: dumps of the database, snapshots of Valkey, pruning  *)
(* and restoring, run by hand or by a timer, several at once, while the    *)
(* application writes and Valkey saves on its own.                         *)
(*                                                                         *)
(* What Valkey holds, in memory, in dump.rdb and in a save under way, is a *)
(* version.  set -euo pipefail ends a run at the first command that fails, *)
(* unless the script says otherwise.                                       *)
(***************************************************************************)
EXTENDS Integers

CONSTANTS
  Runs,          \* runs of the script, each at most once
  Retention,     \* BACKUP_RETENTION_DAYS
  MaxAttempts,   \* seconds to wait for a save (30 in the script)
  MaxDay,        \* bound on the clock
  MaxVersion,    \* bound on the writes to Valkey
  None

ASSUME BackupAssumption ==
  /\ Retention \in Nat \ {0} /\ MaxAttempts \in Nat \ {0} /\ MaxDay \in Nat /\ MaxVersion \in Nat
  /\ None \notin Nat

VARIABLES
  day,
  torn,     \* the database is half restored
  memory,   \* what Valkey holds
  rdb,      \* dump.rdb
  saving,   \* the version being saved, None if none is
  saves,    \* successful saves so far: LASTSAVE tells them apart
  files,    \* in BACKUP_DIR
  run,      \* run[r]: None unless run r is under way
  pc        \* pc[r]: next step, or how r ended

valkey == <<memory, rdb, saving, saves>>
vars   == <<day, torn, valkey, files, run, pc>>

Versions == 0..MaxVersion
Modes    == {"all", "pg", "valkey", "restore"}
\* "sure": the script saw LASTSAVE change after its BGSAVE was accepted; "fresh":
\* the contents are no older than that BGSAVE.
File == [kind: {"dump", "rdb"}, by: Runs, day: 0..MaxDay, whole: BOOLEAN,
         torn: BOOLEAN, sure: BOOLEAN, fresh: BOOLEAN]
\* "torn": what is dumped or restored; "asked": what Valkey held at BGSAVE, None
\* if that was refused; "seen": the last LASTSAVE.
Run  == [mode: Modes, dry: BOOLEAN, cli: BOOLEAN, torn: BOOLEAN, asked: Versions \cup {None},
         seen: Nat, attempts: 0..MaxAttempts, changed: BOOLEAN]
Steps == {"idle", "dump", "dumping", "save", "status", "new_status", "copy", "prune dump",
          "prune rdb", "restore", "restoring", "exit 0", "exit 1"}

TypeOK ==
  /\ day \in 0..MaxDay /\ torn \in BOOLEAN /\ memory \in Versions /\ rdb \in Versions
  /\ saving \in Versions \cup {None} /\ saves \in Nat
  /\ files \subseteq File
  /\ run \in [Runs -> Run \cup {None}] /\ pc \in [Runs -> Steps]

Init ==
  /\ day = 0 /\ torn = FALSE /\ memory = 0 /\ rdb = 0 /\ saving = None /\ saves = 0
  /\ files = {}
  /\ run = [r \in Runs |-> None] /\ pc = [r \in Runs |-> "idle"]

-----------------------------------------------------------------------------
(* Valkey and time                                                         *)

At(r, step) == pc[r] = step
UnderWay(r) == pc[r] \notin {"idle", "exit 0", "exit 1"}

\* Runs are short against a day.
Tick ==
  /\ day < MaxDay /\ day' = day + 1
  /\ \A r \in Runs : ~UnderWay(r)
  /\ UNCHANGED <<torn, valkey, files, run, pc>>

Use == memory < MaxVersion /\ memory' = memory + 1 /\ UNCHANGED <<day, torn, rdb, saving, saves, files, run, pc>>

\* A save point of Valkey's own; saves are capped by the versions.
AutoSave ==
  /\ saving = None /\ rdb # memory /\ saving' = memory
  /\ UNCHANGED <<day, torn, memory, rdb, saves, files, run, pc>>

SaveEnds ==
  /\ saving # None /\ saving' = None
  /\ rdb' = saving /\ saves' = saves + 1
  /\ UNCHANGED <<day, torn, memory, files, run, pc>>

SaveFails ==
  /\ saving # None /\ saving' = None
  /\ UNCHANGED <<day, torn, memory, rdb, saves, files, run, pc>>

-----------------------------------------------------------------------------
(* A run                                                                   *)

Goto(r, step) == pc' = [pc EXCEPT ![r] = step] /\ UNCHANGED run
Note(r, step, now) == pc' = [pc EXCEPT ![r] = step] /\ run' = [run EXCEPT ![r] = now]
Stop(r, status) == Note(r, status, None)

\* The dispatch on MODE; one restore at a time.
Start(r) ==
  /\ At(r, "idle")
  /\ \E mode \in Modes, dry, cli \in BOOLEAN :
       /\ mode \in {"pg", "restore"} \/ dry => cli   \* it does not matter then
       /\ mode = "restore" => \A o \in Runs : ~At(o, "restore") /\ ~At(o, "restoring")
       /\ Note(r, CASE mode \in {"all", "pg"} -> "dump" [] mode = "valkey" -> "save" [] OTHER -> "restore",
               [mode |-> mode, dry |-> dry, cli |-> cli, torn |-> FALSE, asked |-> None,
                seen |-> 0, attempts |-> 0, changed |-> FALSE])
  /\ UNCHANGED <<day, torn, valkey, files>>

\* A command fails: no connection, no container, no such file, no space.
Fail(r) ==
  /\ UnderWay(r) /\ ~At(r, "dumping")
  /\ Stop(r, "exit 1")
  /\ UNCHANGED <<day, torn, valkey, files>>

AfterDump(r) == IF run[r].mode = "all" THEN "save" ELSE "prune dump"

NewDump(r, whole) == [kind |-> "dump", by |-> r, day |-> day, whole |-> whole,
                      torn |-> run[r].torn, sure |-> FALSE, fresh |-> TRUE]

\* pg_dump dumps one snapshot, taken at its start.
DumpBegin(r) ==
  /\ At(r, "dump")
  /\ IF run[r].dry THEN Goto(r, AfterDump(r)) ELSE Note(r, "dumping", [run[r] EXCEPT !.torn = torn])
  /\ UNCHANGED <<day, torn, valkey, files>>

DumpEnd(r) ==
  /\ At(r, "dumping") /\ Goto(r, AfterDump(r))
  /\ files' = files \cup {NewDump(r, TRUE)}
  /\ UNCHANGED <<day, torn, valkey>>

\* Mutated forms (operators named "Broken") hold a plausible bug each, for the
\* mutation runs; nothing else uses them.

\* The script goes on after an error, as without set -e.
BrokenDumpFail(r) ==
  /\ At(r, "dumping") /\ Goto(r, AfterDump(r))
  /\ files' \in {files, files \cup {NewDump(r, FALSE)}}
  /\ UNCHANGED <<day, torn, valkey>>

\* pg_dump, or the copy out of the container, stops on the way: part of the
\* file may be there.
DumpFail(r) ==
  /\ At(r, "dumping") /\ Stop(r, "exit 1")
  /\ files' \in {files, files \cup {NewDump(r, FALSE)}}
  /\ UNCHANGED <<day, torn, valkey>>

\* BGSAVE, refused while a save is under way; valkey-cli does not fail then.
\* Without the command line tool the script sleeps instead of asking LASTSAVE.
Bgsave(r) ==
  /\ At(r, "save")
  /\ IF run[r].dry THEN Goto(r, "copy") /\ UNCHANGED saving
     ELSE /\ saving' = IF saving = None THEN memory ELSE saving
          /\ Note(r, IF run[r].cli THEN "status" ELSE "copy",
                  [run[r] EXCEPT !.asked = IF saving = None THEN memory ELSE None])
  /\ UNCHANGED <<day, torn, memory, rdb, saves, files>>

Status(r) ==
  /\ At(r, "status") /\ Note(r, "new_status", [run[r] EXCEPT !.seen = saves])
  /\ UNCHANGED <<day, torn, valkey, files>>

Looked(r, attempts) ==
  [run[r] EXCEPT !.attempts = attempts, !.changed = saves # run[r].seen, !.seen = 0]

\* The answers are compared the wrong way round.
BrokenNewStatus(r) ==
  /\ At(r, "new_status") /\ Note(r, "copy", [run[r] EXCEPT !.changed = TRUE])
  /\ UNCHANGED <<day, torn, valkey, files>>

\* The attempts are never counted.
BrokenNewStatusForEver(r) ==
  /\ At(r, "new_status")
  /\ Note(r, IF saves # run[r].seen THEN "copy" ELSE "status", Looked(r, 0))
  /\ UNCHANGED <<day, torn, valkey, files>>

\* LASTSAVE again, a second later: changed, tried often enough, or once more.
NewStatus(r) ==
  /\ At(r, "new_status")
  /\ LET n == run[r].attempts + 1 IN
     Note(r, IF saves # run[r].seen \/ n >= MaxAttempts THEN "copy" ELSE "status", Looked(r, n))
  /\ UNCHANGED <<day, torn, valkey, files>>

\* dump.rdb is copied; a failure is a warning, and nobody looks whether the copy
\* is whole.
CopySnapshot(r) ==
  /\ At(r, "copy")
  /\ Note(r, IF run[r].mode = "all" THEN "prune dump" ELSE "prune rdb",
          [run[r] EXCEPT !.asked = None, !.attempts = 0, !.changed = FALSE])
  /\ \/ files' = files
     \/ /\ ~run[r].dry
        /\ files' = files \cup {[kind |-> "rdb", by |-> r, day |-> day, whole |-> FALSE, torn |-> FALSE,
                                 sure |-> run[r].changed /\ run[r].asked # None,
                                 fresh |-> run[r].asked # None => rdb >= run[r].asked]}
  /\ UNCHANGED <<day, torn, valkey>>

\* find -mtime -n.
BrokenPrunedYoung(r, kind) == IF run[r].dry THEN {} ELSE {f \in files : f.kind = kind /\ day - f.day < Retention}

\* find -mtime +n: more than n whole days old.
Pruned(r, kind) == IF run[r].dry THEN {} ELSE {f \in files : f.kind = kind /\ day - f.day > Retention}

PruneDumps(r) ==
  /\ At(r, "prune dump")
  /\ files' = files \ Pruned(r, "dump")
  /\ IF run[r].mode = "all" THEN Goto(r, "prune rdb") ELSE Stop(r, "exit 0")
  /\ UNCHANGED <<day, torn, valkey>>

PruneSnapshots(r) ==
  /\ At(r, "prune rdb") /\ Stop(r, "exit 0")
  /\ files' = files \ Pruned(r, "rdb")
  /\ UNCHANGED <<day, torn, valkey>>

\* pg_restore --clean drops and creates object by object, in no transaction; it
\* does so with DRY_RUN set, too.
RestoreBegin(r) ==
  /\ At(r, "restore") /\ torn' = TRUE
  /\ \E f \in files :
       /\ f.kind = "dump"
       /\ IF f.whole THEN Note(r, "restoring", [run[r] EXCEPT !.torn = f.torn]) ELSE Stop(r, "exit 1")
  /\ UNCHANGED <<day, valkey, files>>

RestoreEnd(r) ==
  /\ At(r, "restoring") /\ Stop(r, "exit 0")
  /\ torn' = run[r].torn
  /\ UNCHANGED <<day, valkey, files>>

Dump(r)     == DumpBegin(r) \/ DumpEnd(r) \/ DumpFail(r)
Snapshot(r) == Bgsave(r) \/ Status(r) \/ NewStatus(r) \/ CopySnapshot(r)
Prune(r)    == PruneDumps(r) \/ PruneSnapshots(r)
Restore(r)  == RestoreBegin(r) \/ RestoreEnd(r)
Work(r)     == Dump(r) \/ Snapshot(r) \/ Prune(r) \/ Restore(r) \/ Fail(r)
Outside     == Tick \/ Use \/ AutoSave \/ SaveEnds \/ SaveFails
Next        == Outside \/ \E r \in Runs : Start(r) \/ Work(r)

\* Commands end, well or not.
Fairness == \A r \in Runs : WF_vars(Work(r))

Spec == Init /\ [][Next]_vars /\ Fairness

-----------------------------------------------------------------------------
(* What must hold                                                          *)

Whole == {f \in files : f.kind = "dump" /\ f.whole}

\* Pruning never takes the last dump that a run completed, whatever failed before
\* it and however many runs prune at once.  (What was dumped in the middle of a
\* restore counts as well: the script does not tell.)
LastDumpStays == [][Whole # {} => Whole' # {}]_vars

\* A run that was to dump the database and exits with 0 leaves a completed dump.
SuccessIsADump ==
  [][\A r \in Runs :
       pc'[r] = "exit 0" /\ UnderWay(r) /\ run[r].mode \in {"all", "pg"} /\ ~run[r].dry =>
         \E f \in Whole' : f.by = r]_vars

\* Where Valkey accepted the BGSAVE and the loop saw LASTSAVE change, the copy
\* is no older than the BGSAVE, whatever saves fail or end in between.
SureSnapshotsAreFresh == \A f \in files : f.sure => f.fresh

\* A dry run of a backup takes nothing away and adds nothing.
DryRunKeepsBackups ==
  [][\A r \in Runs : UnderWay(r) /\ run[r].dry /\ pc'[r] # pc[r] => UNCHANGED <<files, saving>>]_vars

\* Every run ends, also when the save it waits for fails or ended before it
\* looked at LASTSAVE for the first time.
RunsEnd == \A r \in Runs : UnderWay(r) ~> ~UnderWay(r)
=============================================================================
