----------------------------- MODULE OutboxRelay -----------------------------
(***************************************************************************)
(* The transactional outbox of backend/src/app/adapters/outbox/relay.py:   *)
(* request handlers write events inside their own transactions, relays     *)
(* (the worker's cron job, the LISTEN/NOTIFY daemon and the command line's *)
(* sweep all run OutboxRelay.process_sweep) publish them to Valkey, and    *)
(* operators replay dead letters.                                          *)
(*                                                                         *)
(* An action is what runs between two suspension points that matter: one   *)
(* SQL statement or transaction, or one PUBLISH.  Row locks are those that *)
(* SELECT ... FOR UPDATE SKIP LOCKED takes; they end with the transaction. *)
(* A relay writes what its ORM session loaded at the start of the sweep    *)
(* (expire_on_commit=False), not what the table holds by then.             *)
(***************************************************************************)
EXTENDS Naturals, FiniteSets

CONSTANTS
  Events,         \* outbox events, numbered in the order of created_at
  Relays,         \* concurrent process_sweep loops
  Daemons,        \* those of listen_and_relay; the others are the worker's cron
  Flaky,          \* the events whose PUBLISH may fail (bounds the failures)
  Operators,      \* concurrent "outbox_cli.py replay" runs
  LetterIds,      \* identifiers of the dead letters of one event
  MaxRetries,     \* 3 in the code: get_pending_events and record_failure
  BatchSize,      \* limit of a sweep: 50 or 100 in the code
  DeliveryCap,    \* deliveries of one event are counted up to this number
  MaxCrashes,     \* bound on the sweeps that die half-way
  None            \* no relay, no dead letter

ASSUME OutboxAssumption ==
  /\ Events \subseteq Nat
  /\ LetterIds \subseteq Nat
  /\ MaxRetries \in Nat \ {0}
  /\ BatchSize \in Nat \ {0}
  /\ DeliveryCap \in Nat \ {0}
  /\ MaxCrashes \in Nat
  /\ None \notin Relays
  /\ Daemons \subseteq Relays
  /\ Flaky \subseteq Events

VARIABLES
  tx,         \* tx[e]: the transaction that inserts event e
  row,        \* row[e]: status and retry_count of the row, once visible
  letters,    \* rows of dead_letter_events
  holder,     \* holder[e]: the relay whose transaction locked the row of e
  pc,         \* pc[r]: where relay r is in process_sweep
  todo,       \* todo[r]: fetched events that r has not dealt with
  sent,       \* sent[r]: successful_ids of the sweep
  seen,       \* seen[r]: the rows of todo[r] as r's session loaded them
  opc,        \* opc[o]: where operator o is in its replay
  opTodo,     \* opTodo[o]: dead letters o has listed and not replayed
  opItem,     \* opItem[o]: the dead letter o is replaying
  opSeen,     \* opSeen[o]: the event's row as o loaded it
  delivered,  \* history: how often the channel received e (up to the cap)
  failures,   \* history: failed publishes of e since its last replay
  doubted,    \* history: events delivered without their relay recording it
  crashes     \* number of sweeps that died half-way

producerVars == <<tx>>
tableVars    == <<row, letters>>
relayVars    == <<holder, pc, todo, sent, seen>>
operatorVars == <<opc, opTodo, opItem, opSeen>>
historyVars  == <<delivered, failures, doubted>>
vars == <<producerVars, tableVars, relayVars, operatorVars, historyVars, crashes>>

\* OutboxStatus; PROCESSING is declared there and written nowhere.
Status == {"PENDING", "PROCESSED", "FAILED", "DEAD_LETTER"}
Row    == [status : Status, retries : 0..MaxRetries]
Letter == [id : LetterIds, event : Events]

\* The columns of a row when it is inserted, and again after a replay.
Fresh == [status |-> "PENDING", retries |-> 0]

TypeOK ==
  /\ tx \in [Events -> {"none", "open", "committed", "aborted"}]
  /\ row \in [Events -> Row]
  /\ letters \subseteq Letter
  /\ holder \in [Events -> Relays \cup {None}]
  /\ pc \in [Relays -> {"idle", "sweeping", "failing"}]
  /\ todo \in [Relays -> SUBSET Events]
  /\ sent \in [Relays -> SUBSET Events]
  /\ seen \in [Relays -> [Events -> Row]]
  /\ opc \in [Operators -> {"idle", "listed", "read", "loaded"}]
  /\ opTodo \in [Operators -> SUBSET Letter]
  /\ opItem \in [Operators -> SUBSET Letter]
  /\ opSeen \in [Operators -> Row]
  /\ delivered \in [Events -> 0..DeliveryCap]
  /\ failures \in [Events -> 0..MaxRetries]
  /\ doubted \subseteq Events
  /\ crashes \in 0..MaxCrashes

Init ==
  /\ tx = [e \in Events |-> "none"]
  /\ row = [e \in Events |-> Fresh]
  /\ letters = {}
  /\ holder = [e \in Events |-> None]
  /\ pc = [r \in Relays |-> "idle"]
  /\ todo = [r \in Relays |-> {}]
  /\ sent = [r \in Relays |-> {}]
  /\ seen = [r \in Relays |-> [e \in Events |-> Fresh]]
  /\ opc = [o \in Operators |-> "idle"]
  /\ opTodo = [o \in Operators |-> {}]
  /\ opItem = [o \in Operators |-> {}]
  /\ opSeen = [o \in Operators |-> Fresh]
  /\ delivered = [e \in Events |-> 0]
  /\ failures = [e \in Events |-> 0]
  /\ doubted = {}
  /\ crashes = 0

-----------------------------------------------------------------------------
(* Helpers                                                                 *)

UpTo(n, cap) == IF n < cap THEN n + 1 ELSE cap

\* Mutated forms.  A "Broken" operator is a definition with a plausible bug in
\* it; the mutation runs put it in the definition's place to see the property
\* fail.  Nothing else uses it.

\* get_pending_events without its status filter.
BrokenEligibleAnyStatus ==
  { e \in Events : tx[e] = "committed" /\ row[e].retries < MaxRetries /\ holder[e] = None }

\* get_pending_events as docs/ARCHITECTURE.md:133 has it: PENDING only.
BrokenEligiblePendingOnly ==
  { e \in Events : tx[e] = "committed" /\ row[e].status = "PENDING" /\ holder[e] = None }

\* A read that sees rows of transactions that have not committed.
BrokenEligibleDirtyRead ==
  { e \in Events : /\ tx[e] \in {"open", "committed"}
                   /\ row[e].status \in {"PENDING", "FAILED"}
                   /\ row[e].retries < MaxRetries
                   /\ holder[e] = None }

\* get_pending_events sees committed rows; SKIP LOCKED hides locked ones.
Eligible ==
  { e \in Events : /\ tx[e] = "committed"
                   /\ row[e].status \in {"PENDING", "FAILED"}
                   /\ row[e].retries < MaxRetries
                   /\ holder[e] = None }

\* ORDER BY created_at LIMIT batch_size.
Batch == { e \in Eligible : Cardinality({f \in Eligible : f < e}) < BatchSize }

\* The event a sweep deals with next: the oldest of those left.
IsNext(e, S) == e \in S /\ \A f \in S : e <= f

\* What an ORM session sends when it flushes an object it loaded as "old" and
\* changed to "new": only the columns that differ, over whatever is there now.
Flush(current, old, new) ==
  [ status  |-> IF new.status = old.status THEN current.status ELSE new.status,
    retries |-> IF new.retries = old.retries THEN current.retries ELSE new.retries ]

\* The end of relay r's transaction, by commit or by rollback.
Unlocked(r) == [e \in Events |-> IF holder[e] = r THEN None ELSE holder[e]]

\* An UPDATE of e by relay r waits for another relay's row lock.
MayWrite(r, e) == holder[e] \in {None, r}

\* Dead letters of e that the table or an operator's copy of it holds.
LettersOf(e) ==
  { d \in letters \cup UNION {opTodo[o] \cup opItem[o] : o \in Operators} : d.event = e }

\* What a new uuid comes to: ids only tell the dead letters of one event apart.
IsNewId(id, e) ==
  LET free == LetterIds \ { d.id : d \in LettersOf(e) }
  IN  id \in free /\ \A i \in free : id <= i

\* A sweep that ends without committing.
BrokenSweepOverNoCommit(r) ==
  /\ pc' = [pc EXCEPT ![r] = "idle"]
  /\ todo' = [todo EXCEPT ![r] = {}]
  /\ sent' = [sent EXCEPT ![r] = {}]
  /\ seen' = [seen EXCEPT ![r] = [e \in Events |-> Fresh]]
  /\ UNCHANGED holder

\* Where a relay stands between two sweeps; its session's objects are gone.
SweepOver(r) ==
  /\ pc' = [pc EXCEPT ![r] = "idle"]
  /\ todo' = [todo EXCEPT ![r] = {}]
  /\ sent' = [sent EXCEPT ![r] = {}]
  /\ seen' = [seen EXCEPT ![r] = [e \in Events |-> Fresh]]
  /\ holder' = Unlocked(r)

\* The sweep's transaction rolls back, the channel keeps what it received.
Rollback(r) ==
  /\ doubted' = doubted \cup sent[r]
  /\ SweepOver(r)
  /\ UNCHANGED <<producerVars, tableVars, operatorVars, delivered, failures>>

\* Relay r is at mark_batch_processed, with something to mark.
Marking(r) == pc[r] = "sweeping" /\ todo[r] = {} /\ sent[r] # {}

\* The UPDATE of q needs a row that the transaction of s has locked.
WaitsFor(q, s) == q # s /\ Marking(q) /\ \E e \in sent[q] : holder[e] = s

\* Relay r waits, directly or through others, for itself.
InCircle(r) ==
  \E n \in 1..Cardinality(Relays) : \E c \in [0..n -> Relays] :
    /\ c[0] = r
    /\ c[n] = r
    /\ \A i \in 0..(n - 1) : WaitsFor(c[i], c[i + 1])

-----------------------------------------------------------------------------
(* Producers: create_event flushes, the caller commits or rolls back.      *)

CreateEvent(e) ==
  /\ tx[e] = "none"
  /\ \A f \in Events : f < e => tx[f] # "none"
  /\ tx' = [tx EXCEPT ![e] = "open"]
  /\ UNCHANGED <<tableVars, relayVars, operatorVars, historyVars, crashes>>

EndTransaction(e, outcome) ==
  /\ tx[e] = "open"
  /\ tx' = [tx EXCEPT ![e] = outcome]
  /\ UNCHANGED <<tableVars, relayVars, operatorVars, historyVars, crashes>>

-----------------------------------------------------------------------------
(* Relays: OutboxRelay.process_sweep                                       *)

\* get_pending_events with something to do.
Fetch(r) ==
  /\ pc[r] = "idle"
  /\ Batch # {}
  /\ pc' = [pc EXCEPT ![r] = "sweeping"]
  /\ todo' = [todo EXCEPT ![r] = Batch]
  /\ seen' = [seen EXCEPT ![r] = [e \in Events |-> IF e \in Batch THEN row[e] ELSE Fresh]]
  /\ holder' = [e \in Events |-> IF e \in Batch THEN r ELSE holder[e]]
  /\ UNCHANGED <<sent, producerVars, tableVars, operatorVars, historyVars, crashes>>

\* The id of a published event is not remembered.
BrokenPublishOkForgets(r, e) ==
  /\ pc[r] = "sweeping"
  /\ IsNext(e, todo[r])
  /\ todo' = [todo EXCEPT ![r] = @ \ {e}]
  /\ delivered' = [delivered EXCEPT ![e] = UpTo(@, DeliveryCap)]
  /\ seen' = [seen EXCEPT ![r][e] = Fresh]
  /\ UNCHANGED <<sent, holder, pc, failures, doubted>>
  /\ UNCHANGED <<producerVars, tableVars, operatorVars, crashes>>

\* publish_event returns: the id joins successful_ids.
PublishOk(r, e) ==
  /\ pc[r] = "sweeping"
  /\ IsNext(e, todo[r])
  /\ todo' = [todo EXCEPT ![r] = @ \ {e}]
  /\ sent' = [sent EXCEPT ![r] = @ \cup {e}]
  /\ delivered' = [delivered EXCEPT ![e] = UpTo(@, DeliveryCap)]
  /\ seen' = [seen EXCEPT ![r][e] = Fresh]
  /\ UNCHANGED <<holder, pc, failures, doubted>>
  /\ UNCHANGED <<producerVars, tableVars, operatorVars, crashes>>

\* The id joins successful_ids before the publish is known to have worked.
BrokenPublishFailMarks(r, e, arrived) ==
  /\ pc[r] = "sweeping"
  /\ e \in Flaky
  /\ IsNext(e, todo[r])
  /\ pc' = [pc EXCEPT ![r] = "failing"]
  /\ sent' = [sent EXCEPT ![r] = @ \cup {e}]
  /\ failures' = [failures EXCEPT ![e] = UpTo(@, MaxRetries)]
  /\ delivered' = IF arrived THEN [delivered EXCEPT ![e] = UpTo(@, DeliveryCap)]
                             ELSE delivered
  /\ doubted' = IF arrived THEN doubted \cup {e} ELSE doubted
  /\ UNCHANGED <<holder, todo, seen, producerVars, tableVars, operatorVars, crashes>>

\* publish_event raises; the server may have executed the PUBLISH all the
\* same when only its answer is lost.
PublishFail(r, e, arrived) ==
  /\ pc[r] = "sweeping"
  /\ e \in Flaky
  /\ IsNext(e, todo[r])
  /\ pc' = [pc EXCEPT ![r] = "failing"]
  /\ failures' = [failures EXCEPT ![e] = UpTo(@, MaxRetries)]
  /\ delivered' = IF arrived THEN [delivered EXCEPT ![e] = UpTo(@, DeliveryCap)]
                             ELSE delivered
  /\ doubted' = IF arrived THEN doubted \cup {e} ELSE doubted
  /\ UNCHANGED <<holder, todo, sent, seen, producerVars, tableVars, operatorVars, crashes>>

\* record_failure that allows one retry more than get_pending_events selects.
BrokenRecordFailureLate(r, e) ==
  LET count == seen[r][e].retries + 1
      next  == IF count > MaxRetries THEN "DEAD_LETTER" ELSE "FAILED"
  IN  /\ pc[r] = "failing"
      /\ IsNext(e, todo[r])
      /\ MayWrite(r, e)
      /\ row' = [row EXCEPT ![e] = Flush(@, seen[r][e], [status |-> next, retries |-> count])]
      /\ IF next = "DEAD_LETTER"
         THEN \E id \in LetterIds : IsNewId(id, e) /\ letters' = letters \cup {[id |-> id, event |-> e]}
         ELSE letters' = letters
      /\ pc' = [pc EXCEPT ![r] = "sweeping"]
      /\ todo' = [todo EXCEPT ![r] = @ \ {e}]
      /\ holder' = Unlocked(r)
      /\ seen' = [seen EXCEPT ![r][e] = Fresh]
      /\ UNCHANGED <<sent, producerVars, operatorVars, historyVars, crashes>>

\* record_failure that quarantines one failure too early.
BrokenRecordFailureEarly(r, e) ==
  LET count == seen[r][e].retries + 1
      next  == IF count + 1 >= MaxRetries THEN "DEAD_LETTER" ELSE "FAILED"
  IN  /\ pc[r] = "failing"
      /\ IsNext(e, todo[r])
      /\ MayWrite(r, e)
      /\ row' = [row EXCEPT ![e] = Flush(@, seen[r][e], [status |-> next, retries |-> count])]
      /\ IF next = "DEAD_LETTER"
         THEN \E id \in LetterIds : IsNewId(id, e) /\ letters' = letters \cup {[id |-> id, event |-> e]}
         ELSE letters' = letters
      /\ pc' = [pc EXCEPT ![r] = "sweeping"]
      /\ todo' = [todo EXCEPT ![r] = @ \ {e}]
      /\ holder' = Unlocked(r)
      /\ seen' = [seen EXCEPT ![r][e] = Fresh]
      /\ UNCHANGED <<sent, producerVars, operatorVars, historyVars, crashes>>

\* record_failure: one more retry, or quarantine; its commit releases every
\* row lock of the sweep.
RecordFailure(r, e) ==
  LET count == seen[r][e].retries + 1
      next  == IF count >= MaxRetries THEN "DEAD_LETTER" ELSE "FAILED"
  IN  /\ pc[r] = "failing"
      /\ IsNext(e, todo[r])
      /\ MayWrite(r, e)
      /\ row' = [row EXCEPT ![e] = Flush(@, seen[r][e], [status |-> next, retries |-> count])]
      /\ IF next = "DEAD_LETTER"
         THEN \E id \in LetterIds : IsNewId(id, e) /\ letters' = letters \cup {[id |-> id, event |-> e]}
         ELSE letters' = letters
      /\ pc' = [pc EXCEPT ![r] = "sweeping"]
      /\ todo' = [todo EXCEPT ![r] = @ \ {e}]
      /\ holder' = Unlocked(r)
      /\ seen' = [seen EXCEPT ![r][e] = Fresh]
      /\ UNCHANGED <<sent, producerVars, operatorVars, historyVars, crashes>>

\* mark_batch_processed over successful_ids: its UPDATE locks row by row, in
\* the order of the plan, and waits with the locks it has.
LockRow(r, e) ==
  /\ Marking(r)
  /\ e \in sent[r]
  /\ holder[e] = None
  /\ holder' = [holder EXCEPT ![e] = r]
  /\ UNCHANGED <<pc, todo, sent, seen, producerVars, tableVars, operatorVars, historyVars, crashes>>

\* It has all of them and writes, whatever the rows say by then.
MarkBatch(r) ==
  /\ Marking(r)
  /\ \A e \in sent[r] : holder[e] = r
  /\ row' = [e \in Events |-> IF e \in sent[r] THEN [row[e] EXCEPT !.status = "PROCESSED"]
                                               ELSE row[e]]
  /\ SweepOver(r)
  /\ UNCHANGED <<letters, producerVars, operatorVars, historyVars, crashes>>

\* Every publish failed: there is nothing to mark.
EndSweep(r) ==
  /\ pc[r] = "sweeping"
  /\ todo[r] = {}
  /\ sent[r] = {}
  /\ SweepOver(r)
  /\ UNCHANGED <<producerVars, tableVars, operatorVars, historyVars, crashes>>

\* The process dies, the job times out, or a statement or commit of
\* record_failure or mark_batch_processed raises out of process_sweep.
CrashSweep(r) ==
  /\ pc[r] # "idle"
  /\ crashes < MaxCrashes
  /\ crashes' = crashes + 1
  /\ Rollback(r)

\* PostgreSQL finds a circle of waiting transactions and makes the UPDATE of one
\* of them fail; the error leaves process_sweep.
DeadlockVictim(r) ==
  /\ InCircle(r)
  /\ Rollback(r)
  /\ UNCHANGED crashes

-----------------------------------------------------------------------------
(* Operators: "outbox_cli.py replay" over replay_dead_letter               *)

\* get_dead_letters.
ListLetters(o) ==
  /\ opc[o] = "idle"
  /\ letters # {}
  /\ opc' = [opc EXCEPT ![o] = "listed"]
  /\ opTodo' = [opTodo EXCEPT ![o] = letters]
  /\ UNCHANGED <<opItem, opSeen, producerVars, tableVars, relayVars, historyVars, crashes>>

\* replay_dead_letter reads the dead letter, and returns None if it is gone.
ReadLetter(o, d) ==
  /\ opc[o] = "listed"
  /\ d \in opTodo[o]
  /\ opTodo' = [opTodo EXCEPT ![o] = @ \ {d}]
  /\ opItem' = [opItem EXCEPT ![o] = IF d \in letters THEN {d} ELSE {}]
  /\ opc' = [opc EXCEPT ![o] = IF d \in letters THEN "read" ELSE "listed"]
  /\ UNCHANGED <<opSeen, producerVars, tableVars, relayVars, historyVars, crashes>>

\* It reads the event; rows of outbox_events are never deleted.
LoadEvent(o, d) ==
  /\ opc[o] = "read"
  /\ d \in opItem[o]
  /\ opc' = [opc EXCEPT ![o] = "loaded"]
  /\ opSeen' = [opSeen EXCEPT ![o] = row[d.event]]
  /\ UNCHANGED <<opTodo, opItem, producerVars, tableVars, relayVars, historyVars, crashes>>

\* A replay that leaves the dead letter in the table.
BrokenCommitReplayKeeps(o, d) ==
  /\ opc[o] = "loaded"
  /\ d \in opItem[o]
  /\ holder[d.event] = None \/ opSeen[o] = Fresh
  /\ row' = [row EXCEPT ![d.event] = Flush(@, opSeen[o], Fresh)]
  /\ failures' = [failures EXCEPT ![d.event] = 0]
  /\ opc' = [opc EXCEPT ![o] = "listed"]
  /\ opItem' = [opItem EXCEPT ![o] = {}]
  /\ opSeen' = [opSeen EXCEPT ![o] = Fresh]
  /\ UNCHANGED <<letters, opTodo, producerVars, relayVars, delivered, doubted, crashes>>

\* It resets the event, deletes the dead letter (none, with a warning, if
\* another operator deleted it first) and commits.
CommitReplay(o, d) ==
  /\ opc[o] = "loaded"
  /\ d \in opItem[o]
  /\ holder[d.event] = None \/ opSeen[o] = Fresh
  /\ row' = [row EXCEPT ![d.event] = Flush(@, opSeen[o], Fresh)]
  /\ letters' = letters \ {d}
  /\ failures' = [failures EXCEPT ![d.event] = 0]
  /\ opc' = [opc EXCEPT ![o] = "listed"]
  /\ opItem' = [opItem EXCEPT ![o] = {}]
  /\ opSeen' = [opSeen EXCEPT ![o] = Fresh]
  /\ UNCHANGED <<opTodo, producerVars, relayVars, delivered, doubted, crashes>>

\* The loop is over, or the operator interrupts it (Ctrl+C, a lost connection).
EndReplay(o) ==
  /\ opc[o] # "idle"
  /\ opc' = [opc EXCEPT ![o] = "idle"]
  /\ opTodo' = [opTodo EXCEPT ![o] = {}]
  /\ opItem' = [opItem EXCEPT ![o] = {}]
  /\ opSeen' = [opSeen EXCEPT ![o] = Fresh]
  /\ UNCHANGED <<producerVars, tableVars, relayVars, historyVars, crashes>>

-----------------------------------------------------------------------------
Produce(e) == CreateEvent(e) \/ \E outcome \in {"committed", "aborted"} : EndTransaction(e, outcome)

\* What a live relay does to the event it is at.
Handle(r, e) ==
  \/ PublishOk(r, e)
  \/ \E arrived \in BOOLEAN : PublishFail(r, e, arrived)
  \/ RecordFailure(r, e)

SweepStep(r) ==
  \/ Fetch(r)
  \/ \E e \in Events : Handle(r, e) \/ LockRow(r, e)
  \/ MarkBatch(r)
  \/ DeadlockVictim(r)
  \/ EndSweep(r)

ReplayStep(o) ==
  \/ ListLetters(o)
  \/ \E d \in Letter : ReadLetter(o, d) \/ LoadEvent(o, d) \/ CommitReplay(o, d)
  \/ EndReplay(o)

Next ==
  \/ \E e \in Events : Produce(e)
  \/ \E r \in Relays : SweepStep(r) \/ CrashSweep(r)
  \/ \E o \in Operators : ReplayStep(o)

Spec == Init /\ [][Next]_vars

\* The worker's cron runs a sweep every minute.  A daemon need not: its loop ends
\* for good with the first error of a sweep other than TimeoutError.  A sweep that
\* was started goes on, whoever runs it; a circle of them is found by PostgreSQL
\* (deadlock_timeout).
Fairness == \A r \in Relays :
  /\ WF_vars(pc[r] # "idle" /\ SweepStep(r))
  /\ r \notin Daemons => WF_vars(SweepStep(r))

FairSpec == Spec /\ Fairness

-----------------------------------------------------------------------------
(* Properties                                                              *)

\* A row says PROCESSED only if the channel received the event at least
\* once, whichever relay marked it and however stale its copy was; and the
\* channel receives only events whose transaction committed.  This is the
\* guarantee of domain/events/models.py:4.
ProcessedWasDelivered ==
  \A e \in Events :
    /\ row[e].status = "PROCESSED" => delivered[e] > 0
    /\ delivered[e] > 0 => tx[e] = "committed"

\* A lock belongs to a sweep that is under way and has that event in hand:
\* no commit, failure path or crash leaves a row locked, hence skipped by
\* every later sweep.
LocksBelongToSweeps ==
  \A e \in Events, r \in Relays :
    holder[e] = r => pc[r] # "idle" /\ e \in todo[r] \cup sent[r]

\* Lost updates may lower retry_count but nothing raises it beyond the
\* failures that happened, so an event is quarantined only after MaxRetries
\* failed publishes (get_pending_events and record_failure agree on 3).
QuarantinedAfterRetries ==
  \A e \in Events :
    /\ row[e].retries <= failures[e]
    /\ row[e].status = "DEAD_LETTER" => failures[e] = MaxRetries

\* A row that waits for delivery is one get_pending_events can select: PENDING
\* or FAILED with the retries used up would be picked up by no sweep any more.
\* The records of any number of relays keep it so while no operator replays, and
\* those of one relay beside the replays of one operator.  Of several relays and
\* a replay it is not true: a stale copy can put FAILED over a row whose retries
\* another relay has used up.
NeverStranded ==
  \A e \in Events :
    row[e].status \in {"PENDING", "FAILED"} => row[e].retries < MaxRetries

\* With one relay and one operator the dead letter table and the status
\* column agree, and an event has at most one dead letter.
LettersMatchStatus ==
  /\ { d.event : d \in letters } = { e \in Events : row[e].status = "DEAD_LETTER" }
  /\ \A c, d \in letters : c.event = d.event => c = d

\* With one relay, only a publish that nobody recorded (a sweep that died, an
\* answer that got lost) is ever repeated: retries and replays alone do not
\* duplicate an event that was delivered.
DuplicatesAreDoubted ==
  \A e \in Events : delivered[e] > 1 => e \in doubted

\* With one relay and one operator PROCESSED is the end of an event's life:
\* no later failure record or replay takes it back.
ProcessedIsFinal ==
  [][\A e \in Events : row[e].status = "PROCESSED" => row'[e].status = "PROCESSED"]_vars

\* "Preserves FOR UPDATE SKIP LOCKED across the entire sweep and avoids lock
\* release race" (relay.py:198): no event is in the hands of two sweeps.
OneSweepPerEvent ==
  \A r, s \in Relays :
    r # s => (todo[r] \cup sent[r]) \cap (todo[s] \cup sent[s]) = {}

\* A sweep that was started ends.  Two of them that have lost their locks to a
\* failure lock the rows of the same events again, and may wait for each other
\* in a circle: nothing in relay.py prevents it, PostgreSQL ends one of them.
SweepsTerminate ==
  \A r \in Relays : pc[r] # "idle" ~> pc[r] = "idle"

\* The outbox keeps the promise of OutboxDelivery.
Delivery ==
  INSTANCE OutboxDelivery WITH
    accepted    <- { e \in Events : tx[e] = "committed" },
    arrived     <- { e \in Events : delivered[e] > 0 },
    closed      <- { e \in Events : row[e].status = "PROCESSED" },
    quarantined <- { d.event : d \in letters }

\* Every step of relays, producers and operators is a step of the abstract
\* outbox or changes nothing it speaks of: the detailed protocol implements
\* the promise of domain/events/models.py:4.
ImplementsDelivery == Delivery!DeliverySpec

\* A committed event is delivered or quarantined as long as the cron runs, also
\* when the daemon has ended for good, be it in the middle of a sweep.
EventuallyDealtWith == Delivery!EventuallyDealtWith
=============================================================================
