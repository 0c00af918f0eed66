----------------------------- MODULE Idempotency -----------------------------
(***************************************************************************)
(* IdempotencyMiddleware (backend/src/app/core/idempotency.py): requests   *)
(* that carry the same Idempotency-Key, method, path and token race for    *)
(* one record in Valkey.  A request that creates the record runs the       *)
(* handler; the others get 409 while the record says IN_PROGRESS and the   *)
(* stored response once it says COMPLETED.                                 *)
(*                                                                         *)
(* Every Valkey call is a step of its own and may raise, executed or not;  *)
(* the record may expire between any two steps; the worker may die.        *)
(* A client's retry is one more member of Requests.                        *)
(***************************************************************************)
CONSTANTS
  Requests,   \* requests with an Idempotency-Key header
  Keys,       \* cache keys
  keyOf,      \* keyOf[q]: the cache key that __call__ computes for q
  Nobody      \* writer of no record

ASSUME IdempotencyAssumption ==
  /\ keyOf \in [Requests -> Keys]
  /\ Nobody \notin Requests

VARIABLES
  record,     \* record[k]: what Valkey holds under k, and who wrote it
  pc,         \* pc[q]: where q is in __call__
  reply,      \* reply[q]: what the client of q was sent
  origin,     \* origin[q]: whose response a replayed reply is
  effective,  \* history: requests whose handler committed its changes
  faulted,    \* history: keys with a fault outside the middleware's control
  gaps        \* history: keys whose record vanished between SET NX and GET

vars == <<record, pc, reply, origin, effective, faulted, gaps>>

\* The absent record, an in-flight lock, a stored response.
Absent        == [state |-> "absent", by |-> Nobody]
InProgress(q) == [state |-> "in_progress", by |-> q]
Completed(q)  == [state |-> "completed", by |-> q]

\* "executing": the handler runs; "committed": its changes are durable and the
\* response is not out yet; "saving": the response is out and not yet stored.
InFlight(q) == pc[q] \in {"executing", "committed", "saving"}

TypeOK ==
  /\ record \in [Keys -> {Absent} \cup [state : {"in_progress", "completed"}, by : Requests]]
  /\ pc \in [Requests -> {"new", "refused", "executing", "committed", "saving", "done"}]
  /\ reply \in [Requests -> {"none", "ok", "error", "conflict", "replayed"}]
  /\ origin \in [Requests -> Requests \cup {Nobody}]
  /\ effective \subseteq Requests
  /\ faulted \subseteq Keys
  /\ gaps \subseteq Keys

Init ==
  /\ record = [k \in Keys |-> Absent]
  /\ pc = [q \in Requests |-> "new"]
  /\ reply = [q \in Requests |-> "none"]
  /\ origin = [q \in Requests |-> Nobody]
  /\ effective = {}
  /\ faulted = {}
  /\ gaps = {}

Goto(q, place) == pc' = [pc EXCEPT ![q] = place]
Put(q, value)  == record' = [record EXCEPT ![keyOf[q]] = value]
Answer(q, what) == reply' = [reply EXCEPT ![q] = what]
Fault(q)       == faulted' = faulted \cup {keyOf[q]}

-----------------------------------------------------------------------------
(* The lock: SET key IN_PROGRESS NX EX 60, then GET                        *)

\* Mutated forms (operators named "Broken") hold a plausible bug each, for the
\* mutation runs; nothing else uses them.

\* A SET without NX.
BrokenAcquireOverwrites(q) ==
  /\ pc[q] = "new"
  /\ Put(q, InProgress(q))
  /\ Goto(q, "executing")
  /\ UNCHANGED <<reply, origin, effective, faulted, gaps>>

\* SET NX creates the record.
Acquire(q) ==
  /\ pc[q] = "new"
  /\ record[keyOf[q]] = Absent
  /\ Put(q, InProgress(q))
  /\ Goto(q, "executing")
  /\ UNCHANGED <<reply, origin, effective, faulted, gaps>>

\* SET NX finds a record.
Refuse(q) ==
  /\ pc[q] = "new"
  /\ record[keyOf[q]] # Absent
  /\ Goto(q, "refused")
  /\ UNCHANGED <<record, reply, origin, effective, faulted, gaps>>

\* SET NX raises, executed or not: the request runs without protection.
AcquireError(q, executed) ==
  /\ pc[q] = "new"
  /\ IF executed /\ record[keyOf[q]] = Absent THEN Put(q, InProgress(q)) ELSE UNCHANGED record
  /\ Goto(q, "executing")
  /\ Fault(q)
  /\ UNCHANGED <<reply, origin, effective, gaps>>

\* GET answers IN_PROGRESS: 409.
Conflict(q) ==
  /\ pc[q] = "refused"
  /\ record[keyOf[q]].state = "in_progress"
  /\ Answer(q, "conflict")
  /\ Goto(q, "done")
  /\ UNCHANGED <<record, origin, effective, faulted, gaps>>

\* GET answers COMPLETED: the stored response.
Replay(q) ==
  /\ pc[q] = "refused"
  /\ record[keyOf[q]].state = "completed"
  /\ Answer(q, "replayed")
  /\ origin' = [origin EXCEPT ![q] = record[keyOf[q]].by]
  /\ Goto(q, "done")
  /\ UNCHANGED <<record, effective, faulted, gaps>>

\* GET answers nothing, the record expired or was deleted meanwhile: the
\* request falls through to the handler without a lock.
FallThrough(q) ==
  /\ pc[q] = "refused"
  /\ record[keyOf[q]] = Absent
  /\ Goto(q, "executing")
  /\ gaps' = gaps \cup {keyOf[q]}
  /\ UNCHANGED <<record, reply, origin, effective, faulted>>

\* GET, or sending what it answered, raises: the request runs unprotected.
ReadError(q) ==
  /\ pc[q] = "refused"
  /\ Goto(q, "executing")
  /\ Fault(q)
  /\ UNCHANGED <<record, reply, origin, effective, gaps>>

-----------------------------------------------------------------------------
(* The handler                                                             *)

\* The handler's transaction commits.
Commit(q) ==
  /\ pc[q] = "executing"
  /\ effective' = effective \cup {q}
  /\ Goto(q, "committed")
  /\ UNCHANGED <<record, reply, origin, faulted, gaps>>

\* The record is not completed when the handler succeeds.
BrokenSucceedNoSave(q) ==
  /\ pc[q] \in {"executing", "committed"}
  /\ Answer(q, "ok")
  /\ Goto(q, "done")
  /\ UNCHANGED <<record, origin, effective, faulted, gaps>>

\* The response has a status from 200 to 399 and is sent as it comes.
Succeed(q) ==
  /\ pc[q] \in {"executing", "committed"}
  /\ Answer(q, "ok")
  /\ Goto(q, "saving")
  /\ UNCHANGED <<record, origin, effective, faulted, gaps>>

\* The status filter before the SET is missing: errors are stored as well.
BrokenRejectStores(q) ==
  /\ pc[q] \in {"executing", "committed"}
  /\ Answer(q, "error")
  /\ Goto(q, "saving")
  /\ UNCHANGED <<record, origin, effective, faulted, gaps>>

\* Any other status, the inner rate limiter's 429 included: nothing is stored
\* and the lock stays until it expires.
Reject(q) ==
  /\ pc[q] \in {"executing", "committed"}
  /\ Answer(q, "error")
  /\ Goto(q, "done")
  /\ IF q \in effective THEN Fault(q) ELSE UNCHANGED faulted
  /\ UNCHANGED <<record, origin, effective, gaps>>

\* An exception passes the middleware, before the response or, from a task
\* that runs after it, behind the response: the record is deleted, whoever
\* wrote it; a failing DELETE is ignored.
Raise(q, deleted) ==
  /\ InFlight(q)
  /\ IF deleted THEN Put(q, Absent) ELSE UNCHANGED record
  /\ IF pc[q] = "saving" THEN UNCHANGED reply ELSE Answer(q, "error")
  /\ Goto(q, "done")
  /\ IF q \in effective \/ ~deleted THEN Fault(q) ELSE UNCHANGED faulted
  /\ UNCHANGED <<origin, effective, gaps>>

\* SET key COMPLETED EX 86400, over whatever is there.
Save(q) ==
  /\ pc[q] = "saving"
  /\ Put(q, Completed(q))
  /\ Goto(q, "done")
  /\ UNCHANGED <<reply, origin, effective, faulted, gaps>>

\* The SET raises, executed or not.
SaveError(q, executed) ==
  /\ pc[q] = "saving"
  /\ IF executed THEN Put(q, Completed(q)) ELSE UNCHANGED record
  /\ Goto(q, "done")
  /\ Fault(q)
  /\ UNCHANGED <<reply, origin, effective, gaps>>

\* The worker dies or the task is cancelled (CancelledError is no Exception):
\* nothing is cleaned up.
Crash(q) ==
  /\ pc[q] \in {"refused", "executing", "committed", "saving"}
  /\ Goto(q, "done")
  /\ IF q \in effective THEN Fault(q) ELSE UNCHANGED faulted
  /\ UNCHANGED <<record, reply, origin, effective, gaps>>

-----------------------------------------------------------------------------
\* A TTL runs out.  That is a fault if the record protected something: a
\* request that still runs, or a stored response.
Expire(k) ==
  /\ record[k] # Absent
  /\ record' = [record EXCEPT ![k] = Absent]
  /\ faulted' = IF record[k].state = "completed" \/ InFlight(record[k].by)
                THEN faulted \cup {k} ELSE faulted
  /\ UNCHANGED <<pc, reply, origin, effective, gaps>>

Lock(q) ==
  \/ Acquire(q) \/ Refuse(q)
  \/ \E executed \in BOOLEAN : AcquireError(q, executed)
  \/ Conflict(q) \/ Replay(q) \/ FallThrough(q) \/ ReadError(q)

Handler(q) ==
  \/ Commit(q) \/ Succeed(q) \/ Reject(q)
  \/ \E deleted \in BOOLEAN : Raise(q, deleted)
  \/ Save(q)
  \/ \E executed \in BOOLEAN : SaveError(q, executed)

Next ==
  \/ \E q \in Requests : Lock(q) \/ Handler(q) \/ Crash(q)
  \/ \E k \in Keys : Expire(k)

Spec == Init /\ [][Next]_vars

-----------------------------------------------------------------------------
(* Properties                                                              *)

\* At most one effect per key, the middleware's purpose (idempotency.py:4),
\* as long as Valkey answers, no lock or response expires while it is needed,
\* no handler fails after its commit, and no record vanishes between SET NX
\* and GET.
AtMostOneEffect ==
  \A p, q \in effective :
    keyOf[p] = keyOf[q] /\ keyOf[p] \notin faulted \cup gaps => p = q

\* A replayed response was sent before, as a success, to a request with the
\* same key: errors, 429s and responses of requests that raised are never
\* replayed, nor does one key answer with another's response.
ReplaysAreGenuine ==
  \A q \in Requests :
    reply[q] = "replayed" =>
      /\ origin[q] \in Requests
      /\ reply[origin[q]] = "ok"
      /\ keyOf[origin[q]] = keyOf[q]

\* In the absence of faults the client whose request took effect can find out:
\* while the record lives it blocks or answers every retry.
EffectIsRemembered ==
  \A q \in effective :
    keyOf[q] \notin faulted \cup gaps =>
      record[keyOf[q]] \in {InProgress(q), Completed(q)}

\* "Atomically attempt to acquire in-flight lock using SET NX.  Eliminates
\* check-then-set race window" (idempotency.py:63): without any fault, two
\* requests with one key never both take effect.
NoRaceWindow ==
  \A p, q \in effective : keyOf[p] = keyOf[q] /\ keyOf[p] \notin faulted => p = q
=============================================================================
