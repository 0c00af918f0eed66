------------------------------ MODULE Telemetry ------------------------------
(***************************************************************************)
(* Telemetry ingestion: the endpoint of the API (telemetry_controller.py,  *)
(* telemetry_repository.py) and the Go service that bypasses it            *)
(* (telemetry-ingest/main.go) fill one table, telemetry_readings, and one  *)
(* cache of the latest reading per transformer, and serve any number of    *)
(* requests at once.                                                       *)
(*                                                                         *)
(* The table is written by one COPY or INSERT, which commits or not while  *)
(* its answer may be lost either way.  The cache is written by one SET per *)
(* transformer, executed in any order, also after the request was          *)
(* answered: gather does not cancel the others when one fails, and a       *)
(* pipeline that timed out may still be on its way.                        *)
(***************************************************************************)
EXTENDS Integers, FiniteSets, Functions

CONSTANTS
  Requests,
  Batches,     \* bodies: readings [tid, at, ok], numbered from 1
  Limit,       \* batch_size of an export
  Chunk,       \* batch_size of stream_dataset_batches
  None

Readings     == UNION {Range(b) : b \in Batches}
Transformers == {x.tid : x \in Readings}

Size(b)      == Cardinality(DOMAIN b)

ASSUME TelemetryAssumption ==
  /\ \A b \in Batches : IsFiniteSet(DOMAIN b) /\ DOMAIN b = 1..Size(b)
  /\ \A x \in Readings : x.at \in Nat /\ x.ok \in BOOLEAN
  /\ None \notin {x.at : x \in Readings} \cup Requests
  /\ Limit \in Nat /\ Chunk \in Nat \ {0}

VARIABLES
  req,       \* req[r]: service, body and token of request r, None before
  pc,        \* pc[r]: "copy", "insert", "cache", or the status of the answer
  todo,      \* todo[r]: transformers whose SET is on its way
  rows,      \* telemetry_readings, committed
  cache,     \* cache[t]: timestamp in transformer:state:<t>
  server,    \* the Go service: "up", "draining", "down", "aborted"
  exported,  \* records_processed of the last export
  lost,      \* history: lost[r]: a SET of r failed
  stale,     \* history: stale[t]: see Disturb
  last       \* history: last[t]: the request that came last of those naming t

vars == <<req, pc, todo, rows, cache, server, exported, lost, stale, last>>

\* What the services answer with; "cut" is no answer.
Statuses == {"202", "401", "422", "500", "cut"}

TypeOK ==
  /\ req \in [Requests ->
              [svc : {"python", "go"}, body : Batches, token : BOOLEAN] \cup {None}]
  /\ pc \in [Requests -> Statuses \cup {"new", "copy", "insert", "cache"}]
  /\ todo \in [Requests -> SUBSET Transformers]
  /\ \A x \in rows : x.req \in Requests /\ x.tid \in Transformers /\ x.again \in BOOLEAN
  /\ cache \in [Transformers -> {x.at : x \in Readings} \cup {None}]
  /\ server \in {"up", "draining", "down", "aborted"}
  /\ exported \in 0..Limit
  /\ lost \in [Requests -> BOOLEAN] /\ stale \in [Transformers -> BOOLEAN]
  /\ last \in [Transformers -> Requests \cup {None}]

Init ==
  /\ req = [r \in Requests |-> None] /\ pc = [r \in Requests |-> "new"]
  /\ todo = [r \in Requests |-> {}]
  /\ rows = {} /\ cache = [t \in Transformers |-> None]
  /\ server = "up" /\ exported = 0
  /\ lost = [r \in Requests |-> FALSE] /\ stale = [t \in Transformers |-> FALSE]
  /\ last = [t \in Transformers |-> None]

-----------------------------------------------------------------------------
(* One body                                                                *)

Named(b) == {x.tid : x \in Range(b)}

\* Mutated forms (operators named "Broken") hold a plausible bug each, for the
\* mutation runs; nothing else uses them.

\* The last reading of a transformer in the body wins.
BrokenLatest(b, t) ==
  b[CHOOSE i \in DOMAIN b : b[i].tid = t /\ \A j \in DOMAIN b : b[j].tid = t => j <= i].at

\* The loop over a body that keeps the newest reading per transformer.
Latest(b, t) ==
  LET kept[i \in 0..Size(b)] ==
        IF i = 0 THEN None
        ELSE IF b[i].tid = t /\ (kept[i - 1] = None \/ b[i].at > kept[i - 1]) THEN b[i].at
        ELSE kept[i - 1]
  IN  kept[Size(b)]

\* The rows made of a body: an identifier per reading, drawn once.
Rows(r, again) ==
  {[req |-> r, index |-> i, again |-> again, tid |-> req[r].body[i].tid, at |-> req[r].body[i].at] :
     i \in DOMAIN req[r].body}

Busy(r)   == pc[r] \in {"copy", "insert", "cache"}
Answer(r, status) == pc' = [pc EXCEPT ![r] = status]

\* What makes the order of the SETs of a transformer, or what they leave, a
\* matter of chance: requests that overlap, writes that fail, expiry.
Disturb(T) == stale' = [t \in Transformers |-> stale[t] \/ t \in T]
UnderWay(t) == {r \in Requests : (Busy(r) \/ todo[r] # {}) /\ t \in Named(req[r].body)}
Overlapped(b) == {t \in Named(b) : UnderWay(t) # {}}

-----------------------------------------------------------------------------
(* A request                                                               *)

\* The guards and the validation: the API checks types only.
Refused(svc, body, token) ==
  IF ~token THEN "401"
  ELSE IF svc = "go" /\ \E x \in Range(body) : ~x.ok THEN "422"
  ELSE "none"

Arrive(r) ==
  /\ pc[r] = "new"
  /\ \E svc \in {"python", "go"}, body \in Batches, token \in BOOLEAN :
       LET status == Refused(svc, body, token) IN
       /\ svc = "go" => server = "up"
       /\ req' = [req EXCEPT ![r] = [svc |-> svc, body |-> body, token |-> token]]
       /\ Answer(r, IF status # "none" THEN status ELSE IF Size(body) = 0 THEN "202" ELSE "copy")
       /\ Disturb(IF status # "none" THEN {} ELSE Overlapped(body))
       /\ last' = [t \in Transformers |-> IF status = "none" /\ t \in Named(body) THEN r ELSE last[t]]
  /\ UNCHANGED <<todo, rows, cache, server, exported, lost>>

Stored(r, again) ==
  /\ rows' = rows \cup Rows(r, again)
  /\ Answer(r, "cache")
  /\ todo' = [todo EXCEPT ![r] = Named(req[r].body)]
  /\ UNCHANGED stale

\* A statement or its commit fails, executed or not.
Fails(r, next) ==
  /\ Answer(r, next)
  /\ rows' \in {rows, rows \cup Rows(r, FALSE)}
  /\ Disturb(IF next = "500" THEN Named(req[r].body) ELSE {})
  /\ UNCHANGED todo

\* COPY.  On some errors the API falls back to INSERT.
Copy(r) ==
  /\ pc[r] = "copy"
  /\ \/ Stored(r, FALSE)
     \/ Fails(r, "500")
     \/ req[r].svc = "python" /\ Fails(r, "insert")
  /\ UNCHANGED <<req, cache, server, exported, lost, last>>

\* The fallback draws new identifiers, which conflict with nothing.
BrokenInsert(r) ==
  /\ pc[r] = "insert"
  /\ Stored(r, TRUE) \/ Fails(r, "500")
  /\ UNCHANGED <<req, cache, server, exported, lost, last>>

\* INSERT of the same rows, ON CONFLICT DO NOTHING.
Insert(r) ==
  /\ pc[r] = "insert"
  /\ Stored(r, FALSE) \/ Fails(r, "500")
  /\ UNCHANGED <<req, cache, server, exported, lost, last>>

\* The cache is written while the rows are.
BrokenSet(r, t) ==
  /\ t \in todo[r] \/ (pc[r] = "copy" /\ t \in Named(req[r].body))
  /\ todo' = [todo EXCEPT ![r] = @ \ {t}]
  /\ cache' = [cache EXCEPT ![t] = Latest(req[r].body, t)]
  /\ UNCHANGED <<req, pc, rows, server, exported, lost, stale, last>>

\* SET transformer:state:<t>.
Set(r, t) ==
  /\ t \in todo[r]
  /\ todo' = [todo EXCEPT ![r] = @ \ {t}]
  /\ cache' = [cache EXCEPT ![t] = Latest(req[r].body, t)]
  /\ UNCHANGED <<req, pc, rows, server, exported, lost, stale, last>>

LoseSet(r, t) ==
  /\ t \in todo[r]
  /\ todo' = [todo EXCEPT ![r] = @ \ {t}]
  /\ lost' = [lost EXCEPT ![r] = TRUE]
  /\ Disturb({t})
  /\ UNCHANGED <<req, pc, rows, cache, server, exported, last>>

\* The API waits for every SET or the first that fails, the Go service for half
\* a second at most; it answers 202 in any case.
Respond(r) ==
  /\ pc[r] = "cache"
  /\ req[r].svc = "python" => lost[r] \/ todo[r] = {}
  /\ Answer(r, IF req[r].svc = "python" /\ lost[r] THEN "500" ELSE "202")
  /\ UNCHANGED <<req, todo, rows, cache, server, exported, lost, stale, last>>

-----------------------------------------------------------------------------
(* Everything else                                                         *)

\* 24 hours without a reading.
Expire(t) ==
  /\ cache[t] # None
  /\ cache' = [cache EXCEPT ![t] = None]
  /\ Disturb({t})
  /\ UNCHANGED <<req, pc, todo, rows, server, exported, lost, last>>

Served == {r \in Requests : Busy(r) /\ req[r].svc = "go"}

\* SIGTERM: no request is accepted any more.
Terminate ==
  /\ server = "up" /\ server' = "draining"
  /\ UNCHANGED <<req, pc, todo, rows, cache, exported, lost, stale, last>>

\* Shutdown waits for the requests under way.
Exit ==
  /\ server = "draining" /\ Served = {} /\ server' = "down"
  /\ UNCHANGED <<req, pc, todo, rows, cache, exported, lost, stale, last>>

\* Five seconds are over: the process ends in the middle of the others.
Abort ==
  /\ server = "draining" /\ Served # {} /\ server' = "aborted"
  /\ pc' = [r \in Requests |-> IF r \in Served THEN "cut" ELSE pc[r]]
  /\ \E S \in SUBSET {r \in Served : pc[r] = "copy"} : rows' = rows \cup UNION {Rows(r, FALSE) : r \in S}
  /\ Disturb(UNION {Named(req[r].body) : r \in {q \in Served : pc[q] # "cache"}})
  /\ UNCHANGED <<req, todo, cache, exported, lost, last>>

\* stream_dataset_batches over n items and its consumer, which adds up the lengths:
\* what was counted, and how long the batch is that was not yet yielded.
Streamed(n) ==
  LET loop[i \in 0..n] ==
        IF i = 0 THEN [total |-> 0, batch |-> 0]
        ELSE LET batch == loop[i - 1].batch + 1 IN
             IF batch >= Chunk THEN [total |-> loop[i - 1].total + batch, batch |-> 0]
             ELSE [total |-> loop[i - 1].total, batch |-> batch]
  IN  loop[n]

\* The last chunk is dropped when it is not full.
BrokenStreamBatches(n) == Streamed(n).total

\* The last chunk is yielded when it is not empty.
StreamBatches(n) ==
  LET end == Streamed(n) IN IF end.batch > 0 THEN end.total + end.batch ELSE end.total

\* SELECT ... LIMIT.
Selected == IF Cardinality(rows) < Limit THEN Cardinality(rows) ELSE Limit

\* process_batch_export; which rows are selected does not matter to the count.
Export ==
  /\ exported' = StreamBatches(Selected)
  /\ UNCHANGED <<req, pc, todo, rows, cache, server, lost, stale, last>>

Write(r) == \E t \in Transformers : Set(r, t) \/ LoseSet(r, t)
Serve(r) == Copy(r) \/ Insert(r) \/ Respond(r)
Next ==
  \/ \E r \in Requests : Arrive(r) \/ Serve(r) \/ Write(r)
  \/ \E t \in Transformers : Expire(t)
  \/ Terminate \/ Exit \/ Abort \/ Export

Spec == Init /\ [][Next]_vars

-----------------------------------------------------------------------------
(* What must hold                                                          *)

\* The cache never shows a reading that is not committed, whatever fails.
CachedIsStored ==
  \A t \in Transformers : cache[t] # None => \E x \in rows : x.tid = t /\ x.at = cache[t]

\* Of every body all readings are stored, each once, or none, though COPY may
\* have committed what the fallback inserts; a refused request leaves no trace,
\* not even of the valid part of its body, an acknowledged one is stored.
AllOrNothing ==
  \A r \in Requests :
    LET mine == {x \in rows : x.req = r} IN
    /\ mine = {} \/ /\ {x.index : x \in mine} = DOMAIN req[r].body
                    /\ Cardinality(mine) = Size(req[r].body)
    /\ pc[r] \in {"401", "422"} => mine = {} /\ todo[r] = {}
    /\ pc[r] = "202" => mine # {} \/ Size(req[r].body) = 0

Newest(S, t) == {x \in S : x.tid = t /\ \A y \in S : y.tid = t => y.at <= x.at}

\* Unless something disturbed it, the cache shows the newest reading of the
\* request that was the last to name the transformer: neither the order inside
\* the body nor that of the SETs matters.  Requests that follow one another are
\* shown in the order in which they come, not in that of their readings: one
\* that comes later with an older reading overwrites the newer.  The comment in
\* ingest says that this never happens, but only readings of one body are
\* compared.
CacheFollowsRequests ==
  \A t \in Transformers :
    ~stale[t] /\ UnderWay(t) = {} /\ last[t] # None =>
      \E x \in Newest(Range(req[last[t]].body), t) : cache[t] = x.at

\* An export counts every row it selects once, whatever the chunks.
ExportCountsRows ==
  [][exported' # exported =>
       exported' = IF Cardinality(rows) < Limit THEN Cardinality(rows) ELSE Limit]_vars
=============================================================================
