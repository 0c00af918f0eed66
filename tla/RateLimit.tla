------------------------------ MODULE RateLimit ------------------------------
(***************************************************************************)
(* SlidingWindowRateLimitMiddleware (backend/src/app/core/rate_limit.py)   *)
(* for the requests of one category and client address, which share the    *)
(* counters rl:<category>:<ip>:<window>.  A request reads the clock, then  *)
(* awaits the Lua script; by the time Valkey runs the script the clock may *)
(* be in the next slot or window.                                          *)
(*                                                                         *)
(* Time goes in slots (seconds in the code), Window slots to a window.     *)
(***************************************************************************)
EXTENDS Integers, FiniteSets

CONSTANTS
  Requests,   \* requests in flight at the same time
  Limit,      \* 5, 120 or 500, by category
  Window,     \* window_size, 60 in the code
  MaxDelay,   \* bound on the slots between reading the clock and the script
  MaxTime     \* bound on the clock

ASSUME RateAssumption ==
  /\ Limit \in Nat \ {0}
  /\ Window \in Nat \ {0}
  /\ MaxTime \in Nat
  /\ MaxDelay \in Nat

VARIABLES
  now,        \* the clock
  count,      \* count[w]: value of the key of window w
  expiry,     \* expiry[w]: when that key expires
  pc,         \* pc[q]: whether q awaits the script
  at,         \* at[q]: the "now" of q's __call__, 0 when idle
  admitted,   \* history: admitted[t] requests with now = t got through
  late        \* history: the most windows by which a script ran after its request's

vars == <<now, count, expiry, pc, at, admitted, late>>

Slots   == 0..MaxTime
Windows == 0..(MaxTime \div Window)

TypeOK ==
  /\ now \in Slots
  /\ count \in [Windows -> 0..Limit]
  /\ expiry \in [Windows -> 0..(MaxTime + 2 * Window)]
  /\ pc \in [Requests -> {"idle", "asking"}]
  /\ at \in [Requests -> Slots]
  /\ admitted \in [Slots -> Nat]
  /\ late \in Windows

Init ==
  /\ now = 0
  /\ count = [w \in Windows |-> 0]
  /\ expiry = [w \in Windows |-> 0]
  /\ pc = [q \in Requests |-> "idle"]
  /\ at = [q \in Requests |-> 0]
  /\ admitted = [t \in Slots |-> 0]
  /\ late = 0

-----------------------------------------------------------------------------
(* LUA_SLIDING_WINDOW                                                      *)

\* GET of a window's key, "or '0'"; the first window has no predecessor.
Get(w) == IF w \in Windows /\ now < expiry[w] THEN count[w] ELSE 0

\* Mutated forms (operators named "Broken") hold a plausible bug each, for the
\* mutation runs; nothing else uses them.

\* The previous window is left out.
BrokenEstimateCurrentOnly(t) == Get(t \div Window)

\* The weight of the current window is used for the previous one.
BrokenEstimateSwapped(t) ==
  (Get((t \div Window) - 1) * (t % Window)) \div Window + Get(t \div Window)

\* estimated_count in exact arithmetic, for a request with now = t.
Estimate(t) ==
  (Get((t \div Window) - 1) * (Window - (t % Window))) \div Window + Get(t \div Window)

\* What the script computes with doubles: where the previous window weighs a
\* positive whole number, 1 - current_weight may be rounded to just below it.
Estimates(t) ==
  LET weighed == Get((t \div Window) - 1) * (Window - (t % Window))
  IN  IF t % Window # 0 /\ weighed > 0 /\ weighed % Window = 0
      THEN {Estimate(t), Estimate(t) - 1}
      ELSE {Estimate(t)}

\* INCR and EXPIRE with the expiry of one window only.
BrokenCountInShortLived(t) ==
  /\ count' = [count EXCEPT ![t \div Window] = Get(t \div Window) + 1]
  /\ expiry' = [expiry EXCEPT ![t \div Window] = now + Window]

\* INCR current_key, EXPIRE current_key 120: two windows from now.
CountIn(t) ==
  /\ count' = [count EXCEPT ![t \div Window] = Get(t \div Window) + 1]
  /\ expiry' = [expiry EXCEPT ![t \div Window] = now + 2 * Window]

Return(q) ==
  /\ pc[q] = "asking"
  /\ pc' = [pc EXCEPT ![q] = "idle"]
  /\ at' = [at EXCEPT ![q] = 0]

Behind(q) == (now \div Window) - (at[q] \div Window)
IsLate(q) == late' = IF Behind(q) > late THEN Behind(q) ELSE late

-----------------------------------------------------------------------------
(* __call__                                                                *)

\* The request reads the clock and sends the script.
Ask(q) ==
  /\ pc[q] = "idle"
  /\ pc' = [pc EXCEPT ![q] = "asking"]
  /\ at' = [at EXCEPT ![q] = now]
  /\ UNCHANGED <<now, count, expiry, admitted, late>>

\* estimated_count below the limit: counted, and on to the application.
Allow(q, estimate) ==
  /\ Return(q)
  /\ estimate < Limit
  /\ CountIn(at[q])
  /\ admitted' = [admitted EXCEPT ![at[q]] = @ + 1]
  /\ IsLate(q)
  /\ UNCHANGED now

\* A refused request that is counted all the same.
BrokenThrottleCounts(q, estimate) ==
  /\ Return(q)
  /\ estimate >= Limit
  /\ CountIn(at[q])
  /\ UNCHANGED <<now, admitted, late>>

\* estimated_count at the limit: 429, nothing counted.
Throttle(q, estimate) ==
  /\ Return(q)
  /\ estimate >= Limit
  /\ UNCHANGED <<now, count, expiry, admitted, late>>

\* The script call raises: the request gets through, counted or not.
FailOpen(q, counted) ==
  /\ Return(q)
  /\ IF counted
     THEN \E estimate \in Estimates(at[q]) : estimate < Limit /\ CountIn(at[q]) /\ IsLate(q)
     ELSE UNCHANGED <<count, expiry, late>>
  /\ UNCHANGED <<now, admitted>>

\* The clock.  The client of Valkey has no timeout: MaxDelay, the most slots that a
\* request waits for its script, is a bound of the model only.
Tick ==
  /\ now < MaxTime
  /\ \A q \in Requests : pc[q] = "asking" => now - at[q] < MaxDelay
  /\ now' = now + 1
  /\ UNCHANGED <<count, expiry, pc, at, admitted, late>>

Answered(q) ==
  \/ \E estimate \in Estimates(at[q]) : Allow(q, estimate) \/ Throttle(q, estimate)
  \/ \E counted \in BOOLEAN : FailOpen(q, counted)

Next ==
  \/ \E q \in Requests : Ask(q) \/ Answered(q)
  \/ Tick

Spec == Init /\ [][Next]_vars

-----------------------------------------------------------------------------
(* Properties                                                              *)

\* The admitted requests of a span, numbered within their slots.
Admissions(span) == UNION { {t} \X (1..admitted[t]) : t \in span \cap Slots }
AdmittedIn(span) == Cardinality(Admissions(span))
SlotsOf(w) == (w * Window)..(w * Window + Window - 1)

\* No window admits more than the limit on an answer of its script, although
\* scripts run in the next window too, on estimates rounded down.  One that runs
\* later still may find the key of its window expired, and the count starts anew:
\* nothing in the code keeps a script from that.  (Requests that are let through
\* because their script failed have no limit and are not counted here.)
QuotaPerWindow ==
  late <= 1 => \A w \in Windows : AdmittedIn(SlotsOf(w)) <= Limit

\* What the "sliding" window is worth: no span of one window's length, however
\* it lies, admits more than this, as long as every script runs in the window
\* of its request.  A fixed window would allow 2 * Limit.  (For windows of more
\* than one slot: with one slot a span is a window and admits Limit.)
QuotaInAnySpan ==
  late = 0 =>
    \A t \in Slots :
      AdmittedIn(t..(t + Window - 1)) <= 2 * Limit - (2 * Limit - 1) \div Window

\* Nobody is locked out: one slot into a window in which no request was
\* counted, the next one gets through, however busy the window before was.
\* (At the very start of the window it may not, although Retry-After said so.)
RefusalsEnd ==
  now % Window > 0 /\ Get(now \div Window) = 0 => Estimate(now) < Limit

\* The passing of time never takes back what ratelimit-remaining promised: the
\* next slot's estimate, in the same window or the next, is at most the lowest
\* that could be reported now.
TimeOnlyHelps ==
  [][now' # now => \A estimate \in Estimates(now) : Estimate(now)' <= estimate]_vars
=============================================================================
