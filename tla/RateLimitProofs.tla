--------------------------- MODULE RateLimitProofs ---------------------------
(***************************************************************************)
(* Theorems about RateLimit for any limit, window length, number of        *)
(* requests in flight and any delay of their scripts.                      *)
(***************************************************************************)
EXTENDS RateLimit, FiniteSetTheorems, TLAPS

USE RateAssumption

\* Requests carry times that have come, and no later window's key exists.
ClockInv ==
  /\ \A q \in Requests : at[q] <= now
  /\ \A w \in Windows : now < w * Window => count[w] = 0

IInv == TypeOK /\ ClockInv

-----------------------------------------------------------------------------
(* Arithmetic                                                              *)

\* Division by the window length.
LEMMA DivFacts ==
  ASSUME NEW a \in Nat
  PROVE  /\ a \div Window \in Nat
         /\ a % Window \in 0..(Window - 1)
         /\ a = (a \div Window) * Window + (a % Window)
<1>1. Window \in Nat /\ Window > 0
  OBVIOUS
<1>2. a \div Window \in Int /\ a \div Window >= 0 /\ a % Window \in 0..(Window - 1)
  BY <1>1
<1>3. a = (a \div Window) * Window + (a % Window)
  BY <1>1
<1>4. QED
  BY <1>2, <1>3

\* A quotient is bounded by any multiple above the dividend.
LEMMA DivBelow ==
  ASSUME NEW a \in Nat, NEW m \in Nat, a < m * Window
  PROVE  a \div Window < m
<1>1. Window \in Nat /\ Window > 0
  OBVIOUS
<1>2. QED
  BY <1>1

LEMMA DivMonotone ==
  ASSUME NEW a \in Nat, NEW b \in Nat, a <= b
  PROVE  a \div Window <= b \div Window
<1>1. Window \in Nat /\ Window > 0
  OBVIOUS
<1>2. QED
  BY <1>1

\* A product below a whole number of windows grows no more by rounding.
LEMMA DivExact ==
  ASSUME NEW a \in Nat, a > 0, a % Window = 0
  PROVE  a \div Window >= 1
  BY DivFacts

LEMMA Products ==
  ASSUME NEW a \in Nat, NEW b \in Nat, NEW c \in Nat, a <= b
  PROVE  a * c \in Nat /\ a * c <= b * c /\ c * a <= c * b
  OBVIOUS
-----------------------------------------------------------------------------
(* What the script reads and computes                                      *)

LEMMA WindowOf ==
  ASSUME NEW t \in Slots
  PROVE  t \div Window \in Windows /\ t % Window \in 0..(Window - 1)
<1>1. t \in Nat /\ t <= MaxTime /\ MaxTime \in Nat
  BY DEF Slots
<1>2. t \div Window \in Nat /\ t \div Window <= MaxTime \div Window
  BY <1>1, DivFacts, DivMonotone
<1>3. QED
  BY <1>1, <1>2, DivFacts DEF Windows

LEMMA GetType ==
  ASSUME TypeOK, NEW w \in Int
  PROVE  Get(w) \in 0..Limit
  BY DEF TypeOK, Get

\* What the previous window weighs for a request of time t, times Window.
Weighed(t) == Get((t \div Window) - 1) * (Window - (t % Window))

\* An estimate is the current count and more, and rounding never takes off
\* more than what the previous window added.
LEMMA EstimateFacts ==
  ASSUME TypeOK, NEW t \in Slots
  PROVE  /\ Weighed(t) \in Nat
         /\ Weighed(t) \div Window \in Nat
         /\ Get(t \div Window) \in 0..Limit
         /\ Estimate(t) = Weighed(t) \div Window + Get(t \div Window)
         /\ \A e \in Estimates(t) :
              /\ e \in Nat /\ Get(t \div Window) <= e
              /\ \/ e = Estimate(t)
                 \/ e = Estimate(t) - 1 /\ Weighed(t) > 0 /\ Weighed(t) % Window = 0
<1>1. /\ t \div Window \in Int
      /\ Get(t \div Window) \in 0..Limit
      /\ Get((t \div Window) - 1) \in 0..Limit
      /\ Window - (t % Window) \in Nat
  BY WindowOf, GetType DEF Windows
<1>2. Weighed(t) \in Nat
  BY <1>1, Products DEF Weighed
<1>3. /\ Weighed(t) \div Window \in Nat
      /\ Weighed(t) > 0 /\ Weighed(t) % Window = 0 => Weighed(t) \div Window >= 1
  BY <1>2, DivFacts, DivExact
<1>4. Estimate(t) = Weighed(t) \div Window + Get(t \div Window)
  BY DEF Estimate, Weighed
<1>5. ASSUME NEW e \in Estimates(t)
      PROVE  \/ e = Estimate(t)
             \/ e = Estimate(t) - 1 /\ Weighed(t) > 0 /\ Weighed(t) % Window = 0
  BY <1>5 DEF Estimates, Weighed
<1>6. ASSUME NEW e \in Estimates(t)
      PROVE  e \in Nat /\ Get(t \div Window) <= e
  <2>1. CASE e = Estimate(t)
    BY <2>1, <1>1, <1>3, <1>4
  <2>2. CASE e = Estimate(t) - 1 /\ Weighed(t) > 0 /\ Weighed(t) % Window = 0
    BY <2>2, <1>1, <1>3, <1>4
  <2>3. QED
    BY <2>1, <2>2, <1>5, <1>6
<1>7. QED
  BY <1>1, <1>2, <1>3, <1>4, <1>5, <1>6

-----------------------------------------------------------------------------
(* The invariant                                                           *)

LEMMA Initially == Init => IInv
<1>1. 0 \in Slots /\ 0 \in 0..(MaxTime + 2 * Window) /\ 0 \in 0..Limit
  BY DEF Slots
<1>2. Init => TypeOK
  <2> SUFFICES ASSUME Init PROVE TypeOK
    OBVIOUS
  <2>1. now \in Slots /\ late \in Windows
    BY <1>1, WindowOf, DivFacts DEF Init, Windows
  <2>2. /\ count \in [Windows -> 0..Limit]
        /\ expiry \in [Windows -> 0..(MaxTime + 2 * Window)]
    BY <1>1 DEF Init
  <2>3. /\ pc \in [Requests -> {"idle", "asking"}]
        /\ at \in [Requests -> Slots]
        /\ admitted \in [Slots -> Nat]
    BY <1>1 DEF Init
  <2>4. QED
    BY <2>1, <2>2, <2>3 DEF TypeOK
<1>3. Init => ClockInv
  BY DEF Init, ClockInv
<1>4. QED
  BY <1>2, <1>3 DEF IInv

\* How late a script is, and what the history makes of it.
LEMMA LateGrows ==
  ASSUME IInv, NEW q \in Requests
  PROVE  /\ Behind(q) \in Windows
         /\ IsLate(q) => late' \in Windows /\ late <= late' /\ Behind(q) <= late'
<1> DEFINE i == at[q] \div Window
           j == now \div Window
<1>1. at[q] \in Slots /\ now \in Slots /\ at[q] <= now /\ late \in Windows
  BY DEF IInv, TypeOK, ClockInv
<1>2. i \in Windows /\ j \in Windows /\ i <= j
  BY <1>1, WindowOf, DivMonotone DEF Slots
<1>3. Behind(q) = j - i
  BY DEF Behind
<1> HIDE DEF i, j
<1>4. Behind(q) \in Windows
  BY <1>2, <1>3 DEF Windows
<1>5. IsLate(q) => late' = IF Behind(q) > late THEN Behind(q) ELSE late
  BY DEF IsLate
<1>6. QED
  BY <1>1, <1>4, <1>5 DEF Windows

\* A request is counted in a window that has come, below its limit.
LEMMA CountStep ==
  ASSUME IInv, NEW t \in Slots, t <= now, NEW estimate \in Estimates(t),
         estimate < Limit, CountIn(t)
  PROVE  /\ count' \in [Windows -> 0..Limit]
         /\ expiry' \in [Windows -> 0..(MaxTime + 2 * Window)]
         /\ \A w \in Windows : now < w * Window => count'[w] = 0
<1> DEFINE k == t \div Window
<1>1. k \in Windows /\ k \in Nat /\ t = k * Window + (t % Window) /\ t % Window \in Nat
  <2>1. t \in Nat
    BY DEF Slots
  <2>2. QED
    BY <2>1, WindowOf, DivFacts DEF Windows
<1>2. Get(k) + 1 \in 0..Limit
  <2>1. estimate \in Nat /\ Get(k) <= estimate /\ Get(k) \in 0..Limit
    BY EstimateFacts DEF IInv
  <2>2. QED
    BY <2>1
<1>3. count' = [count EXCEPT ![k] = Get(k) + 1] /\ expiry' = [expiry EXCEPT ![k] = now + 2 * Window]
  BY DEF CountIn
<1> HIDE DEF k
<1>4. now + 2 * Window \in 0..(MaxTime + 2 * Window)
  BY DEF IInv, TypeOK, Slots
<1>5. k * Window <= now
  <2>1. t \in Nat /\ now \in Nat /\ k * Window \in Nat
    BY <1>1 DEF IInv, TypeOK, Slots
  <2>2. QED
    BY <2>1, <1>1
<1>6. ASSUME NEW w \in Windows, now < w * Window PROVE count'[w] = 0
  <2>1. w # k
    <3>1. now \in Nat /\ k * Window \in Nat
      BY <1>1 DEF IInv, TypeOK, Slots
    <3>2. QED
      BY <3>1, <1>5, <1>6
  <2>2. QED
    BY <2>1, <1>3, <1>6 DEF IInv, TypeOK, ClockInv
<1>7. QED
  BY <1>1, <1>2, <1>3, <1>4, <1>6 DEF IInv, TypeOK

LEMMA Inductive == IInv /\ [Next]_vars => IInv'
<1> SUFFICES ASSUME IInv, [Next]_vars
             PROVE  IInv'
  OBVIOUS
<1> USE DEF IInv
<1>1. ASSUME NEW q \in Requests, Ask(q) PROVE IInv'
  BY <1>1 DEF Ask, TypeOK, ClockInv, Slots
<1>2. ASSUME NEW q \in Requests, Return(q)
      PROVE  /\ pc' \in [Requests -> {"idle", "asking"}]
             /\ at' \in [Requests -> Slots]
             /\ \A p \in Requests : at'[p] <= now
  BY <1>2 DEF Return, TypeOK, ClockInv, Slots
<1>3. ASSUME NEW q \in Requests PROVE at[q] \in Slots /\ at[q] <= now
  BY <1>3 DEF TypeOK, ClockInv
<1>4. ASSUME NEW q \in Requests, NEW estimate \in Estimates(at[q]), Allow(q, estimate)
      PROVE  IInv'
  <2>1. estimate < Limit /\ CountIn(at[q]) /\ Return(q) /\ now' = now /\ late' \in Windows
    BY <1>4, LateGrows DEF Allow
  <2>2. admitted' \in [Slots -> Nat]
    BY <1>4, <1>3 DEF Allow, TypeOK
  <2>3. QED
    BY <2>1, <2>2, <1>2, <1>3, CountStep DEF TypeOK, ClockInv
<1>5. ASSUME NEW q \in Requests, NEW estimate \in Estimates(at[q]), Throttle(q, estimate)
      PROVE  IInv'
  BY <1>5, <1>2 DEF Throttle, TypeOK, ClockInv
<1>6. ASSUME NEW q \in Requests, NEW counted \in BOOLEAN, FailOpen(q, counted)
      PROVE  IInv'
  <2>1. Return(q) /\ now' = now /\ admitted' = admitted
    BY <1>6 DEF FailOpen
  <2>2. CASE counted
    <3>1. PICK estimate \in Estimates(at[q]) : estimate < Limit /\ CountIn(at[q]) /\ IsLate(q)
      BY <1>6, <2>2 DEF FailOpen
    <3>2. late' \in Windows
      BY <3>1, LateGrows
    <3>3. QED
      BY <3>1, <3>2, <2>1, <1>2, <1>3, CountStep DEF TypeOK, ClockInv
  <2>3. CASE ~counted
    BY <1>6, <2>1, <2>3, <1>2 DEF FailOpen, TypeOK, ClockInv
  <2>4. QED
    BY <2>2, <2>3
<1>7. CASE Tick
  <2>1. now' \in Slots /\ now < now' /\ now \in Nat
    BY <1>7 DEF Tick, TypeOK, Slots
  <2>2. ASSUME NEW w \in Windows, now' < w * Window PROVE count[w] = 0
    <3>1. w * Window \in Int /\ now' \in Int
      BY <2>1 DEF Windows, Slots
    <3>2. QED
      BY <2>1, <2>2, <3>1 DEF ClockInv
  <2>3. ASSUME NEW q \in Requests PROVE at[q] <= now'
    <3>1. at[q] \in Nat /\ at[q] <= now /\ now' \in Nat
      BY <2>1, <1>3 DEF Slots
    <3>2. QED
      BY <2>1, <3>1
  <2>4. QED
    BY <1>7, <2>1, <2>2, <2>3 DEF Tick, TypeOK, ClockInv
<1>8. CASE UNCHANGED vars
  BY <1>8 DEF vars, TypeOK, ClockInv
<1>9. QED
  BY <1>1, <1>4, <1>5, <1>6, <1>7, <1>8 DEF Next, Answered

LEMMA AlwaysIInv == Spec => []IInv
  BY Initially, Inductive, PTL DEF Spec

\* The counters stay within the limit, although scripts run late, on keys
\* that may have expired, and on estimates that were rounded down.
THEOREM TypeCorrect == Spec => []TypeOK
<1>1. IInv => TypeOK
  BY DEF IInv
<1>2. QED
  BY <1>1, AlwaysIInv, PTL
-----------------------------------------------------------------------------
(* What a client may rely on                                               *)

\* One slot into a window nobody was counted in, a request gets through.
THEOREM NobodyIsLockedOut == Spec => []RefusalsEnd
<1>1. IInv => RefusalsEnd
  <2> SUFFICES ASSUME IInv, now % Window > 0, Get(now \div Window) = 0
               PROVE  Estimate(now) < Limit
    BY DEF RefusalsEnd
  <2> DEFINE prev == Get((now \div Window) - 1)
             left == Window - (now % Window)
  <2>1. /\ now \in Slots /\ TypeOK
        /\ now % Window \in 0..(Window - 1)
        /\ prev \in 0..Limit
    <3>1. now \in Slots /\ TypeOK
      BY DEF IInv, TypeOK
    <3>2. (now \div Window) - 1 \in Int /\ now % Window \in 0..(Window - 1)
      BY <3>1, WindowOf DEF Windows
    <3>3. QED
      BY <3>1, <3>2, GetType
  <2>2. left \in Nat /\ left <= Window - 1
    BY <2>1
  <2>3. prev * left < Limit * Window
    <3> HIDE DEF prev, left
    <3>1. prev * left <= Limit * left
      BY <2>1, <2>2, Products
    <3>2. Limit * left < Limit * Window
      BY <2>2
    <3>3. prev * left \in Nat /\ Limit * left \in Nat /\ Limit * Window \in Nat
      BY <2>1, <2>2
    <3>4. QED
      BY <3>1, <3>2, <3>3
  <2>4. Weighed(now) < Limit * Window /\ Weighed(now) \in Nat
    BY <2>1, <2>3, EstimateFacts DEF Weighed
  <2>5. Weighed(now) \div Window < Limit
    BY <2>4, DivBelow
  <2>6. Estimate(now) = Weighed(now) \div Window + 0 /\ Weighed(now) \div Window \in Nat
    BY <2>1, EstimateFacts
  <2>7. QED
    BY <2>5, <2>6
<1>2. QED
  BY <1>1, AlwaysIInv, PTL

\* Where the next slot lies.
LEMMA NextSlot ==
  ASSUME NEW t \in Nat
  PROVE  \/ /\ (t + 1) \div Window = t \div Window
            /\ (t + 1) % Window = (t % Window) + 1
         \/ /\ (t + 1) \div Window = (t \div Window) + 1
            /\ (t + 1) % Window = 0
            /\ t < ((t \div Window) + 1) * Window
<1> DEFINE k == t \div Window
           o == t % Window
<1>1. k \in Nat /\ o \in 0..(Window - 1) /\ t = k * Window + o
  BY DivFacts
<1>2. Window \in Nat /\ Window > 0
  OBVIOUS
<1> HIDE DEF k, o
<1>3. CASE o + 1 \in 0..(Window - 1)
  <2>1. t + 1 = k * Window + (o + 1)
    BY <1>1
  <2>2. (t + 1) \div Window = k /\ (t + 1) % Window = o + 1
    BY <1>1, <1>2, <1>3, <2>1
  <2>3. QED
    BY <2>2 DEF k, o
<1>4. CASE o = Window - 1
  <2>1. t + 1 = (k + 1) * Window + 0
    BY <1>1, <1>2, <1>4
  <2>2. (t + 1) \div Window = k + 1 /\ (t + 1) % Window = 0
    BY <1>1, <1>2, <2>1
  <2>3. t < (k + 1) * Window
    <3>1. (k + 1) * Window \in Int
      BY <1>1, <1>2
    <3>2. QED
      BY <2>1, <3>1
  <2>4. QED
    BY <2>2, <2>3 DEF k
<1>5. QED
  BY <1>1, <1>2, <1>3, <1>4

\* Within a window the previous one weighs less and less, by at least one
\* unit where the estimate might have been rounded down.
LEMMA WeightFalls ==
  ASSUME NEW p \in Nat, NEW c \in Nat, c <= p, NEW left \in Nat, left >= 1
  PROVE  /\ (c * (left - 1)) \div Window <= (p * left) \div Window
         /\ p * left > 0 /\ (p * left) % Window = 0
              => (c * (left - 1)) \div Window <= ((p * left) \div Window) - 1
<1>1. /\ c * (left - 1) \in Nat /\ p * (left - 1) \in Nat /\ p * left \in Nat
      /\ c * (left - 1) <= p * (left - 1)
  BY Products
<1>2. p * (left - 1) = p * left - p
  OBVIOUS
<1> DEFINE new == c * (left - 1)
           old == p * left
<1>3. new \in Nat /\ old \in Nat /\ new <= old - p
  BY <1>1, <1>2
<1>4. old > 0 => p > 0
  BY <1>1
<1> HIDE DEF new, old
<1>5. new \div Window <= old \div Window
  BY <1>3, DivMonotone
<1>6. ASSUME old > 0, old % Window = 0
      PROVE  new \div Window <= (old \div Window) - 1
  <2>1. old = (old \div Window) * Window /\ old \div Window \in Nat
    <3>1. old = (old \div Window) * Window + (old % Window) /\ old \div Window \in Nat
      BY <1>3, DivFacts
    <3>2. (old \div Window) * Window \in Nat
      BY <3>1
    <3>3. QED
      BY <3>1, <3>2, <1>6
  <2>2. new < (old \div Window) * Window
    BY <1>3, <1>4, <1>6, <2>1
  <2>3. new \div Window < old \div Window
    BY <1>3, <2>1, <2>2, DivBelow
  <2>4. QED
    BY <2>1, <2>3, <1>3, DivFacts
<1>7. QED
  BY <1>5, <1>6 DEF new, old

\* The next slot's estimate is at most what any request could be told now.
THEOREM TimeHelps == Spec => TimeOnlyHelps
<1>1. IInv /\ [Next]_vars =>
        [now' # now => \A estimate \in Estimates(now) : Estimate(now)' <= estimate]_vars
  <2> SUFFICES ASSUME IInv, [Next]_vars, now' # now,
                      NEW e \in Estimates(now)
               PROVE  Estimate(now)' <= e
    OBVIOUS
  <2> DEFINE k == now \div Window
             left == Window - (now % Window)
             After(w) == IF w \in Windows /\ now + 1 < expiry[w] THEN count[w] ELSE 0
  <2>1. now' = now + 1 /\ count' = count /\ expiry' = expiry
    <3>1. Tick
      BY DEF Next, Answered, Ask, Allow, Throttle, FailOpen, vars
    <3>2. QED
      BY <3>1 DEF Tick
  <2>2. TypeOK /\ now \in Slots /\ now \in Nat
    BY DEF IInv, TypeOK, Slots
  <2>3. k \in Int /\ left \in Nat /\ left >= 1
    BY <2>2, WindowOf DEF Windows
  <2>4. ASSUME NEW w \in Int
        PROVE  Get(w) \in Nat /\ After(w) \in Nat /\ After(w) <= Get(w)
    <3>1. w \in Windows => count[w] \in Nat /\ expiry[w] \in Nat
      BY <2>2 DEF TypeOK
    <3>2. QED
      BY <3>1, <2>2 DEF Get
  <2>5. Estimate(now)' =
          (After(((now + 1) \div Window) - 1) * (Window - ((now + 1) % Window))) \div Window
            + After((now + 1) \div Window)
    BY <2>1 DEF Estimate, Get
  <2>6. CASE (now + 1) \div Window = k /\ (now + 1) % Window = (now % Window) + 1
    <3> DEFINE p == Get(k - 1)
               c == After(k - 1)
    <3>1. p \in Nat /\ c \in Nat /\ c <= p
      BY <2>3, <2>4
    <3>2. After(k) \in Nat /\ Get(k) \in Nat /\ After(k) <= Get(k)
      BY <2>3, <2>4
    <3>3. Estimate(now)' = (c * (left - 1)) \div Window + After(k)
      <4>1. Window - ((now + 1) % Window) = left - 1
        BY <2>6, <2>2, WindowOf
      <4> HIDE DEF After, left
      <4>2. QED
        BY <4>1, <2>5, <2>6
    <3>4. \/ e = (p * left) \div Window + Get(k)
          \/ /\ e = (p * left) \div Window + Get(k) - 1
             /\ p * left > 0
             /\ (p * left) % Window = 0
      <4>1. \/ e = Estimate(now)
            \/ e = Estimate(now) - 1 /\ Weighed(now) > 0 /\ Weighed(now) % Window = 0
        BY <2>2, EstimateFacts
      <4>2. Weighed(now) = p * left
        BY DEF Weighed
      <4>3. Estimate(now) = Weighed(now) \div Window + Get(k)
        BY <2>2, EstimateFacts
      <4>4. Get(k) \in Nat /\ Weighed(now) \div Window \in Nat /\ Weighed(now) \in Nat
        BY <2>2, EstimateFacts, <3>2
      <4> DEFINE weighed == p * left
      <4>5. weighed = Weighed(now)
        BY <4>2
      <4> HIDE DEF p, left, k, weighed
      <4>6. \/ e = weighed \div Window + Get(k)
            \/ e = weighed \div Window + Get(k) - 1 /\ weighed > 0 /\ weighed % Window = 0
        BY <4>1, <4>3, <4>4, <4>5
      <4>7. QED
        BY <4>6 DEF weighed
    <3>5. (c * (left - 1)) \div Window \in Nat /\ (p * left) \div Window \in Nat
      <4> HIDE DEF p, c, left
      <4>1. c * (left - 1) \in Nat /\ p * left \in Nat
        BY <3>1, <2>3
      <4>2. QED
        BY <4>1, DivFacts
    <3> HIDE DEF p, c, left, k, After
    <3>6. /\ (c * (left - 1)) \div Window <= (p * left) \div Window
          /\ p * left > 0 /\ (p * left) % Window = 0
               => (c * (left - 1)) \div Window <= ((p * left) \div Window) - 1
      BY <3>1, <2>3, WeightFalls
    <3>7. QED
      BY <3>2, <3>3, <3>4, <3>5, <3>6
  <2>7. CASE /\ (now + 1) \div Window = k + 1
             /\ (now + 1) % Window = 0
             /\ now < (k + 1) * Window
    <3>1. After(k + 1) = 0
      <4>1. k + 1 \in Windows => count[k + 1] = 0
        BY <2>7 DEF IInv, ClockInv
      <4>2. QED
        BY <4>1
    <3>2. After(k) \in Nat /\ After(k) <= Get(k) /\ Get(k) \in Nat
      BY <2>3, <2>4
    <3>3. (After(k) * Window) \div Window = After(k)
      <4> HIDE DEF After, k
      <4>1. Window \in Nat /\ Window > 0
        OBVIOUS
      <4>2. After(k) * Window = After(k) * Window + 0 /\ After(k) * Window \in Nat
        BY <3>2
      <4>3. QED
        BY <4>1, <4>2, <3>2
    <3>4. Estimate(now)' = After(k)
      <4> HIDE DEF After
      <4>1. ((now + 1) \div Window) - 1 = k /\ Window - ((now + 1) % Window) = Window
        BY <2>7, <2>3
      <4>2. Estimate(now)' = (After(k) * Window) \div Window + After(k + 1)
        BY <4>1, <2>5, <2>7
      <4>3. QED
        BY <4>2, <3>1, <3>2, <3>3
    <3>5. Get(k) <= e /\ e \in Nat
      BY <2>2, EstimateFacts
    <3> HIDE DEF After
    <3>6. QED
      BY <3>2, <3>4, <3>5
  <2>8. QED
    BY <2>2, <2>6, <2>7, NextSlot
<1>2. QED
  BY <1>1, AlwaysIInv, PTL DEF TimeOnlyHelps, Spec
-----------------------------------------------------------------------------
(***************************************************************************)
(* The quotas.  Admissions are counted by the cardinality of a set, since  *)
(* a sum over the slots of a span would need induction.  A key is not gone *)
(* before its window and the next are over, so as long as no script ran    *)
(* later than that, the key of a window has counted all its admissions.    *)
(***************************************************************************)
NothingAhead == \A t \in Slots : t > now => admitted[t] = 0

KeysOutlive == \A w \in Windows : count[w] > 0 => expiry[w] >= (w + 2) * Window

Covered == late <= 1 => \A w \in Windows : AdmittedIn(SlotsOf(w)) <= count[w]

QuotaInv ==
  /\ IsFiniteSet(Admissions(Slots))
  /\ NothingAhead
  /\ KeysOutlive
  /\ Covered

\* Membership, without the UNION.
LEMMA AdmissionIn ==
  ASSUME TypeOK, NEW span, NEW x
  PROVE  x \in Admissions(span) <=>
           \E t \in span \cap Slots, n \in Nat : 1 <= n /\ n <= admitted[t] /\ x = <<t, n>>
<1>1. \A t \in Slots : 1..admitted[t] = { n \in Nat : 1 <= n /\ n <= admitted[t] }
  BY DEF TypeOK
<1>2. x \in Admissions(span) <=> \E t \in span \cap Slots : x \in {t} \X (1..admitted[t])
  BY DEF Admissions
<1>3. QED
  BY <1>1, <1>2

\* Parts of a span admit no more than the whole.
LEMMA AdmissionsFinite ==
  ASSUME IsFiniteSet(Admissions(Slots)), NEW span
  PROVE  IsFiniteSet(Admissions(span)) /\ AdmittedIn(span) \in Nat
<1>1. Admissions(span) \subseteq Admissions(Slots)
  BY DEF Admissions
<1>2. QED
  BY <1>1, FS_Subset, FS_CardinalityType DEF AdmittedIn

LEMMA AdmittedMonotone ==
  ASSUME IsFiniteSet(Admissions(Slots)), NEW part, NEW span,
         Admissions(part) \subseteq Admissions(span)
  PROVE  AdmittedIn(part) <= AdmittedIn(span)
<1>1. IsFiniteSet(Admissions(span))
  BY AdmissionsFinite
<1>2. QED
  BY <1>1, FS_Subset DEF AdmittedIn

\* A span admits no more than the parts it is made of.
LEMMA AdmittedSplit ==
  ASSUME IsFiniteSet(Admissions(Slots)), NEW span, NEW a, NEW b,
         Admissions(span) \subseteq Admissions(a) \cup Admissions(b)
  PROVE  AdmittedIn(span) <= AdmittedIn(a) + AdmittedIn(b)
<1> DEFINE A == Admissions(a)
           B == Admissions(b)
<1>1. IsFiniteSet(A) /\ IsFiniteSet(B) /\ Cardinality(A) \in Nat /\ Cardinality(B) \in Nat
  BY AdmissionsFinite DEF AdmittedIn
<1> HIDE DEF A, B
<1>2. IsFiniteSet(A \cap B)
  BY <1>1, FS_Subset
<1>3. /\ IsFiniteSet(A \cup B)
      /\ Cardinality(A \cup B) = Cardinality(A) + Cardinality(B) - Cardinality(A \cap B)
  BY <1>1, FS_Union
<1>4. Cardinality(A \cap B) \in Nat /\ Cardinality(A \cup B) \in Nat
  BY <1>2, <1>3, FS_CardinalityType
<1>5. Cardinality(Admissions(span)) <= Cardinality(A \cup B) /\ IsFiniteSet(Admissions(span))
  BY <1>3, FS_Subset DEF A, B
<1>6. Cardinality(Admissions(span)) \in Nat
  BY <1>5, FS_CardinalityType
<1>7. QED
  BY <1>1, <1>3, <1>4, <1>5, <1>6 DEF AdmittedIn, A, B

\* One more admission in slot t is one more in every span with t in it.
LEMMA OneMore ==
  ASSUME TypeOK, TypeOK', IsFiniteSet(Admissions(Slots)), NEW t \in Slots,
         admitted' = [admitted EXCEPT ![t] = @ + 1]
  PROVE  /\ IsFiniteSet(Admissions(Slots))'
         /\ \A span : AdmittedIn(span)' = IF t \in span THEN AdmittedIn(span) + 1
                                                        ELSE AdmittedIn(span)
<1> DEFINE new == <<t, admitted[t] + 1>>
<1>1. admitted[t] \in Nat /\ admitted'[t] = admitted[t] + 1
      /\ \A s \in Slots : s # t => admitted'[s] = admitted[s]
  BY DEF TypeOK
<1>2. \A n \in Nat : 1 <= n /\ n <= admitted[t] + 1 <=>
                       (1 <= n /\ n <= admitted[t]) \/ n = admitted[t] + 1
  BY <1>1
<1>3. ASSUME NEW span, t \in span
      PROVE  Admissions(span)' = Admissions(span) \cup {new} /\ new \notin Admissions(span)
  <2>1. ASSUME NEW x PROVE x \in Admissions(span)' <=> x \in Admissions(span) \cup {new}
    <3>1. x \in Admissions(span)' <=>
            \E s \in span \cap Slots, n \in Nat : 1 <= n /\ n <= admitted'[s] /\ x = <<s, n>>
      <4>1. \A s \in Slots : 1..admitted'[s] = { n \in Nat : 1 <= n /\ n <= admitted'[s] }
        BY DEF TypeOK
      <4>2. x \in Admissions(span)' <=> \E s \in span \cap Slots : x \in {s} \X (1..admitted'[s])
        BY DEF Admissions, Slots
      <4>3. QED
        BY <4>1, <4>2
    <3>2. x \in Admissions(span) <=>
            \E s \in span \cap Slots, n \in Nat : 1 <= n /\ n <= admitted[s] /\ x = <<s, n>>
      BY AdmissionIn
    <3>3. x = new <=> x = <<t, admitted[t] + 1>>
      OBVIOUS
    <3> HIDE DEF new
    <3>4. QED
      BY <1>1, <1>2, <1>3, <3>1, <3>2, <3>3
  <2>2. new \notin Admissions(span)
    BY <1>1, AdmissionIn
  <2>3. QED
    BY <2>1, <2>2
<1>4. ASSUME NEW span, t \notin span PROVE Admissions(span)' = Admissions(span)
  BY <1>1, <1>4 DEF Admissions, Slots
<1>5. IsFiniteSet(Admissions(Slots))'
  <2>1. Admissions(Slots)' = Admissions(Slots) \cup {new}
    BY <1>3 DEF Slots
  <2>2. QED
    BY <2>1, FS_AddElement
<1>6. ASSUME NEW span
      PROVE  AdmittedIn(span)' = IF t \in span THEN AdmittedIn(span) + 1 ELSE AdmittedIn(span)
  <2>1. CASE t \in span
    BY <1>3, <2>1, AdmissionsFinite, FS_AddElement DEF AdmittedIn
  <2>2. CASE t \notin span
    BY <1>4, <2>2 DEF AdmittedIn
  <2>3. QED
    BY <2>1, <2>2
<1>7. QED
  BY <1>5, <1>6
\* The slots of a window.
LEMMA SlotInWindow ==
  ASSUME NEW t \in Slots, NEW w \in Windows
  PROVE  /\ t \in SlotsOf(w) <=> t \div Window = w
         /\ t < (t \div Window + 1) * Window
         /\ (t \div Window) * Window <= t
<1> DEFINE k == t \div Window
           o == t % Window
<1>1. t \in Nat /\ w \in Nat /\ Window \in Nat /\ Window > 0
  BY DEF Slots, Windows
<1>2. k \in Nat /\ o \in 0..(Window - 1) /\ t = k * Window + o
  BY <1>1, DivFacts
<1> HIDE DEF k, o
<1>3. k * Window \in Nat /\ w * Window \in Nat /\ (k + 1) * Window = k * Window + Window
  BY <1>1, <1>2
<1>4. k * Window <= t /\ t < k * Window + Window
  BY <1>1, <1>2, <1>3
<1>5. ASSUME k < w PROVE t < w * Window
  <2>1. (k + 1) * Window <= w * Window
    BY <1>1, <1>2, <1>5, Products
  <2>2. QED
    BY <2>1, <1>1, <1>3, <1>4
<1>6. ASSUME k > w PROVE t > w * Window + Window - 1
  <2>1. (w + 1) * Window <= k * Window /\ (w + 1) * Window = w * Window + Window
    BY <1>1, <1>2, <1>6, Products
  <2>2. QED
    BY <2>1, <1>1, <1>3, <1>4
<1>7. t \in SlotsOf(w) <=> w * Window <= t /\ t <= w * Window + Window - 1
  BY <1>1, <1>3 DEF SlotsOf
<1>8. k = w => w * Window <= t /\ t <= w * Window + Window - 1
  BY <1>1, <1>3, <1>4
<1>9. t \in SlotsOf(w) <=> k = w
  BY <1>1, <1>2, <1>3, <1>5, <1>6, <1>7, <1>8
<1>10. QED
  BY <1>3, <1>4, <1>9 DEF k

\* A request that is at most a window late finds the key of its window alive,
\* and one that is not late the key of the window before as well.
LEMMA KeysAlive ==
  ASSUME IInv, QuotaInv, NEW q \in Requests, pc[q] = "asking"
  PROVE  /\ at[q] \in Slots /\ at[q] <= now
         /\ at[q] \div Window \in Windows
         /\ Behind(q) <= 1 => Get(at[q] \div Window) = count[at[q] \div Window]
         /\ at[q] \div Window = now \div Window /\ (at[q] \div Window) - 1 \in Windows =>
              Get((at[q] \div Window) - 1) = count[(at[q] \div Window) - 1]
<1> DEFINE t == at[q]
           k == t \div Window
<1>1. t \in Slots /\ t <= now /\ now \in Slots
  BY DEF IInv, TypeOK, ClockInv
<1>2. k \in Windows
  BY <1>1, WindowOf
<1> DEFINE j == now \div Window
<1>3. now < (j + 1) * Window /\ j \in Windows /\ Behind(q) = j - k
  BY <1>1, WindowOf, SlotInWindow DEF Behind
<1>4. t \in Nat /\ now \in Nat /\ k \in Nat /\ j \in Nat /\ Window \in Nat
  BY <1>1, <1>2, <1>3 DEF Slots, Windows
<1> HIDE DEF t, k, j
<1>5. ASSUME Behind(q) <= 1 PROVE now < (k + 2) * Window
  <2>1. (j + 1) * Window <= (k + 2) * Window
    BY <1>3, <1>4, <1>5, Products
  <2>2. (j + 1) * Window \in Nat /\ (k + 2) * Window \in Nat
    BY <1>4
  <2>3. QED
    BY <2>1, <2>2, <1>3, <1>4
<1>6. ASSUME NEW w \in Windows, now < (w + 2) * Window PROVE Get(w) = count[w]
  <2>1. w \in Nat /\ expiry[w] \in Nat /\ count[w] \in Nat
    <3>1. w \in Nat
      BY DEF Windows
    <3>2. TypeOK
      BY DEF IInv
    <3>3. expiry[w] \in Nat /\ count[w] \in Nat
      BY <3>2 DEF TypeOK
    <3>4. QED
      BY <3>1, <3>3
  <2>2. (w + 2) * Window \in Nat
    BY <2>1, <1>4
  <2>3. count[w] > 0 => now < expiry[w]
    <3>1. count[w] > 0 => expiry[w] >= (w + 2) * Window
      BY DEF QuotaInv, KeysOutlive
    <3>2. QED
      BY <3>1, <2>1, <2>2, <1>4, <1>6
  <2>4. QED
    BY <2>1, <2>3 DEF Get
<1>7. ASSUME k = j PROVE now < ((k - 1) + 2) * Window
  <2>1. (k - 1) + 2 = k + 1
    BY <1>4
  <2>2. QED
    BY <2>1, <1>3, <1>7
<1>8. Behind(q) <= 1 => Get(k) = count[k]
  BY <1>2, <1>5, <1>6
<1>9. k = j /\ k - 1 \in Windows => Get(k - 1) = count[k - 1]
  BY <1>6, <1>7
<1>10. QED
  BY <1>1, <1>2, <1>8, <1>9 DEF t, k, j

\* Counting a request keeps its window's key alive for long enough, and adds it
\* to those counted, unless it came so late that the key was gone.
LEMMA CountKeeps ==
  ASSUME IInv, QuotaInv, NEW q \in Requests, pc[q] = "asking", CountIn(at[q])
  PROVE  /\ KeysOutlive'
         /\ Behind(q) <= 1 => count' = [count EXCEPT ![at[q] \div Window] = @ + 1]
<1> DEFINE k == at[q] \div Window
<1>1. /\ at[q] \in Slots /\ at[q] <= now /\ now \in Slots
      /\ k \in Windows
      /\ Behind(q) <= 1 => Get(k) = count[k]
  BY KeysAlive DEF IInv, TypeOK
<1>2. k * Window <= at[q]
  BY <1>1, SlotInWindow
<1>3. count' = [count EXCEPT ![k] = Get(k) + 1] /\ expiry' = [expiry EXCEPT ![k] = now + 2 * Window]
  BY <1>1 DEF CountIn
<1>4. at[q] \in Nat /\ now \in Nat /\ k \in Nat /\ Window \in Nat
  BY <1>1 DEF Slots, Windows
<1> HIDE DEF k
<1>5. now + 2 * Window >= (k + 2) * Window
  <2>1. k * Window \in Nat /\ (k + 2) * Window = k * Window + 2 * Window
    BY <1>4
  <2>2. QED
    BY <2>1, <1>1, <1>2, <1>4
<1>6. ASSUME NEW w \in Windows, count'[w] > 0 PROVE expiry'[w] >= (w + 2) * Window
  <2>1. CASE w = k
    BY <2>1, <1>1, <1>3, <1>5 DEF IInv, TypeOK
  <2>2. CASE w # k
    BY <2>2, <1>3, <1>6 DEF IInv, TypeOK, QuotaInv, KeysOutlive
  <2>3. QED
    BY <2>1, <2>2
<1>7. KeysOutlive'
  BY <1>6 DEF KeysOutlive, Windows
<1>8. QED
  BY <1>1, <1>3, <1>7 DEF k

LEMMA QuotaInit == Init => QuotaInv
<1> SUFFICES ASSUME Init PROVE QuotaInv
  OBVIOUS
<1>1. ASSUME NEW span PROVE Admissions(span) = {}
  BY DEF Init, Admissions
<1>2. \A span : IsFiniteSet(Admissions(span)) /\ AdmittedIn(span) = 0
  BY <1>1, FS_EmptySet DEF AdmittedIn
<1>3. QED
  BY <1>2 DEF Init, QuotaInv, NothingAhead, KeysOutlive, Covered

\* No step of a request, and no tick, uncovers an admission.
LEMMA QuotaStep ==
  ASSUME IInv, IInv', QuotaInv, [Next]_vars
  PROVE  QuotaInv'
<1>1. ASSUME admitted' = admitted
      PROVE  IsFiniteSet(Admissions(Slots))' /\ \A span : AdmittedIn(span)' = AdmittedIn(span)
  BY <1>1 DEF QuotaInv, Admissions, AdmittedIn, Slots
<1>2. ASSUME NEW q \in Requests, Ask(q) PROVE QuotaInv'
  BY <1>1, <1>2 DEF Ask, QuotaInv, NothingAhead, KeysOutlive, Covered, Slots, Windows
<1>3. ASSUME NEW q \in Requests, IsLate(q), late' <= 1
      PROVE  Behind(q) <= 1 /\ \A w \in Windows : AdmittedIn(SlotsOf(w)) <= count[w]
  <2>1. late <= 1 /\ Behind(q) <= 1
    BY <1>3, LateGrows DEF IInv, TypeOK, Windows
  <2>2. QED
    BY <2>1 DEF QuotaInv, Covered
<1>4. ASSUME NEW q \in Requests, NEW estimate \in Estimates(at[q]), Allow(q, estimate)
      PROVE  QuotaInv'
  <2> DEFINE t == at[q]
             k == t \div Window
  <2>1. /\ Return(q) /\ now' = now /\ CountIn(t) /\ pc[q] = "asking" /\ IsLate(q)
        /\ admitted' = [admitted EXCEPT ![t] = @ + 1]
    BY <1>4 DEF Allow, Return
  <2>2. t \in Slots /\ k \in Windows /\ t <= now
    BY <2>1, KeysAlive
  <2>3. KeysOutlive' /\ (Behind(q) <= 1 => count' = [count EXCEPT ![k] = @ + 1])
    BY <2>1, CountKeeps
  <2>4. /\ IsFiniteSet(Admissions(Slots))'
        /\ \A span : AdmittedIn(span)' = IF t \in span THEN AdmittedIn(span) + 1
                                                      ELSE AdmittedIn(span)
    BY <2>1, <2>2, OneMore DEF IInv, QuotaInv
  <2>5. NothingAhead'
    BY <2>1, <2>2 DEF IInv, TypeOK, Slots, QuotaInv, NothingAhead
  <2>6. ASSUME late' <= 1, NEW w \in Windows PROVE AdmittedIn(SlotsOf(w))' <= count'[w]
    <3>1. AdmittedIn(SlotsOf(w)) <= count[w] /\ AdmittedIn(SlotsOf(w)) \in Nat /\ count[w] \in Nat
      BY <2>1, <2>6, <1>3, AdmissionsFinite DEF QuotaInv, IInv, TypeOK
    <3>2. t \in SlotsOf(w) <=> k = w
      BY <2>2, SlotInWindow
    <3>3. AdmittedIn(SlotsOf(w))' = IF k = w THEN AdmittedIn(SlotsOf(w)) + 1 ELSE AdmittedIn(SlotsOf(w))
      <4>1. SlotsOf(w)' = SlotsOf(w)
        BY DEF SlotsOf
      <4>2. QED
        BY <2>4, <3>2, <4>1
    <3>4. count'[w] = IF k = w THEN count[w] + 1 ELSE count[w]
      BY <2>1, <2>3, <2>6, <1>3 DEF IInv, TypeOK
    <3>5. QED
      BY <3>1, <3>3, <3>4
  <2>7. QED
    BY <2>3, <2>4, <2>5, <2>6 DEF QuotaInv, Covered, Windows
<1>5. ASSUME NEW q \in Requests, NEW estimate \in Estimates(at[q]), Throttle(q, estimate)
      PROVE  QuotaInv'
  BY <1>1, <1>5
     DEF Throttle, QuotaInv, NothingAhead, KeysOutlive, Covered, Slots, Windows
<1>6. ASSUME NEW q \in Requests, NEW counted \in BOOLEAN, FailOpen(q, counted)
      PROVE  QuotaInv'
  <2>1. Return(q) /\ now' = now /\ admitted' = admitted /\ pc[q] = "asking"
    BY <1>6 DEF FailOpen, Return
  <2>2. CASE counted
    <3>1. CountIn(at[q]) /\ IsLate(q)
      BY <1>6, <2>2 DEF FailOpen
    <3>2. /\ KeysOutlive'
          /\ Behind(q) <= 1 => count' = [count EXCEPT ![at[q] \div Window] = @ + 1]
      BY <2>1, <3>1, CountKeeps
    <3>3. at[q] \div Window \in Windows
      BY <2>1, KeysAlive
    <3>4. ASSUME late' <= 1, NEW w \in Windows PROVE AdmittedIn(SlotsOf(w))' <= count'[w]
      <4>1. AdmittedIn(SlotsOf(w)) <= count[w] /\ AdmittedIn(SlotsOf(w)) \in Nat /\ count[w] \in Nat
        BY <3>1, <3>4, <1>3, AdmissionsFinite DEF QuotaInv, IInv, TypeOK
      <4>2. count'[w] \in {count[w], count[w] + 1}
        BY <3>1, <3>2, <3>3, <3>4, <1>3 DEF IInv, TypeOK
      <4>3. AdmittedIn(SlotsOf(w))' = AdmittedIn(SlotsOf(w))
        BY <2>1, <1>1 DEF SlotsOf
      <4>4. QED
        BY <4>1, <4>2, <4>3
    <3>5. QED
      BY <1>1, <2>1, <3>2, <3>4 DEF QuotaInv, NothingAhead, Covered, Slots, Windows
  <2>3. CASE ~counted
    BY <1>1, <1>6, <2>1, <2>3
       DEF FailOpen, QuotaInv, NothingAhead, KeysOutlive, Covered, Slots, Windows
  <2>4. QED
    BY <2>2, <2>3
<1>7. CASE Tick
  <2>1. now' = now + 1 /\ now \in Nat /\ admitted' = admitted
    BY <1>7 DEF Tick, IInv, TypeOK, Slots
  <2>2. NothingAhead'
    BY <2>1 DEF QuotaInv, NothingAhead, Slots
  <2>3. QED
    BY <1>1, <1>7, <2>1, <2>2
       DEF Tick, QuotaInv, KeysOutlive, Covered, Windows
<1>8. CASE UNCHANGED vars
  BY <1>1, <1>8
     DEF vars, QuotaInv, NothingAhead, KeysOutlive, Covered, Slots, Windows
<1>9. QED
  BY <1>2, <1>4, <1>5, <1>6, <1>7, <1>8 DEF Next, Answered

LEMMA AlwaysQuotaInv == Spec => []QuotaInv
<1>1. IInv /\ IInv' /\ QuotaInv /\ [Next]_vars => QuotaInv'
  BY QuotaStep
<1>2. QED
  BY <1>1, QuotaInit, AlwaysIInv, PTL DEF Spec

LEMMA WithinWindow ==
  ASSUME IInv, QuotaInv, late <= 1, NEW w \in Windows
  PROVE  AdmittedIn(SlotsOf(w)) <= Limit
<1>1. AdmittedIn(SlotsOf(w)) \in Nat /\ AdmittedIn(SlotsOf(w)) <= count[w]
  BY AdmissionsFinite DEF QuotaInv, Covered
<1>2. count[w] \in 0..Limit
  BY DEF IInv, TypeOK
<1>3. QED
  BY <1>1, <1>2

\* No window admits more than the limit on an answer of its script, as long as
\* no script has run later than in the next window.  Nothing in the code keeps one
\* from that: the condition is part of the property.
THEOREM WindowQuotaHolds == Spec => []QuotaPerWindow
<1>1. IInv /\ QuotaInv => QuotaPerWindow
  BY WithinWindow DEF QuotaPerWindow
<1>2. QED
  BY <1>1, AlwaysIInv, AlwaysQuotaInv, PTL
-----------------------------------------------------------------------------
(* The sliding window                                                      *)

\* The estimate of a request u slots into its window, let the previous window
\* count p and the current one c: what it stays below bounds p and c.
LEMMA SpanArithmetic ==
  ASSUME Window > 1,
         NEW p \in 0..Limit, NEW c \in 0..Limit, NEW u \in 0..(Window - 2),
         NEW g \in Int, p * (Window - u) <= (g + 1) * Window, g + c < Limit
  PROVE  p + c + 1 <= 2 * Limit - (2 * Limit - 1) \div Window
<1> DEFINE y == Limit - (p - g - 1)
<1>1. /\ Limit \in Nat /\ Limit > 0 /\ Window \in Nat
      /\ p \in Nat /\ c \in Nat /\ u \in Nat /\ y \in Int
  OBVIOUS
<1>2. y * Window >= 2 * Limit
  <2>1. /\ p * (Window - u) = p * Window - p * u
        /\ y * Window = Limit * Window - p * Window + (g + 1) * Window
        /\ Limit * (Window - 2) = Limit * Window - 2 * Limit
    BY <1>1
  <2>2. p * u <= Limit * (Window - 2)
    <3>1. p * u <= Limit * u /\ Limit * u <= Limit * (Window - 2)
      BY <1>1, Products
    <3>2. p * u \in Int /\ Limit * u \in Int /\ Limit * (Window - 2) \in Int
      BY <1>1
    <3>3. QED
      BY <3>1, <3>2
  <2>3. p * Window - p * u <= (g + 1) * Window
    BY <2>1
  <2> DEFINE a == p * Window
             b == p * u
             d == (g + 1) * Window
             e == Limit * Window
             f == y * Window
  <2>4. a \in Int /\ b \in Int /\ d \in Int /\ e \in Int /\ f \in Int
    BY <1>1
  <2>5. a - b <= d /\ f = e - a + d /\ b <= e - 2 * Limit
    BY <2>1, <2>2, <2>3
  <2> HIDE DEF a, b, d, e, f, y
  <2>6. f >= 2 * Limit
    BY <1>1, <2>4, <2>5
  <2>7. QED
    BY <2>6 DEF f
<1>3. y \in Nat
  <2> HIDE DEF y
  <2>1. ASSUME y <= 0 PROVE FALSE
    <3>1. y * Window <= 0
      BY <2>1, <1>1
    <3>2. y * Window \in Int
      BY <1>1
    <3>3. QED
      BY <3>1, <3>2, <1>1, <1>2
  <2>2. QED
    BY <2>1, <1>1
<1>4. (2 * Limit - 1) \div Window < y /\ (2 * Limit - 1) \div Window \in Nat
  <2> HIDE DEF y
  <2>1. 2 * Limit - 1 \in Nat /\ 2 * Limit - 1 < y * Window
    <3>1. y * Window \in Int
      BY <1>1
    <3>2. QED
      BY <3>1, <1>1, <1>2
  <2>2. QED
    BY <2>1, <1>3, DivBelow, DivFacts
<1> DEFINE z == (2 * Limit - 1) \div Window
<1>5. z < y /\ z \in Nat
  BY <1>4
<1> HIDE DEF z
<1>6. p + c + 1 <= 2 * Limit - z
  BY <1>1, <1>5
<1>7. QED
  BY <1>6 DEF z

\* A whole window's quota is within that bound.
LEMMA WindowFitsSpan ==
  ASSUME Window > 1
  PROVE  /\ Limit <= 2 * Limit - (2 * Limit - 1) \div Window
         /\ 2 * Limit - (2 * Limit - 1) \div Window \in Int
<1>1. Limit \in Nat /\ Limit > 0 /\ Window \in Nat
  OBVIOUS
<1>2. Limit * 2 <= Limit * Window
  BY <1>1, Products
<1>3. 2 * Limit - 1 \in Nat /\ 2 * Limit - 1 < Limit * Window
  <2>1. Limit * Window \in Nat
    BY <1>1
  <2>2. QED
    BY <2>1, <1>1, <1>2
<1> DEFINE z == (2 * Limit - 1) \div Window
<1>4. z < Limit /\ z \in Nat
  BY <1>1, <1>3, DivBelow, DivFacts
<1> HIDE DEF z
<1>5. Limit <= 2 * Limit - z /\ 2 * Limit - z \in Int
  BY <1>1, <1>4
<1>6. QED
  BY <1>5 DEF z
\* What an estimate says of the previous window's count, rounding included.
LEMMA EstimateBound ==
  ASSUME TypeOK, NEW t \in Slots, NEW e \in Estimates(t)
  PROVE  /\ e \in Nat
         /\ Get((t \div Window) - 1) * (Window - (t % Window))
              <= (e - Get(t \div Window) + 1) * Window
<1> DEFINE weighed == Weighed(t)
           c == Get(t \div Window)
<1>1. /\ weighed \in Nat /\ c \in 0..Limit /\ e \in Nat
      /\ \/ e = weighed \div Window + c
         \/ e = weighed \div Window + c - 1 /\ weighed % Window = 0
  BY EstimateFacts
<1> DEFINE d == weighed \div Window
           o == weighed % Window
<1>2. d \in Nat /\ o \in 0..(Window - 1) /\ weighed = d * Window + o
  BY <1>1, DivFacts
<1> HIDE DEF weighed, c, d, o
<1>3. (e = d + c) \/ (e = d + c - 1 /\ o = 0)
  BY <1>1 DEF d, o
<1>4. CASE e = d + c
  <2>1. e - c + 1 = d + 1
    BY <1>1, <1>2, <1>4
  <2>2. (d + 1) * Window = d * Window + Window /\ d * Window \in Int /\ Window \in Nat
    BY <1>2
  <2>3. weighed <= (e - c + 1) * Window
    BY <1>2, <2>1, <2>2
  <2>4. QED
    BY <1>1, <2>3 DEF weighed, c, Weighed
<1>5. CASE e = d + c - 1 /\ o = 0
  <2>1. e - c + 1 = d
    BY <1>1, <1>2, <1>5
  <2>2. d * Window \in Int
    BY <1>2
  <2>3. weighed <= (e - c + 1) * Window
    BY <1>2, <1>5, <2>1, <2>2
  <2>4. QED
    BY <1>1, <2>3 DEF weighed, c, Weighed
<1>6. QED
  BY <1>3, <1>4, <1>5

\* Where a slot of a span lies: in the window the span begins in, or in the next
\* one, and then not in that window's last slot.
LEMMA SpanSlots ==
  ASSUME NEW s \in Slots, NEW t \in Slots, t \in s..(s + Window - 1)
  PROVE  \/ t \div Window = s \div Window
         \/ /\ t \div Window = (s \div Window) + 1
            /\ t % Window < s % Window
<1> DEFINE i == s \div Window
           a == s % Window
           j == t \div Window
           b == t % Window
<1>1. /\ i \in Nat /\ a \in 0..(Window - 1) /\ s = i * Window + a
      /\ j \in Nat /\ b \in 0..(Window - 1) /\ t = j * Window + b
  <2>1. s \in Nat /\ t \in Nat
    BY DEF Slots
  <2>2. QED
    BY <2>1, DivFacts
<1>2. s \in Nat /\ t \in Nat /\ s <= t /\ t <= s + Window - 1 /\ Window \in Nat /\ Window > 0
  BY DEF Slots
<1> HIDE DEF i, a, j, b
<1>3. ASSUME j < i PROVE FALSE
  <2>1. (j + 1) * Window <= i * Window
    BY <1>1, <1>2, <1>3, Products
  <2>2. (j + 1) * Window = j * Window + Window /\ j * Window \in Int /\ i * Window \in Int
    BY <1>1, <1>2
  <2>3. QED
    BY <1>1, <1>2, <2>1, <2>2
<1>4. ASSUME j > i + 1 PROVE FALSE
  <2>1. (i + 2) * Window <= j * Window
    BY <1>1, <1>2, <1>4, Products
  <2>2. (i + 2) * Window = i * Window + 2 * Window /\ j * Window \in Int /\ i * Window \in Int
    BY <1>1, <1>2
  <2>3. QED
    BY <1>1, <1>2, <2>1, <2>2
<1>5. ASSUME j = i + 1 PROVE b < a
  <2>1. j * Window = i * Window + Window /\ i * Window \in Int
    BY <1>1, <1>2, <1>5
  <2>2. QED
    BY <1>1, <1>2, <2>1
<1>6. j = i \/ (j = i + 1 /\ b < a)
  BY <1>1, <1>3, <1>4, <1>5
<1>7. QED
  BY <1>6 DEF i, a, j, b

\* An admission in slot t that was not late: the window before it and its own
\* have admitted little enough for every span with t in it.
LEMMA SpanHasRoom ==
  ASSUME Window > 1, IInv, QuotaInv, late = 0, NEW q \in Requests, pc[q] = "asking",
         NEW estimate \in Estimates(at[q]), estimate < Limit,
         at[q] \div Window = now \div Window,
         NEW s \in Slots, at[q] \in s..(s + Window - 1)
  PROVE  AdmittedIn(s..(s + Window - 1)) + 1 <= 2 * Limit - (2 * Limit - 1) \div Window
<1> DEFINE t == at[q]
           k == t \div Window
           span == s..(s + Window - 1)
           bound == 2 * Limit - (2 * Limit - 1) \div Window
<1>1. /\ t \in Slots /\ t <= now /\ now \in Slots /\ k \in Windows /\ k \in Int
      /\ Get(k) = count[k]
      /\ k - 1 \in Windows => Get(k - 1) = count[k - 1]
  <2>1. /\ t \in Slots /\ t <= now /\ now \in Slots /\ k \in Windows /\ k \in Int
        /\ k - 1 \in Windows => Get(k - 1) = count[k - 1]
    BY KeysAlive DEF IInv, TypeOK, Windows
  <2>2. Behind(q) = 0
    BY <2>1 DEF Behind, Windows
  <2>3. QED
    BY <2>1, <2>2, KeysAlive
<1>2. /\ AdmittedIn(SlotsOf(k)) \in Nat /\ AdmittedIn(SlotsOf(k)) <= Get(k)
      /\ Get(k) \in 0..Limit /\ Get(k - 1) \in 0..Limit
  BY <1>1, AdmissionsFinite, GetType DEF IInv, QuotaInv, Covered
<1>3. /\ estimate \in Nat
      /\ Get(k - 1) * (Window - (t % Window)) <= (estimate - Get(k) + 1) * Window
  BY <1>1, EstimateBound DEF IInv
<1>4. Get(k) <= estimate
  BY <1>1, EstimateFacts DEF IInv
<1>5. IsFiniteSet(Admissions(Slots)) /\ TypeOK
  BY DEF QuotaInv, IInv
<1>6. AdmittedIn(span) \in Nat /\ AdmittedIn(SlotsOf(k - 1)) \in Nat
  BY <1>5, AdmissionsFinite
<1>7. ASSUME NEW r \in span \cap Slots, admitted[r] > 0
      PROVE  r \div Window <= k
  <2>1. r <= now
    BY <1>7 DEF QuotaInv, NothingAhead, IInv, TypeOK, Slots
  <2>2. r \in Nat /\ now \in Nat
    BY <1>1 DEF Slots
  <2>3. QED
    BY <2>1, <2>2, DivMonotone
<1>8. ASSUME NEW r \in span \cap Slots, admitted[r] > 0
      PROVE  \/ r \in SlotsOf(s \div Window) /\ s \div Window \in Windows
             \/ r \in SlotsOf(k)
  <2>1. s \div Window \in Windows /\ s \div Window \in Int /\ r \div Window \in Int
    BY WindowOf DEF Windows
  <2>2. \/ r \div Window = s \div Window
        \/ r \div Window = (s \div Window) + 1
    BY SpanSlots
  <2>3. k = s \div Window \/ k = (s \div Window) + 1
    BY <1>1, SpanSlots
  <2>4. r \div Window \in {s \div Window, k}
    BY <1>1, <1>7, <1>8, <2>1, <2>2, <2>3
  <2>5. QED
    BY <1>1, <2>1, <2>4, SlotInWindow
<1>9. CASE k = s \div Window
  <2>1. Admissions(span) \subseteq Admissions(SlotsOf(k))
    <3>1. ASSUME NEW x \in Admissions(span) PROVE x \in Admissions(SlotsOf(k))
      <4>1. PICK r \in span \cap Slots, n \in Nat : 1 <= n /\ n <= admitted[r] /\ x = <<r, n>>
        BY <1>5, AdmissionIn
      <4>2. admitted[r] \in Nat
        BY <1>5 DEF TypeOK
      <4>3. admitted[r] > 0
        BY <4>1, <4>2
      <4>4. r \in SlotsOf(k)
        BY <1>8, <1>9, <4>3
      <4>5. QED
        BY <1>5, <4>1, <4>4, AdmissionIn
    <3>2. QED
      BY <3>1
  <2>2. AdmittedIn(span) <= AdmittedIn(SlotsOf(k))
    BY <1>5, <2>1, AdmittedMonotone
  <2>3. AdmittedIn(span) + 1 <= Limit
    <3> HIDE DEF k, span
    <3>1. QED
      BY <1>2, <1>3, <1>4, <1>6, <2>2
  <2>4. Limit <= bound /\ bound \in Int
    BY WindowFitsSpan
  <2> HIDE DEF span, bound
  <2>5. AdmittedIn(span) + 1 <= bound
    BY <1>6, <2>3, <2>4
  <2>6. QED
    BY <2>5 DEF span, bound
<1>10. CASE k = (s \div Window) + 1 /\ t % Window < s % Window
  <2>1. k - 1 = s \div Window /\ k - 1 \in Windows
    <3>1. s \div Window \in Windows /\ s \div Window \in Int
      BY WindowOf DEF Windows
    <3>2. QED
      BY <1>10, <3>1
  <2>2. Admissions(span) \subseteq Admissions(SlotsOf(k - 1)) \cup Admissions(SlotsOf(k))
    <3>1. ASSUME NEW x \in Admissions(span)
          PROVE  x \in Admissions(SlotsOf(k - 1)) \cup Admissions(SlotsOf(k))
      <4>1. PICK r \in span \cap Slots, n \in Nat : 1 <= n /\ n <= admitted[r] /\ x = <<r, n>>
        BY <1>5, AdmissionIn
      <4>2. admitted[r] \in Nat
        BY <1>5 DEF TypeOK
      <4>3. admitted[r] > 0
        BY <4>1, <4>2
      <4>4. r \in SlotsOf(k - 1) \/ r \in SlotsOf(k)
        BY <1>8, <2>1, <4>3
      <4>5. QED
        BY <1>5, <4>1, <4>4, AdmissionIn
    <3>2. QED
      BY <3>1
  <2>3. AdmittedIn(span) <= AdmittedIn(SlotsOf(k - 1)) + AdmittedIn(SlotsOf(k))
    BY <1>5, <2>2, AdmittedSplit
  <2>4. AdmittedIn(SlotsOf(k - 1)) <= Get(k - 1)
    BY <1>1, <2>1 DEF QuotaInv, Covered
  <2> DEFINE p == Get(k - 1)
             c == Get(k)
             u == t % Window
             g == estimate - c
  <2>5. u \in 0..(Window - 2)
    <3>1. u \in 0..(Window - 1) /\ s % Window \in 0..(Window - 1)
      BY <1>1, WindowOf
    <3>2. QED
      BY <3>1, <1>10
  <2>6. p + c + 1 <= bound
    <3>1. g \in Int /\ p \in 0..Limit /\ c \in 0..Limit
      BY <1>2, <1>3
    <3>2. p * (Window - u) <= (g + 1) * Window
      BY <1>3
    <3>3. g + c < Limit
      BY <1>2, <1>3
    <3> HIDE DEF p, c, u, g
    <3>4. QED
      BY <2>5, <3>1, <3>2, <3>3, SpanArithmetic
  <2>7. bound \in Int
    BY WindowFitsSpan
  <2>8. AdmittedIn(span) <= p + c
    <3> HIDE DEF k, span
    <3>1. QED
      BY <1>2, <1>6, <2>3, <2>4
  <2>9. p \in Nat /\ c \in Nat
    BY <1>2
  <2> HIDE DEF span, bound, p, c
  <2>10. AdmittedIn(span) + 1 <= bound
    BY <1>6, <2>6, <2>7, <2>8, <2>9
  <2>11. QED
    BY <2>10 DEF span, bound
<1>11. QED
  BY <1>1, <1>9, <1>10, SpanSlots

LEMMA SpanStep ==
  ASSUME Window > 1, IInv, IInv', QuotaInv, QuotaInAnySpan, [Next]_vars
  PROVE  QuotaInAnySpan'
<1> DEFINE span(s) == s..(s + Window - 1)
           bound == 2 * Limit - (2 * Limit - 1) \div Window
<1>1. late' = 0 => late = 0
  <2>1. late \in Nat
    BY DEF IInv, TypeOK, Windows
  <2>2. ASSUME NEW q \in Requests, IsLate(q), late' = 0 PROVE late = 0
    BY <2>1, <2>2, LateGrows
  <2>3. (\E q \in Requests : IsLate(q)) \/ late' = late
    BY DEF Next, Ask, Answered, Allow, Throttle, FailOpen, Tick, vars
  <2>4. QED
    BY <2>2, <2>3
<1>2. CASE admitted' = admitted
  <2>1. \A s \in Slots : AdmittedIn(span(s))' = AdmittedIn(span(s))
    BY <1>2 DEF AdmittedIn, Admissions, Slots
  <2>2. QED
    BY <1>1, <2>1 DEF QuotaInAnySpan, Slots
<1>3. ASSUME NEW q \in Requests, NEW estimate \in Estimates(at[q]), Allow(q, estimate)
      PROVE  QuotaInAnySpan'
  <2> SUFFICES ASSUME late' = 0, NEW s \in Slots
               PROVE  AdmittedIn(span(s))' <= bound
    BY DEF QuotaInAnySpan, Slots
  <2>1. /\ pc[q] = "asking" /\ estimate < Limit
        /\ admitted' = [admitted EXCEPT ![at[q]] = @ + 1]
        /\ IsLate(q) /\ late = 0
    BY <1>1, <1>3 DEF Allow, Return
  <2>2. at[q] \in Slots /\ at[q] <= now /\ now \in Slots
    BY <2>1, KeysAlive DEF IInv, TypeOK
  <2>3. at[q] \div Window = now \div Window
    <3>1. at[q] \div Window \in Int /\ now \div Window \in Int
      BY <2>2, DivFacts DEF Slots
    <3>2. Behind(q) = 0
      BY <2>1, LateGrows DEF Windows
    <3>3. QED
      BY <3>1, <3>2 DEF Behind
  <2>4. AdmittedIn(span(s))' = IF at[q] \in span(s) THEN AdmittedIn(span(s)) + 1
                                                   ELSE AdmittedIn(span(s))
    <3>1. \A S : AdmittedIn(S)' = IF at[q] \in S THEN AdmittedIn(S) + 1 ELSE AdmittedIn(S)
      BY <2>1, <2>2, OneMore DEF IInv, QuotaInv
    <3>2. QED
      BY <3>1
  <2>5. CASE at[q] \in span(s)
    BY <2>1, <2>3, <2>4, <2>5, SpanHasRoom
  <2>6. CASE at[q] \notin span(s)
    BY <2>1, <2>4, <2>6 DEF QuotaInAnySpan
  <2>7. QED
    BY <2>5, <2>6
<1>4. QED
  BY <1>2, <1>3 DEF Next, Ask, Answered, Throttle, FailOpen, Tick, vars

\* No span of one window's length admits more than the sliding estimate allows,
\* for every limit and window length above one slot (60 in the code), as long as
\* every script has run in the window of its request.
THEOREM SpanQuotaHolds == ASSUME Window > 1 PROVE Spec => []QuotaInAnySpan
<1>1. Init => QuotaInAnySpan
  <2> SUFFICES ASSUME Init PROVE QuotaInAnySpan
    OBVIOUS
  <2>1. ASSUME NEW span PROVE AdmittedIn(span) = 0
    <3>1. Admissions(span) = {}
      BY DEF Init, Admissions
    <3>2. QED
      BY <3>1, FS_EmptySet DEF AdmittedIn
  <2> DEFINE bound == 2 * Limit - (2 * Limit - 1) \div Window
  <2>2. 0 <= bound
    <3>1. Limit <= bound /\ bound \in Int
      BY WindowFitsSpan
    <3> HIDE DEF bound
    <3>2. QED
      BY <3>1
  <2>3. QED
    BY <2>1, <2>2 DEF QuotaInAnySpan
<1>2. IInv /\ IInv' /\ QuotaInv /\ QuotaInAnySpan /\ [Next]_vars => QuotaInAnySpan'
  BY SpanStep
<1>3. QED
  BY <1>1, <1>2, AlwaysIInv, AlwaysQuotaInv, PTL DEF Spec
=============================================================================
