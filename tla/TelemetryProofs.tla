--------------------------- MODULE TelemetryProofs ---------------------------
(***************************************************************************)
(* Theorems about Telemetry for any number of requests, any bodies and any *)
(* size of a chunk and of an export.                                       *)
(***************************************************************************)
EXTENDS Telemetry, FiniteSetTheorems, WellFoundedInduction, TLAPS

-----------------------------------------------------------------------------
(* Loops                                                                   *)

\* A set of natural numbers has a least element.
LEMMA Least == ASSUME NEW T \in SUBSET Nat, T # {} PROVE \E x \in T : \A y \in T : x <= y
<1> DEFINE R == OpToRel(<, Nat)
<1>1. IsWellFoundedOn(R, Nat)
  BY NatLessThanWellFounded
<1>2. \A x, y \in Nat : x < y => <<x, y>> \in R
  BY DEF OpToRel
<1> HIDE DEF R
<1>3. PICK x \in T : \A y \in T : ~ (<<y, x>> \in R)
  BY <1>1, WFMin
<1>4. \A y \in T : ~(y < x)
  BY <1>2, <1>3
<1>5. QED
  BY <1>4

\* A set that holds 0 and with every number its successor holds them all.  The
\* set stands for the predicate of an induction.
LEMMA Induction ==
  ASSUME NEW n \in Nat, NEW P, 0 \in P, \A i \in 1..n : i - 1 \in P => i \in P
  PROVE  0..n \subseteq P
<1> DEFINE T == (0..n) \ P
<1>1. SUFFICES ASSUME T # {} PROVE FALSE
  OBVIOUS
<1>2. PICK m \in T : \A k \in T : m <= k
  <2>1. T \in SUBSET Nat
    OBVIOUS
  <2> HIDE DEF T
  <2>2. QED
    BY <1>1, <2>1, Least
<1>3. m \in 1..n /\ m - 1 \in 0..n /\ m - 1 \notin T
  BY <1>2
<1>4. QED
  BY <1>2, <1>3

\* f is what n rounds of a loop compute from start.
IsRun(f, n, start, round) == f[0] = start /\ \A i \in 1..n : f[i] = round[<<i, f[i - 1]>>]

\* A loop of n rounds computes something, whatever a round does.
LEMMA LoopExists ==
  ASSUME NEW n \in Nat, NEW S, NEW start \in S, NEW round \in [(1..n) \X S -> S]
  PROVE  \E f \in [0..n -> S] : IsRun(f, n, start, round)
<1> DEFINE Runs(m) == \E f \in [0..m -> S] : IsRun(f, m, start, round)
           P == {m \in 0..n : Runs(m)}
<1>1. Runs(0)
  <2> DEFINE f == [i \in 0..0 |-> start]
  <2>1. f \in [0..0 -> S] /\ f[0] = start /\ \A i \in 1..0 : f[i] = round[<<i, f[i - 1]>>]
    OBVIOUS
  <2>2. QED
    BY <2>1 DEF IsRun
<1>2. ASSUME NEW m \in 1..n, Runs(m - 1) PROVE Runs(m)
  <2>1. PICK f \in [0..(m - 1) -> S] :
          f[0] = start /\ \A i \in 1..(m - 1) : f[i] = round[<<i, f[i - 1]>>]
    BY <1>2 DEF IsRun
  <2> DEFINE g == [i \in 0..m |-> IF i = m THEN round[<<m, f[m - 1]>>] ELSE f[i]]
  <2>2. g \in [0..m -> S]
    <3>1. m - 1 \in 0..(m - 1) /\ <<m, f[m - 1]>> \in (1..n) \X S
      OBVIOUS
    <3>2. round[<<m, f[m - 1]>>] \in S
      BY <3>1
    <3>3. \A i \in 0..m : i # m => i \in 0..(m - 1)
      OBVIOUS
    <3>4. QED
      BY <3>2, <3>3
  <2>3. g[0] = start
    BY <2>1
  <2>4. ASSUME NEW i \in 1..m PROVE g[i] = round[<<i, g[i - 1]>>]
    <3>1. i - 1 \in 0..m /\ i - 1 # m /\ i \in 0..m
      OBVIOUS
    <3>2. g[i - 1] = f[i - 1]
      BY <3>1
    <3>3. CASE i = m
      BY <3>1, <3>2, <3>3
    <3>4. CASE i # m
      BY <2>1, <3>1, <3>2, <3>4
    <3>5. QED
      BY <3>3, <3>4
  <2>5. QED
    <3> HIDE DEF g
    <3>1. QED
      BY <2>2, <2>3, <2>4 DEF IsRun
<1> HIDE DEF Runs
<1>3. 0..n \subseteq P
  <2>1. 0 \in P /\ \A m \in 1..n : m - 1 \in P => m \in P
    BY <1>1, <1>2
  <2> HIDE DEF P
  <2>2. QED
    BY <2>1, Induction
<1>4. Runs(n)
  BY <1>3
<1>5. QED
  BY <1>4 DEF Runs

-----------------------------------------------------------------------------
(* The newest reading of a body                                            *)

Instants == {x.at : x \in Readings}

\* A body is a finite sequence of readings.
LEMMA BodyFacts ==
  ASSUME NEW b \in Batches
  PROVE  /\ Size(b) \in Nat /\ DOMAIN b = 1..Size(b)
         /\ \A i \in DOMAIN b : /\ b[i] \in Readings /\ b[i].tid \in Transformers
                                /\ b[i].at \in Nat /\ b[i].at \in Instants /\ b[i].at # None
<1>1. IsFiniteSet(DOMAIN b) /\ DOMAIN b = 1..Size(b)
  BY TelemetryAssumption
<1>2. Size(b) \in Nat
  BY <1>1, FS_CardinalityType DEF Size
<1>3. \A i \in DOMAIN b : b[i] \in Readings
  BY DEF Readings, Range
<1>4. QED
  BY <1>1, <1>2, <1>3, TelemetryAssumption DEF Transformers, Instants

\* Round by round, what the loop over a body has kept.
LEMMA KeptUnfolds ==
  ASSUME NEW b \in Batches, NEW t
  PROVE  \E kept \in [0..Size(b) -> Instants \cup {None}] :
           /\ Latest(b, t) = kept[Size(b)]
           /\ kept[0] = None
           /\ \A i \in 1..Size(b) :
                kept[i] = IF b[i].tid = t /\ (kept[i - 1] = None \/ b[i].at > kept[i - 1])
                          THEN b[i].at ELSE kept[i - 1]
<1> DEFINE n == Size(b)
           S == Instants \cup {None}
           round == [p \in (1..n) \X S |->
                       IF b[p[1]].tid = t /\ (p[2] = None \/ b[p[1]].at > p[2])
                       THEN b[p[1]].at ELSE p[2]]
           kept[i \in 0..n] ==
             IF i = 0 THEN None
             ELSE IF b[i].tid = t /\ (kept[i - 1] = None \/ b[i].at > kept[i - 1]) THEN b[i].at
             ELSE kept[i - 1]
           Kept(f) == f = [i \in 0..n |->
             IF i = 0 THEN None
             ELSE IF b[i].tid = t /\ (f[i - 1] = None \/ b[i].at > f[i - 1]) THEN b[i].at
             ELSE f[i - 1]]
<1>1. Latest(b, t) = kept[n]
  BY DEF Latest
<1>2. kept = CHOOSE f : Kept(f)
  OBVIOUS
<1>3. n \in Nat /\ None \in S /\ \A i \in 1..n : b[i].at \in S
  BY BodyFacts
<1> HIDE DEF n, S
<1>4. round \in [(1..n) \X S -> S]
  <2>1. \A p \in (1..n) \X S : p[1] \in 1..n /\ p[2] \in S
    OBVIOUS
  <2>2. QED
    BY <1>3, <2>1
<1>5. PICK f \in [0..n -> S] : IsRun(f, n, None, round)
  <2> HIDE DEF round
  <2>1. QED
    BY <1>3, <1>4, LoopExists
<1>6. f[0] = None
  BY <1>5 DEF IsRun
<1>7. ASSUME NEW i \in 1..n
      PROVE  f[i] = IF b[i].tid = t /\ (f[i - 1] = None \/ b[i].at > f[i - 1])
                    THEN b[i].at ELSE f[i - 1]
  <2>1. i - 1 \in 0..n
    BY <1>3
  <2>2. <<i, f[i - 1]>> \in (1..n) \X S
    BY <2>1
  <2>3. f[i] = round[<<i, f[i - 1]>>]
    BY <1>5 DEF IsRun
  <2>4. QED
    BY <2>2, <2>3
<1>8. Kept(f)
  <2>1. \A i \in 0..n : i # 0 => i \in 1..n
    BY <1>3
  <2>2. QED
    BY <1>6, <1>7, <2>1
<1>9. Kept(kept)
  <2> HIDE DEF Kept, kept
  <2>1. QED
    BY <1>2, <1>8
<1>10. /\ kept = [i \in 0..n |-> kept[i]]
       /\ kept[0] = None
       /\ \A i \in 1..n : kept[i] = IF b[i].tid = t /\ (kept[i - 1] = None \/ b[i].at > kept[i - 1])
                                    THEN b[i].at ELSE kept[i - 1]
  <2> HIDE DEF kept
  <2>1. \A i \in 1..n : i \in 0..n /\ i # 0
    BY <1>3
  <2>2. 0 \in 0..n
    BY <1>3
  <2>3. QED
    BY <1>9, <2>1, <2>2
<1> HIDE DEF kept, Kept
<1>11. \A i \in 0..n : kept[i] \in S
  <2> DEFINE P == {i \in 0..n : kept[i] \in S}
  <2>1. 0 \in P
    BY <1>3, <1>10
  <2>2. ASSUME NEW i \in 1..n, i - 1 \in P PROVE i \in P
    <3>1. i \in 0..n /\ kept[i - 1] \in S
      BY <1>3, <2>2
    <3>2. kept[i] = b[i].at \/ kept[i] = kept[i - 1]
      BY <1>10
    <3>3. QED
      BY <1>3, <3>1, <3>2
  <2> HIDE DEF P
  <2>3. 0..n \subseteq P
    BY <1>3, <2>1, <2>2, Induction
  <2>4. QED
    BY <2>3 DEF P
<1>12. kept \in [0..n -> S]
  BY <1>10, <1>11
<1>13. QED
  BY <1>1, <1>10, <1>12 DEF n, S

\* The loop keeps the newest reading of a transformer that the body names.
LEMMA LatestIsNewest ==
  ASSUME NEW b \in Batches, NEW t \in Named(b)
  PROVE  /\ \E i \in DOMAIN b : b[i].tid = t /\ b[i].at = Latest(b, t)
         /\ \A i \in DOMAIN b : b[i].tid = t => b[i].at <= Latest(b, t)
<1> DEFINE n == Size(b)
<1>1. n \in Nat /\ DOMAIN b = 1..n /\ \A i \in 1..n : b[i].at \in Nat /\ b[i].at # None
  BY BodyFacts
<1>2. PICK kept : /\ Latest(b, t) = kept[n]
                  /\ kept[0] = None
                  /\ \A i \in 1..n :
                       kept[i] = IF b[i].tid = t /\ (kept[i - 1] = None \/ b[i].at > kept[i - 1])
                                 THEN b[i].at ELSE kept[i - 1]
  BY KeptUnfolds
<1> HIDE DEF n
<1> DEFINE Found(i)   == kept[i] = None \/ \E j \in 1..i : b[j].tid = t /\ b[j].at = kept[i]
           Newest_(i) == \A j \in 1..i : b[j].tid = t => kept[i] # None /\ b[j].at <= kept[i]
           P == {i \in 0..n : Found(i) /\ Newest_(i)}
<1>3. 0 \in P
  BY <1>1, <1>2
<1>4. ASSUME NEW i \in 1..n, i - 1 \in P PROVE i \in P
  <2>1. /\ i - 1 \in 0..n /\ i \in 0..n /\ i \in 1..i
        /\ \A j \in 1..i : j = i \/ j \in 1..(i - 1)
        /\ \A j \in 1..(i - 1) : j \in 1..i /\ j \in 1..n
    BY <1>1
  <2>2. Found(i - 1) /\ Newest_(i - 1)
    BY <1>4
  <2>3. CASE b[i].tid = t /\ (kept[i - 1] = None \/ b[i].at > kept[i - 1])
    <3>1. kept[i] = b[i].at
      BY <1>2, <2>3
    <3>2. Found(i)
      BY <2>1, <2>3, <3>1
    <3>3. ASSUME NEW j \in 1..i, b[j].tid = t PROVE kept[i] # None /\ b[j].at <= kept[i]
      <4>1. CASE j = i
        BY <1>1, <3>1, <4>1
      <4>2. CASE j \in 1..(i - 1)
        <5>1. kept[i - 1] # None /\ b[j].at <= kept[i - 1]
          BY <2>2, <3>3, <4>2
        <5>2. PICK k \in 1..(i - 1) : b[k].at = kept[i - 1]
          BY <2>2, <5>1
        <5>3. b[k].at \in Nat /\ b[j].at \in Nat /\ b[i].at \in Nat /\ b[i].at # None
          BY <1>1, <2>1, <4>2
        <5>4. QED
          BY <2>3, <3>1, <5>1, <5>2, <5>3
      <4>3. QED
        BY <2>1, <4>1, <4>2
    <3>4. QED
      BY <2>1, <3>2, <3>3
  <2>4. CASE ~(b[i].tid = t /\ (kept[i - 1] = None \/ b[i].at > kept[i - 1]))
    <3>1. kept[i] = kept[i - 1]
      BY <1>2, <2>4
    <3>2. Found(i)
      BY <2>1, <2>2, <3>1
    <3>3. ASSUME NEW j \in 1..i, b[j].tid = t PROVE kept[i] # None /\ b[j].at <= kept[i]
      <4>1. CASE j = i
        <5>1. kept[i - 1] # None /\ ~(b[i].at > kept[i - 1])
          BY <2>4, <3>3, <4>1
        <5>2. PICK k \in 1..(i - 1) : b[k].at = kept[i - 1]
          BY <2>2, <5>1
        <5>3. b[k].at \in Nat /\ b[i].at \in Nat
          BY <1>1, <2>1
        <5>4. QED
          BY <3>1, <4>1, <5>1, <5>2, <5>3
      <4>2. CASE j \in 1..(i - 1)
        BY <2>2, <3>1, <3>3, <4>2
      <4>3. QED
        BY <2>1, <4>1, <4>2
    <3>4. QED
      BY <2>1, <3>2, <3>3
  <2>5. QED
    BY <2>3, <2>4
<1>5. Found(n) /\ Newest_(n)
  <2>1. 0..n \subseteq P
    <3> HIDE DEF P
    <3>1. QED
      BY <1>1, <1>3, <1>4, Induction
  <2>2. n \in 0..n
    BY <1>1
  <2>3. QED
    BY <2>1, <2>2
<1>6. PICK i \in 1..n : b[i].tid = t
  BY <1>1 DEF Named, Range
<1>7. QED
  BY <1>1, <1>2, <1>5, <1>6

-----------------------------------------------------------------------------
(* The export                                                              *)

\* stream_dataset_batches and its consumer: the batches together are as long as
\* what is streamed, whatever the size of a chunk.
LEMMA StreamCounts == ASSUME NEW n \in Nat PROVE StreamBatches(n) = n
<1> DEFINE S == [total : Nat, batch : Nat]
           start == [total |-> 0, batch |-> 0]
           step(s) == IF s.batch + 1 >= Chunk THEN [total |-> s.total + (s.batch + 1), batch |-> 0]
                      ELSE [total |-> s.total, batch |-> s.batch + 1]
           round == [p \in (1..n) \X S |-> step(p[2])]
           loop[i \in 0..n] ==
             IF i = 0 THEN [total |-> 0, batch |-> 0]
             ELSE LET batch == loop[i - 1].batch + 1 IN
                  IF batch >= Chunk THEN [total |-> loop[i - 1].total + batch, batch |-> 0]
                  ELSE [total |-> loop[i - 1].total, batch |-> batch]
           Streams(f) == f = [i \in 0..n |->
             IF i = 0 THEN [total |-> 0, batch |-> 0]
             ELSE LET batch == f[i - 1].batch + 1 IN
                  IF batch >= Chunk THEN [total |-> f[i - 1].total + batch, batch |-> 0]
                  ELSE [total |-> f[i - 1].total, batch |-> batch]]
<1>1. Streamed(n) = loop[n]
  BY DEF Streamed
<1>2. loop = CHOOSE f : Streams(f)
  OBVIOUS
<1>3. Chunk \in Nat
  BY TelemetryAssumption
<1>4. start \in S /\ \A s \in S : step(s) \in S /\ step(s).total + step(s).batch = s.total + s.batch + 1
  BY <1>3
<1>5. round \in [(1..n) \X S -> S]
  <2> HIDE DEF S, step
  <2>1. \A p \in (1..n) \X S : p[2] \in S
    OBVIOUS
  <2>2. QED
    BY <1>4, <2>1
<1>6. PICK f \in [0..n -> S] : IsRun(f, n, start, round)
  <2> HIDE DEF round, S, start
  <2>1. QED
    BY <1>4, <1>5, LoopExists
<1>7. f[0] = start
  BY <1>6 DEF IsRun
<1>8. ASSUME NEW i \in 1..n PROVE f[i] = step(f[i - 1])
  <2> HIDE DEF S, step
  <2>1. i - 1 \in 0..n
    OBVIOUS
  <2>2. <<i, f[i - 1]>> \in (1..n) \X S
    BY <2>1
  <2>3. f[i] = round[<<i, f[i - 1]>>]
    BY <1>6 DEF IsRun
  <2>4. QED
    BY <2>2, <2>3
<1>9. Streams(f)
  <2> HIDE DEF S, round
  <2>1. \A i \in 0..n : i # 0 => i \in 1..n
    OBVIOUS
  <2>2. QED
    BY <1>7, <1>8, <2>1
<1>10. Streams(loop)
  <2> HIDE DEF Streams, loop
  <2>1. QED
    BY <1>2, <1>9
<1>11. loop[0] = start /\ \A i \in 1..n : loop[i] = step(loop[i - 1])
  <2> HIDE DEF loop
  <2>1. \A i \in 1..n : i \in 0..n /\ i # 0
    OBVIOUS
  <2>2. 0 \in 0..n
    OBVIOUS
  <2>3. QED
    BY <1>10, <2>1, <2>2
<1> HIDE DEF loop, Streams
<1>12. loop[n] \in S /\ loop[n].total + loop[n].batch = n
  <2> DEFINE P == {i \in 0..n : loop[i] \in S /\ loop[i].total + loop[i].batch = i}
  <2>1. 0 \in P
    BY <1>11
  <2>2. ASSUME NEW i \in 1..n, i - 1 \in P PROVE i \in P
    <3>1. i \in 0..n /\ loop[i - 1] \in S /\ loop[i - 1].total + loop[i - 1].batch = i - 1
      BY <2>2
    <3>2. loop[i] = step(loop[i - 1])
      BY <1>11
    <3> HIDE DEF step, S
    <3>3. loop[i] \in S /\ loop[i].total + loop[i].batch = (i - 1) + 1
      BY <1>4, <3>1, <3>2
    <3>4. QED
      BY <3>1, <3>3
  <2> HIDE DEF P
  <2>3. 0..n \subseteq P
    BY <2>1, <2>2, Induction
  <2>4. n \in 0..n
    OBVIOUS
  <2>5. QED
    BY <2>3, <2>4 DEF P
<1>13. StreamBatches(n) = loop[n].total + loop[n].batch
  BY <1>1, <1>12 DEF StreamBatches
<1>14. QED
  BY <1>12, <1>13

\* A selection is no longer than its limit.
LEMMA SelectedFacts == ASSUME IsFiniteSet(rows) PROVE Selected \in Nat /\ Selected \in 0..Limit
<1>1. Cardinality(rows) \in Nat /\ Limit \in Nat
  BY FS_CardinalityType, TelemetryAssumption
<1>2. QED
  BY <1>1 DEF Selected

-----------------------------------------------------------------------------
(* What every request has stored                                           *)

\* Once a request has come its body is one; what it has still to write is
\* named in the body, and nothing before its rows are stored.
Asked ==
  \A r \in Requests :
    /\ pc[r] # "new" => req[r].body \in Batches
    /\ todo[r] # {} => todo[r] \subseteq Named(req[r].body)
    /\ pc[r] \in {"new", "401", "422", "copy", "insert"} => todo[r] = {}

\* Each row is one of the rows of a whole body, stored with the others.
RowsAreWhole ==
  /\ IsFiniteSet(rows)
  /\ \A x \in rows : /\ x.req \in Requests /\ pc[x.req] \notin {"new", "401", "422", "copy"}
                     /\ x \in Rows(x.req, FALSE) /\ Rows(x.req, FALSE) \subseteq rows

\* The table has what is about to be written to the cache, or was acknowledged.
StoredFirst ==
  \A r \in Requests :
    pc[r] = "cache" \/ todo[r] # {} \/ (pc[r] = "202" /\ Size(req[r].body) # 0) =>
      Rows(r, FALSE) \subseteq rows

\* At any time only so many requests have come.
FinitelyMany == IsFiniteSet({r \in Requests : pc[r] # "new"})

IInv == TypeOK /\ Asked /\ RowsAreWhole /\ StoredFirst /\ FinitelyMany

\* The rows of a body are as many as its readings, each with its own index.
LEMMA RowFacts ==
  ASSUME NEW r \in Requests, req[r].body \in Batches
  PROVE  LET b == req[r].body IN
         /\ IsFiniteSet(Rows(r, FALSE)) /\ Cardinality(Rows(r, FALSE)) = Size(b)
         /\ {x.index : x \in Rows(r, FALSE)} = DOMAIN b
         /\ \A x \in Rows(r, FALSE) :
              /\ x.req = r /\ x.again = FALSE /\ x.index \in DOMAIN b
              /\ x.tid = b[x.index].tid /\ x.at = b[x.index].at
              /\ x.tid \in Transformers /\ x.tid \in Named(b) /\ x.at \in Nat
<1> DEFINE b == req[r].body
           n == Size(b)
           row == [i \in 1..n |-> [req |-> r, index |-> i, again |-> FALSE, tid |-> b[i].tid, at |-> b[i].at]]
<1>1. n \in Nat /\ DOMAIN b = 1..n /\ \A i \in 1..n : b[i].tid \in Transformers /\ b[i].at \in Nat
  BY BodyFacts
<1>2. Rows(r, FALSE) = {row[i] : i \in 1..n}
  BY <1>1 DEF Rows
<1>3. \A i \in 1..n : b[i].tid \in Named(b)
  BY <1>1 DEF Named, Range
<1> HIDE DEF b, n
<1>4. \A i \in 1..n :
        /\ row[i] \in Rows(r, FALSE)
        /\ row[i].req = r /\ row[i].again = FALSE /\ row[i].index = i
        /\ row[i].tid = b[i].tid /\ row[i].at = b[i].at
  BY <1>2
<1>5. \A x \in Rows(r, FALSE) : \E i \in 1..n : x = row[i]
  BY <1>2
<1>6. IsFiniteSet(Rows(r, FALSE)) /\ Cardinality(Rows(r, FALSE)) = n
  <2>1. DOMAIN row = 1..n /\ row = [i \in 1..n |-> row[i]]
    OBVIOUS
  <2> HIDE DEF row
  <2>2. row \in [1..n -> Rows(r, FALSE)]
    BY <1>4, <2>1
  <2>3. ASSUME NEW i \in 1..n, NEW j \in 1..n, row[i] = row[j] PROVE i = j
    <3>1. row[i].index = i /\ row[j].index = j
      BY <1>4
    <3>2. QED
      BY <2>3, <3>1
  <2>4. row \in Bijection(1..n, Rows(r, FALSE))
    <3>1. row \in Injection(1..n, Rows(r, FALSE))
      BY <2>1, <2>2, <2>3 DEF Injection, IsInjective
    <3>2. row \in Surjection(1..n, Rows(r, FALSE))
      BY <1>5, <2>2 DEF Surjection
    <3>3. QED
      BY <3>1, <3>2 DEF Bijection
  <2>5. IsFiniteSet(1..n) /\ Cardinality(1..n) = n
    BY <1>1, FS_Interval
  <2>6. ExistsBijection(1..n, Rows(r, FALSE))
    BY <2>4 DEF ExistsBijection
  <2>7. QED
    BY <2>5, <2>6, FS_Bijection
<1> HIDE DEF row
<1>7. {x.index : x \in Rows(r, FALSE)} = 1..n
  <2>1. \A i \in 1..n : \E x \in Rows(r, FALSE) : x.index = i
    BY <1>4
  <2>2. \A x \in Rows(r, FALSE) : x.index \in 1..n
    BY <1>4, <1>5
  <2>3. QED
    BY <2>1, <2>2
<1>8. ASSUME NEW x \in Rows(r, FALSE)
      PROVE  /\ x.req = r /\ x.again = FALSE /\ x.index \in 1..n
             /\ x.tid = b[x.index].tid /\ x.at = b[x.index].at
  <2>1. PICK i \in 1..n : x = row[i]
    BY <1>5
  <2>2. QED
    BY <1>4, <2>1
<1>9. \A x \in Rows(r, FALSE) : x.tid \in Transformers /\ x.tid \in Named(b) /\ x.at \in Nat
  BY <1>1, <1>3, <1>8
<1>10. QED
  BY <1>1, <1>6, <1>7, <1>8, <1>9 DEF b, n

\* What the cache is to show has a row.
LEMMA LatestRow ==
  ASSUME NEW r \in Requests, req[r].body \in Batches, NEW t \in Named(req[r].body)
  PROVE  \E x \in Rows(r, FALSE) : x.tid = t /\ x.at = Latest(req[r].body, t)
<1>1. PICK i \in DOMAIN req[r].body : req[r].body[i].tid = t /\ req[r].body[i].at = Latest(req[r].body, t)
  BY LatestIsNewest
<1> DEFINE x == [req |-> r, index |-> i, again |-> FALSE, tid |-> req[r].body[i].tid, at |-> req[r].body[i].at]
<1>2. x \in Rows(r, FALSE)
  BY DEF Rows
<1>3. x.tid = req[r].body[i].tid /\ x.at = req[r].body[i].at
  OBVIOUS
<1> HIDE DEF x
<1>4. QED
  BY <1>1, <1>2, <1>3

\* The rows of a request depend on nothing but the request.
LEMMA RowsStay ==
  ASSUME NEW r \in Requests, req'[r] = req[r]
  PROVE  Rows(r, FALSE)' = Rows(r, FALSE)
  BY DEF Rows

\* A reading of a body that is named has a newest instant.
LEMMA LatestTyped ==
  ASSUME NEW b \in Batches, NEW t \in Named(b)
  PROVE  /\ t \in Transformers
         /\ Latest(b, t) \in Nat /\ Latest(b, t) \in Instants /\ Latest(b, t) # None
<1>1. PICK i \in DOMAIN b : b[i].tid = t /\ b[i].at = Latest(b, t)
  BY LatestIsNewest
<1>2. QED
  BY <1>1, BodyFacts

-----------------------------------------------------------------------------
(* Types                                                                   *)

LEMMA Initially == Init => IInv
<1> SUFFICES ASSUME Init PROVE IInv
  OBVIOUS
<1>1. TypeOK
  <2>1. Limit \in Nat
    BY TelemetryAssumption
  <2>2. QED
    BY <2>1 DEF Init, TypeOK, Statuses
<1>2. Asked /\ RowsAreWhole /\ StoredFirst
  BY FS_EmptySet DEF Init, Asked, RowsAreWhole, StoredFirst
<1>3. FinitelyMany
  <2>1. {r \in Requests : pc[r] # "new"} = {}
    BY DEF Init
  <2>2. QED
    BY <2>1, FS_EmptySet DEF FinitelyMany
<1>4. QED
  BY <1>1, <1>2, <1>3 DEF IInv

\* A step with which no request comes.
LEMMA CameBefore ==
  ASSUME FinitelyMany, \A q \in Requests : pc'[q] # "new" => pc[q] # "new"
  PROVE  FinitelyMany'
<1>1. {q \in Requests : pc'[q] # "new"} \in SUBSET {q \in Requests : pc[q] # "new"}
  OBVIOUS
<1>2. QED
  BY <1>1, FS_Subset DEF FinitelyMany

LEMMA ArriveStep == ASSUME IInv, NEW r \in Requests, Arrive(r) PROVE IInv'
<1>1. PICK svc \in {"python", "go"}, body \in Batches, token \in BOOLEAN :
        LET status == Refused(svc, body, token) IN
        /\ req' = [req EXCEPT ![r] = [svc |-> svc, body |-> body, token |-> token]]
        /\ Answer(r, IF status # "none" THEN status ELSE IF Size(body) = 0 THEN "202" ELSE "copy")
        /\ Disturb(IF status # "none" THEN {} ELSE Overlapped(body))
        /\ last' = [t \in Transformers |-> IF status = "none" /\ t \in Named(body) THEN r ELSE last[t]]
  BY DEF Arrive
<1>2. PICK next : /\ next \in {"401", "422", "202", "copy"} /\ pc' = [pc EXCEPT ![r] = next]
                  /\ next = "202" => Size(body) = 0
  <2>1. Refused(svc, body, token) \in {"none", "401", "422"}
    BY DEF Refused
  <2>2. \/ Answer(r, "401") \/ Answer(r, "422") \/ Answer(r, "copy")
        \/ Size(body) = 0 /\ Answer(r, "202")
    BY <1>1, <2>1
  <2>3. QED
    BY <2>2 DEF Answer
<1>3. pc[r] = "new" /\ UNCHANGED <<todo, rows, cache, server, exported, lost>>
  BY DEF Arrive
<1>4. req'[r].body = body /\ pc'[r] = next
  BY <1>1, <1>2 DEF IInv, TypeOK
<1>5. \A q \in Requests : q # r => req'[q] = req[q] /\ pc'[q] = pc[q]
  BY <1>1, <1>2 DEF IInv, TypeOK
<1>6. TypeOK'
  <2>1. req' \in [Requests -> [svc : {"python", "go"}, body : Batches, token : BOOLEAN] \cup {None}]
    BY <1>1 DEF IInv, TypeOK
  <2>2. pc' \in [Requests -> Statuses \cup {"new", "copy", "insert", "cache"}]
    BY <1>2 DEF IInv, TypeOK, Statuses
  <2>3. stale' \in [Transformers -> BOOLEAN] /\ last' \in [Transformers -> Requests \cup {None}]
    BY <1>1 DEF Disturb, IInv, TypeOK
  <2>4. QED
    BY <1>3, <2>1, <2>2, <2>3 DEF IInv, TypeOK
<1>7. Asked'
  <2>1. todo[r] = {}
    BY <1>3 DEF IInv, Asked
  <2>2. QED
    BY <1>3, <1>4, <1>5, <2>1 DEF IInv, Asked
<1>8. \A x \in rows : x.req # r
  BY <1>3 DEF IInv, RowsAreWhole
<1>9. RowsAreWhole'
  BY <1>3, <1>5, <1>8, RowsStay DEF IInv, RowsAreWhole
<1>10. StoredFirst'
  <2>1. ASSUME NEW q \in Requests, q # r,
               pc'[q] = "cache" \/ todo'[q] # {} \/ (pc'[q] = "202" /\ Size(req'[q].body) # 0)
        PROVE  Rows(q, FALSE)' \subseteq rows'
    BY <1>3, <1>5, <2>1, RowsStay DEF IInv, StoredFirst
  <2>2. ~(pc'[r] = "cache" \/ todo'[r] # {} \/ (pc'[r] = "202" /\ Size(req'[r].body) # 0))
    BY <1>2, <1>3, <1>4 DEF IInv, Asked
  <2>3. QED
    BY <2>1, <2>2 DEF StoredFirst
<1>11. FinitelyMany'
  <2>1. {q \in Requests : pc'[q] # "new"} = {q \in Requests : pc[q] # "new"} \cup {r}
    BY <1>2, <1>4, <1>5
  <2>2. QED
    BY <2>1, FS_AddElement DEF IInv, FinitelyMany
<1>12. QED
  BY <1>6, <1>7, <1>9, <1>10, <1>11 DEF IInv

\* What COPY, INSERT and the answer do to the table and to the request.
LEMMA ServeDoes ==
  ASSUME IInv, NEW r \in Requests, Serve(r)
  PROVE  /\ Busy(r) /\ UNCHANGED <<req, cache, server, exported, lost, last>>
         /\ stale' \in [Transformers -> BOOLEAN]
         /\ \E next \in {"insert", "cache", "500", "202"} :
              /\ pc' = [pc EXCEPT ![r] = next]
              /\ rows' = rows \/ (pc[r] \in {"copy", "insert"} /\ rows' = rows \cup Rows(r, FALSE))
              /\ \/ todo' = todo /\ next # "cache"
                 \/ /\ todo' = [todo EXCEPT ![r] = Named(req[r].body)]
                    /\ next = "cache" /\ rows' = rows \cup Rows(r, FALSE)
              /\ next = "insert" => pc[r] = "copy"
              /\ next = "202" => pc[r] = "cache"
<1>1. CASE Copy(r)
  BY <1>1 DEF Copy, Stored, Fails, Answer, Disturb, Busy, IInv, TypeOK
<1>2. CASE Insert(r)
  BY <1>2 DEF Insert, Stored, Fails, Answer, Disturb, Busy, IInv, TypeOK
<1>3. CASE Respond(r)
  BY <1>3 DEF Respond, Answer, Disturb, Busy, IInv, TypeOK
<1>4. QED
  BY <1>1, <1>2, <1>3 DEF Serve

LEMMA ServeStep == ASSUME IInv, NEW r \in Requests, Serve(r) PROVE IInv'
<1>1. PICK next \in {"insert", "cache", "500", "202"} :
        /\ pc' = [pc EXCEPT ![r] = next]
        /\ rows' = rows \/ (pc[r] \in {"copy", "insert"} /\ rows' = rows \cup Rows(r, FALSE))
        /\ \/ todo' = todo /\ next # "cache"
           \/ /\ todo' = [todo EXCEPT ![r] = Named(req[r].body)]
              /\ next = "cache" /\ rows' = rows \cup Rows(r, FALSE)
        /\ next = "insert" => pc[r] = "copy"
        /\ next = "202" => pc[r] = "cache"
  BY ServeDoes
<1>2. Busy(r) /\ UNCHANGED <<req, cache, server, exported, lost, last>> /\ stale' \in [Transformers -> BOOLEAN]
  BY ServeDoes
<1>3. req[r].body \in Batches
  BY <1>2 DEF Busy, IInv, Asked
<1>4. Named(req[r].body) \subseteq Transformers
  BY <1>3, LatestTyped
<1>5. /\ pc'[r] = next /\ \A q \in Requests : q # r => pc'[q] = pc[q]
      /\ \A q \in Requests : q # r => todo'[q] = todo[q]
      /\ todo'[r] = todo[r] \/ todo'[r] = Named(req[r].body)
      /\ rows \subseteq rows'
  BY <1>1 DEF IInv, TypeOK
<1>6. \A q \in Requests : Rows(q, FALSE)' = Rows(q, FALSE)
  BY <1>2, RowsStay
<1>7. TypeOK'
  <2>1. pc' \in [Requests -> Statuses \cup {"new", "copy", "insert", "cache"}]
    BY <1>1 DEF IInv, TypeOK, Statuses
  <2>2. todo' \in [Requests -> SUBSET Transformers]
    BY <1>1, <1>4 DEF IInv, TypeOK
  <2>3. \A x \in Rows(r, FALSE) : x.req = r /\ x.tid \in Transformers /\ x.again = FALSE
    BY <1>3, RowFacts
  <2>4. \A x \in rows' : x.req \in Requests /\ x.tid \in Transformers /\ x.again \in BOOLEAN
    BY <1>1, <2>3 DEF IInv, TypeOK
  <2>5. QED
    BY <1>2, <2>1, <2>2, <2>4 DEF IInv, TypeOK
<1>8. Asked'
  <2>1. next = "insert" => todo'[r] = {}
    BY <1>1, <1>5 DEF IInv, Asked
  <2>2. QED
    BY <1>1, <1>2, <1>3, <1>5, <2>1 DEF IInv, Asked
<1>9. RowsAreWhole'
  <2>1. IsFiniteSet(rows')
    <3>1. IsFiniteSet(rows)
      BY DEF IInv, RowsAreWhole
    <3>2. IsFiniteSet(Rows(r, FALSE))
      BY <1>3, RowFacts
    <3>3. IsFiniteSet(rows \cup Rows(r, FALSE))
      BY <3>1, <3>2, FS_Union
    <3>4. QED
      BY <1>1, <3>1, <3>3
  <2>2. ASSUME NEW x \in rows'
        PROVE  /\ x.req \in Requests /\ pc'[x.req] \notin {"new", "401", "422", "copy"}
               /\ x \in Rows(x.req, FALSE) /\ Rows(x.req, FALSE) \subseteq rows'
    <3>1. CASE x \in rows
      BY <1>5, <3>1 DEF IInv, RowsAreWhole
    <3>2. CASE x \notin rows
      <4>1. x \in Rows(r, FALSE) /\ rows' = rows \cup Rows(r, FALSE)
        BY <1>1, <3>2
      <4>2. x.req = r
        BY <1>3, <4>1, RowFacts
      <4>3. QED
        BY <1>5, <4>1, <4>2
    <3>3. QED
      BY <3>1, <3>2
  <2>3. QED
    BY <1>6, <2>1, <2>2 DEF RowsAreWhole
<1>10. StoredFirst'
  <2>1. ASSUME NEW q \in Requests,
               pc'[q] = "cache" \/ todo'[q] # {} \/ (pc'[q] = "202" /\ Size(req'[q].body) # 0)
        PROVE  Rows(q, FALSE) \subseteq rows'
    <3>1. CASE q # r
      BY <1>2, <1>5, <2>1, <3>1 DEF IInv, StoredFirst
    <3>2. CASE q = r
      <4>1. CASE next = "cache"
        BY <1>1, <3>2, <4>1
      <4>2. CASE next # "cache"
        BY <1>1, <1>5, <2>1, <3>2, <4>2 DEF IInv, StoredFirst
      <4>3. QED
        BY <4>1, <4>2
    <3>3. QED
      BY <3>1, <3>2
  <2>2. QED
    BY <1>6, <2>1 DEF StoredFirst
<1>11. FinitelyMany'
  BY <1>2, <1>5, CameBefore DEF Busy, IInv
<1>12. QED
  BY <1>7, <1>8, <1>9, <1>10, <1>11 DEF IInv

\* A SET, done or lost, only shortens what is to be done.
LEMMA WriteStep ==
  ASSUME IInv, NEW r \in Requests, NEW t \in Transformers, Set(r, t) \/ LoseSet(r, t)
  PROVE  IInv'
<1>1. /\ UNCHANGED <<req, pc, rows, server, exported, last>>
      /\ todo' = [todo EXCEPT ![r] = @ \ {t}] /\ t \in todo[r]
  BY DEF Set, LoseSet
<1>2. \A q \in Requests : Rows(q, FALSE)' = Rows(q, FALSE)
  BY <1>1, RowsStay
<1>3. \A q \in Requests : todo'[q] \subseteq todo[q]
  BY <1>1 DEF IInv, TypeOK
<1>4. TypeOK'
  <2>1. cache' \in [Transformers -> {x.at : x \in Readings} \cup {None}]
    <3>1. CASE Set(r, t)
      <4>1. req[r].body \in Batches /\ t \in Named(req[r].body)
        BY <1>1 DEF IInv, Asked
      <4>2. Latest(req[r].body, t) \in {x.at : x \in Readings}
        BY <4>1, LatestTyped DEF Instants
      <4>3. QED
        BY <3>1, <4>2 DEF Set, IInv, TypeOK
    <3>2. CASE LoseSet(r, t)
      BY <3>2 DEF LoseSet, IInv, TypeOK
    <3>3. QED
      BY <3>1, <3>2
  <2>2. lost' \in [Requests -> BOOLEAN] /\ stale' \in [Transformers -> BOOLEAN]
    BY DEF Set, LoseSet, Disturb, IInv, TypeOK
  <2>3. todo' \in [Requests -> SUBSET Transformers]
    BY <1>1 DEF IInv, TypeOK
  <2>4. QED
    BY <1>1, <2>1, <2>2, <2>3 DEF IInv, TypeOK
<1>5. Asked' /\ RowsAreWhole' /\ StoredFirst'
  BY <1>1, <1>2, <1>3 DEF IInv, Asked, RowsAreWhole, StoredFirst
<1>6. FinitelyMany'
  BY <1>1, CameBefore DEF IInv
<1>7. QED
  BY <1>4, <1>5, <1>6 DEF IInv

\* The deadline of the shutdown cuts requests that may have stored their rows.
LEMMA AbortStep == ASSUME IInv, Abort PROVE IInv'
<1>1. PICK S \in SUBSET {r \in Served : pc[r] = "copy"} : rows' = rows \cup UNION {Rows(r, FALSE) : r \in S}
  BY DEF Abort
<1>2. /\ pc' = [r \in Requests |-> IF r \in Served THEN "cut" ELSE pc[r]]
      /\ UNCHANGED <<req, todo, cache, exported, lost, last>>
      /\ server' = "aborted" /\ stale' \in [Transformers -> BOOLEAN]
  BY DEF Abort, Disturb, IInv, TypeOK
<1>3. \A q \in Requests : Rows(q, FALSE)' = Rows(q, FALSE)
  BY <1>2, RowsStay
<1>4. \A r \in S : r \in Requests /\ pc'[r] = "cut" /\ req[r].body \in Batches
  BY <1>2 DEF Served, IInv, Asked
<1>5. TypeOK'
  <2>1. pc' \in [Requests -> Statuses \cup {"new", "copy", "insert", "cache"}]
    BY <1>2 DEF IInv, TypeOK, Statuses
  <2>2. \A r \in S : \A x \in Rows(r, FALSE) : x.req = r /\ x.tid \in Transformers /\ x.again = FALSE
    BY <1>4, RowFacts
  <2>3. ASSUME NEW x \in rows' PROVE x.req \in Requests /\ x.tid \in Transformers /\ x.again \in BOOLEAN
    <3>1. CASE x \in rows
      BY <3>1 DEF IInv, TypeOK
    <3>2. CASE x \notin rows
      <4>1. PICK r \in S : x \in Rows(r, FALSE)
        BY <1>1, <3>2
      <4>2. x.req = r /\ x.tid \in Transformers /\ x.again = FALSE
        BY <2>2, <4>1
      <4>3. QED
        BY <1>4, <4>2
    <3>3. QED
      BY <3>1, <3>2
  <2>4. QED
    BY <1>2, <2>1, <2>3 DEF IInv, TypeOK
<1>6. Asked' /\ FinitelyMany'
  <2>1. \A q \in Requests : pc'[q] = pc[q] \/ (pc'[q] = "cut" /\ pc[q] # "new")
    BY <1>2 DEF Served, Busy, IInv, TypeOK
  <2>2. FinitelyMany'
    BY <2>1, CameBefore DEF IInv
  <2>3. QED
    BY <1>2, <2>1, <2>2 DEF IInv, Asked
<1>7. RowsAreWhole'
  <2>1. IsFiniteSet(rows')
    <3>1. IsFiniteSet(S)
      <4>1. S \in SUBSET {r \in Requests : pc[r] # "new"}
        BY DEF Served
      <4>2. QED
        BY <4>1, FS_Subset DEF IInv, FinitelyMany
    <3> DEFINE bodies == {Rows(r, FALSE) : r \in S}
    <3>2. IsFiniteSet(bodies)
      <4> DEFINE made == [r \in S |-> Rows(r, FALSE)]
      <4>1. made \in [S -> bodies] /\ \A T \in bodies : \E r \in S : made[r] = T
        OBVIOUS
      <4>2. made \in Surjection(S, bodies)
        <5> HIDE DEF made, bodies
        <5>1. QED
          BY <4>1 DEF Surjection
      <4>3. QED
        <5> HIDE DEF made, bodies
        <5>1. QED
          BY <3>1, <4>2, FS_Surjection
    <3>3. \A r \in S : IsFiniteSet(Rows(r, FALSE))
      BY <1>4, RowFacts
    <3>4. IsFiniteSet(UNION bodies)
      <4>1. \A T \in bodies : IsFiniteSet(T)
        BY <3>3
      <4> HIDE DEF bodies
      <4>2. QED
        BY <3>2, <4>1, FS_UNION
    <3>5. QED
      BY <1>1, <3>4, FS_Union DEF IInv, RowsAreWhole
  <2>2. ASSUME NEW x \in rows'
        PROVE  /\ x.req \in Requests /\ pc'[x.req] \notin {"new", "401", "422", "copy"}
               /\ x \in Rows(x.req, FALSE) /\ Rows(x.req, FALSE) \subseteq rows'
    <3>1. CASE x \in rows
      BY <1>1, <1>2, <3>1 DEF IInv, RowsAreWhole
    <3>2. CASE x \notin rows
      <4>1. PICK r \in S : x \in Rows(r, FALSE)
        BY <1>1, <3>2
      <4>2. x.req = r
        BY <1>4, <4>1, RowFacts
      <4>3. Rows(r, FALSE) \subseteq rows'
        BY <1>1
      <4>4. QED
        BY <1>4, <4>1, <4>2, <4>3
    <3>3. QED
      BY <3>1, <3>2
  <2>3. QED
    BY <1>3, <2>1, <2>2 DEF RowsAreWhole
<1>8. StoredFirst'
  <2>1. \A q \in Requests : pc'[q] = "cache" => pc[q] = "cache"
    BY <1>2
  <2>2. \A q \in Requests : pc'[q] = "202" => pc[q] = "202"
    BY <1>2
  <2>3. rows \subseteq rows'
    BY <1>1
  <2>4. QED
    BY <1>2, <1>3, <2>1, <2>2, <2>3 DEF IInv, StoredFirst
<1>9. QED
  BY <1>5, <1>6, <1>7, <1>8 DEF IInv

\* The steps that touch neither the table nor a request.
LEMMA OtherStep ==
  ASSUME IInv, (\E t \in Transformers : Expire(t)) \/ Terminate \/ Exit \/ Export \/ UNCHANGED vars
  PROVE  IInv'
<1>1. UNCHANGED <<req, pc, todo, rows, lost, last>>
  BY DEF Expire, Terminate, Exit, Export, vars
<1>2. Asked' /\ RowsAreWhole' /\ StoredFirst' /\ FinitelyMany'
  BY <1>1, RowsStay DEF IInv, Asked, RowsAreWhole, StoredFirst, FinitelyMany
<1>3. cache' \in [Transformers -> {x.at : x \in Readings} \cup {None}] /\ stale' \in [Transformers -> BOOLEAN]
  BY DEF Expire, Disturb, Terminate, Exit, Export, vars, IInv, TypeOK
<1>4. server' \in {"up", "draining", "down", "aborted"}
  BY DEF Expire, Terminate, Exit, Export, vars, IInv, TypeOK
<1>5. exported' \in 0..Limit
  <2>1. CASE Export
    BY <2>1, SelectedFacts, StreamCounts DEF Export, IInv, RowsAreWhole
  <2>2. CASE ~Export
    BY <2>2 DEF Expire, Terminate, Exit, vars, IInv, TypeOK
  <2>3. QED
    BY <2>1, <2>2
<1>6. TypeOK'
  BY <1>1, <1>3, <1>4, <1>5 DEF IInv, TypeOK
<1>7. QED
  BY <1>2, <1>6 DEF IInv

LEMMA Inductive == IInv /\ [Next]_vars => IInv'
  BY ArriveStep, ServeStep, WriteStep, AbortStep, OtherStep DEF Next, Write

LEMMA AlwaysIInv == Spec => []IInv
  BY Initially, Inductive, PTL DEF Spec

-----------------------------------------------------------------------------
(* The cache and the requests                                              *)

\* The request that came last is known; of the requests under way no other names
\* the transformer; that one's SET is still to come or its newest reading shows.
Known(t) == last[t] # None => pc[last[t]] # "new" /\ t \in Named(req[last[t]].body)
Sole(t)  == \A r \in UnderWay(t) : r = last[t]
Due(r, t) == pc[r] \in {"copy", "insert"} \/ t \in todo[r] \/ cache[t] = Latest(req[r].body, t)

Calm(t)     == Known(t) /\ Sole(t) /\ (last[t] # None => Due(last[t], t))
Undisturbed == \A t \in Transformers : ~stale[t] => Calm(t)

\* A step after which less is under way and the last request is as it was.
LEMMA Kept ==
  ASSUME NEW t, Calm(t), last'[t] = last[t], UnderWay(t)' \subseteq UnderWay(t),
         last[t] # None => /\ req'[last[t]] = req[last[t]] /\ pc'[last[t]] # "new"
                           /\ Due(last[t], t)'
  PROVE  Calm(t)'
<1>1. Known(t)'
  BY DEF Calm, Known
<1>2. Sole(t)'
  BY DEF Calm, Sole
<1>3. QED
  BY <1>1, <1>2 DEF Calm

\* Disturbing is for good.
LEMMA StaleStays == ASSUME IInv, [Next]_vars, NEW t \in Transformers, ~stale'[t] PROVE ~stale[t]
<1>1. CASE UNCHANGED stale
  BY <1>1
<1>2. CASE \E T : Disturb(T)
  BY <1>2 DEF Disturb
<1>3. QED
  BY <1>1, <1>2 DEF Next, Arrive, Serve, Copy, Insert, Stored, Fails, Respond, Write, Set, LoseSet,
                    Expire, Terminate, Exit, Abort, Export, vars

LEMMA CalmArrive ==
  ASSUME IInv, NEW r \in Requests, Arrive(r), NEW t \in Transformers, Calm(t), ~stale'[t]
  PROVE  Calm(t)'
<1>1. PICK svc \in {"python", "go"}, body \in Batches, token \in BOOLEAN :
        LET status == Refused(svc, body, token) IN
        /\ req' = [req EXCEPT ![r] = [svc |-> svc, body |-> body, token |-> token]]
        /\ Answer(r, IF status # "none" THEN status ELSE IF Size(body) = 0 THEN "202" ELSE "copy")
        /\ Disturb(IF status # "none" THEN {} ELSE Overlapped(body))
        /\ last' = [u \in Transformers |-> IF status = "none" /\ u \in Named(body) THEN r ELSE last[u]]
  BY DEF Arrive
<1>2. PICK taken \in BOOLEAN :
        /\ pc' = [pc EXCEPT ![r] = IF ~taken THEN pc'[r] ELSE IF Size(body) = 0 THEN "202" ELSE "copy"]
        /\ ~taken => pc'[r] \in {"401", "422"}
        /\ taken => Disturb(Overlapped(body))
        /\ last'[t] = IF taken /\ t \in Named(body) THEN r ELSE last[t]
  <2>1. Refused(svc, body, token) \in {"none", "401", "422"}
    BY DEF Refused
  <2>2. CASE Refused(svc, body, token) = "none"
    BY <1>1, <2>2 DEF Answer, IInv, TypeOK
  <2>3. CASE Refused(svc, body, token) \in {"401", "422"}
    BY <1>1, <2>3 DEF Answer, IInv, TypeOK
  <2>4. QED
    BY <2>1, <2>2, <2>3
<1>3. pc[r] = "new" /\ UNCHANGED <<todo, rows, cache, server, exported, lost>> /\ todo[r] = {}
  BY DEF Arrive, IInv, Asked
<1>4. req'[r].body = body /\ pc'[r] # "new"
  BY <1>1, <1>2 DEF IInv, TypeOK
<1>5. \A q \in Requests : q # r => req'[q] = req[q] /\ pc'[q] = pc[q]
  BY <1>1, <1>2 DEF IInv, TypeOK
<1>6. \A q \in Requests : q # r => (q \in UnderWay(t)' <=> q \in UnderWay(t))
  BY <1>3, <1>5 DEF UnderWay, Busy
<1>7. last[t] # None => last[t] \in Requests /\ last[t] # r
  BY <1>3 DEF Calm, Known, IInv, TypeOK
<1>8. CASE taken /\ t \in Named(body)
  <2>1. UnderWay(t) = {}
    BY <1>2, <1>8 DEF Disturb, Overlapped
  <2>2. \A q \in UnderWay(t)' : q = r
    BY <1>6, <2>1 DEF UnderWay
  <2>3. last'[t] = r /\ pc'[r] = "copy"
    <3>1. Size(body) # 0
      BY <1>8, BodyFacts DEF Named, Range
    <3>2. QED
      BY <1>2, <1>8, <3>1 DEF IInv, TypeOK
  <2>4. QED
    BY <1>4, <1>8, <2>2, <2>3 DEF Calm, Known, Sole, Due
<1>9. CASE ~(taken /\ t \in Named(body))
  <2>1. last'[t] = last[t]
    BY <1>2, <1>9
  <2>2. r \notin UnderWay(t)'
    BY <1>2, <1>3, <1>4, <1>9 DEF UnderWay, Busy
  <2>3. UnderWay(t)' \subseteq UnderWay(t)
    BY <1>6, <2>2 DEF UnderWay
  <2>4. last[t] # None => /\ req'[last[t]] = req[last[t]] /\ pc'[last[t]] # "new" /\ Due(last[t], t)'
    <3>1. SUFFICES ASSUME last[t] # None
                   PROVE  req'[last[t]] = req[last[t]] /\ pc'[last[t]] # "new" /\ Due(last[t], t)'
      OBVIOUS
    <3>2. req'[last[t]] = req[last[t]] /\ pc'[last[t]] = pc[last[t]]
      BY <1>5, <1>7, <3>1
    <3>3. pc[last[t]] # "new" /\ Due(last[t], t)
      BY <3>1 DEF Calm, Known
    <3>4. Due(last[t], t)'
      BY <1>3, <2>1, <3>2, <3>3 DEF Due
    <3>5. QED
      BY <3>2, <3>3, <3>4
  <2>5. QED
    BY <2>1, <2>3, <2>4, Kept
<1>10. QED
  BY <1>8, <1>9

\* COPY, INSERT, the answer and the SETs of a request.
LEMMA CalmServe ==
  ASSUME IInv, NEW r \in Requests, Serve(r) \/ Write(r), NEW t \in Transformers, Calm(t), ~stale'[t]
  PROVE  Calm(t)'
<1>1. /\ UNCHANGED <<req, last>> /\ pc[r] # "new" /\ pc'[r] # "new"
      /\ Busy(r) \/ todo[r] # {}
      /\ todo'[r] \subseteq Named(req[r].body)
      /\ \A q \in Requests : q # r => pc'[q] = pc[q] /\ todo'[q] = todo[q]
      /\ cache'[t] = cache[t] \/ (t \in todo[r] /\ cache'[t] = Latest(req[r].body, t))
      /\ t \in Named(req[r].body) /\ Due(r, t) => Due(r, t)'
  <2>1. CASE Copy(r) \/ Insert(r)
    <3>1. /\ UNCHANGED <<req, last, cache>> /\ pc[r] \in {"copy", "insert"} /\ todo[r] = {}
      BY <2>1 DEF Copy, Insert, IInv, Asked
    <3>2. PICK next \in {"insert", "cache", "500"} :
            /\ pc' = [pc EXCEPT ![r] = next]
            /\ next = "500" => t \notin Named(req[r].body) /\ todo' = todo
            /\ next = "insert" => todo' = todo
            /\ next = "cache" => todo' = [todo EXCEPT ![r] = Named(req[r].body)]
      BY <2>1 DEF Copy, Insert, Stored, Fails, Answer, Disturb
    <3>3. /\ pc'[r] = next /\ \A q \in Requests : q # r => pc'[q] = pc[q] /\ todo'[q] = todo[q]
          /\ next = "cache" => todo'[r] = Named(req[r].body)
          /\ next # "cache" => todo'[r] = {}
      BY <3>1, <3>2 DEF IInv, TypeOK
    <3>4. QED
      BY <3>1, <3>2, <3>3 DEF Busy, Due
  <2>2. CASE Respond(r)
    <3>1. pc[r] = "cache" /\ UNCHANGED <<req, last, cache, todo>> /\ \E s \in {"500", "202"} : Answer(r, s)
      BY <2>2 DEF Respond
    <3>2. pc'[r] \in {"500", "202"} /\ \A q \in Requests : q # r => pc'[q] = pc[q]
      BY <3>1 DEF Answer, IInv, TypeOK
    <3>3. QED
      BY <3>1, <3>2 DEF Busy, Due, IInv, Asked
  <2>3. CASE Write(r)
    <3>1. PICK u \in Transformers : Set(r, u) \/ LoseSet(r, u)
      BY <2>3 DEF Write
    <3>2. UNCHANGED <<req, last, pc>> /\ u \in todo[r] /\ todo' = [todo EXCEPT ![r] = @ \ {u}]
      BY <3>1 DEF Set, LoseSet
    <3>3. /\ todo'[r] = todo[r] \ {u} /\ \A q \in Requests : q # r => todo'[q] = todo[q]
          /\ pc[r] # "new" /\ todo[r] \subseteq Named(req[r].body) /\ pc[r] \notin {"copy", "insert"}
      BY <3>2 DEF IInv, TypeOK, Asked
    <3>4. CASE Set(r, u)
      <4>1. cache'[t] = IF t = u THEN Latest(req[r].body, t) ELSE cache[t]
        BY <3>4 DEF Set, IInv, TypeOK
      <4>2. QED
        BY <3>2, <3>3, <4>1 DEF Due
    <3>5. CASE LoseSet(r, u)
      <4>1. t # u /\ cache' = cache
        BY <3>5 DEF LoseSet, Disturb
      <4>2. QED
        BY <3>2, <3>3, <4>1 DEF Due
    <3>6. QED
      BY <3>1, <3>4, <3>5
  <2>4. QED
    BY <2>1, <2>2, <2>3 DEF Serve
<1>2. UnderWay(t)' \subseteq UnderWay(t)
  <2>1. \A q \in Requests : q # r => (q \in UnderWay(t)' <=> q \in UnderWay(t))
    BY <1>1 DEF UnderWay, Busy
  <2>2. r \in UnderWay(t)' => r \in UnderWay(t)
    BY <1>1 DEF UnderWay
  <2>3. QED
    BY <2>1, <2>2 DEF UnderWay
<1>3. ASSUME last[t] # None PROVE pc'[last[t]] # "new" /\ Due(last[t], t)'
  <2>1. last[t] \in Requests /\ Due(last[t], t) /\ pc[last[t]] # "new" /\ t \in Named(req[last[t]].body)
    BY <1>3 DEF Calm, Known, IInv, TypeOK
  <2>2. CASE last[t] = r
    BY <1>1, <2>1, <2>2
  <2>3. CASE last[t] # r
    <3>1. r \notin UnderWay(t)
      BY <2>3 DEF Calm, Sole
    <3>2. t \notin todo[r]
      BY <3>1 DEF UnderWay, IInv, Asked
    <3>3. cache'[t] = cache[t]
      BY <1>1, <3>2
    <3>4. QED
      BY <1>1, <2>1, <2>3, <3>3 DEF Due
  <2>4. QED
    BY <2>2, <2>3
<1>4. QED
  BY <1>1, <1>2, <1>3, Kept

\* Expiry, the signal, the export and the end of the process.
LEMMA CalmOther ==
  ASSUME IInv, (\E u \in Transformers : Expire(u)) \/ Terminate \/ Exit \/ Abort \/ Export \/ UNCHANGED vars,
         NEW t \in Transformers, Calm(t), ~stale'[t]
  PROVE  Calm(t)'
<1>1. /\ UNCHANGED <<req, todo, last>> /\ cache'[t] = cache[t]
      /\ \A q \in Requests : \/ pc'[q] = pc[q]
                             \/ Busy(q) /\ pc'[q] = "cut" /\ (pc[q] = "cache" \/ t \notin Named(req[q].body))
  <2>1. CASE Abort
    BY <2>1 DEF Abort, Disturb, Served
  <2>2. CASE ~Abort
    <3>1. UNCHANGED <<req, todo, pc, last>>
      BY <2>2 DEF Expire, Terminate, Exit, Export, vars
    <3>2. cache'[t] = cache[t]
      BY <2>2 DEF Expire, Disturb, Terminate, Exit, Export, vars, IInv, TypeOK
    <3>3. QED
      BY <3>1, <3>2
  <2>3. QED
    BY <2>1, <2>2
<1>2. UnderWay(t)' \subseteq UnderWay(t)
  BY <1>1 DEF UnderWay, Busy
<1>3. ASSUME last[t] # None PROVE pc'[last[t]] # "new" /\ Due(last[t], t)'
  <2>1. last[t] \in Requests /\ Due(last[t], t) /\ pc[last[t]] # "new" /\ t \in Named(req[last[t]].body)
    BY <1>3 DEF Calm, Known, IInv, TypeOK
  <2>2. QED
    BY <1>1, <2>1 DEF Due
<1>4. QED
  BY <1>1, <1>2, <1>3, Kept

LEMMA CalmInductive == IInv /\ Undisturbed /\ [Next]_vars => Undisturbed'
<1> SUFFICES ASSUME IInv, Undisturbed, [Next]_vars, NEW t \in Transformers, ~stale'[t]
             PROVE  Calm(t)'
  BY DEF Undisturbed
<1>1. Calm(t)
  BY StaleStays DEF Undisturbed
<1>2. QED
  BY <1>1, CalmArrive, CalmServe, CalmOther DEF Next

LEMMA CalmInitially == Init => Undisturbed
BY DEF Init, Undisturbed, Calm, Known, Sole, UnderWay, Busy

\* What a SET writes is in the table.
LEMMA CacheInductive == IInv /\ CachedIsStored /\ [Next]_vars => CachedIsStored'
<1> SUFFICES ASSUME IInv, CachedIsStored, [Next]_vars, NEW t \in Transformers, cache'[t] # None
             PROVE  \E x \in rows' : x.tid = t /\ x.at = cache'[t]
  BY DEF CachedIsStored
<1>1. rows \subseteq rows'
  BY DEF Next, Arrive, Serve, Copy, Insert, Stored, Fails, Respond, Write, Set, LoseSet, Expire,
         Terminate, Exit, Abort, Export, vars
<1>2. CASE cache'[t] = cache[t]
  BY <1>1, <1>2 DEF CachedIsStored
<1>3. CASE cache'[t] # cache[t]
  <2>1. PICK r \in Requests : Set(r, t)
    <3>1. ~UNCHANGED cache
      BY <1>3
    <3>2. \A u \in Transformers : ~Expire(u)
      BY <1>3 DEF Expire, IInv, TypeOK
    <3>3. \E r \in Requests, u \in Transformers : Set(r, u)
      BY <3>1, <3>2 DEF Next, Arrive, Serve, Copy, Insert, Respond, Write, LoseSet, Terminate, Exit,
                        Abort, Export, vars
    <3>4. PICK r \in Requests, u \in Transformers : Set(r, u)
      BY <3>3
    <3>5. cache' = [cache EXCEPT ![u] = Latest(req[r].body, u)]
      BY <3>4 DEF Set
    <3>6. u = t
      BY <1>3, <3>5 DEF IInv, TypeOK
    <3>7. QED
      BY <3>4, <3>6
  <2>2. cache'[t] = Latest(req[r].body, t) /\ t \in todo[r]
    BY <2>1 DEF Set, IInv, TypeOK
  <2>3. req[r].body \in Batches /\ t \in Named(req[r].body) /\ Rows(r, FALSE) \subseteq rows
    BY <2>2 DEF IInv, Asked, StoredFirst
  <2>4. PICK x \in Rows(r, FALSE) : x.tid = t /\ x.at = Latest(req[r].body, t)
    BY <2>3, LatestRow
  <2>5. QED
    BY <1>1, <2>2, <2>3, <2>4
<1>4. QED
  BY <1>2, <1>3

-----------------------------------------------------------------------------
(* Theorems                                                                *)

\* The table, the cache, the requests and what an export counts have their types,
\* whatever is cut off when; in particular an export keeps to its limit.
THEOREM TypeCorrect == Spec => []TypeOK
<1>1. IInv => TypeOK
  BY DEF IInv
<1>2. QED
  BY <1>1, AlwaysIInv, PTL

\* Every body is stored whole, once, or not at all, although COPY may have
\* committed what the fallback inserts; refused requests leave no trace and
\* acknowledged ones are stored.
THEOREM BodiesAreWhole == Spec => []AllOrNothing
<1>1. IInv => AllOrNothing
  <2> SUFFICES ASSUME IInv, NEW r \in Requests
               PROVE  LET mine == {x \in rows : x.req = r} IN
                      /\ mine = {} \/ /\ {x.index : x \in mine} = DOMAIN req[r].body
                                      /\ Cardinality(mine) = Size(req[r].body)
                      /\ pc[r] \in {"401", "422"} => mine = {} /\ todo[r] = {}
                      /\ pc[r] = "202" => mine # {} \/ Size(req[r].body) = 0
    BY DEF AllOrNothing
  <2> DEFINE mine == {x \in rows : x.req = r}
  <2>1. CASE mine = {}
    <3>1. pc[r] = "202" => Size(req[r].body) = 0
      <4>1. SUFFICES ASSUME pc[r] = "202", Size(req[r].body) # 0 PROVE FALSE
        OBVIOUS
      <4>2. Rows(r, FALSE) \subseteq rows /\ req[r].body \in Batches
        BY <4>1 DEF IInv, StoredFirst, Asked
      <4>3. \A x \in Rows(r, FALSE) : x.req = r
        BY <4>2, RowFacts
      <4>4. Rows(r, FALSE) = {}
        BY <2>1, <4>2, <4>3
      <4>5. Cardinality(Rows(r, FALSE)) = Size(req[r].body)
        BY <4>2, RowFacts
      <4>6. QED
        BY <4>1, <4>4, <4>5, FS_EmptySet
    <3>2. pc[r] \in {"401", "422"} => todo[r] = {}
      BY DEF IInv, Asked
    <3>3. QED
      BY <2>1, <3>1, <3>2
  <2>2. CASE mine # {}
    <3>1. PICK x \in rows : x.req = r
      BY <2>2
    <3>2. pc[r] \notin {"new", "401", "422"} /\ Rows(r, FALSE) \subseteq rows
      BY <3>1 DEF IInv, RowsAreWhole
    <3>3. req[r].body \in Batches
      BY <3>2 DEF IInv, Asked
    <3>4. mine = Rows(r, FALSE)
      <4>1. \A y \in Rows(r, FALSE) : y.req = r
        BY <3>3, RowFacts
      <4>2. \A y \in mine : y \in Rows(r, FALSE)
        BY DEF IInv, RowsAreWhole
      <4>3. QED
        BY <3>2, <4>1, <4>2
    <3>5. {y.index : y \in mine} = DOMAIN req[r].body /\ Cardinality(mine) = Size(req[r].body)
      <4> HIDE DEF mine
      <4>1. QED
        BY <3>3, <3>4, RowFacts
    <3>6. QED
      BY <2>2, <3>2, <3>5
  <2>3. QED
    BY <2>1, <2>2
<1>2. QED
  BY <1>1, AlwaysIInv, PTL

\* The cache never shows a reading that is not committed, whatever is lost or cut off.
THEOREM CacheIsBacked == Spec => []CachedIsStored
<1>1. Init => CachedIsStored
  BY DEF Init, CachedIsStored
<1>2. QED
  BY <1>1, CacheInductive, AlwaysIInv, PTL DEF Spec

\* When no request is under way that names an undisturbed transformer, the cache shows
\* the newest reading of the request that named it last: an older one than the table's
\* newest, when that request came late.
THEOREM CacheIsLastRequests == Spec => []CacheFollowsRequests
<1>1. IInv /\ Undisturbed => CacheFollowsRequests
  <2> SUFFICES ASSUME IInv, Undisturbed, NEW t \in Transformers,
                      ~stale[t], UnderWay(t) = {}, last[t] # None
               PROVE  \E x \in Newest(Range(req[last[t]].body), t) : cache[t] = x.at
    BY DEF CacheFollowsRequests
  <2> DEFINE b == req[last[t]].body
  <2>1. last[t] \in Requests /\ Calm(t)
    BY DEF Undisturbed, IInv, TypeOK
  <2>2. b \in Batches /\ t \in Named(b)
    BY <2>1 DEF Calm, Known, IInv, Asked
  <2>3. cache[t] = Latest(b, t)
    BY <2>1, <2>2 DEF Calm, Due, UnderWay, Busy
  <2> HIDE DEF b
  <2>4. PICK i \in DOMAIN b : b[i].tid = t /\ b[i].at = Latest(b, t)
    BY <2>2, LatestIsNewest
  <2>5. \A x \in Range(b) : x.tid = t => x.at <= Latest(b, t)
    BY <2>2, LatestIsNewest DEF Range
  <2>6. b[i] \in Newest(Range(b), t)
    BY <2>4, <2>5 DEF Newest, Range
  <2>7. QED
    BY <2>3, <2>4, <2>6 DEF b
<1>2. QED
  BY <1>1, CalmInitially, CalmInductive, AlwaysIInv, PTL DEF Spec

\* An export counts the rows it selects, each once, whatever the chunks.
THEOREM ExportsAreExact == Spec => ExportCountsRows
<1>1. IInv /\ [Next]_vars =>
        [exported' # exported =>
           exported' = IF Cardinality(rows) < Limit THEN Cardinality(rows) ELSE Limit]_vars
  <2> SUFFICES ASSUME IInv, [Next]_vars, exported' # exported
               PROVE  exported' = IF Cardinality(rows) < Limit THEN Cardinality(rows) ELSE Limit
    OBVIOUS
  <2>1. Export
    BY DEF Next, Arrive, Serve, Copy, Insert, Respond, Write, Set, LoseSet, Expire, Terminate, Exit,
           Abort, vars
  <2>2. exported' = Selected
    BY <2>1, SelectedFacts, StreamCounts DEF Export, IInv, RowsAreWhole
  <2>3. QED
    BY <2>2 DEF Selected
<1>2. QED
  BY <1>1, AlwaysIInv, PTL DEF ExportCountsRows, Spec
====
