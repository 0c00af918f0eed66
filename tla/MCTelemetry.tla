----------------------------- MODULE MCTelemetry -----------------------------
EXTENDS Telemetry, TLC

Reading(tid, at) == [tid |-> tid, at |-> at, ok |-> TRUE]

MCBatches == {<<>>, <<Reading("a", 2), Reading("a", 1)>>, <<Reading("a", 1), Reading("b", 3)>>,
              <<Reading("b", 2), [Reading("a", 3) EXCEPT !.ok = FALSE]>>}
Interchangeable == Permutations(Requests)
=============================================================================
