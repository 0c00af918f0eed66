---------------------------- MODULE MCIdempotency ----------------------------
(* Instances of Idempotency for TLC.                                       *)
EXTENDS Idempotency, TLC

CONSTANTS q1, q2, q3, q4, k1, k2

\* Three requests compete for one key, a fourth has a key of its own.
ThreeAndOne == (q1 :> k1) @@ (q2 :> k1) @@ (q3 :> k1) @@ (q4 :> k2)

\* Four requests compete for one key.
AllFour == (q1 :> k1) @@ (q2 :> k1) @@ (q3 :> k1) @@ (q4 :> k1)
=============================================================================
