----------------------------- MODULE MCSteering -----------------------------
EXTENDS Steering
CONSTANTS m1, m2, m3, retry

\* Every delivery is of a message of its own, ...
NoRetry == [d \in Deliveries |-> d]

\* ... or m2 is delivered a second time.
WithRetry == [d \in Deliveries |-> IF d = retry THEN m2 ELSE d]

Symmetry == Permutations(Deliveries)   \* with NoRetry
=============================================================================
