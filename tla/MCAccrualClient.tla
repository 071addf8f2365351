--------------------------- MODULE MCAccrualClient ---------------------------
(* Values for the constants of AccrualClient. *)
EXTENDS AccrualClient, TLC

CONSTANTS e1, e2, e3

ThreeEvents == {e1, e2, e3}
EventSymmetry == Permutations(ThreeEvents)

\* With words of 4 bits (durations up to 7) and 2 ticks to a second: no header, one that is
\* no number, two seconds, a product that wraps round to a negative duration, more
\* seconds than a duration can hold.
SmallHeaders == {NoHeader, -10, 2, 5, 9}

DelayConfig(initial, jitter, max) ==
  [initialDelay |-> initial, maxJitter |-> jitter, maxDelay |-> max,
   minRetriesUntilBackOff |-> 2]

\* Without a cap; with a cap, and an initial delay that cannot be doubled at all.
SmallConfigs == {DelayConfig(1, 1, 0), DelayConfig(4, 3, 5)}
=============================================================================
