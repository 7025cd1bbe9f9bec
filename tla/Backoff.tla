------------------------------- MODULE Backoff -------------------------------
(***************************************************************************)
(* backoff_delay of pusher.rs: how long a push task sleeps before it sends *)
(* a batch again.  All arithmetic is on u64 and saturates; the width is a  *)
(* constant so that a small one can be checked to its limits.              *)
(***************************************************************************)
EXTENDS Naturals

CONSTANTS
  BaseMs,    \* retry_base_ms
  MaxMs,     \* retry_max_ms
  U64Max,    \* u64::MAX
  MsPerSec   \* 1000

ASSUME BackoffAssumption ==
  /\ U64Max \in Nat \ {0} /\ BaseMs \in 0 .. U64Max /\ MaxMs \in 0 .. U64Max
  /\ MsPerSec \in Nat

Least(a, b)    == IF a < b THEN a ELSE b
Greatest(a, b) == IF a > b THEN a ELSE b

\* saturating_mul and saturating_add.
\* Mutant: wrapping arithmetic.
Wrap(n) == n % (U64Max + 1)
Saturate(n) == Least(n, U64Max)

\* A Retry-After in seconds, clamped.
RetryAfterDelay(secs) ==
  Least(Greatest(Saturate(secs * MsPerSec), BaseMs), Greatest(MaxMs, BaseMs))

\* 1u64 << attempt.min(16)
Doubling(attempt) == 2 ^ Least(attempt, 16)
JitterMax == Greatest(BaseMs, 1)
ExponentialDelay(attempt, jitter) ==
  Saturate(Least(Saturate(BaseMs * Doubling(attempt)), MaxMs) + jitter)

\* The delays there can be.  retry_after is a set with at most one element.
BackoffDelays(attempt, retry_after) ==
  IF retry_after # {}
  THEN {RetryAfterDelay(secs) : secs \in retry_after}
  ELSE {ExponentialDelay(attempt, jitter) : jitter \in 0 .. JitterMax}

=============================================================================
