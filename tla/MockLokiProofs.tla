---------------------------- MODULE MockLokiProofs ----------------------------
(***************************************************************************)
(* Proofs about the delays between the attempts of a push task, for every  *)
(* retry_base_ms, retry_max_ms, Retry-After, number of retries and width   *)
(* of u64; about the timestamps and the streams that are made of a batch,  *)
(* for batches of any length; and about the counters of the server, with   *)
(* any number of tasks pushing to it and any number of resets.             *)
(***************************************************************************)
EXTENDS MockLoki, FiniteSetTheorems, WellFoundedInduction, TLAPS

-----------------------------------------------------------------------------
(* backoff_delay.                                                          *)

LEMMA Doublings == \A k \in 1 .. 16 : 2 ^ k \in Nat /\ 2 ^ k >= 2
<1> DEFINE Power(k) == 2 ^ k
<1>1. /\ Power(1) = 2 /\ Power(2) = 4 /\ Power(3) = 8 /\ Power(4) = 16
      /\ Power(5) = 32 /\ Power(6) = 64 /\ Power(7) = 128 /\ Power(8) = 256
  OBVIOUS
<1>2. /\ Power(9) = 512 /\ Power(10) = 1024 /\ Power(11) = 2048 /\ Power(12) = 4096
      /\ Power(13) = 8192 /\ Power(14) = 16384 /\ Power(15) = 32768
      /\ Power(16) = 65536
  OBVIOUS
<1>3. \A k \in 1 .. 16 : Power(k) \in Nat /\ Power(k) >= 2
  <2> HIDE DEF Power
  <2> QED
    BY <1>1, <1>2
<1> QED
  BY <1>3

LEMMA DoublingAtLeastTwo ==
  ASSUME NEW attempt \in Nat, attempt >= 1
  PROVE  Doubling(attempt) \in Nat /\ Doubling(attempt) >= 2
<1>1. Least(attempt, 16) \in 1 .. 16
  BY DEF Least
<1> QED
  BY <1>1, Doublings DEF Doubling

LEMMA ProductAtLeastDouble ==
  ASSUME NEW a \in Nat, NEW d \in Nat, d >= 2
  PROVE  a * d \in Nat /\ a * d >= 2 * a
<1>1. PICK e \in Nat : d = e + 2
  <2>1. d - 2 \in Nat /\ d = (d - 2) + 2
    OBVIOUS
  <2> QED
    BY <2>1
<1>2. a * (e + 2) = a * e + 2 * a /\ a * e \in Nat
  OBVIOUS
<1> QED
  BY <1>1, <1>2

\* Without a header: at least twice the base, but for the maximum, and at most the
\* maximum and a jitter, whatever overflows on the way.
LEMMA ExponentialBounds ==
  ASSUME NEW attempt \in Nat, attempt >= 1, NEW jitter \in 0 .. JitterMax
  PROVE  /\ ExponentialDelay(attempt, jitter) \in Nat
         /\ ExponentialDelay(attempt, jitter) <= MaxMs + JitterMax
         /\ ExponentialDelay(attempt, jitter) >= Least(2 * BaseMs, MaxMs)
<1> DEFINE product == BaseMs * Doubling(attempt)
<1>0. U64Max \in Nat /\ BaseMs \in Nat /\ MaxMs \in Nat /\ MaxMs <= U64Max
  BY BackoffAssumption
<1>1. product \in Nat /\ product >= 2 * BaseMs
  BY <1>0, DoublingAtLeastTwo, ProductAtLeastDouble
<1>2. jitter \in Nat /\ JitterMax \in Nat /\ jitter <= JitterMax
  BY <1>0 DEF JitterMax, Greatest
<1>3. ExponentialDelay(attempt, jitter)
        = Saturate(Least(Saturate(product), MaxMs) + jitter)
  BY DEF ExponentialDelay
<1> HIDE DEF product
<1> QED
  BY <1>0, <1>1, <1>2, <1>3 DEF Saturate, Least

\* With a header: at least what it asks for, but for the maximum, and at least the
\* base; the bounds of the clamp never cross.
LEMMA RetryAfterBounds ==
  ASSUME NEW secs \in Nat
  PROVE  /\ RetryAfterDelay(secs) \in Nat
         /\ RetryAfterDelay(secs) <= Greatest(MaxMs, BaseMs)
         /\ RetryAfterDelay(secs) >= Greatest(Least(secs * MsPerSec, MaxMs), BaseMs)
<1> DEFINE ms == secs * MsPerSec
<1>0. U64Max \in Nat /\ BaseMs \in Nat /\ MaxMs \in Nat /\ MaxMs <= U64Max /\ ms \in Nat
  BY BackoffAssumption
<1>1. RetryAfterDelay(secs) = Least(Greatest(Saturate(ms), BaseMs), Greatest(MaxMs, BaseMs))
  BY DEF RetryAfterDelay
<1> HIDE DEF ms
<1>2. /\ RetryAfterDelay(secs) \in Nat
      /\ RetryAfterDelay(secs) <= Greatest(MaxMs, BaseMs)
      /\ RetryAfterDelay(secs) >= Greatest(Least(ms, MaxMs), BaseMs)
  BY <1>0, <1>1 DEF Saturate, Least, Greatest
<1> QED
  BY <1>2 DEF ms

-----------------------------------------------------------------------------
(* The push tasks.                                                         *)

Task == [pc : {"ready", "waiting", "backoff", "done"}, attempt : Nat, delay : Nat,
         asked : SUBSET Nat]

\* Where the delay of a sleeping task comes from: what makes DelayWithinBounds
\* inductive.  Only the header of the server it talks to can be behind it.
DelayHasCause ==
  \A t \in Tasks : task[t].pc = "backoff" =>
    /\ task[t].attempt >= 1
    /\ task[t].asked = {} \/ task[t].asked = {retry_after_secs}
    /\ task[t].delay \in BackoffDelays(task[t].attempt, task[t].asked)

DelayInv ==
  /\ retry_after_secs \in Nat
  /\ task \in [Tasks -> Task]
  /\ DelayHasCause

LEMMA DelaysAreNat ==
  ASSUME NEW attempt \in Nat, attempt >= 1, NEW asked \in SUBSET Nat
  PROVE  BackoffDelays(attempt, asked) \subseteq Nat
BY ExponentialBounds, RetryAfterBounds DEF BackoffDelays

LEMMA RetryKeeps ==
  ASSUME DelayInv, NEW t \in Tasks, NEW asked \in SUBSET Nat,
         asked = {} \/ asked = {retry_after_secs},
         Retry(t, asked), ServerUnchanged
  PROVE  DelayInv'
<1> USE DEF DelayInv
<1>0. retry_after_secs' = retry_after_secs
  BY DEF ServerUnchanged
<1>1. CASE task[t].attempt >= MaxRetries
  BY <1>0, <1>1 DEF Retry, SetPc, Task, DelayHasCause
<1>2. CASE ~(task[t].attempt >= MaxRetries)
  <2>1. PICK delay \in BackoffDelays(task[t].attempt + 1, asked) :
          task' = [task EXCEPT ![t] = [pc |-> "backoff", delay |-> delay,
                                       attempt |-> task[t].attempt + 1,
                                       asked |-> asked]]
    BY <1>2 DEF Retry
  <2>2. task[t].attempt + 1 \in Nat /\ task[t].attempt + 1 >= 1
    BY DEF Task
  <2>3. delay \in Nat
    BY <2>2, DelaysAreNat
  <2>4. task' \in [Tasks -> Task]
    BY <2>1, <2>2, <2>3 DEF Task
  <2>5. DelayHasCause'
    BY <1>0, <2>1, <2>2 DEF DelayHasCause, Task
  <2> QED
    BY <1>0, <2>4, <2>5
<1> QED
  BY <1>1, <1>2

LEMMA DelayInvInit == Init => DelayInv
BY MockAssumption DEF Init, DelayInv, DelayHasCause, Task

LEMMA DelayInvKept == DelayInv /\ [Next]_vars => DelayInv'
<1> SUFFICES ASSUME DelayInv, [Next]_vars PROVE DelayInv'
  OBVIOUS
<1>1. CASE \E t \in Tasks : Post(t) \/ Delivered(t)
  BY <1>1 DEF DelayInv, DelayHasCause, Task, Post, Delivered, SetPc, ServerUnchanged
<1>2. ASSUME NEW t \in Tasks, Refused(t) PROVE DelayInv'
  <2>1. RetryAfterHeader \in SUBSET Nat
        /\ (RetryAfterHeader = {} \/ RetryAfterHeader = {retry_after_secs})
    BY DEF RetryAfterHeader, DelayInv
  <2> QED
    BY <1>2, <2>1, RetryKeeps DEF Refused
<1>3. ASSUME NEW t \in Tasks, TransportFails(t) PROVE DelayInv'
  BY <1>3, RetryKeeps DEF TransportFails
<1>4. ASSUME NEW t \in Tasks, Woken(t) PROVE DelayInv'
  <2>1. /\ task' = [task EXCEPT ![t] = [@ EXCEPT !.pc = "ready", !.delay = 0, !.asked = {}]]
        /\ retry_after_secs' = retry_after_secs
    BY <1>4 DEF Woken, ServerUnchanged
  <2>2. task' \in [Tasks -> Task]
    BY <2>1 DEF DelayInv, Task
  <2>3. task'[t].pc = "ready" /\ \A u \in Tasks \ {t} : task'[u] = task[u]
    BY <2>1 DEF DelayInv, Task
  <2> QED
    BY <2>1, <2>2, <2>3 DEF DelayInv, DelayHasCause
<1>5. CASE UNCHANGED <<retry_after_secs, task>>
  BY <1>5 DEF DelayInv, DelayHasCause
<1>6. ASSUME NEW r \in Request,
             InjectFailure(r) \/ ReadBody(r) \/ CountEntries(r) \/ Disconnected(r)
      PROVE  UNCHANGED <<retry_after_secs, task>>
  BY <1>6 DEF InjectFailure, ReadBody, CountEntries, Disconnected, Step
<1>7. StartReset \/ ResetNext \/ Quiet \/ UNCHANGED vars
        => UNCHANGED <<retry_after_secs, task>>
  BY DEF StartReset, ResetNext, Quiet, vars
<1> QED
  BY <1>1, <1>2, <1>3, <1>4, <1>5, <1>6, <1>7 DEF Next

\* However extreme its settings and the server's header, a push task sleeps at least
\* as long as asked, or as twice its base, but for its maximum, and at most that and
\* a jitter.
THEOREM DelaysAreBounded == Spec => []DelayWithinBounds
<1>1. DelayInv => DelayWithinBounds
  <2> SUFFICES ASSUME DelayInv, NEW t \in Tasks, task[t].pc = "backoff"
               PROVE  LET delay == task[t].delay
                          asked == {secs * MsPerSec : secs \in task[t].asked}
                      IN /\ delay <= Greatest(MaxMs, BaseMs) + JitterMax
                         /\ \A ms \in asked : delay >= Greatest(Least(ms, MaxMs), BaseMs)
                         /\ asked = {} => delay >= Least(2 * BaseMs, MaxMs)
    BY DEF DelayWithinBounds
  <2>0. /\ BaseMs \in Nat /\ MaxMs \in Nat /\ JitterMax \in Nat
        /\ task[t].attempt \in Nat /\ task[t].attempt >= 1
        /\ task[t].delay \in BackoffDelays(task[t].attempt, task[t].asked)
    BY BackoffAssumption DEF DelayInv, DelayHasCause, Task, JitterMax, Greatest
  <2>1. CASE task[t].asked = {}
    <3>1. PICK jitter \in 0 .. JitterMax :
            task[t].delay = ExponentialDelay(task[t].attempt, jitter)
      BY <2>0, <2>1 DEF BackoffDelays
    <3>2. /\ task[t].delay \in Nat /\ task[t].delay <= MaxMs + JitterMax
          /\ task[t].delay >= Least(2 * BaseMs, MaxMs)
      BY <2>0, <3>1, ExponentialBounds
    <3>3. task[t].delay <= Greatest(MaxMs, BaseMs) + JitterMax
      BY <2>0, <3>2 DEF Greatest
    <3> QED
      BY <2>1, <3>2, <3>3
  <2>2. CASE task[t].asked = {retry_after_secs}
    <3>1. retry_after_secs \in Nat /\ task[t].delay = RetryAfterDelay(retry_after_secs)
      BY <2>0, <2>2 DEF BackoffDelays, DelayInv
    <3>2. /\ task[t].delay \in Nat /\ task[t].delay <= Greatest(MaxMs, BaseMs)
          /\ task[t].delay >= Greatest(Least(retry_after_secs * MsPerSec, MaxMs), BaseMs)
      BY <3>1, RetryAfterBounds
    <3>3. task[t].delay <= Greatest(MaxMs, BaseMs) + JitterMax
      BY <2>0, <3>2 DEF Greatest
    <3> QED
      BY <2>2, <3>2, <3>3
  <2> QED
    BY <2>1, <2>2 DEF DelayInv, DelayHasCause
<1> QED
  BY <1>1, DelayInvInit, DelayInvKept, PTL DEF Spec

-----------------------------------------------------------------------------
(* Induction.                                                              *)

\* Induction over the natural numbers, for a set.
LEMMA Induction ==
  ASSUME NEW S \in SUBSET Nat, 0 \in S, \A n \in S : n + 1 \in S
  PROVE  S = Nat
<1> SUFFICES ASSUME Nat \ S # {} PROVE FALSE
  OBVIOUS
<1>1. PICK x \in Nat \ S : \A y \in Nat \ S : ~ (<<y, x>> \in OpToRel(<, Nat))
  BY NatLessThanWellFounded, WFMin
<1>2. \A y \in Nat \ S : ~(y < x)
  BY <1>1 DEF OpToRel
<1>3. x # 0 /\ x - 1 \in Nat
  OBVIOUS
<1>4. x - 1 \in S
  BY <1>2, <1>3
<1> QED
  BY <1>4

-----------------------------------------------------------------------------
(* timestamp_ns.                                                           *)

\* Pow10 is what its definition says.
LEMMA PowerDef == Pow10 = [d \in 0 .. 39 |-> IF d = 0 THEN 1 ELSE 10 * Pow10[d - 1]]
<1> DEFINE Powers(f, n) == f = [d \in 0 .. n |-> IF d = 0 THEN 1 ELSE 10 * f[d - 1]]
           S == {n \in Nat : \E f : Powers(f, n)}
<1>1. 0 \in S
  <2> DEFINE f == [d \in 0 .. 0 |-> 1]
  <2>1. Powers(f, 0)
    OBVIOUS
  <2> QED
    BY <2>1
<1>2. ASSUME NEW n \in S PROVE n + 1 \in S
  <2>1. n \in Nat /\ \E f : Powers(f, n)
    OBVIOUS
  <2>2. PICK f : Powers(f, n)
    BY <2>1
  <2> DEFINE g == [d \in 0 .. n + 1 |-> IF d = n + 1 THEN 10 * f[n] ELSE f[d]]
  <2>3. ASSUME NEW d \in 0 .. n + 1 PROVE g[d] = IF d = 0 THEN 1 ELSE 10 * g[d - 1]
    <3>1. CASE d = n + 1
      <4>1. d # 0 /\ d - 1 = n /\ n \in 0 .. n + 1 /\ n # n + 1
        BY <2>1, <3>1
      <4> QED
        BY <3>1, <4>1
    <3>2. CASE d # n + 1
      <4>1. d \in 0 .. n /\ d # 0 => d - 1 \in 0 .. n /\ d - 1 # n + 1
        BY <2>1, <3>2
      <4>2. g[d] = f[d] /\ (d # 0 => g[d - 1] = f[d - 1])
        BY <2>1, <3>2, <4>1
      <4>3. f[d] = IF d = 0 THEN 1 ELSE 10 * f[d - 1]
        BY <2>1, <2>2, <3>2
      <4> QED
        BY <4>2, <4>3
    <3> QED
      BY <3>1, <3>2
  <2>4. g = [d \in 0 .. n + 1 |-> g[d]]
    OBVIOUS
  <2> HIDE DEF g
  <2>5. Powers(g, n + 1)
    BY <2>3, <2>4
  <2> QED
    BY <2>1, <2>5
<1> HIDE DEF S
<1>3. 39 \in S
  BY <1>1, <1>2, Induction DEF S
<1>4. \E f : Powers(f, 39)
  BY <1>3 DEF S
<1> QED
  BY <1>4 DEF Pow10

\* Above the induction over the exponent, with no more than 39 to go.
LEMMA Powers ==
  /\ Pow10[0] = 1
  /\ \A d \in 0 .. 39 : Pow10[d] \in Nat /\ Pow10[d] >= 1
  /\ \A d \in 0 .. 38 : Pow10[d + 1] = 10 * Pow10[d]
<1>1. Pow10[0] = 1
  BY PowerDef
<1>2. ASSUME NEW d \in 0 .. 38 PROVE Pow10[d + 1] = 10 * Pow10[d]
  <2>1. d + 1 \in 0 .. 39 /\ d + 1 # 0 /\ (d + 1) - 1 = d
    OBVIOUS
  <2> QED
    BY <2>1, PowerDef
<1> DEFINE S == {n \in Nat : n <= 39 => Pow10[n] \in Nat /\ Pow10[n] >= 1}
<1>3. 0 \in S
  BY <1>1
<1>4. ASSUME NEW n \in S PROVE n + 1 \in S
  <2>1. n \in Nat /\ (n <= 39 => Pow10[n] \in Nat /\ Pow10[n] >= 1)
    OBVIOUS
  <2>2. n + 1 <= 39 => n \in 0 .. 38 /\ n <= 39
    BY <2>1
  <2> QED
    BY <1>2, <2>1, <2>2
<1>5. S = Nat
  <2> HIDE DEF S
  <2> QED
    BY <1>3, <1>4, Induction DEF S
<1> QED
  BY <1>1, <1>2, <1>5

LEMMA PowersMultiply ==
  ASSUME NEW a \in 0 .. 39, NEW b \in 0 .. 39, a + b <= 39
  PROVE  Pow10[a + b] = Pow10[a] * Pow10[b]
<1> DEFINE S == {n \in Nat : a + n <= 39 => Pow10[a + n] = Pow10[a] * Pow10[n]}
<1>1. 0 \in S
  <2>1. Pow10[a] * 1 = Pow10[a] /\ a + 0 = a
    BY Powers
  <2> QED
    BY <2>1, Powers
<1>2. ASSUME NEW n \in S PROVE n + 1 \in S
  <2> SUFFICES ASSUME a + (n + 1) <= 39
               PROVE  Pow10[a + (n + 1)] = Pow10[a] * Pow10[n + 1]
    OBVIOUS
  <2>1. n \in 0 .. 38 /\ a + n \in 0 .. 38 /\ a + (n + 1) = (a + n) + 1
    OBVIOUS
  <2>2. Pow10[a + n] = Pow10[a] * Pow10[n]
    BY <2>1
  <2>3. Pow10[a + (n + 1)] = 10 * Pow10[a + n] /\ Pow10[n + 1] = 10 * Pow10[n]
    BY <2>1, Powers
  <2>4. \A x, y \in Nat : 10 * (x * y) = x * (10 * y)
    OBVIOUS
  <2>5. Pow10[a] \in Nat /\ Pow10[n] \in Nat
    BY <2>1, Powers
  <2> QED
    BY <2>2, <2>3, <2>4, <2>5
<1>3. S = Nat
  <2> HIDE DEF S
  <2> QED
    BY <1>1, <1>2, Induction DEF S
<1>4. b \in Nat
  OBVIOUS
<1>5. b \in S
  <2> HIDE DEF S
  <2> QED
    BY <1>3, <1>4
<1> QED
  BY <1>5

LEMMA PowersGrow ==
  ASSUME NEW a \in 0 .. 39, NEW b \in 0 .. 39, a <= b
  PROVE  Pow10[a] <= Pow10[b]
<1>1. b - a \in 0 .. 39 /\ a + (b - a) = b
  OBVIOUS
<1>2. Pow10[b] = Pow10[a] * Pow10[b - a]
  BY <1>1, PowersMultiply
<1>3. \A x, y \in Nat : y >= 1 => x <= x * y
  OBVIOUS
<1>4. Pow10[a] \in Nat /\ Pow10[b - a] \in Nat /\ Pow10[b - a] >= 1
  BY <1>1, Powers
<1> QED
  BY <1>2, <1>3, <1>4

\* d is the number of digits of n.
HasDigits(n, d) == n < Pow10[d] /\ (d = 1 \/ Pow10[d - 1] <= n)

LEMMA DigitsExist ==
  ASSUME NEW n \in Nat, IsTime(n)
  PROVE  Digits(n) \in 1 .. 39 /\ HasDigits(n, Digits(n))
<1> DEFINE S == {m \in Nat : m <= 38 /\ n < Pow10[m + 1]
                               => \E d \in 1 .. 39 : HasDigits(n, d)}
<1>1. 0 \in S
  <2>1. 0 + 1 = 1 /\ 1 \in 1 .. 39
    OBVIOUS
  <2> QED
    BY <2>1 DEF HasDigits
<1>2. ASSUME NEW m \in S PROVE m + 1 \in S
  <2> SUFFICES ASSUME m + 1 <= 38, n < Pow10[(m + 1) + 1]
               PROVE  \E d \in 1 .. 39 : HasDigits(n, d)
    OBVIOUS
  <2>1. CASE n < Pow10[m + 1]
    BY <2>1
  <2>2. CASE ~(n < Pow10[m + 1])
    <3> DEFINE d == (m + 1) + 1
    <3>1. d \in 1 .. 39 /\ d - 1 = m + 1 /\ m + 1 \in 0 .. 39
      OBVIOUS
    <3>2. Pow10[d - 1] <= n
      BY <2>2, <3>1, Powers
    <3> QED
      BY <3>1, <3>2 DEF HasDigits
  <2> QED
    BY <2>1, <2>2
<1>3. S = Nat
  <2> HIDE DEF S
  <2> QED
    BY <1>1, <1>2, Induction DEF S
<1>4. PICK e \in 1 .. 39 : n < Pow10[e]
  BY DEF IsTime
<1>5. e - 1 \in Nat /\ e - 1 <= 38 /\ (e - 1) + 1 = e
  OBVIOUS
<1>6. \E d \in 1 .. 39 : HasDigits(n, d)
  <2>1. e - 1 \in S
    <3> HIDE DEF S
    <3> QED
      BY <1>3, <1>5
  <2> QED
    BY <1>4, <1>5, <2>1
<1> QED
  BY <1>6 DEF Digits, HasDigits

LEMMA DigitsUnique ==
  ASSUME NEW n \in Nat, NEW d \in 1 .. 39, NEW e \in 1 .. 39,
         HasDigits(n, d), HasDigits(n, e)
  PROVE  d = e
<1>1. ASSUME NEW x \in 1 .. 39, NEW y \in 1 .. 39, HasDigits(n, x), HasDigits(n, y), x < y
      PROVE  FALSE
  <2>1. x <= y - 1 /\ x \in 0 .. 39 /\ y - 1 \in 0 .. 39 /\ y # 1
    BY <1>1
  <2>2. Pow10[x] <= Pow10[y - 1]
    BY <2>1, PowersGrow
  <2>4. Pow10[x] \in Nat /\ Pow10[y - 1] \in Nat
    BY <2>1, Powers
  <2>3. n < Pow10[x] /\ Pow10[y - 1] <= n
    BY <1>1, <2>1 DEF HasDigits
  <2> QED
    BY <2>2, <2>3, <2>4
<1>2. d < e \/ e < d \/ d = e
  OBVIOUS
<1> QED
  BY <1>1, <1>2

\* Three more zeros are three more digits.
LEMMA DigitsShift ==
  ASSUME NEW n \in Nat, n > 0, IsTime(n), NEW k \in 0 .. 39, IsTime(n * Pow10[k])
  PROVE  Digits(n * Pow10[k]) = Digits(n) + k
<1> DEFINE p == Pow10[k]
           f == Digits(n * p)
           m == f - k
<1>1. p \in Nat /\ p >= 1
  BY Powers
<1>2. n * p \in Nat /\ n * p >= p
  <2>1. \A x, y \in Nat : x > 0 => x * y \in Nat /\ x * y >= y
    OBVIOUS
  <2> HIDE DEF p
  <2> QED
    BY <1>1, <2>1
<1>3. f \in 1 .. 39 /\ HasDigits(n * p, f)
  BY <1>2, DigitsExist
<1> HIDE DEF f
<1>4. k < f
  <2> SUFFICES ASSUME f <= k PROVE FALSE
    BY <1>3
  <2>1. f \in 0 .. 39
    BY <1>3
  <2>2. Pow10[f] <= p /\ Pow10[f] \in Nat
    BY <2>1, Powers, PowersGrow
  <2> HIDE DEF p
  <2> QED
    BY <1>1, <1>2, <1>3, <2>2 DEF HasDigits
<1>5. m \in 1 .. 39 /\ m + k = f /\ m - 1 \in 0 .. 39 /\ (m - 1) + k = f - 1
  BY <1>3, <1>4
<1> HIDE DEF m
<1>6. Pow10[f] = Pow10[m] * p /\ Pow10[f - 1] = Pow10[m - 1] * p
  <2>1. Pow10[m + k] = Pow10[m] * Pow10[k]
    BY <1>3, <1>5, PowersMultiply
  <2>2. (m - 1) + k <= 39
    BY <1>3, <1>5
  <2>3. Pow10[(m - 1) + k] = Pow10[m - 1] * Pow10[k]
    BY <1>5, <2>2, PowersMultiply
  <2> QED
    BY <1>5, <2>1, <2>3
<1>7. Pow10[m] \in Nat /\ Pow10[m - 1] \in Nat
  BY <1>5, Powers
<1>8. n < Pow10[m]
  <2>1. n * p < Pow10[m] * p
    BY <1>3, <1>6 DEF HasDigits
  <2>2. \A x, y, z \in Nat : z >= 1 /\ x * z < y * z => x < y
    OBVIOUS
  <2> HIDE DEF p
  <2> QED
    BY <1>1, <1>7, <2>1, <2>2
<1>9. m = 1 \/ Pow10[m - 1] <= n
  <2>1. CASE f = 1
    BY <1>4, <1>5, <2>1
  <2>2. CASE f # 1
    <3>1. Pow10[m - 1] * p <= n * p
      BY <1>3, <1>6, <2>2 DEF HasDigits
    <3>2. \A x, y, z \in Nat : z >= 1 /\ x * z <= y * z => x <= y
      OBVIOUS
    <3> HIDE DEF p
    <3> QED
      BY <1>1, <1>7, <3>1, <3>2
  <2> QED
    BY <2>1, <2>2
<1>10. Digits(n) \in 1 .. 39 /\ HasDigits(n, Digits(n))
  BY DigitsExist
<1>11. HasDigits(n, m)
  BY <1>8, <1>9 DEF HasDigits
<1>12. Digits(n) = m
  BY <1>5, <1>10, <1>11, DigitsUnique
<1> QED
  BY <1>3, <1>5, <1>12 DEF f, p

\* A time and the same time in a unit 10^k finer give one timestamp.
LEMMA SameTimestamp ==
  ASSUME ~ReplaceTimestamp, NEW coarse \in Nat, coarse > 0, IsTime(coarse),
         NEW k \in 0 .. TsDigits, IsTime(coarse * Pow10[k]),
         Digits(coarse * Pow10[k]) <= TsDigits
  PROVE  timestamp_ns(coarse * Pow10[k]) = timestamp_ns(coarse)
<1> DEFINE fine == coarse * Pow10[k]
           d == Digits(coarse)
           rest == TsDigits - (d + k)
<1>1. TsDigits \in 1 .. 39 /\ k \in 0 .. 39
  BY BuilderAssumption
<1>2. Digits(fine) = d + k /\ d \in 1 .. 39
  BY <1>1, DigitsShift, DigitsExist
<1>3. rest \in 0 .. 39 /\ TsDigits - d = k + rest /\ k + rest <= 39
  BY <1>1, <1>2
<1>4. Pow10[k] \in Nat /\ Pow10[rest] \in Nat /\ Pow10[k + rest] = Pow10[k] * Pow10[rest]
  BY <1>1, <1>3, Powers, PowersMultiply
<1>5. fine \in Nat /\ fine # NoTime /\ coarse # NoTime
  BY <1>4 DEF NoTime
<1>6. Pow10[0] = 1 /\ \A x \in Nat : x * 1 = x
  BY Powers
<1>7. timestamp_ns(coarse) = coarse * Pow10[k + rest]
  BY <1>1, <1>2, <1>3, <1>5, <1>6 DEF timestamp_ns
<1>8. timestamp_ns(fine) = fine * Pow10[rest]
  BY <1>1, <1>2, <1>3, <1>5, <1>6 DEF timestamp_ns
<1>9. \A x, y, z \in Nat : x * (y * z) = (x * y) * z
  OBVIOUS
<1> QED
  BY <1>4, <1>7, <1>8, <1>9

-----------------------------------------------------------------------------
(* payload.                                                                *)

NoGroups == [order |-> <<>>, groups |-> <<>>]

\* One step of FoldLeft's definition, which recurs over the sets of positions.
Fold(iter, b, s) ==
  IF s = {} THEN NoGroups ELSE Group(iter[s \ {Max(s)}], b[Max(s)])

LEMMA MaxUpto ==
  ASSUME NEW n \in Nat, NEW s \in SUBSET (1 .. n + 1), n + 1 \in s
  PROVE  Max(s) = n + 1
<1>1. \A y \in s : y \in Nat /\ n + 1 >= y
  OBVIOUS
<1>2. \A x \in s : (\A y \in s : x >= y) => x = n + 1
  BY <1>1
<1> DEFINE m == CHOOSE x \in s : \A y \in s : x >= y
<1>3. m \in s /\ \A y \in s : m >= y
  BY <1>1
<1>4. Max(s) = m
  BY DEF Max
<1> HIDE DEF m
<1> QED
  BY <1>2, <1>3, <1>4

LEMMA FoldExists ==
  ASSUME NEW b, NEW N \in Nat
  PROVE  \E iter : iter = [s \in SUBSET (1 .. N) |-> Fold(iter, b, s)]
<1> DEFINE Folds(iter, n) == iter = [s \in SUBSET (1 .. n) |-> Fold(iter, b, s)]
           S == {n \in Nat : \E iter : Folds(iter, n)}
<1>1. 0 \in S
  <2> DEFINE iter == [s \in SUBSET (1 .. 0) |-> NoGroups]
  <2>1. \A s \in SUBSET (1 .. 0) : s = {}
    OBVIOUS
  <2>2. Folds(iter, 0)
    BY <2>1 DEF Fold
  <2> QED
    BY <2>2
<1>2. ASSUME NEW n \in S PROVE n + 1 \in S
  <2>1. n \in Nat /\ \E iter : Folds(iter, n)
    OBVIOUS
  <2>2. PICK iter : Folds(iter, n)
    BY <2>1
  <2> DEFINE longer == [s \in SUBSET (1 .. n + 1) |->
                          IF n + 1 \in s THEN Group(iter[s \ {n + 1}], b[n + 1])
                                         ELSE iter[s]]
  <2>3. ASSUME NEW s \in SUBSET (1 .. n + 1) PROVE longer[s] = Fold(longer, b, s)
    <3>1. CASE n + 1 \in s
      <4>1. Max(s) = n + 1 /\ s # {}
        BY <2>1, <3>1, MaxUpto
      <4>2. s \ {n + 1} \in SUBSET (1 .. n)
        BY <2>1
      <4>3. longer[s \ {n + 1}] = iter[s \ {n + 1}]
        BY <2>1, <4>2
      <4>4. longer[s] = Group(iter[s \ {n + 1}], b[n + 1])
        BY <3>1
      <4> HIDE DEF longer
      <4> QED
        BY <4>1, <4>3, <4>4 DEF Fold
    <3>2. CASE n + 1 \notin s
      <4>1. s \in SUBSET (1 .. n) /\ longer[s] = iter[s]
        BY <2>1, <3>2
      <4>2. iter[s] = Fold(iter, b, s)
        BY <2>2, <4>1
      <4>3. s \ {Max(s)} \in SUBSET (1 .. n) /\ n + 1 \notin s \ {Max(s)}
        BY <3>2, <4>1
      <4>4. longer[s \ {Max(s)}] = iter[s \ {Max(s)}]
        BY <2>1, <4>3
      <4> HIDE DEF longer
      <4> QED
        BY <4>1, <4>2, <4>4 DEF Fold
    <3> QED
      BY <3>1, <3>2
  <2>4. longer = [s \in SUBSET (1 .. n + 1) |-> longer[s]]
    OBVIOUS
  <2> HIDE DEF longer
  <2>5. Folds(longer, n + 1)
    BY <2>3, <2>4
  <2> QED
    BY <2>1, <2>5
<1>3. S = Nat
  <2> HIDE DEF S
  <2> QED
    BY <1>1, <1>2, Induction DEF S
<1> QED
  BY <1>3

\* payload's loop one log at a time: acc[k] is what it has grouped after k logs.
LEMMA GroupsOneByOne ==
  ASSUME NEW b, NEW N \in Nat, DOMAIN b = 1 .. N
  PROVE  \E acc : /\ acc[0] = NoGroups
                  /\ \A k \in 0 .. N - 1 : acc[k + 1] = Group(acc[k], b[k + 1])
                  /\ FoldLeft(Group, NoGroups, b) = acc[N]
<1> DEFINE iter == CHOOSE it : it = [s \in SUBSET (1 .. N) |-> Fold(it, b, s)]
<1>1. iter = [s \in SUBSET (1 .. N) |-> Fold(iter, b, s)]
  BY FoldExists
<1>2. FoldLeft(Group, NoGroups, b) = iter[1 .. N]
  BY DEF FoldLeft, MapThenFoldSet, Fold
<1> HIDE DEF iter
<1> DEFINE acc == [k \in 0 .. N |-> iter[1 .. k]]
<1>3. acc[0] = NoGroups
  BY <1>1 DEF Fold
<1>4. ASSUME NEW k \in 0 .. N - 1 PROVE acc[k + 1] = Group(acc[k], b[k + 1])
  <2>1. k \in Nat /\ k + 1 <= N /\ k + 1 \in 1 .. k + 1
    OBVIOUS
  <2>2. 1 .. k + 1 \in SUBSET (1 .. N) /\ 1 .. k + 1 # {}
    BY <2>1
  <2>3. Max(1 .. k + 1) = k + 1
    BY MaxUpto, <2>1
  <2>4. (1 .. k + 1) \ {k + 1} = 1 .. k
    BY <2>1
  <2>5. iter[1 .. k + 1] = Fold(iter, b, 1 .. k + 1)
    BY <1>1, <2>2
  <2>6. iter[1 .. k + 1] = Group(iter[1 .. k], b[k + 1])
    BY <2>2, <2>3, <2>4, <2>5 DEF Fold
  <2>7. acc[k] = iter[1 .. k] /\ acc[k + 1] = iter[1 .. k + 1]
    OBVIOUS
  <2> HIDE DEF acc
  <2> QED
    BY <2>6, <2>7
<1>5. acc[N] = iter[1 .. N]
  OBVIOUS
<1> HIDE DEF acc
<1> QED
  BY <1>2, <1>3, <1>4, <1>5

\* Of the first n logs, those with the labels.
With(b, labels, n) == {i \in 1 .. n : b[i].labels = labels}

\* The places of the values grouped so far: the number of the stream, and the position in it.
Places(acc) ==
  UNION {{m} \X DOMAIN acc.groups[acc.order[m]] : m \in DOMAIN acc.order}

\* What payload's loop has made of the first k logs.
Grouped(b, k, acc) ==
  /\ acc = [order |-> acc.order, groups |-> acc.groups]
  /\ acc.order \in Seq({b[i].labels : i \in DOMAIN b})
  /\ \A m, n \in DOMAIN acc.order : acc.order[m] = acc.order[n] => m = n
  /\ acc.groups = [l \in {acc.order[m] : m \in DOMAIN acc.order} |-> acc.groups[l]]
  /\ \A l \in DOMAIN acc.groups :
       /\ acc.groups[l] \in Seq({Entry(b[i]) : i \in DOMAIN b})
       /\ Len(acc.groups[l]) = Cardinality(With(b, l, k))
       /\ Len(acc.groups[l]) # 0
  /\ \A i \in 1 .. k :
       /\ b[i].labels \in DOMAIN acc.groups
       /\ acc.groups[b[i].labels][Cardinality(With(b, b[i].labels, i))] = Entry(b[i])
  /\ IsFiniteSet(Places(acc)) /\ Cardinality(Places(acc)) = k

LEMMA WithOneMore ==
  ASSUME NEW b, NEW l, NEW k \in Nat
  PROVE  /\ IsFiniteSet(With(b, l, k)) /\ Cardinality(With(b, l, k)) \in Nat
         /\ Cardinality(With(b, l, k + 1)) =
              IF b[k + 1].labels = l THEN Cardinality(With(b, l, k)) + 1
                                     ELSE Cardinality(With(b, l, k))
<1>1. IsFiniteSet(With(b, l, k)) /\ Cardinality(With(b, l, k)) \in Nat
  <2>1. With(b, l, k) \subseteq 1 .. k
    BY DEF With
  <2>2. IsFiniteSet(1 .. k)
    BY FS_Interval
  <2> QED
    BY <2>1, <2>2, FS_Subset, FS_CardinalityType
<1>2. With(b, l, k + 1) = IF b[k + 1].labels = l THEN With(b, l, k) \cup {k + 1}
                                                 ELSE With(b, l, k)
  BY DEF With
<1>3. k + 1 \notin With(b, l, k)
  BY DEF With
<1> QED
  BY <1>1, <1>2, <1>3, FS_AddElement

LEMMA RankBounds ==
  ASSUME NEW b, NEW k \in Nat, NEW i \in 1 .. k
  PROVE  Cardinality(With(b, b[i].labels, i)) \in 1 .. Cardinality(With(b, b[i].labels, k))
<1> DEFINE l == b[i].labels
           j == i - 1
<1>1. j \in Nat /\ i = j + 1
  OBVIOUS
<1>2. Cardinality(With(b, l, j)) \in Nat
  BY <1>1, WithOneMore
<1>3. Cardinality(With(b, l, i)) = Cardinality(With(b, l, j)) + 1
  BY <1>1, WithOneMore
<1>4. IsFiniteSet(With(b, l, k)) /\ Cardinality(With(b, l, k)) \in Nat
  BY WithOneMore
<1>5. With(b, l, i) \subseteq With(b, l, k)
  BY DEF With
<1>6. Cardinality(With(b, l, i)) <= Cardinality(With(b, l, k))
  BY <1>4, <1>5, FS_Subset
<1> QED
  BY <1>2, <1>3, <1>4, <1>6

\* One more log: it becomes the last value of the stream of its labels.
Grows(b, k, acc, old, new) ==
  LET l == b[k + 1].labels
  IN /\ new = [order |-> new.order, groups |-> new.groups]
     /\ old \in Seq({Entry(b[i]) : i \in DOMAIN b})
     /\ Len(old) = Cardinality(With(b, l, k))
     /\ \/ /\ l \in DOMAIN acc.groups /\ new.order = acc.order
           /\ old = acc.groups[l]
        \/ /\ l \notin DOMAIN acc.groups /\ new.order = Append(acc.order, l)
           /\ old = <<>>
     /\ new.groups = [x \in DOMAIN acc.groups \cup {l} |->
                        IF x = l THEN Append(old, Entry(b[k + 1])) ELSE acc.groups[x]]

LEMMA GroupGrows ==
  ASSUME NEW b, NEW N \in Nat, DOMAIN b = 1 .. N, NEW k \in Nat, k + 1 \in 1 .. N,
         NEW acc, Grouped(b, k, acc)
  PROVE  \E old : Grows(b, k, acc, old, Group(acc, b[k + 1]))
<1> DEFINE l == b[k + 1].labels
           e == Entry(b[k + 1])
           new == Group(acc, b[k + 1])
<1>1. /\ new.order = IF l \in DOMAIN acc.groups THEN acc.order ELSE Append(acc.order, l)
      /\ new.groups = [x \in DOMAIN acc.groups \cup {l} |->
                         IF x # l THEN acc.groups[x]
                         ELSE IF l \in DOMAIN acc.groups THEN Append(acc.groups[x], e)
                              ELSE <<e>>]
      /\ new = [order |-> new.order, groups |-> new.groups]
  BY DEF Group
<1> HIDE DEF new
<1>2. CASE l \in DOMAIN acc.groups
  <2>1. /\ acc.groups[l] \in Seq({Entry(b[i]) : i \in DOMAIN b})
        /\ Len(acc.groups[l]) = Cardinality(With(b, l, k))
    BY <1>2 DEF Grouped
  <2>2. Grows(b, k, acc, acc.groups[l], new)
    <3> HIDE DEF e
    <3>1. e = Entry(b[k + 1])
      BY DEF e
    <3> QED
      BY <1>1, <1>2, <2>1, <3>1 DEF Grows
  <2> QED
    BY <2>2 DEF new
<1>3. CASE l \notin DOMAIN acc.groups
  <2>1. With(b, l, k) = {}
    BY <1>3 DEF With, Grouped
  <2>2. /\ <<>> \in Seq({Entry(b[i]) : i \in DOMAIN b})
        /\ Len(<<>>) = Cardinality(With(b, l, k))
    BY <2>1, FS_EmptySet
  <2>3. Append(<<>>, e) = <<e>>
    <3> HIDE DEF e
    <3> QED
      OBVIOUS
  <2>4. Grows(b, k, acc, <<>>, new)
    <3> HIDE DEF e
    <3>1. e = Entry(b[k + 1])
      BY DEF e
    <3> QED
      BY <1>1, <1>3, <2>2, <2>3, <3>1 DEF Grows
  <2> QED
    BY <2>4 DEF new
<1> QED
  BY <1>2, <1>3

\* With one log more, what is grouped is still what was given.
LEMMA GroupedKept ==
  ASSUME NEW b, NEW N \in Nat, DOMAIN b = 1 .. N, NEW k \in Nat, k + 1 \in 1 .. N,
         NEW acc, Grouped(b, k, acc)
  PROVE  Grouped(b, k + 1, Group(acc, b[k + 1]))
<1> DEFINE new == Group(acc, b[k + 1])
           l   == b[k + 1].labels
           e   == Entry(b[k + 1])
           L   == {b[i].labels : i \in DOMAIN b}
           E   == {Entry(b[i]) : i \in DOMAIN b}
<1>1. PICK old : Grows(b, k, acc, old, new)
  BY GroupGrows
<1> HIDE DEF new
<1>2. l \in L /\ e \in E
  OBVIOUS
<1> HIDE DEF L, E, e
<1>3. /\ new = [order |-> new.order, groups |-> new.groups]
      /\ old \in Seq(E) /\ Len(old) = Cardinality(With(b, l, k))
      /\ \/ l \in DOMAIN acc.groups /\ new.order = acc.order /\ old = acc.groups[l]
         \/ l \notin DOMAIN acc.groups /\ new.order = Append(acc.order, l) /\ old = <<>>
      /\ new.groups = [x \in DOMAIN acc.groups \cup {l} |->
                         IF x = l THEN Append(old, e) ELSE acc.groups[x]]
  BY <1>1 DEF Grows, E, e
<1>4. /\ acc.order \in Seq(L)
      /\ \A m, n \in DOMAIN acc.order : acc.order[m] = acc.order[n] => m = n
      /\ DOMAIN acc.groups = {acc.order[m] : m \in DOMAIN acc.order}
      /\ \A x \in DOMAIN acc.groups : acc.groups[x] \in Seq(E)
      /\ \A x \in DOMAIN acc.groups : /\ Len(acc.groups[x]) = Cardinality(With(b, x, k))
                                      /\ Len(acc.groups[x]) # 0
      /\ \A i \in 1 .. k :
           /\ b[i].labels \in DOMAIN acc.groups
           /\ acc.groups[b[i].labels][Cardinality(With(b, b[i].labels, i))] = Entry(b[i])
      /\ IsFiniteSet(Places(acc)) /\ Cardinality(Places(acc)) = k
  BY DEF Grouped, L, E
<1> HIDE DEF l
<1>5. PICK n \in Nat : /\ n = Len(new.order) /\ DOMAIN new.order = 1 .. n
                       /\ new.order \in Seq(L)
                       /\ \A x, y \in 1 .. n : new.order[x] = new.order[y] => x = y
                       /\ DOMAIN acc.order \subseteq 1 .. n
                       /\ \A x \in DOMAIN acc.order : new.order[x] = acc.order[x]
                       /\ \A x \in 1 .. n : x \notin DOMAIN acc.order => new.order[x] = l
                       /\ \E m \in 1 .. n : new.order[m] = l
  <2> DEFINE before == acc.order
             after  == new.order
  <2>1. PICK m \in Nat : m = Len(before) /\ DOMAIN before = 1 .. m
    BY <1>4
  <2>2. before \in Seq(L) /\ \A x, y \in 1 .. m : before[x] = before[y] => x = y
    BY <1>4, <2>1
  <2>3. l \in DOMAIN acc.groups <=> \E x \in 1 .. m : before[x] = l
    BY <1>4, <2>1
  <2>4. IF l \in DOMAIN acc.groups THEN after = before ELSE after = Append(before, l)
    BY <1>3
  <2> HIDE DEF before, after
  <2>5. CASE l \in DOMAIN acc.groups
    BY <2>1, <2>2, <2>3, <2>4, <2>5 DEF before, after
  <2>6. CASE l \notin DOMAIN acc.groups
    <3>1. /\ after \in Seq(L) /\ Len(after) = m + 1 /\ DOMAIN after = 1 .. m + 1
          /\ after[m + 1] = l /\ \A x \in 1 .. m : after[x] = before[x]
      BY <1>2, <2>1, <2>2, <2>4, <2>6
    <3>2. \A x \in 1 .. m + 1 : x \in 1 .. m \/ x = m + 1
      BY <2>1
    <3>3. \A x, y \in 1 .. m + 1 : after[x] = after[y] => x = y
      BY <2>2, <2>3, <2>6, <3>1, <3>2
    <3>4. m + 1 \in Nat /\ m + 1 \in 1 .. m + 1 /\ 1 .. m \subseteq 1 .. m + 1
      BY <2>1
    <3> QED
      BY <2>1, <3>1, <3>2, <3>3, <3>4 DEF before, after
  <2> QED
    BY <2>5, <2>6
<1>6. DOMAIN new.groups = {new.order[m] : m \in DOMAIN new.order}
  <2>1. DOMAIN new.groups = DOMAIN acc.groups \cup {l}
    BY <1>3
  <2>2. \A x \in DOMAIN acc.groups : \E m \in 1 .. n : new.order[m] = x
    BY <1>4, <1>5
  <2>3. \A m \in 1 .. n : new.order[m] \in DOMAIN acc.groups \cup {l}
    BY <1>4, <1>5
  <2> QED
    BY <1>5, <2>1, <2>2, <2>3
<1>7. PICK r \in Nat : /\ r = Len(old) /\ r = Cardinality(With(b, l, k))
                       /\ DOMAIN old = 1 .. r
                       /\ Append(old, e) \in Seq(E) /\ Len(Append(old, e)) = r + 1
                       /\ DOMAIN Append(old, e) = 1 .. r + 1
                       /\ Append(old, e)[r + 1] = e
                       /\ \A x \in 1 .. r : Append(old, e)[x] = old[x]
  BY <1>2, <1>3
<1>8. \A x \in DOMAIN new.groups :
        /\ new.groups[x] \in Seq(E)
        /\ Len(new.groups[x]) = Cardinality(With(b, x, k + 1))
        /\ Len(new.groups[x]) # 0
  <2> SUFFICES ASSUME NEW x \in DOMAIN new.groups
               PROVE  /\ new.groups[x] \in Seq(E)
                      /\ Len(new.groups[x]) = Cardinality(With(b, x, k + 1))
                      /\ Len(new.groups[x]) # 0
    OBVIOUS
  <2>1. CASE x = l
    <3>1. new.groups[x] = Append(old, e)
      BY <1>3, <2>1
    <3>2. Cardinality(With(b, l, k + 1)) = r + 1
      BY <1>7, WithOneMore DEF l
    <3> QED
      BY <1>7, <2>1, <3>1, <3>2
  <2>2. CASE x # l
    <3>1. x \in DOMAIN acc.groups /\ new.groups[x] = acc.groups[x]
      BY <1>3, <2>2
    <3>2. Cardinality(With(b, x, k + 1)) = Cardinality(With(b, x, k))
      BY <2>2, WithOneMore DEF l
    <3> QED
      BY <1>4, <3>1, <3>2
  <2> QED
    BY <2>1, <2>2
<1>9. \A i \in 1 .. k + 1 :
        /\ b[i].labels \in DOMAIN new.groups
        /\ new.groups[b[i].labels][Cardinality(With(b, b[i].labels, i))] = Entry(b[i])
  <2> SUFFICES ASSUME NEW i \in 1 .. k + 1
               PROVE  /\ b[i].labels \in DOMAIN new.groups
                      /\ new.groups[b[i].labels][Cardinality(With(b, b[i].labels, i))]
                           = Entry(b[i])
    OBVIOUS
  <2> DEFINE rank == Cardinality(With(b, b[i].labels, i))
  <2>1. CASE i = k + 1
    <3>1. rank = r + 1
      <4>1. Cardinality(With(b, l, k + 1)) = r + 1
        BY <1>7, WithOneMore DEF l
      <4> QED
        BY <2>1, <4>1 DEF l
    <3> HIDE DEF rank
    <3>2. b[i].labels = l /\ Entry(b[i]) = e
      BY <2>1 DEF l, e
    <3>3. new.groups[l] = Append(old, e) /\ l \in DOMAIN new.groups
      BY <1>3
    <3>4. new.groups[b[i].labels][rank] = Entry(b[i])
      BY <1>7, <3>1, <3>2, <3>3
    <3> QED
      BY <3>2, <3>3, <3>4 DEF rank
  <2>2. CASE i # k + 1
    <3>1. i \in 1 .. k
      BY <2>2
    <3>2. rank \in 1 .. Cardinality(With(b, b[i].labels, k))
      BY <3>1, RankBounds
    <3>3. b[i].labels \in DOMAIN acc.groups /\ acc.groups[b[i].labels][rank] = Entry(b[i])
      BY <1>4, <3>1
    <3> HIDE DEF rank
    <3>4. new.groups[b[i].labels][rank] = acc.groups[b[i].labels][rank]
      <4>1. CASE b[i].labels = l
        <5>1. new.groups[l] = Append(old, e) /\ old = acc.groups[l]
          BY <1>3, <3>3, <4>1
        <5>2. rank \in 1 .. r
          BY <1>7, <3>2, <4>1
        <5> QED
          BY <1>7, <4>1, <5>1, <5>2
      <4>2. CASE b[i].labels # l
        BY <1>3, <3>3, <4>2
      <4> QED
        BY <4>1, <4>2
    <3> QED
      BY <1>3, <3>3, <3>4 DEF rank
  <2> QED
    BY <2>1, <2>2
<1>10. IsFiniteSet(Places(new)) /\ Cardinality(Places(new)) = k + 1
  <2>1. PICK m \in 1 .. n : new.order[m] = l
    BY <1>5
  <2>2. \A x \in 1 .. n : x # m =>
          /\ x \in DOMAIN acc.order
          /\ new.groups[new.order[x]] = acc.groups[acc.order[x]]
    BY <1>3, <1>4, <1>5, <2>1
  <2>3. new.groups[new.order[m]] = Append(old, e)
    BY <1>3, <2>1
  <2>4. m \in DOMAIN acc.order => acc.groups[acc.order[m]] = old
    BY <1>3, <1>4, <1>5, <2>1
  <2>5. m \notin DOMAIN acc.order => r = 0
    <3>1. m \notin DOMAIN acc.order => l \notin DOMAIN acc.groups
      BY <1>3, <1>4, <1>5, <2>1
    <3> QED
      BY <1>3, <1>7, <3>1
  <2>6. Places(new) = Places(acc) \cup {<<m, r + 1>>}
    <3>1. ASSUME NEW p \in Places(new) PROVE p \in Places(acc) \cup {<<m, r + 1>>}
      <4>1. PICK x \in 1 .. n : p \in {x} \X DOMAIN new.groups[new.order[x]]
        BY <1>5 DEF Places
      <4>2. CASE x = m
        <5>1. PICK y \in 1 .. r + 1 : p = <<m, y>>
          BY <1>7, <2>3, <4>1, <4>2
        <5>2. CASE y = r + 1
          BY <5>1, <5>2
        <5>3. CASE y # r + 1
          <6>1. y \in 1 .. r /\ m \in DOMAIN acc.order
            BY <2>5, <5>3
          <6>2. p \in {m} \X DOMAIN acc.groups[acc.order[m]]
            BY <1>7, <2>4, <5>1, <6>1
          <6> QED
            BY <6>1, <6>2 DEF Places
        <5> QED
          BY <5>2, <5>3
      <4>3. CASE x # m
        BY <2>2, <4>1, <4>3 DEF Places
      <4> QED
        BY <4>2, <4>3
    <3>2. ASSUME NEW p \in Places(acc) PROVE p \in Places(new)
      <4>1. PICK x \in DOMAIN acc.order : p \in {x} \X DOMAIN acc.groups[acc.order[x]]
        BY DEF Places
      <4>2. x \in 1 .. n
        BY <1>5
      <4>3. p \in {x} \X DOMAIN new.groups[new.order[x]]
        <5>1. CASE x = m
          BY <1>7, <2>3, <2>4, <4>1, <5>1
        <5>2. CASE x # m
          BY <2>2, <4>1, <4>2, <5>2
        <5> QED
          BY <5>1, <5>2
      <4> QED
        BY <1>5, <4>2, <4>3 DEF Places
    <3>3. <<m, r + 1>> \in Places(new)
      <4>1. <<m, r + 1>> \in {m} \X DOMAIN new.groups[new.order[m]]
        BY <1>7, <2>3
      <4> QED
        BY <1>5, <4>1 DEF Places
    <3> QED
      BY <3>1, <3>2, <3>3
  <2>7. <<m, r + 1>> \notin Places(acc)
    <3> SUFFICES ASSUME NEW x \in DOMAIN acc.order,
                        <<m, r + 1>> \in {x} \X DOMAIN acc.groups[acc.order[x]]
                 PROVE  FALSE
      BY DEF Places
    <3>1. x = m /\ r + 1 \in DOMAIN old
      BY <2>4
    <3> QED
      BY <1>7, <3>1
  <2>8. IsFiniteSet(Places(acc)) /\ Cardinality(Places(acc)) = k
    BY <1>4
  <2> QED
    BY <2>6, <2>7, <2>8, FS_AddElement
<1>11. \A x, y \in DOMAIN new.order : new.order[x] = new.order[y] => x = y
  BY <1>5
<1>12. new.groups = [x \in {new.order[m] : m \in DOMAIN new.order} |-> new.groups[x]]
  <2>1. new.groups = [x \in DOMAIN new.groups |-> new.groups[x]]
    BY <1>3
  <2> QED
    BY <1>6, <2>1
<1>13. Grouped(b, k + 1, new)
  BY <1>3, <1>5, <1>8, <1>9, <1>10, <1>11, <1>12 DEF Grouped, L, E
<1> QED
  BY <1>13 DEF new

LEMMA PayloadIsGrouped ==
  ASSUME NEW b, NEW N \in Nat, DOMAIN b = 1 .. N
  PROVE  \E acc : /\ Grouped(b, N, acc)
                  /\ payload(b) = [k \in DOMAIN acc.order |->
                                     [stream |-> acc.order[k],
                                      values |-> acc.groups[acc.order[k]]]]
<1>1. PICK acc : /\ acc[0] = NoGroups
                 /\ \A k \in 0 .. N - 1 : acc[k + 1] = Group(acc[k], b[k + 1])
                 /\ FoldLeft(Group, NoGroups, b) = acc[N]
  BY GroupsOneByOne
<1> DEFINE S == {k \in Nat : k <= N => Grouped(b, k, acc[k])}
<1>2. 0 \in S
  <2>1. /\ NoGroups.order = <<>> /\ NoGroups.groups = <<>>
        /\ NoGroups = [order |-> NoGroups.order, groups |-> NoGroups.groups]
    BY DEF NoGroups
  <2>2. Places(NoGroups) = {}
    BY <2>1 DEF Places
  <2>3. IsFiniteSet(Places(NoGroups)) /\ Cardinality(Places(NoGroups)) = 0
    BY <2>2, FS_EmptySet
  <2>4. /\ NoGroups.order \in Seq({b[i].labels : i \in DOMAIN b})
        /\ DOMAIN NoGroups.order = {} /\ DOMAIN NoGroups.groups = {}
    BY <2>1
  <2>5. NoGroups.groups = [l \in {NoGroups.order[m] : m \in DOMAIN NoGroups.order}
                             |-> NoGroups.groups[l]]
    BY <2>1
  <2>6. Grouped(b, 0, NoGroups)
    <3> HIDE DEF NoGroups
    <3> QED
      BY <2>1, <2>3, <2>4, <2>5 DEF Grouped
  <2> QED
    BY <1>1, <2>6
<1>3. ASSUME NEW k \in S PROVE k + 1 \in S
  <2> SUFFICES ASSUME k + 1 <= N PROVE Grouped(b, k + 1, acc[k + 1])
    OBVIOUS
  <2>1. k \in Nat /\ k \in 0 .. N - 1 /\ k + 1 \in 1 .. N
    OBVIOUS
  <2>2. Grouped(b, k, acc[k])
    BY <2>1
  <2>3. Grouped(b, k + 1, Group(acc[k], b[k + 1]))
    BY <2>1, <2>2, GroupedKept
  <2> QED
    BY <1>1, <2>1, <2>3
<1> HIDE DEF S
<1>4. S = Nat
  BY <1>2, <1>3, Induction DEF S
<1>5. Grouped(b, N, acc[N])
  BY <1>4 DEF S
<1>6. payload(b) = [k \in DOMAIN acc[N].order |->
                      [stream |-> acc[N].order[k],
                       values |-> acc[N].groups[acc[N].order[k]]]]
  <2>1. FoldLeft(Group, [order |-> <<>>, groups |-> <<>>], b) = acc[N]
    BY <1>1 DEF NoGroups
  <2> QED
    BY <2>1 DEF payload
<1> QED
  BY <1>5, <1>6

\* The server counts as many entries in a request as there were logs in its batch.
LEMMA EveryLogIsOneEntry ==
  ASSUME NEW b, NEW N \in Nat, DOMAIN b = 1 .. N
  PROVE  count_entries(payload(b)) = N
<1>1. PICK acc : /\ Grouped(b, N, acc)
                 /\ payload(b) = [k \in DOMAIN acc.order |->
                                    [stream |-> acc.order[k],
                                     values |-> acc.groups[acc.order[k]]]]
  BY PayloadIsGrouped
<1> DEFINE body == payload(b)
<1>2. /\ DOMAIN body = DOMAIN acc.order
      /\ \A k \in DOMAIN acc.order : body[k].values = acc.groups[acc.order[k]]
  BY <1>1
<1> HIDE DEF body
<1>3. UNION {{k} \X DOMAIN body[k].values : k \in DOMAIN body} = Places(acc)
  BY <1>2 DEF Places
<1> QED
  BY <1>1, <1>3 DEF count_entries, body, Grouped

-----------------------------------------------------------------------------
(* The counters.                                                           *)

States == {"none", "latency", "counting", "stored", "failed", "dropped"}
Seen   == {"latency", "counting", "stored", "failed", "dropped"}

ServerTypes ==
  /\ handler \in [Request -> [state : States, resets : Nat]]
  /\ counters = [c \in ToSet(Counters) |-> counters[c]]
  /\ \A c \in ToSet(Counters) : counters[c] \in Nat
  /\ resetting \in 0 .. Len(Counters) /\ resets \in Nat /\ raced \in BOOLEAN

\* The request of an attempt that is still to be made has no handler.
FreshRequests ==
  \A t \in Tasks : \A a \in 0 .. MaxRetries :
    a > task[t].attempt \/ (a = task[t].attempt /\ task[t].pc \in {"ready", "backoff"})
      => handler[<<t, a>>].state = "none"

\* A reset that has raced with nobody clears the counters one by one, and no handler
\* is under way that came before it.
ResetsAlone ==
  /\ \A r \in Request : handler[r].resets <= resets
  /\ ~raced =>
       /\ \A r \in Request : UnderWay(r) => resetting = 0 /\ handler[r].resets = resets
       /\ \A i \in 1 .. Len(Counters) : i < resetting => counters[Counters[i]] = 0

\* Each task has one of its batches.
BatchesGiven == \A t \in Tasks : batch[t] \in Batches[t]

ServerInv ==
  /\ DelayInv
  /\ \A t \in Tasks : task[t].attempt <= MaxRetries
  /\ ServerTypes /\ FreshRequests /\ ResetsAlone /\ BatchesGiven
  /\ CountersExact

LEMMA CounterOrder ==
  /\ Len(Counters) = 4 /\ DOMAIN Counters = 1 .. 4
  /\ Counters[1] = "requests" /\ Counters[2] = "entries"
  /\ Counters[3] = "injected_failures" /\ Counters[4] = "bytes"
  /\ ToSet(Counters) = {"requests", "entries", "injected_failures", "bytes"}
<1>1. /\ Len(Counters) = 4 /\ DOMAIN Counters = 1 .. 4
      /\ Counters[1] = "requests" /\ Counters[2] = "entries"
      /\ Counters[3] = "injected_failures" /\ Counters[4] = "bytes"
  BY DEF Counters
<1>2. \A i \in 1 .. 4 : i = 1 \/ i = 2 \/ i = 3 \/ i = 4
  OBVIOUS
<1>3. ToSet(Counters) = {Counters[i] : i \in 1 .. 4}
  BY <1>1 DEF ToSet
<1> HIDE DEF Counters
<1> QED
  BY <1>1, <1>2, <1>3

LEMMA RequestsAreFinite ==
  ASSUME NEW S \in SUBSET Request
  PROVE  IsFiniteSet(S) /\ Cardinality(S) \in Nat
<1>1. IsFiniteSet(Tasks) /\ MaxRetries \in Nat
  BY MockAssumption
<1>2. IsFiniteSet(0 .. MaxRetries)
  BY <1>1, FS_Interval
<1>3. IsFiniteSet(Request)
  BY <1>1, <1>2, FS_Product DEF Request
<1> QED
  BY <1>3, FS_Subset, FS_CardinalityType

\* A handler of this reset that goes on from one state to another is counted among
\* those the new state belongs to, and only those.
LEMMA CountedMoves ==
  ASSUME ServerTypes, NEW r \in Request, NEW to \in States, NEW states \in SUBSET States,
         handler' = [handler EXCEPT ![r].state = to], resets' = resets,
         handler[r].resets = resets
  PROVE  Counted(states)' = IF to \in states THEN Counted(states) \cup {r}
                                             ELSE Counted(states) \ {r}
<1>1. \A q \in Request : /\ handler'[q].resets = handler[q].resets
                         /\ handler'[q].state = IF q = r THEN to ELSE handler[q].state
  BY DEF ServerTypes
<1> QED
  BY <1>1 DEF Counted, Since

LEMMA OneMore ==
  ASSUME NEW S \in SUBSET Request, NEW r \in Request
  PROVE  Cardinality(S \cup {r}) = IF r \in S THEN Cardinality(S) ELSE Cardinality(S) + 1
BY RequestsAreFinite, FS_AddElement

\* Storing a batch adds as many entries as it has logs.
LEMMA BatchIsCounted ==
  ASSUME BatchesGiven, NEW t \in Tasks
  PROVE  /\ Len(batch[t]) \in Nat /\ DOMAIN batch[t] = 1 .. Len(batch[t])
         /\ count_entries(Body(t)) = Len(batch[t])
<1>1. Len(batch[t]) \in Nat /\ DOMAIN batch[t] = 1 .. Len(batch[t])
  BY BatchAssumption DEF BatchesGiven
<1>2. DOMAIN Built(t) = 1 .. Len(batch[t])
  BY <1>1 DEF Built
<1>3. count_entries(payload(Built(t))) = Len(batch[t])
  BY <1>1, <1>2, EveryLogIsOneEntry
<1> QED
  BY <1>1, <1>3 DEF Body

LEMMA StoredLinesAreFinite ==
  ASSUME BatchesGiven
  PROVE  IsFiniteSet(StoredLines)
<1> DEFINE Lines(r) == {r} \X DOMAIN batch[r[1]]
           S == {Lines(r) : r \in Counted({"stored"})}
<1>1. IsFiniteSet(S)
  <2>1. IsFiniteSet(Counted({"stored"}))
    <3>1. Counted({"stored"}) \in SUBSET Request
      BY DEF Counted
    <3> QED
      BY <3>1, RequestsAreFinite
  <2> DEFINE f == [r \in Counted({"stored"}) |-> Lines(r)]
  <2>2. f \in Surjection(Counted({"stored"}), S)
    BY DEF Surjection
  <2> HIDE DEF f, S
  <2> QED
    BY <2>1, <2>2, FS_Surjection
<1>2. ASSUME NEW r \in Request PROVE IsFiniteSet(Lines(r))
  <2>1. r[1] \in Tasks
    BY DEF Request
  <2>2. IsFiniteSet(DOMAIN batch[r[1]])
    <3>1. \E n \in Nat : DOMAIN batch[r[1]] = 1 .. n
      BY <2>1, BatchIsCounted
    <3> QED
      BY <3>1, FS_Interval
  <2> QED
    BY <2>2, FS_Singleton, FS_Product
<1>3. \A T \in S : IsFiniteSet(T)
  BY <1>2 DEF Counted
<1>4. StoredLines = UNION S
  BY DEF StoredLines
<1> HIDE DEF S
<1> QED
  BY <1>1, <1>3, <1>4, FS_UNION

LEMMA StoreAddsLines ==
  ASSUME ServerTypes, BatchesGiven, UNCHANGED batch, NEW r \in Request,
         r \notin Counted({"stored"}),
         Counted({"stored"})' = Counted({"stored"}) \cup {r}
  PROVE  Cardinality(StoredLines') = Cardinality(StoredLines) + count_entries(Body(r[1]))
<1> DEFINE t == r[1]
           n == Len(batch[t])
           added == {r} \X DOMAIN batch[t]
<1>1. t \in Tasks
  BY DEF Request
<1>2. n \in Nat /\ DOMAIN batch[t] = 1 .. n /\ count_entries(Body(t)) = n
  BY <1>1, BatchIsCounted
<1>3. StoredLines' = StoredLines \cup added
  BY DEF StoredLines
<1>4. StoredLines \cap added = {}
  BY DEF StoredLines
<1>5. IsFiniteSet(added) /\ Cardinality(added) = n
  <2>1. IsFiniteSet({r}) /\ Cardinality({r}) = 1
    BY FS_Singleton
  <2>2. IsFiniteSet(1 .. n) /\ Cardinality(1 .. n) = n
    BY <1>2, FS_Interval
  <2>3. Cardinality({r} \X (1 .. n)) = 1 * n /\ IsFiniteSet({r} \X (1 .. n))
    BY <2>1, <2>2, FS_Product
  <2> QED
    BY <1>2, <2>3
<1>6. IsFiniteSet(StoredLines)
  BY StoredLinesAreFinite
<1> HIDE DEF added, n
<1>7. Cardinality(StoredLines \cup added) =
        Cardinality(StoredLines) + Cardinality(added) - Cardinality(StoredLines \cap added)
  BY <1>5, <1>6, FS_Union
<1>8. Cardinality(StoredLines) \in Nat /\ Cardinality({}) = 0
  BY <1>6, FS_CardinalityType, FS_EmptySet
<1>9. Cardinality(StoredLines \cup added) = Cardinality(StoredLines) + n
  <2> DEFINE x == Cardinality(StoredLines)
             y == Cardinality(StoredLines \cup added)
  <2>1. y = x + n - 0
    BY <1>4, <1>5, <1>7, <1>8
  <2>2. x \in Nat /\ n \in Nat
    BY <1>2, <1>8
  <2> HIDE DEF x, y
  <2>3. y = x + n
    BY <2>1, <2>2
  <2> QED
    BY <2>3 DEF x, y
<1> QED
  BY <1>2, <1>3, <1>9

\* A handler that goes on raises the counters that stand for its new state.
LEMMA HandlerStepKeeps ==
  ASSUME ServerInv, NEW r \in Request,
         InjectFailure(r) \/ ReadBody(r) \/ CountEntries(r) \/ Disconnected(r)
  PROVE  ServerInv'
<1> DEFINE from == handler[r].state
<1>1. PICK to \in {"failed", "counting", "stored", "dropped"} :
        /\ handler' = [handler EXCEPT ![r].state = to]
        /\ \/ /\ from = "latency" /\ to = "failed"
              /\ counters' = [counters EXCEPT !["injected_failures"] = @ + 1]
           \/ /\ from = "latency" /\ to = "counting"
              /\ counters' = [counters EXCEPT !["bytes"] = @ + 1]
           \/ /\ from = "counting" /\ to = "stored"
              /\ counters' = [counters EXCEPT !["entries"] = @ + count_entries(Body(r[1]))]
           \/ from = "latency" /\ to = "dropped" /\ counters' = counters
  BY DEF InjectFailure, ReadBody, CountEntries, Disconnected, Step
<1>2. UNCHANGED <<retry_after_secs, batch, task, resetting, resets, raced>>
  BY DEF InjectFailure, ReadBody, CountEntries, Disconnected, Step
<1>3. /\ ServerTypes /\ ResetsAlone /\ FreshRequests /\ DelayInv /\ BatchesGiven
      /\ to \in States
  BY DEF ServerInv, States
<1>4. DelayInv' /\ (\A t \in Tasks : task'[t].attempt <= MaxRetries)
  BY <1>2 DEF ServerInv, DelayInv, DelayHasCause
<1>5. UnderWay(r) /\ from # "none"
  BY <1>1 DEF UnderWay
<1>6. ServerTypes'
  <2>1. handler' \in [Request -> [state : States, resets : Nat]]
    BY <1>1, <1>3 DEF ServerTypes
  <2>2. count_entries(Body(r[1])) \in Nat
    <3>1. r[1] \in Tasks
      BY DEF Request
    <3> QED
      BY <1>3, <3>1, BatchIsCounted
  <2>3. /\ counters' = [c \in ToSet(Counters) |-> counters'[c]]
        /\ \A c \in ToSet(Counters) : counters'[c] \in Nat
    BY <1>1, <1>3, <2>2, CounterOrder DEF ServerTypes
  <2> QED
    BY <1>2, <1>3, <2>1, <2>3 DEF ServerTypes
<1>7. \A q \in Request : /\ handler'[q].resets = handler[q].resets
                         /\ q # r => handler'[q].state = handler[q].state
                         /\ UnderWay(q)' => UnderWay(q)
  BY <1>1, <1>3, <1>5 DEF ServerTypes, UnderWay
<1>8. FreshRequests'
  <2>1. \A q \in Request : handler[q].state = "none" => handler'[q].state = "none"
    BY <1>5, <1>7
  <2>2. \A t \in Tasks, a \in 0 .. MaxRetries : <<t, a>> \in Request
    BY DEF Request
  <2> QED
    BY <1>2, <1>3, <2>1, <2>2 DEF FreshRequests
<1>9. ResetsAlone'
  <2>1. ~raced => resetting = 0
    BY <1>3, <1>5 DEF ResetsAlone
  <2>2. ~raced => \A i \in 1 .. Len(Counters) : ~(i < resetting)
    BY <2>1, CounterOrder
  <2> QED
    BY <1>2, <1>3, <1>7, <2>1, <2>2 DEF ResetsAlone
<1>10. ASSUME resetting = 0, ~raced PROVE RequestsExact'
  <2>1. handler[r].resets = resets /\ RequestsExact
    BY <1>3, <1>5, <1>10 DEF ResetsAlone, ServerInv, CountersExact
  <2>2. /\ r \in Counted(Seen) /\ r \notin Counted({"failed"})
        /\ r \in Counted({"counting", "stored"}) <=> from = "counting"
    BY <1>1, <2>1 DEF Counted, Since, Seen
  <2>3. ASSUME NEW states \in SUBSET States
        PROVE  Counted(states)' = IF to \in states THEN Counted(states) \cup {r}
                                                   ELSE Counted(states) \ {r}
    BY <1>1, <1>2, <1>3, <2>1, CountedMoves
  <2>4. Counted(Seen)' = Counted(Seen)
    <3>1. to \in Seen /\ Seen \in SUBSET States
      BY DEF Seen, States
    <3>2. Counted(Seen)' = IF to \in Seen THEN Counted(Seen) \cup {r}
                                         ELSE Counted(Seen) \ {r}
      BY <2>3, <3>1
    <3>3. Counted(Seen)' = Counted(Seen) \cup {r}
      BY <3>1, <3>2
    <3> QED
      BY <2>2, <3>3
  <2>5. Counted({"failed"})' = IF to = "failed" THEN Counted({"failed"}) \cup {r}
                                                ELSE Counted({"failed"})
    <3>1. {"failed"} \in SUBSET States
      BY DEF States
    <3>2. Counted({"failed"})' = IF to \in {"failed"} THEN Counted({"failed"}) \cup {r}
                                                     ELSE Counted({"failed"}) \ {r}
      BY <2>3, <3>1
    <3> QED
      BY <2>2, <3>2
  <2>6. Counted({"counting", "stored"})' =
          IF to = "counting" THEN Counted({"counting", "stored"}) \cup {r}
                             ELSE Counted({"counting", "stored"})
    <3>1. {"counting", "stored"} \in SUBSET States
      BY DEF States
    <3>2. Counted({"counting", "stored"})' =
            IF to \in {"counting", "stored"} THEN Counted({"counting", "stored"}) \cup {r}
                                             ELSE Counted({"counting", "stored"}) \ {r}
      BY <2>3, <3>1
    <3>3. CASE to = "stored"
      <4>1. from = "counting"
        BY <1>1, <3>3
      <4> QED
        BY <2>2, <3>2, <3>3, <4>1
    <3>4. CASE to \in {"failed", "dropped"}
      <4>1. from = "latency"
        BY <1>1, <3>4
      <4> QED
        BY <2>2, <3>2, <3>4, <4>1
    <3> QED
      BY <3>2, <3>3, <3>4
  <2>7. Counted({"failed"}) \in SUBSET Request /\ Counted({"counting", "stored"}) \in SUBSET Request
    BY DEF Counted
  <2>8. /\ Cardinality(Counted({"failed"}) \cup {r}) = Cardinality(Counted({"failed"})) + 1
        /\ from # "counting" => Cardinality(Counted({"counting", "stored"}) \cup {r})
                                  = Cardinality(Counted({"counting", "stored"})) + 1
    BY <2>2, <2>7, OneMore
  <2>9. /\ counters'["requests"] = counters["requests"]
        /\ counters'["injected_failures"] = IF to = "failed" THEN counters["injected_failures"] + 1
                                            ELSE counters["injected_failures"]
        /\ counters'["bytes"] = IF to = "counting" THEN counters["bytes"] + 1
                                ELSE counters["bytes"]
    BY <1>1, <1>3, CounterOrder DEF ServerTypes
  <2>10. counters'["requests"] = Cardinality(Counted(Seen)')
    BY <2>1, <2>4, <2>9 DEF RequestsExact, Seen
  <2>11. counters'["injected_failures"] = Cardinality(Counted({"failed"})')
    BY <2>1, <2>5, <2>8, <2>9 DEF RequestsExact
  <2>12. counters'["bytes"] = Cardinality(Counted({"counting", "stored"})')
    BY <1>1, <2>1, <2>6, <2>8, <2>9 DEF RequestsExact
  <2> QED
    BY <2>10, <2>11, <2>12 DEF RequestsExact, Seen
<1>11. ASSUME resetting = 0, ~raced PROVE EntriesExact'
  <2>1. handler[r].resets = resets /\ EntriesExact
    BY <1>3, <1>5, <1>11 DEF ResetsAlone, ServerInv, CountersExact
  <2>2. r \notin Counted({"stored"}) /\ {"stored"} \in SUBSET States
    BY <1>1 DEF Counted, Since, States
  <2>3. Counted({"stored"})' = IF to \in {"stored"} THEN Counted({"stored"}) \cup {r}
                                                   ELSE Counted({"stored"}) \ {r}
    BY <1>1, <1>2, <1>3, <2>1, <2>2, CountedMoves
  <2>4. CASE to = "stored"
    <3>1. Counted({"stored"})' = Counted({"stored"}) \cup {r}
      BY <2>3, <2>4
    <3>2. Cardinality(StoredLines') = Cardinality(StoredLines) + count_entries(Body(r[1]))
      BY <1>2, <1>3, <2>2, <3>1, StoreAddsLines
    <3>3. counters'["entries"] = counters["entries"] + count_entries(Body(r[1]))
      BY <1>1, <1>3, <2>4, CounterOrder DEF ServerTypes
    <3> QED
      BY <2>1, <3>2, <3>3 DEF EntriesExact
  <2>5. CASE to # "stored"
    <3>1. Counted({"stored"})' = Counted({"stored"})
      BY <2>2, <2>3, <2>5
    <3>2. StoredLines' = StoredLines
      BY <1>2, <3>1 DEF StoredLines
    <3>3. counters'["entries"] = counters["entries"]
      BY <1>1, <1>3, <2>5, CounterOrder DEF ServerTypes
    <3> QED
      BY <2>1, <3>2, <3>3 DEF EntriesExact
  <2> QED
    BY <2>4, <2>5
<1>12. CountersExact' /\ BatchesGiven'
  BY <1>2, <1>3, <1>10, <1>11 DEF CountersExact, BatchesGiven
<1> QED
  BY <1>2, <1>4, <1>6, <1>8, <1>9, <1>12 DEF ServerInv

\* A request that arrives is new, and is counted at once.
LEMMA PostKeeps ==
  ASSUME ServerInv, NEW t \in Tasks, Post(t)
  PROVE  ServerInv'
<1> DEFINE r == Current(t)
<1>1. /\ task[t].pc = "ready" /\ task' = [task EXCEPT ![t].pc = "waiting"]
      /\ handler' = [handler EXCEPT ![r] = [state |-> "latency", resets |-> resets]]
      /\ counters' = [counters EXCEPT !["requests"] = @ + 1]
      /\ raced' = (raced \/ resetting # 0)
      /\ UNCHANGED <<retry_after_secs, batch, resetting, resets>>
  BY DEF Post, SetPc
<1>2. ServerTypes /\ ResetsAlone /\ FreshRequests /\ DelayInv
  BY DEF ServerInv
<1>3. /\ task \in [Tasks -> Task] /\ task[t].attempt \in 0 .. MaxRetries
      /\ r \in Request /\ r = <<t, task[t].attempt>>
  BY MockAssumption DEF ServerInv, DelayInv, Task, Request, Current
<1>4. handler[r].state = "none"
  BY <1>1, <1>2, <1>3 DEF FreshRequests
<1> HIDE DEF r
<1>5. DelayInv'
  BY <1>1, <1>2 DEF DelayInv, DelayHasCause, Task
<1>6. \A u \in Tasks : /\ task'[u].attempt = task[u].attempt
                       /\ u # t => task'[u].pc = task[u].pc
                       /\ task'[u].attempt <= MaxRetries
  BY <1>1, <1>3 DEF ServerInv, Task
<1>7. \A q \in Request : q # r => handler'[q] = handler[q]
  BY <1>1, <1>2, <1>3 DEF ServerTypes
<1>8. handler'[r].state = "latency" /\ handler'[r].resets = resets
  BY <1>1, <1>2, <1>3 DEF ServerTypes
<1>9. ServerTypes'
  <2>1. handler' \in [Request -> [state : States, resets : Nat]]
    BY <1>1, <1>2, <1>3 DEF ServerTypes, States
  <2>2. /\ counters' = [c \in ToSet(Counters) |-> counters'[c]]
        /\ counters'["requests"] = counters["requests"] + 1
        /\ counters'["entries"] = counters["entries"]
        /\ counters'["injected_failures"] = counters["injected_failures"]
        /\ counters'["bytes"] = counters["bytes"]
    BY <1>1, <1>2, CounterOrder DEF ServerTypes
  <2>3. \A c \in ToSet(Counters) : counters'[c] \in Nat
    BY <1>2, <2>2, CounterOrder DEF ServerTypes
  <2> QED
    BY <1>1, <1>2, <2>1, <2>2, <2>3 DEF ServerTypes
<1>10. FreshRequests'
  <2> SUFFICES ASSUME NEW u \in Tasks, NEW a \in 0 .. MaxRetries,
                      \/ a > task'[u].attempt
                      \/ a = task'[u].attempt /\ task'[u].pc \in {"ready", "backoff"}
               PROVE  handler'[<<u, a>>].state = "none"
    BY DEF FreshRequests
  <2>1. <<u, a>> \in Request /\ a \in Nat /\ task[u].attempt \in Nat
    BY <1>3, MockAssumption DEF Request, Task
  <2>2. <<u, a>> # r
    <3>1. CASE u = t
      <4>1. task'[u].pc = "waiting"
        BY <1>1, <1>3, <3>1 DEF Task
      <4>2. a > task[t].attempt
        BY <1>6, <3>1, <4>1
      <4> QED
        BY <1>3, <2>1, <3>1, <4>2
    <3>2. CASE u # t
      BY <1>3, <3>2
    <3> QED
      BY <3>1, <3>2
  <2>3. handler[<<u, a>>].state = "none"
    <3>1. CASE u = t
      <4>1. task'[u].pc = "waiting"
        BY <1>1, <1>3, <3>1 DEF Task
      <4> QED
        BY <1>2, <1>6, <3>1, <4>1 DEF FreshRequests
    <3>2. CASE u # t
      BY <1>2, <1>6, <3>2 DEF FreshRequests
    <3> QED
      BY <3>1, <3>2
  <2> QED
    BY <1>7, <2>1, <2>2, <2>3
<1>11. ResetsAlone'
  <2>1. \A q \in Request : handler'[q].resets <= resets
    BY <1>2, <1>7, <1>8 DEF ResetsAlone, ServerTypes
  <2>2. ASSUME ~raced', NEW q \in Request, UnderWay(q)'
        PROVE  resetting = 0 /\ handler'[q].resets = resets
    BY <1>1, <1>2, <1>7, <1>8, <2>2 DEF ResetsAlone, UnderWay
  <2>3. ~raced' => resetting = 0
    BY <1>1
  <2>4. ~raced' => \A i \in 1 .. Len(Counters) : ~(i < resetting)
    BY <2>3, CounterOrder
  <2> QED
    BY <1>1, <2>1, <2>2, <2>4 DEF ResetsAlone
<1>12. ASSUME resetting' = 0, ~raced' PROVE RequestsExact' /\ EntriesExact'
  <2>1. RequestsExact /\ EntriesExact /\ resetting = 0
    BY <1>1, <1>12 DEF ServerInv, CountersExact
  <2>2. Counted(Seen)' = Counted(Seen) \cup {r} /\ r \notin Counted(Seen)
    BY <1>1, <1>3, <1>4, <1>7, <1>8 DEF Counted, Since, Seen
  <2>3. /\ Counted({"failed"})' = Counted({"failed"})
        /\ Counted({"counting", "stored"})' = Counted({"counting", "stored"})
        /\ Counted({"stored"})' = Counted({"stored"})
    BY <1>1, <1>3, <1>4, <1>7, <1>8 DEF Counted, Since
  <2>4. Cardinality(Counted(Seen) \cup {r}) = Cardinality(Counted(Seen)) + 1
    <3>1. Counted(Seen) \in SUBSET Request
      BY DEF Counted
    <3> QED
      BY <1>3, <2>2, <3>1, OneMore
  <2>5. /\ counters'["requests"] = counters["requests"] + 1
        /\ counters'["entries"] = counters["entries"]
        /\ counters'["injected_failures"] = counters["injected_failures"]
        /\ counters'["bytes"] = counters["bytes"]
    BY <1>1, <1>2, CounterOrder DEF ServerTypes
  <2>6. RequestsExact'
    BY <2>1, <2>2, <2>3, <2>4, <2>5 DEF RequestsExact, Seen
  <2>7. StoredLines' = StoredLines
    BY <1>1, <2>3 DEF StoredLines
  <2> QED
    BY <2>1, <2>5, <2>6, <2>7 DEF EntriesExact
<1>13. CountersExact' /\ BatchesGiven'
  BY <1>1, <1>12 DEF CountersExact, BatchesGiven, ServerInv
<1> QED
  BY <1>5, <1>6, <1>9, <1>10, <1>11, <1>13 DEF ServerInv

\* The other steps of a task: it goes on with the same attempt, or with a fresh one.
LEMMA TaskStepKeeps ==
  ASSUME ServerInv, DelayInv', NEW t \in Tasks,
         Delivered(t) \/ Refused(t) \/ TransportFails(t) \/ Woken(t)
  PROVE  ServerInv'
<1>1. /\ task \in [Tasks -> Task] /\ task' \in [Tasks -> Task]
      /\ task[t].attempt \in Nat /\ task[t].attempt <= MaxRetries /\ MaxRetries \in Nat
  BY MockAssumption DEF ServerInv, DelayInv, Task
<1>2. UNCHANGED <<batch, handler, counters, resetting, resets, raced>>
  BY DEF Delivered, Refused, TransportFails, Woken, ServerUnchanged
<1>3. /\ \A u \in Tasks \ {t} : task'[u] = task[u]
      /\ \/ task'[t].attempt = task[t].attempt /\ task'[t].pc = "done"
         \/ /\ task'[t].attempt = task[t].attempt /\ task[t].pc = "backoff"
         \/ /\ task'[t].attempt = task[t].attempt + 1 /\ task[t].attempt < MaxRetries
  <2>1. CASE Delivered(t) \/ Woken(t)
    BY <1>1, <2>1 DEF Delivered, Woken, SetPc, Task
  <2>2. ASSUME NEW asked, Retry(t, asked)
        PROVE  /\ \A u \in Tasks \ {t} : task'[u] = task[u]
               /\ \/ task'[t].attempt = task[t].attempt /\ task'[t].pc = "done"
                  \/ /\ task'[t].attempt = task[t].attempt + 1
                     /\ task[t].attempt < MaxRetries
    BY <1>1, <2>2 DEF Retry, SetPc, Task
  <2> QED
    BY <2>1, <2>2 DEF Refused, TransportFails
<1>4. \A u \in Tasks : task'[u].attempt <= MaxRetries
  BY <1>1, <1>3 DEF ServerInv
<1>5. FreshRequests'
  <2> SUFFICES ASSUME NEW u \in Tasks, NEW a \in 0 .. MaxRetries,
                      \/ a > task'[u].attempt
                      \/ a = task'[u].attempt /\ task'[u].pc \in {"ready", "backoff"}
               PROVE  handler[<<u, a>>].state = "none"
    BY <1>2 DEF FreshRequests
  <2>1. FreshRequests /\ a \in Nat
    BY DEF ServerInv
  <2>2. CASE u # t
    BY <1>3, <2>1, <2>2 DEF FreshRequests
  <2>3. CASE u = t
    BY <1>1, <1>3, <2>1, <2>3 DEF FreshRequests
  <2> QED
    BY <2>2, <2>3
<1>6. ServerTypes' /\ ResetsAlone' /\ CountersExact' /\ BatchesGiven'
  BY <1>2 DEF ServerInv, ServerTypes, ResetsAlone, UnderWay, CountersExact, RequestsExact,
              EntriesExact, StoredLines, Counted, Since, BatchesGiven
<1> QED
  BY <1>4, <1>5, <1>6 DEF ServerInv

\* A reset that starts while nobody is under way has the counters to itself.
LEMMA StartResetKeeps ==
  ASSUME ServerInv, StartReset
  PROVE  ServerInv'
<1>1. /\ resetting = 0 /\ resetting' = 1
      /\ raced' = \E r \in Request : UnderWay(r)
      /\ UNCHANGED <<retry_after_secs, batch, task, handler, counters, resets>>
  BY DEF StartReset
<1>2. DelayInv' /\ FreshRequests' /\ \A t \in Tasks : task'[t].attempt <= MaxRetries
  BY <1>1 DEF ServerInv, DelayInv, DelayHasCause, FreshRequests
<1>3. ServerTypes'
  BY <1>1, CounterOrder DEF ServerInv, ServerTypes
<1>4. ResetsAlone'
  <2>1. \A i \in 1 .. Len(Counters) : ~(i < resetting')
    BY <1>1, CounterOrder
  <2> QED
    BY <1>1, <2>1 DEF ServerInv, ResetsAlone, UnderWay
<1> QED
  BY <1>1, <1>2, <1>3, <1>4 DEF ServerInv, CountersExact, BatchesGiven

\* The last store of a reset leaves every counter 0, and no handler of this reset.
LEMMA ResetNextKeeps ==
  ASSUME ServerInv, ResetNext
  PROVE  ServerInv'
<1>1. /\ resetting # 0
      /\ counters' = [counters EXCEPT ![Counters[resetting]] = 0]
      /\ UNCHANGED <<retry_after_secs, batch, task, handler, raced>>
      /\ \/ resetting < 4 /\ resetting' = resetting + 1 /\ resets' = resets
         \/ resetting = 4 /\ resetting' = 0 /\ resets' = resets + 1
  BY CounterOrder DEF ResetNext, ServerInv, ServerTypes
<1>2. DelayInv' /\ FreshRequests' /\ \A t \in Tasks : task'[t].attempt <= MaxRetries
  BY <1>1 DEF ServerInv, DelayInv, DelayHasCause, FreshRequests
<1>3. ServerTypes /\ ResetsAlone /\ resetting \in 1 .. 4 /\ resets \in Nat
  BY <1>1, CounterOrder DEF ServerInv, ServerTypes
<1>4. \A c \in ToSet(Counters) :
        counters'[c] = IF c = Counters[resetting] THEN 0 ELSE counters[c]
  BY <1>1, <1>3 DEF ServerTypes
<1>5. ServerTypes'
  <2>1. counters' = [c \in ToSet(Counters) |-> counters'[c]]
    BY <1>1, <1>3 DEF ServerTypes
  <2>2. \A c \in ToSet(Counters) : counters'[c] \in Nat
    BY <1>3, <1>4, CounterOrder DEF ServerTypes
  <2>3. resetting' \in 0 .. 4 /\ resets' \in Nat
    BY <1>1, <1>3
  <2> QED
    BY <1>1, <1>3, <2>1, <2>2, <2>3, CounterOrder DEF ServerTypes
<1>6. ~raced => \A i \in 1 .. 4 : i <= resetting => counters'[Counters[i]] = 0
  <2> SUFFICES ASSUME ~raced, NEW i \in 1 .. 4, i <= resetting
               PROVE  counters'[Counters[i]] = 0
    OBVIOUS
  <2>1. Counters[i] \in ToSet(Counters)
    BY CounterOrder
  <2>2. CASE i = resetting
    BY <1>4, <2>1, <2>2
  <2>3. CASE i < resetting
    BY <1>3, <1>4, <2>1, <2>3, CounterOrder DEF ResetsAlone
  <2> QED
    BY <1>3, <2>2, <2>3
<1>7. ~raced => \A r \in Request : ~UnderWay(r)
  BY <1>1, <1>3 DEF ResetsAlone
<1>8. ResetsAlone'
  <2>1. \A r \in Request : handler'[r].resets <= resets'
    BY <1>1, <1>3 DEF ResetsAlone, ServerTypes
  <2>2. ~raced' => \A r \in Request : ~UnderWay(r)'
    BY <1>1, <1>7 DEF UnderWay
  <2>3. ~raced' => \A i \in 1 .. 4 : i < resetting' => counters'[Counters[i]] = 0
    BY <1>1, <1>3, <1>6
  <2> QED
    BY <2>1, <2>2, <2>3, CounterOrder DEF ResetsAlone
<1>9. ASSUME resetting' = 0, ~raced' PROVE RequestsExact' /\ EntriesExact'
  <2>1. ~raced /\ resetting = 4 /\ resets' = resets + 1
    BY <1>1, <1>3, <1>9
  <2>2. \A states : Counted(states)' = {}
    <3>1. \A r \in Request : handler'[r].resets # resets'
      BY <1>1, <1>3, <2>1 DEF ResetsAlone, ServerTypes
    <3> QED
      BY <3>1 DEF Counted, Since
  <2>3. /\ counters'["requests"] = 0 /\ counters'["injected_failures"] = 0
        /\ counters'["bytes"] = 0 /\ counters'["entries"] = 0
    BY <1>6, <2>1, CounterOrder
  <2>4. StoredLines' = {}
    BY <2>2 DEF StoredLines
  <2> QED
    BY <2>2, <2>3, <2>4, FS_EmptySet DEF RequestsExact, EntriesExact
<1>10. CountersExact' /\ BatchesGiven'
  BY <1>1, <1>9 DEF CountersExact, BatchesGiven, ServerInv
<1> QED
  BY <1>2, <1>5, <1>8, <1>10 DEF ServerInv

LEMMA InitServerInv == Init => ServerInv
<1> SUFFICES ASSUME Init PROVE ServerInv
  OBVIOUS
<1>1. /\ task = [t \in Tasks |-> [pc |-> "ready", attempt |-> 0, delay |-> 0, asked |-> {}]]
      /\ handler = [r \in Request |-> [state |-> "none", resets |-> 0]]
      /\ counters = [c \in ToSet(Counters) |-> 0]
      /\ resetting = 0 /\ resets = 0 /\ raced = FALSE
  BY DEF Init
<1>2. DelayInv /\ \A t \in Tasks : task[t].attempt <= MaxRetries
  BY <1>1, DelayInvInit, MockAssumption
<1>3. ServerTypes
  <2>1. handler \in [Request -> [state : States, resets : Nat]]
    BY <1>1 DEF States
  <2>2. /\ counters = [c \in ToSet(Counters) |-> counters[c]]
        /\ \A c \in ToSet(Counters) : counters[c] = 0
    BY <1>1
  <2>3. \A c \in ToSet(Counters) : counters[c] \in Nat
    BY <2>2
  <2>4. resetting \in 0 .. Len(Counters) /\ resets \in Nat
    BY <1>1, CounterOrder
  <2>5. raced \in BOOLEAN
    BY <1>1
  <2> QED
    BY <2>1, <2>2, <2>3, <2>4, <2>5 DEF ServerTypes
<1>4. FreshRequests
  <2>1. \A t \in Tasks, a \in 0 .. MaxRetries : <<t, a>> \in Request
    BY DEF Request
  <2> QED
    BY <1>1, <2>1 DEF FreshRequests
<1>5. ResetsAlone
  <2>1. \A i \in 1 .. Len(Counters) : ~(i < resetting)
    BY <1>1, CounterOrder
  <2> QED
    BY <1>1, <2>1 DEF ResetsAlone, UnderWay
<1>6. RequestsExact
  <2>1. /\ Counted(Seen) = {} /\ Counted({"failed"}) = {}
        /\ Counted({"counting", "stored"}) = {}
    BY <1>1 DEF Counted, Since, Seen
  <2> QED
    BY <1>1, <2>1, CounterOrder, FS_EmptySet DEF RequestsExact, Seen
<1>7. EntriesExact
  <2>1. Counted({"stored"}) = {}
    BY <1>1 DEF Counted, Since
  <2>2. StoredLines = {}
    BY <2>1 DEF StoredLines
  <2> QED
    BY <1>1, <2>2, CounterOrder, FS_EmptySet DEF EntriesExact
<1>8. BatchesGiven
  BY DEF Init, BatchesGiven
<1> QED
  BY <1>2, <1>3, <1>4, <1>5, <1>6, <1>7, <1>8 DEF ServerInv, CountersExact

LEMMA ServerInvKept == ServerInv /\ [Next]_vars => ServerInv'
<1> SUFFICES ASSUME ServerInv, [Next]_vars PROVE ServerInv'
  OBVIOUS
<1>1. DelayInv'
  BY DelayInvKept DEF ServerInv
<1>2. CASE \E r \in Request :
             InjectFailure(r) \/ ReadBody(r) \/ CountEntries(r) \/ Disconnected(r)
  BY <1>2, HandlerStepKeeps
<1>3. CASE \E t \in Tasks : Post(t)
  BY <1>3, PostKeeps
<1>4. CASE \E t \in Tasks : Delivered(t) \/ Refused(t) \/ TransportFails(t) \/ Woken(t)
  BY <1>1, <1>4, TaskStepKeeps
<1>5. CASE StartReset \/ ResetNext
  BY <1>5, StartResetKeeps, ResetNextKeeps
<1>6. CASE UNCHANGED vars
  BY <1>1, <1>6 DEF vars, ServerInv, ServerTypes, FreshRequests, ResetsAlone, UnderWay,
                    CountersExact, RequestsExact, EntriesExact, StoredLines, Counted,
                    Since, BatchesGiven
<1> QED
  BY <1>2, <1>3, <1>4, <1>5, <1>6 DEF Next, Quiet

\* After a reset during which no push was under way, the counters say exactly what
\* became of the requests that came after it, and `entries` is the number of log lines
\* in the batches that were stored, whatever batches, handlers, tasks and resets there
\* are.
THEOREM CountersAreExact == Spec => []CountersExact
<1>1. ServerInv => CountersExact
  BY DEF ServerInv
<1> QED
  BY <1>1, InitServerInv, ServerInvKept, PTL DEF Spec

-----------------------------------------------------------------------------
(* What a request holds.                                                   *)

\* A push task sends every attempt with the batch it was given.
LEMMA BatchesStay == Spec => []BatchesGiven
<1>1. Init => BatchesGiven
  BY DEF Init, BatchesGiven
<1>2. BatchesGiven /\ [Next]_vars => BatchesGiven'
  <2> SUFFICES ASSUME BatchesGiven, [Next]_vars PROVE batch' = batch
    BY DEF BatchesGiven
  <2>1. \A r \in Request :
          InjectFailure(r) \/ ReadBody(r) \/ CountEntries(r) \/ Disconnected(r)
            => batch' = batch
    BY DEF InjectFailure, ReadBody, CountEntries, Disconnected, Step
  <2>2. \A t \in Tasks :
          Post(t) \/ Delivered(t) \/ Refused(t) \/ TransportFails(t) \/ Woken(t)
            => batch' = batch
    BY DEF Post, Delivered, Refused, TransportFails, Woken, ServerUnchanged
  <2>3. StartReset \/ ResetNext => batch' = batch
    BY DEF StartReset, ResetNext
  <2>4. UNCHANGED vars => batch' = batch
    BY DEF vars
  <2> QED
    BY <2>1, <2>2, <2>3, <2>4 DEF Next, Quiet
<1> QED
  BY <1>1, <1>2, PTL DEF Spec

\* In every push request no two streams have the same labels, and each stream holds
\* exactly the logs of the batch with its labels, in the order of the batch, for batches
\* of any length and any labels.
THEOREM StreamsAreTheBatch == Spec => []StreamsKeepBatch
<1>1. BatchesGiven => StreamsKeepBatch
  <2> SUFFICES ASSUME BatchesGiven, NEW t \in Tasks
               PROVE  LET built == Built(t)
                          body  == Body(t)
                          Same(labels, n) == {i \in 1 .. n : built[i].labels = labels}
                      IN /\ \A k, m \in DOMAIN body :
                              k # m => body[k].stream # body[m].stream
                         /\ \A k \in DOMAIN body :
                              /\ Len(body[k].values)
                                   = Cardinality(Same(body[k].stream, Len(built)))
                              /\ body[k].values # <<>>
                         /\ \A i \in DOMAIN built : \E k \in DOMAIN body :
                              /\ body[k].stream = built[i].labels
                              /\ body[k].values[Cardinality(Same(built[i].labels, i))]
                                   = Entry(built[i])
    BY DEF StreamsKeepBatch
  <2> DEFINE built == Built(t)
             body  == Body(t)
             N     == Len(batch[t])
  <2>1. N \in Nat /\ DOMAIN built = 1 .. N
    BY BatchIsCounted DEF Built
  <2>2. Len(built) = N
    BY <2>1 DEF Built
  <2>3. PICK acc : /\ Grouped(built, N, acc)
                   /\ payload(built) = [k \in DOMAIN acc.order |->
                                          [stream |-> acc.order[k],
                                           values |-> acc.groups[acc.order[k]]]]
    <3> HIDE DEF built
    <3> QED
      BY <2>1, PayloadIsGrouped
  <2>4. /\ DOMAIN body = DOMAIN acc.order
        /\ \A k \in DOMAIN acc.order : /\ body[k].stream = acc.order[k]
                                       /\ body[k].values = acc.groups[acc.order[k]]
    BY <2>3 DEF Body
  <2>5. DOMAIN acc.groups = {acc.order[m] : m \in DOMAIN acc.order}
    BY <2>3 DEF Grouped
  <2> HIDE DEF built, body, N
  <2>6. \A k, m \in DOMAIN body : k # m => body[k].stream # body[m].stream
    BY <2>3, <2>4 DEF Grouped
  <2>7. ASSUME NEW k \in DOMAIN body
        PROVE  /\ Len(body[k].values) = Cardinality(With(built, body[k].stream, N))
               /\ body[k].values # <<>>
    <3>1. body[k].stream \in DOMAIN acc.groups
      BY <2>4, <2>5
    <3>2. body[k].values = acc.groups[body[k].stream]
      BY <2>4
    <3>3. Len(<<>>) = 0
      OBVIOUS
    <3> QED
      BY <2>3, <3>1, <3>2, <3>3 DEF Grouped
  <2>8. ASSUME NEW i \in DOMAIN built
        PROVE  \E k \in DOMAIN body :
                 /\ body[k].stream = built[i].labels
                 /\ body[k].values[Cardinality(With(built, built[i].labels, i))]
                      = Entry(built[i])
    <3>1. /\ built[i].labels \in DOMAIN acc.groups
          /\ acc.groups[built[i].labels][Cardinality(With(built, built[i].labels, i))]
               = Entry(built[i])
      BY <2>1, <2>3 DEF Grouped
    <3>2. PICK k \in DOMAIN acc.order : acc.order[k] = built[i].labels
      BY <2>5, <3>1
    <3> QED
      BY <2>4, <3>1, <3>2
  <2> QED
    BY <2>2, <2>6, <2>7, <2>8 DEF With, built, body
<1> QED
  BY <1>1, BatchesStay, PTL

\* Whatever the times of the logs, a time and the same time in a finer unit give one
\* timestamp, of any number of digits up to those of a u128.
THEOREM OneInstantOneTimestamp == Spec => []SameInstantSameTimestamp
<1>1. BatchesGiven => SameInstantSameTimestamp
  <2> SUFFICES ASSUME BatchesGiven, ~ReplaceTimestamp,
                      NEW t \in Tasks, NEW u \in Tasks,
                      NEW i \in DOMAIN batch[t], NEW j \in DOMAIN batch[u],
                      NEW k \in 0 .. TsDigits,
                      batch[u][j].time > 0,
                      batch[t][i].time = batch[u][j].time * Pow10[k],
                      Digits(batch[t][i].time) <= TsDigits
               PROVE  timestamp_ns(batch[t][i].time) = timestamp_ns(batch[u][j].time)
    BY DEF SameInstantSameTimestamp
  <2> DEFINE fine   == batch[t][i].time
             coarse == batch[u][j].time
  <2>1. /\ fine = NoTime \/ IsTime(fine)
        /\ coarse = NoTime \/ IsTime(coarse)
    BY BatchAssumption DEF BatchesGiven
  <2> HIDE DEF fine, coarse
  <2>2. coarse > 0 /\ fine = coarse * Pow10[k] /\ Digits(fine) <= TsDigits
    BY DEF fine, coarse
  <2>3. IsTime(coarse) /\ coarse \in Nat
    BY <2>1, <2>2 DEF NoTime, IsTime
  <2>4. Pow10[k] \in Nat
    BY BuilderAssumption, Powers
  <2>5. IsTime(fine)
    <3>1. coarse * Pow10[k] \in Nat
      BY <2>3, <2>4
    <3>2. fine # NoTime
      BY <2>2, <3>1 DEF NoTime
    <3> QED
      BY <2>1, <3>2
  <2>6. timestamp_ns(fine) = timestamp_ns(coarse)
    BY <2>2, <2>3, <2>5, SameTimestamp
  <2> QED
    BY <2>6 DEF fine, coarse
<1> QED
  BY <1>1, BatchesStay, PTL

=============================================================================
