---------------------------- MODULE LogPipeProofs ----------------------------
(***************************************************************************)
(* What follows from the abstract specification for every value of its     *)
(* constants: the pipe is first-in first-out, carries no line twice, and   *)
(* loses none without counting it.                                         *)
(***************************************************************************)
EXTENDS LogPipe, FiniteSetTheorems, TLAPS

\* Lines are positions on stdin that the pipe has seen; no two deliveries share one,
\* and whatever has left the queue is older than all that waits.
FirstInFirstOut ==
  /\ queue \subseteq 1 .. seen
  /\ \A p \in Permits : batch[p] \subseteq 1 .. seen
  /\ \A p \in Permits : \A l \in batch[p], k \in queue : l < k
  /\ \A p, q \in Permits : p # q => batch[p] \cap batch[q] = {}

PipeInv ==
  /\ seen \in Nat
  /\ batch = [p \in Permits |-> batch[p]]
  /\ FirstInFirstOut

\* Taking the front of the queue leaves younger lines behind.
LEMMA FrontLeaves ==
  ASSUME PipeInv, NEW S \in SUBSET queue, Oldest(S)
  PROVE  /\ queue \ S \subseteq 1 .. seen
         /\ \A a \in S, b \in queue \ S : a < b
BY DEF PipeInv, FirstInFirstOut, Oldest

LEMMA PipeInvKept == PipeInv /\ [Next]_pipeVars => PipeInv'
<1> SUFFICES ASSUME PipeInv, [Next]_pipeVars PROVE PipeInv'
  OBVIOUS
<1> USE DEF PipeInv, FirstInFirstOut, outcomes, intake
<1>1. CASE Skip \/ Refuse
  <2>1. seen' = seen + 1 /\ seen' \in Nat /\ 1 .. seen \subseteq 1 .. seen'
        /\ UNCHANGED <<queue, batch>>
    BY <1>1 DEF Skip, Refuse
  <2> QED
    BY <2>1
<1>2. CASE Accept
  <2>1. seen' = seen + 1 /\ seen' \in Nat /\ 1 .. seen \subseteq 1 .. seen'
        /\ queue' = queue \cup {seen'} /\ batch' = batch
    BY <1>2 DEF Accept
  <2>2. \A p \in Permits : \A l \in batch[p] : l < seen'
    BY <2>1
  <2> QED
    BY <2>1, <2>2
<1>3. CASE Evict
  <2>1. PICK S \in SUBSET queue : queue' = queue \ S
    BY <1>3 DEF Evict
  <2> QED
    BY <1>3, <2>1 DEF Evict
<1>4. ASSUME NEW p \in Permits, Dispatch(p) PROVE PipeInv'
  <2>1. PICK S \in SUBSET queue : /\ Oldest(S) /\ queue' = queue \ S
                                  /\ batch' = [batch EXCEPT ![p] = S]
    BY <1>4 DEF Dispatch
  <2>2. seen' = seen
    BY <1>4 DEF Dispatch
  <2>3. \A q \in Permits : batch'[q] = IF q = p THEN S ELSE batch[q]
    BY <2>1
  <2>4. \A q \in Permits \ {p} : batch[q] \cap S = {}
    <3>1. \A q \in Permits : \A l \in batch[q] : l \in Nat
      OBVIOUS
    <3> QED
      BY <3>1
  <2>5. \A q, r \in Permits : q # r => batch'[q] \cap batch'[r] = {}
    BY <2>3, <2>4
  <2>6. \A q \in Permits : \A l \in batch'[q], k \in queue' : l < k
    BY <2>1, <2>3, FrontLeaves
  <2> QED
    BY <2>1, <2>2, <2>3, <2>5, <2>6
<1>5. CASE \E p \in Permits : Deliver(p) \/ Lose(p)
  BY <1>5 DEF Deliver, Lose
<1>6. CASE ForceDrain \/ Close \/ UNCHANGED pipeVars
  BY <1>6 DEF ForceDrain, Close, pipeVars
<1> QED
  BY <1>1, <1>2, <1>3, <1>4, <1>5, <1>6 DEF Next

\* Lines leave in the order they came, and none is in two deliveries, or in one and
\* still in the queue.
THEOREM PipeIsFirstInFirstOut == Spec => []FirstInFirstOut
<1>1. Init => PipeInv
  BY DEF Init, PipeInv, FirstInFirstOut
<1>2. PipeInv => FirstInFirstOut
  BY DEF PipeInv
<1> QED
  BY <1>1, <1>2, PipeInvKept, PTL DEF Spec

\* The pipe closes with an empty queue and takes nothing afterwards.
ClosedIsEmpty == closed => queue = {}

THEOREM ClosedPipeIsEmpty == Spec => []ClosedIsEmpty
<1>1. Init => ClosedIsEmpty
  BY DEF Init, ClosedIsEmpty
<1>2. ClosedIsEmpty /\ [Next]_pipeVars => ClosedIsEmpty'
  BY DEF ClosedIsEmpty, Next, Skip, Accept, Refuse, Evict, ForceDrain, Close, Dispatch, Deliver,
         Lose, pipeVars, outcomes, intake
<1> QED
  BY <1>1, <1>2, PTL DEF Spec

-----------------------------------------------------------------------------
(* Conservation: what went in is counted out, waits or is under way.       *)

InFlight == UNION {batch[p] : p \in Permits}

Conserved ==
  read = bad + dropped + delivered + lost + Cardinality(queue) + Cardinality(InFlight)

PipeCounters ==
  /\ read \in Nat /\ bad \in Nat /\ dropped \in Nat
  /\ delivered \in Nat /\ lost \in Nat

\* Cutting the lines S out of the lines T.
LEMMA CutCardinality ==
  ASSUME seen \in Nat, NEW T \in SUBSET (1 .. seen), NEW S \in SUBSET T
  PROVE  /\ Cardinality(T) \in Nat /\ Cardinality(S) \in Nat /\ Cardinality(T \ S) \in Nat
         /\ Cardinality(T) = Cardinality(S) + Cardinality(T \ S)
<1>1. IsFiniteSet(1 .. seen)
  BY FS_Interval
<1>2. IsFiniteSet(T) /\ IsFiniteSet(S) /\ IsFiniteSet(T \ S)
  BY <1>1, FS_Subset
<1>3. S \cup (T \ S) = T /\ S \cap (T \ S) = {}
  OBVIOUS
<1>4. Cardinality(S \cup (T \ S))
        = Cardinality(S) + Cardinality(T \ S) - Cardinality(S \cap (T \ S))
  BY <1>2, FS_Union
<1>5. /\ Cardinality(S) \in Nat /\ Cardinality(T \ S) \in Nat /\ Cardinality(T) \in Nat
      /\ Cardinality({}) = 0
  BY <1>2, FS_CardinalityType, FS_EmptySet
<1>6. Cardinality(T) = Cardinality(S) + Cardinality(T \ S) - 0
  BY <1>3, <1>4, <1>5
<1> QED
  BY <1>5, <1>6

LEMMA InFlightLemma ==
  ASSUME PipeInv
  PROVE  InFlight \subseteq 1 .. seen /\ queue \cap InFlight = {}
<1>1. InFlight \subseteq 1 .. seen
  BY DEF PipeInv, FirstInFirstOut, InFlight
<1>2. ASSUME NEW l \in queue, l \in InFlight PROVE FALSE
  <2>1. PICK p \in Permits : l \in batch[p]
    BY <1>2 DEF InFlight
  <2>2. l < l /\ l \in Nat
    BY <2>1 DEF PipeInv, FirstInFirstOut
  <2> QED
    BY <2>2
<1> QED
  BY <1>1, <1>2

\* The end of a delivery takes its lines, and no others, out of flight.
LEMMA EndOfDelivery ==
  ASSUME PipeInv, NEW p \in Permits, batch' = [batch EXCEPT ![p] = {}]
  PROVE  /\ Cardinality(InFlight) = Cardinality(batch[p]) + Cardinality(InFlight')
         /\ Cardinality(batch[p]) \in Nat /\ Cardinality(InFlight') \in Nat
<1>1. batch[p] \subseteq InFlight
  BY DEF InFlight
<1>2. InFlight' = InFlight \ batch[p]
  <2>1. \A q \in Permits : batch'[q] = IF q = p THEN {} ELSE batch[q]
    BY DEF PipeInv
  <2>2. \A q \in Permits : q # p => batch[q] \cap batch[p] = {}
    BY DEF PipeInv, FirstInFirstOut
  <2> QED
    BY <2>1, <2>2 DEF InFlight
<1> QED
  BY <1>1, <1>2, InFlightLemma, CutCardinality DEF PipeInv

LEMMA ConservedKept ==
  PipeInv /\ PipeCounters /\ Conserved /\ [Next]_pipeVars => (PipeCounters /\ Conserved)'
<1> SUFFICES ASSUME PipeInv, PipeCounters, Conserved, [Next]_pipeVars
             PROVE  (PipeCounters /\ Conserved)'
  OBVIOUS
<1> USE DEF PipeCounters, Conserved, outcomes, intake
<1>0. /\ seen \in Nat /\ queue \subseteq 1 .. seen
      /\ Cardinality(queue) \in Nat /\ Cardinality(InFlight) \in Nat
  <2>1. seen \in Nat /\ queue \subseteq 1 .. seen
    BY DEF PipeInv, FirstInFirstOut
  <2> QED
    BY <2>1, InFlightLemma, CutCardinality
<1>1. CASE Skip
  BY <1>0, <1>1 DEF Skip, InFlight
<1>2. CASE Refuse
  BY <1>0, <1>2 DEF Refuse, InFlight
<1>3. CASE Accept
  <2>1. /\ queue' = queue \cup {seen + 1} /\ read' = read + 1
        /\ UNCHANGED <<bad, dropped, delivered, lost, batch>>
    BY <1>3 DEF Accept
  <2>2. seen + 1 \notin queue /\ IsFiniteSet(queue)
    <3>1. IsFiniteSet(1 .. seen)
      BY <1>0, FS_Interval
    <3>2. seen + 1 \notin 1 .. seen
      BY <1>0
    <3> QED
      BY <1>0, <3>1, <3>2, FS_Subset
  <2>3. Cardinality(queue') = Cardinality(queue) + 1
    BY <2>1, <2>2, FS_AddElement
  <2>4. InFlight' = InFlight
    BY <2>1 DEF InFlight
  <2> QED
    BY <1>0, <2>1, <2>3, <2>4
<1>4. CASE Evict
  <2>1. PICK S \in SUBSET queue : queue' = queue \ S /\ dropped' = dropped + Cardinality(S)
    BY <1>4 DEF Evict
  <2>2. UNCHANGED <<read, bad, delivered, lost, InFlight>>
    BY <1>4 DEF Evict, InFlight
  <2>3. /\ Cardinality(queue) = Cardinality(S) + Cardinality(queue')
        /\ Cardinality(S) \in Nat /\ Cardinality(queue') \in Nat
    BY <1>0, <2>1, CutCardinality
  <2> QED
    BY <1>0, <2>1, <2>2, <2>3
<1>5. ASSUME NEW p \in Permits, Dispatch(p) PROVE (PipeCounters /\ Conserved)'
  <2>1. PICK S \in SUBSET queue : queue' = queue \ S /\ batch' = [batch EXCEPT ![p] = S]
    BY <1>5 DEF Dispatch
  <2>2. UNCHANGED <<read, bad, dropped, delivered, lost>> /\ batch[p] = {}
    BY <1>5 DEF Dispatch
  <2>3. /\ Cardinality(queue) = Cardinality(S) + Cardinality(queue')
        /\ Cardinality(S) \in Nat /\ Cardinality(queue') \in Nat
    BY <1>0, <2>1, CutCardinality
  <2>4. InFlight' = InFlight \cup S
    <3>1. \A q \in Permits : batch'[q] = IF q = p THEN S ELSE batch[q]
      BY <2>1 DEF PipeInv
    <3> QED
      BY <2>2, <3>1 DEF InFlight
  <2>5. Cardinality(InFlight') = Cardinality(S) + Cardinality(InFlight)
    <3>1. InFlight' \in SUBSET (1 .. seen) /\ S \in SUBSET InFlight' /\ InFlight' \ S = InFlight
      BY <1>0, <2>1, <2>4, InFlightLemma
    <3> QED
      BY <1>0, <3>1, CutCardinality
  <2> QED
    BY <1>0, <2>2, <2>3, <2>5
<1>6. ASSUME NEW p \in Permits, Deliver(p) PROVE (PipeCounters /\ Conserved)'
  <2>1. /\ batch' = [batch EXCEPT ![p] = {}]
        /\ delivered' = delivered + Cardinality(batch[p])
        /\ UNCHANGED <<read, bad, dropped, lost, queue>>
    BY <1>6 DEF Deliver
  <2>2. /\ Cardinality(InFlight) = Cardinality(batch[p]) + Cardinality(InFlight')
        /\ Cardinality(batch[p]) \in Nat /\ Cardinality(InFlight') \in Nat
    BY <2>1, EndOfDelivery
  <2> QED
    BY <1>0, <2>1, <2>2
<1>7. ASSUME NEW p \in Permits, Lose(p) PROVE (PipeCounters /\ Conserved)'
  <2>1. /\ batch' = [batch EXCEPT ![p] = {}]
        /\ lost' = lost + Cardinality(batch[p])
        /\ UNCHANGED <<read, bad, dropped, delivered, queue>>
    BY <1>7 DEF Lose
  <2>2. /\ Cardinality(InFlight) = Cardinality(batch[p]) + Cardinality(InFlight')
        /\ Cardinality(batch[p]) \in Nat /\ Cardinality(InFlight') \in Nat
    BY <2>1, EndOfDelivery
  <2> QED
    BY <1>0, <2>1, <2>2
<1>8. CASE ForceDrain \/ Close \/ UNCHANGED pipeVars
  BY <1>8 DEF ForceDrain, Close, pipeVars, InFlight
<1> QED
  BY <1>1, <1>2, <1>3, <1>4, <1>5, <1>6, <1>7, <1>8 DEF Next

\* Every line that went in is in one counter, in the queue or in one delivery.
THEOREM PipeConserves == Spec => []Conserved
<1>1. Init => PipeInv /\ PipeCounters /\ Conserved
  <2> SUFFICES ASSUME Init PROVE PipeInv /\ PipeCounters /\ Conserved
    OBVIOUS
  <2>1. InFlight = {} /\ Cardinality({}) = 0
    BY FS_EmptySet DEF Init, InFlight
  <2> QED
    BY <2>1 DEF Init, PipeInv, FirstInFirstOut, PipeCounters, Conserved
<1> QED
  BY <1>1, PipeInvKept, ConservedKept, PTL DEF Spec

=============================================================================
