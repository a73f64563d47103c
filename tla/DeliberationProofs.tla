-------------------------- MODULE DeliberationProofs --------------------------
(***************************************************************************)
(* Theorems about the deliberation scheduler, for every team, budget and   *)
(* wave cap.                                                               *)
(***************************************************************************)
EXTENDS Deliberation, SequenceTheorems, FiniteSetTheorems, TLAPS

\* An ordered set over S is a sequence over S without repetition.
LEMMA OrderedIsSeq ==
    ASSUME NEW S, IsFiniteSet(S), NEW s \in Ordered(S)
    PROVE  s \in Seq(S) /\ IsInjective(s)
<1>1. Cardinality(S) \in Nat
  BY FS_CardinalityType
<1>2. PICK n \in 0..Cardinality(S) : s \in {t \in [1..n -> S] : IsInjective(t)}
  BY DEF Ordered
<1>3. n \in Nat
  BY <1>1
<1>4. s \in Seq(S)
  BY <1>2, <1>3, SeqDef
<1> QED
  BY <1>2, <1>4

\* dict.pop of a present key closes the gap it leaves.
LEMMA WithoutPresent ==
    ASSUME NEW S, NEW s \in Seq(S), NEW p \in Range(s)
    PROVE  \E i \in 1..Len(s) :
              /\ s[i] = p
              /\ Without(s, p) \in Seq(S)
              /\ Len(Without(s, p)) = Len(s) - 1
              /\ \A k \in 1..(i - 1) : Without(s, p)[k] = s[k]
              /\ \A k \in i..(Len(s) - 1) : Without(s, p)[k] = s[k + 1]
<1> DEFINE i == CHOOSE k \in DOMAIN s : s[k] = p
           front == SubSeq(s, 1, i - 1)
           back == SubSeq(s, i + 1, Len(s))
           whole == front \o back
<1>1. i \in 1..Len(s) /\ s[i] = p
  BY DEF Range
<1>2. Without(s, p) = whole
  BY DEF Without
<1> HIDE DEF i
<1>3. /\ front \in Seq(S) /\ Len(front) = i - 1
      /\ \A k \in 1..(i - 1) : front[k] = s[k]
  BY <1>1, SubSeqProperties
<1>4. /\ back \in Seq(S) /\ Len(back) = Len(s) - i
      /\ \A k \in 1..(Len(s) - i) : back[k] = s[i + k]
  BY <1>1, SubSeqProperties
<1> HIDE DEF front, back
<1>5. /\ whole \in Seq(S)
      /\ Len(whole) = Len(front) + Len(back)
      /\ \A k \in 1..(Len(front) + Len(back)) :
            whole[k] = IF k <= Len(front) THEN front[k] ELSE back[k - Len(front)]
  BY <1>3, <1>4, ConcatProperties
<1> HIDE DEF whole
<1>6. ASSUME NEW k \in 1..(i - 1) PROVE whole[k] = s[k]
  <2>1. k \in 1..(Len(front) + Len(back)) /\ k <= Len(front)
    BY <1>1, <1>3, <1>4
  <2> QED
    BY <1>3, <1>5, <2>1
<1>7. ASSUME NEW k \in i..(Len(s) - 1) PROVE whole[k] = s[k + 1]
  <2>1. /\ k \in 1..(Len(front) + Len(back)) /\ ~(k <= Len(front))
        /\ k - Len(front) \in 1..(Len(s) - i)
        /\ i + (k - Len(front)) = k + 1
    BY <1>1, <1>3, <1>4
  <2>2. whole[k] = back[k - Len(front)]
    BY <1>5, <2>1
  <2> QED
    BY <1>4, <2>1, <2>2
<1>8. Len(whole) = Len(s) - 1
  BY <1>1, <1>3, <1>4, <1>5
<1> QED
  BY <1>1, <1>2, <1>5, <1>6, <1>7, <1>8

\* dict.pop leaves a sequence over the same set, holding nothing new, nothing
\* twice, and everything but the popped key.
LEMMA WithoutProperties ==
    ASSUME NEW S, NEW s \in Seq(S), NEW p
    PROVE  /\ Without(s, p) \in Seq(S)
           /\ Range(Without(s, p)) \subseteq Range(s)
           /\ Range(s) \ {p} \subseteq Range(Without(s, p))
           /\ IsInjective(s) => IsInjective(Without(s, p))
<1>1. CASE p \notin Range(s)
  BY <1>1 DEF Without
<1>2. CASE p \in Range(s)
  <2> DEFINE w == Without(s, p)
  <2>1. PICK i \in 1..Len(s) :
           /\ s[i] = p
           /\ w \in Seq(S) /\ Len(w) = Len(s) - 1
           /\ \A k \in 1..(i - 1) : w[k] = s[k]
           /\ \A k \in i..(Len(s) - 1) : w[k] = s[k + 1]
    BY <1>2, WithoutPresent
  <2> HIDE DEF w
  <2>2. DOMAIN w = 1..(Len(s) - 1) /\ DOMAIN s = 1..Len(s) /\ Len(s) \in Nat
    BY <2>1
  <2> DEFINE old(k) == IF k < i THEN k ELSE k + 1
  <2>3. \A k \in DOMAIN w : old(k) \in DOMAIN s /\ w[k] = s[old(k)]
    <3> SUFFICES ASSUME NEW k \in 1..(Len(s) - 1)
                 PROVE  old(k) \in 1..Len(s) /\ w[k] = s[old(k)]
      BY <2>2
    <3> QED
      BY <2>1, <2>2
  <2>4. \A j, k \in DOMAIN w : old(j) = old(k) => j = k
    BY <2>1, <2>2
  <2>5. \A m \in DOMAIN s : m # i => \E k \in DOMAIN w : old(k) = m
    <3> SUFFICES ASSUME NEW m \in 1..Len(s), m # i
                 PROVE  \E k \in 1..(Len(s) - 1) : old(k) = m
      BY <2>2
    <3>1. CASE m < i
      BY <2>1, <2>2, <3>1
    <3>2. CASE m > i
      <4>1. m - 1 \in 1..(Len(s) - 1) /\ old(m - 1) = m
        BY <2>1, <2>2, <3>2
      <4> QED
        BY <4>1
    <3> QED
      BY <2>1, <3>1, <3>2
  <2> HIDE DEF old
  <2>6. Range(w) \subseteq Range(s)
    BY <2>3 DEF Range
  <2>7. Range(s) \ {p} \subseteq Range(w)
    BY <2>1, <2>3, <2>5 DEF Range
  <2>8. IsInjective(s) => IsInjective(w)
    BY <2>3, <2>4 DEF IsInjective
  <2> QED
    BY <2>1, <2>6, <2>7, <2>8 DEF w
<1> QED
  BY <1>1, <1>2

-----------------------------------------------------------------------------
\* A fresh scheduler (DeliberationScheduler.__init__) is well typed.
LEMMA TypeInit == Init => TypeOK
<1> SUFFICES ASSUME Init PROVE TypeOK
  OBVIOUS
<1>1. targets \in Seq(Personas)
  BY PersonasAssumption, OrderedIsSeq DEF Init
<1>2. Range(targets) \subseteq Personas
  BY <1>1 DEF Range
<1>3. <<>> \in Seq(Personas)
  OBVIOUS
<1> QED
  BY <1>1, <1>2, <1>3, BudgetAssumption DEF Init, TypeOK

\* What one wave takes: at least one request, and never the reserve.
LEMMA WaveSizeBounds ==
    ASSUME TypeOK, pending # <<>>, Available > 0
    PROVE  /\ WaveSize \in 1..Len(pending)
           /\ WaveSize \in 1..(budget - Reserve)
           /\ budget - WaveSize \in Nat
           /\ Closer # None => budget - WaveSize >= 1
<1>1. Len(pending) \in Nat /\ Len(pending) > 0
  BY DEF TypeOK
<1>2. budget \in Nat /\ Reserve \in {0, 1} /\ (Closer # None => Reserve = 1)
  BY DEF TypeOK, Reserve
<1> QED
  BY <1>1, <1>2 DEF WaveSize, Available

\* No call of the scheduler leaves its types; in particular none takes the budget
\* below zero, because a wave is never larger than what is available.
LEMMA TypeStep == TypeOK /\ [Next]_delibVars => TypeOK'
<1> SUFFICES ASSUME TypeOK, [Next]_delibVars PROVE TypeOK'
  OBVIOUS
<1> USE DEF TypeOK
<1>1. ASSUME NEW p \in Personas, ObserveFailure(p) PROVE TypeOK'
  BY <1>1, HeadTailProperties, WithoutProperties DEF ObserveFailure
<1>2. ASSUME NEW p \in Personas,
             NEW fresh \in Ordered(NewRequests(p)),
             NEW again \in SUBSET OldRequests(p),
             ObserveReply(p, fresh, again)
      PROVE  TypeOK'
  <2>1. IsFiniteSet(NewRequests(p))
    BY PersonasAssumption, FS_Subset DEF NewRequests, Eligible
  <2>2. fresh \in Seq(NewRequests(p))
    BY <2>1, OrderedIsSeq
  <2>3. fresh \in Seq(Personas)
    BY <2>2, SeqMonotonic DEF NewRequests, Eligible
  <2>4. pending' \in Seq(Personas)
    BY <1>2, <2>3, WithoutProperties, ConcatProperties DEF ObserveReply
  <2>5. due' \in Seq(Personas)
    BY <1>2, HeadTailProperties DEF ObserveReply
  <2> QED
    BY <1>2, <2>4, <2>5 DEF ObserveReply
<1>3. CASE StopQuiescent
  BY <1>3 DEF StopQuiescent, StopWith
<1>4. CASE StopWaveCap
  BY <1>4 DEF StopWaveCap, StopWith
<1>5. CASE StopBudget
  BY <1>5 DEF StopBudget, StopWith
<1>6. CASE IssueWave
  <2>1. /\ WaveSize \in 1..Len(pending)
        /\ budget - WaveSize \in Nat
    BY <1>6, WaveSizeBounds DEF IssueWave
  <2>2. due' \in Seq(Personas) /\ pending' \in Seq(Personas)
    BY <1>6, <2>1, SubSeqProperties DEF IssueWave, AfterWave, CountWave
  <2> QED
    BY <1>6, <2>1, <2>2 DEF IssueWave, AfterWave, CountWave
<1>7. CASE CloseNatural
  BY <1>7 DEF CloseNatural
<1>8. CASE CloseNone
  BY <1>8 DEF CloseNone, schedVars
<1>9. CASE CloseForced
  BY <1>9 DEF CloseForced
<1>10. CASE ObserveClose
  BY <1>10 DEF ObserveClose
<1>11. CASE UNCHANGED delibVars
  BY <1>11 DEF delibVars, schedVars
<1> QED
  BY <1>1, <1>2, <1>3, <1>4, <1>5, <1>6, <1>7, <1>8, <1>9, <1>10, <1>11
     DEF Next, Terminated

\* Type correctness, whatever the personas reply: no budget or wave count is ever
\* negative, and only personas are queued.
THEOREM TypeCorrect == Spec => []TypeOK
  BY TypeInit, TypeStep, PTL DEF Spec
-----------------------------------------------------------------------------
\* The strengthening of BudgetConserved and CloseGuaranteed.  As long as the
\* talk may still be closed, a post that was delegated and has a closer keeps a
\* run for it; afterwards only the way of the close matters.
ReserveKept ==
    phase \in {"talking", "stopped"} =>
        /\ close = "none"
        /\ Closer # None /\ delegated => budget >= 1

ForcedWhileClosing == phase = "closing" => close = "forced"

SafetyInv ==
    /\ TypeOK
    /\ BudgetConserved
    /\ ReserveKept
    /\ ForcedWhileClosing
    /\ CloseGuaranteed
    /\ HonestStop

\* The strengthened invariant holds before the first report.
LEMMA SafetyInit == Init => SafetyInv
  BY TypeInit, BudgetAssumption, WaveCapAssumption
     DEF Init, SafetyInv, BudgetConserved, ReserveKept, ForcedWhileClosing,
         CloseGuaranteed, HonestStop

\* The strengthened invariant is inductive: issuing a wave keeps the reserve, and
\* closing_turn decides how the post ends.
LEMMA SafetyStep == SafetyInv /\ [Next]_delibVars => SafetyInv'
<1> SUFFICES ASSUME SafetyInv, [Next]_delibVars PROVE SafetyInv'
  OBVIOUS
<1>0. TypeOK /\ TypeOK'
  BY TypeStep DEF SafetyInv
<1> USE DEF SafetyInv, BudgetConserved, ReserveKept, ForcedWhileClosing,
            CloseGuaranteed, HonestStop, Closer
<1>1. ASSUME NEW p \in Personas, ObserveFailure(p) PROVE SafetyInv'
  BY <1>0, <1>1 DEF ObserveFailure
<1>2. ASSUME NEW p \in Personas, NEW fresh, NEW again, ObserveReply(p, fresh, again)
      PROVE  SafetyInv'
  BY <1>0, <1>2 DEF ObserveReply
<1>3. CASE StopQuiescent
  BY <1>0, <1>3 DEF StopQuiescent, StopWith
<1>4. CASE StopWaveCap
  BY <1>0, <1>4 DEF StopWaveCap, StopWith
<1>5. CASE StopBudget
  BY <1>0, <1>5 DEF StopBudget, StopWith
<1>6. CASE IssueWave
  <2>1. /\ WaveSize \in 1..Len(pending)
        /\ budget - WaveSize \in Nat
        /\ Closer # None => budget - WaveSize >= 1
    BY <1>0, <1>6, WaveSizeBounds DEF IssueWave
  <2>2. Len(pending) \in Nat /\ WaveSize \in Nat /\ WaveSize >= 1
    BY <1>0, <2>1 DEF TypeOK
  <2>3. BudgetConserved'
    BY <1>0, <1>6, <2>1, <2>2, BudgetAssumption, WaveCapAssumption
       DEF IssueWave, AfterWave, CountWave, TypeOK
  <2>4. ReserveKept'
    BY <1>0, <1>6, <2>1, <2>2 DEF IssueWave, AfterWave, CountWave, TypeOK
  <2> QED
    BY <1>0, <1>6, <2>3, <2>4 DEF IssueWave, AfterWave, CountWave
<1>7. CASE CloseNatural
  BY <1>0, <1>7 DEF CloseNatural
<1>8. CASE CloseNone
  BY <1>0, <1>8 DEF CloseNone, schedVars, TypeOK
<1>9. CASE CloseForced
  BY <1>0, <1>9, BudgetAssumption DEF CloseForced, TypeOK
<1>10. CASE ObserveClose
  BY <1>0, <1>10 DEF ObserveClose
<1>11. CASE UNCHANGED delibVars
  BY <1>0, <1>11 DEF delibVars, schedVars
<1> QED
  BY <1>1, <1>2, <1>3, <1>4, <1>5, <1>6, <1>7, <1>8, <1>9, <1>10, <1>11
     DEF Next, Terminated

\* Hence it holds in every state of the scheduler.
LEMMA SafetyInvariant == Spec => []SafetyInv
  BY SafetyInit, SafetyStep, PTL DEF Spec

\* No turn of a post escapes its budget, whatever the personas reply.
THEOREM BudgetIsConserved == Spec => []BudgetConserved
<1>1. SafetyInv => BudgetConserved
  BY DEF SafetyInv
<1> QED
  BY <1>1, SafetyInvariant, PTL

\* Advisors cannot starve the close of a delegated post.
THEOREM CloseIsGuaranteed == Spec => []CloseGuaranteed
<1>1. SafetyInv => CloseGuaranteed
  BY DEF SafetyInv
<1> QED
  BY <1>1, SafetyInvariant, PTL

\* The recorded reason tells a ceiling from quiescence.
THEOREM StopIsHonest == Spec => []HonestStop
<1>1. SafetyInv => HonestStop
  BY DEF SafetyInv
<1> QED
  BY <1>1, SafetyInvariant, PTL
-----------------------------------------------------------------------------
\* The scheduler implements the bounded conversation: every step of it is a
\* delegation, an ending, or invisible to the operator.
THEOREM ImplementsBoundedSafety == Spec => Bounded!SafeSpec
<1> USE DEF Bounded!boundedVars, delibVars, schedVars
<1>1. Init => Bounded!Init
  BY DEF Init, Bounded!Init
<1>2. SafetyInv /\ [Next]_delibVars => [Bounded!Next]_(Bounded!boundedVars)
  <2> SUFFICES ASSUME SafetyInv, [Next]_delibVars
               PROVE  [Bounded!Next]_(Bounded!boundedVars)
    OBVIOUS
  <2>0. targets' = targets => Closer' = Closer
    BY DEF Closer
  <2>1. ASSUME NEW p \in Personas, ObserveFailure(p)
        PROVE  UNCHANGED Bounded!boundedVars
    BY <2>0, <2>1 DEF ObserveFailure
  <2>2. ASSUME NEW p \in Personas, NEW fresh, NEW again, ObserveReply(p, fresh, again)
        PROVE  UNCHANGED Bounded!boundedVars
    BY <2>0, <2>2 DEF ObserveReply
  <2>3. ASSUME NEW r, StopWith(r) PROVE UNCHANGED Bounded!boundedVars
    BY <2>0, <2>3 DEF StopWith
  <2>4. CASE IssueWave
    <3>1. WaveSize \in 1..(budget - Reserve)
      BY <2>4, WaveSizeBounds DEF IssueWave, SafetyInv
    <3>2. Bounded!Delegate
      BY <2>0, <2>4, <3>1 DEF IssueWave, AfterWave, CountWave, Bounded!Delegate, Bounded!Kept, Reserve
    <3> QED
      BY <3>2 DEF Bounded!Next
  <2>5. CASE CloseNatural
    BY <2>0, <2>5 DEF CloseNatural, Bounded!Next, Bounded!EndWithOwner
  <2>6. CASE CloseNone
    BY <2>0, <2>6 DEF CloseNone, Bounded!Next, Bounded!EndWithoutOwner, SafetyInv,
       ReserveKept, TypeOK
  <2>7. CASE CloseForced
    BY <2>0, <2>7 DEF CloseForced, Bounded!Next, Bounded!EndWithOwner
  <2>8. CASE ObserveClose
    BY <2>0, <2>8 DEF ObserveClose
  <2>9. CASE UNCHANGED delibVars
    BY <2>0, <2>9
  <2> QED
    BY <2>1, <2>2, <2>3, <2>4, <2>5, <2>6, <2>7, <2>8, <2>9
       DEF Next, Terminated, StopQuiescent, StopWaveCap, StopBudget
<1> QED
  BY <1>1, <1>2, SafetyInvariant, PTL DEF Spec, Bounded!SafeSpec

\* Hence no post overdraws its budget, and the turn kept for the owner is there.
THEOREM BoundedNeverOverdrawn == Spec => []Bounded!NeverOverdrawn
<1>1. SafetyInv => Bounded!NeverOverdrawn
  BY DEF SafetyInv, TypeOK, ReserveKept, Bounded!NeverOverdrawn
<1> QED
  BY <1>1, SafetyInvariant, PTL
-----------------------------------------------------------------------------
\* Cutting a queue in two loses and doubles nothing.
LEMMA CutProperties ==
    ASSUME NEW S, NEW s \in Seq(S), NEW n \in 1..Len(s)
    PROVE  /\ Range(s) \subseteq
                 Range(SubSeq(s, 1, n)) \cup Range(SubSeq(s, n + 1, Len(s)))
           /\ IsInjective(s) => /\ IsInjective(SubSeq(s, 1, n))
                             /\ IsInjective(SubSeq(s, n + 1, Len(s)))
<1> DEFINE front == SubSeq(s, 1, n)
           back == SubSeq(s, n + 1, Len(s))
<1>1. /\ front \in Seq(S) /\ Len(front) = n
      /\ \A k \in 1..n : front[k] = s[k]
  BY SubSeqProperties
<1>2. /\ back \in Seq(S) /\ Len(back) = Len(s) - n
      /\ \A k \in 1..(Len(s) - n) : back[k] = s[n + k]
  BY SubSeqProperties
<1> HIDE DEF front, back
<1>3. /\ DOMAIN front = 1..n /\ DOMAIN back = 1..(Len(s) - n)
      /\ DOMAIN s = 1..Len(s) /\ Len(s) \in Nat
  BY <1>1, <1>2
<1>4. ASSUME NEW m \in DOMAIN s PROVE s[m] \in Range(front) \cup Range(back)
  <2>1. CASE m <= n
    BY <1>1, <1>3, <2>1 DEF Range
  <2>2. CASE m > n
    <3>1. m - n \in DOMAIN back /\ n + (m - n) = m
      BY <1>3, <2>2
    <3>2. back[m - n] = s[m]
      BY <1>2, <1>3, <3>1
    <3> QED
      BY <3>1, <3>2 DEF Range
  <2> QED
    BY <1>3, <2>1, <2>2
<1>5. IsInjective(s) => IsInjective(front) /\ IsInjective(back)
  <2> SUFFICES ASSUME IsInjective(s) PROVE IsInjective(front) /\ IsInjective(back)
    OBVIOUS
  <2>1. IsInjective(front)
    BY <1>1, <1>3 DEF IsInjective
  <2>2. ASSUME NEW j \in DOMAIN back, NEW k \in DOMAIN back, back[j] = back[k]
        PROVE  j = k
    <3>1. n + j \in DOMAIN s /\ n + k \in DOMAIN s
      BY <1>3
    <3>2. s[n + j] = s[n + k]
      BY <1>2, <1>3, <2>2
    <3>3. n + j = n + k
      BY <3>1, <3>2 DEF IsInjective
    <3> QED
      BY <1>3, <3>3
  <2> QED
    BY <2>1, <2>2 DEF IsInjective
<1> QED
  BY <1>4, <1>5 DEF front, back, Range

\* Taking the first turn off a wave leaves a wave without repetition.
LEMMA TailDistinct ==
    ASSUME NEW S, NEW s \in Seq(S), s # <<>>, IsInjective(s)
    PROVE  IsInjective(Tail(s))
<1>1. /\ Tail(s) \in Seq(S) /\ Len(Tail(s)) = Len(s) - 1
      /\ \A i \in 1..Len(Tail(s)) : Tail(s)[i] = s[i + 1]
  BY HeadTailProperties
<1>2. Len(s) \in Nat /\ DOMAIN s = 1..Len(s) /\ DOMAIN Tail(s) = 1..(Len(s) - 1)
  BY <1>1
<1>3. ASSUME NEW j \in DOMAIN Tail(s), NEW k \in DOMAIN Tail(s),
             Tail(s)[j] = Tail(s)[k]
      PROVE  j = k
  <2>1. j + 1 \in DOMAIN s /\ k + 1 \in DOMAIN s /\ s[j + 1] = s[k + 1]
    BY <1>1, <1>2, <1>3
  <2>2. j + 1 = k + 1
    BY <2>1 DEF IsInjective
  <2> QED
    BY <1>2, <2>2
<1> QED
  BY <1>3 DEF IsInjective

\* Adding requests that are not yet in the queue.
LEMMA ConcatDistinct ==
    ASSUME NEW S, NEW s \in Seq(S), NEW t \in Seq(S),
           IsInjective(s), IsInjective(t), Range(s) \cap Range(t) = {}
    PROVE  /\ IsInjective(s \o t)
           /\ Range(s) \subseteq Range(s \o t)
<1> DEFINE w == s \o t
<1>1. /\ w \in Seq(S) /\ Len(w) = Len(s) + Len(t)
      /\ \A i \in 1..(Len(s) + Len(t)) :
            w[i] = IF i <= Len(s) THEN s[i] ELSE t[i - Len(s)]
  BY ConcatProperties
<1> HIDE DEF w
<1>2. /\ Len(s) \in Nat /\ Len(t) \in Nat /\ DOMAIN s = 1..Len(s)
      /\ DOMAIN t = 1..Len(t) /\ DOMAIN w = 1..(Len(s) + Len(t))
  BY <1>1
<1>3. \A i \in 1..Len(s) : w[i] = s[i]
  BY <1>1, <1>2
<1>4. \A i \in DOMAIN w : i > Len(s) =>
         i - Len(s) \in DOMAIN t /\ w[i] = t[i - Len(s)]
  BY <1>1, <1>2
<1>5. ASSUME NEW j \in DOMAIN w, NEW k \in DOMAIN w, j <= Len(s), k > Len(s)
      PROVE  w[j] # w[k]
  <2>1. w[j] \in Range(s)
    BY <1>2, <1>3, <1>5 DEF Range
  <2>2. w[k] \in Range(t)
    BY <1>4, <1>5 DEF Range
  <2> QED
    BY <2>1, <2>2
<1>6. ASSUME NEW j \in DOMAIN w, NEW k \in DOMAIN w, w[j] = w[k] PROVE j = k
  <2>1. CASE j <= Len(s) /\ k <= Len(s)
    BY <1>2, <1>3, <1>6, <2>1 DEF IsInjective
  <2>2. CASE j > Len(s) /\ k > Len(s)
    <3>1. j - Len(s) = k - Len(s)
      BY <1>4, <1>6, <2>2 DEF IsInjective
    <3> QED
      BY <1>2, <3>1
  <2>3. CASE j <= Len(s) /\ k > Len(s)
    BY <1>5, <1>6, <2>3
  <2>4. CASE j > Len(s) /\ k <= Len(s)
    BY <1>5, <1>6, <2>4
  <2> QED
    BY <1>2, <2>1, <2>2, <2>3, <2>4
<1>7. Range(s) \subseteq Range(w)
  BY <1>2, <1>3 DEF Range
<1> QED
  BY <1>6, <1>7 DEF IsInjective, w
-----------------------------------------------------------------------------
\* What a successful report adds to the queue: distinct, new, and after the
\* reporter's own request is gone.
LEMMA ReplyQueue ==
    ASSUME TypeOK, IsInjective(pending), NEW p \in Personas,
           NEW fresh \in Ordered(NewRequests(p))
    PROVE  /\ IsInjective(Without(pending, p) \o fresh)
           /\ Range(pending) \ {p} \subseteq Range(Without(pending, p) \o fresh)
<1> DEFINE rest == Without(pending, p)
<1>1. IsFiniteSet(NewRequests(p))
  BY PersonasAssumption, FS_Subset DEF NewRequests, Eligible
<1>2. fresh \in Seq(NewRequests(p)) /\ IsInjective(fresh)
  BY <1>1, OrderedIsSeq
<1>3. fresh \in Seq(Personas) /\ Range(fresh) \cap Range(pending) = {}
  BY <1>2, SeqMonotonic DEF NewRequests, Eligible, Range
<1>4. /\ rest \in Seq(Personas) /\ IsInjective(rest)
      /\ Range(rest) \subseteq Range(pending)
      /\ Range(pending) \ {p} \subseteq Range(rest)
  BY WithoutProperties DEF TypeOK
<1> HIDE DEF rest
<1>5. Range(rest) \cap Range(fresh) = {}
  BY <1>3, <1>4
<1>6. IsInjective(rest \o fresh) /\ Range(rest) \subseteq Range(rest \o fresh)
  BY <1>2, <1>3, <1>4, <1>5, ConcatDistinct
<1> QED
  BY <1>4, <1>6 DEF rest

\* The operator's targets are distinct, and nothing is pending yet.
LEMMA CoalescedInit == Init => Coalesced
<1> SUFFICES ASSUME Init PROVE Coalesced
  OBVIOUS
<1>1. IsInjective(targets)
  BY PersonasAssumption, OrderedIsSeq DEF Init
<1>2. IsInjective(<<>>)
  BY DEF IsInjective
<1> QED
  BY <1>1, <1>2 DEF Init, Coalesced

\* Every report and every wave keeps the requests coalesced (observe, next_wave).
LEMMA CoalescedStep == TypeOK /\ Coalesced /\ [Next]_delibVars => Coalesced'
<1> SUFFICES ASSUME TypeOK, Coalesced, [Next]_delibVars PROVE Coalesced'
  OBVIOUS
<1> USE DEF Coalesced
<1>1. ASSUME NEW p \in Personas, ObserveFailure(p) PROVE Coalesced'
  <2>1. IsInjective(pending')
    BY <1>1, WithoutProperties DEF ObserveFailure, TypeOK
  <2>2. IsInjective(due')
    BY <1>1, TailDistinct DEF ObserveFailure, TypeOK
  <2> QED
    BY <2>1, <2>2 DEF IsInjective
<1>2. ASSUME NEW p \in Personas,
             NEW fresh \in Ordered(NewRequests(p)),
             NEW again, ObserveReply(p, fresh, again)
      PROVE  Coalesced'
  <2>1. IsInjective(pending')
    BY <1>2, ReplyQueue DEF ObserveReply
  <2>2. IsInjective(due')
    BY <1>2, TailDistinct DEF ObserveReply, TypeOK
  <2> QED
    BY <2>1, <2>2 DEF IsInjective
<1>3. ASSUME NEW r, StopWith(r) PROVE Coalesced'
  BY <1>3 DEF StopWith, IsInjective
<1>4. CASE IssueWave
  <2>1. WaveSize \in 1..Len(pending)
    BY <1>4, WaveSizeBounds DEF IssueWave
  <2>2. IsInjective(pending') /\ IsInjective(due')
    BY <1>4, <2>1, CutProperties DEF IssueWave, AfterWave, CountWave, TypeOK
  <2> QED
    BY <2>2 DEF IsInjective
<1>5. ASSUME UNCHANGED <<pending, due>> PROVE Coalesced'
  BY <1>5 DEF IsInjective
<1> QED
  BY <1>1, <1>2, <1>3, <1>4, <1>5
     DEF Next, Terminated, StopQuiescent, StopWaveCap, StopBudget, CloseNatural,
         CloseNone, CloseForced, ObserveClose, delibVars, schedVars

\* One turn per persona and wave, one pending request per persona.
THEOREM RequestsAreCoalesced == Spec => []Coalesced
  BY CoalescedInit, CoalescedStep, TypeCorrect, PTL DEF Spec

\* No honored request is dropped while the deliberation goes on.
THEOREM RequestsAreKept == Spec => NoRequestDropped
<1> DEFINE Kept == \A p \in Range(pending) :
                      \/ p \in Range(pending') \/ p \in Range(due')
                      \/ due # <<>> /\ p = Head(due)
<1>1. TypeOK /\ Coalesced /\ [Next]_delibVars => [Kept]_delibVars
  <2> SUFFICES ASSUME TypeOK, Coalesced, Next PROVE Kept
    BY DEF delibVars, schedVars
  <2>1. ASSUME NEW p \in Personas, ObserveFailure(p) PROVE Kept
    BY <2>1, WithoutProperties DEF ObserveFailure, TypeOK
  <2>2. ASSUME NEW p \in Personas,
               NEW fresh \in Ordered(NewRequests(p)),
               NEW again, ObserveReply(p, fresh, again)
        PROVE  Kept
    BY <2>2, ReplyQueue DEF ObserveReply, Coalesced
  <2>3. ASSUME NEW r, StopWith(r) PROVE Kept
    BY <2>3 DEF StopWith
  <2>4. CASE IssueWave
    <3>1. WaveSize \in 1..Len(pending)
      BY <2>4, WaveSizeBounds DEF IssueWave
    <3> QED
      BY <2>4, <3>1, CutProperties DEF IssueWave, AfterWave, CountWave, TypeOK
  <2>5. ASSUME UNCHANGED pending PROVE Kept
    BY <2>5
  <2> QED
    BY <2>1, <2>2, <2>3, <2>4, <2>5
       DEF Next, Terminated, StopQuiescent, StopWaveCap, StopBudget,
           CloseNatural, CloseNone, CloseForced, ObserveClose, delibVars,
           schedVars
<1> QED
  BY <1>1, TypeCorrect, RequestsAreCoalesced, PTL DEF Spec, NoRequestDropped
===============================================================================
