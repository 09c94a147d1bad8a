------------------------ MODULE TransactionListsProofs ------------------------
(***************************************************************************)
(* What the comprehensions and sums return, for every list, by induction    *)
(* over its length: a selection has the selected elements, as often as the  *)
(* list, and a sum of amounts is the number of their units (Volume), which  *)
(* no order can change.                                                     *)
(***************************************************************************)
EXTENDS TransactionLists, FiniteSetTheorems, SequenceTheorems, TLAPS

(* Induction over the natural numbers, for a set: were m not in it, the     *)
(* predecessors of the numbers up to m that are missing would be missing    *)
(* too, so that these are mapped one to one to fewer.                       *)
LEMMA InductionOnSets ==
  ASSUME NEW S, 0 \in S, \A n \in Nat : n \in S => n + 1 \in S
  PROVE  Nat \subseteq S
<1> SUFFICES ASSUME NEW m \in Nat, m \notin S PROVE FALSE
  OBVIOUS
<1> DEFINE Missing == {n \in 0..m : n \notin S}
           pred == [n \in Missing |-> n - 1]
<1>1. Missing \subseteq 0..m /\ m \in Missing
  OBVIOUS
<1>2. \A n \in Missing : n \in Nat /\ n - 1 \in Missing \ {m}
  <2> SUFFICES ASSUME NEW n \in Missing PROVE n \in Nat /\ n - 1 \in Missing \ {m}
    OBVIOUS
  <2>1. n \in Nat /\ n # 0 /\ n <= m
    OBVIOUS
  <2>2. n - 1 \in Nat /\ (n - 1) + 1 = n /\ n - 1 <= m /\ n - 1 # m
    BY <2>1
  <2>3. QED BY <2>1, <2>2
<1>3. pred \in [Missing -> Missing \ {m}]
  BY <1>2
<1> HIDE DEF Missing
<1>4. IsFiniteSet(Missing)
  <2>1. IsFiniteSet(0..m)
    BY FS_Interval
  <2>2. QED BY <1>1, <2>1, FS_Subset
<1>5. /\ IsFiniteSet(Missing \ {m}) /\ Cardinality(Missing) \in Nat
      /\ Cardinality(Missing \ {m}) = Cardinality(Missing) - 1
  BY <1>1, <1>4, FS_RemoveElement, FS_CardinalityType
<1>6. Cardinality(Missing \ {m}) < Cardinality(Missing)
  BY <1>5
<1>7. PICK i, j \in Missing : i # j /\ pred[i] = pred[j]
  <2> HIDE DEF pred
  <2> QED BY <1>3, <1>4, <1>5, <1>6, FS_PigeonHole
<1>8. i \in Nat /\ j \in Nat /\ i - 1 = j - 1
  BY <1>2, <1>7
<1>9. QED BY <1>7, <1>8

(* f starts with base and goes on as step says, up to n.                    *)
Follows(f, n, base, step) == f[0] = base /\ \A i \in 1..n : f[i] = step[i][f[i - 1]]

(* There is such a function for every base and step.                        *)
LEMMA RecursionOnPrefixes ==
  ASSUME NEW V, NEW base \in V, NEW N \in Nat, NEW step \in [1..N -> [V -> V]]
  PROVE  \E f \in [0..N -> V] : Follows(f, N, base, step)
<1> DEFINE Computes(f, k) == f[0] = base /\ \A n \in 1..k : f[n] = step[n][f[n - 1]]
           Reached == {k \in Nat : k <= N => \E f \in [0..k -> V] : Computes(f, k)}
<1>1. 0 \in Reached
  <2>1. [n \in 0..0 |-> base] \in [0..0 -> V] /\ Computes([n \in 0..0 |-> base], 0)
    OBVIOUS
  <2>2. \E f \in [0..0 -> V] : Computes(f, 0)
    BY <2>1
  <2>3. QED BY <2>2
<1>2. ASSUME NEW k \in Nat, k \in Reached PROVE k + 1 \in Reached
  <2> SUFFICES ASSUME k + 1 <= N PROVE \E f \in [0..(k + 1) -> V] : Computes(f, k + 1)
    OBVIOUS
  <2>1. PICK f \in [0..k -> V] : Computes(f, k)
    BY <1>2
  <2> DEFINE g == [n \in 0..(k + 1) |-> IF n = k + 1 THEN step[k + 1][f[k]] ELSE f[n]]
  <2>2. step[k + 1] \in [V -> V] /\ f[k] \in V
    OBVIOUS
  <2>3. g \in [0..(k + 1) -> V]
    BY <2>2
  <2>4. g[0] = base
    BY <2>1
  <2>5. \A n \in 1..(k + 1) : g[n] = step[n][g[n - 1]]
    BY <2>1
  <2>6. QED BY <2>3, <2>4, <2>5
<1>3. N \in Reached
  <2> HIDE DEF Reached
  <2> QED BY <1>1, <1>2, InductionOnSets
<1>4. QED BY <1>3 DEF Follows

-----------------------------------------------------------------------------
(* A selection has the selected elements, each as often as the list.        *)
LEMMA SelectionShape ==
  ASSUME NEW X, NEW s \in Seq(X), NEW wanted
  PROVE  /\ Selected(s, wanted) \in Seq(X)
         /\ Range(Selected(s, wanted)) = Range(s) \cap wanted
         /\ Len(Selected(s, wanted)) <= Len(s)
         /\ IsInjective(s) => IsInjective(Selected(s, wanted))
<1> DEFINE N == Len(s)
           V == Seq(X)
           step == [n \in 1..N |-> [v \in V |-> IF s[n] \in wanted THEN Append(v, s[n]) ELSE v]]
           Body(f) == [n \in 0..N |-> IF n = 0 THEN <<>>
                                      ELSE IF s[n] \in wanted THEN Append(f[n - 1], s[n])
                                      ELSE f[n - 1]]
           selected == CHOOSE f : f = Body(f)
<1>1. N \in Nat /\ \A n \in 1..N : s[n] \in X
  OBVIOUS
<1>2. <<>> \in V /\ \A v \in V : \A x \in X : Append(v, x) \in V
  OBVIOUS
<1>3. PICK f \in [0..N -> V] : Follows(f, N, <<>>, step)
  <2>1. step \in [1..N -> [V -> V]]
    <3> HIDE DEF V, N
    <3> QED BY <1>1, <1>2
  <2> HIDE DEF step, V, N
  <2>2. QED BY <1>1, <1>2, <2>1, RecursionOnPrefixes
<1>4. f = Body(f)
  <2>1. \A n \in 1..N : f[n] = IF s[n] \in wanted THEN Append(f[n - 1], s[n]) ELSE f[n - 1]
    <3> SUFFICES ASSUME NEW n \in 1..N
                 PROVE  f[n] = IF s[n] \in wanted THEN Append(f[n - 1], s[n]) ELSE f[n - 1]
      OBVIOUS
    <3>1. n - 1 \in 0..N
      BY <1>1
    <3>2. f[n - 1] \in V
      BY <3>1
    <3>3. f[n] = step[n][f[n - 1]]
      BY <1>3 DEF Follows
    <3> HIDE DEF V, N
    <3>4. QED BY <3>2, <3>3
  <2>2. f[0] = <<>> /\ N \in Nat
    BY <1>3 DEF Follows
  <2>3. f = [n \in 0..N |-> f[n]] /\ \A n \in 0..N : n # 0 => n \in 1..N
    OBVIOUS
  <2>4. \A n \in 0..N : f[n] = IF n = 0 THEN <<>>
                              ELSE IF s[n] \in wanted THEN Append(f[n - 1], s[n]) ELSE f[n - 1]
    BY <2>1, <2>2, <2>3
  <2> HIDE DEF V, N
  <2>5. QED BY <2>3, <2>4, Zenon
<1>5. selected = Body(selected)
  <2> HIDE DEF Body
  <2> QED BY <1>4
<1>6. Selected(s, wanted) = selected[N]
  BY DEF Selected
<1> HIDE DEF selected, V, N
<1>7. /\ selected[0] = <<>>
      /\ \A n \in 1..N : selected[n] = IF s[n] \in wanted THEN Append(selected[n - 1], s[n])
                                       ELSE selected[n - 1]
  <2>1. 0 \in 0..N /\ \A n \in 1..N : n \in 0..N /\ n # 0
    BY <1>1
  <2>2. QED BY <1>5, <2>1, Zenon
<1> HIDE DEF Body
<1> DEFINE Right(n) ==
             /\ selected[n] \in Seq(X)
             /\ Len(selected[n]) <= n
             /\ Range(selected[n]) = {s[i] : i \in 1..n} \cap wanted
             /\ IsInjective(s) => IsInjective(selected[n])
<1>8. Right(0)
  BY <1>7 DEF Range, IsInjective
<1>9. ASSUME NEW n \in Nat, n + 1 <= N, Right(n) PROVE Right(n + 1)
  <2>1. n + 1 \in 1..N /\ (n + 1) - 1 = n
    BY <1>1, <1>9
  <2>2. {s[i] : i \in 1..(n + 1)} = {s[i] : i \in 1..n} \cup {s[n + 1]}
    BY <2>1
  <2>3. CASE s[n + 1] \notin wanted
    <3>1. selected[n + 1] = selected[n]
      BY <1>7, <2>1, <2>3
    <3>2. QED BY <1>9, <2>2, <2>3, <3>1
  <2>4. CASE s[n + 1] \in wanted
    <3>1. selected[n + 1] = Append(selected[n], s[n + 1])
      BY <1>7, <2>1, <2>4
    <3>2. s[n + 1] \in X
      BY <1>1, <2>1
    <3> DEFINE old == selected[n]
               new == selected[n + 1]
    <3>3. /\ old \in Seq(X) /\ new \in Seq(X) /\ Len(new) = Len(old) + 1 /\ Len(old) \in Nat
          /\ DOMAIN old = 1..Len(old) /\ DOMAIN new = 1..Len(new)
          /\ new[Len(new)] = s[n + 1]
          /\ \A i \in 1..Len(old) : new[i] = old[i]
      BY <1>9, <3>1, <3>2
    <3>4. old \in Seq(X) /\ Len(old) <= n /\ Range(old) = {s[i] : i \in 1..n} \cap wanted
          /\ (IsInjective(s) => IsInjective(old))
      BY <1>9
    <3> HIDE DEF old, new
    <3>5. DOMAIN new = DOMAIN old \cup {Len(new)}
      BY <3>3
    <3>6. Range(new) = Range(old) \cup {s[n + 1]}
      BY <3>3, <3>5 DEF Range
    <3>7. ASSUME IsInjective(s) PROVE IsInjective(new)
      <4>1. s[n + 1] \notin Range(old)
        <5>1. \A i \in 1..n : i \in DOMAIN s /\ n + 1 \in DOMAIN s /\ i # n + 1
          BY <1>1, <2>1
        <5>2. QED BY <3>4, <3>7, <5>1 DEF IsInjective
      <4>2. \A i \in DOMAIN old : old[i] # s[n + 1] /\ new[i] = old[i]
        BY <3>3, <4>1 DEF Range
      <4>3. QED BY <3>3, <3>4, <3>5, <3>7, <4>2 DEF IsInjective
    <3>8. Len(new) <= n + 1
      BY <3>3, <3>4
    <3>9. Range(new) = {s[i] : i \in 1..(n + 1)} \cap wanted
      BY <2>2, <2>4, <3>4, <3>6
    <3>10. QED BY <3>3, <3>7, <3>8, <3>9 DEF new
  <2>5. QED BY <2>3, <2>4
<1>10. Right(N)
  <2> DEFINE Fine == {n \in Nat : n <= N => Right(n)}
  <2> HIDE DEF Right
  <2>1. 0 \in Fine
    BY <1>8
  <2>2. \A n \in Nat : n \in Fine => n + 1 \in Fine
    BY <1>1, <1>9
  <2>3. Nat \subseteq Fine
    <3> HIDE DEF Fine
    <3> QED BY <2>1, <2>2, InductionOnSets
  <2>4. QED BY <1>1, <2>3
<1>11. Range(s) = {s[i] : i \in 1..N}
  BY DEF Range, N
<1>12. QED BY <1>6, <1>10, <1>11 DEF N
-----------------------------------------------------------------------------
(* A sum of amounts counts their units, whatever the order.                 *)
Units(S) == {unit \in S \X Nat : unit[2] \in 1..unit[1].amount}

Volume(S) == Cardinality(Units(S))

LEMMA NoUnits == IsFiniteSet(Units({})) /\ Volume({}) = 0
<1>1. Units({}) = {}
  BY DEF Units
<1>2. QED BY <1>1, FS_EmptySet DEF Volume

LEMMA UnitsOfOneMore ==
  ASSUME NEW S, NEW t, t \notin S, t.amount \in Nat, IsFiniteSet(Units(S))
  PROVE  /\ IsFiniteSet(Units(S \cup {t})) /\ Volume(S) \in Nat
         /\ Volume(S \cup {t}) = Volume(S) + t.amount
<1> DEFINE new == {t} \X (1..t.amount)
<1>1. /\ IsFiniteSet({t}) /\ Cardinality({t}) = 1
      /\ IsFiniteSet(1..t.amount) /\ Cardinality(1..t.amount) = t.amount
  <2>1. /\ IsFiniteSet(1..t.amount)
        /\ Cardinality(1..t.amount) = IF 1 > t.amount THEN 0 ELSE t.amount - 1 + 1
    BY FS_Interval
  <2>2. \A n \in Nat : (IF 1 > n THEN 0 ELSE n - 1 + 1) = n
    OBVIOUS
  <2>3. IsFiniteSet({t}) /\ Cardinality({t}) = 1
    BY FS_Singleton
  <2>4. QED BY <2>1, <2>2, <2>3
<1>2. IsFiniteSet(new) /\ Cardinality(new) = t.amount
  <2>1. \A A, B : IsFiniteSet(A) /\ IsFiniteSet(B) =>
          IsFiniteSet(A \X B) /\ Cardinality(A \X B) = Cardinality(A) * Cardinality(B)
    BY FS_Product
  <2>2. \A n \in Nat : 1 * n = n
    OBVIOUS
  <2>3. QED BY <1>1, <2>1, <2>2
<1>3. Units(S \cup {t}) = Units(S) \cup new /\ Units(S) \cap new = {}
  BY DEF Units
<1> HIDE DEF new
<1>4. Cardinality({}) = 0 /\ Cardinality(Units(S)) \in Nat
  BY FS_EmptySet, FS_CardinalityType
<1>5. /\ IsFiniteSet(Units(S) \cup new)
      /\ Cardinality(Units(S) \cup new)
           = Cardinality(Units(S)) + Cardinality(new) - Cardinality(Units(S) \cap new)
  BY <1>2, FS_Union
<1>6. Cardinality(Units(S) \cup new) = Cardinality(Units(S)) + t.amount
  <2>1. Cardinality(Units(S) \cap new) = 0
    BY <1>3, <1>4
  <2>2. \A a, b \in Nat : a + b - 0 = a + b
    OBVIOUS
  <2>3. QED BY <1>2, <1>4, <1>5, <2>1, <2>2
<1>7. QED BY <1>3, <1>4, <1>5, <1>6 DEF Volume

(* Finitely many amounts have finitely many units.                          *)
LEMMA UnitsAreFinite ==
  ASSUME NEW S, IsFiniteSet(S), \A t \in S : t.amount \in Nat
  PROVE  IsFiniteSet(Units(S))
<1>1. \A s \in SUBSET S : IsFiniteSet(s) /\ Cardinality(s) \in Nat
  BY FS_Subset, FS_CardinalityType
<1> DEFINE Fine == {n \in Nat : \A s \in SUBSET S : Cardinality(s) = n => IsFiniteSet(Units(s))}
<1>2. 0 \in Fine
  BY <1>1, FS_EmptySet, NoUnits
<1>3. ASSUME NEW n \in Nat, n \in Fine PROVE n + 1 \in Fine
  <2> SUFFICES ASSUME NEW s \in SUBSET S, Cardinality(s) = n + 1 PROVE IsFiniteSet(Units(s))
    OBVIOUS
  <2>1. PICK t \in s : TRUE
    BY FS_EmptySet
  <2>2. IsFiniteSet(s) /\ Cardinality(s \ {t}) = Cardinality(s) - 1
    BY <1>1, <2>1, FS_RemoveElement
  <2>3. Cardinality(s \ {t}) = n /\ s \ {t} \in SUBSET S
    BY <2>2
  <2>4. IsFiniteSet(Units(s \ {t})) /\ s = (s \ {t}) \cup {t} /\ t.amount \in Nat
    BY <1>3, <2>3
  <2>5. QED BY <2>4, UnitsOfOneMore
<1>4. Nat \subseteq Fine
  <2> HIDE DEF Fine
  <2> QED BY <1>2, <1>3, InductionOnSets
<1>5. QED BY <1>1, <1>4

(* sum() over a list without repetition                                     *)
LEMMA TotalIsVolume ==
  ASSUME NEW X, NEW s \in Seq(X), IsInjective(s), \A t \in X : t.amount \in Nat
  PROVE  /\ IsFiniteSet(Units(Range(s))) /\ Volume(Range(s)) \in Nat
         /\ Total(s) = Volume(Range(s))
<1> DEFINE N == Len(s)
           First(n) == {s[i] : i \in 1..n}
           Body(f) == [n \in 0..N |-> IF n = 0 THEN 0 ELSE f[n - 1] + s[n].amount]
           total == CHOOSE f : f = Body(f)
           sums == [n \in 0..N |-> Volume(First(n))]
<1>1. N \in Nat /\ DOMAIN s = 1..N /\ \A n \in 1..N : s[n] \in X
  OBVIOUS
<1>2. First(0) = {} /\ Range(s) = First(N)
  BY <1>1 DEF Range
<1>3. \A n \in 1..N : n - 1 \in 0..N /\ n \in 0..N /\ n # 0
  BY <1>1
<1>4. \A n \in 1..N : First(n) = First(n - 1) \cup {s[n]} /\ s[n] \notin First(n - 1)
                      /\ s[n].amount \in Nat
  <2> SUFFICES ASSUME NEW n \in 1..N
               PROVE  /\ First(n) = First(n - 1) \cup {s[n]} /\ s[n] \notin First(n - 1)
                      /\ s[n].amount \in Nat
    OBVIOUS
  <2>1. 1..n = (1..(n - 1)) \cup {n} /\ n \notin 1..(n - 1) /\ 1..n \subseteq 1..N
    BY <1>1
  <2>2. \A i \in 1..(n - 1) : s[i] # s[n]
    BY <1>1, <2>1 DEF IsInjective
  <2>3. QED BY <1>1, <2>1, <2>2
<1> HIDE DEF First
<1>5. \A n \in 0..N : IsFiniteSet(Units(First(n)))
  <2> DEFINE Fine == {n \in Nat : n <= N => IsFiniteSet(Units(First(n)))}
  <2>1. 0 \in Fine
    BY <1>2, NoUnits
  <2>2. ASSUME NEW n \in Nat, n \in Fine PROVE n + 1 \in Fine
    <3> SUFFICES ASSUME n + 1 <= N PROVE IsFiniteSet(Units(First(n + 1)))
      OBVIOUS
    <3>1. n + 1 \in 1..N /\ (n + 1) - 1 = n /\ IsFiniteSet(Units(First(n)))
      BY <1>1, <2>2
    <3>2. /\ First(n + 1) = First(n) \cup {s[n + 1]} /\ s[n + 1] \notin First(n)
          /\ s[n + 1].amount \in Nat
      BY <1>4, <3>1
    <3>3. QED BY <3>1, <3>2, UnitsOfOneMore
  <2>3. Nat \subseteq Fine
    <3> HIDE DEF Fine
    <3> QED BY <2>1, <2>2, InductionOnSets
  <2>4. QED BY <1>1, <2>3
<1>6. \A n \in 1..N : Volume(First(n)) = Volume(First(n - 1)) + s[n].amount
  BY <1>3, <1>4, <1>5, UnitsOfOneMore
<1>7. sums = Body(sums)
  <2>1. \A n \in 0..N : n # 0 => n \in 1..N
    BY <1>1
  <2>2. \A n \in 0..N : Volume(First(n)) = IF n = 0 THEN 0 ELSE sums[n - 1] + s[n].amount
    BY <1>2, <1>3, <1>6, <2>1, NoUnits
  <2>3. QED BY <2>2, Zenon
<1>8. total = Body(total)
  <2> HIDE DEF Body, sums
  <2> QED BY <1>7
<1>9. Total(s) = total[N]
  BY DEF Total
<1> HIDE DEF total
<1>10. total[0] = 0 /\ \A n \in 1..N : total[n] = total[n - 1] + s[n].amount
  <2>1. 0 \in 0..N
    BY <1>1
  <2>2. QED BY <1>3, <1>8, <2>1, Zenon
<1>11. \A n \in 0..N : total[n] = Volume(First(n))
  <2> DEFINE Fine == {n \in Nat : n <= N => total[n] = Volume(First(n))}
  <2>1. 0 \in Fine
    BY <1>2, <1>10, NoUnits
  <2>2. ASSUME NEW n \in Nat, n \in Fine PROVE n + 1 \in Fine
    <3> SUFFICES ASSUME n + 1 <= N PROVE total[n + 1] = Volume(First(n + 1))
      OBVIOUS
    <3>1. n + 1 \in 1..N /\ (n + 1) - 1 = n /\ total[n] = Volume(First(n))
      BY <1>1, <2>2
    <3>2. QED BY <1>6, <1>10, <3>1
  <2>3. Nat \subseteq Fine
    <3> HIDE DEF Fine
    <3> QED BY <2>1, <2>2, InductionOnSets
  <2>4. QED BY <1>1, <2>3
<1>12. IsFiniteSet(Units(First(N))) /\ total[N] = Volume(First(N))
  BY <1>1, <1>5, <1>11
<1>13. QED BY <1>2, <1>9, <1>12, FS_CardinalityType DEF Volume

(* ... and the sum over a set.                                              *)
LEMMA SumIsVolume ==
  ASSUME NEW S, IsFiniteSet(S), \A t \in S : t.amount \in Nat
  PROVE  MapThenSumSet(LAMBDA t : t.amount, S) = Volume(S)
<1> DEFINE One(s) == CHOOSE t \in s : TRUE
           Body(f) == [s \in SUBSET S |-> IF s = {} THEN 0 ELSE One(s).amount + f[s \ {One(s)}]]
           iter == CHOOSE f : f = Body(f)
           sums == [s \in SUBSET S |-> Volume(s)]
<1>1. MapThenSumSet(LAMBDA t : t.amount, S) = iter[S]
  BY DEF MapThenSumSet, MapThenFoldSet
<1>2. ASSUME NEW s \in SUBSET S, s # {}
      PROVE  /\ One(s) \in s /\ s \ {One(s)} \in SUBSET S /\ One(s).amount \in Nat
             /\ s = (s \ {One(s)}) \cup {One(s)}
  BY <1>2
<1> HIDE DEF One
<1>3. \A s \in SUBSET S : IsFiniteSet(s) /\ Cardinality(s) \in Nat
  BY FS_Subset, FS_CardinalityType
<1>4. ASSUME NEW s \in SUBSET S, s # {}
      PROVE  Cardinality(s \ {One(s)}) = Cardinality(s) - 1
  BY <1>2, <1>3, <1>4, FS_RemoveElement
<1>5. \A s \in SUBSET S : IsFiniteSet(Units(s))
  BY <1>3, UnitsAreFinite
<1>6. ASSUME NEW s \in SUBSET S, s # {}
      PROVE  Volume(s) = One(s).amount + Volume(s \ {One(s)})
  <2>1. /\ One(s) \notin s \ {One(s)} /\ One(s).amount \in Nat
        /\ IsFiniteSet(Units(s \ {One(s)})) /\ s = (s \ {One(s)}) \cup {One(s)}
    BY <1>2, <1>5, <1>6
  <2>2. Volume(s) = Volume(s \ {One(s)}) + One(s).amount /\ Volume(s \ {One(s)}) \in Nat
    BY <2>1, UnitsOfOneMore
  <2>3. QED BY <2>1, <2>2
<1>7. sums = Body(sums)
  <2>1. \A s \in SUBSET S : Volume(s) = IF s = {} THEN 0
                                        ELSE One(s).amount + sums[s \ {One(s)}]
    BY <1>2, <1>6, NoUnits
  <2>2. QED BY <2>1, Zenon
<1>8. iter = Body(iter)
  <2> HIDE DEF Body, sums
  <2> QED BY <1>7
<1> HIDE DEF iter
<1>9. \A s \in SUBSET S : iter[s] = IF s = {} THEN 0 ELSE One(s).amount + iter[s \ {One(s)}]
  BY <1>8, Zenon
<1>10. \A s \in SUBSET S : iter[s] = Volume(s)
  <2> DEFINE Fine == {n \in Nat : \A s \in SUBSET S : Cardinality(s) = n => iter[s] = Volume(s)}
  <2>1. 0 \in Fine
    BY <1>3, <1>9, FS_EmptySet, NoUnits
  <2>2. ASSUME NEW n \in Nat, n \in Fine PROVE n + 1 \in Fine
    <3> SUFFICES ASSUME NEW s \in SUBSET S, Cardinality(s) = n + 1 PROVE iter[s] = Volume(s)
      OBVIOUS
    <3>1. s # {}
      BY FS_EmptySet
    <3>2. Cardinality(s \ {One(s)}) = n /\ s \ {One(s)} \in SUBSET S
      BY <1>2, <1>4, <3>1
    <3>3. iter[s \ {One(s)}] = Volume(s \ {One(s)})
      BY <2>2, <3>2
    <3>4. QED BY <1>6, <1>9, <3>1, <3>3
  <2>3. Nat \subseteq Fine
    <3> HIDE DEF Fine
    <3> QED BY <2>1, <2>2, InductionOnSets
  <2>4. QED BY <1>3, <2>3
<1>11. QED BY <1>1, <1>10

(* More transactions, no smaller a sum.                                     *)
LEMMA VolumeGrows ==
  ASSUME NEW T, NEW S \in SUBSET T, IsFiniteSet(Units(T))
  PROVE  Volume(S) <= Volume(T) /\ Volume(S) \in Nat
<1>1. Units(S) \in SUBSET Units(T)
  BY DEF Units
<1>2. QED BY <1>1, FS_Subset, FS_CardinalityType DEF Volume

(* A list without repetition has as many elements as positions.             *)
LEMMA LengthIsCardinality ==
  ASSUME NEW X, NEW s \in Seq(X), IsInjective(s)
  PROVE  IsFiniteSet(Range(s)) /\ Cardinality(Range(s)) = Len(s)
<1>1. Len(s) \in Nat /\ s \in [1..Len(s) -> Range(s)] /\ DOMAIN s = 1..Len(s)
  BY DEF Range
<1>2. s \in Bijection(1..Len(s), Range(s))
  BY <1>1 DEF Bijection, Injection, Surjection, IsInjective, Range
<1>3. ExistsBijection(1..Len(s), Range(s))
  BY <1>2 DEF ExistsBijection
<1>4. QED BY <1>1, <1>3, FS_CountingElements, FS_NatBijection

-----------------------------------------------------------------------------
(* The ids of a list are the ids of its elements; where an id names one     *)
(* transaction, neither list has a repetition unless the other has.         *)
IdsOf(A) == {t.transaction_id : t \in A}

LEMMA IdsOfAList ==
  ASSUME NEW X, NEW s \in Seq(X)
  PROVE  /\ Range(Ids(s)) = IdsOf(Range(s)) /\ Len(Ids(s)) = Len(s)
         /\ Len(s) \in Nat /\ DOMAIN Ids(s) = 1..Len(s) /\ Ids(s) \in Seq(Range(Ids(s)))
         /\ IsInjective(Ids(s)) => IsInjective(s)
         /\ (\A a, b \in X : a.transaction_id = b.transaction_id => a = b) =>
              (IsInjective(s) => IsInjective(Ids(s)))
<1>1. DOMAIN s = 1..Len(s) /\ Len(s) \in Nat /\ \A i \in 1..Len(s) : s[i] \in X
  OBVIOUS
<1>2. DOMAIN Ids(s) = 1..Len(s) /\ \A i \in 1..Len(s) : Ids(s)[i] = s[i].transaction_id
  BY <1>1 DEF Ids
<1>3. Len(Ids(s)) = Len(s) /\ Ids(s) \in Seq(Range(Ids(s)))
  <2>1. Ids(s) = [i \in 1..Len(s) |-> Ids(s)[i]]
    BY <1>1, <1>2 DEF Ids
  <2>2. QED BY <1>1, <1>2, <2>1 DEF Range
<1>4. Range(Ids(s)) = IdsOf(Range(s))
  BY <1>1, <1>2 DEF Range, IdsOf
<1>5. IsInjective(Ids(s)) => IsInjective(s)
  BY <1>1, <1>2 DEF IsInjective
<1>6. ASSUME \A a, b \in X : a.transaction_id = b.transaction_id => a = b, IsInjective(s)
      PROVE  IsInjective(Ids(s))
  BY <1>1, <1>2, <1>6 DEF IsInjective
<1>7. QED BY <1>1, <1>2, <1>3, <1>4, <1>5, <1>6

(* Looked up by ids that a list has, each once, its transactions come once, *)
(* in the order of the ids.                                                 *)
LEMMA NamedShape ==
  ASSUME NEW X, NEW s \in Seq(X), IsInjective(Ids(s)),
         NEW Y, NEW ids \in Seq(Y), IsInjective(ids), Range(ids) \subseteq Range(Ids(s))
  PROVE  /\ Named(s, ids) \in Seq(Range(s)) /\ Len(Named(s, ids)) = Len(ids)
         /\ IsInjective(Named(s, ids))
         /\ Range(Named(s, ids)) = {t \in Range(s) : t.transaction_id \in Range(ids)}
<1> DEFINE named == Named(s, ids)
           n == Len(ids)
<1>1. n \in Nat /\ DOMAIN ids = 1..n /\ DOMAIN named = 1..n
  BY DEF Named
<1>2. ASSUME NEW t \in Range(s), NEW u \in Range(s), t.transaction_id = u.transaction_id
      PROVE  t = u
  <2>1. PICK i \in DOMAIN s : s[i] = t
    BY DEF Range
  <2>2. PICK j \in DOMAIN s : s[j] = u
    BY DEF Range
  <2>3. i \in DOMAIN Ids(s) /\ j \in DOMAIN Ids(s) /\ Ids(s)[i] = Ids(s)[j]
    BY <1>2, <2>1, <2>2 DEF Ids
  <2>4. i = j
    BY <2>3 DEF IsInjective
  <2>5. QED BY <2>1, <2>2, <2>4
<1>3. ASSUME NEW i \in 1..n
      PROVE  named[i] \in Range(s) /\ named[i].transaction_id = ids[i]
  <2>1. ids[i] \in IdsOf(Range(s))
    BY <1>1, <1>3, IdsOfAList DEF Range
  <2>2. \E t \in Range(s) : t.transaction_id = ids[i]
    BY <2>1 DEF IdsOf
  <2>3. named[i] = CHOOSE t \in Range(s) : t.transaction_id = ids[i]
    BY <1>1, <1>3 DEF Named
  <2>4. QED BY <2>2, <2>3
<1> HIDE DEF named, n
<1>4. named \in Seq(Range(s)) /\ Len(named) = n
  <2>1. named = [i \in 1..n |-> named[i]]
    BY <1>1 DEF named, Named
  <2>2. named \in [1..n -> Range(s)]
    BY <1>3, <2>1
  <2>3. QED BY <1>1, <2>2
<1>5. IsInjective(named)
  <2>1. \A i, j \in 1..n : named[i] = named[j] => ids[i] = ids[j]
    BY <1>3
  <2>2. QED BY <1>1, <2>1 DEF IsInjective
<1>6. ASSUME NEW t \in Range(s), t.transaction_id \in Range(ids) PROVE t \in Range(named)
  <2>1. PICK i \in 1..n : ids[i] = t.transaction_id
    BY <1>1, <1>6 DEF Range
  <2>2. named[i] = t
    BY <1>2, <1>3, <2>1
  <2>3. QED BY <1>1, <2>2 DEF Range
<1>7. \A t \in Range(named) : t \in Range(s) /\ t.transaction_id \in Range(ids)
  BY <1>1, <1>3 DEF Range
<1>8. QED BY <1>4, <1>5, <1>6, <1>7 DEF named, n

(* What is selected of a list without repetition is counted and summed as   *)
(* a set.                                                                   *)
LEMMA SelectionIsCounted ==
  ASSUME NEW X, NEW s \in Seq(X), IsInjective(s), \A t \in X : t.amount \in Nat, NEW wanted
  PROVE  /\ Len(Selected(s, wanted)) = Cardinality(Range(s) \cap wanted)
         /\ Total(Selected(s, wanted)) = Volume(Range(s) \cap wanted)
         /\ IsFiniteSet(Range(s) \cap wanted)
<1> DEFINE sel == Selected(s, wanted)
<1>1. sel \in Seq(X) /\ IsInjective(sel) /\ Range(sel) = Range(s) \cap wanted
  BY SelectionShape
<1>2. IsFiniteSet(Range(sel)) /\ Cardinality(Range(sel)) = Len(sel)
  BY <1>1, LengthIsCardinality
<1>3. Total(sel) = Volume(Range(sel))
  BY <1>1, TotalIsVolume
<1>4. QED BY <1>1, <1>2, <1>3
=============================================================================
