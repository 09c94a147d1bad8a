------------------------- MODULE CaseContractsProofs -------------------------
(***************************************************************************)
(* What the rules answer, what the contracts make of it and what the tools  *)
(* tell about it, for every activity, calendar and pair of thresholds.  The *)
(* first part says what the alerts are, in terms of sets; the second proves *)
(* the invariants of the rules, of the cases and of the tools on a case.    *)
(***************************************************************************)
EXTENDS CaseTools, TransactionListsProofs

-----------------------------------------------------------------------------
(* The transactions each rule is about, of a set of them.                   *)
AedOf(A, month) ==
  {t \in A : t.direction = "outbound" /\ IsInEvaluationMonth(t, month) /\ t.currency = "AED"}

NonFamilyOf(A, month) ==
  {t \in A : t.direction = "outbound" /\ IsInEvaluationMonth(t, month) /\ IsNonFamily(t)}

(* The lists of evaluate_transaction_rules are these transactions, once.    *)
LEMMA ListsOfTheRules ==
  ASSUME NEW s \in Seq(Transactions), IsInjective(s), NEW month
  PROVE  /\ MonthlyAedOutbound(s, month) \in Seq(Transactions)
         /\ Range(MonthlyAedOutbound(s, month)) = AedOf(Range(s), month)
         /\ IsInjective(MonthlyAedOutbound(s, month))
         /\ Len(MonthlyAedOutbound(s, month)) <= Len(s)
         /\ NonFamilyOutbound(s, month) \in Seq(Transactions)
         /\ Range(NonFamilyOutbound(s, month)) = NonFamilyOf(Range(s), month)
         /\ IsInjective(NonFamilyOutbound(s, month))
         /\ Len(NonFamilyOutbound(s, month)) <= Len(s)
<1> DEFINE Outgoing == {t \in Transactions : t.direction = "outbound"}
           InTheMonth == {t \in Transactions : IsInEvaluationMonth(t, month)}
           InAed == {t \in Transactions : t.currency = "AED"}
           ToOthers == {t \in Transactions : IsNonFamily(t)}
           out == Outbound(s)
           monthly == MonthlyOutbound(s, month)
           aed == MonthlyAedOutbound(s, month)
           others == NonFamilyOutbound(s, month)
<1>1. /\ out = Selected(s, Outgoing) /\ monthly = Selected(out, InTheMonth)
      /\ aed = Selected(monthly, InAed) /\ others = Selected(monthly, ToOthers)
  BY DEF Outbound, MonthlyOutbound, MonthlyAedOutbound, NonFamilyOutbound
<1>2. Range(s) \subseteq Transactions
  BY DEF Range
<1>3. /\ AedOf(Range(s), month) = ((Range(s) \cap Outgoing) \cap InTheMonth) \cap InAed
      /\ NonFamilyOf(Range(s), month) = ((Range(s) \cap Outgoing) \cap InTheMonth) \cap ToOthers
  BY <1>2 DEF AedOf, NonFamilyOf
<1> HIDE DEF Outgoing, InTheMonth, InAed, ToOthers, out, monthly, aed, others
<1>4. /\ out \in Seq(Transactions) /\ IsInjective(out)
      /\ Range(out) = Range(s) \cap Outgoing /\ Len(out) <= Len(s)
  BY <1>1, SelectionShape
<1>5. /\ monthly \in Seq(Transactions) /\ IsInjective(monthly)
      /\ Range(monthly) = (Range(s) \cap Outgoing) \cap InTheMonth /\ Len(monthly) <= Len(out)
  BY <1>1, <1>4, SelectionShape
<1>6. /\ aed \in Seq(Transactions) /\ IsInjective(aed)
      /\ Range(aed) = Range(monthly) \cap InAed /\ Len(aed) <= Len(monthly)
  BY <1>1, <1>5, SelectionShape
<1>7. /\ others \in Seq(Transactions) /\ IsInjective(others)
      /\ Range(others) = Range(monthly) \cap ToOthers /\ Len(others) <= Len(monthly)
  BY <1>1, <1>5, SelectionShape
<1>8. Len(aed) <= Len(s) /\ Len(others) <= Len(s)
  <2>1. /\ Len(s) \in Nat /\ Len(out) \in Nat /\ Len(monthly) \in Nat
        /\ Len(aed) \in Nat /\ Len(others) \in Nat
    BY <1>4, <1>5, <1>6, <1>7
  <2>2. QED BY ONLY <1>4, <1>5, <1>6, <1>7, <2>1
<1>9. QED BY <1>3, <1>5, <1>6, <1>7, <1>8 DEF aed, others

(* So the metrics count and sum up these sets.                              *)
LEMMA MetricsOfTheRules ==
  ASSUME NEW s \in Seq(Transactions), IsInjective(s), NEW month
  PROVE  /\ Metrics(s, month) = [evaluation_month          |-> month,
                                 outbound_aed_total        |-> Volume(AedOf(Range(s), month)),
                                 non_family_outbound_count |-> Cardinality(NonFamilyOf(Range(s), month))]
         /\ Volume(AedOf(Range(s), month)) \in Nat
         /\ Cardinality(NonFamilyOf(Range(s), month)) \in Nat
<1>1. \A t \in Transactions : t.amount \in Nat
  BY ThresholdAssumption, TransactionAssumption
<1>2. /\ Total(MonthlyAedOutbound(s, month)) = Volume(AedOf(Range(s), month))
      /\ Volume(AedOf(Range(s), month)) \in Nat
  BY <1>1, ListsOfTheRules, TotalIsVolume
<1>3. /\ Len(NonFamilyOutbound(s, month)) = Cardinality(NonFamilyOf(Range(s), month))
      /\ Len(NonFamilyOutbound(s, month)) \in Nat
  BY ListsOfTheRules, LengthIsCardinality
<1>4. QED BY <1>2, <1>3 DEF Metrics

(* What a rule is about, and whether a set of transactions meets it.        *)
Rules == {NON_FAMILY_FREQUENCY_RULE_ID, MONTHLY_AED_VOLUME_RULE_ID}

Subject(rule, A, month) ==
  IF rule = MONTHLY_AED_VOLUME_RULE_ID THEN AedOf(A, month) ELSE NonFamilyOf(A, month)

IsMet(rule, A, month) ==
  IF rule = MONTHLY_AED_VOLUME_RULE_ID THEN Volume(AedOf(A, month)) >= VolumeThreshold
  ELSE Cardinality(NonFamilyOf(A, month)) >= CountThreshold

(* An alert of a list of transactions, as far as the contracts read it.     *)
IsAlertOf(a, rule, s, month) ==
  /\ a.alert_type = "transaction_monitoring" /\ a.customer_id = CustomerId
  /\ a.rule_id = rule /\ a.alert_id = AlertId(month, rule)
  /\ Range(a.related_transaction_ids) = IdsOf(Subject(rule, Range(s), month))
  /\ IsInjective(a.related_transaction_ids)
  /\ a.related_transaction_ids \in Seq(Range(a.related_transaction_ids))
  /\ Len(a.related_transaction_ids) <= Len(s)
  /\ a.metrics = Metrics(s, month)

(* At most one element, and at most another.                                *)
LEMMA ConcatOfOnes ==
  /\ \A x, y : <<x>> \o <<y>> = <<x, y>> /\ <<>> \o <<y>> = <<y>> /\ <<x>> \o <<>> = <<x>>
  /\ <<>> \o <<>> = <<>>
<1>1. ASSUME NEW x, NEW y PROVE <<x>> \o <<y>> = <<x, y>>
  <2> DEFINE l == <<x>> \o <<y>>
             r == <<x, y>>
             X == {x, y}
  <2>1. <<x>> \in Seq(X) /\ <<y>> \in Seq(X) /\ Len(<<x>>) = 1 /\ Len(<<y>>) = 1
    OBVIOUS
  <2>2. /\ l \in Seq(X) /\ Len(l) = 1 + 1
        /\ \A i \in 1..(1 + 1) : l[i] = IF i <= 1 THEN <<x>>[i] ELSE <<y>>[i - 1]
    BY <2>1, ConcatProperties
  <2>3. r \in Seq(X) /\ Len(r) = 2 /\ r[1] = x /\ r[2] = y
    OBVIOUS
  <2>4. l \in Seq(X) /\ Len(l) = 2 /\ l[1] = x /\ l[2] = y
    <3> HIDE DEF l, X
    <3> QED BY <2>2
  <2> HIDE DEF l, r
  <2>5. \A i \in 1..Len(l) : l[i] = r[i]
    BY <2>3, <2>4
  <2>6. l = r
    BY <2>3, <2>4, <2>5, SeqEqual
  <2>7. QED BY <2>6 DEF l, r
<1>2. ASSUME NEW x PROVE <<>> \o <<x>> = <<x>> /\ <<x>> \o <<>> = <<x>> /\ <<>> \o <<>> = <<>>
  <2>1. <<x>> \in Seq({x}) /\ <<>> \in Seq({x})
    OBVIOUS
  <2>2. QED BY <2>1, ConcatEmptySeq
<1>3. QED BY <1>1, <1>2

LEMMA CardinalityOfFew ==
  /\ Cardinality({}) = 0 /\ \A x : Cardinality({x}) = 1
  /\ \A x, y : x # y => Cardinality({x, y}) = 2
<1>1. Cardinality({}) = 0 /\ \A x : IsFiniteSet({x}) /\ Cardinality({x}) = 1
  BY FS_EmptySet, FS_Singleton
<1>2. ASSUME NEW x, NEW y, x # y PROVE Cardinality({x, y}) = 2
  <2>1. {x, y} = {x} \cup {y} /\ y \notin {x} /\ IsFiniteSet({x}) /\ Cardinality({x}) = 1
    BY <1>1, <1>2
  <2>2. Cardinality({x} \cup {y}) = Cardinality({x}) + 1
    BY <2>1, FS_AddElement
  <2>3. Cardinality({x, y}) = 1 + 1
    BY <2>1, <2>2, Zenon
  <2>4. QED BY <2>3
<1>3. QED BY <1>1, <1>2

(* One alert for each rule that is met, and no other.                       *)
AreAlertsOf(alerts, s, month) ==
  LET met == {rule \in Rules : IsMet(rule, Range(s), month)}
  IN  /\ \A i \in DOMAIN alerts :
            alerts[i].rule_id \in met /\ IsAlertOf(alerts[i], alerts[i].rule_id, s, month)
      /\ \A rule \in met : \E i \in DOMAIN alerts : alerts[i].rule_id = rule
      /\ DOMAIN alerts = 1..Cardinality(met) /\ Len(alerts) = Cardinality(met)

(* These are what the evaluation answers.                                   *)
LEMMA AlertsOfTheRules ==
  ASSUME NEW s \in Seq(Transactions), IsInjective(s), NEW month
  PROVE  AreAlertsOf(EvaluateTransactionRules(s, month), s, month)
<1> DEFINE metrics == Metrics(s, month)
           A == Range(s)
           fa == Alert(month, NON_FAMILY_FREQUENCY_RULE_ID, NonFamilyOutbound(s, month), metrics)
           va == Alert(month, MONTHLY_AED_VOLUME_RULE_ID, MonthlyAedOutbound(s, month), metrics)
           met == {rule \in Rules : IsMet(rule, A, month)}
           alerts == EvaluateTransactionRules(s, month)
<1>1. IsAlertOf(fa, NON_FAMILY_FREQUENCY_RULE_ID, s, month)
  <2>1. LET related == Ids(NonFamilyOutbound(s, month))
        IN  /\ Range(related) = IdsOf(NonFamilyOf(A, month)) /\ IsInjective(related)
            /\ Len(related) <= Len(s) /\ related \in Seq(Range(related))
    BY ListsOfTheRules, IdsOfAList, TransactionAssumption
  <2>2. QED BY <2>1 DEF IsAlertOf, Alert, Subject, NON_FAMILY_FREQUENCY_RULE_ID,
                        MONTHLY_AED_VOLUME_RULE_ID
<1>2. IsAlertOf(va, MONTHLY_AED_VOLUME_RULE_ID, s, month)
  <2>1. LET related == Ids(MonthlyAedOutbound(s, month))
        IN  /\ Range(related) = IdsOf(AedOf(A, month)) /\ IsInjective(related)
            /\ Len(related) <= Len(s) /\ related \in Seq(Range(related))
    BY ListsOfTheRules, IdsOfAList, TransactionAssumption
  <2>2. QED BY <2>1 DEF IsAlertOf, Alert, Subject, NON_FAMILY_FREQUENCY_RULE_ID,
                        MONTHLY_AED_VOLUME_RULE_ID
<1>3. /\ FrequencyAlerts(s, month, metrics) =
           IF NON_FAMILY_FREQUENCY_RULE_ID \in met THEN <<fa>> ELSE <<>>
      /\ VolumeAlerts(s, month, metrics) =
           IF MONTHLY_AED_VOLUME_RULE_ID \in met THEN <<va>> ELSE <<>>
      /\ alerts = FrequencyAlerts(s, month, metrics) \o VolumeAlerts(s, month, metrics)
  BY MetricsOfTheRules
  DEF FrequencyAlerts, VolumeAlerts, EvaluateTransactionRules, Reaches, IsMet, Rules,
      NON_FAMILY_FREQUENCY_RULE_ID, MONTHLY_AED_VOLUME_RULE_ID
<1>4. /\ met \subseteq Rules
      /\ NON_FAMILY_FREQUENCY_RULE_ID # MONTHLY_AED_VOLUME_RULE_ID
  BY DEF NON_FAMILY_FREQUENCY_RULE_ID, MONTHLY_AED_VOLUME_RULE_ID
<1>5. fa.rule_id = NON_FAMILY_FREQUENCY_RULE_ID /\ va.rule_id = MONTHLY_AED_VOLUME_RULE_ID
  BY <1>1, <1>2 DEF IsAlertOf
<1> HIDE DEF fa, va, met, alerts, metrics
<1>6. /\ \A x, y : <<x>> \o <<y>> = <<x, y>> /\ <<>> \o <<y>> = <<y>> /\ <<x>> \o <<>> = <<x>>
      /\ <<>> \o <<>> = <<>>
  BY ConcatOfOnes
<1>7. /\ Cardinality({}) = 0 /\ \A x : Cardinality({x}) = 1
      /\ \A x, y : x # y => Cardinality({x, y}) = 2
  BY CardinalityOfFew
<1> DEFINE F == NON_FAMILY_FREQUENCY_RULE_ID
           W == MONTHLY_AED_VOLUME_RULE_ID
           Good == /\ \A i \in DOMAIN alerts : /\ alerts[i].rule_id \in met
                                              /\ IsAlertOf(alerts[i], alerts[i].rule_id, s, month)
                   /\ \A rule \in met : \E i \in DOMAIN alerts : alerts[i].rule_id = rule
                   /\ DOMAIN alerts = 1..Cardinality(met) /\ Len(alerts) = Cardinality(met)
<1>8. /\ F # W /\ met \subseteq {F, W} /\ IsAlertOf(fa, F, s, month) /\ IsAlertOf(va, W, s, month)
      /\ fa.rule_id = F /\ va.rule_id = W
      /\ alerts = (IF F \in met THEN <<fa>> ELSE <<>>) \o (IF W \in met THEN <<va>> ELSE <<>>)
  BY <1>1, <1>2, <1>3, <1>4, <1>5 DEF Rules
<1> SUFFICES Good
  BY Zenon DEF Good, alerts, met, AreAlertsOf
<1> HIDE DEF F, W, Good
<1>9. CASE F \in met /\ W \in met
  <2>1. alerts = <<fa, va>> /\ met = {F, W}
    BY <1>6, <1>8, <1>9
  <2>2. Cardinality(met) = 2
    BY <1>7, <1>8, <2>1
  <2>3. QED BY <1>8, <2>1, <2>2 DEF Good
<1>10. CASE F \in met /\ W \notin met
  <2>1. alerts = <<fa>> /\ met = {F}
    BY <1>6, <1>8, <1>10
  <2>2. Cardinality(met) = 1
    BY <1>7, <2>1
  <2>3. QED BY <1>8, <2>1, <2>2 DEF Good
<1>11. CASE F \notin met /\ W \in met
  <2>1. alerts = <<va>> /\ met = {W}
    BY <1>6, <1>8, <1>11
  <2>2. Cardinality(met) = 1
    BY <1>7, <2>1, Zenon
  <2>3. DOMAIN alerts = 1..1 /\ Len(alerts) = 1 /\ alerts[1] = va /\ \A i \in 1..1 : i = 1
    BY <2>1
  <2>4. IsAlertOf(va, va.rule_id, s, month) /\ va.rule_id \in met /\ \A rule \in met : rule = va.rule_id
    BY <1>8, <2>1, Zenon
  <2>5. /\ \A i \in DOMAIN alerts : /\ alerts[i].rule_id \in met
                                   /\ IsAlertOf(alerts[i], alerts[i].rule_id, s, month)
        /\ \A rule \in met : alerts[1].rule_id = rule
        /\ 1 \in DOMAIN alerts
    BY <2>3, <2>4
  <2>6. DOMAIN alerts = 1..Cardinality(met) /\ Len(alerts) = Cardinality(met)
    BY <2>2, <2>3, Zenon
  <2>7. \A rule \in met : \E i \in DOMAIN alerts : alerts[i].rule_id = rule
    BY <2>5, Zenon
  <2>8. QED BY <2>5, <2>6, <2>7, Zenon DEF Good
<1>12. CASE F \notin met /\ W \notin met
  <2>1. alerts = <<>> /\ met = {}
    BY <1>6, <1>8, <1>12
  <2>2. Cardinality(met) = 0
    BY <1>7, <2>1, Zenon
  <2>3. DOMAIN alerts = 1..0 /\ Len(alerts) = 0 /\ 1..0 = {}
    BY <2>1
  <2>4. DOMAIN alerts = 1..Cardinality(met) /\ Len(alerts) = Cardinality(met)
    BY <2>2, <2>3, Zenon
  <2>5. DOMAIN alerts = {} /\ met = {}
    BY <2>1, <2>3, Zenon
  <2>6. QED BY <2>4, <2>5, Zenon DEF Good
<1>13. QED BY <1>9, <1>10, <1>11, <1>12, Zenon

-----------------------------------------------------------------------------
(* Division by a positive number.                                           *)
LEMMA Quotient ==
  ASSUME NEW a \in Int, NEW d \in Nat \ {0}
  PROVE  /\ a \div d \in Int /\ a % d \in 0..(d - 1) /\ a = d * (a \div d) + (a % d)
  OBVIOUS

(* There is no other quotient and remainder.                                *)
LEMMA QuotientIsUnique ==
  ASSUME NEW d \in Nat \ {0}
  PROVE  \A p, q \in Int : \A r, s \in 0..(d - 1) : d * p + r = d * q + s => p = q /\ r = s
<1> SUFFICES ASSUME NEW p \in Int, NEW q \in Int, NEW r \in 0..(d - 1), NEW s \in 0..(d - 1),
                    d * p + r = d * q + s
             PROVE  p = q /\ r = s
  OBVIOUS
<1>1. d * (p - q) = s - r
  OBVIOUS
<1>2. ASSUME p - q >= 1 PROVE FALSE
  <2>1. d * (p - q) >= d
    BY <1>2
  <2>2. QED BY <1>1, <2>1
<1>3. ASSUME q - p >= 1 PROVE FALSE
  <2>1. d * (q - p) >= d
    BY <1>3
  <2>2. d * (q - p) = r - s
    BY <1>1
  <2>3. QED BY <2>1, <2>2
<1>4. p = q
  BY <1>2, <1>3
<1>5. QED BY <1>4

(* An hour has a month's year and month iff it lies in the month's interval. *)
LEMMA CalendarIsIntervals ==
  ASSUME NEW h \in Int, NEW H \in Nat \ {0}, NEW M \in Nat \ {0}, NEW y \in Nat, NEW m \in 0..(M - 1)
  PROVE  (h \div (H * M) = y /\ (h \div H) % M = m)
           <=> h \in ((y * M + m) * H)..((y * M + m) * H + H - 1)
<1> DEFINE q == h \div H
           c == h % H
           k == y * M + m
<1>1. q \in Int /\ c \in 0..(H - 1) /\ h = H * q + c
  BY Quotient
<1>2. q \div M \in Int /\ q % M \in 0..(M - 1) /\ q = M * (q \div M) + (q % M)
  <2> HIDE DEF q
  <2> QED BY <1>1, Quotient
<1>3. k \in Int
  OBVIOUS
<1>4. h \in (k * H)..(k * H + H - 1) <=> q = k
  <2> HIDE DEF q, k, c
  <2>1. ASSUME h \in (k * H)..(k * H + H - 1) PROVE q = k
    <3>1. h - k * H \in 0..(H - 1) /\ h = H * k + (h - k * H)
      BY <1>3, <2>1
    <3>2. QED BY <1>1, <1>3, <3>1, QuotientIsUnique
  <2>2. ASSUME q = k PROVE h \in (k * H)..(k * H + H - 1)
    <3>1. h = k * H + c
      BY <1>1, <1>3, <2>2
    <3>2. k * H \in Int
      BY <1>3
    <3>3. QED BY <1>1, <3>1, <3>2
  <2>3. QED BY <2>1, <2>2
<1>5. h \div (H * M) = q \div M
  <2> HIDE DEF q, c
  <2> DEFINE D == H * M
             e == H * (q % M) + c
  <2>1. D \in Nat \ {0}
    OBVIOUS
  <2>2. h = D * (q \div M) + e
    <3>1. H * q = H * (M * (q \div M) + (q % M))
      BY <1>2
    <3>2. \A x, z \in Int : H * (M * x + z) = (H * M) * x + H * z
      OBVIOUS
    <3>3. H * q = D * (q \div M) + H * (q % M)
      BY <1>2, <3>1, <3>2
    <3>4. D * (q \div M) \in Int /\ H * (q % M) \in Int /\ H * q \in Int
      BY <1>1, <1>2, <2>1
    <3>5. \A a, b, x, z \in Int : a = b + x => a + z = b + (x + z)
      OBVIOUS
    <3>6. H * q + c = D * (q \div M) + (H * (q % M) + c) /\ c \in Int
      <4>1. c \in Int
        BY <1>1
      <4> HIDE DEF D
      <4>2. QED BY ONLY <3>3, <3>4, <3>5, <4>1
    <3>7. QED BY <1>1, <3>6
  <2>3. e \in 0..(D - 1)
    <3>1. \A x \in 0..(M - 1) : H * x <= H * (M - 1) /\ H * x >= 0
      <4>1. \A x \in 0..(M - 1) : H * (M - 1) = H * x + H * (M - 1 - x)
        OBVIOUS
      <4>2. \A x \in Nat : H * x >= 0 /\ H * x \in Int
        OBVIOUS
      <4>3. \A x \in 0..(M - 1) : x \in Nat /\ M - 1 - x \in Nat
        OBVIOUS
      <4>4. QED BY <4>1, <4>2, <4>3
    <3>5. H * (q % M) <= H * (M - 1) /\ H * (q % M) >= 0
      BY <1>2, <3>1
    <3>2. H * (M - 1) = H * M - H
      OBVIOUS
    <3>3. H * (q % M) \in Int /\ H * M \in Int
      BY <1>2
    <3>4. QED BY <1>1, <3>2, <3>3, <3>5
  <2>4. h \div D \in Int /\ h % D \in 0..(D - 1) /\ h = D * (h \div D) + (h % D)
    <3> HIDE DEF D
    <3> QED BY <2>1, Quotient
  <2>5. QED
    <3> HIDE DEF e
    <3>1. h \div D = q \div M
      <4> HIDE DEF D
      <4>1. D * (h \div D) + (h % D) = D * (q \div M) + e
        BY <2>2, <2>4, Zenon
      <4>2. \A a, b \in Int : \A r, s \in 0..(D - 1) : D * a + r = D * b + s => a = b
        BY <2>1, QuotientIsUnique
      <4>3. QED BY <1>2, <2>3, <2>4, <4>1, <4>2, Zenon
    <3>2. QED BY <3>1
<1>6. q = k <=> (q \div M = y /\ q % M = m)
  <2> HIDE DEF q, c
  <2>1. ASSUME q = k PROVE q \div M = y /\ q % M = m
    <3>1. M * (q \div M) + (q % M) = M * y + m
      <4>1. M * y = y * M /\ y \in Int /\ m \in 0..(M - 1)
        OBVIOUS
      <4>2. QED BY <1>2, <2>1, <4>1
    <3>2. \A a, b \in Int : \A r, s \in 0..(M - 1) : M * a + r = M * b + s => a = b /\ r = s
      BY QuotientIsUnique
    <3>3. y \in Int
      OBVIOUS
    <3>4. q \div M \in Int /\ q % M \in 0..(M - 1) /\ m \in 0..(M - 1)
      BY <1>2
    <3>5. QED BY ONLY <3>1, <3>2, <3>3, <3>4, Zenon
  <2>2. ASSUME q \div M = y, q % M = m PROVE q = k
    BY <1>2, <2>2
  <2>3. QED BY <2>1, <2>2
<1>7. QED
  <2> HIDE DEF q
  <2>1. (h \div (H * M) = y /\ q % M = m) <=> h \in (k * H)..(k * H + H - 1)
    <3> HIDE DEF k
    <3> QED BY <1>4, <1>5, <1>6
  <2>2. QED BY <2>1 DEF q

-----------------------------------------------------------------------------
(* An order of a finite set lists every element once.                       *)
LEMMA OrdersOfASet ==
  ASSUME NEW S \in SUBSET Transactions, IsFiniteSet(S), NEW s \in SetToSeqs(S)
  PROVE  /\ s \in Seq(Transactions) /\ IsInjective(s) /\ IsInjective(Ids(s))
         /\ Range(s) = S /\ Len(s) = Cardinality(S) /\ Cardinality(S) \in Nat
<1> DEFINE n == Cardinality(S)
<1>1. n \in Nat
  BY FS_CardinalityType
<1>2. s \in [1..n -> S] /\ \A i, j \in 1..n : i # j => s[i] # s[j]
  BY DEF SetToSeqs
<1> HIDE DEF n
<1>3. s \in Seq(Transactions) /\ Len(s) = n /\ DOMAIN s = 1..n
  BY <1>1, <1>2
<1>4. IsInjective(s)
  BY <1>2, <1>3 DEF IsInjective
<1>5. s \in Injection(1..n, S)
  BY <1>2, <1>4 DEF Injection
<1>6. Cardinality(1..n) = n
  <2>1. Cardinality(1..n) = IF 1 > n THEN 0 ELSE n - 1 + 1
    BY <1>1, FS_Interval
  <2>2. \A k \in Nat : (IF 1 > k THEN 0 ELSE k - 1 + 1) = k
    OBVIOUS
  <2>3. QED BY <1>1, <2>1, <2>2
<1>7. s \in Surjection(1..n, S)
  BY <1>5, <1>6, FS_Injection DEF n
<1>8. Range(s) = S
  BY <1>2, <1>3, <1>7 DEF Surjection, Range
<1>9. QED BY <1>1, <1>3, <1>4, <1>8, IdsOfAList, TransactionAssumption DEF n

(* A request that is valid is an order of the activity: the list with its   *)
(* first transaction sent twice is refused.                                 *)
LEMMA ValidRequestsAreOrders ==
  ASSUME activity \in SUBSET Transactions, IsFiniteSet(activity),
         NEW s \in RequestLists, IsValidRequest(s)
  PROVE  s \in SetToSeqs(activity)
<1> SUFFICES ASSUME NEW o \in SetToSeqs(activity) \ {<<>>}, s = Append(o, Head(o)) PROVE FALSE
  BY DEF RequestLists
<1>1. o \in Seq(Transactions)
  BY OrdersOfASet
<1>2. /\ Len(o) \in Nat \ {0} /\ s \in Seq(Transactions) /\ Len(s) = Len(o) + 1
      /\ s[1] = o[1] /\ s[Len(o) + 1] = o[1]
  BY <1>1
<1>3. 1 \in 1..Len(s) /\ Len(o) + 1 \in 1..Len(s) /\ Len(o) + 1 # 1
  BY <1>2
<1>4. DOMAIN Ids(s) = 1..Len(s) /\ Ids(s)[1] = Ids(s)[Len(o) + 1]
  BY <1>2, <1>3 DEF Ids
<1>5. QED BY <1>3, <1>4 DEF IsValidRequest, IsInjective

(* More activity: a rule that was met stays met, about no fewer transactions. *)
LEMMA RulesStayMet ==
  ASSUME NEW B \in SUBSET Transactions, IsFiniteSet(B), NEW A \in SUBSET B, NEW rule, NEW month
  PROVE  /\ IsMet(rule, A, month) => IsMet(rule, B, month)
         /\ IdsOf(Subject(rule, A, month)) \subseteq IdsOf(Subject(rule, B, month))
<1>1. /\ AedOf(A, month) \in SUBSET AedOf(B, month) /\ AedOf(B, month) \in SUBSET B
      /\ NonFamilyOf(A, month) \in SUBSET NonFamilyOf(B, month)
      /\ NonFamilyOf(B, month) \in SUBSET B
  BY DEF AedOf, NonFamilyOf
<1>2. /\ IsFiniteSet(NonFamilyOf(B, month)) /\ IsFiniteSet(AedOf(B, month))
  BY <1>1, FS_Subset
<1>3. /\ Cardinality(NonFamilyOf(A, month)) <= Cardinality(NonFamilyOf(B, month))
      /\ Cardinality(NonFamilyOf(A, month)) \in Nat /\ Cardinality(NonFamilyOf(B, month)) \in Nat
  BY <1>1, <1>2, FS_Subset, FS_CardinalityType
<1>4. IsFiniteSet(Units(AedOf(B, month)))
  <2>1. \A t \in AedOf(B, month) : t.amount \in Nat
    BY <1>1, ThresholdAssumption, TransactionAssumption
  <2>2. QED BY <1>2, <2>1, UnitsAreFinite
<1>5. /\ Volume(AedOf(A, month)) <= Volume(AedOf(B, month))
      /\ Volume(AedOf(A, month)) \in Nat /\ Volume(AedOf(B, month)) \in Nat
  BY <1>1, <1>4, VolumeGrows
<1>6. VolumeThreshold \in Nat /\ CountThreshold \in Nat
  BY ThresholdAssumption
<1>7. IsMet(rule, A, month) => IsMet(rule, B, month)
  BY <1>3, <1>5, <1>6 DEF IsMet
<1>8. IdsOf(Subject(rule, A, month)) \subseteq IdsOf(Subject(rule, B, month))
  BY <1>1 DEF IdsOf, Subject
<1>9. QED BY <1>7, <1>8

-----------------------------------------------------------------------------
(* What was recorded.                                                       *)
ActivityIsRecorded == activity \in SUBSET Transactions /\ IsFiniteSet(activity)

(* An answer was computed from the activity that there is, in some order.   *)
AnswerIsOfActivity ==
  /\ answer.status \in {"none", "invalid_request", "internal_error", "evaluated"}
  /\ answer.status = "evaluated" =>
       /\ answer.month \in EvaluationMonths
       /\ \E s \in SetToSeqs(activity) :
            /\ IsValidRequest(s) /\ MetricsAreValid(Metrics(s, answer.month))
            /\ answer.alerts = EvaluateTransactionRules(s, answer.month)

(* What an alert says of some activity.                                     *)
IsRaisedOf(r, rule, A) ==
  /\ r.month \in EvaluationMonths /\ r.alert_id = AlertId(r.month, rule)
  /\ r.related = IdsOf(Subject(rule, A, r.month)) /\ IsMet(rule, A, r.month)

(* An alert received is of activity that there still is.                    *)
RaisedWasMet == \A r \in raised : \E rule \in Rules, A \in SUBSET activity : IsRaisedOf(r, rule, A)

RulesInv == ActivityIsRecorded /\ AnswerIsOfActivity /\ RaisedWasMet

(* An order of the activity, evaluated.                                     *)
LEMMA EvaluationOfActivity ==
  ASSUME ActivityIsRecorded, NEW s \in SetToSeqs(activity), NEW month
  PROVE  Range(s) = activity /\ AreAlertsOf(EvaluateTransactionRules(s, month), s, month)
<1>1. s \in Seq(Transactions) /\ IsInjective(s) /\ Range(s) = activity
  BY OrdersOfASet DEF ActivityIsRecorded
<1>2. QED BY <1>1, AlertsOfTheRules

(* The invariant is inductive.                                              *)
LEMMA RulesInvInit == RulesInit => RulesInv
  BY FS_EmptySet DEF RulesInit, RulesInv, ActivityIsRecorded, AnswerIsOfActivity, RaisedWasMet, NoReply

LEMMA RulesInvNext == RulesInv /\ [RulesNext]_rulesVars => RulesInv'
<1> SUFFICES ASSUME RulesInv, [RulesNext]_rulesVars PROVE RulesInv'
  OBVIOUS
<1> USE DEF RulesInv
<1>1. ASSUME NEW t \in Transactions, RecordTransaction(t) PROVE RulesInv'
  <2>1. activity' = activity \cup {t} /\ answer' = NoReply /\ raised' = raised
    BY <1>1 DEF RecordTransaction
  <2>2. ActivityIsRecorded'
    BY <2>1, FS_AddElement DEF ActivityIsRecorded
  <2>3. AnswerIsOfActivity'
    BY <2>1 DEF AnswerIsOfActivity, NoReply
  <2>4. RaisedWasMet'
    <3>1. SUBSET activity \subseteq SUBSET (activity')
      BY <2>1
    <3>2. QED BY <2>1, <3>1 DEF RaisedWasMet, IsRaisedOf
  <2>5. QED BY <2>2, <2>3, <2>4
<1>2. ASSUME NEW s \in RequestLists, NEW month \in EvaluationMonths,
             RefuseRequest(s, month) \/ FailEvaluation(s, month)
      PROVE  RulesInv'
  <2>1. /\ activity' = activity /\ raised' = raised
        /\ answer'.status \in {"invalid_request", "internal_error"}
    BY <1>2 DEF RefuseRequest, FailEvaluation, Reply
  <2>2. QED BY <2>1 DEF ActivityIsRecorded, AnswerIsOfActivity, RaisedWasMet, IsRaisedOf
<1>3. ASSUME NEW s \in RequestLists, NEW month \in EvaluationMonths, AnswerEvaluation(s, month)
      PROVE  RulesInv'
  <2> DEFINE alerts == EvaluateTransactionRules(s, month)
             new == {[month |-> month, alert_id |-> a.alert_id,
                      related |-> Range(a.related_transaction_ids)] : a \in Range(alerts)}
  <2>1. /\ activity' = activity /\ IsValidRequest(s) /\ MetricsAreValid(Metrics(s, month))
        /\ answer' = Reply("evaluated", month, alerts) /\ raised' = raised \cup new
    BY <1>3 DEF AnswerEvaluation
  <2>2. s \in SetToSeqs(activity)
    BY <2>1, ValidRequestsAreOrders DEF ActivityIsRecorded
  <2> HIDE DEF alerts
  <2>3. ActivityIsRecorded'
    BY <2>1 DEF ActivityIsRecorded
  <2>4. AnswerIsOfActivity'
    <3>1. answer'.status = "evaluated" /\ answer'.month = month /\ answer'.alerts = alerts
      BY <2>1 DEF Reply
    <3>2. QED BY <2>1, <2>2, <3>1 DEF AnswerIsOfActivity, alerts
  <2>5. RaisedWasMet'
    <3>1. ASSUME NEW i \in DOMAIN alerts
          PROVE  \E rule \in Rules :
                   IsRaisedOf([month |-> month, alert_id |-> alerts[i].alert_id,
                               related |-> Range(alerts[i].related_transaction_ids)],
                              rule, activity)
      <4>1. /\ alerts[i].rule_id \in Rules /\ IsMet(alerts[i].rule_id, activity, month)
            /\ IsAlertOf(alerts[i], alerts[i].rule_id, s, month)
        BY <2>2, <3>1, EvaluationOfActivity DEF alerts, AreAlertsOf
      <4>2. Range(s) = activity
        BY <2>2, EvaluationOfActivity
      <4>3. QED BY <4>1, <4>2 DEF IsRaisedOf, IsAlertOf
    <3>2. \A r \in new : \E rule \in Rules, A \in SUBSET activity : IsRaisedOf(r, rule, A)
      BY <3>1 DEF Range
    <3> HIDE DEF new
    <3>3. QED BY <2>1, <3>2 DEF RaisedWasMet, IsRaisedOf
  <2>6. QED BY <2>3, <2>4, <2>5
<1>4. CASE UNCHANGED rulesVars
  BY <1>4 DEF rulesVars, ActivityIsRecorded, AnswerIsOfActivity, RaisedWasMet, IsRaisedOf
<1>5. QED BY <1>1, <1>2, <1>3, <1>4 DEF RulesNext, EvaluateActivity

(* A metric that was handed out is a sum that fits.                         *)
LEMMA RulesInvImpliesTypeOK == RulesInv => RulesTypeOK
<1> SUFFICES ASSUME RulesInv PROVE RulesTypeOK
  OBVIOUS
<1>1. /\ activity \subseteq Transactions
      /\ answer.status \in {"none", "invalid_request", "internal_error", "evaluated"}
  BY DEF RulesInv, ActivityIsRecorded, AnswerIsOfActivity
<1>2. ASSUME answer.status = "evaluated", NEW i \in DOMAIN answer.alerts
      PROVE  answer.alerts[i].metrics.outbound_aed_total \in 0..MaxTotal
  <2> DEFINE alerts == answer.alerts
             month == answer.month
  <2>1. PICK s \in SetToSeqs(activity) :
          MetricsAreValid(Metrics(s, month)) /\ alerts = EvaluateTransactionRules(s, month)
    BY <1>2 DEF RulesInv, AnswerIsOfActivity
  <2>2. i \in DOMAIN alerts
    BY <1>2
  <2> HIDE DEF alerts, month
  <2>3. alerts[i].metrics = Metrics(s, month)
    BY <2>1, <2>2, EvaluationOfActivity DEF RulesInv, AreAlertsOf, IsAlertOf
  <2>4. Metrics(s, month).outbound_aed_total \in Nat
    BY OrdersOfASet, MetricsOfTheRules DEF RulesInv, ActivityIsRecorded
  <2>5. MaxTotal \in Nat /\ Metrics(s, month).outbound_aed_total <= MaxTotal
    BY <2>1, ThresholdAssumption DEF MetricsAreValid
  <2>6. alerts[i].metrics.outbound_aed_total \in 0..MaxTotal
    BY <2>3, <2>4, <2>5
  <2>7. QED BY <2>6 DEF alerts
<1>3. QED BY <1>1, <1>2 DEF RulesTypeOK

(* It holds in every state of the rules.                                    *)
THEOREM RulesInvariant == RulesSpec => []RulesInv
BY RulesInvInit, RulesInvNext, PTL DEF RulesSpec

(* The state has its shape, and every metric handed out fits the contract.  *)
THEOREM RulesTypeCorrect == RulesSpec => []RulesTypeOK
<1>1. RulesInv => RulesTypeOK
  BY RulesInvImpliesTypeOK
<1>2. QED BY <1>1, RulesInvariant, PTL

(* No transaction ever backs alerts of two months.                          *)
LEMMA MonthsShareNothing == RulesInv => MonthsAreDisjoint
<1> SUFFICES ASSUME RulesInv, NEW r \in raised, NEW s \in raised, r.month # s.month,
                    NEW id \in r.related \cap s.related
             PROVE  FALSE
  BY DEF MonthsAreDisjoint
<1>1. PICK rule1 \in Rules, A \in SUBSET activity : IsRaisedOf(r, rule1, A)
  BY DEF RulesInv, RaisedWasMet
<1>2. PICK rule2 \in Rules, B \in SUBSET activity : IsRaisedOf(s, rule2, B)
  BY DEF RulesInv, RaisedWasMet
<1>3. PICK t \in A : t.transaction_id = id /\ IsInEvaluationMonth(t, r.month)
  BY <1>1 DEF IsRaisedOf, IdsOf, Subject, AedOf, NonFamilyOf
<1>4. PICK u \in B : u.transaction_id = id /\ IsInEvaluationMonth(u, s.month)
  BY <1>2 DEF IsRaisedOf, IdsOf, Subject, AedOf, NonFamilyOf
<1>5. t \in Transactions /\ u \in Transactions
  BY DEF RulesInv, ActivityIsRecorded
<1>6. t = u
  BY <1>3, <1>4, <1>5, TransactionAssumption
<1>7. r.month.year = s.month.year /\ r.month.month = s.month.month
  BY <1>3, <1>4, <1>6 DEF IsInEvaluationMonth
<1>8. /\ r.month \in [year : Nat, month : 0..(MonthsPerYear - 1)]
      /\ s.month \in [year : Nat, month : 0..(MonthsPerYear - 1)]
  BY <1>1, <1>2, MonthAssumption DEF IsRaisedOf
<1>9. QED BY <1>7, <1>8

(* As activity grows, an alert that was raised is raised again.             *)
LEMMA AlertsAreMetAgain == RulesInv => AlertsPersist
<1> SUFFICES ASSUME RulesInv, answer.status = "evaluated",
                    NEW r \in raised, r.month = answer.month
             PROVE  \E a \in Range(answer.alerts) :
                      a.alert_id = r.alert_id /\ r.related \subseteq Range(a.related_transaction_ids)
  BY DEF AlertsPersist
<1> DEFINE alerts == answer.alerts
           month == answer.month
<1>1. PICK s \in SetToSeqs(activity) : alerts = EvaluateTransactionRules(s, month)
  BY DEF RulesInv, AnswerIsOfActivity
<1>2. PICK rule \in Rules, A \in SUBSET activity : IsRaisedOf(r, rule, A)
  BY DEF RulesInv, RaisedWasMet
<1> HIDE DEF alerts, month
<1>3. Range(s) = activity /\ AreAlertsOf(alerts, s, month)
  BY <1>1, EvaluationOfActivity DEF RulesInv
<1>4. r.month = month /\ r.alert_id = AlertId(month, rule)
      /\ r.related = IdsOf(Subject(rule, A, month)) /\ IsMet(rule, A, month)
  BY <1>2 DEF IsRaisedOf, month
<1>5. /\ IsMet(rule, activity, month)
      /\ IdsOf(Subject(rule, A, month)) \subseteq IdsOf(Subject(rule, activity, month))
  BY <1>4, RulesStayMet DEF RulesInv, ActivityIsRecorded
<1>6. PICK i \in DOMAIN alerts : alerts[i].rule_id = rule
  BY <1>3, <1>5 DEF AreAlertsOf
<1>7. IsAlertOf(alerts[i], rule, s, month)
  BY <1>3, <1>6 DEF AreAlertsOf
<1>8. /\ alerts[i].alert_id = r.alert_id
      /\ r.related \subseteq Range(alerts[i].related_transaction_ids)
  BY <1>3, <1>4, <1>5, <1>7 DEF IsAlertOf
<1>9. QED BY <1>8 DEF Range, alerts

(* A transaction is in a month iff its instant lies in the month's interval. *)
LEMMA MonthIsInterval ==
  ASSUME NEW t \in Transactions, NEW month \in EvaluationMonths
  PROVE  IsInEvaluationMonth(t, month)
           <=> t.occurred_at.local - t.occurred_at.offset
                 \in MonthStart(month)..(MonthStart(month) + HoursPerMonth - 1)
<1> DEFINE h == t.occurred_at.local - t.occurred_at.offset
<1>1. h \in Int
  BY TransactionAssumption
<1>2. month.year \in Nat /\ month.month \in 0..(MonthsPerYear - 1)
  BY MonthAssumption
<1>3. HoursPerMonth \in Nat \ {0} /\ MonthsPerYear \in Nat \ {0}
  BY CalendarAssumption
<1>4. IsInEvaluationMonth(t, month)
        <=> (/\ h \div (HoursPerMonth * MonthsPerYear) = month.year
             /\ (h \div HoursPerMonth) % MonthsPerYear = month.month)
  BY DEF IsInEvaluationMonth, YearOf, MonthOf, UtcHour
<1> HIDE DEF h
<1>5. (/\ h \div (HoursPerMonth * MonthsPerYear) = month.year
       /\ (h \div HoursPerMonth) % MonthsPerYear = month.month)
        <=> h \in MonthStart(month)..(MonthStart(month) + HoursPerMonth - 1)
  BY <1>1, <1>2, <1>3, CalendarIsIntervals DEF MonthStart
<1>6. QED BY <1>4, <1>5 DEF h

(* So the rules are about the transactions of the month's interval.         *)
LEMMA SubjectsAreInTheMonth ==
  ASSUME ActivityIsRecorded, NEW month \in EvaluationMonths
  PROVE  /\ AedOf(activity, month) = {t \in InMonth(month) : t.currency = "AED"}
         /\ NonFamilyOf(activity, month) =
              {t \in InMonth(month) : ~(\/ t.recipient_relationship \in {"self", "immediate_family"}
                                        \/ t.transfer_purpose = "family_support")}
<1>1. \A t \in activity : t.direction = "outbound" /\ IsInEvaluationMonth(t, month)
                            <=> t \in InMonth(month)
  BY MonthIsInterval DEF ActivityIsRecorded, InMonth
<1>2. InMonth(month) \subseteq activity
  BY DEF InMonth
<1>3. QED BY <1>1, <1>2 DEF AedOf, NonFamilyOf, IsNonFamily

(* The verdict is exact: there is an alert of each rule that the            *)
(* transactions of the month meet, and it names them, counted once.         *)
LEMMA VerdictIsExact == RulesInv => ExactVerdict
<1> SUFFICES ASSUME RulesInv, answer.status = "evaluated" PROVE ExactVerdict
  BY DEF ExactVerdict
<1> DEFINE month == answer.month
           alerts == answer.alerts
           aed == {t \in InMonth(month) : t.currency = "AED"}
           nonFamily == {t \in InMonth(month) :
                           ~(\/ t.recipient_relationship \in {"self", "immediate_family"}
                             \/ t.transfer_purpose = "family_support")}
           volume == MapThenSumSet(LAMBDA t : t.amount, aed)
           met == {rule \in Rules : IsMet(rule, activity, month)}
           due == (IF Cardinality(nonFamily) >= CountThreshold
                   THEN {NON_FAMILY_FREQUENCY_RULE_ID} ELSE {})
                  \cup (IF volume >= VolumeThreshold THEN {MONTHLY_AED_VOLUME_RULE_ID} ELSE {})
           expected ==
             [rule \in due |-> {t.transaction_id :
                                  t \in IF rule = MONTHLY_AED_VOLUME_RULE_ID THEN aed ELSE nonFamily}]
<1>1. PICK s \in SetToSeqs(activity) : alerts = EvaluateTransactionRules(s, month)
  BY DEF RulesInv, AnswerIsOfActivity
<1>2. month \in EvaluationMonths /\ ActivityIsRecorded
  BY DEF RulesInv, AnswerIsOfActivity
<1> HIDE DEF alerts, month
<1>3. Range(s) = activity /\ AreAlertsOf(alerts, s, month)
  BY <1>1, <1>2, EvaluationOfActivity
<1>4. aed = AedOf(activity, month) /\ nonFamily = NonFamilyOf(activity, month)
  BY <1>2, SubjectsAreInTheMonth
<1>5. volume = Volume(AedOf(activity, month))
  <2>1. IsFiniteSet(aed) /\ \A t \in aed : t.amount \in Nat
    <3>1. aed \in SUBSET activity
      BY <1>4 DEF AedOf
    <3> HIDE DEF aed
    <3>2. QED BY <1>2, <3>1, FS_Subset, ThresholdAssumption, TransactionAssumption
              DEF ActivityIsRecorded
  <2> HIDE DEF aed
  <2>2. QED BY <1>4, <2>1, SumIsVolume
<1> HIDE DEF aed, nonFamily, volume
<1>6. due = met
  BY <1>4, <1>5 DEF IsMet, Rules, NON_FAMILY_FREQUENCY_RULE_ID, MONTHLY_AED_VOLUME_RULE_ID
<1>7. \A rule \in due : expected[rule] = IdsOf(Subject(rule, activity, month))
  BY <1>4 DEF IdsOf, Subject
<1>8. DOMAIN expected = due
  OBVIOUS
<1> HIDE DEF due, met, expected
<1>9. /\ \A i \in DOMAIN alerts : alerts[i].rule_id \in due
                                  /\ IsAlertOf(alerts[i], alerts[i].rule_id, s, month)
      /\ \A rule \in due : \E i \in DOMAIN alerts : alerts[i].rule_id = rule
      /\ Len(alerts) = Cardinality(due)
  BY <1>3, <1>6 DEF AreAlertsOf, met
<1>10. {a.rule_id : a \in Range(alerts)} = due
  BY <1>9 DEF Range
<1>11. ASSUME NEW a \in Range(alerts)
       PROVE  /\ Range(a.related_transaction_ids) = expected[a.rule_id]
              /\ IsInjective(a.related_transaction_ids)
              /\ a.metrics.outbound_aed_total = volume
              /\ a.metrics.non_family_outbound_count = Cardinality(nonFamily)
  <2>1. a.rule_id \in due /\ IsAlertOf(a, a.rule_id, s, month)
    BY <1>9, <1>11 DEF Range
  <2>2. s \in Seq(Transactions) /\ IsInjective(s)
    BY <1>2, OrdersOfASet DEF ActivityIsRecorded
  <2>3. /\ Metrics(s, month).outbound_aed_total = volume
        /\ Metrics(s, month).non_family_outbound_count = Cardinality(nonFamily)
    BY <1>3, <1>4, <1>5, <2>2, MetricsOfTheRules
  <2>4. QED BY <1>3, <1>7, <2>1, <2>3 DEF IsAlertOf
<1>12. QED
  <2>1. /\ {a.rule_id : a \in Range(alerts)} = DOMAIN expected
        /\ Len(alerts) = Cardinality(DOMAIN expected)
    BY <1>8, <1>9, <1>10
  <2>2. QED BY <1>11, <2>1, Zenon
            DEF ExactVerdict, alerts, month, aed, nonFamily, volume, due, expected

(* Verdicts are exact, of whatever activity in whatever order.              *)
THEOREM VerdictsAreExact == RulesSpec => []ExactVerdict
BY VerdictIsExact, RulesInvariant, PTL

(* An alert that was raised is raised again as activity grows.              *)
THEOREM RaisedAlertsPersist == RulesSpec => []AlertsPersist
BY AlertsAreMetAgain, RulesInvariant, PTL

(* Alerts of two months share no transaction.                               *)
THEOREM MonthsNeverShare == RulesSpec => []MonthsAreDisjoint
BY MonthsShareNothing, RulesInvariant, PTL

-----------------------------------------------------------------------------
(* The transactions an alert was raised for, all outbound: their ids are    *)
(* what it names, and their sum or their number is the metric of its rule.  *)
IsBackedBy(alert, S) ==
  /\ Range(alert.related_transaction_ids) = IdsOf(S)
  /\ \A t \in S : t.direction = "outbound"
  /\ IF alert.rule_id = MONTHLY_AED_VOLUME_RULE_ID
     THEN (\A t \in S : t.currency = "AED") /\ alert.metrics.outbound_aed_total = Volume(S)
     ELSE alert.metrics.non_family_outbound_count = Cardinality(S)

(* What a case and the tools need of an alert of the rules.                 *)
IsCaseAlert(alert) ==
  /\ alert.alert_type = "transaction_monitoring" /\ alert.customer_id = CustomerId
  /\ Len(alert.related_transaction_ids) \in 1..MaxTransactions
  /\ Range(alert.related_transaction_ids) # {}
  /\ alert.related_transaction_ids \in Seq(Range(alert.related_transaction_ids))
  /\ IsInjective(alert.related_transaction_ids)
  /\ \E S \in SUBSET activity : IsBackedBy(alert, S)
  /\ alert.metrics.outbound_aed_total \in 0..MaxTotal

KeptIsCaseAlert == kept # None => IsCaseAlert(kept)

(* A case is judged when it is posted, and nothing happens before the next. *)
PostedIsJudged ==
  IF posted = NoCase THEN verdict = "none"
  ELSE /\ posted.case_type \in CaseTypes /\ answer = NoReply
       /\ posted.customer \in Customers /\ posted.transactions \in Seq(Transactions)
       /\ verdict = IF CaseIsValid(posted) THEN "valid" ELSE "validation_error"
       /\ IsMonitoring(posted) => posted.alert = kept /\ kept # None

CaseInv == RulesInv /\ KeptIsCaseAlert /\ PostedIsJudged

(* An alert that the rules answer is one a case can be about: a threshold   *)
(* is met by some transaction at least.                                     *)
LEMMA AnsweredAlertsSuitCases ==
  ASSUME RulesInv, answer.status = "evaluated", NEW alert \in Range(answer.alerts)
  PROVE  IsCaseAlert(alert)
<1> DEFINE alerts == answer.alerts
           month == answer.month
           related == alert.related_transaction_ids
<1>1. PICK s \in SetToSeqs(activity) :
        /\ IsValidRequest(s) /\ MetricsAreValid(Metrics(s, month))
        /\ alerts = EvaluateTransactionRules(s, month)
  BY DEF RulesInv, AnswerIsOfActivity
<1>2. PICK i \in DOMAIN alerts : alert = alerts[i]
  BY DEF Range
<1>3. Range(s) = activity /\ AreAlertsOf(alerts, s, month)
  BY <1>1, EvaluationOfActivity DEF RulesInv
<1> HIDE DEF alerts, month
<1>4. /\ alert.rule_id \in Rules /\ IsMet(alert.rule_id, activity, month)
      /\ IsAlertOf(alert, alert.rule_id, s, month)
  BY <1>2, <1>3 DEF AreAlertsOf
<1>5. Subject(alert.rule_id, activity, month) # {}
  <2>1. VolumeThreshold > 0 /\ CountThreshold > 0 /\ VolumeThreshold \in Nat /\ CountThreshold \in Nat
    BY ThresholdAssumption
  <2>2. Volume({}) = 0 /\ Cardinality({}) = 0
    BY NoUnits, FS_EmptySet
  <2>3. QED BY <1>4, <2>1, <2>2 DEF IsMet, Subject
<1>6. Subject(alert.rule_id, activity, month) \subseteq activity
  BY DEF Subject, AedOf, NonFamilyOf
<1>7. Range(related) # {}
  BY <1>3, <1>4, <1>5, <1>6 DEF IsAlertOf, IdsOf
<1>8. Len(related) \in 1..MaxTransactions
  <2>1. Len(related) \in Nat /\ Len(related) <= Len(s) /\ DOMAIN related = 1..Len(related)
    <3>1. related \in Seq(Range(related)) /\ Len(related) <= Len(s)
      BY <1>4 DEF IsAlertOf
    <3> HIDE DEF related
    <3>2. QED BY <3>1
  <2>2. Len(s) \in Nat /\ Len(s) <= MaxTransactions /\ MaxTransactions \in Nat
    BY <1>1, ThresholdAssumption DEF IsValidRequest
  <2>3. Len(related) # 0
    <3>1. ASSUME Len(related) = 0 PROVE DOMAIN related = {}
      BY <2>1, <3>1
    <3>2. QED BY <1>7, <3>1 DEF Range
  <2> HIDE DEF related
  <2>4. QED BY <2>1, <2>2, <2>3
<1>9. alert.metrics.outbound_aed_total \in 0..MaxTotal
  BY <1>2, RulesInvImpliesTypeOK DEF RulesTypeOK, alerts
<1>10. IsBackedBy(alert, Subject(alert.rule_id, activity, month))
  <2>1. s \in Seq(Transactions) /\ IsInjective(s)
    BY <1>1, OrdersOfASet DEF RulesInv, ActivityIsRecorded
  <2>2. /\ alert.metrics.outbound_aed_total = Volume(AedOf(activity, month))
        /\ alert.metrics.non_family_outbound_count = Cardinality(NonFamilyOf(activity, month))
    BY <1>3, <1>4, <2>1, MetricsOfTheRules DEF IsAlertOf
  <2>3. QED BY <1>3, <1>4, <2>2 DEF IsBackedBy, IsAlertOf, Subject, AedOf, NonFamilyOf
<1>11. QED BY <1>4, <1>6, <1>7, <1>8, <1>9, <1>10 DEF IsCaseAlert, IsAlertOf

(* More activity: still an alert a case can be about.                       *)
LEMMA CaseAlertsPersist ==
  ASSUME NEW alert, IsCaseAlert(alert), activity \subseteq activity'
  PROVE  IsCaseAlert(alert)'
<1>1. \A S \in SUBSET activity : S \in SUBSET activity' /\ IsBackedBy(alert, S)' = IsBackedBy(alert, S)
  BY DEF IsBackedBy
<1>2. QED BY <1>1 DEF IsCaseAlert

(* An alert names transactions that were recorded.                          *)
LEMMA NamedIdsAreRecorded ==
  ASSUME NEW alert, IsCaseAlert(alert)
  PROVE  Range(alert.related_transaction_ids) \subseteq IdsOf(activity)
BY DEF IsCaseAlert, IsBackedBy, IdsOf

(* What a client posts are transactions.                                    *)
LEMMA CaseListsAreLists ==
  ASSUME ActivityIsRecorded, NEW s \in CaseLists
  PROVE  s \in Seq(Transactions)
<1>1. \A o \in SetToSeqs(activity) : o \in Seq(Transactions)
  BY OrdersOfASet DEF ActivityIsRecorded
<1>2. ASSUME NEW o \in Seq(Transactions), o # <<>>
      PROVE  Append(o, Head(o)) \in Seq(Transactions) /\ Tail(o) \in Seq(Transactions)
  BY <1>2
<1>3. QED BY <1>1, <1>2 DEF CaseLists, RequestLists

(* The invariant is inductive.                                              *)
LEMMA CaseInvInit == CaseInit => CaseInv
BY RulesInvInit DEF CaseInit, CaseInv, KeptIsCaseAlert, PostedIsJudged

LEMMA CaseInvNext == CaseInv /\ [CaseNext]_caseVars => CaseInv'
<1> SUFFICES ASSUME CaseInv, [CaseNext]_caseVars PROVE CaseInv'
  OBVIOUS
<1>1. CASE RulesStep
  <2>1. RulesInv'
    BY <1>1, RulesInvNext DEF CaseInv, RulesStep
  <2>2. activity \subseteq activity'
    BY <1>1 DEF RulesStep, RulesNext, RecordTransaction, EvaluateActivity, RefuseRequest,
                FailEvaluation, AnswerEvaluation
  <2>3. KeptIsCaseAlert'
    BY <1>1, <2>2, CaseAlertsPersist DEF CaseInv, KeptIsCaseAlert, RulesStep
  <2>4. PostedIsJudged'
    BY <1>1 DEF RulesStep, PostedIsJudged, NoCase
  <2>5. QED BY <2>1, <2>3, <2>4 DEF CaseInv
<1>2. CASE KeepAlert
  <2>1. /\ activity' = activity /\ raised' = raised /\ answer' = NoReply
        /\ posted' = posted /\ verdict' = verdict
    BY <1>2 DEF KeepAlert
  <2>2. PICK alert \in Range(answer.alerts) : kept' = alert
    BY <1>2 DEF KeepAlert
  <2>3. RulesInv'
    BY <2>1 DEF CaseInv, RulesInv, ActivityIsRecorded, AnswerIsOfActivity, RaisedWasMet,
                IsRaisedOf, NoReply
  <2>4. IsCaseAlert(alert)
    BY <1>2, <2>2, AnsweredAlertsSuitCases DEF CaseInv, KeepAlert
  <2>5. KeptIsCaseAlert'
    BY <2>1, <2>2, <2>4, CaseAlertsPersist DEF KeptIsCaseAlert
  <2>6. posted = NoCase
    <3>1. answer # NoReply
      BY <1>2 DEF KeepAlert, NoReply
    <3>2. QED BY <3>1 DEF CaseInv, PostedIsJudged
  <2>7. PostedIsJudged'
    BY <2>1, <2>6 DEF CaseInv, PostedIsJudged
  <2>8. QED BY <2>3, <2>5, <2>7 DEF CaseInv
<1>3. CASE PostSomeCase
  <2>1. PICK alert \in ReviewAlerts \cup ({kept} \ {None}), case_type \in CaseTypes,
             customer \in Customers, transactions \in CaseLists :
          PostCase([case_type |-> case_type, alert |-> alert, customer |-> customer,
                    transactions |-> transactions])
    BY <1>3 DEF PostSomeCase
  <2> DEFINE case == [case_type |-> case_type, alert |-> alert, customer |-> customer,
                      transactions |-> transactions]
  <2>2. /\ posted' = case /\ kept' = kept /\ UNCHANGED rulesVars
        /\ verdict' = IF CaseIsValid(case) THEN "valid" ELSE "validation_error"
    BY <2>1 DEF PostCase
  <2>3. answer = NoReply
    BY <1>3 DEF PostSomeCase
  <2>4. /\ case.case_type \in CaseTypes /\ case # NoCase /\ case.customer \in Customers
        /\ case.transactions = transactions
        /\ IsMonitoring(case) => case.alert = kept /\ kept # None
    BY ReviewAssumption DEF CaseTypes, InvestigationCase, NoCase, IsMonitoring
  <2> HIDE DEF case
  <2>5. case.transactions \in Seq(Transactions)
    BY <2>4, CaseListsAreLists DEF CaseInv, RulesInv
  <2>6. RulesInv'
    BY <2>2, RulesInvNext DEF CaseInv
  <2>7. KeptIsCaseAlert'
    BY <2>2, CaseAlertsPersist DEF CaseInv, KeptIsCaseAlert, rulesVars
  <2>8. CaseIsValid(posted') <=> CaseIsValid(case)
    BY <2>2
  <2>9. PostedIsJudged'
    BY <2>2, <2>3, <2>4, <2>8, <2>5 DEF PostedIsJudged, rulesVars, IsMonitoring
  <2>10. QED BY <2>6, <2>7, <2>9 DEF CaseInv
<1>4. CASE UNCHANGED caseVars
  <2>1. /\ UNCHANGED rulesVars /\ activity' = activity /\ answer' = answer
        /\ kept' = kept /\ posted' = posted /\ verdict' = verdict
    BY <1>4 DEF caseVars, rulesVars
  <2>2. RulesInv'
    BY <2>1, RulesInvNext DEF CaseInv
  <2>3. KeptIsCaseAlert'
    BY <2>1, CaseAlertsPersist DEF CaseInv, KeptIsCaseAlert
  <2>4. PostedIsJudged'
    BY <2>1 DEF CaseInv, PostedIsJudged
  <2>5. QED BY <2>2, <2>3, <2>4 DEF CaseInv
<1>5. QED BY <1>1, <1>2, <1>3, <1>4 DEF CaseNext

(* It holds in every state of the rules and the cases.                      *)
THEOREM CaseInvariant == CaseSpec => []CaseInv
BY CaseInvInit, CaseInvNext, PTL DEF CaseSpec

(* A client that keeps alerts and posts cases between its evaluations finds *)
(* each promise of the rules as it was.                                     *)
THEOREM CasesKeepTheRulesPromises ==
  CaseSpec => [](ExactVerdict /\ AlertsPersist /\ MonthsAreDisjoint)
<1>1. CaseInv => RulesInv
  BY DEF CaseInv
<1>2. QED BY <1>1, VerdictIsExact, AlertsAreMetAgain, MonthsShareNothing, CaseInvariant, PTL

(* The state has its shape, and a kept alert is about recorded activity.    *)
THEOREM CaseTypeCorrect == CaseSpec => []CaseTypeOK
<1>1. CaseInv => CaseTypeOK
  <2> SUFFICES ASSUME CaseInv PROVE CaseTypeOK
    OBVIOUS
  <2>1. RulesTypeOK
    BY RulesInvImpliesTypeOK DEF CaseInv
  <2>2. kept # None =>
          /\ Range(kept.related_transaction_ids) \subseteq {t.transaction_id : t \in activity}
          /\ kept.metrics.outbound_aed_total \in 0..MaxTotal
    BY NamedIdsAreRecorded DEF CaseInv, KeptIsCaseAlert, IsCaseAlert, IdsOf
  <2>3. (posted = NoCase) <=> (verdict = "none")
    BY DEF CaseInv, PostedIsJudged
  <2>4. posted # NoCase => posted.case_type \in CaseTypes /\ answer = NoReply
    BY DEF CaseInv, PostedIsJudged
  <2>5. QED BY <2>1, <2>2, <2>3, <2>4 DEF CaseTypeOK
<1>2. QED BY <1>1, CaseInvariant, PTL

(* Every alert of the rules opens a case, at once or after more activity.   *)
THEOREM RaisedAlertsOpenCases == CaseSpec => []RaisedAlertOpensCase
<1>1. CaseInv => RaisedAlertOpensCase
  <2> SUFFICES ASSUME CaseInv, posted # NoCase, IsFollowUp(posted) PROVE verdict = "valid"
    BY DEF RaisedAlertOpensCase
  <2> DEFINE alert == posted.alert
             transactions == posted.transactions
  <2>1. posted.case_type = "transaction_monitoring" /\ posted.customer.customer_id = CustomerId
        /\ CustomerProfileIsValid(posted.customer) /\ transactions \in SetToSeqs(activity)
        /\ Len(transactions) <= MaxTransactions /\ IsMonitoring(posted)
    BY DEF IsFollowUp
  <2>2. IsCaseAlert(alert)
    BY <2>1 DEF CaseInv, PostedIsJudged, KeptIsCaseAlert
  <2>3. /\ transactions \in Seq(Transactions) /\ IsInjective(Ids(transactions))
        /\ Range(transactions) = activity /\ Range(Ids(transactions)) = IdsOf(activity)
    <3>1. /\ transactions \in Seq(Transactions) /\ IsInjective(Ids(transactions))
          /\ Range(transactions) = activity
      BY <2>1, OrdersOfASet DEF CaseInv, RulesInv, ActivityIsRecorded
    <3>2. QED BY <3>1, IdsOfAList
  <2>4. transactions # <<>>
    <3>1. IdsOf(activity) # {}
      BY <2>2, NamedIdsAreRecorded DEF IsCaseAlert
    <3>2. activity # {}
      BY <3>1 DEF IdsOf
    <3>3. QED BY <2>3, <3>2 DEF Range
  <2>5. BaseCaseIsValid(posted)
    BY <2>1, <2>3 DEF BaseCaseIsValid
  <2>6. AlertMatchesCustomer(posted)
    BY <2>1, <2>2 DEF AlertMatchesCustomer, IsCaseAlert
  <2>7. AlertMatchesCaseData(posted)
    BY <2>2, <2>3, <2>4, NamedIdsAreRecorded DEF AlertMatchesCaseData, IsCaseAlert
  <2>8. InvestigationCase[posted.case_type] = posted.alert.alert_type
    BY <2>1, <2>2 DEF InvestigationCase, IsCaseAlert
  <2>9. CaseIsValid(posted)
    BY <2>1, <2>5, <2>6, <2>7, <2>8 DEF CaseIsValid
  <2>10. QED BY <2>9 DEF CaseInv, PostedIsJudged
<1>2. QED BY <1>1, CaseInvariant, PTL

-----------------------------------------------------------------------------
(* The tools on a case have the lists and sums of the rules.                *)
LEMMA ToolsHaveTheLists ==
  /\ \A s : Tools!Ids(s) = Ids(s) /\ Tools!Range(s) = Range(s) /\ Tools!Total(s) = Total(s)
            /\ (Tools!IsInjective(s) <=> IsInjective(s))
  /\ \A s, x : Tools!Named(s, x) = Named(s, x) /\ Tools!Selected(s, x) = Selected(s, x)
<1>1. \A s : Tools!Ids(s) = Ids(s)
  BY DEF Tools!Ids, Ids
<1>2. \A s : Tools!Range(s) = Range(s)
  BY DEF Tools!Range, Range
<1>3. \A s : Tools!IsInjective(s) <=> IsInjective(s)
  BY DEF Tools!IsInjective, IsInjective
<1>4. \A s : Tools!Total(s) = Total(s)
  BY DEF Tools!Total, Total
<1>5. \A s, x : Tools!Named(s, x) = Named(s, x)
  BY <1>2 DEF Tools!Named, Named
<1>6. \A s, x : Tools!Selected(s, x) = Selected(s, x)
  BY DEF Tools!Selected, Selected
<1>7. QED BY <1>1, <1>2, <1>3, <1>4, <1>5, <1>6

(* A customer id that the case has is looked up.                            *)
LEMMA LookupCompletes ==
  ASSUME NEW customer_id \in Texts, posted.customer.customer_id = customer_id
  PROVE  Lookup(customer_id).status = "completed"
<1> DEFINE arguments == [customer_id |-> Json(customer_id)]
           call == [call_id |-> "c1", name |-> "lookup_customer_risk", arguments |-> arguments]
<1>1. Json(customer_id) # None /\ Tools!Strip(Json(customer_id)) = customer_id
  BY JsonAssumption DEF Json, Tools!Strip
<1>2. Tools!LookupCustomerRiskInput(arguments)
  BY <1>1 DEF Tools!LookupCustomerRiskInput, Tools!IsIdentifier
<1>3. Tools!Strip(arguments["customer_id"]) = posted.customer.customer_id
  BY <1>1
<1>4. call.arguments = arguments /\ call.name = "lookup_customer_risk"
  OBVIOUS
<1>5. Lookup(customer_id) = Tools!FirstOutcome(call)
  BY DEF Lookup
<1> HIDE DEF arguments, call
<1>6. Tools!FirstOutcome(call) = Tools!LookupCustomerRisk(call)
  BY <1>4 DEF Tools!FirstOutcome, Tools!RunTool, Tools!TOOL_REGISTRY, Tools!LOOKUP_CUSTOMER_RISK
<1>7. Tools!LookupCustomerRisk(call).status = "completed"
  BY <1>2, <1>3, <1>4 DEF Tools!LookupCustomerRisk, Tools!CompletedOutcome
<1>8. QED BY <1>5, <1>6, <1>7

(* A list of ids that the case has, each once, is summarised.               *)
LEMMA SummaryCompletes ==
  ASSUME NEW ids, ids \in Seq(Texts), Len(ids) <= MaxTransactions, IsInjective(ids),
         Range(ids) \subseteq Range(Ids(posted.transactions))
  PROVE  LET asked    == IF ids = <<>> THEN Ids(posted.transactions) ELSE ids
             named    == Named(posted.transactions, asked)
             outgoing == Selected(named, {t \in Range(named) : t.direction = "outbound"})
         IN  /\ Summary(ids).status = "completed"
             /\ Summary(ids).output.transaction_count = Len(named)
             /\ Summary(ids).output.outbound_count = Len(outgoing)
             /\ Summary(ids).output.inbound_count = Len(named) - Len(outgoing)
             /\ Summary(ids).output.totals_by_currency =
                  [c \in {t.currency : t \in Range(named)} |->
                     Total(Selected(named, {t \in Range(named) : t.currency = c}))]
<1> DEFINE texts == [i \in DOMAIN ids |-> Json(ids[i])]
           arguments == [transaction_ids |-> texts]
           call == [call_id |-> "c1", name |-> "summarize_transactions", arguments |-> arguments]
           asked == IF ids = <<>> THEN Ids(posted.transactions) ELSE ids
<1>1. /\ Len(ids) \in Nat /\ DOMAIN ids = 1..Len(ids) /\ DOMAIN texts = 1..Len(ids)
      /\ Len(texts) = Len(ids) /\ \A i \in 1..Len(ids) : ids[i] \in Texts
  OBVIOUS
<1>2. \A i \in 1..Len(ids) : /\ texts[i] = Json(ids[i]) /\ texts[i] # None
                             /\ Tools!Strip(texts[i]) = ids[i]
  BY <1>1, JsonAssumption DEF Json, Tools!Strip
<1>3. texts # None
  <2> DEFINE strings == {Json(text) : text \in Texts}
  <2>1. texts \in [1..Len(ids) -> strings] /\ Len(ids) \in 0..MaxTransactions
    BY <1>1, ThresholdAssumption
  <2> HIDE DEF texts, strings
  <2>2. texts \in BoundedSeq(strings, MaxTransactions)
    BY <2>1 DEF BoundedSeq, SeqOf
  <2>3. QED BY <2>2, JsonAssumption DEF strings
<1>4. DOMAIN arguments = {"transaction_ids"} /\ arguments["transaction_ids"] = texts
  OBVIOUS
<1>5. call.arguments = arguments /\ call.name = "summarize_transactions"
  OBVIOUS
<1>6. Summary(ids) = Tools!FirstOutcome(call)
  BY DEF Summary
<1> HIDE DEF texts, arguments, call
<1>7. Tools!RequestedIds(arguments) = ids
  <2>1. ids = [i \in 1..Len(ids) |-> ids[i]]
    BY <1>1
  <2>2. QED BY <1>1, <1>2, <1>4, <2>1 DEF Tools!RequestedIds
<1>8. Tools!SummarizeTransactionsInput(arguments)
  <2>1. \A i \in DOMAIN texts : Tools!IsIdentifier(texts[i])
    BY <1>1, <1>2 DEF Tools!IsIdentifier
  <2>2. QED BY <1>1, <1>3, <1>4, <1>7, <2>1, ToolsHaveTheLists DEF Tools!SummarizeTransactionsInput
<1>9. Tools!SelectedIds(ids) = asked /\ Tools!UnknownIds(asked) = {}
  BY ToolsHaveTheLists DEF Tools!SelectedIds, Tools!UnknownIds, Tools!TransactionIds
<1> HIDE DEF asked
<1>10. Tools!FirstOutcome(call) = Tools!SummarizeTransactions(call)
  BY <1>5 DEF Tools!FirstOutcome, Tools!RunTool, Tools!TOOL_REGISTRY, Tools!LOOKUP_CUSTOMER_RISK,
              Tools!SUMMARIZE_TRANSACTIONS
<1>11. Tools!SummarizeTransactions(call) =
         Tools!CompletedOutcome(call, Tools!TransactionSummary(asked))
  BY <1>5, <1>7, <1>8, <1>9, Zenon DEF Tools!SummarizeTransactions
<1>12. /\ Summary(ids).status = "completed"
       /\ Summary(ids).output = Tools!TransactionSummary(asked)
  BY <1>6, <1>10, <1>11 DEF Tools!CompletedOutcome
<1> DEFINE named == Named(posted.transactions, asked)
           outgoing == Selected(named, {t \in Range(named) : t.direction = "outbound"})
<1>13. Tools!TransactionSummary(asked) =
         [transaction_count  |-> Len(named),
          outbound_count     |-> Len(outgoing),
          inbound_count      |-> Len(named) - Len(outgoing),
          totals_by_currency |-> [c \in {t.currency : t \in Range(named)} |->
                                    Total(Selected(named, {t \in Range(named) : t.currency = c}))],
          transaction_ids    |-> asked]
  BY ToolsHaveTheLists DEF Tools!TransactionSummary, Tools!CurrencyTotal
<1> HIDE DEF named, outgoing
<1>14. /\ Summary(ids).output.transaction_count = Len(named)
       /\ Summary(ids).output.outbound_count = Len(outgoing)
       /\ Summary(ids).output.inbound_count = Len(named) - Len(outgoing)
       /\ Summary(ids).output.totals_by_currency =
            [c \in {t.currency : t \in Range(named)} |->
               Total(Selected(named, {t \in Range(named) : t.currency = c}))]
  BY <1>12, <1>13
<1>15. QED BY <1>12, <1>14, Zenon DEF asked, named, outgoing

(* What a valid case gives the tools.                                       *)
LEMMA ValidCase ==
  ASSUME CaseInv, verdict = "valid"
  PROVE  /\ posted # NoCase /\ posted.customer \in Customers /\ CaseIsValid(posted)
         /\ posted.alert.customer_id = posted.customer.customer_id
         /\ posted.transactions \in Seq(Transactions) /\ IsInjective(Ids(posted.transactions))
         /\ Ids(posted.transactions) \in Seq(Range(Ids(posted.transactions)))
         /\ Len(Ids(posted.transactions)) = Len(posted.transactions)
         /\ Range(Ids(posted.transactions)) = IdsOf(Range(posted.transactions))
<1>1. posted # NoCase /\ posted.customer \in Customers /\ CaseIsValid(posted)
      /\ posted.transactions \in Seq(Transactions)
  BY DEF CaseInv, PostedIsJudged
<1>2. posted.alert.customer_id = posted.customer.customer_id /\ IsInjective(Ids(posted.transactions))
  BY <1>1 DEF CaseIsValid, BaseCaseIsValid, AlertMatchesCustomer
<1>3. QED BY <1>1, <1>2, IdsOfAList

(* The tools can work on every case that was accepted: for every set of     *)
(* customers, review alerts and transactions.                               *)
THEOREM AcceptedCasesAreInvestigable == CaseSpec => []EveryCaseIsInvestigable
<1>1. CaseInv => EveryCaseIsInvestigable
  <2> SUFFICES ASSUME CaseInv, verdict = "valid"
               PROVE  /\ Lookup(posted.alert.customer_id).status = "completed"
                      /\ Summary(<<>>).status = "completed"
                      /\ Summary(<<>>).output.transaction_count = Len(posted.transactions)
    BY DEF EveryCaseIsInvestigable
  <2> DEFINE transactions == posted.transactions
             ids == Ids(transactions)
  <2>1. Lookup(posted.alert.customer_id).status = "completed"
    <3>1. posted.alert.customer_id \in Texts
      BY ValidCase DEF Texts
    <3>2. QED BY <3>1, ValidCase, LookupCompletes
  <2>2. /\ Summary(<<>>).status = "completed"
        /\ Summary(<<>>).output.transaction_count = Len(Named(transactions, ids))
    <3>1. /\ <<>> \in Seq(Texts) /\ Len(<<>>) <= MaxTransactions /\ IsInjective(<<>>)
          /\ Range(<<>>) \subseteq Range(ids)
      BY ThresholdAssumption DEF IsInjective, Range
    <3> HIDE DEF ids
    <3>2. QED BY <3>1, SummaryCompletes DEF ids
  <2>3. Len(Named(transactions, ids)) = Len(transactions)
    <3>1. Len(Named(transactions, ids)) = Len(ids)
      BY ValidCase, NamedShape
    <3>2. QED BY <3>1, ValidCase
  <2>4. QED BY <2>1, <2>2, <2>3
<1>2. QED BY <1>1, CaseInvariant, PTL

(* The tools reach the figures of the rules: on every accepted monitoring   *)
(* case, whatever activity was added to it since the alert.                 *)
THEOREM ToolsReachTheMetrics == CaseSpec => []ToolsAgreeWithAlert
<1>1. CaseInv => ToolsAgreeWithAlert
  <2> SUFFICES ASSUME CaseInv, verdict = "valid", IsMonitoring(posted)
               PROVE  LET alert   == posted.alert
                          outcome == Summary(alert.related_transaction_ids)
                      IN  /\ outcome.status = "completed"
                          /\ outcome.output.inbound_count = 0
                          /\ IF alert.rule_id = MONTHLY_AED_VOLUME_RULE_ID
                             THEN outcome.output.totals_by_currency
                                    = [AED |-> alert.metrics.outbound_aed_total]
                             ELSE outcome.output.outbound_count
                                    = alert.metrics.non_family_outbound_count
    BY DEF ToolsAgreeWithAlert
  <2> DEFINE alert == posted.alert
             related == alert.related_transaction_ids
             transactions == posted.transactions
             named == Named(transactions, related)
             outgoing == Selected(named, {t \in Range(named) : t.direction = "outbound"})
             output == Summary(related).output
  <2>1. IsCaseAlert(alert)
    BY ValidCase DEF CaseInv, PostedIsJudged, KeptIsCaseAlert
  <2>2. /\ related \in Seq(Range(related)) /\ IsInjective(related) /\ Len(related) <= MaxTransactions
        /\ related # <<>> /\ Range(related) # {}
    BY <2>1, ThresholdAssumption DEF IsCaseAlert
  <2>3. PICK S \in SUBSET activity : IsBackedBy(alert, S)
    BY <2>1 DEF IsCaseAlert
  <2>4. S \subseteq Transactions /\ Range(related) = IdsOf(S)
    BY <2>3 DEF IsBackedBy, CaseInv, RulesInv, ActivityIsRecorded
  <2>5. Range(related) \subseteq Range(Ids(transactions))
    <3>1. InvestigationCase[posted.case_type] = "transaction_monitoring"
      BY ValidCase DEF CaseIsValid, IsMonitoring
    <3>2. posted.case_type = "transaction_monitoring"
      BY <3>1 DEF InvestigationCase, CaseInv, PostedIsJudged, CaseTypes
    <3>3. QED BY <3>2, ValidCase DEF CaseIsValid, AlertMatchesCaseData
  <2>6. related \in Seq(Texts)
    <3>1. Range(related) \subseteq Texts
      BY <2>4 DEF IdsOf, Texts
    <3> HIDE DEF related
    <3>2. QED BY <2>2, <3>1 DEF Range
  <2>7. /\ transactions \in Seq(Transactions) /\ IsInjective(Ids(transactions))
        /\ transactions \in Seq(Range(transactions))
    <3>1. transactions \in Seq(Transactions) /\ IsInjective(Ids(transactions))
      BY ValidCase
    <3> HIDE DEF transactions
    <3>2. QED BY <3>1 DEF Range
  <2> HIDE DEF alert, related, transactions
  <2>8. /\ Summary(related).status = "completed"
        /\ output.outbound_count = Len(outgoing)
        /\ output.inbound_count = Len(named) - Len(outgoing)
        /\ output.totals_by_currency =
             [c \in {t.currency : t \in Range(named)} |->
                Total(Selected(named, {t \in Range(named) : t.currency = c}))]
    BY <2>2, <2>5, <2>6, SummaryCompletes DEF transactions
  <2>9. /\ named \in Seq(Transactions) /\ IsInjective(named) /\ Range(named) = S
    <3>1. /\ named \in Seq(Range(transactions)) /\ IsInjective(named)
          /\ Range(named) = {t \in Range(transactions) : t.transaction_id \in Range(related)}
      BY <2>2, <2>5, <2>7, NamedShape
    <3>2. Range(transactions) \subseteq Transactions
      BY <2>7 DEF Range
    <3>3. \A t \in Range(transactions) : t.transaction_id \in IdsOf(S) => t \in S
      BY <2>4, <3>2, TransactionAssumption DEF IdsOf
    <3>4. \A t \in S : t \in Range(transactions) /\ t.transaction_id \in IdsOf(S)
      <4>1. Range(Ids(transactions)) = IdsOf(Range(transactions))
        BY <2>7, IdsOfAList
      <4>2. \A t \in S : \E u \in Range(transactions) : u.transaction_id = t.transaction_id
        BY <2>4, <2>5, <4>1 DEF IdsOf
      <4>3. QED BY <2>4, <3>2, <4>2, TransactionAssumption DEF IdsOf
    <3>5. Range(named) = S
      BY <2>4, <3>1, <3>3, <3>4
    <3>6. QED BY <3>1, <3>2, <3>5
  <2> HIDE DEF named, outgoing, output
  <2>10. Len(named) = Cardinality(S) /\ Len(named) \in Nat
    BY <2>9, LengthIsCardinality
  <2>11. \A t \in Transactions : t.amount \in Nat
    BY ThresholdAssumption, TransactionAssumption
  <2>12. Len(outgoing) = Cardinality(S)
    <3>1. {t \in Range(named) : t.direction = "outbound"} = S /\ S \cap S = S
      BY <2>3, <2>9 DEF IsBackedBy
    <3>2. QED BY <2>9, <2>11, <3>1, SelectionIsCounted DEF outgoing
  <2>13. output.inbound_count = 0
    BY <2>8, <2>10, <2>12
  <2>14. CASE alert.rule_id = MONTHLY_AED_VOLUME_RULE_ID
    <3>1. /\ \A t \in S : t.currency = "AED"
          /\ alert.metrics.outbound_aed_total = Volume(S)
      BY <2>3, <2>14 DEF IsBackedBy
    <3>2. {t.currency : t \in Range(named)} = {"AED"} /\ {t \in Range(named) : t.currency = "AED"} = S
      BY <2>2, <2>4, <2>9, <3>1 DEF IdsOf
    <3>3. Total(Selected(named, S)) = Volume(S)
      <4>1. S \cap S = S
        OBVIOUS
      <4>2. QED BY <2>9, <2>11, <4>1, SelectionIsCounted
    <3>4. output.totals_by_currency = [c \in {"AED"} |-> alert.metrics.outbound_aed_total]
      <4>1. output.totals_by_currency =
              [c \in {"AED"} |-> Total(Selected(named, {t \in Range(named) : t.currency = c}))]
        BY <2>8, <3>2, Zenon
      <4>2. \A c \in {"AED"} : Total(Selected(named, {t \in Range(named) : t.currency = c}))
                                 = alert.metrics.outbound_aed_total
        BY <3>1, <3>2, <3>3, Zenon
      <4>3. QED BY <4>1, <4>2, Zenon
    <3>5. output.totals_by_currency = [AED |-> alert.metrics.outbound_aed_total]
      BY <3>4
    <3>6. QED BY <2>8, <2>13, <2>14, <3>5 DEF output, related, alert
  <2>15. CASE alert.rule_id # MONTHLY_AED_VOLUME_RULE_ID
    <3>1. output.outbound_count = alert.metrics.non_family_outbound_count
      BY <2>3, <2>8, <2>12, <2>15 DEF IsBackedBy
    <3>2. QED BY <2>8, <2>13, <2>15, <3>1 DEF output, related, alert
  <2>16. QED BY <2>14, <2>15
<1>2. QED BY <1>1, CaseInvariant, PTL
=============================================================================
