---------------------------- MODULE ReadingProofs ----------------------------
(***************************************************************************)
(* Theorems about the reading of prices (PriceReading), of titles          *)
(* (ProductReading) and of screens (ScreenTree).                           *)
(***************************************************************************)
EXTENDS PriceReading, ProductReading, ScreenTree, FiniteSetTheorems, SequenceTheorems,
        WellFoundedInduction, TLAPS

-----------------------------------------------------------------------------
(* Numbers, finite sets of them, and functions computed step by step.      *)

\* A set of natural numbers has a least element.
LEMMA LeastNumber ==
    ASSUME NEW T, T \subseteq Nat, T # {}
    PROVE  \E x \in T : \A y \in T : x <= y
<1>1. PICK x \in T : \A y \in T : ~(<<y, x>> \in OpToRel(<, Nat))
  BY NatLessThanWellFounded, WFMin
<1>2. \A y \in T : ~(y < x)
  BY <1>1 DEF OpToRel
<1>. QED
  BY <1>2

\* What holds of 0 and of the successor of each number it holds of, up to n,
\* holds up to n.
LEMMA UpTo ==
    ASSUME NEW n \in Nat, NEW S, 0 \in S, \A k \in 0..(n - 1) : k \in S => k + 1 \in S
    PROVE  \A k \in 0..n : k \in S
<1>. DEFINE Bad == {k \in 0..n : k \notin S}
<1>1. SUFFICES ASSUME Bad # {} PROVE FALSE
  OBVIOUS
<1>2. PICK k \in Bad : \A j \in Bad : k <= j
  <2>1. Bad \subseteq Nat
    OBVIOUS
  <2>. HIDE DEF Bad
  <2>. QED
    BY <1>1, <2>1, LeastNumber
<1>3. k \in 1..n /\ k \notin S
  BY <1>2
<1>4. k - 1 \in 0..(n - 1) /\ k - 1 \notin Bad
  <2>. HIDE DEF Bad
  <2>1. k - 1 \in 0..(n - 1) /\ ~(k <= k - 1)
    BY <1>3
  <2>. QED
    BY <1>2, <2>1
<1>5. k - 1 \in S
  BY <1>4
<1>6. (k - 1) + 1 \in S
  BY <1>4, <1>5
<1>. QED
  BY <1>3, <1>6

Steps(n, V) == [(1..n) \X V -> V]

Computes(f, n, V, first, onward) ==
    /\ f \in [0..n -> V] /\ f[0] = first
    /\ \A k \in 1..n : f[k] = onward[<<k, f[k - 1]>>]

\* A sequence of values, each computed from the one before, exists.
LEMMA StepByStep ==
    ASSUME NEW n \in Nat, NEW V, NEW first \in V, NEW onward \in Steps(n, V)
    PROVE  \E f : Computes(f, n, V, first, onward)
<1>. USE DEF Steps
<1>. DEFINE Is(f, m) == /\ f \in [0..m -> V] /\ f[0] = first
                        /\ \A k \in 1..m : f[k] = onward[<<k, f[k - 1]>>]
            S == {m \in 0..n : \E f : Is(f, m)}
<1>1. 0 \in S
  <2>. DEFINE f == [k \in 0..0 |-> first]
  <2>1. f \in [0..0 -> V] /\ f[0] = first /\ \A k \in 1..0 : FALSE
    OBVIOUS
  <2>2. Is(f, 0) /\ 0 \in 0..n
    BY <2>1
  <2>. QED
    BY <2>2
<1>2. ASSUME NEW m \in 0..(n - 1), m \in S PROVE m + 1 \in S
  <2>1. PICK f : Is(f, m)
    BY <1>2
  <2>. DEFINE g == [k \in 0..(m + 1) |-> IF k = m + 1 THEN onward[<<m + 1, f[m]>>] ELSE f[k]]
  <2>2. onward[<<m + 1, f[m]>>] \in V
    <3>1. m + 1 \in 1..n /\ m \in 0..m /\ f[m] \in V
      BY <2>1
    <3>. QED
      BY <3>1
  <2>3. g \in [0..(m + 1) -> V] /\ g[0] = first
    BY <2>1, <2>2
  <2>4. ASSUME NEW k \in 1..(m + 1) PROVE g[k] = onward[<<k, g[k - 1]>>]
    <3>1. g[k - 1] = f[k - 1]
      OBVIOUS
    <3>2. CASE k = m + 1
      <4>1. g[k] = onward[<<m + 1, f[m]>>] /\ k - 1 = m
        BY <3>2
      <4>. QED
        BY <3>1, <3>2, <4>1
    <3>3. CASE k # m + 1
      <4>1. k \in 1..m
        BY <3>3
      <4>. QED
        BY <2>1, <3>1, <4>1
    <3>. QED
      BY <3>2, <3>3
  <2>5. Is(g, m + 1)
    <3>. HIDE DEF g
    <3>. QED
      BY <2>3, <2>4
  <2>6. \E h : Is(h, m + 1)
    BY <2>5
  <2>7. m + 1 \in 0..n
    OBVIOUS
  <2>. QED
    BY <2>6, <2>7
<1>3. n \in S
  <2>. HIDE DEF S
  <2>. QED
    BY <1>1, <1>2, UpTo
<1>4. PICK f : Is(f, n)
  BY <1>3
<1>. QED
  BY <1>4 DEF Computes

-----------------------------------------------------------------------------
(* PricingEngine.calculate.                                                *)

SumType == [ok : BOOLEAN, current : Nat, discount : Nat, shipping : Nat]

\* Half of an amount is an amount, and not a greater one.
LEMMA HalfOf == ASSUME NEW x \in Nat PROVE x \div 2 \in Nat /\ x \div 2 <= x
OBVIOUS

\* A rule that holds leaves its reduction out of the price, and adds its fee.
LEMMA RuleApplied ==
    ASSUME NEW sum \in SumType, NEW rule \in Rule, NEW subtotal \in Nat
    PROVE  LET next == ApplyRule(sum, rule, subtotal) IN
           /\ next \in SumType
           /\ next.ok => sum.ok
           /\ next.current + next.discount - next.shipping
                = sum.current + sum.discount - sum.shipping
           /\ next.ok /\ rule.ratio = "none" =>
                IF rule.type = "shipping"
                THEN next.discount = sum.discount /\ next.shipping = sum.shipping + rule.amount
                ELSE next.discount = sum.discount + rule.amount /\ next.shipping = sum.shipping
           /\ rule.type # "shipping" => next.shipping = sum.shipping
<1>. DEFINE next == ApplyRule(sum, rule, subtotal)
            off == Reduction(rule, sum.current)
<1>1. /\ sum.current \in Nat /\ sum.discount \in Nat /\ sum.shipping \in Nat
      /\ rule.amount \in Nat /\ sum.ok \in BOOLEAN
  BY DEF SumType, Rule
<1>2. off \in Nat /\ (rule.ratio = "none" => off = rule.amount)
  BY <1>1, HalfOf DEF Reduction
<1>3. CASE next = [sum EXCEPT !.ok = FALSE]
  BY <1>3 DEF SumType
<1>4. CASE rule.type = "shipping" /\ sum.ok /\ Holds(rule, subtotal)
  <2>1. next = [sum EXCEPT !.current = @ + rule.amount, !.shipping = @ + rule.amount]
    BY <1>4 DEF ApplyRule
  <2>0. sum.current + rule.amount \in Nat /\ sum.shipping + rule.amount \in Nat
    BY <1>1
  <2>2. /\ next \in SumType /\ next.ok = sum.ok /\ next.discount = sum.discount
        /\ next.current = sum.current + rule.amount
        /\ next.shipping = sum.shipping + rule.amount
    <3>. HIDE DEF next
    <3>. QED
      BY <2>0, <2>1 DEF SumType
  <2>. HIDE DEF next
  <2>3. next.current + next.discount - next.shipping
          = sum.current + sum.discount - sum.shipping
    BY <1>1, <2>2
  <2>. QED
    BY <1>4, <2>2, <2>3 DEF next
<1>5. CASE rule.type # "shipping" /\ sum.ok /\ off <= sum.current
           /\ next = [sum EXCEPT !.current = @ - off, !.discount = @ + off]
  <2>. HIDE DEF next, off
  <2>1. sum.current - off \in Nat /\ sum.discount + off \in Nat
    BY <1>1, <1>2, <1>5
  <2>2. /\ next \in SumType /\ next.ok = sum.ok /\ next.shipping = sum.shipping
        /\ next.current = sum.current - off /\ next.discount = sum.discount + off
    BY <1>1, <1>5, <2>1 DEF SumType
  <2>3. next.current + next.discount - next.shipping
          = sum.current + sum.discount - sum.shipping
    BY <1>1, <1>2, <2>2
  <2>. QED
    BY <1>2, <1>5, <2>2, <2>3 DEF next
<1>6. \/ next = [sum EXCEPT !.ok = FALSE]
      \/ rule.type = "shipping" /\ sum.ok /\ Holds(rule, subtotal)
      \/ (rule.type # "shipping" /\ sum.ok /\ off <= sum.current
           /\ next = [sum EXCEPT !.current = @ - off, !.discount = @ + off])
  <2>. HIDE DEF off
  <2>1. ~(off > sum.current) => off <= sum.current
    BY <1>1, <1>2
  <2>. QED
    BY <2>1 DEF ApplyRule, off
<1>. QED
  BY <1>3, <1>4, <1>5, <1>6

\* The sums are computed from the first rule to the last.
LEMMA SumsComputed ==
    ASSUME NEW listed \in Nat, NEW rules \in Seq(Rule), NEW subtotal \in Nat
    PROVE  LET sums == Sums(listed, rules, subtotal) IN
           /\ sums \in [0..Len(rules) -> SumType]
           /\ sums[0] = NoRules(listed)
           /\ \A k \in 1..Len(rules) : sums[k] = ApplyRule(sums[k - 1], rules[k], subtotal)
<1>. DEFINE n == Len(rules)
            onward == [p \in (1..n) \X SumType |-> ApplyRule(p[2], rules[p[1]], subtotal)]
            Def(f) == [k \in 0..n |-> IF k = 0 THEN NoRules(listed)
                                      ELSE ApplyRule(f[k - 1], rules[k], subtotal)]
<1>1. n \in Nat /\ \A k \in 1..n : rules[k] \in Rule
  OBVIOUS
<1>2. NoRules(listed) \in SumType
  <2>1. (listed # Absent) \in BOOLEAN
    OBVIOUS
  <2>. QED
    BY <2>1 DEF NoRules, SumType
<1>3. onward \in Steps(n, SumType)
  <2>1. ASSUME NEW p \in (1..n) \X SumType
        PROVE  ApplyRule(p[2], rules[p[1]], subtotal) \in SumType
    <3>1. p[2] \in SumType /\ rules[p[1]] \in Rule
      BY <1>1
    <3>. QED
      BY <3>1, RuleApplied
  <2>. QED
    BY <2>1 DEF Steps
<1>4. PICK f : Computes(f, n, SumType, NoRules(listed), onward)
  <2>. HIDE DEF onward, n
  <2>. QED
    BY <1>1, <1>2, <1>3, StepByStep
<1>5. \A k \in 0..n : k = 0 \/ k \in 1..n
  OBVIOUS
<1>6. f = Def(f)
  <2>1. ASSUME NEW k \in 0..n, k # 0
        PROVE  onward[<<k, f[k - 1]>>] = ApplyRule(f[k - 1], rules[k], subtotal)
    <3>1. k \in 1..n /\ f[k - 1] \in SumType
      BY <1>1, <1>4, <2>1 DEF Computes
    <3>. QED
      BY <3>1
  <2>. HIDE DEF onward
  <2>. QED
    BY <1>4, <1>5, <2>1 DEF Computes
<1>. DEFINE sums == Sums(listed, rules, subtotal)
<1>7. sums = CHOOSE g : g = Def(g)
  BY DEF Sums
<1>8. sums = Def(sums)
  <2>. HIDE DEF Def, sums
  <2>. QED
    BY <1>6, <1>7
<1>9. sums[0] = NoRules(listed)
      /\ \A k \in 1..n : sums[k] = ApplyRule(sums[k - 1], rules[k], subtotal)
  <2>. HIDE DEF sums
  <2>. QED
    BY <1>1, <1>8
<1>10. sums \in [0..n -> SumType]
  <2>. DEFINE S == {k \in 0..n : sums[k] \in SumType}
  <2>. HIDE DEF sums
  <2>1. 0 \in S
    BY <1>1, <1>2, <1>9
  <2>2. ASSUME NEW k \in 0..(n - 1), k \in S PROVE k + 1 \in S
    <3>1. k + 1 \in 1..n /\ sums[k + 1] = ApplyRule(sums[(k + 1) - 1], rules[k + 1], subtotal)
      BY <1>1, <1>9
    <3>2. (k + 1) - 1 = k /\ sums[k] \in SumType /\ rules[k + 1] \in Rule
      BY <1>1, <2>2, <3>1
    <3>3. ApplyRule(sums[k], rules[k + 1], subtotal) \in SumType
      BY <3>2, RuleApplied
    <3>4. sums[k + 1] = ApplyRule(sums[k], rules[k + 1], subtotal)
      BY <3>1, <3>2
    <3>. QED
      BY <1>1, <3>1, <3>3, <3>4
  <2>3. \A k \in 0..n : k \in S
    <3>. HIDE DEF S
    <3>. QED
      BY <1>1, <2>1, <2>2, UpTo
  <2>. QED
    BY <1>8, <2>3
<1>. QED
  BY <1>9, <1>10

\* After every rule, what is left and what was taken off are what was listed and
\* the shipping.
LEMMA SumsAccount ==
    ASSUME NEW listed \in Nat, NEW rules \in Seq(Rule), NEW subtotal \in Nat,
           NEW k \in 0..Len(rules)
    PROVE  LET sum == Sums(listed, rules, subtotal)[k] IN
           sum \in SumType /\ sum.current + sum.discount - sum.shipping = listed
<1>. DEFINE sums == Sums(listed, rules, subtotal)
            n == Len(rules)
            S == {j \in 0..n : sums[j].current + sums[j].discount - sums[j].shipping = listed}
<1>. HIDE DEF sums
<1>1. n \in Nat /\ \A j \in 1..n : rules[j] \in Rule
  OBVIOUS
<1>2. /\ sums \in [0..n -> SumType] /\ sums[0] = NoRules(listed)
      /\ \A j \in 1..n : sums[j] = ApplyRule(sums[j - 1], rules[j], subtotal)
  BY SumsComputed DEF sums
<1>3. 0 \in S
  BY <1>1, <1>2 DEF NoRules
<1>4. ASSUME NEW j \in 0..(n - 1), j \in S PROVE j + 1 \in S
  <2>1. j + 1 \in 1..n /\ j \in 0..n /\ (j + 1) - 1 = j
    BY <1>1
  <2>2. sums[j + 1] = ApplyRule(sums[j], rules[j + 1], subtotal)
    BY <1>2, <2>1
  <2>3. sums[j] \in SumType /\ rules[j + 1] \in Rule
    BY <1>1, <1>2, <2>1
  <2>4. LET next == ApplyRule(sums[j], rules[j + 1], subtotal) IN
        next.current + next.discount - next.shipping
          = sums[j].current + sums[j].discount - sums[j].shipping
    BY <2>3, RuleApplied
  <2>5. sums[j + 1].current + sums[j + 1].discount - sums[j + 1].shipping = listed
    BY <1>4, <2>2, <2>4
  <2>. QED
    BY <1>1, <2>1, <2>5
<1>5. \A j \in 0..n : j \in S
  <2>. HIDE DEF S, n
  <2>. QED
    BY <1>1, <1>3, <1>4, UpTo
<1>. QED
  BY <1>2, <1>5 DEF sums

\* What holds in the end has held all along.
LEMMA SumsHeld ==
    ASSUME NEW listed \in Nat, NEW rules \in Seq(Rule), NEW subtotal \in Nat,
           Sums(listed, rules, subtotal)[Len(rules)].ok
    PROVE  \A k \in 0..Len(rules) : Sums(listed, rules, subtotal)[k].ok
<1>. DEFINE sums == Sums(listed, rules, subtotal)
            n == Len(rules)
            S == {j \in 0..n : sums[n - j].ok}
<1>. HIDE DEF sums
<1>1. n \in Nat /\ \A j \in 1..n : rules[j] \in Rule
  OBVIOUS
<1>2. /\ sums \in [0..n -> SumType] /\ sums[0] = NoRules(listed)
      /\ \A j \in 1..n : sums[j] = ApplyRule(sums[j - 1], rules[j], subtotal)
  BY SumsComputed DEF sums
<1>3. 0 \in S
  <2>1. n - 0 = n /\ 0 \in 0..n
    BY <1>1
  <2>. QED
    BY <2>1 DEF sums
<1>4. ASSUME NEW j \in 0..(n - 1), j \in S PROVE j + 1 \in S
  <2>1. n - j \in 1..n /\ (n - j) - 1 = n - (j + 1) /\ (n - j) - 1 \in 0..n /\ j + 1 \in 0..n
    BY <1>1
  <2>2. sums[n - j] = ApplyRule(sums[(n - j) - 1], rules[n - j], subtotal)
    BY <1>2, <2>1
  <2>3. sums[(n - j) - 1] \in SumType /\ rules[n - j] \in Rule
    BY <1>1, <1>2, <2>1
  <2>4. ApplyRule(sums[(n - j) - 1], rules[n - j], subtotal).ok => sums[(n - j) - 1].ok
    BY <2>3, RuleApplied
  <2>5. sums[n - j].ok
    BY <1>4
  <2>6. sums[(n - j) - 1].ok
    BY <2>2, <2>4, <2>5
  <2>. QED
    BY <2>1, <2>6
<1>5. \A j \in 0..n : j \in S
  <2>. HIDE DEF S, n
  <2>. QED
    BY <1>1, <1>3, <1>4, UpTo
<1>6. ASSUME NEW k \in 0..n PROVE sums[k].ok
  <2>1. n - k \in 0..n /\ n - (n - k) = k
    BY <1>1
  <2>2. sums[n - (n - k)].ok
    BY <1>5, <2>1
  <2>. QED
    BY <2>1, <2>2
<1>. QED
  BY <1>6 DEF sums

\* Without ratios, what the rules take off and add does not depend on their order.
LEMMA OrderIsFree ==
    ASSUME NEW listed \in Nat, NEW rules \in Seq(Rule), NEW subtotal \in Nat,
           \A r \in ToSet(rules) : r.ratio = "none",
           Sums(listed, rules, subtotal)[Len(rules)].ok,
           Sums(listed, Reverse(rules), subtotal)[Len(rules)].ok
    PROVE  LET there == Sums(listed, rules, subtotal)[Len(rules)]
               back == Sums(listed, Reverse(rules), subtotal)[Len(rules)]
           IN  there.discount = back.discount /\ there.shipping = back.shipping
<1>. DEFINE n == Len(rules)
            sevur == Reverse(rules)
            there == Sums(listed, rules, subtotal)
            back == Sums(listed, sevur, subtotal)
            S == {k \in 0..n :
                    /\ there[n - k].discount + back[k].discount = there[n].discount
                    /\ there[n - k].shipping + back[k].shipping = there[n].shipping}
<1>1. n \in Nat /\ \A k \in 1..n : rules[k] \in Rule /\ rules[k].ratio = "none"
  <2>1. \A k \in 1..n : rules[k] \in ToSet(rules)
    BY DEF ToSet
  <2>. QED
    BY <2>1
<1>2. /\ sevur \in Seq(Rule) /\ Len(sevur) = n
      /\ \A k \in 1..n : sevur[k] = rules[(n - k) + 1]
  <2>1. sevur = [k \in 1..n |-> rules[(n - k) + 1]]
    BY DEF Reverse
  <2>2. \A k \in 1..n : (n - k) + 1 \in 1..n
    BY <1>1
  <2>. QED
    BY <1>1, <2>1, <2>2
<1>. HIDE DEF there, back, sevur
<1>3. /\ there \in [0..n -> SumType] /\ there[0] = NoRules(listed)
      /\ \A k \in 1..n : there[k] = ApplyRule(there[k - 1], rules[k], subtotal)
  BY SumsComputed DEF there
<1>4. /\ back \in [0..n -> SumType] /\ back[0] = NoRules(listed)
      /\ \A k \in 1..n : back[k] = ApplyRule(back[k - 1], sevur[k], subtotal)
  BY <1>2, SumsComputed DEF back
<1>5. \A k \in 0..n : there[k].ok /\ back[k].ok
  <2>1. back[Len(sevur)].ok
    BY <1>2 DEF back, sevur
  <2>2. \A k \in 0..n : back[k].ok
    BY <1>2, <2>1, SumsHeld DEF back
  <2>. QED
    BY <2>2, SumsHeld DEF there
<1>6. 0 \in S
  <2>1. n - 0 = n /\ 0 \in 0..n /\ n \in 0..n
    BY <1>1
  <2>2. there[n].discount \in Nat /\ there[n].shipping \in Nat
    BY <1>3, <2>1 DEF SumType
  <2>3. back[0].discount = 0 /\ back[0].shipping = 0
    BY <1>4 DEF NoRules
  <2>. QED
    BY <2>1, <2>2, <2>3
<1>7. ASSUME NEW k \in 0..(n - 1), k \in S PROVE k + 1 \in S
  <2>. DEFINE i == n - k
              r == rules[i]
  <2>1. /\ i \in 1..n /\ i - 1 \in 0..n /\ i \in 0..n /\ n - (k + 1) = i - 1
        /\ k \in 0..n /\ k + 1 \in 1..n /\ k + 1 \in 0..n /\ (k + 1) - 1 = k
        /\ (n - (k + 1)) + 1 = i
    BY <1>1
  <2>. HIDE DEF i
  <2>2. r \in Rule /\ r.ratio = "none" /\ r.amount \in Nat
    BY <1>1, <2>1 DEF Rule
  <2>3. there[i] = ApplyRule(there[i - 1], r, subtotal) /\ there[i].ok
    BY <1>3, <1>5, <2>1
  <2>4. back[k + 1] = ApplyRule(back[k], r, subtotal) /\ back[k + 1].ok
    BY <1>2, <1>4, <1>5, <2>1
  <2>5. /\ there[i - 1] \in SumType /\ there[i] \in SumType
        /\ back[k] \in SumType /\ back[k + 1] \in SumType
    BY <1>3, <1>4, <2>1
  <2>. HIDE DEF r
  <2>. DEFINE Follows(next, sum) ==
                  IF r.type = "shipping"
                  THEN next.discount = sum.discount /\ next.shipping = sum.shipping + r.amount
                  ELSE next.discount = sum.discount + r.amount /\ next.shipping = sum.shipping
  <2>6. Follows(there[i], there[i - 1])
    <3>1. LET next == ApplyRule(there[i - 1], r, subtotal) IN
          next.ok => Follows(next, there[i - 1])
      BY <2>2, <2>5, RuleApplied
    <3>. HIDE DEF Follows
    <3>. QED
      BY <2>3, <3>1
  <2>7. Follows(back[k + 1], back[k])
    <3>1. LET next == ApplyRule(back[k], r, subtotal) IN
          next.ok => Follows(next, back[k])
      BY <2>2, <2>5, RuleApplied
    <3>. HIDE DEF Follows
    <3>. QED
      BY <2>4, <3>1
  <2>8. /\ there[i - 1].discount \in Nat /\ there[i - 1].shipping \in Nat
        /\ back[k].discount \in Nat /\ back[k].shipping \in Nat
    BY <2>5 DEF SumType
  <2>9. /\ there[i].discount + back[k].discount = there[n].discount
        /\ there[i].shipping + back[k].shipping = there[n].shipping
    BY <1>7 DEF i
  <2>10. /\ there[i - 1].discount + back[k + 1].discount = there[n].discount
         /\ there[i - 1].shipping + back[k + 1].shipping = there[n].shipping
    <3>1. CASE r.type = "shipping"
      BY <3>1, <2>2, <2>6, <2>7, <2>8, <2>9
    <3>2. CASE r.type # "shipping"
      BY <3>2, <2>2, <2>6, <2>7, <2>8, <2>9
    <3>. QED
      BY <3>1, <3>2
  <2>. QED
    BY <2>1, <2>10
<1>8. n \in S
  <2>1. \A k \in 0..n : k \in S
    <3>. HIDE DEF S, n
    <3>. QED
      BY <1>1, <1>6, <1>7, UpTo
  <2>. QED
    BY <1>1, <2>1
<1>9. there[0].discount = 0 /\ there[0].shipping = 0 /\ n - n = 0
  BY <1>1, <1>3 DEF NoRules
<1>10. back[n].discount \in Nat /\ back[n].shipping \in Nat
  BY <1>1, <1>4 DEF SumType
<1>. QED
  BY <1>8, <1>9, <1>10 DEF there, back, sevur

\* Without a fee, the price does not rise.
LEMMA NoFee ==
    ASSUME NEW listed \in Nat, NEW rules \in Seq(Rule), NEW subtotal \in Nat,
           \A k \in 1..Len(rules) : rules[k].type # "shipping"
    PROVE  Sums(listed, rules, subtotal)[Len(rules)].shipping = 0
<1>. DEFINE sums == Sums(listed, rules, subtotal)
            n == Len(rules)
            S == {j \in 0..n : sums[j].shipping = 0}
<1>. HIDE DEF sums
<1>1. n \in Nat /\ \A j \in 1..n : rules[j] \in Rule
  OBVIOUS
<1>2. /\ sums \in [0..n -> SumType] /\ sums[0] = NoRules(listed)
      /\ \A j \in 1..n : sums[j] = ApplyRule(sums[j - 1], rules[j], subtotal)
  BY SumsComputed DEF sums
<1>3. 0 \in S
  BY <1>1, <1>2 DEF NoRules
<1>4. ASSUME NEW j \in 0..(n - 1), j \in S PROVE j + 1 \in S
  <2>1. j + 1 \in 1..n /\ j \in 0..n /\ (j + 1) - 1 = j /\ j + 1 \in 0..n
    BY <1>1
  <2>2. sums[j + 1] = ApplyRule(sums[j], rules[j + 1], subtotal)
    BY <1>2, <2>1
  <2>3. sums[j] \in SumType /\ rules[j + 1] \in Rule /\ rules[j + 1].type # "shipping"
    BY <1>1, <1>2, <2>1
  <2>4. ApplyRule(sums[j], rules[j + 1], subtotal).shipping = sums[j].shipping
    BY <2>3, RuleApplied
  <2>. QED
    BY <1>4, <2>1, <2>2, <2>4
<1>5. \A j \in 0..n : j \in S
  <2>. HIDE DEF S, n
  <2>. QED
    BY <1>1, <1>3, <1>4, UpTo
<1>. QED
  BY <1>1, <1>5 DEF sums

\* The greater of two amounts.
LEMMA MaxOfTwo ==
    ASSUME NEW a \in Nat, NEW b \in Nat
    PROVE  Max({a, b}) = IF a >= b THEN a ELSE b
<1>. DEFINE m == IF a >= b THEN a ELSE b
<1>1. m \in {a, b} /\ \A y \in {a, b} : m >= y
  OBVIOUS
<1>2. \A x, y \in {a, b} : x >= y /\ y >= x => x = y
  OBVIOUS
<1>. QED
  BY <1>1, <1>2 DEF Max

\* What PricingEngine calculates: at least a cent, nothing without a price, and
\* what is left of it after the discounts and the fee.
LEMMA Calculated ==
    ASSUME NEW listed \in Nat, NEW rules \in Seq(Rule), NEW subtotal \in Nat
    PROVE  LET q == Calculate(listed, rules, subtotal)
               sum == Sums(listed, rules, subtotal)[Len(rules)]
           IN  /\ q.resolved = sum.ok /\ q.discount = sum.discount
               /\ q.shipping = sum.shipping
               /\ q.discount \in Nat /\ q.shipping \in Nat /\ sum.current \in Nat
               /\ sum.current = listed - q.discount + q.shipping
               /\ q.effective = IF ~sum.ok THEN Absent
                                ELSE IF sum.current >= Cent THEN sum.current ELSE Cent
               /\ sum.ok => listed # Absent
<1>. DEFINE q == Calculate(listed, rules, subtotal)
            sum == Sums(listed, rules, subtotal)[Len(rules)]
<1>1. Len(rules) \in 0..Len(rules) /\ 0 \in 0..Len(rules)
  OBVIOUS
<1>2. sum \in SumType /\ sum.current + sum.discount - sum.shipping = listed
  BY <1>1, SumsAccount
<1>3. sum.current \in Nat /\ sum.discount \in Nat /\ sum.shipping \in Nat
  BY <1>2 DEF SumType
<1>4. sum.ok => listed # Absent
  <2>1. sum.ok => Sums(listed, rules, subtotal)[0].ok
    BY <1>1, SumsHeld
  <2>2. Sums(listed, rules, subtotal)[0] = NoRules(listed)
    BY SumsComputed
  <2>3. NoRules(listed).ok => listed # Absent
    BY DEF NoRules
  <2>. HIDE DEF sum
  <2>. QED
    BY <2>1, <2>2, <2>3
<1>5. q = [resolved |-> sum.ok, discount |-> sum.discount, shipping |-> sum.shipping,
           effective |-> IF sum.ok THEN Max({Cent, sum.current}) ELSE Absent]
  BY DEF Calculate
<1>6. Max({Cent, sum.current}) = IF sum.current >= Cent THEN sum.current ELSE Cent
  <2>1. Cent \in Nat
    BY DEF Cent
  <2>2. Max({Cent, sum.current}) = IF Cent >= sum.current THEN Cent ELSE sum.current
    BY <1>3, <2>1, MaxOfTwo
  <2>. HIDE DEF sum
  <2>. QED
    BY <1>3, <2>1, <2>2
<1>. HIDE DEF q, sum
<1>7. sum.current = listed - sum.discount + sum.shipping
  BY <1>2, <1>3
<1>. QED
  BY <1>3, <1>4, <1>5, <1>6, <1>7 DEF q, sum

\* PricingEngine accounts for every step.
LEMMA Accounted ==
    ASSUME stage = "quoted" => /\ quote.listed \in Nat /\ quote.subtotal \in Nat
                               /\ quote.rules \in Seq(Rule)
    PROVE  QuotesAccount
<1>. SUFFICES ASSUME stage = "quoted" PROVE QuotesAccount
  BY DEF QuotesAccount
<1>. DEFINE l == quote.listed
            rs == quote.rules
            sr == Reverse(rs)
            sub == quote.subtotal
            q == Calculate(l, rs, sub)
            back == Calculate(l, sr, sub)
            there == Sums(l, rs, sub)[Len(rs)]
            home == Sums(l, sr, sub)[Len(sr)]
<1>1. l \in Nat /\ rs \in Seq(Rule) /\ sub \in Nat
  OBVIOUS
<1>2. sr \in Seq(Rule) /\ Len(sr) = Len(rs)
  <2>. HIDE DEF rs
  <2>1. sr = [k \in 1..Len(rs) |-> rs[(Len(rs) - k) + 1]]
    BY DEF Reverse
  <2>2. Len(rs) \in Nat /\ \A k \in 1..Len(rs) : (Len(rs) - k) + 1 \in 1..Len(rs)
    BY <1>1
  <2>. QED
    BY <1>1, <2>1, <2>2
<1>. HIDE DEF l, rs, sub, sr
<1>. DEFINE Facts(c, sum) ==
          /\ c.resolved = sum.ok /\ c.discount = sum.discount /\ c.shipping = sum.shipping
          /\ c.discount \in Nat /\ c.shipping \in Nat /\ sum.current \in Nat
          /\ sum.current = l - c.discount + c.shipping
          /\ c.effective = IF ~sum.ok THEN Absent
                           ELSE IF sum.current >= Cent THEN sum.current ELSE Cent
<1>2a. ASSUME NEW x \in Seq(Rule)
       PROVE  Facts(Calculate(l, x, sub), Sums(l, x, sub)[Len(x)])
  BY <1>1, Calculated, SMTT(30)
<1>3. Facts(q, there)
  <2>. HIDE DEF Facts
  <2>. QED
    BY <1>1, <1>2a
<1>4. Facts(back, home)
  <2>. HIDE DEF Facts
  <2>. QED
    BY <1>2, <1>2a
<1>5. /\ q = [resolved |-> q.resolved, discount |-> q.discount, shipping |-> q.shipping,
              effective |-> q.effective]
      /\ back = [resolved |-> back.resolved, discount |-> back.discount,
                 shipping |-> back.shipping, effective |-> back.effective]
  BY DEF Calculate
<1>6. ASSUME q.resolved, back.resolved, \A r \in ToSet(rs) : r.ratio = "none"
      PROVE  back = q
  <2>1. there.ok /\ home.ok
    BY <1>3, <1>4, <1>6
  <2>2. there.discount = home.discount /\ there.shipping = home.shipping
    BY <1>1, <1>2, <1>6, <2>1, OrderIsFree DEF sr
  <2>. HIDE DEF q, back, there, home
  <2>3. q.discount = back.discount /\ q.shipping = back.shipping
    BY <1>3, <1>4, <2>2
  <2>4. there.current = home.current
    BY <1>3, <1>4, <2>3
  <2>5. q.effective = back.effective
    BY <1>3, <1>4, <2>1, <2>4
  <2>6. q.resolved = back.resolved
    BY <1>5, <1>6, <1>3, <1>4, <2>1
  <2>. QED
    BY <1>5, <2>3, <2>5, <2>6
<1>7. ASSUME q.resolved
      PROVE  /\ q.discount <= l + q.shipping
             /\ q.effective = Max({Cent, l - q.discount + q.shipping})
  <2>. HIDE DEF q, there
  <2>1. q.discount <= l + q.shipping
    BY <1>1, <1>3
  <2>2. Max({Cent, there.current}) = IF Cent >= there.current THEN Cent ELSE there.current
    BY <1>3, MaxOfTwo DEF Cent
  <2>3. q.effective = Max({Cent, there.current})
    BY <1>3, <1>7, <2>2 DEF Cent
  <2>. QED
    BY <1>3, <2>1, <2>3
<1>. QED
  BY <1>6, <1>7 DEF QuotesAccount, l, rs, sr, sub

-----------------------------------------------------------------------------
(* PriceParser.                                                            *)

\* A mention has a first pattern.
LEMMA FirstPattern ==
    ASSUME NEW m \in Mention
    PROVE  Min(m.shapes) \in 1..7
<1>1. m.shapes \subseteq 1..7 /\ m.shapes # {}
  BY DEF Mention
<1>2. m.shapes \subseteq Nat
  BY <1>1
<1>3. \E x \in m.shapes : \A y \in m.shapes : x <= y
  BY <1>1, <1>2, LeastNumber
<1>4. Min(m.shapes) \in m.shapes
  BY <1>3 DEF Min
<1>. QED
  BY <1>1, <1>4

\* A candidate is a mention, with the kind and the rank of its first pattern.
LEMMA CandidateIsMention ==
    ASSUME NEW c \in Cards, NEW x \in Candidates(c)
    PROVE  /\ x.rank \in Nat /\ x.word \in Nat
           /\ x.amount \in Money /\ x.amount # Absent
           /\ \E m \in c.mentions :
                /\ m.amount = x.amount /\ m \in Mention /\ x.kind = KindOf[Min(m.shapes)]
                /\ Min(m.shapes) >= 6 /\ m.inCoupon => m.amount = c.coupon.base
<1>1. PICK m \in c.mentions :
        /\ Min(m.shapes) >= 6 /\ m.inCoupon => m.amount = c.coupon.base
        /\ x = [amount |-> m.amount, word |-> m.word, kind |-> KindOf[Min(m.shapes)],
                rank |-> RankOf[Min(m.shapes)]]
  BY DEF Candidates
<1>2. m \in Mention
  BY CardsAssumption DEF CardType
<1>3. RankOf[Min(m.shapes)] \in Nat
  <2>. DEFINE i == Min(m.shapes)
  <2>1. i = 1 \/ i = 2 \/ i = 3 \/ i = 4 \/ i = 5 \/ i = 6 \/ i = 7
    <3>1. i \in 1..7
      BY <1>2, FirstPattern
    <3>. HIDE DEF i
    <3>. QED
      BY <3>1
  <2>. HIDE DEF i
  <2>2. RankOf[i] \in Nat
    BY <2>1 DEF RankOf
  <2>. QED
    BY <2>2 DEF i
<1>4. m.amount \in Money /\ m.amount # Absent /\ m.word \in Nat
  BY <1>2 DEF Mention
<1>. QED
  BY <1>1, <1>2, <1>3, <1>4

\* What is selected is the amount of a candidate of the kind.
LEMMA Selected ==
    ASSUME NEW c \in Cards, NEW kind, Select(c, kind) # Absent
    PROVE  \E x \in Candidates(c) : x.kind = kind /\ x.amount = Select(c, kind)
<1>. DEFINE best == Best(c, kind)
            words == {x.word : x \in best}
<1>1. best # {}
  BY DEF Select
<1>2. \A x \in best : x \in Candidates(c) /\ x.kind = kind
  BY DEF Best
<1>3. words \subseteq Nat
  <2>1. \A x \in best : x.word \in Nat
    BY <1>2, CandidateIsMention
  <2>. QED
    BY <2>1
<1>. HIDE DEF best
<1>4. PICK w \in words : \A v \in words : w <= v
  <2>1. words # {}
    BY <1>1
  <2>. HIDE DEF words
  <2>. QED
    BY <1>3, <2>1, LeastNumber
<1>5. \E x \in best : \A y \in best : x.word <= y.word
  BY <1>4
<1>6. Select(c, kind) = (CHOOSE x \in best : \A y \in best : x.word <= y.word).amount
  BY <1>1 DEF Select, best
<1>. QED
  BY <1>2, <1>5, <1>6

\* It is nothing, or a whole number of cents.
LEMMA SelectedTyped ==
    ASSUME NEW c \in Cards, NEW kind
    PROVE  Select(c, kind) \in Money
<1>1. CASE Select(c, kind) = Absent
  <2>1. 0 % 4 = 0
    OBVIOUS
  <2>. QED
    BY <1>1, <2>1 DEF Money, Absent, Cent
<1>2. CASE Select(c, kind) # Absent
  BY <1>2, Selected, CandidateIsMention
<1>. QED
  BY <1>1, <1>2

\* There are finitely many candidates.
LEMMA CandidatesFinite ==
    ASSUME NEW c \in Cards PROVE IsFiniteSet(Candidates(c))
<1>. DEFINE as(m) == [amount |-> m.amount, word |-> m.word, kind |-> KindOf[Min(m.shapes)],
                      rank |-> RankOf[Min(m.shapes)]]
            taken == {n \in c.mentions :
                        Min(n.shapes) >= 6 /\ n.inCoupon => n.amount = c.coupon.base}
            f == [m \in taken |-> as(m)]
<1>1. Candidates(c) = {as(m) : m \in taken}
  BY DEF Candidates
<1>2. IsFiniteSet(taken)
  <2>1. taken \in SUBSET c.mentions
    OBVIOUS
  <2>2. IsFiniteSet(c.mentions)
    BY CardsAssumption
  <2>. HIDE DEF taken
  <2>. QED
    BY <2>1, <2>2, FS_Subset
<1>3. f \in Surjection(taken, Candidates(c))
  <2>. HIDE DEF taken, as
  <2>. QED
    BY <1>1 DEF Surjection
<1>. QED
  BY <1>2, <1>3, FS_Surjection

\* Without a conflict, two displayed prices of the same rank agree, or one of a
\* better rank is there.
LEMMA NoConflict ==
    ASSUME NEW c \in Cards, ~HasConflict(c),
           NEW a \in Candidates(c), NEW b \in Candidates(c),
           a.kind = "displayed", b.kind = "displayed", a.rank = b.rank, a.amount # b.amount
    PROVE  \E x \in Candidates(c) : x.kind = "displayed" /\ x.rank > a.rank
<1>. DEFINE best == Best(c, "displayed")
            amounts == {x.amount : x \in best}
<1>1. a \notin best
  <2>1. SUFFICES ASSUME a \in best PROVE FALSE
    OBVIOUS
  <2>2. b \in best
    BY <2>1 DEF Best
  <2>3. a.amount \in amounts /\ b.amount \in amounts
    BY <2>1, <2>2
  <2>4. IsFiniteSet(amounts)
    <3>1. IsFiniteSet(best)
      <4>1. best \in SUBSET Candidates(c)
        BY DEF Best
      <4>. QED
        BY <4>1, CandidatesFinite, FS_Subset
    <3>. DEFINE f == [x \in best |-> x.amount]
    <3>. HIDE DEF best
    <3>2. f \in Surjection(best, amounts)
      BY DEF Surjection
    <3>. QED
      BY <3>1, <3>2, FS_Surjection
  <2>5. Cardinality(amounts) > 1
    <3>. DEFINE one == {a.amount}
    <3>1. one \in SUBSET amounts /\ one # amounts
      BY <2>3
    <3>2. Cardinality(one) = 1
      BY FS_Singleton
    <3>. HIDE DEF amounts, one
    <3>3. Cardinality(one) <= Cardinality(amounts) /\ Cardinality(one) # Cardinality(amounts)
          /\ Cardinality(amounts) \in Nat
      BY <2>4, <3>1, FS_Subset, FS_CardinalityType
    <3>. QED
      BY <3>2, <3>3
  <2>. QED
    BY <2>5 DEF HasConflict
<1>2. PICK y \in Candidates(c) : y.kind = "displayed" /\ ~(a.rank >= y.rank)
  BY <1>1 DEF Best
<1>3. a.rank \in Nat /\ y.rank \in Nat
  BY CandidateIsMention
<1>4. y.rank > a.rank
  BY <1>2, <1>3
<1>. QED
  BY <1>2, <1>4

\* An amount of whole cents that is there is at least a cent, and can be halved.
LEMMA MoneyCounts ==
    ASSUME NEW x \in Money, x # Absent
    PROVE  x \in Nat /\ x >= Cent /\ x \div 2 # Absent /\ (x * 3) \div 4 # Absent
<1>1. x \in Nat /\ x % 4 = 0 /\ x # 0
  BY DEF Money, Cent, Absent
<1>2. x # 1 /\ x # 2 /\ x # 3
  <2>1. 1 % 4 = 1 /\ 2 % 4 = 2 /\ 3 % 4 = 3
    OBVIOUS
  <2>. QED
    BY <1>1, <2>1
<1>3. x >= 4
  BY <1>1, <1>2
<1>4. x \div 2 >= 2
  BY <1>1, <1>3
<1>5. (x * 3) \div 4 >= 3
  BY <1>1, <1>3
<1>6. x \div 2 # 0 /\ (x * 3) \div 4 # 0
  <2>1. x \div 2 \in Int /\ (x * 3) \div 4 \in Int
    BY <1>1
  <2>. QED
    BY <1>4, <1>5, <2>1
<1>. QED
  BY <1>1, <1>3, <1>6 DEF Cent, Absent

\* What PriceParser resolves has a price, and a displayed price is selected from a
\* text without a range or a conflict.
LEMMA ReadingIsSound ==
    ASSUME NEW c \in Cards
    PROVE  LET r == ParsePrices(c) IN
           /\ r.status = "RESOLVED" <=> r.effective # Absent
           /\ r.displayed # Absent => /\ ~c.range /\ ~HasConflict(c)
                                      /\ r.displayed = Select(c, "displayed")
<1>. DEFINE shown == Select(c, "displayed")
            after == Select(c, "after_sale")
            r == ParsePrices(c)
            two == c.count = 2 /\ shown # Absent
<1>1. shown \in Money
  BY SelectedTyped
<1>2. shown # Absent => shown \div 2 # Absent /\ (shown * 3) \div 4 # Absent
  BY <1>1, MoneyCounts
<1>3. CouponApplies(c) => c.coupon.base - c.coupon.off # Absent
  <2>1. c.coupon.base \in Nat /\ c.coupon.off \in Nat
    BY CardsAssumption DEF CardType, Money
  <2>. QED
    BY <2>1 DEF CouponApplies, Absent
<1>4. \/ r = Parsed(Absent, Absent, "UNRESOLVED")
      \/ (~c.range /\ ~HasConflict(c) /\ after # Absent /\ r = Parsed(shown, after, "RESOLVED"))
      \/ (~c.range /\ ~HasConflict(c) /\ CouponApplies(c)
          /\ r = Parsed(shown, c.coupon.base - c.coupon.off, "RESOLVED"))
      \/ (~c.range /\ ~HasConflict(c) /\ shown # Absent
          /\ r = Parsed(shown, shown \div 2, "RESOLVED"))
      \/ (~c.range /\ ~HasConflict(c) /\ shown # Absent
          /\ r = Parsed(shown, (shown * 3) \div 4, "RESOLVED"))
      \/ (~c.range /\ ~HasConflict(c) /\ r = Parsed(shown, Absent, "NEED_MORE_EVIDENCE"))
      \/ (~c.range /\ ~HasConflict(c) /\ r = Parsed(shown, Absent, "UNRESOLVED"))
      \/ (~c.range /\ ~HasConflict(c) /\ shown # Absent /\ r = Parsed(shown, shown, "RESOLVED"))
      \/ (~c.range /\ ~HasConflict(c) /\ shown = Absent
          /\ r = Parsed(shown, shown, "NEED_MORE_EVIDENCE"))
  <2>. HIDE DEF shown, after
  <2>. QED
    BY Zenon DEF ParsePrices, shown, after
<1>. HIDE DEF shown, after, r
<1>5. /\ r.status = "RESOLVED" <=> r.effective # Absent
      /\ r.displayed # Absent => ~c.range /\ ~HasConflict(c) /\ r.displayed = shown
  BY <1>2, <1>3, <1>4 DEF Parsed
<1>. QED
  BY <1>5 DEF r, shown

\* The price of a product is told by the card for one piece.
LEMMA PriceIsTold ==
    ASSUME NEW c \in Cards, PriceOf(c) # Absent
    PROVE  ~c.range /\ \E x \in c.mentions :
                         /\ x.amount = PriceOf(c) /\ Min(x.shapes) \in Priced
                         /\ x.inCoupon => Min(x.shapes) < 6 \/ x.amount = c.coupon.base
<1>1. ~c.range /\ \E kind \in {"displayed", "after_sale"} : PriceOf(c) = Select(c, kind)
  <2>1. CASE c.source = "taobao"
    BY <2>1 DEF PriceOf, ParseOne
  <2>2. CASE c.source # "taobao"
    <3>1. PriceOf(c) = ParsePrices(c).displayed
      BY <2>2 DEF PriceOf
    <3>. QED
      BY <3>1, ReadingIsSound
  <2>. QED
    BY <2>1, <2>2
<1>2. PICK kind \in {"displayed", "after_sale"} : PriceOf(c) = Select(c, kind)
  BY <1>1
<1>3. PICK x \in Candidates(c) : x.kind = kind /\ x.amount = PriceOf(c)
  BY <1>2, Selected
<1>4. PICK m \in c.mentions : /\ m.amount = x.amount /\ m \in Mention
                              /\ x.kind = KindOf[Min(m.shapes)]
                              /\ Min(m.shapes) >= 6 /\ m.inCoupon => m.amount = c.coupon.base
  BY CandidateIsMention
<1>5. Min(m.shapes) \in 1..7
  BY <1>4, FirstPattern
<1>6. Min(m.shapes) \in Priced
  BY <1>2, <1>3, <1>4, <1>5 DEF Priced
<1>7. m.inCoupon => Min(m.shapes) < 6 \/ m.amount = c.coupon.base
  BY <1>4, <1>5
<1>. QED
  BY <1>1, <1>3, <1>4, <1>6, <1>7

\* It is nothing, or a whole number of cents.
LEMMA PriceTyped == ASSUME NEW c \in Cards PROVE PriceOf(c) \in Money
<1>1. Absent \in Money
  <2>1. 0 % 4 = 0
    OBVIOUS
  <2>. QED
    BY <2>1 DEF Money, Absent, Cent
<1>2. ParseOne(c) \in Money
  BY <1>1, SelectedTyped DEF ParseOne
<1>3. ParsePrices(c).displayed \in Money
  <2>1. ParsePrices(c).displayed # Absent => ParsePrices(c).displayed = Select(c, "displayed")
    BY ReadingIsSound
  <2>. QED
    BY <1>1, <2>1, SelectedTyped
<1>. QED
  BY <1>2, <1>3 DEF PriceOf

\* The rules of a card charge no shipping; a card without a promotion has none.
LEMMA RulesOfCard ==
    ASSUME NEW c \in Cards, NEW price \in Nat, NEW two \in BOOLEAN
    PROVE  LET rs == Rules(c, price, two) IN
           /\ rs \in Seq(Rule) /\ \A k \in 1..Len(rs) : rs[k].type # "shipping"
           /\ c.second = "none" /\ c.voucher.off = Absent => rs = <<>>
<1>. DEFINE second == [type |-> "multi", amount |-> Absent, least |-> Absent,
                       ratio |-> IF c.second = "free" THEN "zero" ELSE "half",
                       confirmed |-> two => c.count = 2]
            coupon == [type |-> "coupon", amount |-> c.voucher.off, ratio |-> "none",
                       least |-> c.voucher.least, confirmed |-> price >= c.voucher.least]
            a == IF c.second # "none" THEN <<second>> ELSE <<>>
            b == IF c.voucher.off # Absent THEN <<coupon>> ELSE <<>>
            NoFeeRule == {x \in Rule : x.type # "shipping"}
<1>1. Absent \in Nat /\ c.voucher.off \in Nat /\ c.voucher.least \in Nat
  BY CardsAssumption DEF CardType, Absent
<1>2. second \in NoFeeRule
  <2>1. (two => c.count = 2) \in BOOLEAN
    OBVIOUS
  <2>. QED
    BY <1>1, <2>1 DEF Rule
<1>3. coupon \in NoFeeRule
  <2>1. (price >= c.voucher.least) \in BOOLEAN
    BY <1>1
  <2>. QED
    BY <1>1, <2>1 DEF Rule
<1>4. a \in Seq(NoFeeRule) /\ b \in Seq(NoFeeRule)
  <2>. HIDE DEF second, coupon, NoFeeRule
  <2>. QED
    BY <1>2, <1>3
<1>5. Rules(c, price, two) = a \o b
  BY DEF Rules
<1>6. a \o b \in Seq(NoFeeRule)
  <2>. HIDE DEF a, b, NoFeeRule
  <2>. QED
    BY <1>4
<1>7. c.second = "none" /\ c.voucher.off = Absent => a \o b = <<>>
  OBVIOUS
<1>. HIDE DEF a, b
<1>8. a \o b \in Seq(Rule) /\ \A k \in 1..Len(a \o b) : (a \o b)[k].type # "shipping"
  BY <1>6
<1>. QED
  BY <1>5, <1>7, <1>8

\* A card's promotions take off and never add: what they leave is at least a cent,
\* not more than the price, and the price itself when there are none.
LEMMA CardCalculated ==
    ASSUME NEW c \in Cards, NEW price \in Money, NEW two \in BOOLEAN
    PROVE  LET e == Calculate(price, Rules(c, price, two), price).effective IN
           /\ e \in Nat
           /\ e # Absent => /\ Cent <= e /\ (e <= price \/ e = Cent) /\ price # Absent
                            /\ c.second = "none" /\ c.voucher.off = Absent => e = price
<1>. DEFINE rs == Rules(c, price, two)
            q == Calculate(price, rs, price)
            sum == Sums(price, rs, price)[Len(rs)]
            e == q.effective
<1>1. price \in Nat
  BY DEF Money
<1>2. /\ rs \in Seq(Rule) /\ \A k \in 1..Len(rs) : rs[k].type # "shipping"
      /\ c.second = "none" /\ c.voucher.off = Absent => rs = <<>>
  BY <1>1, RulesOfCard
<1>. HIDE DEF rs
<1>3. /\ q.shipping = sum.shipping /\ q.discount \in Nat
      /\ sum.current \in Nat /\ sum.current = price - q.discount + q.shipping
      /\ e = IF ~sum.ok THEN Absent ELSE IF sum.current >= Cent THEN sum.current ELSE Cent
      /\ sum.ok => price # Absent
  BY <1>1, <1>2, Calculated
<1>4. sum.shipping = 0
  BY <1>1, <1>2, NoFee
<1>5. rs = <<>> => sum.current = price
  <2>1. rs = <<>> => sum = Sums(price, rs, price)[0]
    OBVIOUS
  <2>2. Sums(price, rs, price)[0] = NoRules(price)
    BY <1>1, <1>2, SumsComputed
  <2>3. NoRules(price).current = price
    BY DEF NoRules
  <2>. HIDE DEF sum
  <2>. QED
    BY <2>1, <2>2, <2>3
<1>. HIDE DEF q, sum, e
<1>6. sum.current <= price
  BY <1>1, <1>3, <1>4
<1>7. e \in Nat
  BY <1>3 DEF Absent, Cent
<1>8. ASSUME e # Absent
      PROVE  Cent <= e /\ (e <= price \/ e = Cent) /\ price # Absent
  BY <1>1, <1>3, <1>6, <1>8 DEF Absent, Cent
<1>9. ASSUME e # Absent, rs = <<>> PROVE e = price
  <2>1. price >= Cent /\ price \in Nat
    BY <1>8, <1>9, MoneyCounts
  <2>. QED
    BY <1>3, <1>5, <1>9, <2>1
<1>. QED
  BY <1>2, <1>7, <1>8, <1>9 DEF e, q, rs

\* Among three amounts there is a greatest.
LEMMA MaxOfThree ==
    ASSUME NEW a \in Nat, NEW b \in Nat, NEW d \in Nat
    PROVE  LET m == Max({a, b, d}) IN m \in Nat /\ a <= m /\ b <= m /\ d <= m
<1>1. \E x \in {a, b, d} : \A y \in {a, b, d} : x >= y
  <2>1. CASE a >= b /\ a >= d
    BY <2>1
  <2>2. CASE b >= a /\ b >= d
    BY <2>2
  <2>3. CASE d >= a /\ d >= b
    BY <2>3
  <2>. QED
    BY <2>1, <2>2, <2>3
<1>2. Max({a, b, d}) \in {a, b, d} /\ \A y \in {a, b, d} : Max({a, b, d}) >= y
  BY <1>1 DEF Max
<1>. DEFINE m == Max({a, b, d})
<1>3. m \in Nat /\ m >= a /\ m >= b /\ m >= d
  BY <1>2
<1>. HIDE DEF m
<1>4. m \in Nat /\ a <= m /\ b <= m /\ d <= m
  BY <1>3
<1>. QED
  BY <1>4 DEF m

\* The price of an offer is told by its card.
LEMMA OfferIsEvidenced ==
    ASSUME card \in Cards, offer = FinalPrice(card)
    PROVE  OffersAreEvidenced
<1>. SUFFICES ASSUME offer.amount # Absent PROVE OffersAreEvidenced
  BY DEF OffersAreEvidenced
<1>. DEFINE price == PriceOf(card)
            first == Calculate(price, Rules(card, price, TRUE), price).effective
            base == IF card.original # Absent THEN card.original ELSE price
            again == Calculate(base, Rules(card, base, FALSE), base).effective
<1>1. price \in Money /\ card.original \in Money
  BY PriceTyped, CardsAssumption DEF CardType
<1>2. base \in Money /\ base \in Nat /\ price \in Nat
  BY <1>1 DEF Money
<1>3. /\ base # Absent /\ offer.listed = base
      /\ offer.amount = IF first # Absent THEN first ELSE again
  <2>1. Normalised(card) = [base |-> base, effective |-> first]
    BY DEF Normalised
  <2>. HIDE DEF first, base, again
  <2>2. FinalPrice(card) =
          IF base = Absent THEN [listed |-> Absent, amount |-> Absent]
          ELSE [listed |-> base, amount |-> IF first # Absent THEN first ELSE again]
    BY <2>1 DEF FinalPrice, again
  <2>. QED
    BY <2>2
<1>4. first \in Nat
      /\ (first # Absent => /\ Cent <= first /\ (first <= price \/ first = Cent)
                            /\ card.second = "none" /\ card.voucher.off = Absent => first = price)
  BY <1>1, CardCalculated
<1>5. again \in Nat
      /\ (again # Absent => /\ Cent <= again /\ (again <= base \/ again = Cent)
                            /\ card.second = "none" /\ card.voucher.off = Absent => again = base)
  BY <1>2, CardCalculated
<1>6. IF card.original # Absent THEN offer.listed = card.original
      ELSE ~card.range /\ \E x \in card.mentions :
                            /\ x.amount = offer.listed /\ Min(x.shapes) \in Priced
                            /\ x.inCoupon => Min(x.shapes) < 6 \/ x.amount = card.coupon.base
  <2>1. CASE card.original # Absent
    BY <1>3, <2>1
  <2>2. CASE card.original = Absent
    BY <1>3, <2>2, PriceIsTold
  <2>. QED
    BY <2>1, <2>2
<1>. HIDE DEF first, again, base, price
<1>7. \/ offer.amount \in {offer.listed, price}
      \/ card.second # "none" \/ card.voucher.off # Absent
  <2>1. card.second \in {"none", "half", "free"}
    BY CardsAssumption DEF CardType
  <2>. QED
    BY <1>3, <1>4, <1>5, <2>1
<1>8. Cent <= offer.amount /\ offer.amount \in Nat
  BY <1>3, <1>4, <1>5
<1>9. offer.amount <= Max({offer.listed, price, Cent})
  <2>. DEFINE m == Max({base, price, Cent})
  <2>1. m \in Nat /\ base <= m /\ price <= m /\ Cent <= m /\ Cent \in Nat
    BY <1>2, MaxOfThree DEF Cent
  <2>. HIDE DEF m
  <2>2. offer.amount <= base \/ offer.amount <= price \/ offer.amount = Cent
    BY <1>3, <1>4, <1>5
  <2>3. offer.amount <= m
    BY <1>2, <1>8, <2>1, <2>2
  <2>. QED
    BY <1>3, <2>3 DEF m
<1>. QED
  BY <1>6, <1>7, <1>8, <1>9 DEF OffersAreEvidenced, price

\* The inductive invariant of the reading of prices.
PriceInv ==
    /\ stage \in {"start", "read", "priced", "raised", "quoted"}
    /\ stage \in {"read", "priced", "raised"} => card \in Cards /\ reading = ParsePrices(card)
    /\ stage = "priced" => offer = FinalPrice(card)
    /\ stage = "quoted" => /\ quote.listed \in Nat /\ quote.subtotal \in Nat
                           /\ quote.rules \in Seq(Rule)

\* Every step keeps it.
LEMMA PriceInvariant == PriceSpec => []PriceInv
<1>1. PriceInit => PriceInv
  BY DEF PriceInit, PriceInv
<1>2. PriceInv /\ [PriceNext]_priceVars => PriceInv'
  <2>. SUFFICES ASSUME PriceInv, [PriceNext]_priceVars PROVE PriceInv'
    OBVIOUS
  <2>1. CASE ReadCard
    BY <2>1 DEF ReadCard, PriceInv
  <2>2. CASE PriceCard
    <3>1. /\ stage = "read" /\ stage' = "priced" /\ offer' = FinalPrice(card)
          /\ UNCHANGED <<card, reading, quote>>
      BY <2>2 DEF PriceCard
    <3>2. FinalPrice(card') = FinalPrice(card) /\ ParsePrices(card') = ParsePrices(card)
      BY <3>1
    <3>. QED
      BY <3>1, <3>2 DEF PriceInv
  <2>3. CASE AbortComparison
    <3>1. stage = "read" /\ stage' = "raised" /\ UNCHANGED <<card, reading, offer, quote>>
      BY <2>3 DEF AbortComparison
    <3>2. ParsePrices(card') = ParsePrices(card)
      BY <3>1
    <3>. QED
      BY <3>1, <3>2 DEF PriceInv
  <2>4. CASE AskQuote
    <3>1. PICK l \in Amounts \cup {Absent}, s \in Amounts \cup {Absent}, rs \in RuleLists :
            quote' = [listed |-> l, rules |-> rs, subtotal |-> s] /\ stage' = "quoted"
      BY <2>4 DEF AskQuote
    <3>2. l \in Nat /\ s \in Nat /\ rs \in Seq(Rule)
      BY RulesAssumption DEF Absent
    <3>. QED
      BY <3>1, <3>2 DEF PriceInv
  <2>5. CASE UNCHANGED priceVars
    <3>1. UNCHANGED <<card, stage, reading, offer, quote>>
      BY <2>5 DEF priceVars
    <3>2. FinalPrice(card') = FinalPrice(card) /\ ParsePrices(card') = ParsePrices(card)
      BY <3>1
    <3>. QED
      BY <3>1, <3>2 DEF PriceInv
  <2>. QED
    BY <2>1, <2>2, <2>3, <2>4, <2>5 DEF PriceNext
<1>. QED
  BY <1>1, <1>2, PTL DEF PriceSpec

\* An offer of any card is worth what the card tells for one piece, or less through
\* a promotion that the card names, and is never free, for all cards.
THEOREM OffersEvidenced == PriceSpec => []OffersAreEvidenced
<1>1. PriceInv => OffersAreEvidenced
  <2>. SUFFICES ASSUME PriceInv, stage = "priced" PROVE OffersAreEvidenced
    BY DEF OffersAreEvidenced
  <2>. QED
    BY OfferIsEvidenced DEF PriceInv
<1>. QED
  BY <1>1, PriceInvariant, PTL

\* The parser resolves exactly the texts it gives a price for, and displays none
\* where the text has two of the same standing, or a range.
THEOREM ReadingsAbstain == PriceSpec => []ReadingAbstains
<1>1. PriceInv => ReadingAbstains
  <2>. SUFFICES ASSUME PriceInv, stage # "start", stage # "quoted" PROVE ReadingAbstains
    BY DEF ReadingAbstains
  <2>1. card \in Cards /\ reading = ParsePrices(card)
    BY DEF PriceInv
  <2>2. /\ reading.status = "RESOLVED" <=> reading.effective # Absent
        /\ reading.displayed # Absent => ~card.range /\ ~HasConflict(card)
    BY <2>1, ReadingIsSound
  <2>3. (reading.status = "RESOLVED") = (reading.effective # Absent)
    BY <2>2
  <2>4. ASSUME ~HasConflict(card), NEW a \in Candidates(card), NEW b \in Candidates(card),
               a.kind = "displayed", b.kind = "displayed", a.rank = b.rank,
               a.amount # b.amount
        PROVE  \E x \in Candidates(card) : x.kind = "displayed" /\ x.rank > a.rank
    BY <2>1, <2>4, NoConflict
  <2>. QED
    BY <2>2, <2>3, <2>4 DEF ReadingAbstains
<1>. QED
  BY <1>1, PriceInvariant, PTL

\* Whatever the rules and the order they are given in, a quote accounts for every
\* step, and without ratios the order does not matter.
THEOREM QuotesAccounted == PriceSpec => []QuotesAccount
<1>1. PriceInv => QuotesAccount
  BY Accounted DEF PriceInv
<1>. QED
  BY <1>1, PriceInvariant, PTL

-----------------------------------------------------------------------------
(* QuantityParser.parse_all.                                               *)

AllTitles == Titles \cup Requirements

Reading == [taken : SUBSET Match, until : Int]

\* What the patterns find in a title, one match at a time.
LEMMA MatchTyped ==
    ASSUME NEW t \in AllTitles, NEW m \in t.matches
    PROVE  /\ m \in Match /\ m.start \in Nat /\ m.end \in Nat /\ m.form \in 1..4
           /\ m.start < m.end /\ m.end <= t.length
<1>1. t \in TitleType /\ m \in Match
  BY TitlesAssumption DEF AllTitles, TitleType
<1>2. m.start < m.end /\ m.end <= t.length
  BY TitlesAssumption DEF AllTitles
<1>. QED
  BY <1>1, <1>2 DEF Match

\* At each position nothing is taken, because no measure starts there or one taken
\* before goes on, or a measure that starts there.
LEMMA TakenAt ==
    ASSUME NEW t \in AllTitles, NEW read \in Reading, NEW p \in Nat
    PROVE  LET next == TakeAt(read, p, t) IN
           /\ next \in Reading
           /\ \/ next = read /\ (p < read.until \/ \A m \in t.matches : m.form # 4 => m.start # p)
              \/ /\ p >= read.until
                 /\ \E m \in t.matches : /\ m.form # 4 /\ m.start = p
                                         /\ next.taken = read.taken \cup {m}
                                         /\ next.until = m.end
<1>. DEFINE here == {m \in t.matches : m.form # 4 /\ m.start = p}
            first == CHOOSE m \in here : \A n \in here : m.form <= n.form
            next == TakeAt(read, p, t)
<1>1. read.until \in Int /\ read.taken \in SUBSET Match
  BY DEF Reading
<1>2. CASE here = {} \/ p < read.until
  <2>1. next = read
    BY <1>2 DEF TakeAt
  <2>. QED
    BY <1>2, <2>1
<1>3. CASE here # {} /\ ~(p < read.until)
  <2>1. next = [taken |-> read.taken \cup {first}, until |-> first.end]
    BY <1>3 DEF TakeAt
  <2>2. \E m \in here : \A n \in here : m.form <= n.form
    <3>. DEFINE Forms == {m.form : m \in here}
    <3>1. Forms \subseteq Nat /\ Forms # {}
      BY <1>3, MatchTyped
    <3>2. PICK x \in Forms : \A y \in Forms : x <= y
      <4>. HIDE DEF Forms
      <4>. QED
        BY <3>1, LeastNumber
    <3>. QED
      BY <3>2
  <2>3. first \in here
    <3>. HIDE DEF here
    <3>. QED
      BY <2>2
  <2>. HIDE DEF first
  <2>4. first \in t.matches /\ first.form # 4 /\ first.start = p /\ first \in Match /\ first.end \in Nat
    BY <2>3, MatchTyped
  <2>5. next.taken = read.taken \cup {first} /\ next.until = first.end /\ next \in Reading
    BY <1>1, <2>1, <2>4 DEF Reading
  <2>6. p >= read.until
    BY <1>1, <1>3
  <2>. HIDE DEF next
  <2>. QED
    BY <2>4, <2>5, <2>6 DEF next
<1>. QED
  BY <1>2, <1>3

\* The title is read from its first position to its last.
LEMMA ScanComputed ==
    ASSUME NEW t \in AllTitles
    PROVE  LET at == Scan(t) IN
           /\ at \in [0..t.length -> Reading]
           /\ at[0] = NothingTaken
           /\ \A p \in 1..t.length : at[p] = TakeAt(at[p - 1], p - 1, t)
<1>. DEFINE n == t.length
            onward == [q \in (1..n) \X Reading |-> TakeAt(q[2], q[1] - 1, t)]
            Def(f) == [p \in 0..n |-> IF p = 0 THEN NothingTaken ELSE TakeAt(f[p - 1], p - 1, t)]
            at == Scan(t)
<1>1. n \in Nat
  BY TitlesAssumption DEF AllTitles, TitleType
<1>2. NothingTaken \in Reading
  BY DEF NothingTaken, Reading
<1>3. onward \in Steps(n, Reading)
  <2>1. ASSUME NEW q \in (1..n) \X Reading PROVE TakeAt(q[2], q[1] - 1, t) \in Reading
    <3>1. q[2] \in Reading /\ q[1] - 1 \in Nat
      BY <1>1
    <3>. QED
      BY <3>1, TakenAt
  <2>. QED
    BY <2>1 DEF Steps
<1>4. PICK f : Computes(f, n, Reading, NothingTaken, onward)
  <2>. HIDE DEF onward, n
  <2>. QED
    BY <1>1, <1>2, <1>3, StepByStep
<1>5. \A p \in 0..n : p = 0 \/ p \in 1..n
  BY <1>1
<1>6. f = Def(f)
  <2>1. ASSUME NEW p \in 0..n, p # 0
        PROVE  onward[<<p, f[p - 1]>>] = TakeAt(f[p - 1], p - 1, t)
    <3>1. p \in 1..n /\ f[p - 1] \in Reading
      BY <1>1, <1>4, <2>1 DEF Computes
    <3>. QED
      BY <3>1
  <2>. HIDE DEF onward
  <2>. QED
    BY <1>4, <1>5, <2>1 DEF Computes
<1>7. at = CHOOSE g : g = Def(g)
  BY DEF Scan
<1>8. at = Def(at)
  <2>. HIDE DEF Def, at
  <2>. QED
    BY <1>6, <1>7
<1>9. at[0] = NothingTaken /\ \A p \in 1..n : at[p] = TakeAt(at[p - 1], p - 1, t)
  <2>. HIDE DEF at
  <2>. QED
    BY <1>1, <1>8
<1>10. at \in [0..n -> Reading]
  <2>. DEFINE S == {p \in 0..n : at[p] \in Reading}
  <2>. HIDE DEF at
  <2>1. 0 \in S
    BY <1>1, <1>2, <1>9
  <2>2. ASSUME NEW p \in 0..(n - 1), p \in S PROVE p + 1 \in S
    <3>1. p + 1 \in 1..n /\ p + 1 \in 0..n /\ (p + 1) - 1 = p /\ p \in Nat
      BY <1>1
    <3>2. TakeAt(at[p], p, t) \in Reading
      BY <2>2, <3>1, TakenAt
    <3>3. at[p + 1] = TakeAt(at[(p + 1) - 1], (p + 1) - 1, t)
      BY <1>9, <3>1
    <3>. QED
      BY <3>1, <3>2, <3>3
  <2>3. \A p \in 0..n : p \in S
    <3>. HIDE DEF S, n
    <3>. QED
      BY <1>1, <2>1, <2>2, UpTo
  <2>. QED
    BY <1>8, <2>3
<1>. QED
  BY <1>9, <1>10

\* What was taken before a position: measures that start before it, apart from each
\* other, among them one that ends where the last does, and in one of them every
\* measure that starts before it.
TakenBefore(read, p, t) ==
    /\ \A m \in read.taken : /\ m \in t.matches /\ m.form # 4 /\ m.start < p
                             /\ m.end <= read.until
    /\ \A m, n \in read.taken : m = n \/ Apart(m, n)
    /\ read.until = -1 \/ \E m \in read.taken : m.end = read.until
    /\ \A m \in t.matches : m.form # 4 /\ m.start < p =>
           \E n \in read.taken : n.start <= m.start /\ m.start < n.end

\* One position keeps it.
LEMMA TakenKept ==
    ASSUME NEW t \in AllTitles, NEW read \in Reading, NEW p \in Nat, TakenBefore(read, p, t)
    PROVE  TakenBefore(TakeAt(read, p, t), p + 1, t)
<1>. DEFINE next == TakeAt(read, p, t)
<1>. USE DEF Apart
<1>0. next \in Reading /\ read.until \in Int
  BY TakenAt DEF Reading
<1>1. \A m \in t.matches : /\ m.start \in Nat /\ m.end \in Nat /\ m.start < m.end
                           /\ (m.start < p + 1 <=> m.start < p \/ m.start = p)
  BY MatchTyped
<1>2. ASSUME next = read, \A m \in t.matches : m.form # 4 => m.start # p
      PROVE  TakenBefore(next, p + 1, t)
  <2>. HIDE DEF next
  <2>1. \A m \in read.taken : m.start < p + 1
    BY <1>1 DEF TakenBefore
  <2>2. \A m \in t.matches : m.form # 4 /\ m.start < p + 1 => m.start < p
    BY <1>1, <1>2
  <2>. QED
    BY <1>2, <2>1, <2>2 DEF TakenBefore
<1>3. ASSUME next = read, p < read.until PROVE TakenBefore(next, p + 1, t)
  <2>. HIDE DEF next
  <2>1. \A m \in read.taken : m.start < p + 1
    BY <1>1 DEF TakenBefore
  <2>2. PICK last \in read.taken : last.end = read.until
    BY <1>0, <1>3 DEF TakenBefore
  <2>3. last.start <= p /\ p < last.end
    BY <1>1, <1>3, <2>2 DEF TakenBefore
  <2>4. \A m \in t.matches : m.form # 4 /\ m.start < p + 1 =>
            \E n \in read.taken : n.start <= m.start /\ m.start < n.end
    BY <1>1, <2>3 DEF TakenBefore
  <2>. QED
    BY <1>3, <2>1, <2>4 DEF TakenBefore
<1>4. ASSUME p >= read.until, NEW x \in t.matches, x.form # 4, x.start = p,
             next.taken = read.taken \cup {x}, next.until = x.end
      PROVE  TakenBefore(next, p + 1, t)
  <2>. HIDE DEF next
  <2>1. x.start < x.end /\ read.until <= x.start /\ x.start \in Nat /\ x.end \in Nat
    BY <1>0, <1>1, <1>4
  <2>2. \A m \in read.taken : m.end <= x.start /\ m.end <= x.end /\ m.start < p + 1
    BY <1>0, <1>1, <2>1 DEF TakenBefore
  <2>3. \A m \in next.taken : /\ m \in t.matches /\ m.form # 4 /\ m.start < p + 1
                              /\ m.end <= next.until
    BY <1>1, <1>4, <2>1, <2>2 DEF TakenBefore
  <2>4. \A m, n \in next.taken : m = n \/ Apart(m, n)
    BY <1>4, <2>2 DEF TakenBefore
  <2>5. \E m \in next.taken : m.end = next.until
    BY <1>4
  <2>6. \A m \in t.matches : m.form # 4 /\ m.start < p + 1 =>
            \E n \in next.taken : n.start <= m.start /\ m.start < n.end
    <3>1. SUFFICES ASSUME NEW m \in t.matches, m.form # 4, m.start < p + 1
                   PROVE  \E n \in next.taken : n.start <= m.start /\ m.start < n.end
      OBVIOUS
    <3>2. CASE m.start < p
      BY <1>4, <3>1, <3>2 DEF TakenBefore
    <3>3. CASE m.start = p
      BY <1>4, <2>1, <3>3
    <3>. QED
      BY <1>1, <3>1, <3>2, <3>3
  <2>. QED
    BY <2>3, <2>4, <2>5, <2>6 DEF TakenBefore
<1>. DEFINE None == \A m \in t.matches : m.form # 4 => m.start # p
            Taken == \E m \in t.matches : /\ m.form # 4 /\ m.start = p
                                          /\ next.taken = read.taken \cup {m}
                                          /\ next.until = m.end
<1>5. (next = read /\ (p < read.until \/ None)) \/ (p >= read.until /\ Taken)
  <2>. HIDE DEF next
  <2>. QED
    BY TakenAt DEF next
<1>6. ASSUME p >= read.until, Taken PROVE TakenBefore(next, p + 1, t)
  <2>1. PICK m \in t.matches : /\ m.form # 4 /\ m.start = p
                               /\ next.taken = read.taken \cup {m}
                               /\ next.until = m.end
    BY <1>6
  <2>. HIDE DEF next
  <2>. QED
    BY <1>4, <1>6, <2>1
<1>7. TakenBefore(next, p + 1, t)
  <2>. HIDE DEF next, Taken
  <2>. QED
    BY <1>2, <1>3, <1>5, <1>6
<1>. QED
  BY <1>7 DEF next

\* So it holds at the end of the title.
LEMMA TakenInTitle ==
    ASSUME NEW t \in AllTitles
    PROVE  Scan(t)[t.length] \in Reading /\ TakenBefore(Scan(t)[t.length], t.length, t)
<1>. DEFINE n == t.length
            at == Scan(t)
            S == {p \in 0..n : TakenBefore(at[p], p, t)}
<1>. HIDE DEF at
<1>1. n \in Nat
  BY TitlesAssumption DEF AllTitles, TitleType
<1>2. /\ at \in [0..n -> Reading] /\ at[0] = NothingTaken
      /\ \A p \in 1..n : at[p] = TakeAt(at[p - 1], p - 1, t)
  BY ScanComputed DEF at
<1>3. 0 \in S
  <2>1. \A m \in t.matches : ~(m.start < 0)
    BY MatchTyped
  <2>. QED
    BY <1>1, <1>2, <2>1 DEF NothingTaken, TakenBefore
<1>4. ASSUME NEW p \in 0..(n - 1), p \in S PROVE p + 1 \in S
  <2>1. p + 1 \in 1..n /\ p + 1 \in 0..n /\ (p + 1) - 1 = p /\ p \in Nat /\ p \in 0..n
    BY <1>1
  <2>2. at[p] \in Reading /\ TakenBefore(at[p], p, t)
    BY <1>2, <1>4, <2>1
  <2>3. TakenBefore(TakeAt(at[p], p, t), p + 1, t)
    BY <2>1, <2>2, TakenKept
  <2>4. at[p + 1] = TakeAt(at[(p + 1) - 1], (p + 1) - 1, t)
    BY <1>2, <2>1
  <2>. QED
    BY <2>1, <2>3, <2>4
<1>5. \A p \in 0..n : p \in S
  <2>. HIDE DEF S, n
  <2>. QED
    BY <1>1, <1>3, <1>4, UpTo
<1>6. n \in 0..n
  BY <1>1
<1>. QED
  BY <1>2, <1>5, <1>6 DEF at

\* Quantities are matches of the title and apart, and every measure starts in one.
LEMMA QuantitiesApart ==
    ASSUME NEW t \in AllTitles
    PROVE  /\ Quantities(t) \subseteq t.matches
           /\ \A m, n \in Quantities(t) : m = n \/ Apart(m, n)
           /\ \A m \in t.matches \ Quantities(t) :
                  m.form # 4 => \E n \in Quantities(t) : n.start <= m.start /\ m.start < n.end
<1>. DEFINE read == Scan(t)[t.length]
            counts == {m \in t.matches : m.form = 4 /\ m.start >= read.until}
<1>1. Quantities(t) = read.taken \cup counts
  BY DEF Quantities, Measures
<1>2. read \in Reading /\ TakenBefore(read, t.length, t)
  BY TakenInTitle
<1>. HIDE DEF read
<1>3. /\ t.length \in Nat /\ read.until \in Int
      /\ \A m \in t.matches : /\ m.start \in Nat /\ m.end \in Nat
                              /\ m.start < m.end /\ m.end <= t.length
  BY <1>2, MatchTyped, TitlesAssumption DEF AllTitles, TitleType, Reading
<1>4. read.taken \cup counts \subseteq t.matches
  BY <1>2 DEF TakenBefore
<1>5. ASSUME NEW m \in read.taken \cup counts, NEW n \in read.taken \cup counts
      PROVE  m = n \/ Apart(m, n)
  <2>1. CASE m \in read.taken /\ n \in read.taken
    BY <1>2, <2>1 DEF TakenBefore
  <2>2. CASE m \in counts /\ n \in counts
    BY <2>2, TitlesAssumption DEF AllTitles
  <2>3. CASE m \in read.taken /\ n \in counts
    <3>1. m.end <= read.until /\ read.until <= n.start /\ m.end \in Nat /\ n.start \in Nat
      BY <1>2, <1>3, <2>3 DEF TakenBefore
    <3>. QED
      BY <1>3, <3>1 DEF Apart
  <2>4. CASE m \in counts /\ n \in read.taken
    <3>1. n.end <= read.until /\ read.until <= m.start /\ n.end \in Nat /\ m.start \in Nat
      BY <1>2, <1>3, <2>4 DEF TakenBefore
    <3>. QED
      BY <1>3, <3>1 DEF Apart
  <2>. QED
    BY <2>1, <2>2, <2>3, <2>4
<1>6. ASSUME NEW m \in t.matches, m.form # 4
      PROVE  \E n \in read.taken : n.start <= m.start /\ m.start < n.end
  BY <1>2, <1>3, <1>6 DEF TakenBefore
<1>. QED
  BY <1>1, <1>4, <1>5, <1>6

-----------------------------------------------------------------------------
(* ProductParser.parse and ProductMatcher.match.                           *)

\* The primary quantity is one of the product.
LEMMA PrimaryFound ==
    ASSUME NEW t \in AllTitles, ProductQuantities(t) # {}
    PROVE  Primary(t) \in ProductQuantities(t) /\ Primary(t) \in Match
<1>. DEFINE Starts == {m.start : m \in ProductQuantities(t)}
<1>1. ProductQuantities(t) \subseteq t.matches
  BY QuantitiesApart DEF ProductQuantities
<1>2. Starts \subseteq Nat /\ Starts # {}
  BY <1>1, MatchTyped
<1>3. PICK x \in Starts : \A y \in Starts : x <= y
  <2>. HIDE DEF Starts
  <2>. QED
    BY <1>2, LeastNumber
<1>4. \E m \in ProductQuantities(t) : \A n \in ProductQuantities(t) : m.start <= n.start
  BY <1>3
<1>5. Primary(t) \in ProductQuantities(t)
  BY <1>4 DEF Primary
<1>. QED
  BY <1>1, <1>5, MatchTyped

\* A title has finitely many quantities, as no two start alike.
LEMMA QuantitiesFinite == ASSUME NEW t \in AllTitles PROVE IsFiniteSet(ProductQuantities(t))
<1>. DEFINE Q == ProductQuantities(t)
            T == 0..t.length
            f == [m \in Q |-> m.start]
<1>1. Q \subseteq t.matches /\ \A m, n \in Q : m = n \/ Apart(m, n)
  BY QuantitiesApart DEF ProductQuantities
<1>2. t.length \in Nat
  BY TitlesAssumption DEF AllTitles, TitleType
<1>3. \A m \in Q : m.start \in T /\ m.start \in Nat /\ m.end \in Nat /\ m.start < m.end
  BY <1>1, <1>2, MatchTyped
<1>4. \A m, n \in Q : m.start = n.start => m = n
  BY <1>1, <1>3 DEF Apart
<1>5. IsFiniteSet(T)
  BY <1>2, FS_Interval
<1>. HIDE DEF Q, T
<1>6. f \in Injection(Q, T)
  BY <1>3, <1>4 DEF Injection, IsInjective
<1>7. IsFiniteSet(Q)
  BY <1>5, <1>6, FS_Injection
<1>. QED
  BY <1>7 DEF Q

\* A finite set with not more than one element has no two.
LEMMA AtMostOne ==
    ASSUME NEW S, IsFiniteSet(S), ~(Cardinality(S) > 1)
    PROVE  \A x, y \in S : x = y
<1>1. Cardinality(S) \in Nat
  BY FS_CardinalityType
<1>2. Cardinality(S) = 0 \/ Cardinality(S) = 1
  BY <1>1
<1>3. CASE Cardinality(S) = 0
  BY <1>3, FS_EmptySet
<1>4. CASE Cardinality(S) = 1
  BY <1>4, FS_Singleton
<1>. QED
  BY <1>2, <1>3, <1>4

\* A quantity that is there has pieces, and the rules are sure of it to 88 in a title
\* without a combo or words that need a review.
LEMMA RulesRead ==
    ASSUME NEW t \in AllTitles
    PROVE  LET r == RuleResult(t) IN
           /\ r.source = "RULE" /\ r.ambiguous = Ambiguous(t)
           /\ r.quantity # NoQuantity =>
                /\ r.quantity.count \in Nat \ {0} /\ r.quantity.amount \in Nat
           /\ ~Ambiguous(t) => /\ r.quantity # NoQuantity /\ ~t.combo /\ ~t.review
                               /\ t.gift \/ \A m, n \in ProductQuantities(t) : m = n
                               /\ r.confidence \in Nat /\ r.confidence >= 88
<1>. DEFINE r == RuleResult(t)
            p == Primary(t)
            Q == ProductQuantities(t)
<1>1. /\ r.source = "RULE" /\ r.ambiguous = Ambiguous(t) /\ r.confidence = Confidence(t)
      /\ r.quantity = IF Q = {} THEN NoQuantity ELSE QuantityOf(p)
  BY DEF RuleResult
<1>. HIDE DEF r
<1>2. ASSUME Q # {}
      PROVE  /\ QuantityOf(p).count \in Nat \ {0} /\ QuantityOf(p).amount \in Nat
             /\ QuantityOf(p) # NoQuantity
             /\ ConfidenceOf(p) \in {88, 94, 98}
  <2>1. p \in Match
    BY <1>2, PrimaryFound
  <2>. HIDE DEF p
  <2>2. p.count \in Nat \ {0} /\ p.amount \in Nat
    BY <2>1 DEF Match
  <2>3. QuantityOf(p).count = p.count /\ QuantityOf(p).amount \in {0, p.amount}
    BY DEF QuantityOf
  <2>4. NoQuantity.count = 0
    BY DEF NoQuantity
  <2>5. QuantityOf(p) # NoQuantity
    BY <2>2, <2>3, <2>4
  <2>6. ConfidenceOf(p) \in {88, 94, 98}
    BY DEF ConfidenceOf
  <2>. QED
    BY <2>2, <2>3, <2>5, <2>6
<1>3. ASSUME ~Ambiguous(t)
      PROVE  Q # {} /\ ~t.combo /\ ~t.review /\ (t.gift \/ ~(Cardinality(Q) > 1))
  BY <1>3 DEF Ambiguous
<1>4. ASSUME ~Ambiguous(t) PROVE r.confidence \in Nat /\ r.confidence >= 88
  <2>. DEFINE sure == ConfidenceOf(p)
  <2>1. sure \in {88, 94, 98} /\ Q # {} /\ ~t.combo /\ ~t.review
    BY <1>2, <1>3, <1>4
  <2>. HIDE DEF sure, p, Q
  <2>2. Confidence(t) = IF t.promoted THEN Min({100, sure + 1}) ELSE sure
    BY <2>1 DEF Confidence, sure, p, Q
  <2>3. sure + 1 \in Nat /\ sure + 1 >= 88 /\ sure + 1 <= 100 /\ sure \in Nat /\ sure >= 88
    BY <2>1
  <2>4. Min({100, sure + 1}) = sure + 1
    <3>1. \A y \in {100, sure + 1} : sure + 1 <= y
      BY <2>3
    <3>2. Min({100, sure + 1}) \in {100, sure + 1}
          /\ \A y \in {100, sure + 1} : Min({100, sure + 1}) <= y
      BY <3>1 DEF Min
    <3>. QED
      BY <2>3, <3>2
  <2>. QED
    BY <1>1, <2>2, <2>3, <2>4
<1>5. ASSUME ~(Cardinality(Q) > 1) PROVE \A m, n \in Q : m = n
  <2>1. IsFiniteSet(Q)
    BY QuantitiesFinite
  <2>. HIDE DEF Q
  <2>. QED
    BY <1>5, <2>1, AtMostOne
<1>6. ~Ambiguous(t) => t.gift \/ \A m, n \in Q : m = n
  BY <1>3, <1>5
<1>7. r.quantity # NoQuantity =>
        r.quantity.count \in Nat \ {0} /\ r.quantity.amount \in Nat
  BY <1>1, <1>2
<1>8. ~Ambiguous(t) => r.quantity # NoQuantity /\ ~t.combo /\ ~t.review
  BY <1>1, <1>2, <1>3
<1>. HIDE DEF Q
<1>. QED
  BY <1>1, <1>4, <1>6, <1>7, <1>8 DEF r, Q

\* Two products that match have the same content, and there is some.
LEMMA SameContent ==
    ASSUME NEW s \in AllTitles, NEW t \in AllTitles,
           NEW have, have.quantity = RuleResult(t).quantity, Matches(RuleResult(s), have)
    PROVE  LET want == RuleResult(s).quantity IN
           /\ Content(want) = Content(have.quantity) /\ Content(want) > 0
           /\ want.count = have.quantity.count
<1>. DEFINE want == RuleResult(s).quantity
<1>1. want # NoQuantity /\ want.count = have.quantity.count /\ want.amount = have.quantity.amount
  BY DEF Matches
<1>2. want.count \in Nat \ {0} /\ want.amount \in Nat
  BY <1>1, RulesRead
<1>3. Content(want) = Content(have.quantity)
  BY <1>1 DEF Content
<1>. HIDE DEF want
<1>4. Content(want) > 0
  <2>1. want.count > 0 /\ (want.amount # 0 => want.amount * want.count > 0)
    BY <1>2
  <2>. QED
    BY <2>1 DEF Content
<1>. QED
  BY <1>1, <1>3, <1>4 DEF want

\* The inductive invariant of the reading of titles: a result is the rules' own, or
\* that with another source, or the model's.
TitleInv ==
    /\ verdict \in BOOLEAN
    /\ parsed.source \in {"none", "RULE", "RULE_FALLBACK", "LLM"}
    /\ parsed = Unread => wish = Unread /\ ~verdict
    /\ parsed # Unread => title \in Titles /\ parsed.source # "none"
    /\ parsed.source = "RULE" => parsed = RuleResult(title)
    /\ parsed.source = "RULE_FALLBACK" => parsed = FellBack(RuleResult(title))
    /\ parsed.source = "LLM" => \E s \in Suggestions : parsed = ModelResult(s)
    /\ verdict => /\ parsed.source = "RULE"
                  /\ \E t \in Requirements : wish = RuleResult(t) /\ Matches(wish, parsed)
    /\ wish # Unread => parsed.source = "RULE"

\* Every step keeps it.
LEMMA TitleInvariant == ReadingSpec => []TitleInv
<1>1. ReadingInit => TitleInv
  <2>1. Unread.source = "none"
    BY DEF Unread
  <2>. QED
    BY <2>1 DEF ReadingInit, TitleInv
<1>2. TitleInv /\ [ReadingNext]_readingVars => TitleInv'
  <2>. SUFFICES ASSUME TitleInv, [ReadingNext]_readingVars PROVE TitleInv'
    OBVIOUS
  <2>1. CASE ReadTitle
    <3>1. PICK t \in Titles : title' = t /\ parsed' = RuleResult(t)
      BY <2>1 DEF ReadTitle
    <3>2. parsed = Unread /\ UNCHANGED <<wish, verdict>> /\ wish = Unread /\ ~verdict
      BY <2>1 DEF ReadTitle, TitleInv
    <3>3. parsed'.source = "RULE" /\ parsed' # Unread
      BY <3>1 DEF RuleResult, Unread
    <3>4. parsed' = RuleResult(title')
      BY <3>1
    <3>. QED
      BY <3>1, <3>2, <3>3, <3>4 DEF TitleInv
  <2>2. CASE AskModel
    <3>1. parsed.source = "RULE" /\ wish = Unread /\ UNCHANGED <<title, wish, verdict>>
      BY <2>2 DEF AskModel
    <3>2. parsed # Unread /\ title \in Titles /\ parsed = RuleResult(title)
      BY <3>1 DEF TitleInv, Unread
    <3>3. ~verdict
      <4>1. \A t : RuleResult(t) # Unread
        <5>1. \A t : RuleResult(t).source = "RULE"
          BY DEF RuleResult
        <5>. QED
          BY <5>1 DEF Unread
      <4>. QED
        BY <3>1, <4>1 DEF TitleInv
    <3>4. \/ parsed' = FellBack(parsed)
          \/ \E s \in Suggestions : parsed' = ModelResult(s)
      BY <2>2 DEF AskModel
    <3>5. CASE parsed' = FellBack(parsed)
      <4>1. parsed'.source = "RULE_FALLBACK"
        BY <3>2, <3>5 DEF FellBack, RuleResult
      <4>2. parsed' = FellBack(RuleResult(title')) /\ parsed' # Unread
        BY <3>1, <3>2, <3>5, <4>1 DEF Unread
      <4>. QED
        BY <3>1, <3>2, <3>3, <4>1, <4>2 DEF TitleInv
    <3>6. CASE \E s \in Suggestions : parsed' = ModelResult(s)
      <4>1. parsed'.source = "LLM"
        BY <3>6 DEF ModelResult
      <4>2. parsed' # Unread
        BY <4>1 DEF Unread
      <4>. QED
        BY <3>1, <3>2, <3>3, <3>6, <4>1, <4>2 DEF TitleInv
    <3>. QED
      BY <3>4, <3>5, <3>6
  <2>3. CASE MatchProduct
    <3>1. PICK t \in Requirements : wish' = RuleResult(t) /\ verdict' = Matches(RuleResult(t), parsed)
      BY <2>3 DEF MatchProduct
    <3>2. parsed.source = "RULE" /\ UNCHANGED <<title, parsed>>
      BY <2>3 DEF MatchProduct
    <3>3. verdict' \in BOOLEAN
      BY <3>1 DEF Matches
    <3>4. RuleResult(title') = RuleResult(title) /\ parsed # Unread
      BY <3>2 DEF Unread
    <3>. QED
      BY <3>1, <3>2, <3>3, <3>4 DEF TitleInv
  <2>4. CASE UNCHANGED readingVars
    <3>1. UNCHANGED <<title, parsed, wish, verdict>>
      BY <2>4 DEF readingVars
    <3>2. RuleResult(title') = RuleResult(title)
      BY <3>1
    <3>. QED
      BY <3>1, <3>2 DEF TitleInv
  <2>. QED
    BY <2>1, <2>2, <2>3, <2>4 DEF ReadingNext
<1>. QED
  BY <1>1, <1>2, PTL DEF ReadingSpec

\* No two quantities of a title overlap, every measure that was left out starts in one
\* that was taken, and products that match hold the same content in as many pieces:
\* for every title whatever the patterns find in it.
THEOREM QuantitiesCounted == ReadingSpec => []QuantitiesCount
<1>1. TitleInv => QuantitiesCount
  <2>. SUFFICES ASSUME TitleInv PROVE QuantitiesCount
    OBVIOUS
  <2>1. ASSUME parsed # Unread
        PROVE  /\ \A m, n \in Quantities(title) : m = n \/ Apart(m, n)
               /\ \A m \in title.matches \ Quantities(title) :
                      m.form # 4 => \E n \in Quantities(title) : n.start <= m.start /\ m.start < n.end
    <3>1. title \in AllTitles
      BY <2>1 DEF TitleInv, AllTitles
    <3>. QED
      BY <3>1, QuantitiesApart
  <2>2. ASSUME verdict
        PROVE  /\ Content(wish.quantity) = Content(parsed.quantity)
               /\ Content(wish.quantity) > 0
               /\ wish.quantity.count = parsed.quantity.count
    <3>1. PICK t \in Requirements : wish = RuleResult(t) /\ Matches(wish, parsed)
      BY <2>2 DEF TitleInv
    <3>2. parsed = RuleResult(title) /\ title \in AllTitles /\ t \in AllTitles
      BY <2>2, <3>1 DEF TitleInv, AllTitles, Unread
    <3>3. parsed.quantity = RuleResult(title).quantity /\ Matches(RuleResult(t), parsed)
      BY <3>1, <3>2
    <3>. QED
      BY <3>1, <3>2, <3>3, SameContent
  <2>. QED
    BY <2>1, <2>2 DEF QuantitiesCount
<1>. QED
  BY <1>1, TitleInvariant, PTL

\* A result that is not ambiguous rests on one quantity of a plain title, or on a model
\* that is sure enough, if the threshold is not above what the rules give a bare count.
THEOREM CertaintyEarned == ASSUME Threshold <= 88 PROVE ReadingSpec => []CertaintyIsEarned
<1>1. TitleInv => CertaintyIsEarned
  <2>. SUFFICES ASSUME TitleInv, parsed # Unread, ~parsed.ambiguous
                PROVE  IF parsed.source = "LLM" THEN parsed.confidence >= Threshold
                       ELSE /\ parsed.quantity # NoQuantity /\ ~title.combo /\ ~title.review
                            /\ title.gift \/ \A m, n \in ProductQuantities(title) : m = n
                            /\ parsed.confidence >= Threshold
    BY DEF CertaintyIsEarned
  <2>1. title \in AllTitles /\ parsed.source \in {"RULE", "RULE_FALLBACK", "LLM"}
    BY DEF TitleInv, AllTitles
  <2>2. CASE parsed.source = "LLM"
    <3>1. PICK s \in Suggestions : parsed = ModelResult(s)
      BY <2>2 DEF TitleInv
    <3>2. ~(s.confidence < Threshold) /\ parsed.confidence = s.confidence
      BY <3>1 DEF ModelResult
    <3>3. s.confidence \in Int /\ Threshold \in Int
      BY SuggestionsAssumption, ThresholdAssumption DEF Suggestion
    <3>4. parsed.confidence >= Threshold
      BY <3>2, <3>3
    <3>. QED
      BY <2>2, <3>4
  <2>3. CASE parsed.source # "LLM"
    <3>. DEFINE r == RuleResult(title)
    <3>1. parsed = r \/ parsed = FellBack(r)
      BY <2>1, <2>3 DEF TitleInv
    <3>2. /\ parsed.quantity = r.quantity /\ parsed.ambiguous = r.ambiguous
          /\ parsed.confidence = r.confidence
      BY <3>1 DEF FellBack, RuleResult
    <3>. HIDE DEF r
    <3>3. ~Ambiguous(title)
      BY <2>1, <3>2, RulesRead DEF r
    <3>4. /\ parsed.quantity # NoQuantity /\ ~title.combo /\ ~title.review
          /\ title.gift \/ \A m, n \in ProductQuantities(title) : m = n
          /\ parsed.confidence \in Nat /\ parsed.confidence >= 88
      BY <2>1, <3>2, <3>3, RulesRead DEF r
    <3>5. parsed.confidence >= Threshold
      BY <3>4, ThresholdAssumption
    <3>. QED
      BY <2>3, <3>4, <3>5
  <2>. QED
    BY <2>2, <2>3
<1>. QED
  BY <1>1, TitleInvariant, PTL

-----------------------------------------------------------------------------
(* TargetMatcher.                                                          *)

\* What a screen is.
LEMMA LayoutTyped ==
    ASSUME NEW l \in Layouts
    PROVE  /\ Len(l.nodes) \in Nat /\ DOMAIN l.nodes = 1..Len(l.nodes)
           /\ \A i \in DOMAIN l.nodes : /\ N(l, i).parent \in Nat /\ N(l, i).slot \in Nat
                                        /\ N(l, i).slot # 0
<1>1. l.nodes \in Seq(Node)
  BY LayoutsAssumption
<1>2. \A i \in DOMAIN l.nodes : l.nodes[i] \in Node
  BY <1>1
<1>3. \A i \in DOMAIN l.nodes : N(l, i).parent \in Nat /\ N(l, i).slot \in Nat
  BY <1>2 DEF N, Node
<1>. QED
  BY <1>1, <1>3, LayoutsAssumption

\* A set of one element has that one to choose.
LEMMA OnlyOne ==
    ASSUME NEW S, Cardinality(S) = 1, IsFiniteSet(S)
    PROVE  \E x : S = {x}
BY FS_Singleton

\* The least of some of the stages.
LEMMA FirstStage ==
    ASSUME NEW H, H \subseteq 1..6, H # {}
    PROVE  Min(H) \in H /\ \A k \in H : Min(H) <= k
<1>1. \E x \in H : \A y \in H : x <= y
  <2>1. H \subseteq Nat
    OBVIOUS
  <2>. QED
    BY <2>1, LeastNumber
<1>. QED
  BY <1>1 DEF Min

\* Of some percentages one is the greatest.
LEMMA GreatestPercent ==
    ASSUME NEW T, T \subseteq 0..100, T # {}
    PROVE  \E x \in T : \A y \in T : y <= x
<1>. DEFINE U == {100 - x : x \in T}
<1>1. U \subseteq Nat /\ U # {}
  <2>1. \A x \in T : 100 - x \in Nat
    <3>1. \A x \in 0..100 : 100 - x \in Nat
      OBVIOUS
    <3>. QED
      BY <3>1
  <2>2. PICK x \in T : TRUE
    OBVIOUS
  <2>3. 100 - x \in U
    BY <2>2
  <2>. QED
    BY <2>1, <2>3
<1>2. PICK u \in U : \A v \in U : u <= v
  <2>. HIDE DEF U
  <2>. QED
    BY <1>1, LeastNumber
<1>3. PICK x \in T : u = 100 - x
  OBVIOUS
<1>4. \A y \in T : 100 - x <= 100 - y
  BY <1>2, <1>3
<1>5. \A y \in T : y <= x
  BY <1>4
<1>. QED
  BY <1>5

\* The score of a node is a percentage.
LEMMA ScoreTyped ==
    ASSUME NEW l \in Layouts, NEW t \in Targets, NEW i \in DOMAIN l.nodes
    PROVE  Score(l, t, i) \in 0..100
<1>. DEFINE T == {0} \cup {Ratio[<<p[1], Normal[p[2]]>>] : p \in Queries(t) \X Values(l, i)}
<1>1. Queries(t) \subseteq Words
  BY TargetsAssumption DEF Queries, Target
<1>2. Values(l, i) \subseteq Words
  <2>1. l.nodes[i] \in Node
    BY LayoutsAssumption
  <2>. QED
    BY <2>1 DEF Node, Values, N, Text
<1>3. T \subseteq 0..100 /\ T # {}
  <2>1. \A w \in Words : Normal[w] \in Words
    BY TargetsAssumption
  <2>2. \A p \in Words \X Words : Ratio[p] \in 0..100
    BY TargetsAssumption
  <2>3. \A p \in Queries(t) \X Values(l, i) : <<p[1], Normal[p[2]]>> \in Words \X Words
    BY <1>1, <1>2, <2>1
  <2>4. \A p \in Queries(t) \X Values(l, i) : Ratio[<<p[1], Normal[p[2]]>>] \in 0..100
    BY <2>2, <2>3
  <2>5. 0 \in 0..100
    OBVIOUS
  <2>. QED
    BY <2>4, <2>5
<1>4. \E x \in T : \A y \in T : y <= x
  <2>. HIDE DEF T
  <2>. QED
    BY <1>3, GreatestPercent
<1>5. Max(T) \in T
  <2>1. \E x \in T : \A y \in T : x >= y
    <3>1. \A x, y \in T : y <= x => x >= y
      <4>. HIDE DEF T
      <4>. QED
        BY <1>3
    <3>. HIDE DEF T
    <3>. QED
      BY <1>4, <3>1
  <2>. HIDE DEF T
  <2>. QED
    BY <2>1 DEF Max
<1>6. Score(l, t, i) = Max(T)
  BY DEF Score
<1>. HIDE DEF T
<1>. QED
  BY <1>3, <1>5, <1>6

\* Each stage finds some of the nodes.
LEMMA SixStages ==
    ASSUME NEW l, NEW nodes, NEW t
    PROVE  /\ DOMAIN Stages(l, nodes, t) = 1..6
           /\ \A k \in 1..6 : Stages(l, nodes, t)[k] \subseteq nodes
<1>. DEFINE s1 == {i \in nodes : t.resource # "" /\ N(l, i).resource = t.resource}
            s2 == {i \in nodes : i = t.node}
            s3 == {i \in nodes : t.exact \cap Values(l, i) # {}}
            s4 == {i \in nodes : Queries(t) \cap {Normal[v] : v \in Values(l, i)} # {}}
            s5 == Closest(l, nodes, t)
            s6 == {i \in nodes : t.bounds # 0 /\ N(l, i).bounds = t.bounds}
<1>1. Stages(l, nodes, t) = <<s1, s2, s3, s4, s5, s6>>
  BY DEF Stages
<1>2. /\ s1 \subseteq nodes /\ s2 \subseteq nodes /\ s3 \subseteq nodes /\ s4 \subseteq nodes
      /\ s5 \subseteq nodes /\ s6 \subseteq nodes
  BY DEF Closest
<1>. HIDE DEF s1, s2, s3, s4, s5, s6
<1>3. DOMAIN Stages(l, nodes, t) = 1..6
  BY <1>1
<1>4. ASSUME NEW k \in 1..6 PROVE Stages(l, nodes, t)[k] \subseteq nodes
  <2>1. k = 1 \/ k = 2 \/ k = 3 \/ k = 4 \/ k = 5 \/ k = 6
    OBVIOUS
  <2>. QED
    BY <1>1, <1>2, <2>1
<1>. QED
  BY <1>3, <1>4

\* What comes closest is still closest among fewer nodes, and when nothing comes
\* close nothing does among fewer.
LEMMA ClosestOfFewer ==
    ASSUME NEW l \in Layouts, NEW nodes, nodes \subseteq DOMAIN l.nodes, NEW fewer,
           fewer \subseteq nodes, NEW t \in Targets
    PROVE  /\ Closest(l, nodes, t) = {} => Closest(l, fewer, t) = {}
           /\ \A x \in fewer : Closest(l, nodes, t) = {x} => Closest(l, fewer, t) = {x}
<1>. DEFINE sc(i) == Score(l, t, i)
            F == {i \in nodes : sc(i) >= FuzzyThreshold}
            G == {i \in fewer : sc(i) >= FuzzyThreshold}
<1>1. \A i \in nodes : sc(i) \in 0..100
  BY ScoreTyped
<1>. HIDE DEF sc
<1>2. /\ Closest(l, nodes, t) = {i \in F : \A j \in F : sc(j) - sc(i) < FuzzyBand}
      /\ Closest(l, fewer, t) = {i \in G : \A j \in G : sc(j) - sc(i) < FuzzyBand}
  BY DEF Closest, sc
<1>3. G = F \cap fewer /\ F \subseteq nodes
  OBVIOUS
<1>. HIDE DEF F, G
<1>4. ASSUME F # {} PROVE \E m \in F : \A j \in F : sc(j) <= sc(m)
  <2>. DEFINE T == {sc(i) : i \in F}
  <2>1. T \subseteq 0..100 /\ T # {}
    BY <1>1, <1>3, <1>4
  <2>2. PICK x \in T : \A y \in T : y <= x
    <3>. HIDE DEF T
    <3>. QED
      BY <2>1, GreatestPercent
  <2>3. PICK m \in F : x = sc(m)
    OBVIOUS
  <2>4. \A j \in F : sc(j) \in T
    OBVIOUS
  <2>. QED
    BY <2>2, <2>3, <2>4
<1>5. ASSUME NEW m \in F, \A j \in F : sc(j) <= sc(m) PROVE m \in Closest(l, nodes, t)
  <2>1. \A j \in F : sc(j) - sc(m) < 3
    BY <1>1, <1>3, <1>5
  <2>. QED
    BY <1>2, <2>1 DEF FuzzyBand
<1>6. ASSUME Closest(l, nodes, t) = {} PROVE Closest(l, fewer, t) = {}
  BY <1>2, <1>3, <1>4, <1>5, <1>6
<1>7. ASSUME NEW x \in fewer, Closest(l, nodes, t) = {x} PROVE Closest(l, fewer, t) = {x}
  <2>1. x \in F /\ x \in G /\ \A j \in F : sc(j) - sc(x) < FuzzyBand
    BY <1>2, <1>3, <1>7
  <2>2. \A j \in F : sc(j) <= sc(x)
    <3>1. PICK m \in F : \A j \in F : sc(j) <= sc(m)
      BY <1>4, <2>1
    <3>2. m = x
      BY <1>5, <1>7, <3>1
    <3>. QED
      BY <3>1, <3>2
  <2>3. x \in Closest(l, fewer, t)
    BY <1>2, <1>3, <2>1
  <2>4. ASSUME NEW y \in Closest(l, fewer, t), y # x PROVE FALSE
    <3>1. y \in F /\ sc(x) - sc(y) < FuzzyBand
      BY <1>2, <1>3, <2>1, <2>4
    <3>2. \A j \in F : sc(j) - sc(y) < 3
      <4>1. sc(x) \in 0..100 /\ sc(y) \in 0..100 /\ \A j \in F : sc(j) \in 0..100
        BY <1>1, <1>3, <2>1, <3>1
      <4>. QED
        BY <2>2, <3>1, <4>1 DEF FuzzyBand
    <3>3. y \in Closest(l, nodes, t)
      BY <1>2, <3>1, <3>2 DEF FuzzyBand
    <3>. QED
      BY <1>7, <2>4, <3>3
  <2>. QED
    BY <2>3, <2>4
<1>. QED
  BY <1>6, <1>7

\* A stage that finds nothing finds nothing among fewer nodes, and one that finds
\* a single node that is left finds that one.
SameInStages(l, nodes, fewer, t) ==
    \A k \in 1..6 :
        /\ Stages(l, nodes, t)[k] = {} => Stages(l, fewer, t)[k] = {}
        /\ \A x \in fewer : Stages(l, nodes, t)[k] = {x} => Stages(l, fewer, t)[k] = {x}

\* So does every stage.
LEMMA FewerInStages ==
    ASSUME NEW l \in Layouts, NEW nodes \in SUBSET DOMAIN l.nodes, NEW fewer \in SUBSET nodes,
           NEW t \in Targets
    PROVE  SameInStages(l, nodes, fewer, t)
<1>. DEFINE s1(S) == {i \in S : t.resource # "" /\ N(l, i).resource = t.resource}
            s2(S) == {i \in S : i = t.node}
            s3(S) == {i \in S : t.exact \cap Values(l, i) # {}}
            s4(S) == {i \in S : Queries(t) \cap {Normal[v] : v \in Values(l, i)} # {}}
            s5(S) == Closest(l, S, t)
            s6(S) == {i \in S : t.bounds # 0 /\ N(l, i).bounds = t.bounds}
            Less(a, b) == (a = {} => b = {}) /\ \A x \in fewer : a = {x} => b = {x}
<1>1. /\ Stages(l, nodes, t) =
             <<s1(nodes), s2(nodes), s3(nodes), s4(nodes), s5(nodes), s6(nodes)>>
      /\ Stages(l, fewer, t) =
             <<s1(fewer), s2(fewer), s3(fewer), s4(fewer), s5(fewer), s6(fewer)>>
  BY DEF Stages
<1>2. /\ s1(fewer) = s1(nodes) \cap fewer
      /\ s2(fewer) = s2(nodes) \cap fewer
      /\ s3(fewer) = s3(nodes) \cap fewer
      /\ s4(fewer) = s4(nodes) \cap fewer
      /\ s6(fewer) = s6(nodes) \cap fewer
  OBVIOUS
<1>3. Less(s5(nodes), s5(fewer))
  BY ClosestOfFewer
<1>. HIDE DEF s1, s2, s3, s4, s5, s6
<1>4. \A a, b : b = a \cap fewer => Less(a, b)
  OBVIOUS
<1>5. /\ Less(s1(nodes), s1(fewer)) /\ Less(s2(nodes), s2(fewer))
      /\ Less(s3(nodes), s3(fewer)) /\ Less(s4(nodes), s4(fewer))
      /\ Less(s6(nodes), s6(fewer))
  BY <1>2, <1>4
<1>. HIDE DEF Less
<1>7. \A k \in 1..6 : Less(Stages(l, nodes, t)[k], Stages(l, fewer, t)[k])
  <2>1. \A k \in 1..6 : k = 1 \/ k = 2 \/ k = 3 \/ k = 4 \/ k = 5 \/ k = 6
    OBVIOUS
  <2>. QED
    BY <1>1, <1>3, <1>5, <2>1
<1>. QED
  BY <1>7 DEF Less, SameInStages

\* The matcher finds a node of those it was given, the only one of its stage, and
\* nothing at an earlier stage.
LEMMA MatchFound ==
    ASSUME NEW l, NEW nodes, IsFiniteSet(nodes), NEW t, Matched(l, nodes, t) # Nobody
    PROVE  \E k \in 1..6 : /\ Stages(l, nodes, t)[k] = {Matched(l, nodes, t)}
                           /\ \A j \in 1..6 : j < k => Stages(l, nodes, t)[j] = {}
                           /\ Matched(l, nodes, t) \in nodes
<1>. DEFINE stages == Stages(l, nodes, t)
            hits == {k \in DOMAIN stages : stages[k] # {}}
            m == Min(hits)
<1>1. DOMAIN stages = 1..6 /\ \A k \in 1..6 : stages[k] \subseteq nodes
  BY SixStages
<1>. HIDE DEF stages
<1>2. hits # {} /\ Cardinality(stages[m]) = 1 /\ Matched(l, nodes, t) = CHOOSE i \in stages[m] : TRUE
  BY DEF Matched, stages
<1>3. hits \subseteq 1..6
  BY <1>1
<1>4. m \in hits /\ \A k \in hits : m <= k
  <2>. HIDE DEF hits
  <2>. QED
    BY <1>2, <1>3, FirstStage
<1>5. m \in 1..6 /\ stages[m] \subseteq nodes
  BY <1>1, <1>4
<1>6. PICK x : stages[m] = {x}
  <2>1. IsFiniteSet(stages[m])
    BY <1>5, FS_Subset
  <2>. QED
    BY <1>2, <2>1, OnlyOne
<1>7. Matched(l, nodes, t) = x
  BY <1>2, <1>6
<1>8. \A j \in 1..6 : j < m => stages[j] = {}
  <2>1. \A j \in 1..6 : j < m => j \notin hits
    <3>. HIDE DEF hits, m
    <3>. QED
      BY <1>3, <1>4, <1>5
  <2>. QED
    BY <1>1, <2>1
<1>. QED
  BY <1>5, <1>6, <1>7, <1>8 DEF stages

\* With fewer nodes that still hold the one it found, it finds the same.
LEMMA SameMatch ==
    ASSUME NEW l \in Layouts, NEW nodes, nodes \subseteq DOMAIN l.nodes, IsFiniteSet(nodes),
           NEW fewer, fewer \subseteq nodes, NEW t \in Targets,
           Matched(l, nodes, t) \in fewer, Matched(l, nodes, t) # Nobody
    PROVE  Matched(l, fewer, t) = Matched(l, nodes, t)
<1>0. SameInStages(l, nodes, fewer, t)
  <2>1. nodes \in SUBSET DOMAIN l.nodes /\ fewer \in SUBSET nodes
    OBVIOUS
  <2>. QED
    BY <2>1, FewerInStages
<1>. DEFINE stages == Stages(l, fewer, t)
            hits == {k \in DOMAIN stages : stages[k] # {}}
            x == Matched(l, nodes, t)
<1>1. PICK k \in 1..6 : /\ Stages(l, nodes, t)[k] = {x}
                        /\ \A j \in 1..6 : j < k => Stages(l, nodes, t)[j] = {}
  BY MatchFound
<1>. HIDE DEF x
<1>2. /\ DOMAIN stages = 1..6
      /\ \A j \in 1..6 : Stages(l, nodes, t)[j] = {} => stages[j] = {}
      /\ \A j \in 1..6 : Stages(l, nodes, t)[j] = {x} => stages[j] = {x}
  <2>1. x \in fewer
    BY DEF x
  <2>2. DOMAIN Stages(l, fewer, t) = 1..6
    BY SixStages
  <2>. QED
    BY <1>0, <2>1, <2>2 DEF SameInStages
<1>. HIDE DEF stages
<1>3. stages[k] = {x} /\ \A j \in 1..6 : j < k => stages[j] = {}
  BY <1>1, <1>2
<1>4. k \in hits /\ hits \subseteq 1..6 /\ \A j \in hits : ~(j < k)
  BY <1>2, <1>3
<1>5. Min(hits) = k
  <2>. HIDE DEF hits
  <2>1. Min(hits) \in hits /\ \A j \in hits : Min(hits) <= j
    BY <1>4, FirstStage
  <2>2. Min(hits) <= k /\ ~(Min(hits) < k) /\ Min(hits) \in 1..6
    BY <1>4, <2>1
  <2>. QED
    BY <2>2
<1>6. Cardinality(stages[Min(hits)]) = 1 /\ (CHOOSE i \in stages[Min(hits)] : TRUE) = x
  BY <1>3, <1>5, FS_Singleton
<1>. QED
  BY <1>4, <1>6 DEF Matched, stages, x

-----------------------------------------------------------------------------
(* The path of a node on the device.                                       *)

Now == [lost : Nat, late : BOOLEAN]

\* Going down a path, slot by slot.
Descends(l, now, path, at) ==
    /\ at \in [0..Len(path) -> Int] /\ at[0] = Fetched(l, now, 0, 1)
    /\ \A k \in 1..Len(path) :
           at[k] = IF at[k - 1] = Nobody THEN Nobody ELSE Fetched(l, now, at[k - 1], path[k])

\* What a slot holds is a node or nothing.
LEMMA SlotTyped ==
    ASSUME NEW l \in Layouts, NEW i, NEW slot
    PROVE  ChildAt(l, i, slot) \in Nat
<1>. DEFINE there == {c \in Children(l, i) : N(l, c).slot = slot}
<1>1. there \subseteq Nat
  BY LayoutTyped DEF Children
<1>2. CASE there = {}
  BY <1>2 DEF ChildAt, Nobody
<1>3. CASE there # {}
  <2>1. Min(there) \in there
    <3>1. \E x \in there : \A y \in there : x <= y
      <4>. HIDE DEF there
      <4>. QED
        BY <1>1, <1>3, LeastNumber
    <3>. QED
      BY <3>1 DEF Min
  <2>2. ChildAt(l, i, slot) = Min(there)
    BY <1>3 DEF ChildAt
  <2>. QED
    BY <1>1, <2>1, <2>2
<1>. QED
  BY <1>2, <1>3

\* What can be fetched is a node, a stranger or nothing.
LEMMA FetchTyped ==
    ASSUME NEW l \in Layouts, NEW now \in Now, NEW i, NEW slot
    PROVE  Fetched(l, now, i, slot) \in Int
BY SlotTyped DEF Fetched, Stranger, Nobody

\* The device goes down the path.
LEMMA ResolveDescends ==
    ASSUME NEW l \in Layouts, NEW now \in Now, NEW path \in Seq(Nat)
    PROVE  \E at : Descends(l, now, path, at) /\ Resolve(l, now, path) = at[Len(path)]
<1>. DEFINE n == Len(path)
            Next(a, k) == IF a = Nobody THEN Nobody ELSE Fetched(l, now, a, path[k])
            next == [q \in (1..n) \X Int |-> Next(q[2], q[1])]
            Def(f) == [k \in 0..n |-> IF k = 0 THEN Fetched(l, now, 0, 1) ELSE Next(f[k - 1], k)]
            at == CHOOSE g : g = Def(g)
<1>1. n \in Nat
  OBVIOUS
<1>2. Fetched(l, now, 0, 1) \in Int /\ \A a, k : Next(a, k) \in Int
  BY FetchTyped DEF Nobody
<1>. HIDE DEF Next
<1>3. next \in Steps(n, Int)
  BY <1>2 DEF Steps
<1>4. PICK f : Computes(f, n, Int, Fetched(l, now, 0, 1), next)
  <2>. HIDE DEF next, n
  <2>. QED
    BY <1>1, <1>2, <1>3, StepByStep
<1>5. \A k \in 0..n : k = 0 \/ k \in 1..n
  OBVIOUS
<1>6. f = Def(f)
  <2>1. ASSUME NEW k \in 0..n, k # 0 PROVE next[<<k, f[k - 1]>>] = Next(f[k - 1], k)
    <3>1. k \in 1..n /\ f[k - 1] \in Int
      BY <1>1, <1>4, <2>1 DEF Computes
    <3>. QED
      BY <3>1
  <2>. HIDE DEF next
  <2>. QED
    BY <1>4, <1>5, <2>1 DEF Computes
<1>7. at = Def(at)
  <2>. HIDE DEF Def
  <2>. QED
    BY <1>6
<1>8. Resolve(l, now, path) = at[n]
  BY DEF Resolve, Next
<1>. HIDE DEF at
<1>9. at[0] = Fetched(l, now, 0, 1) /\ \A k \in 1..n : at[k] = Next(at[k - 1], k)
  <2>1. 0 \in 0..n /\ \A k \in 1..n : k \in 0..n /\ k # 0
    BY <1>1
  <2>2. \A k \in 0..n : at[k] = Def(at)[k]
    <3>. HIDE DEF Def
    <3>. QED
      BY <1>7
  <2>3. \A k \in 0..n : Def(at)[k] = IF k = 0 THEN Fetched(l, now, 0, 1) ELSE Next(at[k - 1], k)
    OBVIOUS
  <2>. HIDE DEF Def, n
  <2>. QED
    BY <2>1, <2>2, <2>3
<1>10. at \in [0..n -> Int]
  <2>1. at = [k \in 0..n |-> at[k]]
    BY <1>7
  <2>2. \A k \in 0..n : at[k] \in Int
    BY <1>2, <1>5, <1>9
  <2>. QED
    BY <2>1, <2>2
<1>. QED
  BY <1>8, <1>9, <1>10 DEF Descends, Next

\* A path that is one slot longer leads one step further.
LEMMA OneStepFurther ==
    ASSUME NEW l \in Layouts, NEW now \in Now, NEW path \in Seq(Nat), NEW slot \in Nat
    PROVE  Resolve(l, now, Append(path, slot)) =
              IF Resolve(l, now, path) = Nobody THEN Nobody
              ELSE Fetched(l, now, Resolve(l, now, path), slot)
<1>. DEFINE n == Len(path)
            longer == Append(path, slot)
<1>1. n \in Nat /\ longer \in Seq(Nat) /\ Len(longer) = n + 1 /\ longer[n + 1] = slot
      /\ \A k \in 1..n : longer[k] = path[k]
  OBVIOUS
<1>2. PICK a : Descends(l, now, path, a) /\ Resolve(l, now, path) = a[n]
  BY ResolveDescends
<1>. HIDE DEF longer
<1>3. PICK b : Descends(l, now, longer, b) /\ Resolve(l, now, longer) = b[n + 1]
  BY <1>1, ResolveDescends
<1>. DEFINE S == {k \in 0..n : a[k] = b[k]}
<1>4. 0 \in S
  BY <1>1, <1>2, <1>3 DEF Descends
<1>5. ASSUME NEW k \in 0..(n - 1), k \in S PROVE k + 1 \in S
  <2>1. k + 1 \in 1..n /\ k + 1 \in 0..n /\ k + 1 \in 1..(n + 1) /\ (k + 1) - 1 = k
    BY <1>1
  <2>2. a[k + 1] = IF a[k] = Nobody THEN Nobody ELSE Fetched(l, now, a[k], path[k + 1])
    BY <1>2, <2>1 DEF Descends
  <2>3. b[k + 1] = IF b[k] = Nobody THEN Nobody ELSE Fetched(l, now, b[k], longer[k + 1])
    BY <1>1, <1>3, <2>1 DEF Descends
  <2>. QED
    BY <1>1, <1>5, <2>1, <2>2, <2>3
<1>6. n \in S
  <2>1. \A k \in 0..n : k \in S
    <3>. HIDE DEF S, n
    <3>. QED
      BY <1>1, <1>4, <1>5, UpTo
  <2>. QED
    BY <1>1, <2>1
<1>7. n + 1 \in 1..Len(longer) /\ (n + 1) - 1 = n
  BY <1>1
<1>8. b[n + 1] = IF b[n] = Nobody THEN Nobody ELSE Fetched(l, now, b[n], slot)
  BY <1>1, <1>3, <1>7 DEF Descends
<1>. QED
  BY <1>2, <1>3, <1>6, <1>8 DEF longer

\* Of a collected screen every node has a path, one slot longer than its parent's.
LEMMA PathsExist ==
    ASSUME NEW l \in Layouts, Collected(l)
    PROVE  LET path == PathTo(l) IN
           /\ path \in [0..Len(l.nodes) -> Seq(Nat)]
           /\ path[1] = <<>>
           /\ \A i \in DOMAIN l.nodes \ {1} :
                  path[i] = Append(path[N(l, i).parent], Index(l, i)) /\ Index(l, i) \in Nat
<1>. DEFINE n == Len(l.nodes)
            V == [0..n -> Seq(Nat)]
            up(i) == N(l, i).parent
            Longer(g, i) == IF i = 0 \/ up(i) = 0 THEN <<>> ELSE Append(g[up(i)], Index(l, i))
            first == [i \in 0..n |-> <<>>]
            next == [q \in (1..n) \X V |-> [q[2] EXCEPT ![q[1]] = Longer(q[2], q[1])]]
            Def(f) == [i \in 0..n |-> Longer(f, i)]
            path == CHOOSE g : g = Def(g)
<1>1. n \in Nat /\ n >= 1 /\ DOMAIN l.nodes = 1..n
  <2>1. l.nodes \in Seq(Node) /\ l.nodes # <<>>
    BY LayoutsAssumption DEF Collected
  <2>. QED
    BY <2>1, LayoutTyped
<1>2. up(1) = 0 /\ \A i \in 2..n : up(i) \in 1..(i - 1)
  BY <1>1 DEF Collected
<1>3. \A i \in 1..n : Index(l, i) \in Nat
  <2>1. IsFiniteSet(1..n)
    BY <1>1, FS_Interval
  <2>2. \A i : {c \in Children(l, up(i)) : N(l, c).slot <= N(l, i).slot} \subseteq 1..n
    BY <1>1 DEF Children
  <2>. QED
    BY <2>1, <2>2, FS_Subset, FS_CardinalityType DEF Index
<1>. HIDE DEF up
<1>4. \A i \in 0..n : i = 0 \/ i = 1 \/ i \in 2..n
  BY <1>1
<1>5. ASSUME NEW g \in V, NEW i \in 0..n PROVE Longer(g, i) \in Seq(Nat)
  <2>1. CASE i = 0 \/ i = 1
    BY <1>2, <2>1
  <2>2. CASE i \in 2..n
    <3>1. up(i) \in 0..n /\ Index(l, i) \in Nat
      BY <1>1, <1>2, <1>3, <2>2
    <3>2. g[up(i)] \in Seq(Nat)
      BY <3>1
    <3>. QED
      BY <3>1, <3>2
  <2>. QED
    BY <1>4, <2>1, <2>2
<1>6. first \in V
  OBVIOUS
<1>7. next \in Steps(n, V)
  <2>1. ASSUME NEW q \in (1..n) \X V PROVE [q[2] EXCEPT ![q[1]] = Longer(q[2], q[1])] \in V
    <3>1. q[2] \in V /\ q[1] \in 0..n
      BY <1>1
    <3>2. Longer(q[2], q[1]) \in Seq(Nat)
      BY <1>5, <3>1
    <3>. HIDE DEF Longer
    <3>. QED
      BY <3>1, <3>2
  <2>. HIDE DEF V, Longer
  <2>. QED
    BY <2>1 DEF Steps
<1>8. PICK h : Computes(h, n, V, first, next)
  <2>. HIDE DEF next, n, V, first
  <2>. QED
    BY <1>1, <1>6, <1>7, StepByStep
<1>. DEFINE S == {k \in 0..n : \A i \in 0..k : h[k][i] = Longer(h[k], i)}
<1>9. 0 \in S
  <2>1. h[0] = first /\ \A i \in 0..0 : i = 0
    BY <1>8 DEF Computes
  <2>2. first[0] = <<>>
    BY <1>1
  <2>. QED
    BY <1>1, <2>1, <2>2
<1>10. ASSUME NEW k \in 0..(n - 1), k \in S PROVE k + 1 \in S
  <2>1. k + 1 \in 1..n /\ k + 1 \in 0..n /\ (k + 1) - 1 = k /\ k \in 0..n
    BY <1>1
  <2>2. h[k] \in V /\ h[k + 1] = next[<<k + 1, h[k]>>]
    BY <1>8, <2>1 DEF Computes
  <2>3. h[k + 1] = [h[k] EXCEPT ![k + 1] = Longer(h[k], k + 1)]
    <3>. HIDE DEF Longer, V
    <3>. QED
      BY <2>1, <2>2
  <2>4. \A i \in 0..n : h[k + 1][i] = IF i = k + 1 THEN Longer(h[k], k + 1) ELSE h[k][i]
    <3>. HIDE DEF Longer
    <3>. QED
      BY <2>2, <2>3
  <2>5. \A i \in 2..(k + 1) : up(i) \in 0..n /\ up(i) # k + 1
    BY <1>1, <1>2, <2>1
  <2>6. \A i \in 2..(k + 1) : h[k + 1][up(i)] = h[k][up(i)]
    BY <2>4, <2>5
  <2>7. ASSUME NEW i \in 0..(k + 1) PROVE h[k + 1][i] = Longer(h[k + 1], i)
    <3>1. i = 0 \/ i = 1 \/ i \in 2..(k + 1)
      BY <2>1
    <3>2. Longer(h[k + 1], i) = Longer(h[k], i)
      BY <1>2, <2>6, <3>1
    <3>3. h[k + 1][i] = Longer(h[k], i)
      <4>1. CASE i = k + 1
        BY <2>1, <2>4, <4>1
      <4>2. CASE i # k + 1
        <5>1. i \in 0..k /\ i \in 0..n
          BY <2>1, <4>2
        <5>2. h[k][i] = Longer(h[k], i)
          BY <1>10, <5>1
        <5>. HIDE DEF Longer
        <5>. QED
          BY <2>4, <4>2, <5>1, <5>2
      <4>. QED
        BY <4>1, <4>2
    <3>. QED
      BY <3>2, <3>3
  <2>. HIDE DEF Longer
  <2>. QED
    BY <2>1, <2>7
<1>11. n \in S
  <2>1. \A k \in 0..n : k \in S
    <3>. HIDE DEF S, n
    <3>. QED
      BY <1>1, <1>9, <1>10, UpTo
  <2>. QED
    BY <1>1, <2>1
<1>12. h[n] \in V
  <2>1. n \in 0..n
    BY <1>1
  <2>. HIDE DEF V, n, first, next
  <2>. QED
    BY <1>8, <2>1 DEF Computes
<1>13. h[n] = Def(h[n])
  <2>. HIDE DEF Longer
  <2>. QED
    BY <1>11, <1>12
<1>14. path = Def(path)
  <2>. HIDE DEF Def
  <2>. QED
    BY <1>13
<1>15. PathTo(l) = path
  BY DEF PathTo, up
<1>. HIDE DEF path
<1>16. \A i \in 0..n : path[i] = Longer(path, i)
  <2>. HIDE DEF Longer
  <2>. QED
    BY <1>14
<1>17. path[1] = <<>> /\ \A i \in 2..n : path[i] = Append(path[up(i)], Index(l, i))
  <2>1. \A i \in 2..n : i \in 0..n /\ i # 0 /\ up(i) # 0
    BY <1>1, <1>2
  <2>2. 1 \in 0..n /\ up(1) = 0
    BY <1>1, <1>2
  <2>. HIDE DEF n
  <2>. QED
    BY <1>16, <2>1, <2>2
<1>18. path \in V
  <2>. DEFINE T == {k \in 0..n : \A i \in 0..k : path[i] \in Seq(Nat)}
  <2>1. 0 \in T
    <3>1. path[0] = <<>> /\ \A i \in 0..0 : i = 0
      BY <1>1, <1>16
    <3>2. 0 \in 0..n /\ <<>> \in Seq(Nat)
      BY <1>1
    <3>. HIDE DEF n
    <3>. QED
      BY <3>1, <3>2
  <2>2. ASSUME NEW k \in 0..(n - 1), k \in T PROVE k + 1 \in T
    <3>1. k + 1 \in 0..n /\ \A i \in 0..(k + 1) : i \in 0..k \/ i = k + 1
      BY <1>1
    <3>2. path[k + 1] \in Seq(Nat)
      <4>1. CASE k + 1 = 1
        <5>1. <<>> \in Seq(Nat)
          OBVIOUS
        <5>. QED
          BY <1>17, <4>1, <5>1
      <4>2. CASE k + 1 # 1
        <5>1. k + 1 \in 2..n
          BY <1>1, <4>2
        <5>2. up(k + 1) \in 0..k /\ Index(l, k + 1) \in Nat
          BY <1>1, <1>2, <1>3, <5>1
        <5>3. path[up(k + 1)] \in Seq(Nat)
          BY <2>2, <5>2
        <5>4. path[k + 1] = Append(path[up(k + 1)], Index(l, k + 1))
          BY <1>17, <5>1
        <5>. QED
          BY <5>2, <5>3, <5>4
      <4>. QED
        BY <4>1, <4>2
    <3>. QED
      BY <2>2, <3>1, <3>2
  <2>3. n \in T
    <3>1. \A k \in 0..n : k \in T
      <4>. HIDE DEF T, n
      <4>. QED
        BY <1>1, <2>1, <2>2, UpTo
    <3>. QED
      BY <1>1, <3>1
  <2>4. path = [i \in 0..n |-> path[i]]
    BY <1>14
  <2>. QED
    BY <2>3, <2>4
<1>19. \A i \in DOMAIN l.nodes \ {1} : i \in 2..n /\ i \in 1..n
  BY <1>1
<1>. QED
  BY <1>3, <1>15, <1>17, <1>18, <1>19 DEF up

\* Where no slot is empty, the index of a child is its slot.
LEMMA IndexIsSlot ==
    ASSUME NEW l \in Layouts, Whole(l), NEW i \in DOMAIN l.nodes
    PROVE  Index(l, i) = N(l, i).slot /\ ChildAt(l, N(l, i).parent, N(l, i).slot) = i
<1>. DEFINE n == Len(l.nodes)
            up == N(l, i).parent
            s == N(l, i).slot
            before == {c \in Children(l, up) : N(l, c).slot <= s}
            f == [c \in before |-> N(l, c).slot]
<1>1. n \in Nat /\ DOMAIN l.nodes = 1..n /\ s \in Nat /\ i \in Children(l, up)
      /\ \A c \in DOMAIN l.nodes : N(l, c).slot \in Nat /\ N(l, c).slot # 0
  BY LayoutTyped DEF Children
<1>2. \A c, d \in Children(l, up) : N(l, c).slot = N(l, d).slot => c = d
  BY LayoutsAssumption DEF Children
<1>3. \A q \in 1..s : \E c \in Children(l, up) : N(l, c).slot = q
  BY DEF Whole, ChildAt
<1>4. \A c \in Children(l, up) : c \in DOMAIN l.nodes
  BY DEF Children
<1>5. f \in Bijection(before, 1..s)
  <2>1. f \in Injection(before, 1..s)
    BY <1>1, <1>2, <1>4 DEF Injection, IsInjective
  <2>2. f \in Surjection(before, 1..s)
    <3>1. \A q \in 1..s : \E c \in before : f[c] = q
      BY <1>1, <1>3, <1>4
    <3>. QED
      BY <2>1, <3>1 DEF Surjection, Injection
  <2>. QED
    BY <2>1, <2>2 DEF Bijection
<1>6. IsFiniteSet(1..s) /\ Cardinality(1..s) = s
  <2>1. s \in Int /\ 1 \in Int /\ s >= 0 /\ (s - 1) + 1 = s
    BY <1>1
  <2>2. IsFiniteSet(1..s) /\ Cardinality(1..s) = IF 1 > s THEN 0 ELSE s - 1 + 1
    <3>. HIDE DEF s
    <3>. QED
      BY <2>1, FS_Interval
  <2>. HIDE DEF s
  <2>. QED
    BY <2>1, <2>2
<1>7. Cardinality(before) = s
  <2>1. f \in Injection(before, 1..s) /\ f \in Surjection(before, 1..s)
    BY <1>5 DEF Bijection
  <2>. HIDE DEF f, before, s
  <2>. QED
    BY <1>6, <2>1, FS_Injection
<1>8. {c \in Children(l, up) : N(l, c).slot = s} = {i}
  BY <1>1, <1>2
<1>9. ChildAt(l, up, s) = i
  <2>1. Min({i}) = i
    <3>1. i \in Nat
      BY <1>1
    <3>. QED
      BY <3>1 DEF Min
  <2>. QED
    BY <1>8, <2>1 DEF ChildAt
<1>. QED
  BY <1>7, <1>9 DEF Index

\* A device that looks for a node finds it, or nothing when a child was lost.
Reaches(now, r, j) == r = j \/ (r = Nobody /\ now.lost # Nobody)

LEMMA FetchReaches ==
    ASSUME NEW l, NEW now, NEW i, i # Stranger, NEW slot, ChildAt(l, i, slot) # Nobody
    PROVE  Reaches(now, Fetched(l, now, i, slot), ChildAt(l, i, slot))
BY DEF Reaches, Fetched

\* Where no slot is empty, the path of a node leads to that node.
LEMMA PathLeadsBack ==
    ASSUME NEW l \in Layouts, Collected(l), Whole(l), NEW now \in Now, NEW i \in DOMAIN l.nodes
    PROVE  Reaches(now, Resolve(l, now, PathTo(l)[i]), i)
<1>. DEFINE n == Len(l.nodes)
            path == PathTo(l)
            S == {k \in 0..n : \A j \in 1..k : Reaches(now, Resolve(l, now, path[j]), j)}
<1>1. n \in Nat /\ n >= 1 /\ DOMAIN l.nodes = 1..n
  <2>1. l.nodes \in Seq(Node) /\ l.nodes # <<>>
    BY LayoutsAssumption DEF Collected
  <2>. QED
    BY <2>1, LayoutTyped
<1>2. /\ path \in [0..n -> Seq(Nat)] /\ path[1] = <<>>
      /\ \A j \in DOMAIN l.nodes \ {1} :
             path[j] = Append(path[N(l, j).parent], Index(l, j)) /\ Index(l, j) \in Nat
  BY PathsExist
<1>. HIDE DEF path
<1>3. N(l, 1).parent = 0 /\ \A j \in DOMAIN l.nodes \ {1} : N(l, j).parent \in 1..(j - 1)
  BY DEF Collected
<1>4. Reaches(now, Resolve(l, now, <<>>), 1)
  <2>1. PICK at : Descends(l, now, <<>>, at) /\ Resolve(l, now, <<>>) = at[Len(<<>>)]
    <3>1. <<>> \in Seq(Nat)
      OBVIOUS
    <3>. QED
      BY <3>1, ResolveDescends
  <2>2. Resolve(l, now, <<>>) = Fetched(l, now, 0, 1)
    BY <2>1 DEF Descends
  <2>3. N(l, 1).slot \in Nat \ {0} /\ 1 \in DOMAIN l.nodes
    BY <1>1, LayoutTyped
  <2>4. ChildAt(l, 0, 1) # Nobody
    <3>1. 1 \in 1..N(l, 1).slot
      BY <2>3
    <3>. QED
      BY <1>3, <2>3, <3>1 DEF Whole
  <2>5. PICK c \in Children(l, 0) : N(l, c).slot = 1
    BY <2>4 DEF ChildAt
  <2>6. c = 1
    <3>1. c \in DOMAIN l.nodes /\ N(l, c).parent = 0
      BY <2>5 DEF Children
    <3>. QED
      BY <1>1, <1>3, <3>1
  <2>7. ChildAt(l, 0, 1) = 1
    BY <1>3, <2>3, <2>5, <2>6, IndexIsSlot
  <2>. QED
    BY <2>2, <2>7, FetchReaches DEF Nobody, Stranger
<1>5. 0 \in S
  BY <1>1
<1>6. ASSUME NEW k \in 0..(n - 1), k \in S PROVE k + 1 \in S
  <2>1. k + 1 \in 0..n /\ k + 1 \in 1..n /\ \A j \in 1..(k + 1) : j \in 1..k \/ j = k + 1
    BY <1>1
  <2>2. CASE k + 1 = 1
    BY <1>2, <1>4, <2>1, <2>2
  <2>3. CASE k + 1 # 1
    <3>. DEFINE up == N(l, k + 1).parent
    <3>1. k + 1 \in DOMAIN l.nodes \ {1} /\ up \in 1..k
      <4>1. k + 1 \in DOMAIN l.nodes \ {1}
        BY <1>1, <2>1, <2>3
      <4>2. up \in 1..((k + 1) - 1)
        BY <1>3, <4>1
      <4>. QED
        BY <1>1, <4>1, <4>2
    <3>2. Reaches(now, Resolve(l, now, path[up]), up)
      BY <1>6, <3>1
    <3>3. up \in 0..n /\ up # 0 /\ up # Stranger /\ path[up] \in Seq(Nat)
      <4>1. up \in 0..n /\ up # 0 /\ up # -1
        BY <1>1, <3>1
      <4>. HIDE DEF up
      <4>. QED
        BY <1>2, <4>1 DEF Stranger
    <3>4. path[k + 1] = Append(path[up], Index(l, k + 1)) /\ Index(l, k + 1) \in Nat
      BY <1>2, <3>1
    <3>5. ChildAt(l, up, Index(l, k + 1)) = k + 1
      BY <3>1, IndexIsSlot
    <3>. HIDE DEF up
    <3>6. Reaches(now, Resolve(l, now, path[k + 1]), k + 1)
      <4>1. Resolve(l, now, path[k + 1]) =
              IF Resolve(l, now, path[up]) = Nobody THEN Nobody
              ELSE Fetched(l, now, Resolve(l, now, path[up]), Index(l, k + 1))
        BY <3>3, <3>4, OneStepFurther
      <4>2. k + 1 # Nobody /\ up # Nobody
        BY <2>1, <3>3 DEF Nobody
      <4>3. Reaches(now, Fetched(l, now, up, Index(l, k + 1)), k + 1)
        BY <3>3, <3>5, <4>2, FetchReaches
      <4>. QED
        BY <3>2, <4>1, <4>2, <4>3 DEF Reaches
    <3>. QED
      BY <1>6, <2>1, <3>6
  <2>. QED
    BY <2>2, <2>3
<1>7. n \in S
  <2>1. \A k \in 0..n : k \in S
    <3>. HIDE DEF S, n
    <3>. QED
      BY <1>1, <1>5, <1>6, UpTo
  <2>. QED
    BY <1>1, <2>1
<1>. QED
  BY <1>1, <1>7 DEF path

-----------------------------------------------------------------------------
(* The walk of the compressor.                                             *)

\* A state of the walk: what was seen, the visits that are open, how far each asked,
\* and what was kept below each.
Runs(l) ==
    [seen : SUBSET DOMAIN l.nodes, stack : Seq(0..Len(l.nodes)) \ {<<>>},
     next : [0..Len(l.nodes) -> 1..(2 * Len(l.nodes) + 1)],
     held : [0..Len(l.nodes) -> Seq(DOMAIN l.nodes)]]

\* the visits that have returned
Done(r) == r.seen \ ToSet(r.stack)

\* R is what was retained by the visits that are done.  Whatever is useful is in it, and
\* what is not holds several.  It lies below the open visits and itself, each of it
\* in one place, and nothing of it is out of their reach.
Retains(l, active, done, kept, R) ==
    /\ R \subseteq done
    /\ \A i \in done : Useful(l, i) => i \in R
    /\ \A i \in R : Useful(l, i) \/ Len(kept[i]) > 1
    /\ \A x \in active \cup R : ToSet(kept[x]) \subseteq R
    /\ \A x, y \in active \cup R : \A k \in DOMAIN kept[x], j \in DOMAIN kept[y] :
           kept[x][k] = kept[y][j] => x = y /\ k = j
    /\ \A S \in SUBSET DOMAIN l.nodes :
           (\A x \in active \cup (R \cap S) : ToSet(kept[x]) \subseteq S) => R \subseteq S

\* What is true of the walk at every step.
RunInv(l, r) ==
    /\ r \in Runs(l)
    /\ r.stack[1] = 0 /\ \A p \in 2..Len(r.stack) : r.stack[p] \in r.seen
    /\ \A p, q \in DOMAIN r.stack : r.stack[p] = r.stack[q] => p = q
    /\ \A c \in DOMAIN l.nodes : Len(l.nodes) + c < r.next[0] => c \in r.seen
    /\ \A i \in DOMAIN l.nodes \ r.seen : r.held[i] = <<>>
    /\ \E R \in SUBSET DOMAIN l.nodes : Retains(l, ToSet(r.stack), Done(r), r.held, R)

\* The questions that were asked, and the returns.
Asked(l, r) ==
    {q \in (0..Len(l.nodes)) \X (1..(2 * Len(l.nodes) + 1)) :
        q[2] < r.next[q[1]] \/ (q[2] = 2 * Len(l.nodes) + 1 /\ q[1] \in Done(r))}

\* Sequences that grow and shrink at their end, and what is in them.
LEMMA SetOfAppend ==
    ASSUME NEW S, NEW s \in Seq(S), NEW x \in S
    PROVE  ToSet(Append(s, x)) = ToSet(s) \cup {x}
<1>1. /\ DOMAIN s = 1..Len(s) /\ DOMAIN Append(s, x) = 1..(Len(s) + 1) /\ Len(s) \in Nat
      /\ Append(s, x)[Len(s) + 1] = x /\ \A k \in 1..Len(s) : Append(s, x)[k] = s[k]
  OBVIOUS
<1>2. \A k \in 1..(Len(s) + 1) : k \in 1..Len(s) \/ k = Len(s) + 1
  BY <1>1
<1>3. Len(s) + 1 \in 1..(Len(s) + 1) /\ \A k \in 1..Len(s) : k \in 1..(Len(s) + 1)
  BY <1>1
<1>. DEFINE t == Append(s, x)
            n == Len(s)
<1>. HIDE DEF t, n
<1>4. ToSet(t) \subseteq ToSet(s) \cup {x}
  BY <1>1, <1>2 DEF ToSet, t, n
<1>5. ToSet(s) \cup {x} \subseteq ToSet(t)
  BY <1>1, <1>3 DEF ToSet, t, n
<1>. QED
  BY <1>4, <1>5 DEF t

LEMMA SetOfConcat ==
    ASSUME NEW S, NEW s \in Seq(S), NEW t \in Seq(S)
    PROVE  ToSet(s \o t) = ToSet(s) \cup ToSet(t)
<1>. DEFINE m == Len(s)
            n == Len(t)
            u == s \o t
<1>1. /\ m \in Nat /\ n \in Nat /\ DOMAIN s = 1..m /\ DOMAIN t = 1..n /\ DOMAIN u = 1..(m + n)
      /\ \A k \in 1..(m + n) : u[k] = IF k <= m THEN s[k] ELSE t[k - m]
  OBVIOUS
<1>. HIDE DEF m, n, u
<1>2. \A k \in 1..m : k \in 1..(m + n) /\ u[k] = s[k]
  BY <1>1
<1>3. \A k \in 1..n : m + k \in 1..(m + n) /\ u[m + k] = t[k]
  BY <1>1
<1>4. \A k \in 1..(m + n) : k \in 1..m \/ (k - m \in 1..n /\ ~(k <= m))
  BY <1>1
<1>5. ToSet(u) \subseteq ToSet(s) \cup ToSet(t)
  BY <1>1, <1>4 DEF ToSet
<1>6. ToSet(s) \subseteq ToSet(u)
  BY <1>1, <1>2 DEF ToSet
<1>7. ToSet(t) \subseteq ToSet(u)
  BY <1>1, <1>3 DEF ToSet
<1>. QED
  BY <1>5, <1>6, <1>7 DEF u

\* What is taken from the end, where no two are alike.
LEMMA WithoutLast ==
    ASSUME NEW S, NEW s \in Seq(S), s # <<>>
    PROVE  /\ Front(s) \in Seq(S) /\ Len(Front(s)) = Len(s) - 1
           /\ \A k \in 1..(Len(s) - 1) : Front(s)[k] = s[k]
           /\ Last(s) = s[Len(s)] /\ Len(s) \in Nat \ {0} /\ DOMAIN s = 1..Len(s)
           /\ (\A p, q \in DOMAIN s : s[p] = s[q] => p = q) => ToSet(Front(s)) = ToSet(s) \ {Last(s)}
<1>. DEFINE n == Len(s)
            f == Front(s)
<1>1. n \in Nat \ {0} /\ DOMAIN s = 1..n
  OBVIOUS
<1>2. f = SubSeq(s, 1, n - 1)
  BY DEF Front
<1>3. f \in Seq(S) /\ Len(f) = n - 1 /\ DOMAIN f = 1..(n - 1) /\ \A k \in 1..(n - 1) : f[k] = s[k]
  <2>1. \A k \in 1..(n - 1) : k \in 1..n
    BY <1>1
  <2>2. 1 \in 1..(n + 1) /\ n - 1 \in 0..n
    BY <1>1
  <2>3. f = [k \in 1..(n - 1) |-> s[k]]
    BY <1>1, <1>2, <2>2
  <2>. QED
    BY <1>1, <1>2, <2>1, <2>2, <2>3
<1>4. Last(s) = s[n]
  BY DEF Last
<1>5. ASSUME \A p, q \in 1..n : s[p] = s[q] => p = q
      PROVE  ToSet(f) = ToSet(s) \ {s[n]}
  <2>1. \A k \in 1..n : k \in 1..(n - 1) <=> s[k] # s[n]
    <3>1. n \in 1..n /\ \A k \in 1..n : k \in 1..(n - 1) <=> k # n
      <4>. HIDE DEF n
      <4>. QED
        BY <1>1
    <3>. QED
      BY <1>5, <3>1
  <2>2. \A k \in 1..(n - 1) : k \in 1..n
    BY <1>1
  <2>. HIDE DEF n, f
  <2>3. ToSet(f) \subseteq ToSet(s) \ {s[n]}
    BY <1>1, <1>3, <2>1, <2>2 DEF ToSet
  <2>4. ToSet(s) \ {s[n]} \subseteq ToSet(f)
    BY <1>1, <1>3, <2>1 DEF ToSet
  <2>. QED
    BY <2>3, <2>4
<1>. QED
  BY <1>1, <1>3, <1>4, <1>5

\* A call opens a visit that holds nothing yet.
LEMMA RetainsOnCall ==
    ASSUME NEW l, NEW active, NEW done, NEW kept, NEW R, Retains(l, active, done, kept, R),
           NEW c, kept[c] = <<>>
    PROVE  Retains(l, active \cup {c}, done, kept, R)
<1>1. DOMAIN kept[c] = {} /\ ToSet(kept[c]) = {}
  BY DEF ToSet
<1>2. \A x \in active \cup {c} \cup R : x \in active \cup R \/ x = c
  OBVIOUS
<1>3. \A x \in active \cup {c} \cup R : ToSet(kept[x]) \subseteq R
  BY <1>1, <1>2 DEF Retains
<1>4. \A x, y \in active \cup {c} \cup R : \A k \in DOMAIN kept[x], j \in DOMAIN kept[y] :
          kept[x][k] = kept[y][j] => x = y /\ k = j
  BY <1>1, <1>2 DEF Retains
<1>5. ASSUME NEW S \in SUBSET DOMAIN l.nodes,
             \A x \in active \cup {c} \cup (R \cap S) : ToSet(kept[x]) \subseteq S
      PROVE  R \subseteq S
  BY <1>5 DEF Retains
<1>. QED
  BY <1>3, <1>4, <1>5 DEF Retains

\* What holds before a visit v returns to the visit u that called it.
Returning(l, active, done, kept, u, v) ==
    /\ kept \in [0..Len(l.nodes) -> Seq(DOMAIN l.nodes)]
    /\ active \subseteq 0..Len(l.nodes) /\ done \subseteq DOMAIN l.nodes
    /\ v \in DOMAIN l.nodes \cap active /\ u \in active \ {v} /\ v \notin done

\* After it, u holds more than before.
Grows(l, kept, u, more, after) ==
    /\ after \in [0..Len(l.nodes) -> Seq(DOMAIN l.nodes)]
    /\ \A x \in (0..Len(l.nodes)) \ {u} : after[x] = kept[x]
    /\ ToSet(after[u]) = ToSet(kept[u]) \cup ToSet(more)
    /\ Len(after[u]) \in Nat /\ Len(kept[u]) \in Nat /\ Len(after[u]) >= Len(kept[u])
    /\ \A k \in DOMAIN after[u] :
           \/ k \in DOMAIN kept[u] /\ after[u][k] = kept[u][k]
           \/ /\ k \in Int /\ k - Len(kept[u]) \in DOMAIN more
              /\ after[u][k] = more[k - Len(kept[u])]

\* A visit that returns more to its caller: what was held is still held, in its place.
LEMMA HeldGrows ==
    ASSUME NEW l \in Layouts, NEW active, NEW done, NEW kept, NEW u, NEW v,
           Returning(l, active, done, kept, u, v), NEW more \in Seq(DOMAIN l.nodes)
    PROVE  Grows(l, kept, u, more, [kept EXCEPT ![u] = @ \o more])
<1>. DEFINE n == Len(l.nodes)
            D == DOMAIN l.nodes
            after == [kept EXCEPT ![u] = @ \o more]
            m == Len(kept[u])
<1>1. kept \in [0..n -> Seq(D)] /\ u \in 0..n
  BY DEF Returning
<1>. HIDE DEF n, D
<1>2. kept[u] \in Seq(D) /\ more \in Seq(D)
  BY <1>1 DEF D
<1>3. after[u] = kept[u] \o more
  BY <1>1
<1>4. \A x \in (0..n) \ {u} : after[x] = kept[x]
  BY <1>1
<1>5. kept[u] \o more \in Seq(D)
  BY <1>2
<1>6. after \in [0..n -> Seq(D)]
  BY <1>1, <1>5
<1>7. ToSet(after[u]) = ToSet(kept[u]) \cup ToSet(more)
  <2>1. ToSet(kept[u] \o more) = ToSet(kept[u]) \cup ToSet(more)
    BY <1>2, SetOfConcat
  <2>. HIDE DEF after
  <2>. QED
    BY <1>3, <2>1
<1>8. /\ m \in Nat /\ DOMAIN kept[u] = 1..m /\ Len(more) \in Nat /\ DOMAIN more = 1..Len(more)
      /\ DOMAIN (kept[u] \o more) = 1..(m + Len(more)) /\ Len(kept[u] \o more) = m + Len(more)
      /\ \A k \in 1..(m + Len(more)) :
             (kept[u] \o more)[k] = IF k <= m THEN kept[u][k] ELSE more[k - m]
  BY <1>2
<1>. HIDE DEF after, m
<1>9. \A k \in 1..(m + Len(more)) : k \in 1..m \/ (~(k <= m) /\ k - m \in 1..Len(more) /\ k \in Int)
  BY <1>8
<1>10. \A k \in 1..m : k <= m
  BY <1>8
<1>11. \A k \in DOMAIN after[u] :
           \/ k \in DOMAIN kept[u] /\ after[u][k] = kept[u][k]
           \/ k - m \in DOMAIN more /\ k \in Int /\ after[u][k] = more[k - m]
  <2>. SUFFICES ASSUME NEW k \in 1..(m + Len(more))
                PROVE  \/ k \in 1..m /\ after[u][k] = kept[u][k]
                       \/ k - m \in 1..Len(more) /\ k \in Int /\ after[u][k] = more[k - m]
    BY <1>3, <1>8
  <2>. QED
    BY <1>3, <1>8, <1>9, <1>10
<1>12. Len(after[u]) \in Nat /\ Len(after[u]) >= m
  BY <1>3, <1>8
<1>13. \A k \in DOMAIN after[u] :
           \/ k \in DOMAIN kept[u] /\ after[u][k] = kept[u][k]
           \/ /\ k \in Int /\ k - Len(kept[u]) \in DOMAIN more
              /\ after[u][k] = more[k - Len(kept[u])]
  BY <1>11 DEF m
<1>14. m = Len(kept[u])
  BY DEF m
<1>15. Grows(l, kept, u, more, after)
  BY <1>4, <1>6, <1>7, <1>8, <1>12, <1>13, <1>14 DEF Grows, n, D
<1>. QED
  BY <1>15 DEF after

\* A visit that is retained is held by its caller, and holds what it held.
LEMMA RetainsItself ==
    ASSUME NEW l \in Layouts, NEW active, NEW done, NEW kept, NEW R, NEW u, NEW v,
           Retains(l, active, done, kept, R), Returning(l, active, done, kept, u, v),
           Useful(l, v) \/ Len(kept[v]) > 1
    PROVE  Retains(l, active \ {v}, done \cup {v}, [kept EXCEPT ![u] = @ \o <<v>>], R \cup {v})
<1>. DEFINE D == DOMAIN l.nodes
            N0 == 0..Len(l.nodes)
            after == [kept EXCEPT ![u] = @ \o <<v>>]
            m == Len(kept[u])
            owners == (active \ {v}) \cup (R \cup {v})
<1>1. D \subseteq N0 /\ v \in D /\ u \in N0 /\ u # v /\ v \notin R /\ R \subseteq D
      /\ active \subseteq N0 /\ u \in active /\ v \in active
  <2>1. D = 1..Len(l.nodes) /\ Len(l.nodes) \in Nat
    BY LayoutTyped
  <2>2. D \subseteq N0
    BY <2>1
  <2>. QED
    BY <2>2 DEF Returning, Retains
<1>2. <<v>> \in Seq(D) /\ ToSet(<<v>>) = {v} /\ DOMAIN <<v>> = {1} /\ <<v>>[1] = v
  <2>1. <<v>> \in Seq(D) /\ DOMAIN <<v>> = {1} /\ <<v>>[1] = v
    <3>. HIDE DEF D
    <3>. QED
      BY <1>1
  <2>. QED
    BY <2>1 DEF ToSet
<1>3. Grows(l, kept, u, <<v>>, after)
  BY <1>2, HeldGrows
<1>. HIDE DEF after, m
<1>4. /\ \A x \in N0 \ {u} : after[x] = kept[x]
      /\ ToSet(after[u]) = ToSet(kept[u]) \cup {v}
      /\ Len(after[u]) \in Nat /\ m \in Nat /\ Len(after[u]) >= m
      /\ \A k \in DOMAIN after[u] :
             \/ k \in DOMAIN kept[u] /\ after[u][k] = kept[u][k]
             \/ k - m \in {1} /\ k \in Int /\ after[u][k] = <<v>>[k - m]
  BY <1>2, <1>3 DEF Grows, m
<1>5. \A k \in DOMAIN after[u] :
          \/ k \in DOMAIN kept[u] /\ after[u][k] = kept[u][k]
          \/ k = m + 1 /\ after[u][k] = v
  <2>1. \A k \in Int : k - m \in {1} => k = m + 1 /\ k - m = 1
    BY <1>4
  <2>. QED
    BY <1>2, <1>4, <2>1
<1>. HIDE DEF N0
<1>6. \A x \in active \cup R : x \in N0
  BY <1>1
<1>7. \A x \in owners : x \in active \cup R /\ x \in N0
  BY <1>1
<1>8. \A x \in active \cup R : ToSet(kept[x]) \subseteq R
  BY DEF Retains
<1>9. \A x \in owners : ToSet(after[x]) \subseteq R \cup {v}
  BY <1>4, <1>7, <1>8
<1>10. \A x \in owners : \A k \in DOMAIN after[x] :
          \/ k \in DOMAIN kept[x] /\ after[x][k] = kept[x][k]
          \/ x = u /\ k = m + 1 /\ after[x][k] = v
  BY <1>4, <1>5, <1>7
<1>11. \A x \in owners : \A k \in DOMAIN kept[x] : kept[x][k] # v
  BY <1>1, <1>7, <1>8 DEF ToSet
<1>12. ASSUME NEW x \in owners, NEW y \in owners, NEW k \in DOMAIN after[x],
              NEW j \in DOMAIN after[y], after[x][k] = after[y][j]
       PROVE  x = y /\ k = j
  <2>1. \A p, q \in active \cup R : \A a \in DOMAIN kept[p], b \in DOMAIN kept[q] :
            kept[p][a] = kept[q][b] => p = q /\ a = b
    BY DEF Retains
  <2>2. x \in active \cup R /\ y \in active \cup R
    BY <1>7
  <2>. HIDE DEF owners
  <2>. QED
    BY <1>10, <1>11, <1>12, <2>1, <2>2
<1>13. ASSUME NEW S \in SUBSET D,
              \A x \in (active \ {v}) \cup ((R \cup {v}) \cap S) : ToSet(after[x]) \subseteq S
       PROVE  R \cup {v} \subseteq S
  <2>1. v \in S
    BY <1>1, <1>4, <1>13
  <2>2. ASSUME NEW x \in active \cup (R \cap S) PROVE ToSet(kept[x]) \subseteq S
    <3>1. x \in (active \ {v}) \cup ((R \cup {v}) \cap S) /\ x \in N0
      BY <1>1, <2>1
    <3>2. ToSet(kept[x]) \subseteq ToSet(after[x])
      BY <1>4, <3>1
    <3>. QED
      BY <1>13, <3>1, <3>2
  <2>. QED
    BY <2>1, <2>2 DEF Retains
<1>14. \A i \in R \cup {v} : Useful(l, i) \/ Len(after[i]) > 1
  <2>1. \A i \in R : Useful(l, i) \/ Len(kept[i]) > 1
    BY DEF Retains
  <2>2. after[v] = kept[v]
    BY <1>1, <1>4
  <2>3. \A i \in R : i \in N0 /\ (i = u \/ after[i] = kept[i])
    BY <1>1, <1>4
  <2>4. Len(kept[u]) > 1 => Len(after[u]) > 1
    BY <1>4 DEF m
  <2>. QED
    BY <2>1, <2>2, <2>3, <2>4
<1>15. R \cup {v} \subseteq done \cup {v} /\ \A i \in done \cup {v} : Useful(l, i) => i \in R \cup {v}
  BY DEF Retains
<1>. QED
  BY <1>9, <1>12, <1>13, <1>14, <1>15 DEF Retains, after

\* A visit that is not retained gives what it held to its caller.
LEMMA HandsOn ==
    ASSUME NEW l \in Layouts, NEW active, NEW done, NEW kept, NEW R, NEW u, NEW v,
           Retains(l, active, done, kept, R), Returning(l, active, done, kept, u, v),
           ~Useful(l, v)
    PROVE  Retains(l, active \ {v}, done \cup {v}, [kept EXCEPT ![u] = @ \o kept[v]], R)
<1>. DEFINE D == DOMAIN l.nodes
            N0 == 0..Len(l.nodes)
            after == [kept EXCEPT ![u] = @ \o kept[v]]
            m == Len(kept[u])
            owners == (active \ {v}) \cup R
<1>1. D \subseteq N0 /\ v \in D /\ u \in N0 /\ u # v /\ v \notin R /\ R \subseteq D
      /\ active \subseteq N0 /\ u \in active /\ v \in active
  <2>1. D = 1..Len(l.nodes) /\ Len(l.nodes) \in Nat
    BY LayoutTyped
  <2>2. D \subseteq N0
    BY <2>1
  <2>. QED
    BY <2>2 DEF Returning, Retains
<1>2. kept[v] \in Seq(D)
  BY <1>1 DEF Returning
<1>3. Grows(l, kept, u, kept[v], after)
  BY <1>2, HeldGrows
<1>. HIDE DEF after, m
<1>4. /\ \A x \in N0 \ {u} : after[x] = kept[x]
      /\ ToSet(after[u]) = ToSet(kept[u]) \cup ToSet(kept[v])
      /\ Len(after[u]) \in Nat /\ m \in Nat /\ Len(after[u]) >= m
      /\ \A k \in DOMAIN after[u] :
             \/ k \in DOMAIN kept[u] /\ after[u][k] = kept[u][k]
             \/ k - m \in DOMAIN kept[v] /\ k \in Int /\ after[u][k] = kept[v][k - m]
  BY <1>3 DEF Grows, m
<1>. HIDE DEF N0
<1>5. \A x \in owners : x \in active \cup R /\ x \in N0 /\ x # v
  BY <1>1
<1>6. \A x \in active \cup R : ToSet(kept[x]) \subseteq R
  BY DEF Retains
<1>7. \A x \in owners : ToSet(after[x]) \subseteq R
  BY <1>1, <1>4, <1>5, <1>6
<1>8. \A x \in owners : \A k \in DOMAIN after[x] :
          \/ k \in DOMAIN kept[x] /\ after[x][k] = kept[x][k]
          \/ x = u /\ k - m \in DOMAIN kept[v] /\ k \in Int /\ after[x][k] = kept[v][k - m]
  BY <1>4, <1>5
<1>9. ASSUME NEW x \in owners, NEW y \in owners, NEW k \in DOMAIN after[x],
             NEW j \in DOMAIN after[y], after[x][k] = after[y][j]
      PROVE  x = y /\ k = j
  <2>1. \A p, q \in active \cup R : \A a \in DOMAIN kept[p], b \in DOMAIN kept[q] :
            kept[p][a] = kept[q][b] => p = q /\ a = b
    BY DEF Retains
  <2>2. x \in active \cup R /\ y \in active \cup R /\ x # v /\ y # v /\ v \in active \cup R
    BY <1>1, <1>5
  <2>3. \A a, b \in Int : a - m = b - m => a = b
    <3>. HIDE DEF m
    <3>. QED
      BY <1>4
  <2>. HIDE DEF owners, m
  <2>. QED
    BY <1>8, <1>9, <2>1, <2>2, <2>3
<1>10. ASSUME NEW S \in SUBSET D,
             \A x \in (active \ {v}) \cup (R \cap S) : ToSet(after[x]) \subseteq S
      PROVE  R \subseteq S
  <2>1. ToSet(kept[v]) \subseteq S
    BY <1>1, <1>4, <1>10
  <2>2. ASSUME NEW x \in active \cup (R \cap S) PROVE ToSet(kept[x]) \subseteq S
    <3>1. CASE x = v
      BY <2>1, <3>1
    <3>2. CASE x # v
      <4>1. x \in (active \ {v}) \cup (R \cap S) /\ x \in N0
        BY <1>1, <3>2
      <4>2. ToSet(kept[x]) \subseteq ToSet(after[x])
        BY <1>4, <4>1
      <4>. QED
        BY <1>10, <4>1, <4>2
    <3>. QED
      BY <3>1, <3>2
  <2>. QED
    BY <2>2 DEF Retains
<1>11. \A i \in R : Useful(l, i) \/ Len(after[i]) > 1
  <2>1. \A i \in R : Useful(l, i) \/ Len(kept[i]) > 1
    BY DEF Retains
  <2>2. \A i \in R : i \in N0 /\ (i = u \/ after[i] = kept[i])
    BY <1>1, <1>4
  <2>3. Len(kept[u]) > 1 => Len(after[u]) > 1
    BY <1>4 DEF m
  <2>. QED
    BY <2>1, <2>2, <2>3
<1>12. R \subseteq done \cup {v} /\ \A i \in done \cup {v} : Useful(l, i) => i \in R
  BY DEF Retains
<1>. QED
  BY <1>7, <1>9, <1>10, <1>11, <1>12 DEF Retains, after


\* The visit on top of the stack.
LEMMA TopOfStack ==
    ASSUME NEW l \in Layouts, NEW r, RunInv(l, r)
    PROVE  LET n == Len(l.nodes)
               i == Last(r.stack)
               open == ToSet(r.stack)
           IN  /\ n \in Nat /\ DOMAIN l.nodes = 1..n
               /\ r.stack \in Seq(0..n) /\ r.stack # <<>> /\ Len(r.stack) \in Nat \ {0}
               /\ i = r.stack[Len(r.stack)] /\ i \in open /\ 0 \in open
               /\ i \in 0..n /\ open \subseteq 0..n /\ open \subseteq r.seen \cup {0}
               /\ r.next[i] \in 1..(2 * n + 1) /\ r.next \in [0..n -> 1..(2 * n + 1)]
               /\ r.held \in [0..n -> Seq(1..n)] /\ r.seen \subseteq 1..n
               /\ i # 0 <=> Len(r.stack) > 1
               /\ i \notin Done(r) /\ 0 \notin Done(r)
<1>. DEFINE n == Len(l.nodes)
            m == Len(r.stack)
            open == ToSet(r.stack)
<1>1. n \in Nat /\ DOMAIN l.nodes = 1..n
  BY LayoutTyped
<1>2. /\ r.stack \in Seq(0..n) /\ r.stack # <<>> /\ r.next \in [0..n -> 1..(2 * n + 1)]
      /\ r.held \in [0..n -> Seq(1..n)] /\ r.seen \subseteq 1..n
  <2>1. r \in Runs(l)
    BY DEF RunInv
  <2>. QED
    BY <1>1, <2>1 DEF Runs
<1>. HIDE DEF n
<1>3. /\ m \in Nat \ {0} /\ DOMAIN r.stack = 1..m /\ Last(r.stack) = r.stack[m]
      /\ \A p \in 1..m : r.stack[p] \in 0..n
  <2>1. Last(r.stack) = r.stack[m]
    BY DEF Last
  <2>2. m \in Nat /\ DOMAIN r.stack = 1..m /\ m # 0
    BY <1>2
  <2>3. \A p \in 1..m : r.stack[p] \in 0..n
    BY <1>2, ElementOfSeq
  <2>. QED
    BY <2>1, <2>2, <2>3
<1>. HIDE DEF m
<1>4. m \in 1..m /\ 1 \in 1..m /\ \A p \in 1..m : p = 1 \/ p \in 2..m
  BY <1>3
<1>5. r.stack[1] = 0 /\ \A p \in 2..m : r.stack[p] \in r.seen
  BY DEF RunInv, m
<1>6. r.stack[m] \in open /\ 0 \in open /\ open \subseteq 0..n /\ open \subseteq r.seen \cup {0}
  BY <1>3, <1>4, <1>5 DEF ToSet
<1>7. r.stack[m] # 0 <=> m > 1
  <2>1. CASE m > 1
    <3>1. m \in 2..m
      BY <1>3, <2>1
    <3>2. r.stack[m] \in 1..n
      BY <1>2, <1>5, <3>1
    <3>3. ~(0 \in 1..n)
      OBVIOUS
    <3>. QED
      BY <2>1, <3>2, <3>3
  <2>2. CASE ~(m > 1)
    <3>1. m = 1
      BY <1>3, <2>2
    <3>. QED
      BY <1>5, <2>2, <3>1
  <2>. QED
    BY <2>1, <2>2
<1>8. r.next[r.stack[m]] \in 1..(2 * n + 1)
  <2>1. r.stack[m] \in 0..n
    BY <1>3, <1>4
  <2>. QED
    BY <1>2, <2>1
<1>9. r.stack[m] \notin Done(r) /\ 0 \notin Done(r)
  BY <1>6 DEF Done
<1>. QED
  BY <1>1, <1>2, <1>3, <1>6, <1>7, <1>8, <1>9 DEF n, m

Further(l, r, s) == \E q : q \notin Asked(l, r) /\ Asked(l, s) = Asked(l, r) \cup {q}

\* A node that has asked another question.
LEMMA OneMoreAsked ==
    ASSUME NEW l \in Layouts, NEW r, RunInv(l, r), NEW s,
           r.next[Last(r.stack)] <= 2 * Len(l.nodes),
           s.next = [r.next EXCEPT ![Last(r.stack)] = r.next[Last(r.stack)] + 1],
           Done(s) = Done(r)
    PROVE  /\ s.next \in [0..Len(l.nodes) -> 1..(2 * Len(l.nodes) + 1)]
           /\ Further(l, r, s)
<1>. DEFINE n == Len(l.nodes)
            i == Last(r.stack)
            k == r.next[i]
            All == (0..n) \X (1..(2 * n + 1))
<1>1. /\ n \in Nat /\ i \in 0..n /\ k \in 1..(2 * n + 1) /\ i \notin Done(r)
      /\ r.next \in [0..n -> 1..(2 * n + 1)]
  BY TopOfStack
<1>. HIDE DEF n, i
<1>2. k \in Nat /\ k <= 2 * n /\ k + 1 \in 1..(2 * n + 1) /\ 2 * n \in Nat
  BY <1>1 DEF n, i
<1>3. s.next \in [0..n -> 1..(2 * n + 1)] /\ s.next[i] = k + 1
      /\ \A x \in (0..n) \ {i} : s.next[x] = r.next[x]
  BY <1>1, <1>2 DEF i
<1>4. <<i, k>> \in All
  BY <1>1
<1>5. <<i, k>> \notin Asked(l, r)
  BY <1>1, <1>2 DEF Asked, n
<1>. HIDE DEF k
<1>6. ASSUME NEW q \in All
      PROVE  q \in Asked(l, s) <=> q \in Asked(l, r) \/ q = <<i, k>>
  <2>1. /\ q[1] \in 0..n /\ q[2] \in 1..(2 * n + 1) /\ q[2] \in Nat
        /\ (q = <<i, k>> <=> q[1] = i /\ q[2] = k)
    BY <1>1
  <2>2. /\ q \in Asked(l, s) <=> (q[2] < s.next[q[1]] \/ (q[2] = 2 * n + 1 /\ q[1] \in Done(r)))
        /\ q \in Asked(l, r) <=> (q[2] < r.next[q[1]] \/ (q[2] = 2 * n + 1 /\ q[1] \in Done(r)))
    BY DEF Asked, n
  <2>3. q[1] = i => (q[2] < k + 1 <=> q[2] < k \/ q[2] = k)
    BY <1>2, <2>1
  <2>4. CASE q[1] = i
    BY <1>1, <1>3, <2>1, <2>2, <2>3, <2>4 DEF k
  <2>5. CASE q[1] # i
    BY <1>3, <2>1, <2>2, <2>5
  <2>. QED
    BY <2>4, <2>5
<1>7. Asked(l, s) \subseteq All /\ Asked(l, r) \subseteq All
  BY DEF Asked, n
<1>8. Asked(l, s) = Asked(l, r) \cup {<<i, k>>}
  BY <1>4, <1>6, <1>7
<1>. QED
  BY <1>3, <1>5, <1>8 DEF n, k, Further

\* What the whole tree has asked twice was seen.
LEMMA WasSeen ==
    ASSUME NEW l \in Layouts, NEW r, RunInv(l, r), NEW s, r.seen \subseteq s.seen,
           LET i == Last(r.stack)
               n == Len(l.nodes)
           IN  /\ r.next[i] <= 2 * n
               /\ s.next = [r.next EXCEPT ![i] = r.next[i] + 1]
               /\ i = 0 /\ r.next[0] > n => r.next[0] - n \in s.seen
    PROVE  \A c \in DOMAIN l.nodes : Len(l.nodes) + c < s.next[0] => c \in s.seen
<1>. DEFINE n == Len(l.nodes)
            i == Last(r.stack)
            k == r.next[i]
<1>1. n \in Nat /\ DOMAIN l.nodes = 1..n /\ i \in 0..n /\ r.next \in [0..n -> 1..(2 * n + 1)]
  BY TopOfStack
<1>2. \A c \in 1..n : n + c < r.next[0] => c \in r.seen
  BY <1>1 DEF RunInv
<1>. HIDE DEF n, i
<1>3. i = 0 /\ k > n => k - n \in s.seen
  BY DEF n, i
<1>4. s.next = [r.next EXCEPT ![i] = k + 1]
  BY DEF i
<1>5. 0 \in 0..n /\ r.next[0] \in Nat
  BY <1>1
<1>6. ASSUME NEW c \in 1..n, n + c < s.next[0] PROVE c \in s.seen
  <2>1. CASE i # 0
    <3>1. s.next[0] = r.next[0]
      BY <1>1, <1>4, <1>5, <2>1
    <3>. QED
      BY <1>2, <1>6, <3>1
  <2>2. CASE i = 0
    <3>1. s.next[0] = r.next[0] + 1 /\ k = r.next[0]
      BY <1>1, <1>4, <1>5, <2>2
    <3>2. n + c < k \/ (k > n /\ k - n = c)
      BY <1>1, <1>5, <1>6, <3>1
    <3>. QED
      BY <1>2, <1>3, <2>2, <3>1, <3>2
  <2>. QED
    BY <2>1, <2>2
<1>. QED
  BY <1>1, <1>6 DEF n


\* What a step leaves: the invariant again, and one more question or return.
Onward(l, r, s) ==
    RunInv(l, s) /\ Further(l, r, s)

\* The three ways of a step: to ask, to call, to return.
Asks(l, r, s) ==
    LET i == Last(r.stack)
        n == Len(l.nodes)
    IN  /\ r.next[i] <= 2 * n
        /\ s = [r EXCEPT !.next[i] = r.next[i] + 1]
        /\ i = 0 /\ r.next[0] > n => r.next[0] - n \in r.seen

CallsNode(l, r, c, s) ==
    LET i == Last(r.stack)
        n == Len(l.nodes)
    IN  /\ r.next[i] <= 2 * n
        /\ s = [seen |-> r.seen \cup {c}, stack |-> Append(r.stack, c),
                next |-> [r.next EXCEPT ![i] = r.next[i] + 1], held |-> r.held]
        /\ i = 0 /\ r.next[0] > n => r.next[0] - n = c

Returns(l, r, isRoot, s) ==
    LET i == Last(r.stack)
        callers == Front(r.stack)
    IN  /\ r.next[i] > 2 * Len(l.nodes) /\ callers # <<>>
        /\ s = [r EXCEPT !.stack = callers,
               !.held[Last(callers)] = @ \o Retained(l, i, isRoot, r.held[i])]

LEMMA OnAsk ==
    ASSUME NEW l \in Layouts, NEW r, RunInv(l, r), NEW s, Asks(l, r, s)
    PROVE  Onward(l, r, s)
<1>. DEFINE n == Len(l.nodes)
            i == Last(r.stack)
            k == r.next[i]
<1>1. r \in Runs(l)
  BY DEF RunInv
<1>2. /\ s.seen = r.seen /\ s.stack = r.stack /\ s.held = r.held
      /\ s.next = [r.next EXCEPT ![i] = k + 1]
      /\ s = [seen |-> s.seen, stack |-> s.stack, next |-> s.next, held |-> s.held]
  BY <1>1 DEF Runs, Asks
<1>3. Done(s) = Done(r)
  BY <1>2 DEF Done
<1>4. k <= 2 * n /\ (i = 0 /\ r.next[0] > n => r.next[0] - n \in r.seen)
  BY DEF Asks
<1>5. /\ s.next \in [0..n -> 1..(2 * n + 1)]
      /\ Further(l, r, s)
  <2>1. s.next = [r.next EXCEPT ![i] = r.next[i] + 1]
    BY <1>2
  <2>2. r.next[i] <= 2 * n
    BY <1>4
  <2>. QED
    BY <1>3, <2>1, <2>2, OneMoreAsked
<1>6. \A c \in DOMAIN l.nodes : n + c < s.next[0] => c \in s.seen
  <2>1. r.seen \subseteq s.seen /\ (i = 0 /\ r.next[0] > n => r.next[0] - n \in s.seen)
    BY <1>2, <1>4
  <2>. QED
    BY <1>2, <1>4, <2>1, WasSeen
<1>7. s \in Runs(l)
  <2>1. /\ r.seen \in SUBSET DOMAIN l.nodes /\ r.stack \in Seq(0..n) \ {<<>>}
        /\ r.held \in [0..n -> Seq(DOMAIN l.nodes)]
    BY <1>1 DEF Runs
  <2>. QED
    BY <1>2, <1>5, <2>1 DEF Runs
<1>8. RunInv(l, s)
  <2>1. /\ r.stack[1] = 0 /\ \A p \in 2..Len(r.stack) : r.stack[p] \in r.seen
        /\ \A p, q \in DOMAIN r.stack : r.stack[p] = r.stack[q] => p = q
        /\ \A j \in DOMAIN l.nodes \ r.seen : r.held[j] = <<>>
        /\ \E R \in SUBSET DOMAIN l.nodes : Retains(l, ToSet(r.stack), Done(r), r.held, R)
    BY DEF RunInv
  <2>. HIDE DEF i
  <2>. QED
    BY <1>2, <1>3, <1>6, <1>7, <2>1 DEF RunInv
<1>. QED
  BY <1>5, <1>8 DEF Onward

LEMMA OnCall ==
    ASSUME NEW l \in Layouts, NEW r, RunInv(l, r), NEW c \in DOMAIN l.nodes \ r.seen,
           NEW s, CallsNode(l, r, c, s)
    PROVE  Onward(l, r, s)
<1>. DEFINE n == Len(l.nodes)
            i == Last(r.stack)
            k == r.next[i]
            m == Len(r.stack)
            D == DOMAIN l.nodes
<1>1. /\ s.seen = r.seen \cup {c} /\ s.stack = Append(r.stack, c) /\ s.held = r.held
      /\ s.next = [r.next EXCEPT ![i] = k + 1]
      /\ s = [seen |-> s.seen, stack |-> s.stack, next |-> s.next, held |-> s.held]
  BY DEF CallsNode
<1>2. k <= 2 * n /\ (i = 0 /\ r.next[0] > n => r.next[0] - n = c)
  BY DEF CallsNode
<1>3. /\ n \in Nat /\ D = 1..n /\ r.stack \in Seq(0..n) /\ m \in Nat \ {0}
      /\ r.held \in [0..n -> Seq(1..n)] /\ r.seen \subseteq 1..n
      /\ ToSet(r.stack) \subseteq r.seen \cup {0}
  BY TopOfStack
<1>4. c \in 0..n /\ c # 0 /\ c \in D /\ c \notin r.seen
  BY <1>3
<1>5. c \notin ToSet(r.stack)
  BY <1>3, <1>4
<1>6. /\ s.stack \in Seq(0..n) \ {<<>>} /\ Len(s.stack) = m + 1 /\ DOMAIN s.stack = 1..(m + 1)
      /\ DOMAIN r.stack = 1..m /\ s.stack[m + 1] = c
      /\ \A p \in 1..m : s.stack[p] = r.stack[p]
  <2>. HIDE DEF n, i
  <2>1. r.stack \in Seq(0..n) /\ c \in 0..n /\ s.stack = Append(r.stack, c)
    BY <1>1, <1>3, <1>4
  <2>. QED
    BY <2>1
<1>7. ToSet(s.stack) = ToSet(r.stack) \cup {c}
  <2>. HIDE DEF n, D
  <2>. QED
    BY <1>1, <1>3, <1>4, SetOfAppend
<1>8. Done(s) = Done(r)
  BY <1>1, <1>4, <1>7 DEF Done
<1>9. /\ s.next \in [0..n -> 1..(2 * n + 1)]
      /\ Further(l, r, s)
  BY <1>1, <1>2, <1>8, OneMoreAsked
<1>10. \A d \in D : n + d < s.next[0] => d \in s.seen
  <2>1. r.seen \subseteq s.seen /\ (i = 0 /\ r.next[0] > n => r.next[0] - n \in s.seen)
    BY <1>1, <1>2
  <2>. QED
    BY <1>1, <1>2, <2>1, WasSeen
<1>. HIDE DEF n, i, k
<1>11. s \in Runs(l)
  BY <1>1, <1>3, <1>4, <1>6, <1>9 DEF Runs, n
<1>12. s.stack[1] = 0 /\ \A p \in 2..Len(s.stack) : s.stack[p] \in s.seen
  <2>1. r.stack[1] = 0 /\ \A p \in 2..m : r.stack[p] \in r.seen
    BY DEF RunInv
  <2>. HIDE DEF m
  <2>2. 1 \in 1..m /\ \A p \in 2..(m + 1) : p = m + 1 \/ (p \in 2..m /\ p \in 1..m)
    BY <1>3
  <2>. QED
    BY <1>1, <1>6, <2>1, <2>2
<1>13. \A p, q \in DOMAIN s.stack : s.stack[p] = s.stack[q] => p = q
  <2>1. \A p, q \in 1..m : r.stack[p] = r.stack[q] => p = q
    BY <1>6 DEF RunInv
  <2>2. \A p \in 1..m : r.stack[p] # c
    BY <1>5, <1>6 DEF ToSet
  <2>3. \A p \in 1..(m + 1) : p \in 1..m \/ p = m + 1
    BY <1>3
  <2>. HIDE DEF m
  <2>. QED
    BY <1>6, <2>1, <2>2, <2>3
<1>14. \A j \in D \ s.seen : s.held[j] = <<>>
  BY <1>1 DEF RunInv
<1>15. \E R \in SUBSET D : Retains(l, ToSet(s.stack), Done(s), s.held, R)
  <2>1. PICK R \in SUBSET D : Retains(l, ToSet(r.stack), Done(r), r.held, R)
    BY DEF RunInv
  <2>2. r.held[c] = <<>>
    BY <1>4 DEF RunInv
  <2>3. Retains(l, ToSet(r.stack) \cup {c}, Done(r), r.held, R)
    BY <2>1, <2>2, RetainsOnCall
  <2>. QED
    BY <1>1, <1>7, <1>8, <2>3
<1>16. RunInv(l, s)
  BY <1>10, <1>11, <1>12, <1>13, <1>14, <1>15 DEF RunInv, n
<1>. QED
  BY <1>9, <1>16 DEF Onward

LEMMA OnReturn ==
    ASSUME NEW l \in Layouts, NEW r, RunInv(l, r), NEW s, NEW isRoot, Returns(l, r, isRoot, s)
    PROVE  Onward(l, r, s)
<1>. DEFINE n == Len(l.nodes)
            D == DOMAIN l.nodes
            m == Len(r.stack)
            callers == Front(r.stack)
            i == Last(r.stack)
            u == Last(callers)
            more == Retained(l, i, isRoot, r.held[i])
            All == (0..n) \X (1..(2 * n + 1))
<1>1. r \in Runs(l) /\ r.next[i] > 2 * n /\ callers # <<>>
  BY DEF RunInv, Returns
<1>2. /\ s.seen = r.seen /\ s.stack = callers /\ s.next = r.next
      /\ s.held = [r.held EXCEPT ![u] = @ \o more]
      /\ s = [seen |-> s.seen, stack |-> s.stack, next |-> s.next, held |-> s.held]
  BY <1>1 DEF Runs, Returns
<1>3. /\ n \in Nat /\ D = 1..n /\ r.stack \in Seq(0..n) /\ r.stack # <<>> /\ m \in Nat \ {0}
      /\ i = r.stack[m] /\ i \in ToSet(r.stack) /\ i \in 0..n /\ ToSet(r.stack) \subseteq 0..n
      /\ ToSet(r.stack) \subseteq r.seen \cup {0} /\ r.next[i] \in 1..(2 * n + 1)
      /\ r.next \in [0..n -> 1..(2 * n + 1)] /\ r.held \in [0..n -> Seq(1..n)]
      /\ r.seen \subseteq 1..n /\ (i # 0 <=> m > 1) /\ i \notin Done(r)
  BY TopOfStack
<1>. HIDE DEF n, i, callers
<1>4. /\ callers \in Seq(0..n) /\ Len(callers) = m - 1 /\ DOMAIN r.stack = 1..m
      /\ \A p \in 1..(m - 1) : callers[p] = r.stack[p]
      /\ ((\A p, q \in DOMAIN r.stack : r.stack[p] = r.stack[q] => p = q)
            => ToSet(callers) = ToSet(r.stack) \ {i})
  BY <1>3, WithoutLast DEF callers, i
<1>5. \A p, q \in 1..m : r.stack[p] = r.stack[q] => p = q
  BY <1>4 DEF RunInv
<1>6. ToSet(callers) = ToSet(r.stack) \ {i}
  BY <1>4, <1>5
<1>7. m - 1 \in Nat \ {0} /\ u = callers[m - 1] /\ u \in ToSet(callers) /\ DOMAIN callers = 1..(m - 1)
  <2>1. /\ Len(callers) \in Nat \ {0} /\ u = callers[Len(callers)]
        /\ DOMAIN callers = 1..Len(callers)
    BY <1>1, <1>4, WithoutLast
  <2>2. Len(callers) \in 1..Len(callers)
    BY <2>1
  <2>3. u \in ToSet(callers)
    BY <2>1, <2>2 DEF ToSet
  <2>. QED
    BY <1>4, <2>1, <2>3
<1>8. i # 0 /\ i \in r.seen /\ i \in D
  <2>1. m > 1
    <3>. HIDE DEF m
    <3>. QED
      BY <1>3, <1>7
  <2>. QED
    BY <1>3, <2>1
<1>9. Done(s) = Done(r) \cup {i}
  BY <1>2, <1>6, <1>8 DEF Done
<1>10. <<i, 2 * n + 1>> \notin Asked(l, r) /\ Asked(l, s) = Asked(l, r) \cup {<<i, 2 * n + 1>>}
  <2>1. r.next[i] = 2 * n + 1 /\ 2 * n + 1 \in Nat
    <3>. DEFINE k == r.next[i]
    <3>1. k \in 1..(2 * n + 1) /\ k > 2 * n /\ 2 * n \in Nat
      BY <1>1, <1>3
    <3>. HIDE DEF k
    <3>2. k = 2 * n + 1
      BY <3>1
    <3>. QED
      BY <3>1, <3>2 DEF k
  <2>2. <<i, 2 * n + 1>> \in All
    BY <1>3, <2>1
  <2>3. \A q \in All : /\ q \in Asked(l, s) <=> (q[2] < r.next[q[1]] \/ (q[2] = 2 * n + 1 /\ q[1] \in Done(s)))
                       /\ q \in Asked(l, r) <=> (q[2] < r.next[q[1]] \/ (q[2] = 2 * n + 1 /\ q[1] \in Done(r)))
    BY <1>2 DEF Asked, n
  <2>4. <<i, 2 * n + 1>> \notin Asked(l, r)
    <3>1. <<i, 2 * n + 1>>[1] = i /\ <<i, 2 * n + 1>>[2] = 2 * n + 1
      OBVIOUS
    <3>2. ~(2 * n + 1 < r.next[i])
      BY <2>1
    <3>. HIDE DEF All
    <3>. QED
      BY <1>3, <2>2, <2>3, <3>1, <3>2
  <2>5. Asked(l, s) \subseteq All /\ Asked(l, r) \subseteq All
    BY DEF Asked, n
  <2>6. ASSUME NEW q \in All
        PROVE  q \in Asked(l, s) <=> q \in Asked(l, r) \/ q = <<i, 2 * n + 1>>
    <3>1. q = <<i, 2 * n + 1>> <=> q[1] = i /\ q[2] = 2 * n + 1
      OBVIOUS
    <3>. QED
      BY <1>9, <2>3, <3>1
  <2>. HIDE DEF All
  <2>. QED
    BY <2>2, <2>4, <2>5, <2>6
<1>11. Returning(l, ToSet(r.stack), Done(r), r.held, u, i)
  BY <1>3, <1>6, <1>7, <1>8 DEF Returning, Done, n
<1>12. PICK R \in SUBSET D : Retains(l, ToSet(r.stack), Done(r), r.held, R)
  BY DEF RunInv
<1>13. more \in Seq(D)
  <2>1. r.held[i] \in Seq(D)
    BY <1>3
  <2>2. <<i>> \in Seq(D)
    <3>. HIDE DEF D
    <3>. QED
      BY <1>8
  <2>. QED
    BY <2>1, <2>2 DEF Retained
<1>14. Grows(l, r.held, u, more, s.held)
  <2>. HIDE DEF more, u, D, m
  <2>1. Grows(l, r.held, u, more, [r.held EXCEPT ![u] = @ \o more])
    BY <1>11, <1>13, HeldGrows DEF D
  <2>. QED
    BY <1>2, <2>1
<1>15. \E Q \in SUBSET D : Retains(l, ToSet(s.stack), Done(s), s.held, Q)
  <2>1. CASE Useful(l, i) \/ Groups(l, i, isRoot, r.held[i])
    <3>1. more = <<i>> /\ (Useful(l, i) \/ Len(r.held[i]) > 1)
      BY <2>1 DEF Retained, Groups
    <3>. HIDE DEF more, u
    <3>2. Retains(l, ToSet(r.stack) \ {i}, Done(r) \cup {i}, s.held, R \cup {i})
      BY <1>2, <1>11, <1>12, <3>1, RetainsItself
    <3>3. ToSet(s.stack) = ToSet(r.stack) \ {i}
      BY <1>2, <1>6
    <3>4. R \cup {i} \in SUBSET D
      BY <1>8
    <3>. QED
      BY <1>9, <3>2, <3>3, <3>4
  <2>2. CASE ~(Useful(l, i) \/ Groups(l, i, isRoot, r.held[i]))
    <3>1. more = r.held[i] /\ ~Useful(l, i)
      BY <2>2 DEF Retained
    <3>. HIDE DEF more, u
    <3>2. Retains(l, ToSet(r.stack) \ {i}, Done(r) \cup {i}, [r.held EXCEPT ![u] = @ \o r.held[i]], R)
      BY <1>11, <1>12, <3>1, HandsOn
    <3>3. ToSet(s.stack) = ToSet(r.stack) \ {i} /\ s.held = [r.held EXCEPT ![u] = @ \o r.held[i]]
      BY <1>2, <1>6, <3>1
    <3>. QED
      BY <1>9, <3>2, <3>3
  <2>. QED
    BY <2>1, <2>2
<1>16. s \in Runs(l)
  <2>1. s.held \in [0..n -> Seq(D)]
    BY <1>14 DEF Grows, n
  <2>. HIDE DEF more, u
  <2>. QED
    BY <1>1, <1>2, <1>3, <1>4, <2>1 DEF Runs, n
<1>17. s.stack[1] = 0 /\ \A p \in 2..Len(s.stack) : s.stack[p] \in s.seen
  <2>1. r.stack[1] = 0 /\ \A p \in 2..m : r.stack[p] \in r.seen
    BY DEF RunInv
  <2>. HIDE DEF m
  <2>2. 1 \in 1..(m - 1) /\ \A p \in 2..(m - 1) : p \in 2..m /\ p \in 1..(m - 1)
    BY <1>3, <1>7
  <2>. QED
    BY <1>2, <1>4, <2>1, <2>2
<1>18. \A p, q \in DOMAIN s.stack : s.stack[p] = s.stack[q] => p = q
  <2>1. \A p \in 1..(m - 1) : p \in 1..m
    BY <1>3
  <2>. HIDE DEF m
  <2>. QED
    BY <1>2, <1>4, <1>5, <1>7, <2>1
<1>19. \A c \in D : n + c < s.next[0] => c \in s.seen
  BY <1>2 DEF RunInv, n
<1>20. \A j \in D \ s.seen : s.held[j] = <<>>
  <2>1. \A j \in D \ s.seen : j # u /\ j \in 0..n
    <3>1. u \in r.seen \cup {0}
      <4>. HIDE DEF D, u, m
      <4>. QED
        BY <1>3, <1>6, <1>7
    <3>2. 0 \notin D /\ D \subseteq 0..n
      <4>. HIDE DEF D, u, m
      <4>. QED
        BY <1>3
    <3>. HIDE DEF D, u
    <3>. QED
      BY <1>2, <3>1, <3>2
  <2>2. \A j \in D \ s.seen : s.held[j] = r.held[j]
    <3>. HIDE DEF D, u
    <3>. QED
      BY <1>14, <2>1 DEF Grows, n
  <2>3. \A j \in D \ r.seen : r.held[j] = <<>>
    BY DEF RunInv
  <2>. QED
    BY <1>2, <2>2, <2>3
<1>21. RunInv(l, s)
  BY <1>15, <1>16, <1>17, <1>18, <1>19, <1>20 DEF RunInv, n
<1>. QED
  BY <1>10, <1>21 DEF Onward, Further


\* The walk is over when the whole tree has asked everything.
Ended(l, r) == Len(r.stack) = 1 /\ r.next[0] > 2 * Len(l.nodes)

\* A step goes on, or the walk is over and stays as it is.
LEMMA EachAdvance ==
    ASSUME NEW l \in Layouts, NEW r, RunInv(l, r)
    PROVE  Onward(l, r, Advance(l, r)) \/ (Advance(l, r) = r /\ Ended(l, r))
<1>. DEFINE n == Len(l.nodes)
            i == Last(r.stack)
            k == r.next[i]
            c == IF k <= n THEN k ELSE k - n
            callers == Front(r.stack)
            isRoot == Last(callers) = 0 /\ r.next[0] <= n + 1
            s == Advance(l, r)
<1>1. /\ n \in Nat /\ DOMAIN l.nodes = 1..n /\ k \in 1..(2 * n + 1) /\ i \in 0..n
      /\ Len(r.stack) \in Nat \ {0} /\ r.stack \in Seq(0..n) /\ r.stack # <<>>
      /\ (i # 0 <=> Len(r.stack) > 1) /\ r.next \in [0..n -> 1..(2 * n + 1)]
  BY TopOfStack
<1>2. r = [seen |-> r.seen, stack |-> r.stack, next |-> r.next, held |-> r.held]
  BY DEF RunInv, Runs
<1>3. k <= 2 * n => c \in DOMAIN l.nodes
  <2>. HIDE DEF n, k
  <2>. QED
    BY <1>1
<1>4. CASE k <= 2 * n /\ Calls(l, i, k) /\ c \notin r.seen
  <2>1. s = [seen |-> r.seen \cup {c}, stack |-> Append(r.stack, c),
             next |-> [r.next EXCEPT ![i] = k + 1], held |-> r.held]
    BY <1>2, <1>4 DEF Advance
  <2>2. i = 0 /\ r.next[0] > n => r.next[0] - n = c
    <3>1. i = 0 => k = r.next[0]
      OBVIOUS
    <3>. HIDE DEF i
    <3>. QED
      BY <1>1, <3>1
  <2>3. CallsNode(l, r, c, s)
    BY <1>4, <2>1, <2>2 DEF CallsNode
  <2>. HIDE DEF s, c
  <2>. QED
    BY <1>3, <1>4, <2>3, OnCall DEF s
<1>5. CASE k <= 2 * n /\ ~(Calls(l, i, k) /\ c \notin r.seen)
  <2>1. s = [r EXCEPT !.next[i] = k + 1]
    BY <1>5 DEF Advance
  <2>2. i = 0 /\ r.next[0] > n => r.next[0] - n \in r.seen
    <3>1. i = 0 => k = r.next[0]
      OBVIOUS
    <3>2. i = 0 /\ k > n => Calls(l, i, k)
      <4>1. n \in Nat /\ k \in Nat
        BY <1>1
      <4>. HIDE DEF n, k, i
      <4>2. k > n => ~(k <= n)
        BY <4>1
      <4>. QED
        BY <4>2 DEF Calls, n
    <3>. HIDE DEF i
    <3>. QED
      BY <1>1, <1>5, <3>1, <3>2
  <2>3. Asks(l, r, s)
    BY <1>5, <2>1, <2>2 DEF Asks
  <2>. HIDE DEF s
  <2>. QED
    BY <2>3, OnAsk DEF s
<1>6. CASE ~(k <= 2 * n) /\ callers # <<>>
  <2>1. s = [r EXCEPT !.stack = callers,
                      !.held[Last(callers)] = @ \o Retained(l, i, isRoot, r.held[i])]
    BY <1>6 DEF Advance
  <2>2. k > 2 * n
    <3>. HIDE DEF k
    <3>. QED
      BY <1>1, <1>6
  <2>3. Returns(l, r, isRoot, s)
    BY <1>6, <2>1, <2>2 DEF Returns
  <2>. HIDE DEF s, isRoot
  <2>. QED
    BY <2>3, OnReturn DEF s
<1>7. CASE ~(k <= 2 * n) /\ callers = <<>>
  <2>1. s = r
    BY <1>7 DEF Advance
  <2>2. Len(callers) = Len(r.stack) - 1
    BY <1>1, WithoutLast
  <2>3. Len(r.stack) = 1
    BY <1>1, <1>7, <2>2
  <2>4. r.next[0] > 2 * n
    <3>1. i = 0
      BY <1>1, <2>3
    <3>2. k > 2 * n
      <4>. HIDE DEF k
      <4>. QED
        BY <1>1, <1>7
    <3>. QED
      BY <3>1, <3>2
  <2>. QED
    BY <2>1, <2>3, <2>4 DEF Ended
<1>. QED
  BY <1>4, <1>5, <1>6, <1>7

\* The walk that is over stays as it is.
LEMMA EndedStays ==
    ASSUME NEW l \in Layouts, NEW r, RunInv(l, r), Ended(l, r)
    PROVE  Advance(l, r) = r
<1>. DEFINE n == Len(l.nodes)
            i == Last(r.stack)
            callers == Front(r.stack)
<1>1. /\ n \in Nat /\ Len(r.stack) = 1 /\ r.stack \in Seq(0..n) /\ r.stack # <<>>
      /\ (i # 0 <=> Len(r.stack) > 1) /\ r.next \in [0..n -> 1..(2 * n + 1)]
  BY TopOfStack DEF Ended
<1>2. i = 0
  BY <1>1
<1>3. ~(r.next[i] <= 2 * n)
  <2>1. r.next[0] > 2 * n /\ r.next[0] \in Nat
    BY <1>1 DEF Ended
  <2>. QED
    BY <1>1, <1>2, <2>1
<1>4. callers = <<>>
  <2>1. callers \in Seq(0..n) /\ Len(callers) = 0
    BY <1>1, WithoutLast
  <2>. HIDE DEF callers, n
  <2>. QED
    BY <2>1
<1>. QED
  BY <1>3, <1>4 DEF Advance

\* Nothing is seen, asked or held at the start.
LEMMA AtStart ==
    ASSUME NEW l \in Layouts
    PROVE  RunInv(l, Start(l)) /\ Asked(l, Start(l)) = {}
<1>. DEFINE n == Len(l.nodes)
            D == DOMAIN l.nodes
            r == Start(l)
<1>1. n \in Nat /\ D = 1..n
  BY LayoutTyped
<1>2. /\ r.seen = {} /\ r.stack = <<0>> /\ r.next = [i \in 0..n |-> 1]
      /\ r.held = [i \in 0..n |-> <<>>]
      /\ r = [seen |-> r.seen, stack |-> r.stack, next |-> r.next, held |-> r.held]
  BY DEF Start
<1>. HIDE DEF r, n
<1>3. /\ r.stack \in Seq(0..n) \ {<<>>} /\ DOMAIN r.stack = {1} /\ Len(r.stack) = 1
      /\ r.stack[1] = 0 /\ ToSet(r.stack) = {0}
  <2>1. 0 \in 0..n
    BY <1>1
  <2>2. /\ r.stack \in Seq(0..n) /\ r.stack # <<>> /\ DOMAIN r.stack = {1} /\ Len(r.stack) = 1
        /\ r.stack[1] = 0
    BY <1>2, <2>1
  <2>. QED
    BY <2>2 DEF ToSet
<1>4. \A i \in 0..n : r.next[i] = 1 /\ r.held[i] = <<>>
  BY <1>2
<1>5. r \in Runs(l)
  <2>1. r.next \in [0..n -> 1..(2 * n + 1)]
    <3>1. 1 \in 1..(2 * n + 1)
      BY <1>1
    <3>. QED
      BY <1>2, <3>1
  <2>2. r.held \in [0..n -> Seq(D)]
    <3>1. <<>> \in Seq(D)
      OBVIOUS
    <3>. QED
      BY <1>2, <3>1
  <2>. QED
    BY <1>2, <1>3, <2>1, <2>2 DEF Runs, n
<1>6. Done(r) = {}
  BY <1>2 DEF Done
<1>7. Asked(l, r) = {}
  <2>1. \A q \in (0..n) \X (1..(2 * n + 1)) : q[1] \in 0..n /\ ~(q[2] < 1)
    BY <1>1
  <2>. QED
    BY <1>4, <1>6, <2>1 DEF Asked, n
<1>8. Retains(l, {0}, {}, r.held, {})
  <2>1. r.held[0] = <<>>
    BY <1>1, <1>4
  <2>2. DOMAIN r.held[0] = {} /\ ToSet(r.held[0]) = {}
    BY <2>1 DEF ToSet
  <2>. QED
    BY <2>2 DEF Retains
<1>9. \A c \in D : ~(n + c < r.next[0])
  <2>1. r.next[0] = 1
    BY <1>1, <1>4
  <2>. QED
    BY <1>1, <2>1
<1>10. \A p \in 2..Len(r.stack) : FALSE
  BY <1>3
<1>11. \A i \in D : r.held[i] = <<>>
  BY <1>1, <1>4
<1>12. \E R \in SUBSET D : Retains(l, ToSet(r.stack), Done(r), r.held, R)
  BY <1>3, <1>6, <1>8
<1>13. RunInv(l, r)
  BY <1>3, <1>5, <1>9, <1>10, <1>11, <1>12 DEF RunInv, n
<1>. QED
  BY <1>7, <1>13 DEF r

\* The walk is the steps, one after the other.
LEMMA WalkExists ==
    ASSUME NEW l \in Layouts
    PROVE  /\ Moves(l) \in Nat /\ Walk(l)[0] = Start(l)
           /\ \A k \in 1..Moves(l) : Walk(l)[k] = Advance(l, Walk(l)[k - 1])
           /\ \A k \in 0..Moves(l) : RunInv(l, Walk(l)[k])
<1>. DEFINE n == Moves(l)
            V == {r \in Runs(l) : RunInv(l, r)}
            first == Start(l)
            next == [q \in (1..n) \X V |-> Advance(l, q[2])]
            Def(f) == [k \in 0..n |-> IF k = 0 THEN Start(l) ELSE Advance(l, f[k - 1])]
            run == CHOOSE g : g = Def(g)
<1>1. n \in Nat
  <2>1. Len(l.nodes) \in Nat
    BY LayoutTyped
  <2>. QED
    BY <2>1 DEF Moves
<1>. HIDE DEF n
<1>2. first \in V
  BY AtStart DEF RunInv
<1>3. \A r \in V : Advance(l, r) \in V
  <2>. SUFFICES ASSUME NEW r, RunInv(l, r) PROVE RunInv(l, Advance(l, r))
    BY DEF RunInv
  <2>. QED
    BY EachAdvance DEF Onward
<1>4. next \in Steps(n, V)
  <2>. HIDE DEF V
  <2>. QED
    BY <1>3 DEF Steps
<1>5. PICK f : Computes(f, n, V, first, next)
  <2>. HIDE DEF next, V, first
  <2>. QED
    BY <1>1, <1>2, <1>4, StepByStep
<1>. HIDE DEF V
<1>6. \A k \in 0..n : k = 0 \/ k \in 1..n
  BY <1>1
<1>7. f = Def(f)
  <2>1. ASSUME NEW k \in 0..n, k # 0 PROVE next[<<k, f[k - 1]>>] = Advance(l, f[k - 1])
    <3>1. k \in 1..n /\ k - 1 \in 0..n
      BY <1>1, <1>6, <2>1
    <3>2. f[k - 1] \in V
      BY <1>5, <3>1 DEF Computes
    <3>. QED
      BY <3>1, <3>2
  <2>. HIDE DEF next
  <2>. QED
    BY <1>5, <1>6, <2>1 DEF Computes
<1>8. run = Def(run)
  <2>. HIDE DEF Def
  <2>. QED
    BY <1>7
<1>9. Walk(l) = run
  BY DEF Walk, n
<1>. HIDE DEF run
<1>10. \A k \in 0..n : run[k] = IF k = 0 THEN Start(l) ELSE Advance(l, run[k - 1])
  BY <1>8
<1>11. run[0] = first /\ \A k \in 1..n : run[k] = Advance(l, run[k - 1])
  <2>1. 0 \in 0..n /\ \A k \in 1..n : k \in 0..n /\ k # 0
    BY <1>1
  <2>. HIDE DEF Def
  <2>. QED
    BY <1>10, <2>1
<1>. DEFINE S == {k \in 0..n : run[k] \in V}
<1>12. 0 \in S
  BY <1>1, <1>2, <1>11
<1>13. ASSUME NEW k \in 0..(n - 1), k \in S PROVE k + 1 \in S
  <2>1. k + 1 \in 1..n /\ k + 1 \in 0..n /\ (k + 1) - 1 = k
    BY <1>1
  <2>2. run[k + 1] = Advance(l, run[k])
    BY <1>11, <2>1
  <2>. QED
    BY <1>3, <1>13, <2>1, <2>2
<1>14. \A k \in 0..n : k \in S
  <2>. HIDE DEF S
  <2>. QED
    BY <1>1, <1>12, <1>13, UpTo
<1>. QED
  BY <1>1, <1>9, <1>11, <1>14 DEF n, V

\* After all its moves every node was seen and has returned.
LEMMA WalkEnds ==
    ASSUME NEW l \in Layouts
    PROVE  LET r == Walk(l)[Moves(l)]
           IN  RunInv(l, r) /\ Done(r) = DOMAIN l.nodes /\ ToSet(r.stack) = {0}
<1>. DEFINE n == Len(l.nodes)
            D == DOMAIN l.nodes
            last == Moves(l)
            run == Walk(l)
            r == run[last]
            All == (0..n) \X (1..(2 * n + 1))
            T == All \ {<<0, 2 * n + 1>>}
<1>1. n \in Nat /\ D = 1..n
  BY LayoutTyped
<1>2. /\ last \in Nat /\ run[0] = Start(l) /\ \A k \in 1..last : run[k] = Advance(l, run[k - 1])
      /\ \A k \in 0..last : RunInv(l, run[k])
  BY WalkExists
<1>3. last = (n + 1) * (2 * n) + n
  BY DEF Moves
<1>. HIDE DEF last, run, n
<1>4. IsFiniteSet(All) /\ Cardinality(All) = (n + 1) * (2 * n + 1)
  <2>1. IsFiniteSet(0..n) /\ Cardinality(0..n) = n + 1
    <3>1. 0 \in Int /\ n \in Int /\ ~(0 > n) /\ n - 0 + 1 = n + 1
      BY <1>1
    <3>. QED
      BY <3>1, FS_Interval
  <2>2. IsFiniteSet(1..(2 * n + 1)) /\ Cardinality(1..(2 * n + 1)) = 2 * n + 1
    <3>. DEFINE b == 2 * n + 1
    <3>1. 1 \in Int /\ b \in Int /\ ~(1 > b) /\ b - 1 + 1 = b
      BY <1>1
    <3>. HIDE DEF b
    <3>2. IsFiniteSet(1..b) /\ Cardinality(1..b) = b
      BY <3>1, FS_Interval
    <3>. QED
      BY <3>2 DEF b
  <2>. DEFINE A == 0..n
              B == 1..(2 * n + 1)
  <2>3. IsFiniteSet(A \X B) /\ Cardinality(A \X B) = Cardinality(A) * Cardinality(B)
    <3>1. IsFiniteSet(A) /\ IsFiniteSet(B)
      BY <2>1, <2>2
    <3>. HIDE DEF A, B
    <3>. QED
      BY <3>1, FS_Product
  <2>. QED
    BY <2>1, <2>2, <2>3
<1>5. <<0, 2 * n + 1>> \in All
  BY <1>1
<1>6. IsFiniteSet(T) /\ Cardinality(T) = last
  <2>1. IsFiniteSet(T) /\ Cardinality(T) = Cardinality(All) - 1
    <3>. HIDE DEF All
    <3>. QED
      BY <1>4, <1>5, FS_RemoveElement
  <2>2. (n + 1) * (2 * n + 1) - 1 = (n + 1) * (2 * n) + n
    BY <1>1
  <2>. QED
    BY <1>3, <1>4, <2>1, <2>2
<1>7. ASSUME NEW q, RunInv(l, q)
      PROVE  Asked(l, q) \subseteq T /\ IsFiniteSet(Asked(l, q))
  <2>1. q.next \in [0..n -> 1..(2 * n + 1)] /\ 0 \notin Done(q)
    BY <1>7, TopOfStack DEF n
  <2>2. q.next[0] \in 1..(2 * n + 1)
    BY <1>1, <2>1
  <2>3. ~(2 * n + 1 < q.next[0])
    BY <1>1, <2>2
  <2>4. <<0, 2 * n + 1>>[1] = 0 /\ <<0, 2 * n + 1>>[2] = 2 * n + 1
    OBVIOUS
  <2>5. <<0, 2 * n + 1>> \notin Asked(l, q)
    BY <2>1, <2>3, <2>4 DEF Asked, n
  <2>6. Asked(l, q) \subseteq T
    BY <2>5 DEF Asked, n
  <2>. HIDE DEF T
  <2>. QED
    BY <1>6, <2>6, FS_Subset
<1>. DEFINE S == {k \in 0..last : Cardinality(Asked(l, run[k])) = k \/ Ended(l, run[k])}
<1>8. 0 \in S
  BY <1>2, AtStart, FS_EmptySet
<1>9. ASSUME NEW k \in 0..(last - 1), k \in S PROVE k + 1 \in S
  <2>1. k + 1 \in 1..last /\ k + 1 \in 0..last /\ (k + 1) - 1 = k /\ k \in 0..last
    BY <1>2
  <2>2. run[k + 1] = Advance(l, run[k]) /\ RunInv(l, run[k])
    BY <1>2, <2>1
  <2>3. Ended(l, run[k]) => Ended(l, run[k + 1])
    BY <2>2, EndedStays
  <2>4. CASE Cardinality(Asked(l, run[k])) = k /\ Onward(l, run[k], run[k + 1])
    <3>1. PICK q : q \notin Asked(l, run[k]) /\ Asked(l, run[k + 1]) = Asked(l, run[k]) \cup {q}
      BY <2>4 DEF Onward, Further
    <3>2. IsFiniteSet(Asked(l, run[k]))
      BY <1>7, <2>2
    <3>3. Cardinality(Asked(l, run[k + 1])) = k + 1
      BY <2>4, <3>1, <3>2, FS_AddElement
    <3>. QED
      BY <2>1, <3>3
  <2>. QED
    BY <1>9, <2>1, <2>2, <2>3, <2>4, EachAdvance
<1>10. last \in S /\ RunInv(l, r)
  <2>1. \A k \in 0..last : k \in S
    <3>. HIDE DEF S
    <3>. QED
      BY <1>2, <1>8, <1>9, UpTo
  <2>2. last \in 0..last
    BY <1>2
  <2>. QED
    BY <1>2, <2>1, <2>2
<1>. HIDE DEF r
<1>11. /\ r.stack \in Seq(0..n) /\ r.stack # <<>> /\ ToSet(r.stack) \subseteq 0..n /\ 0 \in ToSet(r.stack)
       /\ r.seen \subseteq D /\ r.next \in [0..n -> 1..(2 * n + 1)] /\ Done(r) = r.seen \ ToSet(r.stack)
  BY <1>1, <1>10, TopOfStack DEF n, Done
<1>12. CASE Ended(l, r)
  <2>1. ToSet(r.stack) = {0}
    <3>1. Len(r.stack) = 1 /\ r.stack[1] = 0
      BY <1>10, <1>12 DEF Ended, RunInv
    <3>2. DOMAIN r.stack = {1}
      <4>1. DOMAIN r.stack = 1..Len(r.stack)
        BY <1>11
      <4>. QED
        BY <3>1, <4>1
    <3>. QED
      BY <3>1, <3>2 DEF ToSet
  <2>2. ASSUME NEW c \in D PROVE c \in r.seen
    <3>1. r.next[0] > 2 * n /\ r.next[0] \in Nat
      BY <1>1, <1>11, <1>12 DEF Ended, n
    <3>2. n + c < r.next[0]
      BY <1>1, <3>1
    <3>. QED
      BY <1>10, <3>2 DEF RunInv, n
  <2>3. 0 \notin D
    BY <1>1
  <2>. HIDE DEF D
  <2>4. Done(r) = D
    BY <1>11, <2>1, <2>2, <2>3
  <2>. QED
    BY <1>10, <2>1, <2>4 DEF r, run, last, D
<1>13. CASE Cardinality(Asked(l, r)) = last
  <2>1. Asked(l, r) = T
    <3>1. Asked(l, r) \subseteq T
      BY <1>7, <1>10
    <3>. HIDE DEF T
    <3>. QED
      BY <1>6, <1>13, <3>1, FS_Subset
  <2>2. ASSUME NEW i \in D PROVE i \in Done(r)
    <3>1. <<i, 2 * n + 1>> \in T
      BY <1>1
    <3>2. <<i, 2 * n + 1>> \in Asked(l, r)
      BY <2>1, <3>1
    <3>3. <<i, 2 * n + 1>>[1] = i /\ <<i, 2 * n + 1>>[2] = 2 * n + 1
      OBVIOUS
    <3>4. 2 * n + 1 < r.next[i] \/ i \in Done(r)
      BY <3>2, <3>3 DEF Asked, n
    <3>5. r.next[i] \in 1..(2 * n + 1)
      BY <1>1, <1>11
    <3>6. ~(2 * n + 1 < r.next[i])
      BY <1>1, <3>5
    <3>. QED
      BY <3>4, <3>6
  <2>. HIDE DEF T
  <2>3. \A i \in 0..n : i = 0 \/ i \in D
    BY <1>1
  <2>. HIDE DEF D
  <2>4. Done(r) = D
    BY <1>11, <2>2
  <2>5. ToSet(r.stack) = {0}
    BY <1>11, <2>2, <2>3
  <2>. QED
    BY <1>10, <2>4, <2>5 DEF r, run, last, D
<1>. QED
  BY <1>10, <1>12, <1>13 DEF r


-----------------------------------------------------------------------------
(* Leaves that are merged.                                                 *)

\* a sibling that shows what an earlier one shows
Repeats(l, kids, siblings, k) ==
    \E j \in 1..(k - 1) :
        /\ kids[siblings[j]] = <<>> /\ ~N(l, siblings[j]).acts
        /\ kids[siblings[k]] = <<>> /\ ~N(l, siblings[k]).acts
        /\ Signature(l, siblings[j]) = Signature(l, siblings[k])

\* The siblings that repeat nothing stay, in their order.
LEMMA MergeTakes ==
    ASSUME NEW l, NEW kids, NEW D, NEW siblings \in Seq(D)
    PROVE  LET m == Merge(l, kids, siblings)
               n == Len(siblings)
           IN  /\ m \in Seq(D)
               /\ \A x \in ToSet(m) : \E k \in 1..n : x = siblings[k]
               /\ \A k \in 1..n : ~Repeats(l, kids, siblings, k) => siblings[k] \in ToSet(m)
               /\ (\A j, k \in 1..n : siblings[j] = siblings[k] => j = k)
                    => (\A j, k \in DOMAIN m : m[j] = m[k] => j = k)
<1>. DEFINE n == Len(siblings)
            Again(k) == Repeats(l, kids, siblings, k)
            Taken(a, k) == IF Again(k) THEN a ELSE Append(a, siblings[k])
            next == [q \in (1..n) \X Seq(D) |-> Taken(q[2], q[1])]
            Def(f) == [k \in 0..n |-> IF k = 0 THEN <<>> ELSE Taken(f[k - 1], k)]
            result == CHOOSE g : g = Def(g)
<1>1. n \in Nat /\ \A k \in 1..n : siblings[k] \in D
  OBVIOUS
<1>2. Merge(l, kids, siblings) = result[n]
  BY DEF Merge, Repeats
<1>. HIDE DEF Again, n
<1>3. <<>> \in Seq(D) /\ \A a \in Seq(D), k \in 1..n : Taken(a, k) \in Seq(D)
  BY <1>1
<1>4. next \in Steps(n, Seq(D))
  <2>. HIDE DEF Taken
  <2>. QED
    BY <1>3 DEF Steps
<1>5. PICK f : Computes(f, n, Seq(D), <<>>, next)
  <2>. HIDE DEF next
  <2>. QED
    BY <1>1, <1>3, <1>4, StepByStep
<1>. HIDE DEF Taken
<1>6. \A k \in 0..n : k = 0 \/ k \in 1..n
  BY <1>1
<1>7. f = Def(f)
  <2>1. ASSUME NEW k \in 0..n, k # 0 PROVE next[<<k, f[k - 1]>>] = Taken(f[k - 1], k)
    <3>1. k \in 1..n /\ k - 1 \in 0..n
      BY <1>1, <1>6, <2>1
    <3>2. f[k - 1] \in Seq(D)
      BY <1>5, <3>1 DEF Computes
    <3>. QED
      BY <3>1, <3>2
  <2>. HIDE DEF next
  <2>. QED
    BY <1>5, <1>6, <2>1 DEF Computes
<1>8. result = Def(result)
  <2>. HIDE DEF Def
  <2>. QED
    BY <1>7
<1>. HIDE DEF result
<1>9. \A k \in 0..n : result[k] = IF k = 0 THEN <<>> ELSE Taken(result[k - 1], k)
  BY <1>8
<1>10. result[0] = <<>> /\ \A k \in 1..n : result[k] = Taken(result[k - 1], k)
  <2>1. 0 \in 0..n /\ \A k \in 1..n : k \in 0..n /\ k # 0
    BY <1>1
  <2>. HIDE DEF Def
  <2>. QED
    BY <1>9, <2>1
<1>. DEFINE Good(k) ==
                /\ result[k] \in Seq(D)
                /\ \A x \in ToSet(result[k]) : \E j \in 1..k : x = siblings[j]
                /\ \A j \in 1..k : ~Again(j) => siblings[j] \in ToSet(result[k])
                /\ (\A i, j \in 1..n : siblings[i] = siblings[j] => i = j)
                     => (\A i, j \in DOMAIN result[k] : result[k][i] = result[k][j] => i = j)
            S == {k \in 0..n : Good(k)}
<1>11. 0 \in S
  <2>1. DOMAIN result[0] = {} /\ ToSet(result[0]) = {} /\ result[0] \in Seq(D)
    BY <1>3, <1>10 DEF ToSet
  <2>2. \A j \in 1..0 : FALSE
    OBVIOUS
  <2>3. Good(0)
    BY <2>1, <2>2
  <2>4. 0 \in 0..n
    BY <1>1
  <2>. HIDE DEF Good
  <2>. QED
    BY <2>3, <2>4
<1>12. ASSUME NEW k \in 0..(n - 1), k \in S PROVE k + 1 \in S
  <2>. DEFINE a == result[k]
              b == result[k + 1]
              x == siblings[k + 1]
  <2>1. k + 1 \in 1..n /\ k + 1 \in 0..n /\ (k + 1) - 1 = k /\ k \in Nat
        /\ (\A j \in 1..(k + 1) : (j \in 1..k \/ j = k + 1) /\ j \in 1..n)
        /\ (\A j \in 1..k : j \in 1..(k + 1) /\ j \in 1..n /\ j # k + 1)
    BY <1>1
  <2>2. Good(k)
    BY <1>12
  <2>3. b = IF Again(k + 1) THEN a ELSE Append(a, x)
    BY <1>10, <2>1 DEF Taken
  <2>4. CASE Again(k + 1)
    <3>1. b = a
      BY <2>3, <2>4
    <3>. QED
      BY <2>1, <2>2, <2>4, <3>1
  <2>5. CASE ~Again(k + 1)
    <3>1. b = Append(a, x) /\ a \in Seq(D) /\ x \in D
      BY <1>1, <2>1, <2>2, <2>3, <2>5
    <3>. HIDE DEF a, b, x
    <3>2. /\ b \in Seq(D) /\ DOMAIN b = 1..(Len(a) + 1) /\ DOMAIN a = 1..Len(a) /\ Len(a) \in Nat
          /\ b[Len(a) + 1] = x /\ \A j \in 1..Len(a) : b[j] = a[j]
      BY <3>1
    <3>3. ToSet(b) = ToSet(a) \cup {x}
      BY <3>1, SetOfAppend
    <3>4. \A y \in ToSet(b) : \E j \in 1..(k + 1) : y = siblings[j]
      BY <2>1, <2>2, <3>3 DEF a, x
    <3>5. \A j \in 1..(k + 1) : ~Again(j) => siblings[j] \in ToSet(b)
      BY <2>1, <2>2, <3>3 DEF a, x
    <3>6. ASSUME \A i, j \in 1..n : siblings[i] = siblings[j] => i = j
          PROVE  \A i, j \in DOMAIN b : b[i] = b[j] => i = j
      <4>1. \A i, j \in 1..Len(a) : a[i] = a[j] => i = j
        BY <2>2, <3>2, <3>6 DEF a
      <4>2. \A i \in 1..Len(a) : a[i] # x
        <5>1. \A i \in 1..Len(a) : a[i] \in ToSet(a)
          BY <3>2 DEF ToSet
        <5>2. \A y \in ToSet(a) : \E j \in 1..k : y = siblings[j]
          BY <2>2 DEF a
        <5>3. \A j \in 1..k : siblings[j] # x
          BY <2>1, <3>6 DEF x
        <5>. QED
          BY <5>1, <5>2, <5>3
      <4>3. \A i \in 1..(Len(a) + 1) : i \in 1..Len(a) \/ i = Len(a) + 1
        BY <3>2
      <4>. QED
        BY <3>2, <4>1, <4>2, <4>3
    <3>7. Good(k + 1)
      BY <3>2, <3>4, <3>5, <3>6 DEF b
    <3>. QED
      BY <2>1, <3>7
  <2>. QED
    BY <2>4, <2>5
<1>13. Good(n)
  <2>1. \A k \in 0..n : k \in S
    <3>. HIDE DEF S
    <3>. QED
      BY <1>1, <1>11, <1>12, UpTo
  <2>2. n \in 0..n
    BY <1>1
  <2>. QED
    BY <2>1, <2>2
<1>. QED
  BY <1>2, <1>13 DEF n, Again

\* What is merged away is a leaf that does nothing, and another looks the same.
LEMMA Merged ==
    ASSUME NEW l, NEW kids, NEW D, NEW siblings \in Seq(D)
    PROVE  LET m == Merge(l, kids, siblings)
           IN  /\ siblings # <<>> => m # <<>>
               /\ \A x \in ToSet(siblings) :
                      \/ x \in ToSet(m)
                      \/ /\ kids[x] = <<>> /\ ~N(l, x).acts
                         /\ \E y \in ToSet(m) : Signature(l, y) = Signature(l, x)
<1>. DEFINE n == Len(siblings)
            m == Merge(l, kids, siblings)
<1>1. n \in Nat /\ DOMAIN siblings = 1..n /\ (siblings # <<>> => 1 \in 1..n)
  OBVIOUS
<1>2. /\ m \in Seq(D)
      /\ \A k \in 1..n : ~Repeats(l, kids, siblings, k) => siblings[k] \in ToSet(m)
  BY MergeTakes
<1>. HIDE DEF n, m
<1>3. siblings # <<>> => m # <<>>
  <2>1. ~Repeats(l, kids, siblings, 1)
    BY DEF Repeats
  <2>2. m = <<>> => ToSet(m) = {}
    BY DEF ToSet
  <2>. QED
    BY <1>1, <1>2, <2>1, <2>2
<1>4. ASSUME NEW x \in ToSet(siblings), x \notin ToSet(m)
      PROVE  /\ kids[x] = <<>> /\ ~N(l, x).acts
             /\ \E y \in ToSet(m) : Signature(l, y) = Signature(l, x)
  <2>1. PICK k \in 1..n : x = siblings[k]
    BY <1>1 DEF ToSet
  <2>2. Repeats(l, kids, siblings, k)
    BY <1>2, <1>4, <2>1
  <2>. DEFINE B == {j \in 1..(k - 1) : /\ kids[siblings[j]] = <<>> /\ ~N(l, siblings[j]).acts
                                       /\ Signature(l, siblings[j]) = Signature(l, x)}
  <2>3. kids[x] = <<>> /\ ~N(l, x).acts /\ B # {}
    BY <2>1, <2>2 DEF Repeats
  <2>4. PICK j \in B : \A i \in B : j <= i
    <3>1. B \subseteq Nat
      OBVIOUS
    <3>. HIDE DEF B
    <3>. QED
      BY <2>3, <3>1, LeastNumber
  <2>5. j \in 1..n /\ j \in Nat /\ \A i \in 1..(j - 1) : i \in 1..(k - 1) /\ ~(j <= i)
    BY <1>1
  <2>6. ~Repeats(l, kids, siblings, j)
    BY <2>4, <2>5 DEF Repeats
  <2>7. siblings[j] \in ToSet(m)
    BY <1>2, <2>5, <2>6
  <2>. QED
    BY <2>3, <2>7
<1>. QED
  BY <1>3, <1>4 DEF m

-----------------------------------------------------------------------------
(* What compressing keeps.                                                 *)

\* What NothingIsLost says of a tree t that was made of the screen l.
Keeps(l, t) ==
    LET siblings(i) == IF i = 0 THEN t.roots ELSE t.kids[i]
        places == {p \in ({0} \cup Kept(t)) \X DOMAIN l.nodes : p[2] \in DOMAIN siblings(p[1])}
        At(p) == siblings(p[1])[p[2]]
    IN  /\ \A i \in DOMAIN l.nodes :
              /\ N(l, i).acts => i \in Kept(t)
              /\ Useful(l, i) => \E j \in Kept(t) : Signature(l, j) = Signature(l, i)
              /\ i \in Kept(t) /\ ~Useful(l, i) =>
                     /\ t.kids[i] # <<>>
                     /\ Len(t.kids[i]) = 1 =>
                          \E j \in DOMAIN l.nodes \ Kept(t) :
                              ~N(l, j).acts /\ Signature(l, j) = Signature(l, t.kids[i][1])
        /\ \A p, q \in places : At(p) = At(q) => p = q

LEMMA CompressKeeps ==
    ASSUME NEW l \in Layouts
    PROVE  Keeps(l, Compress(l))
<1>. DEFINE n == Len(l.nodes)
            D == DOMAIN l.nodes
            h == Pruned(l)
            t == Compress(l)
            List(i) == Merge(l, h, h[i])
            Idle(i) == h[i] = <<>> /\ ~N(l, i).acts
            K == Kept(t)
<1>1. n \in Nat /\ D = 1..n
  BY LayoutTyped
<1>2. \E R \in SUBSET D : Retains(l, {0}, D, h, R)
  <2>. DEFINE r == Walk(l)[Moves(l)]
  <2>1. RunInv(l, r) /\ Done(r) = D /\ ToSet(r.stack) = {0}
    BY WalkEnds
  <2>2. h = r.held
    BY DEF Pruned
  <2>. HIDE DEF r, h
  <2>3. \E R \in SUBSET D : Retains(l, ToSet(r.stack), Done(r), r.held, R)
    BY <2>1 DEF RunInv
  <2>. QED
    BY <2>1, <2>2, <2>3
<1>3. h \in [0..n -> Seq(D)]
  BY WalkEnds DEF Pruned, RunInv, Runs
<1>4. PICK R \in SUBSET D : Retains(l, {0}, D, h, R)
  BY <1>2
<1>. HIDE DEF n, h
<1>5. t.roots = List(0) /\ t.kids = [i \in D |-> List(i)]
  BY DEF Compress, h
<1>. HIDE DEF t, List
<1>6. \A i \in D : t.kids[i] = List(i)
  BY <1>5
<1>7. 0 \in 0..n /\ 0 \notin D /\ D \subseteq 0..n
  BY <1>1
<1>. HIDE DEF D
<1>8. ASSUME NEW i \in 0..n
      PROVE  /\ \A x \in ToSet(List(i)) : x \in ToSet(h[i])
             /\ \A j \in DOMAIN List(i) : List(i)[j] \in ToSet(List(i))
             /\ h[i] # <<>> => List(i) # <<>>
             /\ \A x \in ToSet(h[i]) : x \in ToSet(List(i)) \/ (Idle(x) /\ \E y \in ToSet(List(i)) : Signature(l, y) = Signature(l, x))
             /\ (\A j, k \in DOMAIN h[i] : h[i][j] = h[i][k] => j = k)
                  => (\A j, k \in DOMAIN List(i) : List(i)[j] = List(i)[k] => j = k)
  <2>1. h[i] \in Seq(D) /\ DOMAIN h[i] = 1..Len(h[i])
    BY <1>3
  <2>2. \A x \in ToSet(List(i)) : \E k \in 1..Len(h[i]) : x = h[i][k]
    BY <2>1, MergeTakes DEF List
  <2>3. \A x \in ToSet(List(i)) : x \in ToSet(h[i])
    BY <2>1, <2>2 DEF ToSet
  <2>4. \A j \in DOMAIN List(i) : List(i)[j] \in ToSet(List(i))
    BY DEF ToSet
  <2>5. /\ h[i] # <<>> => List(i) # <<>>
        /\ \A x \in ToSet(h[i]) : x \in ToSet(List(i)) \/ (Idle(x) /\ \E y \in ToSet(List(i)) : Signature(l, y) = Signature(l, x))
    BY <2>1, Merged DEF List
  <2>6. (\A j, k \in DOMAIN h[i] : h[i][j] = h[i][k] => j = k)
          => (\A j, k \in DOMAIN List(i) : List(i)[j] = List(i)[k] => j = k)
    BY <2>1, MergeTakes DEF List
  <2>. QED
    BY <2>3, <2>4, <2>5, <2>6
<1>9. /\ \A i \in D : Useful(l, i) => i \in R
      /\ \A i \in R : Useful(l, i) \/ Len(h[i]) > 1
      /\ \A x \in {0} \cup R : ToSet(h[x]) \subseteq R
      /\ \A x, y \in {0} \cup R : \A k \in DOMAIN h[x], j \in DOMAIN h[y] :
             h[x][k] = h[y][j] => x = y /\ k = j
      /\ \A S \in SUBSET D : (\A x \in {0} \cup (R \cap S) : ToSet(h[x]) \subseteq S) => R \subseteq S
  BY <1>4 DEF Retains, D
<1>10. \A S \in SUBSET D : ClosedBelow(t, S) <=> ToSet(List(0)) \subseteq S
                                               /\ \A i \in S : ToSet(List(i)) \subseteq S
  BY <1>5, <1>6 DEF ClosedBelow
<1>11. DOMAIN t.kids = D
  BY <1>5
<1>12. K = {i \in D : \A S \in SUBSET D : ClosedBelow(t, S) => i \in S}
  BY <1>11 DEF Kept
<1>. HIDE DEF K
<1>13. K \subseteq R
  <2>1. ClosedBelow(t, R)
    BY <1>7, <1>8, <1>9, <1>10
  <2>. QED
    BY <1>12, <2>1
<1>14. \A i \in R : i \in K \/ Idle(i)
  <2>. SUFFICES ASSUME NEW i \in R, ~Idle(i), NEW S \in SUBSET D, ClosedBelow(t, S)
                PROVE  i \in S
    BY <1>12
  <2>. DEFINE Q == S \cup {x \in D : Idle(x)}
  <2>1. ASSUME NEW x \in {0} \cup (R \cap Q) PROVE ToSet(h[x]) \subseteq Q
    <3>1. x \in 0..n
      BY <1>7
    <3>2. CASE x = 0 \/ x \in S
      <4>1. ToSet(List(x)) \subseteq S
        BY <1>10, <3>2
      <4>2. ToSet(h[x]) \subseteq R
        BY <1>9
      <4>. QED
        BY <1>8, <3>1, <4>1, <4>2
    <3>3. CASE Idle(x)
      BY <3>3 DEF ToSet
    <3>. QED
      BY <3>2, <3>3
  <2>2. R \subseteq Q
    <3>1. Q \in SUBSET D
      OBVIOUS
    <3>2. \A X \in SUBSET D :
              (\A x \in {0} \cup (R \cap X) : ToSet(h[x]) \subseteq X) => R \subseteq X
      BY <1>9
    <3>. HIDE DEF Q
    <3>. QED
      BY <2>1, <3>1, <3>2
  <2>. QED
    BY <2>2
<1>15. ToSet(List(0)) \subseteq K /\ \A i \in K : ToSet(List(i)) \subseteq K
  <2>1. ToSet(List(0)) \subseteq K
    <3>1. ToSet(List(0)) \subseteq R
      BY <1>7, <1>8, <1>9
    <3>. QED
      BY <1>10, <1>12, <3>1
  <2>2. ASSUME NEW i \in K PROVE ToSet(List(i)) \subseteq K
    <3>1. ToSet(List(i)) \subseteq R
      BY <1>7, <1>8, <1>9, <1>13
    <3>. QED
      BY <1>10, <1>12, <3>1
  <2>. QED
    BY <2>1, <2>2
<1>16. \A i \in D : N(l, i).acts => i \in K
  BY <1>9, <1>14 DEF Useful
<1>17. ASSUME NEW i \in D, Useful(l, i)
       PROVE  \E j \in K : Signature(l, j) = Signature(l, i)
  <2>1. i \in R
    BY <1>9, <1>17
  <2>2. PICK x \in {0} \cup R : i \in ToSet(h[x])
    <3>1. SUFFICES ASSUME \A x \in {0} \cup R : i \notin ToSet(h[x]) PROVE FALSE
      OBVIOUS
    <3>2. \A x \in {0} \cup R : ToSet(h[x]) \subseteq R \ {i}
      BY <1>9, <3>1
    <3>3. R \ {i} \in SUBSET D
      OBVIOUS
    <3>. QED
      BY <1>9, <2>1, <3>2, <3>3
  <2>3. x \in 0..n /\ (x = 0 \/ x \in K)
    <3>1. h[x] # <<>>
      BY <2>2 DEF ToSet
    <3>. QED
      BY <1>7, <1>14, <3>1
  <2>4. ToSet(List(x)) \subseteq K
    BY <1>15, <2>3
  <2>. QED
    BY <1>8, <2>2, <2>3, <2>4
<1>. DEFINE Absorbs(i) == \E j \in D \ K : ~N(l, j).acts /\ Signature(l, j) = Signature(l, List(i)[1])
<1>18. ASSUME NEW i \in K, ~Useful(l, i)
       PROVE  t.kids[i] # <<>> /\ (Len(t.kids[i]) = 1 => Absorbs(i))
  <2>1. i \in D /\ i \in 0..n /\ i \in R
    BY <1>7, <1>13
  <2>2. Len(h[i]) > 1
    BY <1>9, <1>18, <2>1
  <2>3. h[i] # <<>>
    BY <2>2
  <2>4. ASSUME Len(List(i)) = 1 PROVE Absorbs(i)
    <3>. DEFINE y == List(i)[1]
    <3>1. h[i] \in Seq(D) /\ 1 \in DOMAIN h[i] /\ 2 \in DOMAIN h[i]
      BY <1>3, <2>1, <2>2
    <3>2. h[i][1] # h[i][2]
      BY <1>9, <2>1, <3>1
    <3>3. List(i) \in Seq(D) /\ ToSet(List(i)) = {y}
      <4>1. List(i) \in Seq(D)
        BY <3>1, MergeTakes DEF List
      <4>2. DOMAIN List(i) = {1}
        BY <2>4, <4>1
      <4>. QED
        BY <4>1, <4>2 DEF ToSet
    <3>4. PICK x \in ToSet(h[i]) : x # y
      <4>1. h[i][1] \in ToSet(h[i]) /\ h[i][2] \in ToSet(h[i])
        BY <3>1 DEF ToSet
      <4>. HIDE DEF y
      <4>. QED
        BY <3>2, <4>1
    <3>5. x \notin ToSet(List(i))
      BY <3>3, <3>4
    <3>6. ~N(l, x).acts /\ Signature(l, x) = Signature(l, y)
      <4>1. Idle(x) /\ \E z \in ToSet(List(i)) : Signature(l, z) = Signature(l, x)
        BY <1>8, <2>1, <3>4, <3>5
      <4>. HIDE DEF y
      <4>. QED
        BY <3>3, <4>1
    <3>7. x \in D
      BY <1>9, <2>1, <3>4
    <3>8. ASSUME NEW j \in {0} \cup K, x \in ToSet(List(j)) PROVE FALSE
      <4>1. j \in 0..n /\ j \in {0} \cup R
        BY <1>7, <1>13
      <4>2. x \in ToSet(h[j])
        BY <1>8, <3>8, <4>1
      <4>3. j = i
        <5>1. PICK a \in DOMAIN h[j] : h[j][a] = x
          BY <4>2 DEF ToSet
        <5>2. PICK b \in DOMAIN h[i] : h[i][b] = x
          BY <3>4 DEF ToSet
        <5>. QED
          BY <1>9, <2>1, <4>1, <5>1, <5>2
      <4>. QED
        BY <3>5, <3>8, <4>3
    <3>9. ClosedBelow(t, K \ {x})
      <4>1. K \ {x} \in SUBSET D
        BY <1>13
      <4>2. ToSet(List(0)) \subseteq K \ {x} /\ \A j \in K \ {x} : ToSet(List(j)) \subseteq K \ {x}
        BY <1>15, <3>8
      <4>. QED
        BY <1>10, <4>1, <4>2
    <3>10. x \notin K
      BY <1>12, <1>13, <3>9
    <3>. QED
      BY <3>6, <3>7, <3>10
  <2>. QED
    BY <1>6, <1>8, <2>1, <2>3, <2>4
<1>. DEFINE siblings(i) == IF i = 0 THEN t.roots ELSE t.kids[i]
            places == {p \in ({0} \cup K) \X D : p[2] \in DOMAIN siblings(p[1])}
<1>19. \A x \in {0} \cup K : siblings(x) = List(x) /\ x \in {0} \cup R /\ x \in 0..n
  BY <1>5, <1>6, <1>7, <1>13
<1>. HIDE DEF siblings
<1>20. ASSUME NEW p \in places, NEW q \in places, siblings(p[1])[p[2]] = siblings(q[1])[q[2]]
       PROVE  p = q
  <2>. DEFINE x == p[1]
              y == q[1]
              k == p[2]
              j == q[2]
  <2>1. /\ x \in {0} \cup K /\ y \in {0} \cup K /\ p = <<x, k>> /\ q = <<y, j>>
        /\ k \in DOMAIN List(x) /\ j \in DOMAIN List(y) /\ List(x)[k] = List(y)[j]
    <3>1. /\ p \in ({0} \cup K) \X D /\ k \in DOMAIN siblings(x)
          /\ q \in ({0} \cup K) \X D /\ j \in DOMAIN siblings(y)
      OBVIOUS
    <3>2. x \in {0} \cup K /\ y \in {0} \cup K /\ p = <<x, k>> /\ q = <<y, j>>
      BY <3>1
    <3>3. siblings(x)[k] = siblings(y)[j]
      BY <1>20
    <3>. HIDE DEF x, y, k, j
    <3>. QED
      BY <1>19, <3>1, <3>2, <3>3
  <2>2. x \in {0} \cup R /\ y \in {0} \cup R /\ x \in 0..n /\ y \in 0..n
    BY <1>19, <2>1
  <2>. HIDE DEF x, y, k, j
  <2>3. PICK a \in DOMAIN h[x] : List(x)[k] = h[x][a]
    <3>1. List(x)[k] \in ToSet(h[x])
      BY <1>8, <2>1, <2>2
    <3>. QED
      BY <3>1 DEF ToSet
  <2>4. PICK b \in DOMAIN h[y] : List(y)[j] = h[y][b]
    <3>1. List(y)[j] \in ToSet(h[y])
      BY <1>8, <2>1, <2>2
    <3>. QED
      BY <3>1 DEF ToSet
  <2>. DEFINE Differ(u, v) == \A c \in DOMAIN h[u], d \in DOMAIN h[v] :
                                h[u][c] = h[v][d] => u = v /\ c = d
  <2>5. Differ(x, y) /\ Differ(x, x)
    BY <1>9, <2>2
  <2>6. x = y
    BY <2>1, <2>3, <2>4, <2>5
  <2>7. \A c, d \in DOMAIN h[x] : h[x][c] = h[x][d] => c = d
    BY <2>5
  <2>8. \A c, d \in DOMAIN List(x) : List(x)[c] = List(x)[d] => c = d
    BY <1>8, <2>2, <2>7
  <2>9. k = j
    BY <2>1, <2>6, <2>8
  <2>. QED
    BY <2>1, <2>6, <2>9
<1>21. K \subseteq D
  BY <1>13
<1>22. \A i \in D : /\ N(l, i).acts => i \in K
                    /\ Useful(l, i) => \E j \in K : Signature(l, j) = Signature(l, i)
                    /\ i \in K /\ ~Useful(l, i) =>
                          /\ t.kids[i] # <<>>
                          /\ Len(t.kids[i]) = 1 =>
                               \E j \in D \ K : ~N(l, j).acts
                                              /\ Signature(l, j) = Signature(l, t.kids[i][1])
  BY <1>6, <1>16, <1>17, <1>18
<1>. QED
  BY <1>20, <1>22 DEF Keeps, t, K, D, siblings

-----------------------------------------------------------------------------
(* Screens.                                                                *)

\* What is true between the steps: the compressed screen is made of the screen, what
\* was matched was matched among those it kept, and what is tapped is where
\* the path of a matched node leads to.
TreeInv ==
    /\ layout \in Layouts
    /\ step \in {"packed", "matched"} => packed = Compress(layout)
    /\ step = "matched" => /\ target \in Targets
                           /\ meant = Matched(layout, Kept(packed), target)
    /\ step = "tapped" =>
         /\ Collected(layout) /\ meant \in DOMAIN layout.nodes /\ later \in Now
         /\ LET found == Resolve(layout, later, PathTo(layout)[meant])
            IN  /\ by = "node" => found # Nobody /\ tapped = found
                /\ by = "root" => found = Nobody

\* The compressed screen has the nodes of the screen.
LEMMA CompressedNodes == ASSUME NEW l PROVE DOMAIN Compress(l).kids = DOMAIN l.nodes
BY DEF Compress

\* What is kept is of the tree.
LEMMA KeptOfTree ==
    ASSUME NEW t
    PROVE  Kept(t) \subseteq DOMAIN t.kids
BY DEF Kept

\* The nodes of a screen, and those kept of it, are finitely many numbers from 1 on.
LEMMA NodesFinite ==
    ASSUME NEW l \in Layouts
    PROVE  IsFiniteSet(DOMAIN l.nodes) /\ DOMAIN l.nodes \subseteq Nat \ {Nobody}
<1>1. Len(l.nodes) \in Nat /\ DOMAIN l.nodes = 1..Len(l.nodes)
  BY LayoutTyped
<1>2. IsFiniteSet(1..Len(l.nodes))
  BY <1>1, FS_Interval
<1>. QED
  BY <1>1, <1>2 DEF Nobody

\* Every step keeps it.
THEOREM TreeInvariant == TreeSpec => []TreeInv
<1>1. TreeInit => TreeInv
  BY DEF TreeInit, TreeInv
<1>2. TreeInv /\ [TreeNext]_treeVars => TreeInv'
  <2>. SUFFICES ASSUME TreeInv, [TreeNext]_treeVars PROVE TreeInv'
    OBVIOUS
  <2>1. CASE CompressScreen
    <3>1. layout' = layout /\ step' = "packed" /\ packed' = Compress(layout)
      BY <2>1 DEF CompressScreen
    <3>. QED
      BY <3>1 DEF TreeInv
  <2>2. CASE MatchTarget
    BY <2>2 DEF MatchTarget, TreeInv
  <2>3. CASE Tap
    <3>1. /\ step = "matched" /\ step' = "tapped" /\ Collected(layout) /\ meant # Nobody
          /\ later' \in [lost : Nobody..meant, late : BOOLEAN]
          /\ Operates(Resolve(layout, later', PathTo(layout)[meant]))
          /\ UNCHANGED <<layout, packed, target, meant>>
      BY <2>3 DEF Tap
    <3>2. layout \in Layouts /\ DOMAIN packed.kids = DOMAIN layout.nodes
          /\ meant = Matched(layout, Kept(packed), target)
      BY <3>1, CompressedNodes DEF TreeInv
    <3>3. Kept(packed) \subseteq DOMAIN layout.nodes /\ IsFiniteSet(Kept(packed))
      BY <3>2, KeptOfTree, NodesFinite, FS_Subset
    <3>4. meant \in DOMAIN layout.nodes
      BY <3>1, <3>2, <3>3, MatchFound
    <3>5. later' \in Now
      <4>1. meant \in Nat /\ Nobody..meant \subseteq Nat
        BY <3>2, <3>4, NodesFinite DEF Nobody
      <4>. QED
        BY <3>1, <4>1 DEF Now
    <3>. DEFINE found == Resolve(layout, later', PathTo(layout)[meant])
    <3>6. /\ by' = "node" => found # Nobody /\ tapped' = found
          /\ by' = "root" => found = Nobody
      <4>1. Operates(found)
        BY <3>1
      <4>. HIDE DEF found
      <4>. QED
        BY <4>1 DEF Operates
    <3>7. Resolve(layout', later', PathTo(layout')[meant']) = found
      BY <3>1
    <3>8. Collected(layout') /\ meant' \in DOMAIN layout'.nodes /\ layout' \in Layouts
      BY <3>1, <3>2, <3>4
    <3>. HIDE DEF found
    <3>. QED
      BY <3>1, <3>5, <3>6, <3>7, <3>8 DEF TreeInv
  <2>4. CASE UNCHANGED treeVars
    BY <2>4 DEF treeVars, TreeInv
  <2>. QED
    BY <2>1, <2>2, <2>3, <2>4 DEF TreeNext
<1>. QED
  BY <1>1, <1>2, PTL DEF TreeSpec

\* On whatever screen a device collects or a client sends, a target that means one
\* node of the whole screen means that node after compressing, as long as it was not
\* dropped; and where no child was missing what the device finds is that very node,
\* whatever is missing by then.
THEOREM TapsMeant == TreeSpec => []TapsWhatWasMeant
<1>1. TreeInv => TapsWhatWasMeant
  <2>. SUFFICES ASSUME TreeInv PROVE TapsWhatWasMeant
    OBVIOUS
  <2>1. ASSUME step = "matched", Matched(layout, DOMAIN layout.nodes, target) \in Kept(packed)
        PROVE  meant = Matched(layout, DOMAIN layout.nodes, target)
    <3>1. layout \in Layouts /\ target \in Targets /\ DOMAIN packed.kids = DOMAIN layout.nodes
          /\ meant = Matched(layout, Kept(packed), target)
      BY <2>1, CompressedNodes DEF TreeInv
    <3>2. Kept(packed) \subseteq DOMAIN layout.nodes
      BY <3>1, KeptOfTree
    <3>3. IsFiniteSet(DOMAIN layout.nodes) /\ DOMAIN layout.nodes \subseteq Nat \ {Nobody}
      BY <3>1, NodesFinite
    <3>. QED
      BY <2>1, <3>1, <3>2, <3>3, SameMatch
  <2>2. ASSUME step = "tapped", Whole(layout)
        PROVE  (by = "node" => tapped = meant) /\ (by = "root" => later.lost # Nobody)
    <3>1. layout \in Layouts /\ Collected(layout) /\ meant \in DOMAIN layout.nodes /\ later \in Now
      BY <2>2 DEF TreeInv
    <3>2. Reaches(later, Resolve(layout, later, PathTo(layout)[meant]), meant)
      BY <2>2, <3>1, PathLeadsBack
    <3>3. meant # Nobody
      BY <3>1, NodesFinite
    <3>. QED
      BY <2>2, <3>2, <3>3 DEF TreeInv, Reaches
  <2>. QED
    BY <2>1, <2>2 DEF TapsWhatWasMeant
<1>. QED
  BY <1>1, TreeInvariant, PTL

\* Whatever screen a client sends, with links that are missing, doubled or circular,
\* compressing loses nothing that acts and no look of what is shown, keeps each node in one
\* place, leaves no wrapper that holds nothing, and one of a single node only where leaves
\* were merged.
THEOREM NothingLost == TreeSpec => []NothingIsLost
<1>1. TreeInv => NothingIsLost
  <2>. SUFFICES ASSUME TreeInv, step = "packed" PROVE Keeps(layout, packed)
    BY DEF NothingIsLost, Keeps
  <2>. QED
    BY CompressKeeps DEF TreeInv
<1>. QED
  BY <1>1, TreeInvariant, PTL

=============================================================================
