-------------------------------- MODULE Walks --------------------------------
(***************************************************************************)
(* Induction over sets of numbers. The loops of the models are recursive   *)
(* functions: what the provers see of one is that it is some fixed point   *)
(* of its equation, if there is one. A proof about a loop therefore gives  *)
(* a fixed point, and shows by induction that there is no other: so is it  *)
(* shown what a walk through linked items meets.                           *)
(***************************************************************************)
EXTENDS Chains, SequenceTheorems, WellFoundedInduction, TLAPS

\* A set of numbers that is not empty has a least element.
LEMMA LeastElement ==
    ASSUME NEW T \in SUBSET Nat, T # {}
    PROVE  \E n \in T : \A m \in T : n <= m
<1> DEFINE R == OpToRel(<, Nat)
<1>1. IsWellFoundedOn(R, Nat)
  BY NatLessThanWellFounded
<1>2. \A m, n \in Nat : m < n => <<m, n>> \in R
  BY DEF OpToRel
<1> HIDE DEF R
<1>3. PICK n \in T : \A m \in T : <<m, n>> \notin R
  BY <1>1, WFMin, Zenon
<1>4. \A m \in T : n <= m
  <2> TAKE m \in T
  <2>1. m \in Nat /\ n \in Nat /\ <<m, n>> \notin R
    BY <1>3
  <2>2. ~(m < n)
    BY <1>2, <2>1, Zenon
  <2> QED BY <2>1, <2>2
<1> QED BY <1>4

\* A set of integers with a bound above it has a greatest element.
LEMMA GreatestElement ==
    ASSUME NEW bound \in Nat, NEW T \in SUBSET (0..bound), T # {}
    PROVE  \E n \in T : \A m \in T : m <= n
<1> DEFINE U == { bound - m : m \in T }
<1>1. U \in SUBSET Nat /\ U # {}
  <2>1. \A m \in T : bound - m \in Nat
    OBVIOUS
  <2> QED BY <2>1
<1>2. PICK u \in U : \A v \in U : u <= v
  <2> HIDE DEF U
  <2> QED BY <1>1, LeastElement
<1>3. PICK n \in T : u = bound - n
  BY <1>2
<1>4. \A m \in T : m <= n
  <2> TAKE m \in T
  <2>1. bound - n <= bound - m
    BY <1>2, <1>3
  <2> QED BY <2>1
<1> QED BY <1>4

\* Induction from the first element of an interval to the last.
LEMMA IntervalInduction ==
    ASSUME NEW a \in Int, NEW b \in Int, NEW T,
           a <= b => a \in T,
           \A i \in a..(b - 1) : i \in T => i + 1 \in T
    PROVE  a..b \subseteq T
<1> SUFFICES ASSUME NEW i \in a..b, i \notin T PROVE FALSE
  OBVIOUS
<1> DEFINE U == { n \in Nat : a + n <= b /\ a + n \notin T }
<1>1. i - a \in U
  OBVIOUS
<1>2. U \in SUBSET Nat /\ U # {}
  BY <1>1
<1>3. PICK n \in U : \A m \in U : n <= m
  <2> HIDE DEF U
  <2> QED BY <1>2, LeastElement
<1>4. n \in Nat /\ a + n <= b /\ a + n \notin T
  BY <1>3
<1>5. CASE n = 0
  BY <1>4, <1>5
<1>6. CASE n # 0
  <2>1. n - 1 \in Nat /\ n - 1 \notin U
    <3>1. n - 1 \in Nat /\ ~(n <= n - 1)
      BY <1>4, <1>6
    <3> HIDE DEF U
    <3> QED BY <1>3, <3>1
  <2>2. a + (n - 1) \in T /\ a + (n - 1) \in a..(b - 1)
    BY <1>4, <2>1
  <2>3. (a + (n - 1)) + 1 \in T
    BY <2>2
  <2> QED BY <1>4, <2>3
<1> QED BY <1>5, <1>6

\* Two loops that start alike and step alike agree everywhere.
StartAlike(f, g, a, b) == a <= b => f[a] = g[a]
StepAlike(f, g, a, b) == \A i \in a..(b - 1) : f[i] = g[i] => f[i + 1] = g[i + 1]
Agree(f, g, a, b) == \A i \in a..b : f[i] = g[i]

LEMMA LoopsAgree ==
    ASSUME NEW a \in Int, NEW b \in Int, NEW f, NEW g,
           StartAlike(f, g, a, b), StepAlike(f, g, a, b)
    PROVE  Agree(f, g, a, b)
<1> USE DEF StartAlike, StepAlike, Agree
<1> DEFINE T == { i \in a..b : f[i] = g[i] }
<1>1. a <= b => a \in T
  OBVIOUS
<1>2. \A i \in a..(b - 1) : i \in T => i + 1 \in T
  OBVIOUS
<1>3. a..b \subseteq T
  <2> HIDE DEF T
  <2> QED BY <1>1, <1>2, IntervalInduction
<1> QED BY <1>3

\* A loop whose steps stay in a set runs to its end: there are its values.
Steps(n, S) == [(1..n) \X S -> S]
IsRun(f, first, step, n) == f[0] = first /\ \A i \in 1..n : f[i] = step[<<i, f[i - 1]>>]

LEMMA LoopRuns ==
    ASSUME NEW n \in Nat, NEW S, NEW first \in S, NEW step \in Steps(n, S)
    PROVE  \E f \in [0..n -> S] : IsRun(f, first, step, n)
<1> USE DEF Steps, IsRun
<1> DEFINE Runs(m) == \E f \in [0..m -> S] :
                         f[0] = first /\ \A i \in 1..m : f[i] = step[<<i, f[i - 1]>>]
           T == { m \in 0..n : Runs(m) }
<1>1. 0 \in T
  <2> DEFINE f == [i \in 0..0 |-> first]
  <2>1. f \in [0..0 -> S] /\ f[0] = first /\ \A i \in 1..0 : f[i] = step[<<i, f[i - 1]>>]
    OBVIOUS
  <2>2. Runs(0)
    <3> HIDE DEF f
    <3> QED BY <2>1
  <2> QED BY <2>2
<1>2. ASSUME NEW m \in 0..(n - 1), m \in T PROVE m + 1 \in T
  <2>1. PICK f \in [0..m -> S] :
          f[0] = first /\ \A i \in 1..m : f[i] = step[<<i, f[i - 1]>>]
    BY <1>2
  <2> DEFINE last == step[<<m + 1, f[m]>>]
             g == [i \in 0..(m + 1) |-> IF i = m + 1 THEN last ELSE f[i]]
  <2>2. last \in S
    BY <2>1
  <2>3. g \in [0..(m + 1) -> S]
    <3> HIDE DEF last
    <3> QED BY <2>1, <2>2
  <2>4. (\A i \in 0..m : g[i] = f[i]) /\ g[m + 1] = last
    <3> HIDE DEF last
    <3> QED OBVIOUS
  <2> HIDE DEF g
  <2>5. \A i \in 1..(m + 1) : g[i] = step[<<i, g[i - 1]>>]
    <3> TAKE i \in 1..(m + 1)
    <3>1. CASE i = m + 1
      <4>1. i - 1 = m /\ m \in 0..m
        BY <3>1
      <4> QED BY <2>4, <3>1, <4>1
    <3>2. CASE i # m + 1
      <4>1. i \in 1..m /\ i \in 0..m /\ i - 1 \in 0..m
        BY <3>2
      <4>2. f[i] = step[<<i, f[i - 1]>>]
        BY <2>1, <4>1
      <4>3. g[i] = f[i] /\ g[i - 1] = f[i - 1]
        BY <2>4, <4>1
      <4> QED BY <4>2, <4>3
    <3> QED BY <3>1, <3>2
  <2>6. g[0] = first
    BY <2>1, <2>4
  <2>7. Runs(m + 1)
    BY <2>3, <2>5, <2>6
  <2>8. m + 1 \in 0..n
    OBVIOUS
  <2> HIDE DEF Runs
  <2> QED BY <2>7, <2>8
<1>3. 0..n \subseteq T
  <2>1. \A m \in 0..(n - 1) : m \in T => m + 1 \in T
    BY <1>2
  <2>2. 0 \in Int /\ n \in Int /\ (0 <= n => 0 \in T)
    BY <1>1
  <2> HIDE DEF T
  <2> QED BY <2>1, <2>2, IntervalInduction
<1>4. Runs(n)
  <2> HIDE DEF Runs
  <2> QED BY <1>3
<1> QED BY <1>4

-------------------------------------------------------------------------------
(* Searches *)

\* A search upwards in a..b for a member of T that reports "none" at b.
SearchesUp(find, a, b, T, none) ==
    \A i \in a..b : find[i] = IF i = b THEN none ELSE IF i \in T THEN i ELSE find[i + 1]

\* A search downwards in 0..n that reports "none" at 0.
SearchesDown(find, n, T, none) ==
    \A i \in 0..n : find[i] = IF i = 0 THEN none ELSE IF i \in T THEN i ELSE find[i - 1]

\* What a search is for.
IsLeast(i, T, none) == IF T = {} THEN i = none ELSE i \in T /\ \A j \in T : i <= j
IsGreatest(i, T, none) == IF T = {} THEN i = none ELSE i \in T /\ \A j \in T : j <= i

\* The values a search upwards computes are there.
LEMMA SearchUpExists ==
    ASSUME NEW a \in Int, NEW b \in Int, NEW T \in SUBSET (a..(b - 1)), NEW none
    PROVE  \E f : f = [i \in a..b |-> f[i]] /\ SearchesUp(f, a, b, T, none)
<1> DEFINE IsFirst(i, j) == j \in T /\ i <= j /\ \A k \in T : i <= k => j <= k
           Result(i) == IF \E j : IsFirst(i, j) THEN CHOOSE j : IsFirst(i, j) ELSE none
           f == [i \in a..b |-> Result(i)]
<1>1. ASSUME NEW i, NEW j, IsFirst(i, j) PROVE Result(i) = j
  <2>1. \A k : IsFirst(i, k) => k = j
    BY <1>1
  <2> HIDE DEF IsFirst
  <2> QED BY <1>1, <2>1
<1>2. ASSUME NEW i, \A j : ~IsFirst(i, j) PROVE Result(i) = none
  BY <1>2
<1>3. ASSUME NEW i \in a..b
      PROVE  Result(i) = IF i = b THEN none ELSE IF i \in T THEN i ELSE Result(i + 1)
  <2>1. CASE i = b
    <3>1. \A j : ~IsFirst(i, j)
      <4>1. \A j \in T : j \in a..(b - 1) /\ ~(b <= j)
        OBVIOUS
      <4> QED BY <2>1, <4>1
    <3> HIDE DEF IsFirst, Result
    <3> QED BY <1>2, <2>1, <3>1
  <2>2. CASE i # b /\ i \in T
    <3>1. IsFirst(i, i)
      BY <2>2
    <3> HIDE DEF IsFirst, Result
    <3> QED BY <1>1, <2>2, <3>1
  <2>3. CASE i # b /\ i \notin T
    <3>1. \A j : IsFirst(i, j) <=> IsFirst(i + 1, j)
      <4>1. \A k \in T : i <= k <=> i + 1 <= k
        BY <2>3
      <4> QED BY <4>1
    <3>2. Result(i) = Result(i + 1)
      <4>1. CASE \E j : IsFirst(i, j)
        <5>1. PICK j : IsFirst(i, j)
          BY <4>1
        <5>2. IsFirst(i + 1, j)
          BY <3>1, <5>1
        <5> HIDE DEF IsFirst, Result
        <5>3. Result(i) = j /\ Result(i + 1) = j
          BY <1>1, <5>1, <5>2
        <5> QED BY <5>3
      <4>2. CASE \A j : ~IsFirst(i, j)
        <5>1. \A j : ~IsFirst(i + 1, j)
          BY <3>1, <4>2
        <5> HIDE DEF IsFirst, Result
        <5>2. Result(i) = none /\ Result(i + 1) = none
          BY <1>2, <4>2, <5>1
        <5> QED BY <5>2
      <4> QED BY <4>1, <4>2
    <3> HIDE DEF Result
    <3> QED BY <2>3, <3>2
  <2> QED BY <2>1, <2>2, <2>3
<1>4. SearchesUp(f, a, b, T, none)
  <2> SUFFICES ASSUME NEW i \in a..b
               PROVE  f[i] = IF i = b THEN none ELSE IF i \in T THEN i ELSE f[i + 1]
    BY DEF SearchesUp
  <2>1. i # b => i + 1 \in a..b
    OBVIOUS
  <2>2. f[i] = Result(i) /\ (i # b => f[i + 1] = Result(i + 1))
    <3> HIDE DEF Result
    <3> QED BY <2>1
  <2> HIDE DEF f, Result
  <2> QED BY <1>3, <2>2
<1>5. f = [i \in a..b |-> f[i]]
  <2> HIDE DEF Result
  <2> QED OBVIOUS
<1> HIDE DEF f
<1> QED BY <1>4, <1>5

\* The search upwards finds the least member.
LEMMA SearchUpExact ==
    ASSUME NEW a \in Int, NEW b \in Int, a <= b, NEW T \in SUBSET (a..(b - 1)), NEW none,
           NEW f, SearchesUp(f, a, b, T, none)
    PROVE  IsLeast(f[a], T, none)
<1> USE DEF IsLeast
<1> DEFINE U == { i \in a..b : (\A j \in a..(i - 1) : j \notin T) => f[i] = f[a] }
<1>1. a <= b => a \in U
  OBVIOUS
<1>2. ASSUME NEW i \in a..(b - 1), i \in U PROVE i + 1 \in U
  <2>1. i + 1 \in a..b /\ i \in a..b /\ i # b
    OBVIOUS
  <2>2. ASSUME \A j \in a..((i + 1) - 1) : j \notin T PROVE f[i + 1] = f[a]
    <3>1. i \notin T /\ \A j \in a..(i - 1) : j \notin T
      BY <2>2
    <3>2. f[i] = f[i + 1]
      BY <2>1, <3>1 DEF SearchesUp
    <3> QED BY <1>2, <3>1, <3>2
  <2> QED BY <2>1, <2>2
<1>3. a..b \subseteq U
  <2>1. \A i \in a..(b - 1) : i \in U => i + 1 \in U
    BY <1>2
  <2> HIDE DEF U
  <2> QED BY <1>1, <2>1, IntervalInduction
<1>4. CASE T = {}
  <2>1. b \in U /\ b \in a..b
    BY <1>3
  <2>2. f[b] = none
    BY <2>1 DEF SearchesUp
  <2> QED BY <1>4, <2>1, <2>2
<1>5. CASE T # {}
  <2> DEFINE V == { j - a : j \in T }
  <2>1. V \in SUBSET Nat /\ V # {}
    <3>1. \A j \in T : j \in a..(b - 1) /\ j - a \in Nat
      OBVIOUS
    <3> QED BY <1>5, <3>1
  <2>2. PICK v \in V : \A k \in V : v <= k
    <3> HIDE DEF V
    <3> QED BY <2>1, LeastElement
  <2>3. PICK t \in T : v = t - a
    BY <2>2
  <2>4. \A j \in T : t <= j
    <3> TAKE j \in T
    <3>1. t - a <= j - a
      BY <2>2, <2>3
    <3> QED BY <3>1
  <2>5. t \in U /\ t \in a..b /\ t # b /\ \A j \in a..(t - 1) : j \notin T
    BY <1>3, <2>4
  <2>6. f[t] = t
    BY <2>3, <2>5 DEF SearchesUp
  <2>7. f[a] = t
    BY <2>5, <2>6
  <2> QED BY <1>5, <2>4, <2>7
<1> QED BY <1>4, <1>5

\* The values a search downwards computes are there.
LEMMA SearchDownExists ==
    ASSUME NEW n \in Nat, NEW T \in SUBSET (1..n), NEW none
    PROVE  \E f : f = [i \in 0..n |-> f[i]] /\ SearchesDown(f, n, T, none)
<1> DEFINE IsLast(i, j) == j \in T /\ j <= i /\ \A k \in T : k <= i => k <= j
           Result(i) == IF \E j : IsLast(i, j) THEN CHOOSE j : IsLast(i, j) ELSE none
           f == [i \in 0..n |-> Result(i)]
<1>1. ASSUME NEW i, NEW j, IsLast(i, j) PROVE Result(i) = j
  <2>1. \A k : IsLast(i, k) => k = j
    BY <1>1
  <2> HIDE DEF IsLast
  <2> QED BY <1>1, <2>1
<1>2. ASSUME NEW i, \A j : ~IsLast(i, j) PROVE Result(i) = none
  BY <1>2
<1>3. ASSUME NEW i \in 0..n
      PROVE  Result(i) = IF i = 0 THEN none ELSE IF i \in T THEN i ELSE Result(i - 1)
  <2>1. CASE i = 0
    <3>1. \A j : ~IsLast(i, j)
      <4>1. \A j \in T : j \in 1..n /\ ~(j <= 0)
        OBVIOUS
      <4> QED BY <2>1, <4>1
    <3> HIDE DEF IsLast, Result
    <3> QED BY <1>2, <2>1, <3>1
  <2>2. CASE i # 0 /\ i \in T
    <3>1. IsLast(i, i)
      BY <2>2
    <3> HIDE DEF IsLast, Result
    <3> QED BY <1>1, <2>2, <3>1
  <2>3. CASE i # 0 /\ i \notin T
    <3>1. \A j : IsLast(i, j) <=> IsLast(i - 1, j)
      <4>1. \A k \in T : k <= i <=> k <= i - 1
        BY <2>3
      <4> QED BY <4>1
    <3>2. Result(i) = Result(i - 1)
      <4>1. CASE \E j : IsLast(i, j)
        <5>1. PICK j : IsLast(i, j)
          BY <4>1
        <5>2. IsLast(i - 1, j)
          BY <3>1, <5>1
        <5> HIDE DEF IsLast, Result
        <5>3. Result(i) = j /\ Result(i - 1) = j
          BY <1>1, <5>1, <5>2
        <5> QED BY <5>3
      <4>2. CASE \A j : ~IsLast(i, j)
        <5>1. \A j : ~IsLast(i - 1, j)
          BY <3>1, <4>2
        <5> HIDE DEF IsLast, Result
        <5>2. Result(i) = none /\ Result(i - 1) = none
          BY <1>2, <4>2, <5>1
        <5> QED BY <5>2
      <4> QED BY <4>1, <4>2
    <3> HIDE DEF Result
    <3> QED BY <2>3, <3>2
  <2> QED BY <2>1, <2>2, <2>3
<1>4. SearchesDown(f, n, T, none)
  <2> SUFFICES ASSUME NEW i \in 0..n
               PROVE  f[i] = IF i = 0 THEN none ELSE IF i \in T THEN i ELSE f[i - 1]
    BY DEF SearchesDown
  <2>1. i # 0 => i - 1 \in 0..n
    OBVIOUS
  <2>2. f[i] = Result(i) /\ (i # 0 => f[i - 1] = Result(i - 1))
    <3> HIDE DEF Result
    <3> QED BY <2>1
  <2> HIDE DEF f, Result
  <2> QED BY <1>3, <2>2
<1>5. f = [i \in 0..n |-> f[i]]
  <2> HIDE DEF Result
  <2> QED OBVIOUS
<1> HIDE DEF f
<1> QED BY <1>4, <1>5

\* The search downwards finds the greatest member.
LEMMA SearchDownExact ==
    ASSUME NEW n \in Nat, NEW T \in SUBSET (1..n), NEW none,
           NEW f, SearchesDown(f, n, T, none)
    PROVE  IsGreatest(f[n], T, none)
<1> USE DEF IsGreatest
<1> DEFINE U == { i \in 0..n : (\A j \in (n - i + 1)..n : j \notin T) => f[n - i] = f[n] }
<1>1. 0 <= n => 0 \in U
  OBVIOUS
<1>2. ASSUME NEW i \in 0..(n - 1), i \in U PROVE i + 1 \in U
  <2>1. i + 1 \in 0..n /\ n - i \in 0..n /\ n - i # 0 /\ (n - i) - 1 = n - (i + 1)
    OBVIOUS
  <2>2. ASSUME \A j \in (n - (i + 1) + 1)..n : j \notin T PROVE f[n - (i + 1)] = f[n]
    <3>1. n - i \notin T /\ \A j \in (n - i + 1)..n : j \notin T
      BY <2>2
    <3>2. f[n - i] = f[n - (i + 1)]
      BY <2>1, <3>1 DEF SearchesDown
    <3> QED BY <1>2, <3>1, <3>2
  <2> QED BY <2>1, <2>2
<1>3. 0..n \subseteq U
  <2>1. \A i \in 0..(n - 1) : i \in U => i + 1 \in U
    BY <1>2
  <2>2. 0 \in Int /\ n \in Int
    OBVIOUS
  <2> HIDE DEF U
  <2> QED BY <1>1, <2>1, <2>2, IntervalInduction
<1>4. CASE T = {}
  <2>1. n \in U /\ n \in 0..n /\ n - n = 0 /\ 0 \in 0..n
    BY <1>3
  <2>2. f[0] = none
    BY <2>1 DEF SearchesDown
  <2> QED BY <1>4, <2>1, <2>2
<1>5. CASE T # {}
  <2>1. T \in SUBSET (0..n)
    OBVIOUS
  <2>2. PICK t \in T : \A k \in T : k <= t
    BY <1>5, <2>1, GreatestElement
  <2>3. /\ t \in 0..n /\ t # 0 /\ n - t \in 0..n /\ n - (n - t) = t
        /\ \A j \in (n - (n - t) + 1)..n : j \notin T
    BY <2>2
  <2>4. n - t \in U
    BY <1>3, <2>3
  <2>5. f[t] = t
    BY <2>2, <2>3 DEF SearchesDown
  <2>6. f[n] = t
    BY <2>3, <2>4, <2>5
  <2> QED BY <1>5, <2>2, <2>6
<1> QED BY <1>4, <1>5

-------------------------------------------------------------------------------
(* Chains of items *)

\* A walk through links meets the sequence they lead through.
LEMMA WalkMeets ==
    ASSUME NEW links, NEW start, NEW m \in Nat, NEW s \in Seq(1..m), Len(s) <= m,
           LeadsThrough(links, start, s)
    PROVE  Walk(links, start, m) = s
<1> DEFINE D == 1..m + 1
           Step(f, i) == IF i = 1 THEN start
                         ELSE IF f[i - 1] = NoLink THEN NoLink ELSE links[f[i - 1]]
           nth == CHOOSE f : f = [i \in D |-> Step(f, i)]
           w == [i \in D |-> IF i <= Len(s) THEN s[i] ELSE NoLink]
           len == CHOOSE n \in 0..m + 1 :
                     /\ \A i \in 1..n : nth[i] # NoLink
                     /\ n <= m => nth[n + 1] = NoLink
<1>1. Walk(links, start, m) = [i \in 1..len |-> nth[i]]
  BY DEF Walk
<1>2. Len(s) \in Nat /\ s \in [1..Len(s) -> 1..m] /\ m \in Nat
  BY LenProperties
<1>3. \A i \in 1..Len(s) : s[i] # NoLink /\ s[i] \in 1..m
  BY <1>2 DEF NoLink
<1>4. w = [i \in D |-> Step(w, i)]
  <2>1. ASSUME NEW i \in D PROVE w[i] = Step(w, i)
    <3>1. CASE i = 1
      <4>1. w[1] = IF 1 <= Len(s) THEN s[1] ELSE NoLink
        BY <1>2
      <4>2. w[1] = start
        <5> HIDE DEF w
        <5>1. start = IF Len(s) = 0 THEN NoLink ELSE s[1]
          BY DEF LeadsThrough
        <5>2. CASE Len(s) = 0
          BY <4>1, <5>1, <5>2
        <5>3. CASE Len(s) # 0
          <6>1. 1 <= Len(s)
            BY <1>2, <5>3
          <6> QED BY <4>1, <5>1, <5>3, <6>1
        <5> QED BY <5>2, <5>3
      <4> HIDE DEF w
      <4> QED BY <3>1, <4>2
    <3>2. CASE i # 1
      <4>1. i - 1 \in D /\ i - 1 \in Nat /\ (i - 1) + 1 = i
        BY <1>2, <3>2
      <4>2. CASE i - 1 <= Len(s)
        <5>1. i - 1 \in 1..Len(s) /\ w[i - 1] = s[i - 1] /\ s[i - 1] # NoLink
          BY <1>2, <1>3, <3>2, <4>1, <4>2
        <5>2. links[s[i - 1]] = IF i - 1 = Len(s) THEN NoLink ELSE s[(i - 1) + 1]
          BY <5>1 DEF LeadsThrough
        <5> QED BY <1>2, <3>2, <4>1, <5>1, <5>2
      <4>3. CASE ~(i - 1 <= Len(s))
        BY <1>2, <3>2, <4>1, <4>3
      <4> QED BY <4>2, <4>3
    <3> QED BY <3>1, <3>2
  <2> QED BY <2>1
<1>5. nth = [i \in D |-> Step(nth, i)]
  BY <1>4, Zenon
<1>6. \A i \in D : nth[i] = w[i]
  <2>1. \A i \in D : nth[i] = Step(nth, i) /\ w[i] = Step(w, i)
    <3> HIDE DEF nth, w
    <3> QED BY <1>4, <1>5
  <2> HIDE DEF nth, w
  <2>2. 1 \in D /\ nth[1] = w[1]
    BY <1>2, <2>1
  <2>3. ASSUME NEW i \in 1..(m + 1) - 1, nth[i] = w[i] PROVE nth[i + 1] = w[i + 1]
    <3>1. i + 1 \in D /\ i + 1 # 1 /\ (i + 1) - 1 = i
      BY <1>2
    <3>2. nth[i + 1] = Step(nth, i + 1) /\ w[i + 1] = Step(w, i + 1)
      BY <2>1, <3>1
    <3> QED BY <2>3, <3>1, <3>2
  <2>4. 1 \in Int /\ m + 1 \in Int
    BY <1>2
  <2> HIDE DEF D, Step
  <2>5. \A i \in 1..m + 1 : nth[i] = w[i]
    <3>1. StartAlike(nth, w, 1, m + 1)
      BY <2>2 DEF StartAlike
    <3>2. StepAlike(nth, w, 1, m + 1)
      BY <2>3 DEF StepAlike
    <3>3. Agree(nth, w, 1, m + 1)
      BY <2>4, <3>1, <3>2, LoopsAgree
    <3> QED BY <3>3 DEF Agree
  <2> QED BY <2>5 DEF D
<1>7. len = Len(s)
  <2> HIDE DEF nth
  <2>1. Len(s) \in 0..m + 1 /\ (\A i \in 1..Len(s) : nth[i] # NoLink)
    BY <1>2, <1>3, <1>6
  <2>2. Len(s) <= m => nth[Len(s) + 1] = NoLink
    <3>1. Len(s) + 1 \in D /\ ~(Len(s) + 1 <= Len(s))
      BY <1>2
    <3> QED BY <1>6, <3>1
  <2>3. /\ len \in 0..m + 1
        /\ \A i \in 1..len : nth[i] # NoLink
        /\ len <= m => nth[len + 1] = NoLink
    BY <2>1, <2>2
  <2> HIDE DEF len
  <2>4. ~(len > Len(s))
    <3> SUFFICES ASSUME len > Len(s) PROVE FALSE
      OBVIOUS
    <3>1. Len(s) + 1 \in 1..len
      BY <1>2, <2>3
    <3> QED BY <2>2, <2>3, <3>1
  <2>5. ~(len < Len(s))
    <3> SUFFICES ASSUME len < Len(s) PROVE FALSE
      OBVIOUS
    <3>1. len + 1 \in 1..Len(s) /\ len <= m
      BY <1>2, <2>3
    <3> QED BY <2>1, <2>3, <3>1
  <2>6. len \in Int /\ Len(s) \in Int
    BY <1>2, <2>3
  <2> QED BY <2>4, <2>5, <2>6
<1>8. \A i \in 1..Len(s) : nth[i] = s[i]
  <2> HIDE DEF nth
  <2>1. \A i \in 1..Len(s) : i \in D /\ i <= Len(s)
    BY <1>2
  <2> QED BY <1>6, <2>1
<1> HIDE DEF nth, len
<1> QED BY <1>1, <1>2, <1>7, <1>8

WithoutItem(s, k) == SubSeq(s, 1, k - 1) \o SubSeq(s, k + 1, Len(s))

LEMMA WithoutItemProperties ==
    ASSUME NEW S, NEW s \in Seq(S), NEW k \in 1..Len(s)
    PROVE  /\ WithoutItem(s, k) \in Seq(S)
           /\ Len(WithoutItem(s, k)) = Len(s) - 1
           /\ \A i \in 1..Len(s) - 1 :
                WithoutItem(s, k)[i] = IF i < k THEN s[i] ELSE s[i + 1]
<1> DEFINE left == SubSeq(s, 1, k - 1)
           right == SubSeq(s, k + 1, Len(s))
<1>1. Len(s) \in Nat /\ \A i \in 1..Len(s) : s[i] \in S
  BY ElementOfSeq, LenProperties
<1>2. /\ left \in Seq(S) /\ Len(left) = k - 1
      /\ \A i \in 1..k - 1 : left[i] = s[i]
  <2>1. /\ 1 \in Int /\ k - 1 \in Int /\ \A i \in 1..k - 1 : s[i] \in S
        /\ (k - 1) - 1 + 1 = k - 1 /\ k - 1 \in Nat
    BY <1>1
  <2>2. /\ left \in Seq(S)
        /\ Len(left) = IF 1 <= k - 1 THEN (k - 1) - 1 + 1 ELSE 0
        /\ \A i \in 1..(k - 1) - 1 + 1 : left[i] = s[1 + i - 1]
    BY <2>1, SubSeqProperties
  <2> HIDE DEF left
  <2> QED BY <2>1, <2>2
<1>3. /\ right \in Seq(S) /\ Len(right) = Len(s) - k
      /\ \A i \in 1..Len(s) - k : right[i] = s[k + i]
  <2>1. /\ k + 1 \in Int /\ Len(s) \in Int /\ \A i \in k + 1..Len(s) : s[i] \in S
        /\ Len(s) - (k + 1) + 1 = Len(s) - k /\ Len(s) - k \in Nat
    BY <1>1
  <2>2. /\ right \in Seq(S)
        /\ Len(right) = IF k + 1 <= Len(s) THEN Len(s) - (k + 1) + 1 ELSE 0
        /\ \A i \in 1..Len(s) - (k + 1) + 1 : right[i] = s[(k + 1) + i - 1]
    BY <2>1, SubSeqProperties
  <2> HIDE DEF right
  <2>3. Len(right) = Len(s) - k
    <3>1. CASE k + 1 <= Len(s)
      BY <2>1, <2>2, <3>1
    <3>2. CASE ~(k + 1 <= Len(s))
      <4>1. Len(s) - k = 0
        BY <1>1, <3>2
      <4> QED BY <2>2, <3>2, <4>1
    <3> QED BY <3>1, <3>2
  <2>4. \A i \in 1..Len(s) - k : (k + 1) + i - 1 = k + i
    BY <1>1
  <2>5. \A i \in 1..Len(s) - k : right[i] = s[k + i]
    BY <2>1, <2>2, <2>4
  <2> QED BY <2>2, <2>3, <2>5
<1>4. WithoutItem(s, k) = left \o right
  BY DEF WithoutItem
<1> HIDE DEF left, right
<1>5. /\ left \o right \in Seq(S)
      /\ Len(left \o right) = Len(left) + Len(right)
      /\ \A i \in 1..Len(left) + Len(right) :
           (left \o right)[i] = IF i <= Len(left) THEN left[i] ELSE right[i - Len(left)]
  BY <1>2, <1>3, ConcatProperties
<1>6. Len(left) + Len(right) = Len(s) - 1
  BY <1>1, <1>2, <1>3
<1>7. ASSUME NEW i \in 1..Len(s) - 1
      PROVE  (left \o right)[i] = IF i < k THEN s[i] ELSE s[i + 1]
  <2>1. (left \o right)[i] = IF i <= k - 1 THEN left[i] ELSE right[i - (k - 1)]
    BY <1>2, <1>5, <1>6
  <2>2. CASE i < k
    <3>1. i <= k - 1 /\ i \in 1..k - 1
      BY <1>1, <2>2
    <3> QED BY <1>2, <2>1, <2>2, <3>1
  <2>3. CASE ~(i < k)
    <3>1. /\ ~(i <= k - 1) /\ i - (k - 1) \in 1..Len(s) - k
          /\ k + (i - (k - 1)) = i + 1
      BY <1>1, <2>3
    <3> QED BY <1>3, <2>1, <2>3, <3>1
  <2> QED BY <2>2, <2>3
<1> QED BY <1>4, <1>5, <1>6, <1>7
===============================================================================
