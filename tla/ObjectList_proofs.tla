--------------------------- MODULE ObjectList_proofs ---------------------------
(***************************************************************************)
(* The objects of an object list, for any number of objects the allocator  *)
(* gives. The headers are those of two sequences, of the objects in the    *)
(* list and of the objects removed: what nu__list_append and               *)
(* nu__list_remove do to the links is what Append, RemoveAt and Tail do to *)
(* the sequences, and no header is twice in one or in both of them.        *)
(***************************************************************************)
EXTENDS ObjectList, SequenceTheorems, Walks, TLAPS

\* The other links of an object list lead back through s.
LinkedBack(links, end, s) ==
    /\ end = IF Len(s) = 0 THEN Null ELSE s[Len(s)]
    /\ \A i \in 1..Len(s) : links[s[i]] = IF i = 1 THEN Null ELSE s[i - 1]

\* c are the objects of the list and d those removed.
Holds(c, d) ==
    /\ LeadsThrough(next, first, c) /\ LinkedBack(prev, head, c)
    /\ LeadsThrough(next, free, d)
    /\ Distinct(c) /\ Distinct(d)
    /\ Elements(c) \cap Elements(d) = {}
    /\ Elements(c) \cup Elements(d) = 1..allocated
    /\ live = Elements(c)
    /\ Len(c) + Len(d) = allocated

IInv == TypeOK /\ \E c, d \in Seq(Headers) : Holds(c, d)

-------------------------------------------------------------------------------
(* The operations *)

LEMMA InitInv == Init => IInv
<1> SUFFICES ASSUME Init PROVE IInv
  OBVIOUS
<1>1. TypeOK
  BY MaxObjectsAssumption DEF Init, TypeOK, Headers, HeaderOrNull, Null
<1>2. <<>> \in Seq(Headers) /\ Len(<<>>) = 0
  BY EmptySeq
<1>3. Holds(<<>>, <<>>)
  BY <1>2 DEF Init, Holds, LeadsThrough, LinkedBack, Distinct, Elements, Null, NoLink
<1> QED BY <1>1, <1>2, <1>3 DEF IInv

\* What every append does: the header becomes the last of the list, and the links of the
\* headers outside of the list stay.
LEMMA LinkAppends ==
    ASSUME TypeOK, NEW c \in Seq(Headers), NEW h \in Headers, h \notin Elements(c),
           LeadsThrough(next, first, c), LinkedBack(prev, head, c), Distinct(c), Link(h)
    PROVE  /\ LeadsThrough(next', first', Append(c, h))
           /\ LinkedBack(prev', head', Append(c, h))
           /\ Distinct(Append(c, h))
           /\ Elements(Append(c, h)) = Elements(c) \cup {h}
           /\ \A g \in Headers : g # h /\ g \notin Elements(c) => next'[g] = next[g]
<1> DEFINE e == Append(c, h)
           n == Len(c)
<1>1. /\ n \in Nat /\ e \in Seq(Headers) /\ Len(e) = n + 1
      /\ \A i \in 1..n : e[i] = c[i]
      /\ e[n + 1] = h
  BY AppendProperties, LenProperties
<1>2. /\ next' = [g \in Headers |-> IF g = h THEN Null
                                     ELSE IF g = head THEN h ELSE next[g]]
      /\ prev' = [prev EXCEPT ![h] = head]
      /\ first' = IF head = Null THEN h ELSE first
      /\ head' = h
      /\ prev \in [Headers -> HeaderOrNull]
  BY DEF Link, TypeOK
<1>3. \A i \in 1..n : c[i] \in Headers /\ c[i] # h /\ c[i] # Null
  <2> TAKE i \in 1..n
  <2>1. c[i] \in Headers
    BY ElementOfSeq
  <2>2. c[i] \in Elements(c)
    BY DEF Elements
  <2> QED BY <2>1, <2>2 DEF Headers, Null
<1>4. /\ head = IF n = 0 THEN Null ELSE c[n]
      /\ first = IF n = 0 THEN Null ELSE c[1]
      /\ \A i \in 1..n : next[c[i]] = IF i = n THEN Null ELSE c[i + 1]
      /\ \A i \in 1..n : prev[c[i]] = IF i = 1 THEN Null ELSE c[i - 1]
      /\ \A i, j \in 1..n : c[i] = c[j] => i = j
  BY DEF LeadsThrough, LinkedBack, Distinct, NoLink, Null
<1> HIDE DEF e, n
<1>5. \A i \in 1..n : next'[c[i]] = IF i = n THEN h ELSE c[i + 1]
  <2> TAKE i \in 1..n
  <2>1. next'[c[i]] = IF c[i] = head THEN h ELSE next[c[i]]
    BY <1>2, <1>3
  <2>2. n # 0 /\ n \in 1..n /\ (c[i] = head <=> i = n)
    BY <1>1, <1>4
  <2> QED BY <1>4, <2>1, <2>2
<1>6. first' = e[1] /\ LeadsThrough(next', first', e)
  <2>1. first' = e[1]
    <3>1. CASE n = 0
      BY <1>1, <1>2, <1>4, <3>1
    <3>2. CASE n # 0
      <4>1. 1 \in 1..n /\ n \in 1..n
        BY <1>1, <3>2
      <4> QED BY <1>1, <1>2, <1>3, <1>4, <3>2, <4>1
    <3> QED BY <3>1, <3>2
  <2>2. ASSUME NEW i \in 1..n + 1
        PROVE  next'[e[i]] = IF i = n + 1 THEN Null ELSE e[i + 1]
    <3>1. CASE i = n + 1
      BY <1>1, <1>2, <3>1
    <3>2. CASE i # n + 1
      <4>1. i \in 1..n /\ e[i] = c[i]
        BY <1>1, <3>2
      <4>2. CASE i = n
        BY <1>1, <1>5, <3>2, <4>1, <4>2
      <4>3. CASE i # n
        <5>1. i + 1 \in 1..n
          BY <1>1, <4>1, <4>3
        <5> QED BY <1>1, <1>5, <3>2, <4>1, <4>3, <5>1
      <4> QED BY <4>2, <4>3
    <3> QED BY <3>1, <3>2
  <2> QED BY <1>1, <2>1, <2>2 DEF LeadsThrough, NoLink, Null
<1>7. LinkedBack(prev', head', e)
  <2>1. ASSUME NEW i \in 1..n + 1
        PROVE  prev'[e[i]] = IF i = 1 THEN Null ELSE e[i - 1]
    <3>1. CASE i = n + 1
      <4>1. prev'[e[i]] = head
        BY <1>1, <1>2, <3>1
      <4>2. CASE n = 0
        BY <1>4, <3>1, <4>1, <4>2
      <4>3. CASE n # 0
        <5>1. i # 1 /\ i - 1 = n /\ n \in 1..n
          BY <1>1, <3>1, <4>3
        <5> QED BY <1>1, <1>4, <4>1, <4>3, <5>1
      <4> QED BY <4>2, <4>3
    <3>2. CASE i # n + 1
      <4>1. i \in 1..n /\ e[i] = c[i] /\ prev'[e[i]] = prev[c[i]]
        BY <1>1, <1>2, <1>3, <3>2
      <4>2. i = 1 \/ i - 1 \in 1..n
        BY <1>1, <4>1
      <4> QED BY <1>1, <1>4, <4>1, <4>2
    <3> QED BY <3>1, <3>2
  <2> QED BY <1>1, <1>2, <2>1 DEF LinkedBack
<1>8. Distinct(e)
  <2>1. \A i \in 1..n + 1 : i = n + 1 \/ (i \in 1..n /\ e[i] = c[i])
    BY <1>1
  <2> QED BY <1>1, <1>3, <1>4, <2>1 DEF Distinct
<1>9. Elements(e) = Elements(c) \cup {h}
  <2>1. 1..n + 1 = 1..n \cup {n + 1}
    BY <1>1
  <2> QED BY <1>1, <2>1 DEF Elements, n
<1>10. \A g \in Headers : g # h /\ g \notin Elements(c) => next'[g] = next[g]
  <2>1. head = Null \/ head \in Elements(c)
    BY <1>1, <1>4 DEF Elements, n
  <2> QED BY <1>2, <2>1 DEF Headers, Null
<1> QED BY <1>6, <1>7, <1>8, <1>9, <1>10 DEF e

\* nu__list_append of a removed object.
LEMMA RecycledHolds ==
    ASSUME TypeOK, NEW c \in Seq(Headers), NEW d \in Seq(Headers), Holds(c, d), AppendRecycled
    PROVE  /\ Len(d) # 0 /\ free = d[1] /\ Tail(d) \in Seq(Headers)
           /\ Append(c, d[1]) \in Seq(Headers)
           /\ Holds(Append(c, d[1]), Tail(d))'
           /\ Elements(Tail(d)) = Elements(d) \ {d[1]}
<1> DEFINE n == Len(d)
           t == Tail(d)
           h == d[1]
<1>1. n \in Nat /\ n # 0 /\ free = h /\ d # <<>>
  <2>1. free # Null /\ free = IF Len(d) = 0 THEN Null ELSE d[1]
    BY DEF AppendRecycled, Holds, LeadsThrough, NoLink, Null
  <2> QED BY <2>1, LenProperties, EmptySeq
<1>2. /\ t \in Seq(Headers) /\ Len(t) = n - 1
      /\ \A i \in 1..n - 1 : t[i] = d[i + 1]
  BY <1>1, HeadTailProperties
<1>3. h \in Headers /\ h \in Elements(d) /\ h \notin Elements(c)
  <2>1. 1 \in 1..n
    BY <1>1
  <2> QED BY <2>1, ElementOfSeq DEF Elements, Holds
<1>4. /\ Append(c, h) \in Seq(Headers) /\ Len(Append(c, h)) = Len(c) + 1
      /\ Len(c) \in Nat
  BY <1>3, AppendProperties, LenProperties
<1>5. /\ free' = next[h] /\ Link(h) /\ allocated' = allocated /\ live' = live \cup {h}
  BY <1>1 DEF AppendRecycled, Link
<1>6. /\ LeadsThrough(next, first, c) /\ LinkedBack(prev, head, c) /\ LeadsThrough(next, free, d)
      /\ Distinct(c) /\ Distinct(d)
      /\ Elements(c) \cap Elements(d) = {} /\ Elements(c) \cup Elements(d) = 1..allocated
      /\ live = Elements(c) /\ Len(c) + Len(d) = allocated
  BY DEF Holds
<1> HIDE DEF n, t, h
<1>7. /\ LeadsThrough(next', first', Append(c, h))
      /\ LinkedBack(prev', head', Append(c, h))
      /\ Distinct(Append(c, h))
      /\ Elements(Append(c, h)) = Elements(c) \cup {h}
      /\ \A g \in Headers : g # h /\ g \notin Elements(c) => next'[g] = next[g]
  BY <1>3, <1>5, <1>6, LinkAppends
<1>8. \A i \in 1..n - 1 : t[i] = d[i + 1] /\ i + 1 \in 1..n /\ t[i] \in Elements(d) /\ t[i] # h
  <2> TAKE i \in 1..n - 1
  <2>1. i + 1 \in 1..n /\ 1 \in 1..n /\ i + 1 # 1 /\ t[i] = d[i + 1]
    BY <1>1, <1>2
  <2>2. d[i + 1] # d[1]
    BY <1>6, <2>1 DEF Distinct, n
  <2> QED BY <2>1, <2>2 DEF Elements, n, h
<1>9. Elements(t) = Elements(d) \ {h}
  <2>1. ASSUME NEW g \in Elements(d), g # h PROVE g \in Elements(t)
    <3>1. PICK j \in 1..n : d[j] = g
      BY DEF Elements, n
    <3>2. j - 1 \in 1..n - 1 /\ (j - 1) + 1 = j
      BY <1>1, <2>1, <3>1 DEF h
    <3>3. t[j - 1] = g
      BY <1>2, <3>1, <3>2
    <3> QED BY <1>2, <3>2, <3>3 DEF Elements
  <2>2. \A g \in Elements(t) : g \in Elements(d) /\ g # h
    BY <1>2, <1>8 DEF Elements
  <2> QED BY <2>1, <2>2
<1>10. LeadsThrough(next', free', t)
  <2>1. \A i \in 1..n : next[d[i]] = IF i = n THEN Null ELSE d[i + 1]
    BY <1>6 DEF LeadsThrough, n, NoLink, Null
  <2>2. free' = IF n - 1 = 0 THEN Null ELSE t[1]
    <3>1. next[d[1]] = IF 1 = n THEN Null ELSE d[1 + 1]
      BY <1>1, <2>1
    <3>2. CASE n = 1
      BY <1>5, <3>1, <3>2 DEF h
    <3>3. CASE n # 1
      <4>1. 1 \in 1..n - 1 /\ n - 1 # 0
        BY <1>1, <3>3
      <4> QED BY <1>2, <1>5, <3>1, <3>3, <4>1 DEF h
    <3> QED BY <3>2, <3>3
  <2>3. ASSUME NEW i \in 1..n - 1
        PROVE  next'[t[i]] = IF i = n - 1 THEN Null ELSE t[i + 1]
    <3>1. t[i] = d[i + 1] /\ i + 1 \in 1..n /\ t[i] \in Elements(d) /\ t[i] # h
      BY <1>8
    <3>2. t[i] \in Headers /\ t[i] \notin Elements(c)
      BY <1>2, <1>6, <3>1, ElementOfSeq
    <3>3. next'[t[i]] = IF i + 1 = n THEN Null ELSE d[(i + 1) + 1]
      BY <1>7, <2>1, <3>1, <3>2
    <3>4. CASE i = n - 1
      BY <1>1, <3>3, <3>4
    <3>5. CASE i # n - 1
      <4>1. i + 1 # n /\ i + 1 \in 1..n - 1
        BY <1>1, <3>5
      <4> QED BY <1>2, <3>3, <3>5, <4>1
    <3> QED BY <3>4, <3>5
  <2> QED BY <1>2, <2>2, <2>3 DEF LeadsThrough, NoLink, Null
<1>11. Distinct(t)
  <2>1. \A i \in 1..n - 1 : i + 1 \in 1..n /\ t[i] = d[i + 1]
    BY <1>8
  <2>2. \A i, j \in 1..n : d[i] = d[j] => i = j
    BY <1>6 DEF Distinct, n
  <2>3. \A i, j \in 1..n - 1 : t[i] = t[j] => i + 1 = j + 1
    BY <2>1, <2>2
  <2> QED BY <1>2, <2>3 DEF Distinct
<1>12. /\ (Elements(c) \cup {h}) \cap Elements(t) = {}
       /\ (Elements(c) \cup {h}) \cup Elements(t) = 1..allocated
       /\ (Len(c) + 1) + (n - 1) = allocated
  BY <1>1, <1>3, <1>4, <1>6, <1>9 DEF n
<1>13. Holds(Append(c, h), t)'
  BY <1>2, <1>4, <1>5, <1>6, <1>7, <1>10, <1>11, <1>12 DEF Holds, h, t
<1> QED BY <1>1, <1>2, <1>4, <1>9, <1>13 DEF n, t, h

\* nu__list_append of an object the allocator provides.
LEMMA NewHolds ==
    ASSUME TypeOK, NEW c \in Seq(Headers), NEW d \in Seq(Headers), Holds(c, d), AppendNew,
           NEW h, h = allocated + 1
    PROVE  /\ Len(d) = 0 /\ h \in Headers /\ h \notin Elements(c)
           /\ Append(c, h) \in Seq(Headers)
           /\ Holds(Append(c, h), d)'
<1>1. Len(d) = 0 /\ Elements(d) = {}
  <2>1. \A i \in 1..Len(d) : d[i] \in Headers
    BY ElementOfSeq
  <2>2. free = Null /\ free = IF Len(d) = 0 THEN Null ELSE d[1]
    BY DEF AppendNew, Holds, LeadsThrough, NoLink, Null
  <2>3. Len(d) \in Nat
    BY LenProperties
  <2>4. Len(d) = 0
    <3> SUFFICES ASSUME Len(d) # 0 PROVE FALSE
      OBVIOUS
    <3>1. 1 \in 1..Len(d)
      BY <2>3
    <3> QED BY <2>1, <2>2, <3>1 DEF Headers, Null
  <2> QED BY <2>4 DEF Elements
<1>2. allocated \in Nat /\ allocated < MaxObjects /\ MaxObjects \in Nat
  BY MaxObjectsAssumption DEF TypeOK, HeaderOrNull, AppendNew
<1>3. h \in Headers /\ h \notin 1..allocated
  BY <1>2 DEF Headers
<1>4. /\ LeadsThrough(next, first, c) /\ LinkedBack(prev, head, c) /\ LeadsThrough(next, free, d)
      /\ Distinct(c) /\ Distinct(d)
      /\ Elements(c) = 1..allocated
      /\ live = Elements(c) /\ Len(c) = allocated
  BY <1>1, <1>2, LenProperties DEF Holds
<1>5. /\ Link(h) /\ free' = free /\ allocated' = h /\ live' = live \cup {h}
  BY DEF AppendNew, Link
<1>6. /\ LeadsThrough(next', first', Append(c, h))
      /\ LinkedBack(prev', head', Append(c, h))
      /\ Distinct(Append(c, h))
      /\ Elements(Append(c, h)) = Elements(c) \cup {h}
  BY <1>3, <1>4, <1>5, LinkAppends
<1>7. LeadsThrough(next', free', d)
  BY <1>1, <1>4, <1>5 DEF LeadsThrough, NoLink, Null
<1>8. Append(c, h) \in Seq(Headers) /\ Len(Append(c, h)) = Len(c) + 1
  BY <1>3, AppendProperties
<1>9. Elements(c) \cup {h} = 1..h /\ Len(c) + 1 = h
  BY <1>2, <1>4
<1>10. Holds(Append(c, h), d)'
  <2>1. /\ Elements(Append(c, h)) = 1..h /\ live' = Elements(Append(c, h))
        /\ Len(Append(c, h)) + Len(d) = h
    <3>1. Len(Append(c, h)) = h /\ Len(d) = 0 /\ h + 0 = h
      BY <1>1, <1>2, <1>8, <1>9
    <3>2. Len(Append(c, h)) + Len(d) = h
      BY <3>1
    <3> QED BY <1>4, <1>5, <1>6, <1>9, <3>2
  <2>2. Elements(Append(c, h)) \cap Elements(d) = {} /\ Elements(Append(c, h)) \cup Elements(d) = 1..h
    BY <1>1, <2>1
  <2> QED BY <1>4, <1>5, <1>6, <1>7, <2>1, <2>2 DEF Holds
<1> QED BY <1>1, <1>3, <1>4, <1>8, <1>10

\* nu__list_remove of an object of the list.
LEMMA RemoveHolds ==
    ASSUME TypeOK, NEW c \in Seq(Headers), NEW d \in Seq(Headers), Holds(c, d),
           NEW k \in 1..Len(c), Remove(c[k])
    PROVE  /\ Sequence!RemoveAt(c, k) \in Seq(Headers) /\ <<c[k]>> \o d \in Seq(Headers)
           /\ Holds(Sequence!RemoveAt(c, k), <<c[k]>> \o d)'
           /\ Elements(<<c[k]>> \o d) = Elements(d) \cup {c[k]}
<1> DEFINE n == Len(c)
           m == Len(d)
           h == c[k]
           e == Sequence!RemoveAt(c, k)
           f == <<c[k]>> \o d
<1>1. /\ n \in Nat /\ m \in Nat
      /\ \A i \in 1..n : c[i] \in Headers /\ c[i] # Null
      /\ \A i \in 1..m : d[i] \in Headers
  <2>1. \A i \in 1..n : c[i] \in Headers
    BY ElementOfSeq
  <2>2. \A i \in 1..m : d[i] \in Headers
    BY ElementOfSeq
  <2> QED BY <2>1, <2>2, LenProperties DEF Headers, Null
<1>2. /\ e \in Seq(Headers) /\ Len(e) = n - 1
      /\ \A i \in 1..n - 1 : e[i] = IF i < k THEN c[i] ELSE c[i + 1]
  BY WithoutItemProperties DEF Sequence!RemoveAt, WithoutItem
<1>3. /\ f \in Seq(Headers) /\ Len(f) = m + 1 /\ f[1] = h
      /\ \A i \in 1..m : f[i + 1] = d[i]
  <2>1. <<h>> \in Seq(Headers) /\ Len(<<h>>) = 1 /\ <<h>>[1] = h
    BY <1>1
  <2>2. /\ f \in Seq(Headers) /\ Len(f) = Len(<<h>>) + Len(d)
        /\ \A i \in 1..Len(<<h>>) + Len(d) :
             f[i] = IF i <= Len(<<h>>) THEN <<h>>[i] ELSE d[i - Len(<<h>>)]
    BY <2>1, ConcatProperties
  <2> HIDE DEF f, h
  <2>3. \A i \in 1..m + 1 : f[i] = IF i <= 1 THEN <<h>>[i] ELSE d[i - 1]
    BY <1>1, <2>1, <2>2
  <2>4. f[1] = h
    BY <1>1, <2>1, <2>3
  <2>5. ASSUME NEW i \in 1..m PROVE f[i + 1] = d[i]
    <3>1. i + 1 \in 1..m + 1 /\ ~(i + 1 <= 1) /\ (i + 1) - 1 = i
      BY <1>1
    <3> QED BY <2>3, <3>1
  <2>6. Len(f) = m + 1
    BY <1>1, <2>1, <2>2
  <2> QED BY <2>2, <2>4, <2>5, <2>6
<1>4. /\ first = IF n = 0 THEN Null ELSE c[1]
      /\ head = IF n = 0 THEN Null ELSE c[n]
      /\ free = IF m = 0 THEN Null ELSE d[1]
      /\ \A i \in 1..n : next[c[i]] = IF i = n THEN Null ELSE c[i + 1]
      /\ \A i \in 1..n : prev[c[i]] = IF i = 1 THEN Null ELSE c[i - 1]
      /\ \A i \in 1..m : next[d[i]] = IF i = m THEN Null ELSE d[i + 1]
      /\ \A i, j \in 1..n : c[i] = c[j] => i = j
      /\ \A i, j \in 1..m : d[i] = d[j] => i = j
      /\ \A i \in 1..n, j \in 1..m : c[i] # d[j]
      /\ Elements(c) \cap Elements(d) = {} /\ Elements(c) \cup Elements(d) = 1..allocated
      /\ live = Elements(c) /\ n + m = allocated
  <2>1. /\ Elements(c) \cap Elements(d) = {} /\ Elements(c) \cup Elements(d) = 1..allocated
        /\ live = Elements(c) /\ n + m = allocated
    BY DEF Holds
  <2>2. \A i \in 1..n, j \in 1..m : c[i] # d[j]
    <3> TAKE i \in 1..n, j \in 1..m
    <3>1. c[i] \in Elements(c) /\ d[j] \in Elements(d)
      BY DEF Elements
    <3> QED BY <2>1, <3>1
  <2>3. Distinct(c) /\ Distinct(d) /\ LeadsThrough(next, first, c) /\ LinkedBack(prev, head, c)
        /\ LeadsThrough(next, free, d)
    BY DEF Holds
  <2> HIDE DEF h
  <2>4. (\A i, j \in 1..n : c[i] = c[j] => i = j) /\ (\A i, j \in 1..m : d[i] = d[j] => i = j)
    BY <2>3 DEF Distinct
  <2>5. /\ first = IF n = 0 THEN Null ELSE c[1]
        /\ \A i \in 1..n : next[c[i]] = IF i = n THEN Null ELSE c[i + 1]
    BY <2>3 DEF LeadsThrough, NoLink, Null
  <2>6. /\ head = IF n = 0 THEN Null ELSE c[n]
        /\ \A i \in 1..n : prev[c[i]] = IF i = 1 THEN Null ELSE c[i - 1]
    BY <2>3 DEF LinkedBack
  <2>7. /\ free = IF m = 0 THEN Null ELSE d[1]
        /\ \A i \in 1..m : next[d[i]] = IF i = m THEN Null ELSE d[i + 1]
    BY <2>3 DEF LeadsThrough, NoLink, Null
  <2> QED BY <2>1, <2>2, <2>4, <2>5, <2>6, <2>7
<1>5. /\ next' = [g \in Headers |-> IF g = h THEN free
                                     ELSE IF g = prev[h] THEN next[h] ELSE next[g]]
      /\ prev' = [g \in Headers |-> IF g = h THEN Null
                                     ELSE IF g = next[h] THEN prev[h] ELSE prev[g]]
      /\ head' = IF head = h THEN prev[h] ELSE head
      /\ first' = IF first = h THEN next[h] ELSE first
      /\ free' = h
      /\ live' = live \ {h}
      /\ allocated' = allocated
  BY DEF Remove
<1> HIDE DEF n, m, e, f
<1>6. k \in 1..n /\ n # 0
  BY <1>1 DEF n
<1>7. /\ next[h] = IF k = n THEN Null ELSE c[k + 1]
      /\ prev[h] = IF k = 1 THEN Null ELSE c[k - 1]
  BY <1>4, <1>6
<1>8. \A i \in 1..n : i # k =>
        next'[c[i]] = IF i = k - 1 THEN next[h] ELSE next[c[i]]
  <2> TAKE i \in 1..n
  <2> HAVE i # k
  <2>1. c[i] # h /\ c[i] \in Headers /\ c[i] # Null
    BY <1>1, <1>4, <1>6
  <2>2. c[i] = prev[h] <=> i = k - 1
    <3>1. CASE k = 1
      BY <1>1, <1>7, <2>1, <3>1
    <3>2. CASE k # 1
      <4>1. k - 1 \in 1..n
        BY <1>1, <1>6, <3>2
      <4> QED BY <1>4, <1>7, <3>2, <4>1
    <3> QED BY <3>1, <3>2
  <2> QED BY <1>5, <2>1, <2>2
<1>9. \A i \in 1..n : i # k =>
        prev'[c[i]] = IF i = k + 1 THEN prev[h] ELSE prev[c[i]]
  <2> TAKE i \in 1..n
  <2> HAVE i # k
  <2>1. c[i] # h /\ c[i] \in Headers /\ c[i] # Null
    BY <1>1, <1>4, <1>6
  <2>2. c[i] = next[h] <=> i = k + 1
    <3>1. CASE k = n
      BY <1>1, <1>7, <2>1, <3>1
    <3>2. CASE k # n
      <4>1. k + 1 \in 1..n
        BY <1>1, <1>6, <3>2
      <4> QED BY <1>4, <1>7, <3>2, <4>1
    <3> QED BY <3>1, <3>2
  <2> QED BY <1>5, <2>1, <2>2
<1>10. LeadsThrough(next', first', e)
  <2>1. first' = IF n - 1 = 0 THEN Null ELSE e[1]
    <3>1. first = h <=> k = 1
      BY <1>1, <1>4, <1>6
    <3>2. CASE n = 1
      BY <1>5, <1>6, <1>7, <3>1, <3>2
    <3>3. CASE n # 1
      <4>1. 1 \in 1..n - 1 /\ n - 1 # 0
        BY <1>1, <1>6, <3>3
      <4>2. e[1] = IF k = 1 THEN c[2] ELSE c[1]
        BY <1>2, <1>6, <4>1
      <4> QED BY <1>4, <1>5, <1>6, <1>7, <3>1, <3>3, <4>1, <4>2
    <3> QED BY <3>2, <3>3
  <2>2. ASSUME NEW i \in 1..n - 1
        PROVE  next'[e[i]] = IF i = n - 1 THEN Null ELSE e[i + 1]
    <3>1. i \in 1..n /\ i + 1 \in 1..n
      BY <1>1
    <3>2. CASE i < k - 1
      <4>1. e[i] = c[i] /\ i # k /\ i # k - 1 /\ i # n /\ i # n - 1
        BY <1>1, <1>2, <1>6, <3>2
      <4>2. i + 1 \in 1..n - 1 /\ i + 1 < k
        BY <1>1, <1>6, <3>2
      <4> QED BY <1>2, <1>4, <1>8, <3>1, <4>1, <4>2
    <3>3. CASE i = k - 1
      <4>1. e[i] = c[i] /\ i # k
        BY <1>1, <1>2, <1>6, <3>3
      <4>2. next'[e[i]] = next[h]
        BY <1>8, <3>1, <3>3, <4>1
      <4>3. CASE k = n
        BY <1>7, <3>3, <4>2, <4>3
      <4>4. CASE k # n
        <5>1. i # n - 1 /\ k \in 1..n - 1 /\ i + 1 = k
          BY <1>1, <1>6, <3>3, <4>4
        <5> QED BY <1>2, <1>7, <4>2, <4>4, <5>1
      <4> QED BY <4>3, <4>4
    <3>4. CASE i >= k
      <4>1. e[i] = c[i + 1] /\ i + 1 # k /\ i + 1 # k - 1
        BY <1>1, <1>2, <1>6, <3>4
      <4>2. next'[e[i]] = IF i + 1 = n THEN Null ELSE c[(i + 1) + 1]
        BY <1>4, <1>8, <3>1, <4>1
      <4>3. CASE i = n - 1
        BY <1>1, <4>2, <4>3
      <4>4. CASE i # n - 1
        <5>1. i + 1 # n /\ i + 1 \in 1..n - 1 /\ ~(i + 1 < k)
          BY <1>1, <1>6, <3>4, <4>4
        <5> QED BY <1>2, <4>2, <4>4, <5>1
      <4> QED BY <4>3, <4>4
    <3> QED BY <1>6, <3>2, <3>3, <3>4
  <2> QED BY <1>2, <2>1, <2>2 DEF LeadsThrough, NoLink, Null
<1>11. LinkedBack(prev', head', e)
  <2>1. head' = IF n - 1 = 0 THEN Null ELSE e[n - 1]
    <3>1. head = h <=> k = n
      BY <1>1, <1>4, <1>6
    <3>2. CASE n = 1
      BY <1>5, <1>6, <1>7, <3>1, <3>2
    <3>3. CASE n # 1
      <4>1. n - 1 \in 1..n - 1 /\ n - 1 # 0 /\ (n - 1) + 1 = n
        BY <1>1, <1>6, <3>3
      <4>2. e[n - 1] = IF k = n THEN c[n - 1] ELSE c[n]
        BY <1>2, <1>6, <4>1
      <4> QED BY <1>4, <1>5, <1>6, <1>7, <3>1, <3>3, <4>1, <4>2
    <3> QED BY <3>2, <3>3
  <2>2. ASSUME NEW i \in 1..n - 1
        PROVE  prev'[e[i]] = IF i = 1 THEN Null ELSE e[i - 1]
    <3>1. i \in 1..n /\ i + 1 \in 1..n /\ i + 1 # 1 /\ (i + 1) - 1 = i
      BY <1>1
    <3>2. CASE i < k
      <4>1. e[i] = c[i] /\ i # k /\ i # k + 1
        BY <1>1, <1>2, <1>6, <3>2
      <4>2. i = 1 \/ (i - 1 \in 1..n - 1 /\ i - 1 < k)
        BY <1>1, <1>6, <3>2
      <4> QED BY <1>2, <1>4, <1>9, <3>1, <4>1, <4>2
    <3>3. CASE i = k
      <4>1. e[i] = c[i + 1] /\ i + 1 # k /\ prev'[e[i]] = prev[h]
        BY <1>1, <1>2, <1>6, <1>9, <3>1, <3>3
      <4>2. k = 1 \/ (k - 1 \in 1..n - 1 /\ k - 1 < k)
        BY <1>1, <1>6
      <4> QED BY <1>2, <1>7, <3>3, <4>1, <4>2
    <3>4. CASE i > k
      <4>1. e[i] = c[i + 1] /\ i + 1 # k /\ i + 1 # k + 1
        BY <1>1, <1>2, <1>6, <3>4
      <4>2. prev'[e[i]] = c[i]
        BY <1>4, <1>9, <3>1, <4>1
      <4>3. i # 1 /\ i - 1 \in 1..n - 1 /\ ~(i - 1 < k) /\ (i - 1) + 1 = i
        BY <1>1, <1>6, <3>4
      <4> QED BY <1>2, <4>2, <4>3
    <3> QED BY <1>6, <3>2, <3>3, <3>4
  <2> QED BY <1>2, <2>1, <2>2 DEF LinkedBack
<1>12. LeadsThrough(next', free', f)
  <2>1. free' = f[1] /\ m + 1 # 0
    BY <1>1, <1>3, <1>5
  <2>2. ASSUME NEW i \in 1..m + 1
        PROVE  next'[f[i]] = IF i = m + 1 THEN Null ELSE f[i + 1]
    <3>1. CASE i = 1
      <4>1. next'[f[i]] = free
        BY <1>1, <1>3, <1>5, <1>6, <3>1
      <4>2. CASE m = 0
        BY <1>4, <3>1, <4>1, <4>2
      <4>3. CASE m # 0
        <5>1. 1 \in 1..m /\ 1 # m + 1
          BY <1>1, <4>3
        <5> QED BY <1>3, <1>4, <3>1, <4>1, <4>3, <5>1
      <4> QED BY <4>2, <4>3
    <3>2. CASE i # 1
      <4> DEFINE j == i - 1
      <4>1. j \in 1..m /\ j + 1 = i
        BY <1>1, <3>2
      <4> HIDE DEF j
      <4>2. f[i] = d[j] /\ d[j] \in Headers /\ d[j] # h
        BY <1>1, <1>3, <1>4, <1>6, <4>1
      <4>3. d[j] # prev[h]
        <5>1. k = 1 \/ k - 1 \in 1..n
          BY <1>1, <1>6
        <5>2. prev[h] = Null \/ \E l \in 1..n : prev[h] = c[l]
          BY <1>7, <5>1
        <5> QED BY <1>4, <4>1, <4>2, <5>2 DEF Headers, Null
      <4>4. next'[f[i]] = IF j = m THEN Null ELSE d[j + 1]
        BY <1>4, <1>5, <4>1, <4>2, <4>3
      <4>5. CASE j = m
        BY <1>1, <4>1, <4>4, <4>5
      <4>6. CASE j # m
        <5>1. i # m + 1 /\ j + 1 \in 1..m /\ (j + 1) + 1 = i + 1
          BY <1>1, <4>1, <4>6
        <5>2. f[i + 1] = d[j + 1]
          BY <1>3, <5>1
        <5> QED BY <4>4, <4>6, <5>1, <5>2
      <4> QED BY <4>5, <4>6
    <3> QED BY <3>1, <3>2
  <2> QED BY <1>3, <2>1, <2>2 DEF LeadsThrough, NoLink, Null
<1>13. Distinct(e) /\ Elements(e) = Elements(c) \ {h}
  <2>1. \A i \in 1..n - 1 : \E j \in 1..n :
          e[i] = c[j] /\ j # k /\ i = IF j < k THEN j ELSE j - 1
    <3> TAKE i \in 1..n - 1
    <3>1. CASE i < k
      <4>1. i \in 1..n /\ e[i] = c[i] /\ i # k
        BY <1>1, <1>2, <1>6, <3>1
      <4> QED BY <3>1, <4>1
    <3>2. CASE ~(i < k)
      <4>1. i + 1 \in 1..n /\ e[i] = c[i + 1] /\ i + 1 # k /\ ~(i + 1 < k) /\ (i + 1) - 1 = i
        BY <1>1, <1>2, <1>6, <3>2
      <4> QED BY <4>1
    <3> QED BY <3>1, <3>2
  <2>2. Distinct(e)
    <3> SUFFICES ASSUME NEW i \in 1..n - 1, NEW j \in 1..n - 1, e[i] = e[j] PROVE i = j
      BY <1>2 DEF Distinct
    <3>1. PICK p \in 1..n : e[i] = c[p] /\ p # k /\ i = IF p < k THEN p ELSE p - 1
      BY <2>1
    <3>2. PICK q \in 1..n : e[j] = c[q] /\ q # k /\ j = IF q < k THEN q ELSE q - 1
      BY <2>1
    <3>3. p = q
      <4>1. c[p] = c[q]
        BY <3>1, <3>2
      <4>2. \A x, y \in 1..n : c[x] = c[y] => x = y
        BY <1>4
      <4> QED BY <4>1, <4>2
    <3> QED BY <3>1, <3>2, <3>3
  <2>3. \A g \in Elements(e) : g \in Elements(c) /\ g # h
    <3> TAKE g \in Elements(e)
    <3>1. PICK i \in 1..n - 1 : g = e[i]
      BY <1>2 DEF Elements
    <3>2. PICK j \in 1..n : e[i] = c[j] /\ j # k
      BY <2>1
    <3> QED BY <1>4, <1>6, <3>1, <3>2 DEF Elements, n
  <2>4. ASSUME NEW g \in Elements(c), g # h PROVE g \in Elements(e)
    <3>1. PICK j \in 1..n : g = c[j]
      BY DEF Elements, n
    <3>2. j # k
      BY <2>4, <3>1
    <3>3. CASE j < k
      <4>1. j \in 1..n - 1 /\ e[j] = g
        BY <1>1, <1>2, <1>6, <3>1, <3>3
      <4> QED BY <1>2, <4>1 DEF Elements
    <3>4. CASE ~(j < k)
      <4>1. j - 1 \in 1..n - 1 /\ ~(j - 1 < k) /\ (j - 1) + 1 = j
        BY <1>1, <1>6, <3>2, <3>4
      <4>2. e[j - 1] = g
        BY <1>2, <3>1, <4>1
      <4> QED BY <1>2, <4>1, <4>2 DEF Elements
    <3> QED BY <3>3, <3>4
  <2> QED BY <2>2, <2>3, <2>4
<1>14. Distinct(f) /\ Elements(f) = Elements(d) \cup {h}
  <2>1. \A i \in 1..m + 1 : i = 1 \/ (i - 1 \in 1..m /\ f[i] = d[i - 1])
    <3> TAKE i \in 1..m + 1
    <3>1. i = 1 \/ (i - 1 \in 1..m /\ (i - 1) + 1 = i)
      BY <1>1
    <3> QED BY <1>3, <3>1
  <2>2. \A i \in 1..m : d[i] # h
    BY <1>4, <1>6
  <2>3. Distinct(f)
    <3> SUFFICES ASSUME NEW i \in 1..m + 1, NEW j \in 1..m + 1, f[i] = f[j] PROVE i = j
      BY <1>3 DEF Distinct
    <3>1. CASE i = 1 \/ j = 1
      BY <1>3, <2>1, <2>2, <3>1
    <3>2. CASE i # 1 /\ j # 1
      <4>1. i - 1 = j - 1
        BY <1>4, <2>1, <3>2
      <4> QED BY <4>1
    <3> QED BY <3>1, <3>2
  <2>4. \A g \in Elements(f) : g = h \/ g \in Elements(d)
    BY <1>3, <2>1 DEF Elements, m
  <2>5. h \in Elements(f)
    <3>1. 1 \in 1..m + 1
      BY <1>1
    <3> QED BY <1>3, <3>1 DEF Elements
  <2>6. \A g \in Elements(d) : g \in Elements(f)
    <3> TAKE g \in Elements(d)
    <3>1. PICK i \in 1..m : g = d[i]
      BY DEF Elements, m
    <3>2. i + 1 \in 1..m + 1
      BY <1>1
    <3> QED BY <1>3, <3>1, <3>2 DEF Elements
  <2> QED BY <2>3, <2>4, <2>5, <2>6
<1>15. /\ (Elements(c) \ {h}) \cap (Elements(d) \cup {h}) = {}
       /\ (Elements(c) \ {h}) \cup (Elements(d) \cup {h}) = 1..allocated
       /\ (n - 1) + (m + 1) = allocated
  <2>1. h \in Elements(c)
    BY <1>6 DEF Elements, n
  <2> QED BY <1>1, <1>4, <2>1
<1>16. Holds(e, f)'
  BY <1>2, <1>3, <1>4, <1>5, <1>10, <1>11, <1>12, <1>13, <1>14, <1>15 DEF Holds, e, f
<1> QED BY <1>2, <1>3, <1>14, <1>16 DEF e, f

-------------------------------------------------------------------------------
(* Every step *)

\* The links and the client's knowledge keep their types.
LEMMA TypesKept ==
    ASSUME IInv, Next
    PROVE  TypeOK'
<1>1. /\ prev \in [Headers -> HeaderOrNull] /\ next \in [Headers -> HeaderOrNull]
      /\ first \in HeaderOrNull /\ head \in HeaderOrNull /\ free \in HeaderOrNull
      /\ allocated \in HeaderOrNull /\ result \in HeaderOrNull
      /\ live \subseteq 1..allocated
  BY DEF IInv, TypeOK
<1>2. PICK c, d \in Seq(Headers) : Holds(c, d)
  BY DEF IInv
<1>3. MaxObjects \in Nat
  BY MaxObjectsAssumption
<1>4. ASSUME NEW h \in Headers, Link(h)
      PROVE  /\ prev' \in [Headers -> HeaderOrNull] /\ next' \in [Headers -> HeaderOrNull]
             /\ first' \in HeaderOrNull /\ head' \in HeaderOrNull /\ result' \in HeaderOrNull
             /\ live' = live \cup {h}
  BY <1>1, <1>3, <1>4 DEF Link, Headers, HeaderOrNull, Null
<1>5. CASE AppendRecycled
  <2>1. free \in Headers /\ free \in 1..allocated
    <3>1. Len(d) # 0 /\ free = d[1] /\ Len(d) \in Nat
      BY <1>2, <1>5, RecycledHolds, LenProperties DEF IInv
    <3>2. 1 \in 1..Len(d)
      BY <3>1
    <3>3. d[1] \in Headers /\ d[1] \in Elements(d)
      BY <3>2, ElementOfSeq DEF Elements
    <3> QED BY <1>2, <3>1, <3>3 DEF Holds
  <2>2. Link(free) /\ free' = next[free] /\ allocated' = allocated
    BY <1>5 DEF AppendRecycled
  <2>3. free' \in HeaderOrNull
    BY <1>1, <2>1, <2>2
  <2> QED BY <1>1, <1>4, <2>1, <2>2, <2>3 DEF TypeOK
<1>6. CASE AppendNew
  <2>1. /\ allocated + 1 \in Headers /\ Link(allocated + 1) /\ allocated' = allocated + 1
        /\ free' = free
    BY <1>1, <1>3, <1>6 DEF AppendNew, Headers, HeaderOrNull
  <2>2. allocated' \in HeaderOrNull /\ live \cup {allocated + 1} \subseteq 1..allocated'
    BY <1>1, <1>3, <2>1 DEF Headers, HeaderOrNull
  <2> QED BY <1>1, <1>4, <2>1, <2>2 DEF TypeOK
<1>7. CASE AppendRefused
  BY <1>1, <1>3, <1>7 DEF AppendRefused, TypeOK, HeaderOrNull, Null
<1>8. ASSUME NEW h \in live, Remove(h)
      PROVE  TypeOK'
  <2>1. h \in Headers
    BY <1>1, <1>3 DEF Headers, HeaderOrNull
  <2>2. h \in HeaderOrNull /\ next[h] \in HeaderOrNull /\ prev[h] \in HeaderOrNull /\ Null \in HeaderOrNull
    BY <1>1, <1>3, <2>1 DEF Headers, HeaderOrNull, Null
  <2> QED BY <1>1, <1>8, <2>2 DEF Remove, TypeOK
<1> QED BY <1>5, <1>6, <1>7, <1>8 DEF Next, AppendObject

LEMMA StepInv ==
    ASSUME IInv, [Next]_vars
    PROVE  IInv'
<1>1. PICK c, d \in Seq(Headers) : Holds(c, d)
  BY DEF IInv
<1>2. TypeOK
  BY DEF IInv
<1>3. TypeOK'
  <2>1. CASE Next
    BY <2>1, TypesKept
  <2>2. CASE UNCHANGED vars
    BY <1>2, <2>2 DEF vars, TypeOK
  <2> QED BY <2>1, <2>2
<1>4. CASE AppendRecycled
  BY <1>1, <1>2, <1>3, <1>4, RecycledHolds DEF IInv
<1>5. CASE AppendNew
  BY <1>1, <1>2, <1>3, <1>5, NewHolds DEF IInv
<1>6. CASE AppendRefused
  <2>1. Holds(c, d)'
    BY <1>1, <1>6 DEF AppendRefused, Holds
  <2> QED BY <1>3, <2>1 DEF IInv
<1>7. ASSUME NEW h \in live, Remove(h)
      PROVE  IInv'
  <2>1. PICK k \in 1..Len(c) : c[k] = h
    BY <1>1 DEF Holds, Elements
  <2> QED BY <1>1, <1>2, <1>3, <1>7, <2>1, RemoveHolds DEF IInv
<1>8. CASE UNCHANGED vars
  <2>1. Holds(c, d)'
    BY <1>1, <1>8 DEF vars, Holds
  <2> QED BY <1>3, <2>1 DEF IInv
<1> QED BY <1>4, <1>5, <1>6, <1>7, <1>8 DEF Next, AppendObject

LEMMA InvInductive == Spec => []IInv
<1>1. Init => IInv
  BY InitInv
<1>2. IInv /\ [Next]_vars => IInv'
  BY StepInv
<1> QED BY <1>1, <1>2, PTL DEF Spec

\* What the properties see of the two lists are the two sequences.
LEMMA WalksOf ==
    ASSUME TypeOK, NEW c \in Seq(Headers), NEW d \in Seq(Headers), Holds(c, d)
    PROVE  /\ Loop(first) = c /\ Loop(free) = d
           /\ Met(first) = Elements(c) /\ Met(free) = Elements(d)
<1>1. Len(c) <= MaxObjects /\ Len(d) <= MaxObjects
  <2>1. /\ Len(c) \in Nat /\ Len(d) \in Nat /\ Len(c) + Len(d) = allocated
        /\ allocated \in 0..MaxObjects /\ MaxObjects \in Nat
    BY LenProperties, MaxObjectsAssumption DEF Holds, TypeOK, HeaderOrNull
  <2> QED BY <2>1
<1>2. Loop(first) = c /\ Loop(free) = d
  BY <1>1, MaxObjectsAssumption, WalkMeets DEF Holds, Headers, Loop
<1>3. DOMAIN c = 1..Len(c) /\ DOMAIN d = 1..Len(d)
  BY LenProperties
<1> QED BY <1>2, <1>3 DEF Met, Elements

-------------------------------------------------------------------------------

\* The links, the objects handed out and what the client holds keep their types, for any
\* number of objects.
THEOREM TypeCorrect == Spec => []TypeOK
<1>1. IInv => TypeOK
  BY DEF IInv
<1> QED BY <1>1, InvInductive, PTL

\* Whatever is appended and removed, every object the allocator gave is in the list or in
\* the free list and in one of them only, the list is what the client holds, its backward
\* links undo the forward ones and it ends at its head.
THEOREM NothingLost == Spec => []ListsPartition
<1>1. IInv => ListsPartition
  <2> SUFFICES ASSUME IInv PROVE ListsPartition
    OBVIOUS
  <2>1. PICK c, d \in Seq(Headers) : Holds(c, d)
    BY DEF IInv
  <2>2. /\ Loop(first) = c /\ Met(first) = Elements(c) /\ Met(free) = Elements(d)
    BY <2>1, WalksOf DEF IInv
  <2>3. /\ first = IF Len(c) = 0 THEN Null ELSE c[1]
        /\ head = IF Len(c) = 0 THEN Null ELSE c[Len(c)]
        /\ Len(c) \in Nat
        /\ \A i, j \in 1..Len(c) : c[i] = c[j] => i = j
        /\ \A i \in 1..Len(c) : prev[c[i]] = IF i = 1 THEN Null ELSE c[i - 1]
        /\ \A i \in 1..Len(c) : next[c[i]] = IF i = Len(c) THEN Null ELSE c[i + 1]
        /\ \A i \in 1..Len(c) : c[i] \in Headers
    BY <2>1, LenProperties, ElementOfSeq DEF Holds, LeadsThrough, LinkedBack, Distinct, NoLink, Null
  <2>4. ASSUME NEW h \in Met(first)
        PROVE  prev[h] = IF h = first THEN Null ELSE CHOOSE g \in Met(first) : next[g] = h
    <3>1. PICK i \in 1..Len(c) : h = c[i]
      BY <2>2 DEF Elements
    <3>2. h = first <=> i = 1
      <4>1. 1 \in 1..Len(c) /\ Len(c) # 0
        BY <2>3, <3>1
      <4> QED BY <2>3, <3>1, <4>1
    <3>3. CASE i = 1
      BY <2>3, <3>1, <3>2, <3>3
    <3>4. CASE i # 1
      <4>1. i - 1 \in 1..Len(c) /\ i - 1 # Len(c) /\ (i - 1) + 1 = i
        BY <2>3, <3>4
      <4>2. c[i - 1] \in Met(first) /\ next[c[i - 1]] = h
        BY <2>2, <2>3, <3>1, <4>1 DEF Elements
      <4>3. ASSUME NEW g \in Met(first), next[g] = h PROVE g = c[i - 1]
        <5>1. PICK j \in 1..Len(c) : g = c[j]
          BY <2>2 DEF Elements
        <5>2. h # Null
          BY <2>3, <3>1 DEF Headers, Null
        <5>3. j # Len(c) /\ next[g] = c[j + 1] /\ j + 1 \in 1..Len(c)
          BY <2>3, <4>3, <5>1, <5>2
        <5>4. j + 1 = i
          BY <2>3, <3>1, <4>3, <5>3
        <5>5. j = i - 1
          BY <5>4
        <5> QED BY <5>1, <5>5
      <4>4. (CHOOSE g \in Met(first) : next[g] = h) = c[i - 1]
        BY <4>2, <4>3, Zenon
      <4> QED BY <2>3, <3>1, <3>2, <3>4, <4>4
    <3> QED BY <3>3, <3>4
  <2>5. head = IF first = Null THEN Null ELSE c[Len(c)]
    <3>1. first = Null <=> Len(c) = 0
      <4>1. CASE Len(c) # 0
        <5>1. 1 \in 1..Len(c)
          BY <2>3, <4>1
        <5> QED BY <2>3, <4>1, <5>1 DEF Headers, Null
      <4> QED BY <2>3, <4>1
    <3> QED BY <2>3, <3>1
  <2>6. /\ Met(first) \cup Met(free) = 1..allocated
        /\ Met(first) \cap Met(free) = {}
        /\ Met(first) = live
    BY <2>1, <2>2 DEF Holds
  <2>7. head = IF first = Null THEN Null ELSE Loop(first)[Len(Loop(first))]
    BY <2>2, <2>5, Zenon
  <2> QED BY <2>4, <2>6, <2>7 DEF ListsPartition
<1> QED BY <1>1, InvInductive, PTL

\* nu__list_append never returns an object that some client still holds, whether it comes
\* from the free list or from the allocator.
THEOREM NeverShared == Spec => HandedOutOnce
<1>1. IInv /\ [Next]_vars => [AppendObject => result' \notin live]_vars
  <2> SUFFICES ASSUME IInv, AppendObject PROVE result' \notin live
    OBVIOUS
  <2>1. PICK c, d \in Seq(Headers) : Holds(c, d)
    BY DEF IInv
  <2>2. live = Elements(c) /\ TypeOK
    BY <2>1 DEF Holds, IInv
  <2>3. CASE AppendRecycled
    <3>1. Len(d) # 0 /\ free = d[1] /\ result' = free /\ Len(d) \in Nat
      BY <2>1, <2>2, <2>3, RecycledHolds, LenProperties DEF AppendRecycled, Link
    <3>2. 1 \in 1..Len(d)
      BY <3>1
    <3>3. d[1] \in Elements(d)
      BY <3>2 DEF Elements
    <3> QED BY <2>1, <2>2, <3>1, <3>3 DEF Holds
  <2>4. CASE AppendNew
    BY <2>1, <2>2, <2>4, NewHolds DEF AppendNew, Link
  <2>5. CASE AppendRefused
    <3>1. result' = Null /\ live \subseteq 1..allocated
      BY <2>2, <2>5 DEF AppendRefused, TypeOK
    <3>2. Null \notin 1..allocated
      BY <2>2 DEF TypeOK, HeaderOrNull, Null
    <3> QED BY <3>1, <3>2
  <2> QED BY <2>3, <2>4, <2>5 DEF AppendObject
<1> QED BY <1>1, InvInductive, PTL DEF Spec, HandedOutOnce

\* A loop over the list meets the objects in the order of their appends; an append reuses
\* a removed object before it asks the allocator, and only the allocator makes it fail:
\* every behaviour of the list is one of ObjectSequence.
THEOREM SequenceImplemented == Spec => ImplementsSequence
<1>1. IInv /\ Init => Sequence!Init
  <2> SUFFICES ASSUME IInv, Init PROVE Sequence!Init
    OBVIOUS
  <2>1. <<>> \in Seq(Headers) /\ Len(<<>>) = 0
    BY EmptySeq
  <2>2. Holds(<<>>, <<>>)
    BY <2>1 DEF Init, Holds, LeadsThrough, LinkedBack, Distinct, Elements, Null, NoLink
  <2>3. Loop(first) = <<>> /\ Met(free) = Elements(<<>>)
    BY <2>1, <2>2, WalksOf DEF IInv
  <2> QED BY <2>1, <2>3 DEF Sequence!Init, Init, Elements
<1>2. IInv /\ IInv' /\ [Next]_vars => [Sequence!Next]_(Sequence!seqVars)
  <2> SUFFICES ASSUME IInv, IInv', [Next]_vars
               PROVE  Sequence!Next \/ UNCHANGED Sequence!seqVars
    OBVIOUS
  <2>1. PICK c, d \in Seq(Headers) : Holds(c, d)
    BY DEF IInv
  <2>2. /\ TypeOK /\ TypeOK'
        /\ Loop(first) = c /\ Met(first) = Elements(c) /\ Met(free) = Elements(d)
    BY <2>1, WalksOf DEF IInv
  <2>3. ASSUME NEW e \in Seq(Headers), NEW f \in Seq(Headers), Holds(e, f)'
        PROVE  Loop(first)' = e /\ Met(free)' = Elements(f)
    <3>1. /\ LeadsThrough(next', first', e) /\ LeadsThrough(next', free', f)
          /\ Len(e) + Len(f) = allocated'
      BY <2>3 DEF Holds
    <3>2. Len(e) <= MaxObjects /\ Len(f) <= MaxObjects
      <4>1. /\ Len(e) \in Nat /\ Len(f) \in Nat
            /\ allocated' \in 0..MaxObjects /\ MaxObjects \in Nat
        BY <2>2, LenProperties, MaxObjectsAssumption DEF TypeOK, HeaderOrNull
      <4> QED BY <3>1, <4>1
    <3>3. Loop(first)' = e /\ Loop(free)' = f
      BY <3>1, <3>2, MaxObjectsAssumption, WalkMeets DEF Headers, Loop
    <3>4. DOMAIN f = 1..Len(f)
      BY LenProperties
    <3> QED BY <3>3, <3>4 DEF Met, Elements
  <2>4. CASE AppendRecycled
    <3>1. /\ Len(d) # 0 /\ free = d[1] /\ Tail(d) \in Seq(Headers)
          /\ Append(c, d[1]) \in Seq(Headers)
          /\ Holds(Append(c, d[1]), Tail(d))'
          /\ Elements(Tail(d)) = Elements(d) \ {d[1]}
      BY <2>1, <2>2, <2>4, RecycledHolds
    <3>2. Loop(first)' = Append(c, d[1]) /\ Met(free)' = Elements(d) \ {d[1]}
      BY <2>3, <3>1
    <3>3. 1 \in 1..Len(d)
      BY <3>1, LenProperties
    <3>4. d[1] \in Elements(d) /\ d[1] \in Headers /\ result' = d[1]
      BY <2>4, <3>1, <3>3, ElementOfSeq DEF Elements, AppendRecycled, Link
    <3>5. Sequence!Reuse(d[1])
      BY <2>2, <3>2, <3>4 DEF Sequence!Reuse
    <3> QED BY <3>4, <3>5 DEF Sequence!Next
  <2>5. CASE AppendNew
    <3> PICK h : h = allocated + 1
      OBVIOUS
    <3>1. /\ Len(d) = 0 /\ h \in Headers /\ h \notin Elements(c)
          /\ Append(c, h) \in Seq(Headers)
          /\ Holds(Append(c, h), d)'
      BY <2>1, <2>2, <2>5, NewHolds
    <3>2. Loop(first)' = Append(c, h) /\ Met(free)' = Elements(d)
      BY <2>3, <3>1
    <3>3. result' = h /\ Elements(d) = {}
      BY <2>5, <3>1 DEF AppendNew, Link, Elements
    <3>4. h \notin Sequence!ToSet(c)
      BY <3>1, LenProperties DEF Sequence!ToSet, Elements
    <3>5. Sequence!Allocate(h)
      BY <2>2, <3>1, <3>2, <3>3, <3>4 DEF Sequence!Allocate
    <3> QED BY <3>1, <3>5 DEF Sequence!Next
  <2>6. CASE AppendRefused
    <3>1. Holds(c, d)' /\ result' = Null /\ free = Null
      BY <2>1, <2>6 DEF AppendRefused, Holds
    <3>2. Loop(first)' = c /\ Met(free)' = Elements(d)
      BY <2>3, <3>1
    <3>3. Elements(d) = {}
      <4>1. free = IF Len(d) = 0 THEN Null ELSE d[1]
        BY <2>1 DEF Holds, LeadsThrough, NoLink, Null
      <4>2. Len(d) = 0
        <5> SUFFICES ASSUME Len(d) # 0 PROVE FALSE
          OBVIOUS
        <5>1. 1 \in 1..Len(d)
          BY LenProperties
        <5>2. d[1] \in Headers
          BY <5>1, ElementOfSeq
        <5> QED BY <3>1, <4>1, <5>2 DEF Headers, Null
      <4> QED BY <4>2 DEF Elements
    <3>4. Sequence!Refuse
      BY <2>2, <3>1, <3>2, <3>3 DEF Sequence!Refuse
    <3> QED BY <3>4 DEF Sequence!Next
  <2>7. ASSUME NEW h \in live, Remove(h)
        PROVE  Sequence!Next
    <3>1. PICK k \in 1..Len(c) : c[k] = h
      BY <2>1 DEF Holds, Elements
    <3>2. /\ Sequence!RemoveAt(c, k) \in Seq(Headers) /\ <<c[k]>> \o d \in Seq(Headers)
          /\ Holds(Sequence!RemoveAt(c, k), <<c[k]>> \o d)'
          /\ Elements(<<c[k]>> \o d) = Elements(d) \cup {c[k]}
      BY <2>1, <2>2, <2>7, <3>1, RemoveHolds
    <3>3. /\ Loop(first)' = Sequence!RemoveAt(c, k)
          /\ Met(free)' = Elements(d) \cup {c[k]}
      BY <2>3, <3>2
    <3>4. k \in DOMAIN c /\ result' = result
      BY <2>7, LenProperties DEF Remove
    <3>5. Sequence!TakeBack(k)
      BY <2>2, <3>3, <3>4 DEF Sequence!TakeBack
    <3> QED BY <2>2, <3>4, <3>5 DEF Sequence!Next
  <2>8. CASE UNCHANGED vars
    BY <2>8 DEF vars, Sequence!seqVars, Met, Loop
  <2> QED BY <2>4, <2>5, <2>6, <2>7, <2>8 DEF Next, AppendObject
<1> QED BY <1>1, <1>2, InvInductive, PTL DEF Spec, ImplementsSequence, Sequence!Spec
===============================================================================
