---------------------------- MODULE KernelProofs ----------------------------
(***************************************************************************)
(* What the kernel operators do to the lists, the bitmap and the threads,  *)
(* and the invariant of the kernel record that all of them preserve.  The  *)
(* lists are looked at through their nodes, Nodes(kk, h): the order of a   *)
(* list matters to fairness only, which is model-checked.                  *)
(***************************************************************************)
EXTENDS Kernel, SequenceTheorems, FiniteSetTheorems, WellFoundedInduction,
        TLAPS

-----------------------------------------------------------------------------
(* Lists *)

\* An element of a list is found at some position, and conversely.
LEMMA NodesOfList ==
  ASSUME NEW S, NEW l \in Seq(S)
  PROVE  /\ DOMAIN l = 1 .. Len(l)
         /\ Len(l) \in Nat
         /\ \A i \in 1 .. Len(l) : l[i] \in ToSet(l) /\ l[i] \in S
         /\ \A x \in ToSet(l) : \E i \in 1 .. Len(l) : x = l[i]
         /\ ToSet(l) \subseteq S
<1>1. DOMAIN l = 1 .. Len(l) /\ Len(l) \in Nat
  BY LenProperties
<1>2. \A i \in 1 .. Len(l) : l[i] \in S
  BY ElementOfSeq
<1>3. QED
  BY <1>1, <1>2 DEF ToSet

\* rt_list_isempty: a list is empty exactly when no node is linked in it.
LEMMA EmptyList ==
  ASSUME NEW S, NEW l \in Seq(S)
  PROVE  /\ l = << >> <=> ToSet(l) = {}
         /\ l # << >> => l[1] \in ToSet(l) /\ l[1] \in S
<1>1. CASE l = << >>
  <2>1. Len(l) = 0
    BY <1>1, EmptySeq
  <2>2. 1 .. Len(l) = {}
    BY <2>1
  <2>3. ToSet(l) = {}
    BY <2>2, NodesOfList
  <2>4. QED
    BY <1>1, <2>3
<1>2. CASE l # << >>
  <2>1. Len(l) \in Nat \ {0}
    BY <1>2, EmptySeq
  <2>2. QED
    BY <1>2, <2>1, NodesOfList
<1>3. QED
  BY <1>1, <1>2

\* rt_list_insert_before(head, n) of a node that is not linked there.
LEMMA InsertLast ==
  ASSUME NEW S, NEW l \in Seq(S), NEW n \in S
  PROVE  LET m == rt_list_insert_before(l, n)
         IN  /\ m \in Seq(S) /\ Len(m) = Len(l) + 1
             /\ \A i \in 1 .. Len(l) : m[i] = l[i]
             /\ m[Len(l) + 1] = n
             /\ ToSet(m) = ToSet(l) \cup {n}
             /\ NoRepeat(l) /\ n \notin ToSet(l) => NoRepeat(m)
<1> DEFINE m == Append(l, n)
<1>1. /\ m \in Seq(S) /\ Len(m) = Len(l) + 1
      /\ \A i \in 1 .. Len(l) : m[i] = l[i]
      /\ m[Len(l) + 1] = n
  BY AppendProperties
<1>2. /\ DOMAIN l = 1 .. Len(l) /\ DOMAIN m = 1 .. Len(l) + 1
      /\ Len(l) \in Nat
  BY <1>1, LenProperties
<1> HIDE DEF m
<1>3. ToSet(m) = ToSet(l) \cup {n}
  BY <1>1, <1>2 DEF ToSet
<1>4. ASSUME NoRepeat(l), n \notin ToSet(l)
      PROVE  NoRepeat(m)
  <2>1. \A i \in 1 .. Len(l) : l[i] # n
    BY <1>2, <1>4 DEF ToSet
  <2>2. QED
    BY <1>1, <1>2, <1>4, <2>1 DEF NoRepeat
<1>5. QED
  BY <1>1, <1>3, <1>4 DEF rt_list_insert_before, m

\* rt_list_insert_before(m, n), m the i-th node of the list.
LEMMA InsertInFront ==
  ASSUME NEW S, NEW l \in Seq(S), NEW n \in S, NEW i \in 1 .. Len(l) + 1
  PROVE  LET m == InsertBeforeNode(l, i, n)
         IN  /\ m \in Seq(S)
             /\ Len(m) = Len(l) + 1
             /\ \A j \in 1 .. Len(l) + 1 :
                  m[j] = IF j < i THEN l[j] ELSE IF j = i THEN n ELSE l[j - 1]
             /\ ToSet(m) = ToSet(l) \cup {n}
             /\ NoRepeat(l) /\ n \notin ToSet(l) => NoRepeat(m)
<1> DEFINE front == SubSeq(l, 1, i - 1)
           back  == SubSeq(l, i, Len(l))
           m     == (front \o <<n>>) \o back
<1>0. /\ DOMAIN l = 1 .. Len(l) /\ Len(l) \in Nat
      /\ \A j \in 1 .. Len(l) : l[j] \in S
  BY LenProperties, ElementOfSeq
<1>1. /\ front \in Seq(S) /\ Len(front) = i - 1
      /\ \A j \in 1 .. i - 1 : front[j] = l[j]
  <2>1. \A j \in 1 .. i - 1 : l[j] \in S
    BY <1>0
  <2>2. 1 \in Int /\ i - 1 \in Int
    BY <1>0
  <2>3. /\ front \in Seq(S)
        /\ Len(front) = IF 1 <= i - 1 THEN (i - 1) - 1 + 1 ELSE 0
        /\ \A j \in 1 .. (i - 1) - 1 + 1 : front[j] = l[1 + j - 1]
    BY <2>1, <2>2, SubSeqProperties
  <2>4. QED
    BY <2>3, <1>0
<1>2. /\ back \in Seq(S) /\ Len(back) = Len(l) - i + 1
      /\ \A j \in 1 .. Len(l) - i + 1 : back[j] = l[i + j - 1]
  <2>1. \A j \in i .. Len(l) : l[j] \in S
    BY <1>0
  <2>2. i \in Int /\ Len(l) \in Int
    BY <1>0
  <2>3. /\ back \in Seq(S)
        /\ Len(back) = IF i <= Len(l) THEN Len(l) - i + 1 ELSE 0
        /\ \A j \in 1 .. Len(l) - i + 1 : back[j] = l[i + j - 1]
    BY <2>1, <2>2, SubSeqProperties
  <2>4. QED
    BY <2>3, <1>0
<1>3. /\ front \o <<n>> \in Seq(S) /\ Len(front \o <<n>>) = i
      /\ \A j \in 1 .. i - 1 : (front \o <<n>>)[j] = l[j]
      /\ (front \o <<n>>)[i] = n
  <2> HIDE DEF front
  <2>1. <<n>> \in Seq(S) /\ Len(<<n>>) = 1 /\ <<n>>[1] = n
    OBVIOUS
  <2>2. /\ front \o <<n>> \in Seq(S)
        /\ Len(front \o <<n>>) = Len(front) + 1
        /\ \A j \in 1 .. Len(front) + 1 : (front \o <<n>>)[j] =
             IF j <= Len(front) THEN front[j] ELSE <<n>>[j - Len(front)]
    BY <1>1, <2>1, ConcatProperties
  <2>3. QED
    BY <1>0, <1>1, <2>1, <2>2
<1>4. /\ m \in Seq(S) /\ Len(m) = Len(l) + 1
      /\ \A j \in 1 .. Len(l) + 1 :
           m[j] = IF j < i THEN l[j] ELSE IF j = i THEN n ELSE l[j - 1]
  <2> DEFINE fn == front \o <<n>>
  <2>1. fn \in Seq(S) /\ Len(fn) = i
        /\ (\A j \in 1 .. i - 1 : fn[j] = l[j]) /\ fn[i] = n
    BY <1>3
  <2> HIDE DEF fn, back
  <2>2. /\ fn \o back \in Seq(S)
        /\ Len(fn \o back) = Len(fn) + Len(back)
        /\ \A j \in 1 .. Len(fn) + Len(back) : (fn \o back)[j] =
             IF j <= Len(fn) THEN fn[j] ELSE back[j - Len(fn)]
    BY <1>2, <2>1, ConcatProperties
  <2>3. /\ Len(fn \o back) = Len(l) + 1
        /\ \A j \in 1 .. Len(l) + 1 : (fn \o back)[j] =
             IF j < i THEN l[j] ELSE IF j = i THEN n ELSE l[j - 1]
    BY <1>0, <1>2, <2>1, <2>2
  <2>4. QED
    BY <2>2, <2>3 DEF fn
<1> HIDE DEF m
<1>5. DOMAIN m = 1 .. Len(l) + 1
  BY <1>4, LenProperties
<1>6. ToSet(m) = ToSet(l) \cup {n}
  <2>1. \A j \in 1 .. Len(l) + 1 : m[j] \in ToSet(l) \cup {n}
    <3> SUFFICES ASSUME NEW j \in 1 .. Len(l) + 1
                 PROVE  m[j] \in ToSet(l) \cup {n}
      OBVIOUS
    <3>1. CASE j < i
      <4>1. j \in 1 .. Len(l) /\ m[j] = l[j]
        BY <1>0, <1>4, <3>1
      <4>2. QED
        BY <4>1, NodesOfList
    <3>2. CASE j = i
      BY <1>4, <3>2
    <3>3. CASE j > i
      <4>1. j - 1 \in 1 .. Len(l) /\ m[j] = l[j - 1]
        BY <1>0, <1>4, <3>3
      <4>2. QED
        BY <4>1, NodesOfList
    <3>4. QED
      BY <1>0, <3>1, <3>2, <3>3
  <2>2. \A j \in 1 .. Len(l) : l[j] = m[IF j < i THEN j ELSE j + 1]
    BY <1>0, <1>4
  <2>3. n = m[i]
    BY <1>0, <1>4
  <2>4. \A j \in 1 .. Len(l) : l[j] \in ToSet(m)
    BY <1>0, <1>5, <2>2 DEF ToSet
  <2>5. n \in ToSet(m)
    BY <1>0, <1>5, <2>3 DEF ToSet
  <2>6. ToSet(m) \subseteq ToSet(l) \cup {n}
    BY <1>5, <2>1 DEF ToSet
  <2>7. ToSet(l) \subseteq ToSet(m)
    BY <1>0, <2>4 DEF ToSet
  <2>8. QED
    BY <2>5, <2>6, <2>7
<1>7. ASSUME NoRepeat(l), n \notin ToSet(l)
      PROVE  NoRepeat(m)
  <2>1. \A j \in 1 .. Len(l) : l[j] # n
    BY <1>0, <1>7 DEF ToSet
  <2> DEFINE old(j) == IF j < i THEN j ELSE j - 1
  <2>2. \A j \in 1 .. Len(l) + 1 : j # i =>
          /\ old(j) \in 1 .. Len(l)
          /\ m[j] = l[old(j)]
    BY <1>0, <1>4
  <2>3. \A p, q \in 1 .. Len(l) : l[p] = l[q] => p = q
    BY <1>0, <1>7 DEF NoRepeat
  <2>4. \A p, q \in 1 .. Len(l) + 1 :
          p # i /\ q # i /\ old(p) = old(q) => p = q
    BY <1>0
  <2> HIDE DEF old
  <2>5. \A p, q \in 1 .. Len(l) + 1 : m[p] = m[q] => p = q
    BY <1>0, <1>4, <2>1, <2>2, <2>3, <2>4
  <2>6. QED
    BY <1>5, <2>5 DEF NoRepeat
<1>8. QED
  BY <1>4, <1>6, <1>7 DEF InsertBeforeNode, InsertAt, m

LEMMA InsertPlaces ==
  ASSUME NEW S, NEW l \in Seq(S), NEW n \in S, NEW i \in 1 .. Len(l) + 1,
         NEW j \in 1 .. Len(l) + 1
  PROVE  InsertBeforeNode(l, i, n)[j] = IF j < i THEN l[j]
                                        ELSE IF j = i THEN n ELSE l[j - 1]
BY InsertInFront

\* rt_list_insert_after(head, n) of a node that is not linked there.
LEMMA InsertFirst ==
  ASSUME NEW S, NEW l \in Seq(S), NEW n \in S
  PROVE  LET m == rt_list_insert_after(l, n)
         IN  /\ m \in Seq(S) /\ Len(m) = Len(l) + 1
             /\ ToSet(m) = ToSet(l) \cup {n}
             /\ NoRepeat(l) /\ n \notin ToSet(l) => NoRepeat(m)
<1> DEFINE m == <<n>> \o l
<1>1. <<n>> \in Seq(S) /\ Len(<<n>>) = 1 /\ <<n>>[1] = n
  OBVIOUS
<1>2. DOMAIN l = 1 .. Len(l) /\ Len(l) \in Nat
  BY LenProperties
<1>3. /\ m \in Seq(S) /\ Len(m) = 1 + Len(l)
      /\ \A j \in 1 .. 1 + Len(l) : m[j] = IF j <= 1 THEN <<n>>[j] ELSE l[j - 1]
  BY <1>1, ConcatProperties
<1>4. DOMAIN m = 1 .. Len(l) + 1
  BY <1>2, <1>3, LenProperties
<1> HIDE DEF m
<1>5. m[1] = n /\ \A j \in 2 .. Len(l) + 1 : m[j] = l[j - 1]
  BY <1>1, <1>2, <1>3
<1>6. ToSet(m) = ToSet(l) \cup {n}
  <2>1. \A j \in 1 .. Len(l) + 1 : m[j] \in ToSet(l) \cup {n}
    <3> SUFFICES ASSUME NEW j \in 1 .. Len(l) + 1, j # 1
                 PROVE  m[j] \in ToSet(l)
      BY <1>5
    <3>1. j - 1 \in 1 .. Len(l) /\ m[j] = l[j - 1]
      BY <1>2, <1>5
    <3>2. QED
      BY <3>1, NodesOfList
  <2>2. \A j \in 1 .. Len(l) : j + 1 \in 1 .. Len(l) + 1 /\ l[j] = m[j + 1]
    BY <1>2, <1>5
  <2>3. ToSet(m) \subseteq ToSet(l) \cup {n}
    BY <1>4, <2>1 DEF ToSet
  <2>4. ToSet(l) \subseteq ToSet(m)
    BY <1>2, <1>4, <2>2 DEF ToSet
  <2>5. n \in ToSet(m)
    BY <1>2, <1>4, <1>5 DEF ToSet
  <2>6. QED
    BY <2>3, <2>4, <2>5
<1>7. ASSUME NoRepeat(l), n \notin ToSet(l)
      PROVE  NoRepeat(m)
  <2>1. \A j \in 1 .. Len(l) : l[j] # n
    BY <1>2, <1>7 DEF ToSet
  <2>2. \A p, q \in 1 .. Len(l) : l[p] = l[q] => p = q
    BY <1>2, <1>7 DEF NoRepeat
  <2>3. \A p \in 1 .. Len(l) + 1 : p # 1 =>
          p - 1 \in 1 .. Len(l) /\ m[p] = l[p - 1]
    BY <1>2, <1>5
  <2>4. \A p, q \in 1 .. Len(l) + 1 : m[p] = m[q] => p = q
    BY <1>2, <1>5, <2>1, <2>2, <2>3
  <2>5. QED
    BY <1>4, <2>4 DEF NoRepeat
<1>8. QED
  BY <1>3, <1>6, <1>7 DEF rt_list_insert_after, Cons, m

\* rt_list_remove(n), as seen by a list in which n occurs at most once: the
\* others keep their order.
LEMMA RemoveNode ==
  ASSUME NEW S, NEW l \in Seq(S), NEW n, NoRepeat(l)
  PROVE  LET m == rt_list_remove(l, n)
         IN  /\ m \in Seq(S)
             /\ ToSet(m) = ToSet(l) \ {n}
             /\ NoRepeat(m)
             /\ \A i, j \in 1 .. Len(m) : i <= j =>
                  \E a, b \in 1 .. Len(l) : a <= b /\ m[i] = l[a] /\ m[j] = l[b]
<1>1. CASE n \notin ToSet(l)
  BY <1>1 DEF rt_list_remove
<1>2. CASE n \in ToSet(l)
  <2> DEFINE i     == Position(l, n)
             front == SubSeq(l, 1, i - 1)
             back  == SubSeq(l, i + 1, Len(l))
             m     == front \o back
  <2>0. /\ DOMAIN l = 1 .. Len(l) /\ Len(l) \in Nat
        /\ \A j \in 1 .. Len(l) : l[j] \in S
    BY LenProperties, ElementOfSeq
  <2>1. i \in 1 .. Len(l) /\ l[i] = n
    BY <1>2, <2>0 DEF Position, ToSet
  <2> HIDE DEF i
  <2>2. /\ front \in Seq(S) /\ Len(front) = i - 1
        /\ \A j \in 1 .. i - 1 : front[j] = l[j]
    <3>1. \A j \in 1 .. i - 1 : l[j] \in S
      BY <2>0, <2>1
    <3>2. 1 \in Int /\ i - 1 \in Int
      BY <2>0, <2>1
    <3>3. /\ front \in Seq(S)
          /\ Len(front) = IF 1 <= i - 1 THEN (i - 1) - 1 + 1 ELSE 0
          /\ \A j \in 1 .. (i - 1) - 1 + 1 : front[j] = l[1 + j - 1]
      BY <3>1, <3>2, SubSeqProperties
    <3>4. QED
      BY <3>3, <2>0, <2>1
  <2>3. /\ back \in Seq(S) /\ Len(back) = Len(l) - i
        /\ \A j \in 1 .. Len(l) - i : back[j] = l[i + j]
    <3>1. \A j \in i + 1 .. Len(l) : l[j] \in S
      BY <2>0, <2>1
    <3>2. i + 1 \in Int /\ Len(l) \in Int
      BY <2>0, <2>1
    <3>3. /\ back \in Seq(S)
          /\ Len(back) = IF i + 1 <= Len(l) THEN Len(l) - (i + 1) + 1 ELSE 0
          /\ \A j \in 1 .. Len(l) - (i + 1) + 1 : back[j] = l[(i + 1) + j - 1]
      BY <3>1, <3>2, SubSeqProperties
    <3>4. QED
      BY <3>3, <2>0, <2>1
  <2>4. /\ m \in Seq(S) /\ Len(m) = Len(l) - 1
        /\ \A j \in 1 .. Len(l) - 1 : m[j] = IF j < i THEN l[j] ELSE l[j + 1]
    <3> HIDE DEF front, back
    <3>1. /\ m \in Seq(S)
          /\ Len(m) = Len(front) + Len(back)
          /\ \A j \in 1 .. Len(front) + Len(back) : m[j] =
               IF j <= Len(front) THEN front[j] ELSE back[j - Len(front)]
      BY <2>2, <2>3, ConcatProperties
    <3>2. \A j \in 1 .. Len(l) - 1 : j < i => m[j] = l[j]
      BY <2>0, <2>1, <2>2, <2>3, <3>1
    <3>3. \A j \in 1 .. Len(l) - 1 : j >= i =>
            /\ j - (i - 1) \in 1 .. Len(l) - i
            /\ m[j] = back[j - (i - 1)]
      BY <2>0, <2>1, <2>2, <2>3, <3>1
    <3>4. \A j \in 1 .. Len(l) - 1 : j >= i => m[j] = l[j + 1]
      <4> SUFFICES ASSUME NEW j \in 1 .. Len(l) - 1, j >= i
                   PROVE  m[j] = l[j + 1]
        OBVIOUS
      <4>1. i + (j - (i - 1)) = j + 1
        BY <2>0, <2>1
      <4>2. m[j] = l[i + (j - (i - 1))]
        BY <2>3, <3>3
      <4>3. QED
        BY <4>1, <4>2
    <3>5. Len(front) + Len(back) = Len(l) - 1
      BY <2>0, <2>1, <2>2, <2>3
    <3>6. \A j \in 1 .. Len(l) - 1 : j < i \/ j >= i
      BY <2>0, <2>1
    <3> HIDE DEF m
    <3>7. QED
      BY <3>1, <3>2, <3>4, <3>5, <3>6
  <2> HIDE DEF m
  <2>5. DOMAIN m = 1 .. Len(l) - 1
    BY <2>4, LenProperties
  <2>6. \A j \in 1 .. Len(l) : j # i => l[j] # n
    BY <1>2, <2>0, <2>1 DEF NoRepeat
  <2>7. ToSet(m) = ToSet(l) \ {n}
    <3>1. \A j \in 1 .. Len(l) - 1 : m[j] \in ToSet(l) \ {n}
      <4> SUFFICES ASSUME NEW j \in 1 .. Len(l) - 1
                   PROVE  m[j] \in ToSet(l) \ {n}
        OBVIOUS
      <4>1. CASE j < i
        <5>1. m[j] = l[j] /\ j \in 1 .. Len(l) /\ j # i
          BY <4>1, <2>0, <2>1, <2>4
        <5>2. QED
          BY <5>1, <2>0, <2>6 DEF ToSet
      <4>2. CASE ~ j < i
        <5>1. m[j] = l[j + 1] /\ j + 1 \in 1 .. Len(l) /\ j + 1 # i
          BY <4>2, <2>0, <2>1, <2>4
        <5>2. QED
          BY <5>1, <2>0, <2>6 DEF ToSet
      <4>3. QED
        BY <4>1, <4>2
    <3>2. \A j \in 1 .. Len(l) : j # i =>
            /\ (IF j < i THEN j ELSE j - 1) \in 1 .. Len(l) - 1
            /\ l[j] = m[IF j < i THEN j ELSE j - 1]
      BY <2>0, <2>1, <2>4
    <3>3. ToSet(m) \subseteq ToSet(l) \ {n}
      BY <2>5, <3>1 DEF ToSet
    <3>4. \A j \in 1 .. Len(l) : j # i => l[j] \in ToSet(m)
      BY <2>5, <3>2 DEF ToSet
    <3>5. ToSet(l) \ {n} \subseteq ToSet(m)
      BY <2>0, <2>1, <3>4 DEF ToSet
    <3>6. QED
      BY <3>3, <3>5
  <2>8. NoRepeat(m)
    <3> DEFINE at(j) == IF j < i THEN j ELSE j + 1
    <3>1. \A j \in 1 .. Len(l) - 1 : at(j) \in 1 .. Len(l) /\ m[j] = l[at(j)]
      BY <2>0, <2>1, <2>4
    <3>2. \A j1, j2 \in 1 .. Len(l) - 1 : at(j1) = at(j2) => j1 = j2
      BY <2>0, <2>1
    <3> HIDE DEF at
    <3>3. QED
      BY <2>0, <2>5, <3>1, <3>2 DEF NoRepeat
  <2>9. \A j1, j2 \in 1 .. Len(m) : j1 <= j2 =>
          \E a, b \in 1 .. Len(l) : a <= b /\ m[j1] = l[a] /\ m[j2] = l[b]
    <3> DEFINE at(j) == IF j < i THEN j ELSE j + 1
    <3>1. \A j \in 1 .. Len(l) - 1 : at(j) \in 1 .. Len(l) /\ m[j] = l[at(j)]
      BY <2>0, <2>1, <2>4
    <3>2. \A j1, j2 \in 1 .. Len(l) - 1 : j1 <= j2 => at(j1) <= at(j2)
      BY <2>0, <2>1
    <3> HIDE DEF at
    <3>3. QED
      BY <2>4, <3>1, <3>2
  <2>10. QED
    BY <1>2, <2>4, <2>7, <2>8, <2>9 DEF rt_list_remove, RemoveAt, m, i
<1>3. QED
  BY <1>1, <1>2

\* The first element of a list and the rest of it.
LEMMA FirstAndRest ==
  ASSUME NEW S, NEW l \in Seq(S), Len(l) > 0, NoRepeat(l)
  PROVE  /\ Head(l) \in ToSet(l) /\ Head(l) \in S
         /\ Tail(l) \in Seq(S) /\ NoRepeat(Tail(l))
         /\ Len(Tail(l)) = Len(l) - 1
         /\ ToSet(Tail(l)) = ToSet(l) \ {Head(l)}
<1>1. l # << >> /\ Len(l) \in Nat \ {0} /\ DOMAIN l = 1 .. Len(l)
  BY EmptySeq, LenProperties
<1>2. /\ Head(l) = l[1] /\ Head(l) \in S
      /\ Tail(l) \in Seq(S) /\ Len(Tail(l)) = Len(l) - 1
      /\ \A i \in 1 .. Len(Tail(l)) : Tail(l)[i] = l[i + 1]
  BY <1>1, HeadTailProperties, ElementOfSeq
<1> DEFINE r == Tail(l)
<1>3. DOMAIN r = 1 .. Len(l) - 1
  BY <1>2, LenProperties
<1> HIDE DEF r
<1>4. NoRepeat(r)
  BY <1>1, <1>2, <1>3 DEF NoRepeat, r
<1>5. ASSUME NEW x
      PROVE  x \in ToSet(r) <=> x \in ToSet(l) /\ x # l[1]
  <2>1. ASSUME NEW i \in 1 .. Len(l) - 1
        PROVE  r[i] \in ToSet(l) /\ r[i] # l[1]
    BY <1>1, <1>2, <1>3, <2>1 DEF NoRepeat, ToSet, r
  <2>2. ASSUME NEW i \in 1 .. Len(l), l[i] # l[1]
        PROVE  l[i] \in ToSet(r)
    <3>1. i - 1 \in 1 .. Len(l) - 1
      BY <1>1, <2>2
    <3>2. r[i - 1] = l[i]
      BY <1>1, <1>2, <3>1 DEF r
    <3>3. QED
      BY <1>3, <3>1, <3>2 DEF ToSet
  <2>3. QED
    BY <1>1, <1>3, <2>1, <2>2 DEF ToSet
<1>6. l[1] \in ToSet(l)
  BY <1>1 DEF ToSet
<1>7. QED
  BY <1>2, <1>4, <1>5, <1>6 DEF r

\* A list without repetitions is as long as it has elements.
LEMMA LengthIsCardinality ==
  ASSUME NEW S, NEW l \in Seq(S), NoRepeat(l)
  PROVE  IsFiniteSet(ToSet(l)) /\ Cardinality(ToSet(l)) = Len(l)
<1> DEFINE T == ToSet(l)
           D == 1 .. Len(l)
<1>1. DOMAIN l = D /\ Len(l) \in Nat /\ l \in [D -> T]
  BY LenProperties DEF ToSet
<1>2. l \in Surjection(D, T) /\ l \in Injection(D, T)
  BY <1>1 DEF Surjection, Injection, IsInjective, NoRepeat, ToSet
<1>3. IsFiniteSet(D) /\ Cardinality(D) = Len(l)
  BY <1>1, FS_Interval
<1>4. QED
  BY <1>2, <1>3, FS_Surjection

-----------------------------------------------------------------------------
(* The kernel record *)

Nodes(kk, h) == ToSet(kk.list[h])

NoRepeats(kk) == \A h \in ListHead : NoRepeat(kk.list[h])

(***************************************************************************)
(* The invariant.  off are the threads that rt_thread_delete has taken off *)
(* their list and not closed yet.                                          *)
(***************************************************************************)
Disjoint(kk) ==
  \A g, h \in ListHead : g # h => Nodes(kk, g) \cap Nodes(kk, h) = {}

ReadyAreListed(kk, off) ==
  \A t \in Thread, p \in Prio :
    t \in Nodes(kk, p) <=> /\ kk.stat[t] = "ready"
                           /\ kk.current_priority[t] = p
                           /\ t \notin off

GroupIsExact(kk) == kk.ready_group = {p \in Prio : Nodes(kk, p) # {}}

MaskIsPriority(kk) ==
  \A t \in Thread :
    kk.stat[t] # "init" => kk.number_mask[t] = {kk.current_priority[t]}

WaitersSuspended(kk) ==
  \A t \in Thread :
    /\ \A h \in Queue : t \in Nodes(kk, h) => kk.stat[t] = "suspend"
    /\ t \in Nodes(kk, Defunct) => kk.stat[t] = "close"
    /\ kk.timer[t] => kk.stat[t] = "suspend"

KernelInv(kk, off) ==
  /\ kk \in KernelType
  /\ NoRepeats(kk)
  /\ Disjoint(kk)
  /\ ReadyAreListed(kk, off)
  /\ GroupIsExact(kk)
  /\ MaskIsPriority(kk)
  /\ WaitersSuspended(kk)
  /\ kk.stat[Idle] = "ready" /\ Idle \notin off

(***************************************************************************)
(* What a step may do to the record: kk before it, u after it.             *)
(***************************************************************************)
SameNodes(kk, u) == \A h \in ListHead : Nodes(u, h) = Nodes(kk, h)

SamePriorities(kk, u) == /\ u.current_priority = kk.current_priority
                         /\ u.number_mask = kk.number_mask

\* t has left every list.
TakenOff(kk, u, t) ==
  \A h \in ListHead : Nodes(u, h) = Nodes(kk, h) \ {t}

\* t has moved to the ready list of its priority.
MadeReady(kk, u, t) ==
  \A h \in ListHead : Nodes(u, h) = IF h = kk.current_priority[t]
                                    THEN Nodes(kk, h) \cup {t}
                                    ELSE Nodes(kk, h) \ {t}

Suspended(kk, u, t) ==
  /\ TakenOff(kk, u, t)
  /\ u.stat = [kk.stat EXCEPT ![t] = "suspend"]
  /\ u.timer = [kk.timer EXCEPT ![t] = FALSE]
  /\ SamePriorities(kk, u)
  /\ u.error = kk.error /\ u.lock_nest = kk.lock_nest
  /\ u.current_thread = kk.current_thread

HasResumed(kk, u, t) ==
  /\ MadeReady(kk, u, t)
  /\ u.stat = [kk.stat EXCEPT ![t] = "ready"]
  /\ u.timer = [kk.timer EXCEPT ![t] = FALSE]
  /\ SamePriorities(kk, u)
  /\ u.error = kk.error /\ u.lock_nest = kk.lock_nest
  /\ u.current_thread = kk.current_thread

\* t has another priority and nothing else has changed, but for the lists.
Reprioritized(kk, u, t, p) ==
  /\ u.current_priority = [kk.current_priority EXCEPT ![t] = p]
  /\ u.stat = kk.stat /\ u.timer = kk.timer /\ u.error = kk.error
  /\ u.lock_nest = kk.lock_nest /\ u.current_thread = kk.current_thread

\* At most another thread has got the CPU.
Switched(kk, u) ==
  /\ SameNodes(kk, u) /\ u.list = kk.list
  /\ u.stat = kk.stat /\ u.timer = kk.timer /\ u.error = kk.error
  /\ SamePriorities(kk, u) /\ u.lock_nest = kk.lock_nest
  /\ u.ready_group = kk.ready_group
  /\ u.current_thread \in Thread \cup {kk.current_thread}

-----------------------------------------------------------------------------
(* One list operation *)

\* Unlink takes a thread out of every list and changes nothing else.
LEMMA UnlinkEffect ==
  ASSUME NEW kk \in KernelType, NoRepeats(kk), NEW t \in Thread
  PROVE  LET u == Unlink(kk, t)
         IN  /\ u \in KernelType /\ NoRepeats(u)
             /\ u = [kk EXCEPT !.list = u.list]
             /\ \A h \in ListHead : Nodes(u, h) = Nodes(kk, h) \ {t}
<1> DEFINE new == [h \in ListHead |-> rt_list_remove(kk.list[h], t)]
           u   == [kk EXCEPT !.list = new]
<1>1. \A h \in ListHead : kk.list[h] \in Seq(Thread) /\ NoRepeat(kk.list[h])
  BY DEF KernelType, NoRepeats
<1>2. \A h \in ListHead :
        /\ new[h] \in Seq(Thread)
        /\ ToSet(new[h]) = ToSet(kk.list[h]) \ {t}
        /\ NoRepeat(new[h])
  BY <1>1, RemoveNode
<1>3. new \in [ListHead -> Seq(Thread)]
  BY <1>2
<1> HIDE DEF new
<1>4. u \in KernelType /\ u.list = new
  BY <1>3 DEF KernelType
<1>5. QED
  BY <1>2, <1>4 DEF Unlink, NoRepeats, Nodes, new

\* LinkLast adds a thread that the list does not hold.
LEMMA LinkLastEffect ==
  ASSUME NEW kk \in KernelType, NoRepeats(kk), NEW t \in Thread,
         NEW h \in ListHead, t \notin Nodes(kk, h)
  PROVE  LET u == LinkLast(kk, h, t)
         IN  /\ u \in KernelType /\ NoRepeats(u)
             /\ u = [kk EXCEPT !.list = u.list]
             /\ \A g \in ListHead :
                  Nodes(u, g) = IF g = h THEN Nodes(kk, g) \cup {t}
                                ELSE Nodes(kk, g)
<1> DEFINE l   == rt_list_insert_before(kk.list[h], t)
           new == [kk.list EXCEPT ![h] = l]
           u   == [kk EXCEPT !.list = new]
<1>1. \A g \in ListHead : kk.list[g] \in Seq(Thread) /\ NoRepeat(kk.list[g])
  BY DEF KernelType, NoRepeats
<1>2. /\ l \in Seq(Thread)
      /\ ToSet(l) = ToSet(kk.list[h]) \cup {t}
      /\ NoRepeat(l)
  BY <1>1, InsertLast DEF Nodes
<1> HIDE DEF l
<1>3. /\ kk.list \in [ListHead -> Seq(Thread)]
      /\ new \in [ListHead -> Seq(Thread)]
      /\ \A g \in ListHead : new[g] = IF g = h THEN l ELSE kk.list[g]
  BY <1>2 DEF KernelType
<1> HIDE DEF new
<1>4. u \in KernelType /\ u.list = new
  BY <1>3 DEF KernelType
<1>5. NoRepeats(u)
  BY <1>1, <1>2, <1>3, <1>4 DEF NoRepeats
<1>6. \A g \in ListHead :
        Nodes(u, g) = IF g = h THEN Nodes(kk, g) \cup {t} ELSE Nodes(kk, g)
  BY <1>2, <1>3, <1>4 DEF Nodes
<1>7. u = LinkLast(kk, h, t)
  BY DEF LinkLast, KernelType, l, new
<1>8. QED
  BY <1>4, <1>5, <1>6, <1>7

\* LinkFirst likewise.
LEMMA LinkFirstEffect ==
  ASSUME NEW kk \in KernelType, NoRepeats(kk), NEW t \in Thread,
         NEW h \in ListHead, t \notin Nodes(kk, h)
  PROVE  LET u == LinkFirst(kk, h, t)
         IN  /\ u \in KernelType /\ NoRepeats(u)
             /\ u = [kk EXCEPT !.list = u.list]
             /\ \A g \in ListHead :
                  Nodes(u, g) = IF g = h THEN Nodes(kk, g) \cup {t}
                                ELSE Nodes(kk, g)
<1> DEFINE l   == rt_list_insert_after(kk.list[h], t)
           new == [kk.list EXCEPT ![h] = l]
           u   == [kk EXCEPT !.list = new]
<1>1. \A g \in ListHead : kk.list[g] \in Seq(Thread) /\ NoRepeat(kk.list[g])
  BY DEF KernelType, NoRepeats
<1>2. /\ l \in Seq(Thread)
      /\ ToSet(l) = ToSet(kk.list[h]) \cup {t}
      /\ NoRepeat(l)
  BY <1>1, InsertFirst DEF Nodes
<1> HIDE DEF l
<1>3. /\ kk.list \in [ListHead -> Seq(Thread)]
      /\ new \in [ListHead -> Seq(Thread)]
      /\ \A g \in ListHead : new[g] = IF g = h THEN l ELSE kk.list[g]
  BY <1>2 DEF KernelType
<1> HIDE DEF new
<1>4. u \in KernelType /\ u.list = new
  BY <1>3 DEF KernelType
<1>5. NoRepeats(u)
  BY <1>1, <1>2, <1>3, <1>4 DEF NoRepeats
<1>6. \A g \in ListHead :
        Nodes(u, g) = IF g = h THEN Nodes(kk, g) \cup {t} ELSE Nodes(kk, g)
  BY <1>2, <1>3, <1>4 DEF Nodes
<1>7. u = LinkFirst(kk, h, t)
  BY DEF LinkFirst, KernelType, l, new
<1>8. QED
  BY <1>4, <1>5, <1>6, <1>7

\* rt_list_isempty and rt_list_entry, through the nodes of the list.
LEMMA FirstThreadEffect ==
  ASSUME NEW kk \in KernelType, NEW h \in ListHead
  PROVE  /\ rt_list_isempty(kk.list[h]) <=> Nodes(kk, h) = {}
         /\ Nodes(kk, h) \subseteq Thread
         /\ Nodes(kk, h) = {} => FirstThread(kk, h) = Wild
         /\ Nodes(kk, h) # {} => FirstThread(kk, h) \in Nodes(kk, h)
<1>1. kk.list[h] \in Seq(Thread)
  BY DEF KernelType
<1>2. QED
  BY <1>1, EmptyList, NodesOfList DEF FirstThread, rt_list_isempty, Nodes

-----------------------------------------------------------------------------
(* The scheduler *)

\* A non-empty set of natural numbers has a minimum.
LEMMA NaturalMinimum ==
  ASSUME NEW G, G \subseteq Nat, G # {}
  PROVE  \E p \in G : \A q \in G : p <= q
<1> DEFINE Less == {ss \in Nat \X Nat : ss[1] < ss[2]}
<1>1. IsWellFoundedOn(Less, Nat)
  BY NatLessThanWellFounded, Zenon DEF OpToRel
<1> HIDE DEF Less
<1>2. PICK p \in G : \A q \in G : ~(<<q, p>> \in Less)
  BY <1>1, WFMin
<1>3. ASSUME NEW q \in G
      PROVE  p <= q
  <2>1. p \in Nat /\ q \in Nat
    OBVIOUS
  <2>2. <<q, p>> \in Nat \X Nat /\ <<q, p>>[1] = q /\ <<q, p>>[2] = p
    BY <2>1
  <2>3. ~(q < p)
    BY <1>2, <2>2 DEF Less
  <2>4. QED
    BY <2>1, <2>3
<1>4. QED
  BY <1>3

\* The lowest bit that __rt_ffs finds: a non-empty group has one.
LEMMA LowestPriority ==
  ASSUME NEW G, G \subseteq Prio, G # {}
  PROVE  \E p \in G : \A q \in G : p <= q
<1>1. G \subseteq Nat
  BY PriorityMaxIsPositive DEF Prio
<1>2. QED
  BY <1>1, NaturalMinimum

\* rt_schedule gives the CPU to a ready thread of the highest priority.
LEMMA ScheduleSelects ==
  ASSUME NEW kk, NEW off, KernelInv(kk, off)
  PROVE  /\ HighestReady(kk) \in Thread
         /\ kk.stat[HighestReady(kk)] = "ready" /\ HighestReady(kk) \notin off
         /\ kk.current_priority[HighestReady(kk)] \in kk.ready_group
         /\ \A p \in kk.ready_group :
              kk.current_priority[HighestReady(kk)] <= p
         /\ HighestReady(kk) =
              FirstThread(kk, kk.current_priority[HighestReady(kk)])
<1>1. kk \in KernelType /\ ReadyAreListed(kk, off) /\ GroupIsExact(kk)
      /\ kk.stat[Idle] = "ready" /\ Idle \notin off
  BY DEF KernelInv
<1>2. kk.current_priority[Idle] \in Prio /\ Idle \in Thread
  BY <1>1, IdleIsLowestThread DEF KernelType
<1>3. kk.ready_group # {} /\ kk.ready_group \subseteq Prio
  BY <1>1, <1>2 DEF ReadyAreListed, GroupIsExact
<1> DEFINE top == CHOOSE p \in kk.ready_group : \A q \in kk.ready_group : p <= q
<1>4. top \in kk.ready_group /\ \A q \in kk.ready_group : top <= q
  BY <1>3, LowestPriority
<1> HIDE DEF top
<1>5. top \in Prio /\ top \in ListHead /\ Nodes(kk, top) # {}
  BY <1>1, <1>3, <1>4 DEF GroupIsExact, ListHead
<1>6. FirstThread(kk, top) \in Nodes(kk, top) /\ Nodes(kk, top) \subseteq Thread
  BY <1>1, <1>5, FirstThreadEffect
<1>7. /\ kk.stat[FirstThread(kk, top)] = "ready"
      /\ FirstThread(kk, top) \notin off
      /\ kk.current_priority[FirstThread(kk, top)] = top
  BY <1>1, <1>5, <1>6 DEF ReadyAreListed
<1>8. HighestReady(kk) = FirstThread(kk, top)
  BY <1>3 DEF HighestReady, top
<1>9. QED
  BY <1>4, <1>6, <1>7, <1>8

LEMMA ScheduleKeepsInv ==
  ASSUME NEW kk, NEW off, KernelInv(kk, off)
  PROVE  /\ KernelInv(rt_schedule(kk), off)
         /\ Switched(kk, rt_schedule(kk))
<1> DEFINE new == HighestReady(kk)
           u   == [kk EXCEPT !.current_thread = new]
<1>1. kk \in KernelType
  BY DEF KernelInv
<1>2. new \in Thread
  BY ScheduleSelects
<1> HIDE DEF new
<1>3. /\ u \in KernelType /\ u.list = kk.list /\ u.stat = kk.stat
      /\ u.current_priority = kk.current_priority /\ u.timer = kk.timer
      /\ u.number_mask = kk.number_mask /\ u.ready_group = kk.ready_group
      /\ u.error = kk.error /\ u.lock_nest = kk.lock_nest
      /\ u.current_thread = new
  BY <1>1, <1>2 DEF KernelType
<1>4. \A h : Nodes(u, h) = Nodes(kk, h)
  BY <1>3 DEF Nodes
<1>5. KernelInv(u, off)
  BY <1>3, <1>4 DEF KernelInv, NoRepeats, Disjoint, ReadyAreListed,
       GroupIsExact, MaskIsPriority, WaitersSuspended
<1>6. Switched(kk, u) /\ Switched(kk, kk)
  BY <1>2, <1>3, <1>4 DEF Switched, SameNodes, SamePriorities
<1>7. rt_schedule(kk) = u \/ rt_schedule(kk) = kk
  BY DEF rt_schedule, new
<1>8. QED
  BY <1>5, <1>6, <1>7

\* rt_schedule_remove_thread clears the bit exactly when the list gets empty.
LEMMA RemoveThreadEffect ==
  ASSUME NEW kk \in KernelType, NEW t \in Thread,
         NoRepeats(kk), GroupIsExact(kk),
         kk.number_mask[t] = {kk.current_priority[t]},
         \A p \in Prio : t \in Nodes(kk, p) => p = kk.current_priority[t]
  PROVE  LET u == rt_schedule_remove_thread(kk, t)
         IN  /\ u \in KernelType /\ NoRepeats(u) /\ GroupIsExact(u)
             /\ u = [kk EXCEPT !.list = u.list, !.ready_group = u.ready_group]
             /\ \A h \in ListHead : Nodes(u, h) = Nodes(kk, h) \ {t}
<1> DEFINE v == Unlink(kk, t)
           p == kk.current_priority[t]
           u == rt_schedule_remove_thread(kk, t)
           w == [v EXCEPT !.ready_group = @ \ {p}]
<1>1. /\ v \in KernelType /\ NoRepeats(v)
      /\ v = [kk EXCEPT !.list = v.list]
      /\ \A h \in ListHead : Nodes(v, h) = Nodes(kk, h) \ {t}
  BY UnlinkEffect
<1>2. p \in Prio /\ p \in ListHead /\ kk.ready_group \subseteq Prio
      /\ Prio \subseteq ListHead
  BY DEF KernelType, ListHead
<1>3. rt_list_isempty(v.list[p]) <=> Nodes(v, p) = {}
  BY <1>1, <1>2, FirstThreadEffect
<1> HIDE DEF v
<1>4. /\ v.current_priority = kk.current_priority
      /\ v.number_mask = kk.number_mask
      /\ v.ready_group = kk.ready_group
  BY <1>1 DEF KernelType
<1>5. u = IF Nodes(v, p) = {} THEN w ELSE v
  BY <1>3, <1>4 DEF rt_schedule_remove_thread, v
<1>6. \A q \in Prio : q # p => Nodes(v, q) = Nodes(kk, q)
  BY <1>1, <1>2
<1>7. CASE Nodes(v, p) = {}
  <2>1. /\ w \in KernelType /\ w.list = v.list
        /\ w.ready_group = kk.ready_group \ {p}
    BY <1>1, <1>4 DEF KernelType
  <2>2. w = [kk EXCEPT !.list = w.list, !.ready_group = w.ready_group]
    BY <1>1, <2>1 DEF KernelType
  <2>3. NoRepeats(w) /\ \A h : Nodes(w, h) = Nodes(v, h)
    BY <1>1, <2>1 DEF NoRepeats, Nodes
  <2> HIDE DEF w
  <2>4. w.ready_group = {q \in Prio : Nodes(w, q) # {}}
    BY <1>2, <1>6, <1>7, <2>1, <2>3 DEF GroupIsExact
  <2>5. u = w
    BY <1>5, <1>7
  <2>6. GroupIsExact(w)
    BY <2>4 DEF GroupIsExact
  <2>7. \A h \in ListHead : Nodes(w, h) = Nodes(kk, h) \ {t}
    BY <1>1, <2>3
  <2>8. /\ w \in KernelType /\ NoRepeats(w) /\ GroupIsExact(w)
        /\ w = [kk EXCEPT !.list = w.list, !.ready_group = w.ready_group]
        /\ \A h \in ListHead : Nodes(w, h) = Nodes(kk, h) \ {t}
    BY <2>1, <2>2, <2>3, <2>6, <2>7
  <2>9. QED
    BY <2>5, <2>8
<1>8. CASE Nodes(v, p) # {}
  <2>1. v = [kk EXCEPT !.list = v.list, !.ready_group = v.ready_group]
    BY <1>1, <1>4 DEF KernelType
  <2>2. Nodes(kk, p) # {}
    BY <1>1, <1>2, <1>8
  <2>3. v.ready_group = {q \in Prio : Nodes(v, q) # {}}
    BY <1>2, <1>4, <1>6, <1>8, <2>2 DEF GroupIsExact
  <2>4. QED
    BY <1>1, <1>5, <1>8, <2>1, <2>3 DEF GroupIsExact
<1>9. QED
  BY <1>7, <1>8

\* rt_schedule_insert_thread sets the bit of the list it fills.
LEMMA InsertThreadEffect ==
  ASSUME NEW kk \in KernelType, NEW t \in Thread,
         NoRepeats(kk), GroupIsExact(kk),
         kk.number_mask[t] = {kk.current_priority[t]},
         t \notin Nodes(kk, kk.current_priority[t])
  PROVE  LET u == rt_schedule_insert_thread(kk, t)
         IN  /\ u \in KernelType /\ NoRepeats(u) /\ GroupIsExact(u)
             /\ u = [kk EXCEPT !.list = u.list, !.ready_group = u.ready_group,
                               !.stat = [kk.stat EXCEPT ![t] = "ready"]]
             /\ \A h \in ListHead :
                  Nodes(u, h) = IF h = kk.current_priority[t]
                                THEN Nodes(kk, h) \cup {t} ELSE Nodes(kk, h)
<1> DEFINE p == kk.current_priority[t]
           v == LinkLast(kk, p, t)
           u == [v EXCEPT !.stat[t] = "ready", !.ready_group = @ \cup {p}]
<1>1. p \in Prio /\ p \in ListHead /\ kk.ready_group \subseteq Prio
      /\ Prio \subseteq ListHead
  BY DEF KernelType, ListHead
<1>2. /\ v \in KernelType /\ NoRepeats(v)
      /\ v = [kk EXCEPT !.list = v.list]
      /\ \A g \in ListHead :
           Nodes(v, g) = IF g = p THEN Nodes(kk, g) \cup {t} ELSE Nodes(kk, g)
  BY <1>1, LinkLastEffect
<1> HIDE DEF v
<1>3. /\ v.stat = kk.stat /\ v.ready_group = kk.ready_group
      /\ v.number_mask = kk.number_mask
  BY <1>2 DEF KernelType
<1>4. /\ u \in KernelType /\ u.list = v.list
      /\ u.ready_group = kk.ready_group \cup {p}
      /\ u.stat = [kk.stat EXCEPT ![t] = "ready"]
  BY <1>1, <1>2, <1>3 DEF KernelType, Stat
<1>5. u = [kk EXCEPT !.list = u.list, !.ready_group = u.ready_group,
                     !.stat = [kk.stat EXCEPT ![t] = "ready"]]
  BY <1>2, <1>4 DEF KernelType
<1>6. u = rt_schedule_insert_thread(kk, t)
  BY DEF rt_schedule_insert_thread, v
<1> HIDE DEF u
<1>7. NoRepeats(u) /\ \A h : Nodes(u, h) = Nodes(v, h)
  BY <1>2, <1>4 DEF NoRepeats, Nodes
<1>8. u.ready_group = {q \in Prio : Nodes(u, q) # {}}
  <2>1. \A q \in Prio : q # p => Nodes(u, q) = Nodes(kk, q)
    BY <1>1, <1>2, <1>7
  <2>2. Nodes(u, p) # {}
    BY <1>1, <1>2, <1>7
  <2>3. QED
    BY <1>1, <1>4, <2>1, <2>2 DEF GroupIsExact
<1>9. QED
  BY <1>2, <1>4, <1>5, <1>6, <1>7, <1>8 DEF GroupIsExact

\* A thread is in the ready list of its own priority or in none.
LEMMA OwnReadyList ==
  ASSUME NEW kk, NEW off, KernelInv(kk, off), NEW t \in Thread
  PROVE  /\ \A p \in Prio : t \in Nodes(kk, p) => p = kk.current_priority[t]
         /\ kk.stat[t] # "init" => kk.number_mask[t] = {kk.current_priority[t]}
         /\ kk.current_priority[t] \in Prio
         /\ kk.stat[t] # "ready" => \A p \in Prio : t \notin Nodes(kk, p)
         /\ kk.stat[t] \notin {"suspend", "close"} =>
              \A h \in Queue \cup {Defunct} : t \notin Nodes(kk, h)
BY DEF KernelInv, ReadyAreListed, MaskIsPriority, WaitersSuspended, KernelType

-----------------------------------------------------------------------------
(* The thread functions *)

\* The critical section of rt_thread_suspend, whose thread may have suspended
\* itself since its stat was tested: it is linked nowhere afterwards.
LEMMA SuspendKeepsInv ==
  ASSUME NEW kk, NEW off, KernelInv(kk, off),
         NEW t \in Thread \ {Idle}, t \notin off,
         kk.stat[t] \in {"ready", "suspend"}
  PROVE  /\ KernelInv(SuspendSection(kk, t), off)
         /\ Suspended(kk, SuspendSection(kk, t), t)
<1> DEFINE a == [kk EXCEPT !.stat[t] = "suspend"]
           b == rt_schedule_remove_thread(a, t)
           u == StopTimer(b, t)
<1>1. kk \in KernelType
  BY DEF KernelInv
<1>2. /\ a \in KernelType /\ a.list = kk.list
      /\ a.ready_group = kk.ready_group /\ a.number_mask = kk.number_mask
      /\ a.current_priority = kk.current_priority
  BY <1>1 DEF KernelType, Stat
<1>3. a = [kk EXCEPT !.stat = [kk.stat EXCEPT ![t] = "suspend"]]
  BY <1>1 DEF KernelType
<1> HIDE DEF a
<1>4. NoRepeats(a) /\ GroupIsExact(a) /\ \A h : Nodes(a, h) = Nodes(kk, h)
  BY <1>2 DEF KernelInv, NoRepeats, GroupIsExact, Nodes
<1>5. /\ b \in KernelType /\ NoRepeats(b) /\ GroupIsExact(b)
      /\ b = [a EXCEPT !.list = b.list, !.ready_group = b.ready_group]
      /\ \A h \in ListHead : Nodes(b, h) = Nodes(a, h) \ {t}
  <2>1. /\ t \in Thread
        /\ a.number_mask[t] = {a.current_priority[t]}
        /\ \A p \in Prio : t \in Nodes(a, p) => p = a.current_priority[t]
    BY <1>2, <1>4, OwnReadyList
  <2>2. QED
    BY <1>2, <1>4, <2>1, RemoveThreadEffect
<1> HIDE DEF b
<1>6. /\ u \in KernelType /\ u.list = b.list /\ u.ready_group = b.ready_group
      /\ u = [kk EXCEPT !.list = u.list, !.ready_group = u.ready_group,
                        !.stat = [kk.stat EXCEPT ![t] = "suspend"],
                        !.timer = [kk.timer EXCEPT ![t] = FALSE]]
  BY <1>1, <1>3, <1>5 DEF StopTimer, KernelType
<1> HIDE DEF u
<1>7. /\ NoRepeats(u) /\ GroupIsExact(u)
      /\ \A h \in ListHead : Nodes(u, h) = Nodes(kk, h) \ {t}
  BY <1>4, <1>5, <1>6 DEF NoRepeats, GroupIsExact, Nodes
<1>8. /\ u.stat = [kk.stat EXCEPT ![t] = "suspend"]
      /\ u.timer = [kk.timer EXCEPT ![t] = FALSE]
      /\ u.current_priority = kk.current_priority
      /\ u.number_mask = kk.number_mask
      /\ u.error = kk.error /\ u.lock_nest = kk.lock_nest
      /\ u.current_thread = kk.current_thread
      /\ kk.stat \in [Thread -> Stat] /\ kk.timer \in [Thread -> BOOLEAN]
  BY <1>1, <1>6 DEF KernelType
<1>9. Disjoint(u)
  BY <1>7 DEF KernelInv, Disjoint
<1>10. ReadyAreListed(u, off)
  BY <1>7, <1>8 DEF KernelInv, ReadyAreListed, ListHead
<1>11. MaskIsPriority(u)
  BY <1>8 DEF KernelInv, MaskIsPriority
<1>12. WaitersSuspended(u)
  BY <1>7, <1>8 DEF KernelInv, WaitersSuspended, ListHead
<1>13. KernelInv(u, off)
  BY <1>6, <1>7, <1>8, <1>9, <1>10, <1>11, <1>12 DEF KernelInv
<1>14. Suspended(kk, u, t)
  BY <1>7, <1>8 DEF Suspended, TakenOff, SamePriorities
<1>15. QED
  BY <1>13, <1>14 DEF SuspendSection, u, b, a

\* rt_thread_resume of a suspended thread, wherever it waits.
LEMMA ResumeKeepsInv ==
  ASSUME NEW kk, NEW off, KernelInv(kk, off), NEW t \in Thread, t \notin off,
         kk.stat[t] = "suspend"
  PROVE  /\ KernelInv(rt_thread_resume(kk, t), off)
         /\ HasResumed(kk, rt_thread_resume(kk, t), t)
<1> DEFINE a == Unlink(kk, t)
           b == StopTimer(a, t)
           u == rt_schedule_insert_thread(b, t)
           p == kk.current_priority[t]
<1>1. kk \in KernelType /\ NoRepeats(kk) /\ GroupIsExact(kk)
  BY DEF KernelInv
<1>2. /\ p \in Prio /\ p \in ListHead /\ Prio \subseteq ListHead
      /\ kk.number_mask[t] = {p}
      /\ \A q \in Prio : t \notin Nodes(kk, q)
  BY OwnReadyList DEF ListHead
<1>3. /\ a \in KernelType /\ NoRepeats(a)
      /\ a = [kk EXCEPT !.list = a.list]
      /\ \A h \in ListHead : Nodes(a, h) = Nodes(kk, h) \ {t}
  BY <1>1, UnlinkEffect
<1> HIDE DEF a
<1>4. /\ b \in KernelType /\ b.list = a.list
      /\ b.number_mask = kk.number_mask /\ b.ready_group = kk.ready_group
      /\ b.current_priority = kk.current_priority
      /\ b = [kk EXCEPT !.list = b.list,
                        !.timer = [kk.timer EXCEPT ![t] = FALSE]]
  BY <1>1, <1>3 DEF StopTimer, KernelType
<1> HIDE DEF b
<1>5. NoRepeats(b) /\ \A h \in ListHead : Nodes(b, h) = Nodes(kk, h) \ {t}
  BY <1>3, <1>4 DEF NoRepeats, Nodes
<1>6. GroupIsExact(b)
  BY <1>1, <1>2, <1>4, <1>5 DEF GroupIsExact
<1>7. /\ u \in KernelType /\ NoRepeats(u) /\ GroupIsExact(u)
      /\ u = [b EXCEPT !.list = u.list, !.ready_group = u.ready_group,
                       !.stat = [b.stat EXCEPT ![t] = "ready"]]
      /\ \A h \in ListHead :
           Nodes(u, h) = IF h = p THEN Nodes(b, h) \cup {t} ELSE Nodes(b, h)
  <2>1. /\ b.number_mask[t] = {b.current_priority[t]}
        /\ t \notin Nodes(b, b.current_priority[t])
        /\ p = b.current_priority[t]
    BY <1>2, <1>4, <1>5
  <2>2. /\ u \in KernelType /\ NoRepeats(u) /\ GroupIsExact(u)
        /\ u = [b EXCEPT !.list = u.list, !.ready_group = u.ready_group,
                         !.stat = [b.stat EXCEPT ![t] = "ready"]]
        /\ \A h \in ListHead :
             Nodes(u, h) = IF h = b.current_priority[t]
                           THEN Nodes(b, h) \cup {t} ELSE Nodes(b, h)
    BY <1>4, <1>5, <1>6, <2>1, InsertThreadEffect
  <2> HIDE DEF u, p
  <2>3. QED
    BY <2>1, <2>2
<1> HIDE DEF u
<1>8. u = [kk EXCEPT !.list = u.list, !.ready_group = u.ready_group,
                     !.stat = [kk.stat EXCEPT ![t] = "ready"],
                     !.timer = [kk.timer EXCEPT ![t] = FALSE]]
  BY <1>1, <1>4, <1>7 DEF KernelType
<1>9. \A h \in ListHead :
        Nodes(u, h) = IF h = p THEN Nodes(kk, h) \cup {t} ELSE Nodes(kk, h) \ {t}
  BY <1>5, <1>7
<1>10. /\ u.stat = [kk.stat EXCEPT ![t] = "ready"]
       /\ u.timer = [kk.timer EXCEPT ![t] = FALSE]
       /\ u.current_priority = kk.current_priority
       /\ u.number_mask = kk.number_mask
       /\ u.error = kk.error /\ u.lock_nest = kk.lock_nest
       /\ u.current_thread = kk.current_thread
       /\ kk.stat \in [Thread -> Stat] /\ kk.timer \in [Thread -> BOOLEAN]
  BY <1>1, <1>8 DEF KernelType
<1>11. Disjoint(u)
  BY <1>9 DEF KernelInv, Disjoint
<1>12. ReadyAreListed(u, off)
  BY <1>2, <1>9, <1>10 DEF KernelInv, ReadyAreListed
<1>13. MaskIsPriority(u)
  BY <1>10 DEF KernelInv, MaskIsPriority
<1>14. WaitersSuspended(u)
  BY <1>2, <1>9, <1>10, HeadsAreDistinct DEF KernelInv, WaitersSuspended, ListHead
<1>15. KernelInv(u, off)
  BY <1>7, <1>10, <1>11, <1>12, <1>13, <1>14 DEF KernelInv
<1>16. u = rt_thread_resume(kk, t)
  BY DEF rt_thread_resume, ResumeSection, u, b, a
<1>17. HasResumed(kk, u, t)
  BY <1>9, <1>10 DEF HasResumed, MadeReady, SamePriorities
<1>18. QED
  BY <1>15, <1>16, <1>17

\* What touches neither lists, bitmap, stat, priorities nor timers.
LEMMA OtherFieldsKeepInv ==
  ASSUME NEW kk, NEW off, KernelInv(kk, off), NEW u \in KernelType,
         u.list = kk.list, u.ready_group = kk.ready_group, u.stat = kk.stat,
         u.current_priority = kk.current_priority,
         u.number_mask = kk.number_mask,
         \A t \in Thread : u.timer[t] => kk.timer[t] \/ kk.stat[t] = "suspend"
  PROVE  KernelInv(u, off) /\ \A h : Nodes(u, h) = Nodes(kk, h)
<1>1. \A h : Nodes(u, h) = Nodes(kk, h)
  BY DEF Nodes
<1>2. NoRepeats(u) /\ Disjoint(u) /\ ReadyAreListed(u, off) /\ GroupIsExact(u)
  BY <1>1 DEF KernelInv, NoRepeats, Disjoint, ReadyAreListed, GroupIsExact
<1>3. MaskIsPriority(u) /\ WaitersSuspended(u)
  BY <1>1 DEF KernelInv, MaskIsPriority, WaitersSuspended
<1>4. QED
  BY <1>1, <1>2, <1>3 DEF KernelInv

\* Setting a thread's error, as the take functions and timeouts do.
LEMMA ErrorKeepsInv ==
  ASSUME NEW kk, NEW off, KernelInv(kk, off), NEW t, NEW e \in Error
  PROVE  LET u == SetError(kk, t, e)
         IN  /\ KernelInv(u, off)
             /\ u = [kk EXCEPT !.error = [kk.error EXCEPT ![t] = e]]
             /\ \A h : Nodes(u, h) = Nodes(kk, h)
<1> DEFINE u == [kk EXCEPT !.error[t] = e]
<1>1. kk \in KernelType
  BY DEF KernelInv
<1>2. /\ u \in KernelType
      /\ u.list = kk.list /\ u.ready_group = kk.ready_group
      /\ u.stat = kk.stat /\ u.current_priority = kk.current_priority
      /\ u.number_mask = kk.number_mask /\ u.timer = kk.timer
  BY <1>1 DEF KernelType
<1>3. u = [kk EXCEPT !.error = [kk.error EXCEPT ![t] = e]]
  BY <1>1 DEF KernelType
<1> HIDE DEF u
<1>4. KernelInv(u, off) /\ \A h : Nodes(u, h) = Nodes(kk, h)
  BY <1>2, OtherFieldsKeepInv
<1>5. QED
  BY <1>3, <1>4 DEF u, SetError

\* The timer of a suspended thread is started.
LEMMA StartTimerKeepsInv ==
  ASSUME NEW kk, NEW off, KernelInv(kk, off), NEW t \in Thread,
         kk.stat[t] = "suspend"
  PROVE  LET u == StartTimer(kk, t)
         IN  /\ KernelInv(u, off)
             /\ u = [kk EXCEPT !.timer = [kk.timer EXCEPT ![t] = TRUE]]
             /\ \A h : Nodes(u, h) = Nodes(kk, h)
<1> DEFINE u == [kk EXCEPT !.timer[t] = TRUE]
<1>1. kk \in KernelType
  BY DEF KernelInv
<1>2. /\ u \in KernelType
      /\ u.list = kk.list /\ u.ready_group = kk.ready_group
      /\ u.stat = kk.stat /\ u.current_priority = kk.current_priority
      /\ u.number_mask = kk.number_mask
      /\ u.timer = [kk.timer EXCEPT ![t] = TRUE]
      /\ kk.timer \in [Thread -> BOOLEAN]
  BY <1>1 DEF KernelType
<1>3. u = [kk EXCEPT !.timer = [kk.timer EXCEPT ![t] = TRUE]]
  BY <1>1 DEF KernelType
<1> HIDE DEF u
<1>4. \A s \in Thread : u.timer[s] => kk.timer[s] \/ kk.stat[s] = "suspend"
  BY <1>2
<1>5. KernelInv(u, off) /\ \A h : Nodes(u, h) = Nodes(kk, h)
  BY <1>2, <1>4, OtherFieldsKeepInv
<1>6. QED
  BY <1>3, <1>5 DEF StartTimer, u

\* rt_thread_timeout is a resume with an error, and a rt_schedule.
LEMMA TimeoutIsResume ==
  ASSUME NEW kk \in KernelType, NEW t \in Thread, kk.stat[t] = "suspend"
  PROVE  rt_thread_timeout(kk, t) =
           rt_schedule(rt_thread_resume(SetError(kk, t, "timeout"), t))
<1> DEFINE e == SetError(kk, t, "timeout")
           x == SetError(StopTimer(kk, t), t, "timeout")
<1>1. e \in [ stat : [Thread -> Stat], current_priority : [Thread -> Prio],
              number_mask : [Thread -> SUBSET Prio], error : [Thread -> Error],
              timer : [Thread -> BOOLEAN], list : [ListHead -> Seq(Thread)],
              ready_group : SUBSET Prio, current_thread : Thread \cup {Wild},
              lock_nest : Nat ]
      /\ e.stat[t] = "suspend" /\ e.list = kk.list
  BY DEF KernelType, Error, SetError
<1>2. x.list = kk.list /\ x = StopTimer(e, t)
  BY DEF StopTimer, SetError, KernelType
<1> DEFINE new == [h \in ListHead |-> rt_list_remove(kk.list[h], t)]
<1>3. /\ Unlink(x, t) = [x EXCEPT !.list = new]
      /\ Unlink(e, t) = [e EXCEPT !.list = new]
  BY <1>1, <1>2 DEF Unlink
<1> HIDE DEF new, e
<1>4. [StopTimer(e, t) EXCEPT !.list = new] = StopTimer([e EXCEPT !.list = new], t)
  BY <1>1 DEF StopTimer
<1> HIDE DEF x
<1>5. Unlink(x, t) = ResumeSection(e, t)
  BY <1>2, <1>3, <1>4 DEF ResumeSection
<1>6. QED
  BY <1>1, <1>5 DEF rt_thread_timeout, rt_thread_resume, e, x

LEMMA TimeoutKeepsInv ==
  ASSUME NEW kk, NEW off, KernelInv(kk, off), NEW t \in Thread, t \notin off,
         kk.stat[t] = "suspend"
  PROVE  LET u == rt_thread_timeout(kk, t)
         IN  /\ KernelInv(u, off)
             /\ MadeReady(kk, u, t)
             /\ u.stat = [kk.stat EXCEPT ![t] = "ready"]
             /\ u.timer = [kk.timer EXCEPT ![t] = FALSE]
             /\ u.error = [kk.error EXCEPT ![t] = "timeout"]
             /\ SamePriorities(kk, u)
             /\ u.current_thread \in Thread \cup {kk.current_thread}
<1> DEFINE e == SetError(kk, t, "timeout")
           r == rt_thread_resume(e, t)
           u == rt_thread_timeout(kk, t)
<1>1. kk \in KernelType /\ "timeout" \in Error
  BY DEF KernelInv, Error
<1>2. /\ KernelInv(e, off)
      /\ e = [kk EXCEPT !.error = [kk.error EXCEPT ![t] = "timeout"]]
      /\ \A h : Nodes(e, h) = Nodes(kk, h)
  BY <1>1, ErrorKeepsInv
<1>3. u = rt_schedule(r)
  BY <1>1, TimeoutIsResume
<1> HIDE DEF e
<1>4. /\ e.stat = kk.stat /\ e.timer = kk.timer
      /\ e.error = [kk.error EXCEPT ![t] = "timeout"]
      /\ e.current_priority = kk.current_priority
      /\ e.number_mask = kk.number_mask
      /\ e.current_thread = kk.current_thread
  BY <1>1, <1>2 DEF KernelType
<1>5. KernelInv(r, off) /\ HasResumed(e, r, t)
  BY <1>2, <1>4, ResumeKeepsInv
<1> HIDE DEF r
<1>6. KernelInv(rt_schedule(r), off) /\ Switched(r, rt_schedule(r))
  BY <1>5, ScheduleKeepsInv
<1> HIDE DEF u
<1>7. MadeReady(kk, u, t)
  BY <1>2, <1>3, <1>4, <1>5, <1>6 DEF HasResumed, MadeReady, Switched, SameNodes
<1>8. /\ u.stat = [kk.stat EXCEPT ![t] = "ready"]
      /\ u.timer = [kk.timer EXCEPT ![t] = FALSE]
      /\ u.error = [kk.error EXCEPT ![t] = "timeout"]
      /\ SamePriorities(kk, u)
      /\ u.current_thread \in Thread \cup {kk.current_thread}
  BY <1>3, <1>4, <1>5, <1>6 DEF HasResumed, Switched, SamePriorities
<1>9. QED
  BY <1>3, <1>6, <1>7, <1>8 DEF u

\* rt_thread_yield moves a ready thread within its list.
LEMMA YieldKeepsInv ==
  ASSUME NEW kk, NEW off, KernelInv(kk, off), NEW t \in Thread, t \notin off,
         kk.stat[t] = "ready"
  PROVE  LET u == YieldSection(kk, t)
         IN  /\ KernelInv(u, off)
             /\ SameNodes(kk, u) /\ SamePriorities(kk, u)
             /\ u.stat = kk.stat /\ u.timer = kk.timer /\ u.error = kk.error
             /\ u.current_thread = kk.current_thread
             /\ u.lock_nest = kk.lock_nest
<1> DEFINE p == kk.current_priority[t]
           a == Unlink(kk, t)
           u == LinkLast(a, p, t)
<1>1. kk \in KernelType /\ NoRepeats(kk)
  BY DEF KernelInv
<1>2. p \in Prio /\ p \in ListHead /\ t \in Nodes(kk, p)
  BY <1>1, OwnReadyList DEF ListHead, KernelInv, ReadyAreListed
<1>3. /\ a \in KernelType /\ NoRepeats(a)
      /\ a = [kk EXCEPT !.list = a.list]
      /\ \A h \in ListHead : Nodes(a, h) = Nodes(kk, h) \ {t}
  BY <1>1, UnlinkEffect
<1> HIDE DEF a
<1>4. t \notin Nodes(a, p)
  BY <1>2, <1>3
<1> HIDE DEF p
<1>5. /\ u \in KernelType /\ NoRepeats(u)
      /\ u = [a EXCEPT !.list = u.list]
      /\ \A g \in ListHead :
           Nodes(u, g) = IF g = p THEN Nodes(a, g) \cup {t} ELSE Nodes(a, g)
  BY <1>2, <1>3, <1>4, LinkLastEffect
<1> HIDE DEF u
<1>6. /\ u.stat = kk.stat /\ u.timer = kk.timer /\ u.error = kk.error
      /\ u.current_priority = kk.current_priority
      /\ u.number_mask = kk.number_mask /\ u.ready_group = kk.ready_group
      /\ u.current_thread = kk.current_thread /\ u.lock_nest = kk.lock_nest
  BY <1>1, <1>3, <1>5 DEF KernelType
<1>7. \A g \in ListHead : Nodes(u, g) = Nodes(kk, g)
  <2> SUFFICES ASSUME NEW g \in ListHead
               PROVE  Nodes(u, g) = Nodes(kk, g)
    OBVIOUS
  <2>1. CASE g = p
    BY <1>2, <1>3, <1>5, <2>1
  <2>2. CASE g # p
    <3>1. t \notin Nodes(kk, g)
      BY <1>2, <2>2 DEF KernelInv, Disjoint
    <3>2. Nodes(a, g) = Nodes(kk, g)
      BY <1>3, <3>1
    <3>3. QED
      BY <1>5, <2>2, <3>2
  <2>3. QED
    BY <2>1, <2>2
<1>8. Prio \subseteq ListHead /\ Queue \subseteq ListHead /\ Defunct \in ListHead
  BY DEF ListHead
<1>9. KernelInv(u, off)
  BY <1>5, <1>6, <1>7, <1>8 DEF KernelInv, Disjoint, ReadyAreListed,
       GroupIsExact, MaskIsPriority, WaitersSuspended
<1>10. QED
  BY <1>6, <1>7, <1>9 DEF YieldSection, u, a, p, SameNodes, SamePriorities

\* A suspended thread that is linked nowhere is put on a wait list.
Queued(kk, u, h, t) ==
  /\ u \in KernelType /\ NoRepeats(u)
  /\ u = [kk EXCEPT !.list = u.list]
  /\ \A g \in ListHead :
       Nodes(u, g) = IF g = h THEN Nodes(kk, g) \cup {t} ELSE Nodes(kk, g)

LEMMA QueueKeepsInv ==
  ASSUME NEW kk, NEW off, KernelInv(kk, off), NEW t \in Thread,
         NEW h \in Queue, NEW u, Queued(kk, u, h, t),
         kk.stat[t] = "suspend",
         \A g \in ListHead : t \notin Nodes(kk, g)
  PROVE  /\ KernelInv(u, off)
         /\ u.stat = kk.stat /\ u.timer = kk.timer /\ u.error = kk.error
         /\ SamePriorities(kk, u)
         /\ u.current_thread = kk.current_thread
         /\ u.lock_nest = kk.lock_nest
<1>1. kk \in KernelType
  BY DEF KernelInv
<1>2. /\ u.stat = kk.stat /\ u.timer = kk.timer /\ u.error = kk.error
      /\ u.current_priority = kk.current_priority
      /\ u.number_mask = kk.number_mask /\ u.ready_group = kk.ready_group
      /\ u.current_thread = kk.current_thread /\ u.lock_nest = kk.lock_nest
  BY <1>1 DEF KernelType, Queued
<1>3. /\ Prio \subseteq ListHead /\ Queue \subseteq ListHead
      /\ Defunct \in ListHead /\ h \notin Prio /\ h # Defunct /\ h \in ListHead
  BY HeadsAreDistinct DEF ListHead
<1>4. /\ u \in KernelType /\ NoRepeats(u)
      /\ \A g \in ListHead :
           Nodes(u, g) = IF g = h THEN Nodes(kk, g) \cup {t} ELSE Nodes(kk, g)
  BY DEF Queued
<1>5. \A g \in ListHead : g # h => Nodes(u, g) = Nodes(kk, g)
  BY <1>4
<1>6. Disjoint(u)
  BY <1>4 DEF KernelInv, Disjoint
<1>7. ReadyAreListed(u, off) /\ GroupIsExact(u)
  BY <1>2, <1>3, <1>5 DEF KernelInv, ReadyAreListed, GroupIsExact
<1>8. MaskIsPriority(u)
  BY <1>2 DEF KernelInv, MaskIsPriority
<1>9. WaitersSuspended(u)
  BY <1>2, <1>3, <1>4 DEF KernelInv, WaitersSuspended
<1>10. KernelInv(u, off)
  BY <1>2, <1>4, <1>6, <1>7, <1>8, <1>9 DEF KernelInv
<1>11. QED
  BY <1>2, <1>10 DEF SamePriorities

\* The priority of a thread that is not ready is just a field.
LEMMA SetPriorityKeepsInv ==
  ASSUME NEW kk, NEW off, KernelInv(kk, off), NEW t \in Thread, NEW p \in Prio,
         \A q \in Prio : t \notin Nodes(kk, q)
  PROVE  /\ KernelInv(SetPriority(kk, t, p), off)
         /\ SameNodes(kk, SetPriority(kk, t, p))
         /\ Reprioritized(kk, SetPriority(kk, t, p), t, p)
         /\ SetPriority(kk, t, p).number_mask =
              [kk.number_mask EXCEPT ![t] = {p}]
<1> DEFINE u == SetPriority(kk, t, p)
<1>1. kk \in KernelType
  BY DEF KernelInv
<1>2. /\ u \in KernelType /\ u.list = kk.list /\ u.stat = kk.stat
      /\ u.timer = kk.timer /\ u.error = kk.error
      /\ u.ready_group = kk.ready_group
      /\ u.current_thread = kk.current_thread /\ u.lock_nest = kk.lock_nest
      /\ u.current_priority = [kk.current_priority EXCEPT ![t] = p]
      /\ u.number_mask = [kk.number_mask EXCEPT ![t] = {p}]
      /\ kk.current_priority \in [Thread -> Prio]
      /\ kk.number_mask \in [Thread -> SUBSET Prio]
  BY <1>1 DEF KernelType, SetPriority
<1> HIDE DEF u
<1>3. \A h : Nodes(u, h) = Nodes(kk, h)
  BY <1>2 DEF Nodes
<1>4. ReadyAreListed(u, off)
  <2>1. ~(kk.stat[t] = "ready" /\ t \notin off)
    BY <1>2 DEF KernelInv, ReadyAreListed
  <2>2. QED
    BY <1>2, <1>3, <2>1 DEF KernelInv, ReadyAreListed
<1>5. MaskIsPriority(u)
  BY <1>2 DEF KernelInv, MaskIsPriority
<1>6. NoRepeats(u) /\ Disjoint(u) /\ GroupIsExact(u) /\ WaitersSuspended(u)
  BY <1>2, <1>3 DEF KernelInv, NoRepeats, Disjoint, GroupIsExact,
       WaitersSuspended
<1>7. KernelInv(u, off)
  BY <1>2, <1>4, <1>5, <1>6 DEF KernelInv
<1>8. SameNodes(kk, u) /\ Reprioritized(kk, u, t, p)
  BY <1>2, <1>3 DEF SameNodes, Reprioritized
<1>9. QED
  BY <1>2, <1>7, <1>8 DEF u

\* rt_thread_control(RT_THREAD_CTRL_CHANGE_PRIORITY) of a ready or a
\* suspended thread: its node, mask and priority move together.
LEMMA ChangePriorityKeepsInv ==
  ASSUME NEW kk, NEW off, KernelInv(kk, off), NEW t \in Thread, t \notin off,
         NEW p \in Prio
  PROVE  LET u == ChangePriority(kk, t, p)
         IN  /\ KernelInv(u, off)
             /\ \A h \in Queue \cup {Defunct} : Nodes(u, h) = Nodes(kk, h)
             /\ Reprioritized(kk, u, t, p)
<1> DEFINE u == ChangePriority(kk, t, p)
<1>0. /\ kk \in KernelType /\ NoRepeats(kk) /\ GroupIsExact(kk)
      /\ Prio \subseteq ListHead /\ Queue \cup {Defunct} \subseteq ListHead
      /\ (Queue \cup {Defunct}) \cap Prio = {}
  BY HeadsAreDistinct DEF KernelInv, ListHead
<1>1. CASE kk.stat[t] # "ready"
  <2>1. \A q \in Prio : t \notin Nodes(kk, q)
    BY <1>1, OwnReadyList
  <2> DEFINE v == SetPriority(kk, t, p)
  <2>2. u = v
    BY <1>1 DEF ChangePriority
  <2>3. KernelInv(v, off) /\ SameNodes(kk, v) /\ Reprioritized(kk, v, t, p)
    BY <2>1, SetPriorityKeepsInv
  <2> HIDE DEF v, u
  <2>4. QED
    BY <1>0, <2>2, <2>3 DEF SameNodes, u
<1>2. CASE kk.stat[t] = "ready"
  <2> DEFINE a == rt_schedule_remove_thread(kk, t)
             b == SetPriority(a, t, p)
             c == rt_schedule_insert_thread(b, t)
  <2>1. /\ kk.number_mask[t] = {kk.current_priority[t]}
        /\ \A q \in Prio : t \in Nodes(kk, q) => q = kk.current_priority[t]
        /\ \A h \in Queue \cup {Defunct} : t \notin Nodes(kk, h)
    BY <1>2, OwnReadyList
  <2>2. /\ a \in KernelType /\ NoRepeats(a) /\ GroupIsExact(a)
        /\ a = [kk EXCEPT !.list = a.list, !.ready_group = a.ready_group]
        /\ \A h \in ListHead : Nodes(a, h) = Nodes(kk, h) \ {t}
    BY <1>0, <2>1, RemoveThreadEffect
  <2> HIDE DEF a
  <2>3. /\ b \in KernelType /\ b.list = a.list
        /\ b.ready_group = a.ready_group /\ b.stat = kk.stat
        /\ b.timer = kk.timer /\ b.error = kk.error
        /\ b.current_thread = kk.current_thread /\ b.lock_nest = kk.lock_nest
        /\ b.current_priority = [kk.current_priority EXCEPT ![t] = p]
        /\ b.number_mask = [kk.number_mask EXCEPT ![t] = {p}]
        /\ kk.current_priority \in [Thread -> Prio]
        /\ kk.number_mask \in [Thread -> SUBSET Prio]
        /\ kk.stat \in [Thread -> Stat]
    BY <1>0, <2>2 DEF SetPriority, KernelType
  <2> HIDE DEF b
  <2>4. /\ NoRepeats(b) /\ GroupIsExact(b)
        /\ \A h \in ListHead : Nodes(b, h) = Nodes(kk, h) \ {t}
    BY <2>2, <2>3 DEF NoRepeats, GroupIsExact, Nodes
  <2>5. /\ b \in KernelType /\ NoRepeats(b) /\ GroupIsExact(b)
        /\ b.current_priority[t] = p
        /\ b.number_mask[t] = {b.current_priority[t]}
        /\ t \notin Nodes(b, b.current_priority[t])
    BY <1>0, <2>3, <2>4
  <2>6. /\ c \in KernelType /\ NoRepeats(c) /\ GroupIsExact(c)
        /\ c = [b EXCEPT !.list = c.list, !.ready_group = c.ready_group,
                         !.stat = [b.stat EXCEPT ![t] = "ready"]]
        /\ \A h \in ListHead :
             Nodes(c, h) = IF h = b.current_priority[t]
                           THEN Nodes(b, h) \cup {t} ELSE Nodes(b, h)
    BY <2>5, InsertThreadEffect, Zenon
  <2> HIDE DEF c
  <2>7. /\ c.stat = [kk.stat EXCEPT ![t] = "ready"]
        /\ c.timer = kk.timer /\ c.error = kk.error
        /\ c.current_thread = kk.current_thread /\ c.lock_nest = kk.lock_nest
        /\ c.current_priority = [kk.current_priority EXCEPT ![t] = p]
        /\ c.number_mask = [kk.number_mask EXCEPT ![t] = {p}]
    <3>1. /\ c.stat = [b.stat EXCEPT ![t] = "ready"]
          /\ c.timer = b.timer /\ c.error = b.error
          /\ c.current_thread = b.current_thread /\ c.lock_nest = b.lock_nest
          /\ c.current_priority = b.current_priority
          /\ c.number_mask = b.number_mask
      BY <2>3, <2>6 DEF KernelType
    <3>2. QED
      BY <2>3, <3>1
  <2>8. c.stat = kk.stat
    BY <1>2, <2>3, <2>7
  <2>9. \A h \in ListHead :
          Nodes(c, h) = IF h = p THEN Nodes(kk, h) \cup {t} ELSE Nodes(kk, h) \ {t}
    BY <2>4, <2>5, <2>6
  <2>10. Disjoint(c)
    BY <2>9 DEF KernelInv, Disjoint
  <2>11. ReadyAreListed(c, off)
    BY <1>0, <1>2, <2>3, <2>7, <2>8, <2>9 DEF KernelInv, ReadyAreListed
  <2>12. MaskIsPriority(c)
    BY <2>3, <2>7, <2>8 DEF KernelInv, MaskIsPriority
  <2>13. \A h \in Queue \cup {Defunct} : Nodes(c, h) = Nodes(kk, h)
    <3> SUFFICES ASSUME NEW h \in Queue \cup {Defunct}
                 PROVE  Nodes(c, h) = Nodes(kk, h)
      OBVIOUS
    <3>1. h \in ListHead /\ h # p /\ t \notin Nodes(kk, h)
      BY <1>0, <2>1
    <3>2. Nodes(c, h) = Nodes(kk, h) \ {t}
      BY <2>9, <3>1
    <3>3. QED
      BY <3>1, <3>2
  <2>14. WaitersSuspended(c)
    BY <2>7, <2>8, <2>13 DEF KernelInv, WaitersSuspended
  <2>15. KernelInv(c, off)
    BY <2>6, <2>8, <2>10, <2>11, <2>12, <2>14 DEF KernelInv
  <2>16. u = c
    BY <1>2 DEF ChangePriority, c, b, a
  <2>17. QED
    BY <2>7, <2>8, <2>13, <2>15, <2>16 DEF Reprioritized
<1>3. QED
  BY <1>1, <1>2

\* rt_thread_startup makes an initialised thread a suspended one.
LEMMA StartupKeepsInv ==
  ASSUME NEW kk, NEW off, KernelInv(kk, off), NEW t \in Thread,
         kk.stat[t] = "init"
  PROVE  LET u == [SetPriority(kk, t, init_priority[t]) EXCEPT
                     !.stat[t] = "suspend"]
         IN  /\ KernelInv(u, off)
             /\ SameNodes(kk, u)
             /\ u.stat = [kk.stat EXCEPT ![t] = "suspend"]
             /\ u.timer = kk.timer /\ u.error = kk.error
             /\ u.current_thread = kk.current_thread
             /\ u.lock_nest = kk.lock_nest
             /\ u.current_priority =
                  [kk.current_priority EXCEPT ![t] = init_priority[t]]
<1> DEFINE p == init_priority[t]
           a == SetPriority(kk, t, p)
           u == [a EXCEPT !.stat[t] = "suspend"]
<1>1. p \in Prio /\ kk \in KernelType
  BY InitPriorityType DEF KernelInv
<1>2. t \notin Nodes(kk, Defunct) /\ \A h \in Prio : t \notin Nodes(kk, h)
  BY OwnReadyList
<1> HIDE DEF p
<1>3. /\ KernelInv(a, off) /\ SameNodes(kk, a)
      /\ a.stat = kk.stat /\ a.timer = kk.timer /\ a.error = kk.error
      /\ a.current_thread = kk.current_thread
      /\ a.lock_nest = kk.lock_nest
      /\ a.current_priority = [kk.current_priority EXCEPT ![t] = p]
      /\ a.number_mask = [kk.number_mask EXCEPT ![t] = {p}]
  BY <1>1, <1>2, SetPriorityKeepsInv DEF Reprioritized
<1> HIDE DEF a
<1>4. /\ u \in KernelType /\ u.list = a.list
      /\ u.ready_group = a.ready_group
      /\ u.stat = [kk.stat EXCEPT ![t] = "suspend"]
      /\ u.timer = kk.timer /\ u.error = kk.error
      /\ u.current_thread = kk.current_thread
      /\ u.lock_nest = kk.lock_nest
      /\ u.current_priority = a.current_priority
      /\ u.number_mask = a.number_mask
      /\ kk.stat \in [Thread -> Stat]
      /\ kk.number_mask \in [Thread -> SUBSET Prio]
      /\ kk.current_priority \in [Thread -> Prio]
  BY <1>1, <1>3 DEF KernelInv, KernelType, Stat
<1> HIDE DEF u
<1>5. \A h : Nodes(u, h) = Nodes(a, h)
  BY <1>4 DEF Nodes
<1>6. NoRepeats(u) /\ Disjoint(u) /\ GroupIsExact(u)
  BY <1>3, <1>4, <1>5 DEF KernelInv, NoRepeats, Disjoint, GroupIsExact
<1>7. ReadyAreListed(u, off)
  BY <1>3, <1>4, <1>5 DEF KernelInv, ReadyAreListed
<1>8. MaskIsPriority(u)
  BY <1>1, <1>3, <1>4 DEF KernelInv, MaskIsPriority
<1>9. Defunct \in ListHead /\ Queue \subseteq ListHead
  BY DEF ListHead
<1>10. WaitersSuspended(u)
  BY <1>2, <1>3, <1>4, <1>5, <1>9
     DEF KernelInv, WaitersSuspended, SameNodes
<1>11. KernelInv(u, off)
  BY <1>3, <1>4, <1>6, <1>7, <1>8, <1>10 DEF KernelInv
<1>12. SameNodes(kk, u)
  BY <1>3, <1>5 DEF SameNodes
<1>13. QED
  BY <1>3, <1>4, <1>11, <1>12 DEF u, a, p
=============================================================================
