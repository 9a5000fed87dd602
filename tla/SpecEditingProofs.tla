------------------------- MODULE SpecEditingProofs -------------------------
(***************************************************************************)
(* What the editor may rely on, for every spec that is well made, every    *)
(* palette and every sequence of edits.                                    *)
(***************************************************************************)
EXTENDS SpecEditing, SequenceTheorems, TLAPS

-----------------------------------------------------------------------------
(***************************************************************************)
(* Functions and sequences.                                                *)
(***************************************************************************)

LEMMA OverIs ==
  ASSUME NEW f, NEW g
  PROVE  /\ DOMAIN Over(f, g) = DOMAIN f \cup DOMAIN g
         /\ \A x \in DOMAIN f : Over(f, g)[x] = f[x]
         /\ \A x \in DOMAIN g \ DOMAIN f : Over(f, g)[x] = g[x]
  BY DEF Over

\* A sequence read by its positions.
LEMMA SequenceIs ==
  ASSUME NEW S, NEW b \in Seq(S)
  PROVE  /\ Len(b) \in Nat /\ DOMAIN b = 1..Len(b)
         /\ \A i \in 1..Len(b) : b[i] \in S
         /\ \A x : x \in ToSet(b) <=> \E i \in 1..Len(b) : b[i] = x
         /\ \A x : Contains(b, x) <=> x \in ToSet(b)
  <1>1. Len(b) \in Nat /\ DOMAIN b = 1..Len(b) /\ \A i \in 1..Len(b) : b[i] \in S
    BY LenProperties, ElementOfSeq
  <1> QED  BY <1>1 DEF ToSet, Contains

\* Where the elements stand after an insertion ...
LEMMA InsertAtIs ==
  ASSUME NEW S, NEW b \in Seq(S), NEW e \in S, NEW i \in 1..(Len(b) + 1)
  PROVE  /\ InsertAt(b, i, e) \in Seq(S)
         /\ Len(InsertAt(b, i, e)) = Len(b) + 1
         /\ \A j \in 1..(i - 1) : InsertAt(b, i, e)[j] = b[j]
         /\ InsertAt(b, i, e)[i] = e
         /\ \A j \in (i + 1)..(Len(b) + 1) : InsertAt(b, i, e)[j] = b[j - 1]
  <1> DEFINE front == SubSeq(b, 1, i - 1)
             back == SubSeq(b, i, Len(b))
  <1>0. Len(b) \in Nat
    BY LenProperties
  <1>1. /\ front \in Seq(S) /\ Len(front) = i - 1
        /\ \A j \in 1..(i - 1) : front[j] = b[j]
    BY <1>0, SubSeqProperties
  <1>2. /\ back \in Seq(S) /\ Len(back) = Len(b) - i + 1
        /\ \A j \in 1..(Len(b) - i + 1) : back[j] = b[i + j - 1]
    BY <1>0, SubSeqProperties
  <1>3. InsertAt(b, i, e) = front \o <<e>> \o back
    BY DEF InsertAt
  <1> HIDE DEF front, back
  <1>4. PICK f : f = front \o <<e>>
    OBVIOUS
  <1>6. /\ f \in Seq(S) /\ Len(f) = i
        /\ \A j \in 1..(i - 1) : f[j] = b[j]
        /\ f[i] = e
    BY <1>0, <1>1, <1>4
  <1>7. PICK c : c = back
    OBVIOUS
  <1>a. PICK g : g = f \o c
    OBVIOUS
  <1>8. /\ g \in Seq(S) /\ Len(g) = Len(f) + Len(c)
        /\ \A j \in 1..(Len(f) + Len(c)) : g[j] = IF j <= Len(f) THEN f[j] ELSE c[j - Len(f)]
    BY <1>2, <1>6, <1>7, <1>a, ConcatProperties
  <1>9. Len(f) + Len(c) = Len(b) + 1 /\ Len(f) = i
    BY <1>0, <1>2, <1>6, <1>7
  <1>10. ASSUME NEW j \in 1..i PROVE g[j] = f[j]
    <2>1. j \in 1..(Len(f) + Len(c)) /\ j <= Len(f)
      BY <1>0, <1>6, <1>9
    <2> QED  BY <1>8, <2>1
  <1>11. ASSUME NEW j \in (i + 1)..(Len(b) + 1) PROVE g[j] = b[j - 1]
    <2>1. j - i \in 1..(Len(b) - i + 1) /\ i + (j - i) - 1 = j - 1
      BY <1>0
    <2>2. c[j - i] = b[j - 1]
      BY <1>2, <1>7, <2>1
    <2>3. j \in 1..(Len(f) + Len(c)) /\ ~(j <= Len(f)) /\ Len(f) = i
      BY <1>0, <1>9
    <2>4. g[j] = c[j - i]
      BY <1>8, <2>3
    <2> QED  BY <2>2, <2>4
  <1> QED  BY <1>3, <1>4, <1>7, <1>a, <1>6, <1>8, <1>9, <1>10, <1>11

\* ... and after a removal.
LEMMA RemoveAtIs ==
  ASSUME NEW S, NEW b \in Seq(S), NEW i \in 1..Len(b)
  PROVE  /\ RemoveAt(b, i) \in Seq(S)
         /\ Len(RemoveAt(b, i)) = Len(b) - 1
         /\ \A j \in 1..(Len(b) - 1) : RemoveAt(b, i)[j] = IF j < i THEN b[j] ELSE b[j + 1]
  <1>0. Len(b) \in Nat /\ \A j \in 1..Len(b) : b[j] \in S
    BY LenProperties, ElementOfSeq
  <1>1. PICK f : f = SubSeq(b, 1, i - 1)
    OBVIOUS
  <1>2. PICK c : c = SubSeq(b, i + 1, Len(b))
    OBVIOUS
  <1>3. f \in Seq(S) /\ Len(f) = i - 1 /\ \A j \in 1..(i - 1) : f[j] = b[j]
    BY <1>0, <1>1, SubSeqProperties
  <1>4. c \in Seq(S) /\ Len(c) = Len(b) - i /\ \A j \in 1..(Len(b) - i) : c[j] = b[i + j]
    BY <1>0, <1>2, SubSeqProperties
  <1>a. PICK g : g = f \o c
    OBVIOUS
  <1>5. /\ g \in Seq(S) /\ Len(g) = Len(f) + Len(c)
        /\ \A j \in 1..(Len(f) + Len(c)) : g[j] = IF j <= Len(f) THEN f[j] ELSE c[j - Len(f)]
    BY <1>3, <1>4, <1>a, ConcatProperties
  <1>6. Len(f) + Len(c) = Len(b) - 1
    BY <1>0, <1>3, <1>4
  <1>7. ASSUME NEW j \in 1..(Len(b) - 1)
        PROVE  g[j] = IF j < i THEN b[j] ELSE b[j + 1]
    <2>1. CASE j < i
      BY <1>0, <1>3, <1>5, <1>6, <2>1
    <2>2. CASE i <= j
      <3>1. j - Len(f) \in 1..(Len(b) - i) /\ i + (j - Len(f)) = j + 1
        BY <1>0, <1>3, <2>2
      <3>2. c[j - Len(f)] = b[j + 1]
        BY <1>4, <3>1
      <3>3. j \in 1..(Len(f) + Len(c)) /\ ~(j <= Len(f))
        BY <1>0, <1>3, <1>6, <2>2
      <3>4. g[j] = c[j - Len(f)]
        BY <1>5, <3>3
      <3>5. ~(j < i)
        BY <1>0, <2>2
      <3> QED  BY <3>2, <3>4, <3>5
    <2> QED  BY <1>0, <2>1, <2>2
  <1> QED  BY <1>1, <1>2, <1>a, <1>5, <1>6, <1>7 DEF RemoveAt

\* No element twice.
Distinct(b) == \A i, j \in 1..Len(b) : b[i] = b[j] => i = j

\* A new element does not repeat one.
LEMMA InsertAtKeepsDistinct ==
  ASSUME NEW S, NEW b \in Seq(S), Distinct(b), NEW e \in S, e \notin ToSet(b), NEW i \in 1..(Len(b) + 1)
  PROVE  /\ ToSet(InsertAt(b, i, e)) = ToSet(b) \cup {e}
         /\ Distinct(InsertAt(b, i, e))
  <1> DEFINE c == InsertAt(b, i, e)
             n == Len(b)
  <1>1. /\ n \in Nat /\ \A j \in 1..n : b[j] # e
        /\ \A x : x \in ToSet(b) <=> \E j \in 1..n : b[j] = x
    BY SequenceIs
  <1>2. /\ c \in Seq(S) /\ Len(c) = n + 1
        /\ \A j \in 1..(n + 1) : c[j] = IF j < i THEN b[j] ELSE IF j = i THEN e ELSE b[j - 1]
    <2> HIDE DEF c, n
    <2>0. /\ InsertAt(b, i, e) \in Seq(S)
          /\ Len(InsertAt(b, i, e)) = Len(b) + 1
          /\ \A j \in 1..(i - 1) : InsertAt(b, i, e)[j] = b[j]
          /\ InsertAt(b, i, e)[i] = e
          /\ \A j \in (i + 1)..(Len(b) + 1) : InsertAt(b, i, e)[j] = b[j - 1]
      BY InsertAtIs
    <2>1. /\ \A j \in 1..(i - 1) : c[j] = b[j]
          /\ c[i] = e
          /\ \A j \in (i + 1)..(n + 1) : c[j] = b[j - 1]
          /\ c \in Seq(S) /\ Len(c) = n + 1
      BY <2>0 DEF c, n
    <2> SUFFICES ASSUME NEW j \in 1..(n + 1)
                 PROVE  c[j] = IF j < i THEN b[j] ELSE IF j = i THEN e ELSE b[j - 1]
      BY <2>1
    <2>2. CASE j < i
      BY <1>1, <2>1, <2>2
    <2>3. CASE j = i
      BY <1>1, <2>1, <2>3
    <2>4. CASE i < j
      <3>1. j \in (i + 1)..(n + 1) /\ ~(j < i) /\ j # i
        BY <1>1, <2>4
      <3> QED  BY <2>1, <3>1
    <2> QED  BY <1>1, <2>2, <2>3, <2>4
  <1>3. \A x : x \in ToSet(c) <=> \E j \in 1..(n + 1) : c[j] = x
    BY <1>2, SequenceIs
  <1>4. \A j \in 1..n : b[j] = IF j < i THEN c[j] ELSE c[j + 1]
    BY <1>1, <1>2
  <1>5. c[i] = e
    BY <1>1, <1>2
  <1> HIDE DEF c, n
  <1>6. \A x : x \in ToSet(c) => x \in ToSet(b) \cup {e}
    <2> SUFFICES ASSUME NEW j \in 1..(n + 1) PROVE c[j] \in ToSet(b) \cup {e}
      BY <1>3
    <2>1. i \in 1..(n + 1)
      BY DEF n
    <2>2. CASE j < i
      BY <1>1, <1>2, <2>1, <2>2
    <2>3. CASE j = i
      BY <1>2, <2>3
    <2>4. CASE i < j
      <3>1. j - 1 \in 1..n /\ c[j] = b[j - 1]
        BY <1>1, <1>2, <2>1, <2>4
      <3> QED  BY <1>1, <3>1
    <2> QED  BY <1>1, <2>1, <2>2, <2>3, <2>4
  <1>7. \A x : x \in ToSet(b) \cup {e} => x \in ToSet(c)
    <2>1. i \in 1..(n + 1)
      BY DEF n
    <2>2. e \in ToSet(c)
      BY <1>3, <1>5, <2>1
    <2>3. ASSUME NEW j \in 1..n PROVE b[j] \in ToSet(c)
      BY <1>1, <1>3, <1>4
    <2> QED  BY <1>1, <2>2, <2>3
  <1>8. Distinct(c)
    <2> SUFFICES ASSUME NEW j \in 1..(n + 1), NEW k \in 1..(n + 1), c[j] = c[k], j < k
                 PROVE  FALSE
      BY <1>1, <1>2 DEF Distinct
    <2>1. \A p, q \in 1..n : b[p] = b[q] => p = q
      BY DEF Distinct, n
    <2>2. i \in 1..(n + 1)
      BY DEF n
    <2>3. CASE k < i
      BY <1>1, <1>2, <2>1, <2>2, <2>3
    <2>4. CASE k = i
      BY <1>1, <1>2, <2>1, <2>2, <2>4
    <2>5. CASE i < k
      <3>1. k - 1 \in 1..n /\ c[k] = b[k - 1]
        BY <1>1, <1>2, <2>2, <2>5
      <3>2. CASE j < i
        <4>1. j \in 1..n /\ c[j] = b[j]
          BY <1>1, <1>2, <2>2, <3>2
        <4> QED  BY <1>1, <2>1, <2>2, <2>5, <3>1, <3>2, <4>1
      <3>3. CASE j = i
        BY <1>1, <1>2, <3>1, <3>3
      <3>4. CASE i < j
        <4>1. j - 1 \in 1..n /\ c[j] = b[j - 1]
          BY <1>1, <1>2, <2>2, <3>4
        <4>2. j - 1 = k - 1
          BY <2>1, <3>1, <4>1
        <4> QED  BY <1>1, <4>2
      <3> QED  BY <1>1, <2>2, <3>2, <3>3, <3>4
    <2> QED  BY <1>1, <2>2, <2>3, <2>4, <2>5
  <1> QED  BY <1>6, <1>7, <1>8 DEF c

\* A removal makes nothing repeat, and takes out the one element.
LEMMA RemoveAtKeepsDistinct ==
  ASSUME NEW S, NEW b \in Seq(S), Distinct(b), NEW i \in 1..Len(b)
  PROVE  /\ ToSet(RemoveAt(b, i)) = ToSet(b) \ {b[i]}
         /\ Distinct(RemoveAt(b, i))
  <1> DEFINE c == RemoveAt(b, i)
             n == Len(b)
  <1>1. n \in Nat /\ \A x : x \in ToSet(b) <=> \E j \in 1..n : b[j] = x
    BY SequenceIs
  <1>2. /\ c \in Seq(S) /\ Len(c) = n - 1
        /\ \A j \in 1..(n - 1) : c[j] = IF j < i THEN b[j] ELSE b[j + 1]
    BY RemoveAtIs
  <1>3. \A x : x \in ToSet(c) <=> \E j \in 1..(n - 1) : c[j] = x
    BY <1>2, SequenceIs
  <1>4. \A j \in 1..n : j # i => b[j] = IF j < i THEN c[j] ELSE c[j - 1]
    BY <1>1, <1>2
  <1>5. \A j, k \in 1..n : b[j] = b[k] => j = k
    BY DEF Distinct
  <1>6. i \in 1..n
    OBVIOUS
  <1> HIDE DEF c, n
  <1>7. ASSUME NEW j \in 1..(n - 1) PROVE c[j] \in ToSet(b) \ {b[i]}
    <2>1. PICK k \in 1..n : c[j] = b[k] /\ k # i
      <3>1. CASE j < i
        BY <1>1, <1>2, <1>6, <3>1
      <3>2. CASE i <= j
        BY <1>1, <1>2, <1>6, <3>2
      <3> QED  BY <1>1, <1>6, <3>1, <3>2
    <2>2. b[k] \in ToSet(b)
      BY <1>1
    <2>3. b[k] # b[i]
      BY <1>5, <1>6, <2>1
    <2> QED  BY <2>1, <2>2, <2>3
  <1>8. ASSUME NEW j \in 1..n, j # i PROVE b[j] \in ToSet(c)
    <2>1. CASE j < i
      BY <1>1, <1>3, <1>4, <1>6, <2>1
    <2>2. CASE j > i
      <3>1. j - 1 \in 1..(n - 1) /\ b[j] = c[j - 1]
        BY <1>1, <1>4, <1>6, <2>2
      <3> QED  BY <1>3, <3>1
    <2> QED  BY <1>1, <1>6, <1>8, <2>1, <2>2
  <1>9. Distinct(c)
    <2> SUFFICES ASSUME NEW j \in 1..(n - 1), NEW k \in 1..(n - 1), c[j] = c[k], j < k
                 PROVE  FALSE
      BY <1>1, <1>2 DEF Distinct
    <2>1. CASE k < i
      BY <1>1, <1>2, <1>5, <1>6, <2>1
    <2>2. CASE j < i /\ i <= k
      <3>1. c[j] = b[j] /\ c[k] = b[k + 1] /\ j \in 1..n /\ k + 1 \in 1..n
        BY <1>1, <1>2, <1>6, <2>2
      <3>2. j = k + 1
        BY <1>5, <3>1
      <3> QED  BY <1>1, <2>2, <3>2
    <2>3. CASE i <= j
      <3>1. c[j] = b[j + 1] /\ c[k] = b[k + 1] /\ j + 1 \in 1..n /\ k + 1 \in 1..n
        BY <1>1, <1>2, <1>6, <2>3
      <3>2. j + 1 = k + 1
        BY <1>5, <3>1
      <3> QED  BY <1>1, <3>2
    <2> QED  BY <1>1, <1>6, <2>1, <2>2, <2>3
  <1> QED  BY <1>1, <1>3, <1>7, <1>8, <1>9 DEF c

-----------------------------------------------------------------------------
(***************************************************************************)
(* The tree.                                                               *)
(***************************************************************************)

\* A list of nodes, each once.
IsBody(S, b) ==
  /\ b \in Seq(S) /\ Distinct(b)
  /\ Len(b) \in Nat /\ DOMAIN b = 1..Len(b)
  /\ \A i \in 1..Len(b) : b[i] \in S /\ b[i] \in ToSet(b)
  /\ \A x \in ToSet(b) : x \in S /\ \E i \in 1..Len(b) : b[i] = x
  /\ \A x : Contains(b, x) <=> x \in ToSet(b)

\* The body of every scope of a tree is such a list.
LEMMA ScopeIs ==
  ASSUME NEW s, IsTree(s), NEW h \in Scopes(s)
  PROVE  IsBody(Ids(s), s.body[h])
  <1>1. s.body[h] \in Seq(Ids(s))
    BY DEF IsTree
  <1>2. PICK b : b = s.body[h]
    OBVIOUS
  <1>3. /\ Len(b) \in Nat /\ DOMAIN b = 1..Len(b)
        /\ \A i \in 1..Len(b) : b[i] \in Ids(s)
        /\ \A x : x \in ToSet(b) <=> \E i \in 1..Len(b) : b[i] = x
        /\ \A x : Contains(b, x) <=> x \in ToSet(b)
    BY <1>1, <1>2, SequenceIs
  <1>4. \A i, j \in DOMAIN s.body[h] : s.body[h][i] = s.body[h][j] => i = j
    BY DEF IsTree
  <1>5. Distinct(b)
    BY <1>2, <1>3, <1>4 DEF Distinct
  <1> QED  BY <1>1, <1>2, <1>3, <1>5 DEF IsBody

\* The scope a node is listed in is its home.
LEMMA HomeIs ==
  ASSUME NEW s, IsTree(s), NEW h \in Scopes(s), NEW x, x \in ToSet(s.body[h])
  PROVE  Home(s, x) = h /\ x \in Ids(s) /\ s.inside[x] = Enclosing(s, h)
  <1>1. Contains(s.body[h], x) /\ x \in Ids(s)
    BY ScopeIs DEF IsBody
  <1>2. ASSUME NEW g \in Scopes(s), Contains(s.body[g], x) PROVE g = h
    <2>0. IsBody(Ids(s), s.body[g]) /\ IsBody(Ids(s), s.body[h])
      BY ScopeIs
    <2>1. PICK i \in DOMAIN s.body[g] : s.body[g][i] = x
      BY <1>2, <2>0 DEF IsBody
    <2>2. PICK j \in DOMAIN s.body[h] : s.body[h][j] = x
      BY <2>0 DEF IsBody
    <2> QED  BY <2>1, <2>2 DEF IsTree
  <1>3. s.inside[x] = Enclosing(s, h)
    BY DEF IsTree
  <1> QED  BY <1>1, <1>2, <1>3 DEF Home

\* Every node has a home.
LEMMA HomeExists ==
  ASSUME NEW s, IsTree(s), NEW x \in Ids(s)
  PROVE  /\ Home(s, x) \in Scopes(s) /\ x \in ToSet(s.body[Home(s, x)])
         /\ s.inside[x] = Enclosing(s, Home(s, x))
  <1>1. PICK h \in Scopes(s) : x \in ToSet(s.body[h])
    BY DEF IsTree
  <1>2. Home(s, x) = h
    BY <1>1, HomeIs
  <1> QED  BY <1>1, <1>2, HomeIs

\* A node is nested just if its home is a container.
LEMMA NestedIs ==
  ASSUME NEW s, IsTree(s), NEW x \in Ids(s)
  PROVE  /\ s.inside[x] = {} <=> Home(s, x) = Top
         /\ Home(s, x) # Top => /\ Home(s, x) \in Ids(s) \ Leaves(s)
                                /\ s.inside[x] = s.inside[Home(s, x)] \cup {Home(s, x)}
  <1>1. Home(s, x) \in Scopes(s) /\ s.inside[x] = Enclosing(s, Home(s, x))
    BY HomeExists
  <1>2. Scopes(s) = {Top} \cup (Ids(s) \ Leaves(s))
    BY DEF IsTree
  <1> QED  BY <1>1, <1>2 DEF Enclosing

\* The siblings before position i.
Preceding(b, i) == {b[j] : j \in 1..(i - 1)}

\* What the walks have passed when they reach the i-th node of a scope.
LEMMA BeforeIs ==
  ASSUME NEW s, IsTree(s), NEW h \in Scopes(s), NEW i \in 1..Len(s.body[h])
  PROVE  /\ Home(s, s.body[h][i]) = h
         /\ Before(s, s.body[h][i]) = Preceding(s.body[h], i)
  <1>1. PICK b : b = s.body[h]
    OBVIOUS
  <1>2. /\ Len(b) \in Nat /\ DOMAIN b = 1..Len(b) /\ Distinct(b)
        /\ \A j \in 1..Len(b) : b[j] \in ToSet(b)
        /\ i \in 1..Len(b)
    BY <1>1, ScopeIs DEF IsBody
  <1>3. b[i] \in ToSet(s.body[h])
    BY <1>1, <1>2
  <1>4. Home(s, b[i]) = h
    BY <1>3, HomeIs
  <1>5. Before(s, b[i]) = {b[j] : j \in {m \in DOMAIN b : \A k \in 1..m : b[k] # b[i]}}
    BY <1>1, <1>4 DEF Before
  <1>6. {m \in DOMAIN b : \A k \in 1..m : b[k] # b[i]} = 1..(i - 1)
    <2>1. ASSUME NEW m \in DOMAIN b PROVE (\A k \in 1..m : b[k] # b[i]) <=> m \in 1..(i - 1)
      BY <1>2 DEF Distinct
    <2> QED  BY <1>2, <2>1
  <1>7. Before(s, b[i]) = Preceding(b, i)
    BY <1>5, <1>6 DEF Preceding
  <1> QED  BY <1>1, <1>4, <1>7

\* Preceding siblings share the home, and the node is none of them.
LEMMA BeforeInHome ==
  ASSUME NEW s, IsTree(s), NEW x \in Ids(s)
  PROVE  /\ Before(s, x) \subseteq ToSet(s.body[Home(s, x)])
         /\ Before(s, x) \subseteq Ids(s)
         /\ x \notin Before(s, x)
         /\ \A y \in Before(s, x) : Home(s, y) = Home(s, x)
  <1>1. PICK h : h \in Scopes(s) /\ h = Home(s, x) /\ x \in ToSet(s.body[h])
    BY HomeExists
  <1>2. PICK i \in 1..Len(s.body[h]) : s.body[h][i] = x
    BY <1>1, ScopeIs DEF IsBody
  <1>3. \A y : y \in Before(s, x) <=> \E j \in 1..(i - 1) : s.body[h][j] = y
    <2>1. i \in 1..Len(s.body[h])
      OBVIOUS
    <2>2. h \in Scopes(s)
      BY <1>1
    <2>3. /\ Home(s, s.body[h][i]) = h
          /\ Before(s, s.body[h][i]) = Preceding(s.body[h], i)
      BY <2>1, <2>2, BeforeIs
    <2> QED  BY <1>2, <2>3 DEF Preceding
  <1>4. \A j \in 1..(i - 1) : j \in 1..Len(s.body[h]) /\ j # i
    BY <1>1, ScopeIs DEF IsBody
  <1>5. \A j \in 1..(i - 1) : s.body[h][j] \in ToSet(s.body[h]) /\ s.body[h][j] # x
    BY <1>1, <1>2, <1>4, ScopeIs DEF IsBody, Distinct
  <1>6. \A y \in ToSet(s.body[h]) : y \in Ids(s) /\ Home(s, y) = h
    BY <1>1, HomeIs
  <1> QED  BY <1>1, <1>3, <1>5, <1>6

-----------------------------------------------------------------------------
(***************************************************************************)
(* The three walks agree on a spec that is well made.                      *)
(***************************************************************************)

Good(s) ==
  /\ DOMAIN s = {"body", "node", "inside", "exit"}
  /\ IsTree(s) /\ IsWired(s)
  /\ \A x \in Ids(s) : IsNode(s.node[x]) /\ s.node[x].harvest \subseteq Hidden

\* A port is told by its two fields.
LEMMA PortIs ==
  ASSUME NEW x, NEW p
  PROVE  Port(x, p).node = x /\ Port(x, p).port = p
  BY DEF Port

\* The ports injected at the head of a body, as the runtime, the validator and
\* the enumerator have them.
LEMMA SeedsAgree ==
  ASSUME NEW s, NEW h
  PROVE  /\ h # Top => Injected(s, h) = SeedScope(s, h) /\ Injected(s, h) = BodySeedScope(s, h)
         /\ h = Top => Injected(s, h) = {InputSource} /\ BodySeedScope(s, h) = {}
         /\ h # Top => \A b \in Injected(s, h) : b = Port(h, "in") \/ b = Port(h, "chain")
  <1>1. CASE h = Top
    BY <1>1 DEF Injected, BodySeedScope
  <1>2. CASE h # Top /\ ~Seeded(s.node[h])
    BY <1>2 DEF Injected, SeedScope, BodySeedScope
  <1>3. CASE h # Top /\ Seeded(s.node[h])
    <2> DEFINE ports == {"in"} \cup {"chain" : f \in {"chainInput"} \cap DOMAIN s.node[h].binds}
    <2>1. Injected(s, h) = {Port(h, p) : p \in ports}
      BY <1>3 DEF Injected
    <2>2. CASE "chainInput" \in DOMAIN s.node[h].binds
      <3>1. ports = {"in", "chain"}
        BY <2>2
      <3> QED  BY <1>3, <2>1, <2>2, <3>1 DEF SeedScope, BodySeedScope
    <2>3. CASE "chainInput" \notin DOMAIN s.node[h].binds
      <3>1. ports = {"in"}
        BY <2>3
      <3> QED  BY <1>3, <2>1, <2>3, <3>1 DEF SeedScope, BodySeedScope
    <2> QED  BY <2>2, <2>3
  <1> QED  BY <1>1, <1>2, <1>3

\* The outputs of a set of nodes, one by one.
LEMMA OutputsAre ==
  ASSUME NEW s, NEW X
  PROVE  \A b : b \in Outputs(s, X) <=>
           \E y \in X : \E p \in ToSet(s.node[y].outs) \cup s.node[y].harvest : b = Port(y, p)
  BY DEF Outputs, Published

\* The runtime resolves a binding just if the validator accepts it.
LEMMA AcceptedResolves ==
  ASSUME NEW s, Good(s), NEW x \in Ids(s), NEW f \in DOMAIN s.node[x].binds \ Unchecked
  PROVE  Resolves(s, x, f) <=> s.node[x].binds[f] \in Accepted(s, x, f)
  <1> DEFINE b == s.node[x].binds[f]
             h == Home(s, x)
  <1>1. /\ b = InputSource => s.inside[x] = {} /\ ~OfBody(s.node[x], f)
        /\ OfBody(s.node[x], f) => b.port \notin Hidden
    BY DEF Good, IsWired
  <1>2. IsTree(s) /\ \A y \in Ids(s) : s.node[y].harvest \subseteq Hidden
    BY DEF Good
  <1>3. "in" \in Hidden /\ "chain" \in Hidden
    BY DEF Hidden
  <1> HIDE DEF b, h
  <1>4. CASE OfBody(s.node[x], f)
    <2>1. x \in Scopes(s) /\ x # Top
      <3>1. s.node[x].kind # "step"
        BY <1>4 DEF OfBody
      <3> QED  BY <1>2, <3>1 DEF IsTree, Leaves
    <2>2. IsBody(Ids(s), s.body[x])
      BY <1>2, <2>1, ScopeIs
    <2>3. b \notin Injected(s, x)
      BY <1>1, <1>3, <1>4, <2>1, SeedsAgree, PortIs
    <2>4. b # InputSource
      BY <1>1, <1>4
    <2>5. b \in Outputs(s, ToSet(s.body[x])) <=> b \in DirectChildOutputs(s, x)
      <3>1. ASSUME NEW y \in ToSet(s.body[x]), NEW p \in s.node[y].harvest, b = Port(y, p)
            PROVE  FALSE
        <4>1. y \in Ids(s)
          BY <2>2 DEF IsBody
        <4>2. b.port = p /\ p \in Hidden
          BY <1>2, <3>1, <4>1, PortIs
        <4> QED  BY <1>1, <1>4, <4>2
      <3>2. b \in Outputs(s, ToSet(s.body[x])) <=>
              \E y \in ToSet(s.body[x]) : \E p \in ToSet(s.node[y].outs) : b = Port(y, p)
        BY <3>1, OutputsAre
      <3> QED  BY <3>2 DEF DirectChildOutputs
    <2>6. Resolves(s, x, f) <=> b \in Injected(s, x) \cup Outputs(s, ToSet(s.body[x]))
      BY <1>4 DEF Resolves, AtExit, b
    <2>7. b \in Accepted(s, x, f) <=> b = InputSource \/ b \in DirectChildOutputs(s, x)
      BY <1>4 DEF Accepted
    <2> QED  BY <2>3, <2>4, <2>5, <2>6, <2>7 DEF b
  <1>5. CASE ~OfBody(s.node[x], f)
    <2>1. Resolves(s, x, f) <=> b \in Injected(s, h) \/ b \in Outputs(s, Before(s, x))
      BY <1>5 DEF Resolves, SeenBy, b, h
    <2>2. b \in Accepted(s, x, f) <=>
            b = InputSource \/ b \in SeedScope(s, h) \/ b \in ScopeOutputs(s, x)
      BY <1>5 DEF Accepted, h
    <2>3. b \in Outputs(s, Before(s, x)) <=> b \in ScopeOutputs(s, x)
      BY OutputsAre DEF ScopeOutputs
    <2>4. b = InputSource => h = Top
      BY <1>1, <1>2, NestedIs DEF h
    <2>5. CASE h = Top
      <3>1. Injected(s, h) = {InputSource} /\ SeedScope(s, h) = {}
        BY <2>5, SeedsAgree DEF SeedScope
      <3> QED  BY <2>1, <2>2, <2>3, <3>1 DEF b
    <2>6. CASE h # Top
      <3>1. Injected(s, h) = SeedScope(s, h)
        BY <2>6, SeedsAgree
      <3> QED  BY <2>1, <2>2, <2>3, <2>4, <2>6, <3>1 DEF b
    <2> QED  BY <2>5, <2>6
  <1> QED  BY <1>4, <1>5

\* In a spec that is well made exactly the throwing bindings are warned of.
LEMMA GoodIsWarned ==
  ASSUME NEW s, Good(s)
  PROVE  Warned(s) = {w \in Throws(s) : w[2] \notin Unchecked}
  <1> DEFINE all == UNION {{x} \X (DOMAIN s.node[x].binds \cup s.node[x].needs) : x \in Ids(s)}
             exits == {<<Top, "outputFrom">> : e \in {s.exit} \ AtExit(s, Top)}
  <1>1. ASSUME NEW w \in all, w[2] \notin Unchecked
        PROVE  (w[2] \in Unwired(s, w[1]) \/ s.node[w[1]].binds[w[2]] \notin Accepted(s, w[1], w[2]))
               <=> (w[2] \in Unwired(s, w[1]) \/ ~Resolves(s, w[1], w[2]))
    <2>1. w[1] \in Ids(s) /\ w[2] \in DOMAIN s.node[w[1]].binds \cup s.node[w[1]].needs
      OBVIOUS
    <2>2. CASE w[2] \in DOMAIN s.node[w[1]].binds
      BY <1>1, <2>1, <2>2, AcceptedResolves
    <2>3. CASE w[2] \notin DOMAIN s.node[w[1]].binds
      BY <2>1, <2>3 DEF Unwired
    <2> QED  BY <2>2, <2>3
  <1>2. \A w \in exits : w[2] \in Unchecked
    BY DEF Unchecked
  <1>3. Throws(s) = {w \in all : w[2] \in Unwired(s, w[1]) \/ ~Resolves(s, w[1], w[2])} \cup exits
    BY DEF Throws
  <1>4. Warned(s) = {w \in all : /\ w[2] \notin Unchecked
                                 /\ \/ w[2] \in Unwired(s, w[1])
                                    \/ s.node[w[1]].binds[w[2]] \notin Accepted(s, w[1], w[2])}
    BY DEF Warned
  <1> HIDE DEF all, exits
  <1> QED  BY <1>1, <1>2, <1>3, <1>4

\* In a spec that is well made the menu misses no wire that resolves.
LEMMA GoodIsOffered ==
  ASSUME NEW s, Good(s), NEW x \in Leaves(s), NEW p \in DOMAIN s.node[x].binds, Resolves(s, x, p)
  PROVE  LET b == s.node[x].binds[p]
         IN  \/ b \in LegalSources(s, x)
             \/ b.node \in Ids(s) /\ b.port \in s.node[b.node].harvest
  <1> DEFINE b == s.node[x].binds[p]
             h == Home(s, x)
  <1>1. x \in Ids(s) /\ ~OfBody(s.node[x], p)
    BY DEF Leaves, OfBody
  <1>2. b \in Injected(s, h) \/ b \in Outputs(s, Before(s, x))
    BY <1>1 DEF Resolves, SeenBy
  <1>3. LegalSources(s, x) = {InputSource : g \in {h} \cap {Top}} \cup BodySeedScope(s, h)
          \cup UNION {{Port(y, q) : q \in ToSet(s.node[y].outs)} : y \in Before(s, x)}
    BY DEF LegalSources
  <1>4. IsTree(s)
    BY DEF Good
  <1> HIDE DEF b, h
  <1>5. CASE b \in Injected(s, h)
    <2>1. CASE h = Top
      BY <1>3, <1>5, <2>1, SeedsAgree DEF b
    <2>2. CASE h # Top
      BY <1>3, <1>5, <2>2, SeedsAgree DEF b
    <2> QED  BY <2>1, <2>2
  <1>6. CASE b \in Outputs(s, Before(s, x))
    <2>0. PICK y \in Before(s, x) :
            \E q \in ToSet(s.node[y].outs) \cup s.node[y].harvest : b = Port(y, q)
      BY <1>6, OutputsAre
    <2>1. PICK q \in ToSet(s.node[y].outs) \cup s.node[y].harvest : b = Port(y, q)
      BY <2>0
    <2>2. y \in Ids(s)
      BY <1>1, <1>4, BeforeInHome
    <2>3. b.node = y /\ b.port = q
      BY <2>1, PortIs
    <2>4. CASE q \in ToSet(s.node[y].outs)
      BY <1>3, <2>1, <2>4 DEF b
    <2>5. CASE q \in s.node[y].harvest
      BY <2>2, <2>3, <2>5 DEF b
    <2> QED  BY <2>1, <2>4, <2>5
  <1> QED  BY <1>2, <1>5, <1>6

\* So the editor tells the truth of such a spec.
LEMMA GoodIsSeen ==
  ASSUME Good(spec), edits \in 0..MaxEdits
  PROVE  EditorSeesTheSpec
  <1>1. IsTree(spec)
    BY DEF Good
  <1>2. \A h \in Scopes(spec) : IsBody(Ids(spec), spec.body[h])
    BY <1>1, ScopeIs
  <1>3. TypeOK
    <2>1. UNION {ToSet(spec.body[h]) : h \in Scopes(spec)} \subseteq Ids(spec)
      BY <1>2 DEF IsBody
    <2>2. Ids(spec) \subseteq UNION {ToSet(spec.body[h]) : h \in Scopes(spec)}
      BY <1>1 DEF IsTree
    <2> QED  BY <1>1, <2>1, <2>2 DEF IsTree, TypeOK
  <1>4. IdsAreUnique
    BY <1>1 DEF IsTree, IdsAreUnique
  <1>5. ThrowsAreWarned
    BY GoodIsWarned DEF ThrowsAreWarned
  <1>6. WiresAreOffered
    BY GoodIsOffered DEF WiresAreOffered
  <1> QED  BY <1>3, <1>4, <1>5, <1>6 DEF EditorSeesTheSpec

-----------------------------------------------------------------------------
(***************************************************************************)
(* A subtree, and what a spec becomes when one is placed in it.            *)
(***************************************************************************)

IsSubtree(t) ==
  /\ t.root \in DOMAIN t.node /\ DOMAIN t.node \subseteq IdSet \ {Top, InputSource.node}
  /\ DOMAIN t.body = {x \in DOMAIN t.node : t.node[x].kind # "step"}
  /\ DOMAIN t.inside = DOMAIN t.node
  /\ \A h \in DOMAIN t.body : IsBody(DOMAIN t.node, t.body[h]) /\ t.root \notin ToSet(t.body[h])
  /\ \A g, h \in DOMAIN t.body : g # h => ToSet(t.body[g]) \cap ToSet(t.body[h]) = {}
  /\ \A x \in DOMAIN t.node \ {t.root} : \E h \in DOMAIN t.body : x \in ToSet(t.body[h])
  /\ t.inside[t.root] = {}
  /\ \A h \in DOMAIN t.body : \A x \in ToSet(t.body[h]) : t.inside[x] = t.inside[h] \cup {h}
  /\ \A x \in DOMAIN t.node : /\ t.inside[x] \subseteq DOMAIN t.body \ {x}
                              /\ \A y \in t.inside[x] : t.inside[y] \subseteq t.inside[x]

\* Its wires; `top` tells whether its root may read the message.
IsWiredIn(t, top) ==
  \A x \in DOMAIN t.node :
    /\ IsNode(t.node[x]) /\ t.node[x].harvest \subseteq Hidden
    /\ \A f \in DOMAIN t.node[x].binds \ Unchecked :
         /\ t.node[x].binds[f] = InputSource => top /\ x = t.root /\ ~OfBody(t.node[x], f)
         /\ OfBody(t.node[x], f) => t.node[x].binds[f].port \notin Hidden

\* To have every node in one place it is enough that the bodies have no node in
\* common and none twice.
LEMMA OnePlace ==
  ASSUME NEW s, NEW S,
         \A h \in Scopes(s) : IsBody(S, s.body[h]),
         \A g, h \in Scopes(s) : g # h => ToSet(s.body[g]) \cap ToSet(s.body[h]) = {}
  PROVE  \A g, h \in Scopes(s) : \A i \in DOMAIN s.body[g], j \in DOMAIN s.body[h] :
           s.body[g][i] = s.body[h][j] => g = h /\ i = j
  <1> SUFFICES ASSUME NEW g \in Scopes(s), NEW h \in Scopes(s),
                      NEW i \in DOMAIN s.body[g], NEW j \in DOMAIN s.body[h],
                      s.body[g][i] = s.body[h][j]
               PROVE  g = h /\ i = j
    OBVIOUS
  <1>1. IsBody(S, s.body[g]) /\ IsBody(S, s.body[h])
    OBVIOUS
  <1>2. s.body[g][i] \in ToSet(s.body[g]) /\ s.body[h][j] \in ToSet(s.body[h])
    BY <1>1 DEF IsBody
  <1>3. g = h
    BY <1>2
  <1>4. i \in 1..Len(s.body[g]) /\ j \in 1..Len(s.body[g]) /\ Distinct(s.body[g])
    BY <1>1, <1>3 DEF IsBody
  <1> QED  BY <1>3, <1>4 DEF Distinct

\* Two scopes of a tree have no node in common.
LEMMA ApartIs ==
  ASSUME NEW s, IsTree(s), NEW g \in Scopes(s), NEW h \in Scopes(s), g # h
  PROVE  ToSet(s.body[g]) \cap ToSet(s.body[h]) = {}
  BY HomeIs

\* A list of nodes of S is one of nodes of any larger set.
LEMMA WiderBody ==
  ASSUME NEW S, NEW T, NEW b, IsBody(S, b), \A x \in ToSet(b) : x \in T
  PROVE  IsBody(T, b)
  <1>1. /\ b \in Seq(S) /\ Len(b) \in Nat /\ DOMAIN b = 1..Len(b)
        /\ \A i \in 1..Len(b) : b[i] \in T
    BY DEF IsBody
  <1>2. b \in Seq(T)
    <2>1. b = [i \in 1..Len(b) |-> b[i]]
      BY <1>1, SeqDef
    <2>2. b \in [1..Len(b) -> T]
      BY <1>1, <2>1
    <2> QED  BY <1>1, <2>2, SeqDef
  <1> QED  BY <1>2 DEF IsBody

\* What u is when it is s with t as the i-th child of h.
IsGraft(s, h, i, t, u) ==
  /\ DOMAIN u = {"body", "node", "inside", "exit"} /\ u.exit = s.exit
  /\ Ids(u) = DOMAIN t.node \cup Ids(s) /\ DOMAIN u.inside = Ids(u)
  /\ \A x \in DOMAIN t.node : u.node[x] = t.node[x] /\ u.inside[x] = t.inside[x] \cup Enclosing(s, h)
  /\ \A x \in Ids(s) : x \notin DOMAIN t.node /\ u.node[x] = s.node[x] /\ u.inside[x] = s.inside[x]
  /\ Scopes(u) = DOMAIN t.body \cup Scopes(s)
  /\ \A g \in DOMAIN t.body : g \notin Scopes(s) /\ u.body[g] = t.body[g]
  /\ \A g \in Scopes(s) \ {h} : u.body[g] = s.body[g]
  /\ u.body[h] = InsertAt(s.body[h], i, t.root)

\* When that is a tree again.
Joinable(s, h, i, t) ==
  /\ Good(s) /\ IsSubtree(t) /\ DOMAIN t.node \cap Ids(s) = {}
  /\ h \in Scopes(s) /\ i \in 1..(Len(s.body[h]) + 1)

\* The operator does what it says.
LEMMA GraftedIs ==
  ASSUME NEW s, NEW h, NEW i, NEW t, Joinable(s, h, i, t)
  PROVE  IsGraft(s, h, i, t, Grafted(s, h, i, t))
  <1> DEFINE u == Grafted(s, h, i, t)
             bh == [s.body EXCEPT ![h] = InsertAt(s.body[h], i, t.root)]
             th == [x \in DOMAIN t.inside |-> t.inside[x] \cup Enclosing(s, h)]
  <1>1. /\ DOMAIN s = {"body", "node", "inside", "exit"}
        /\ DOMAIN s.inside = Ids(s) /\ Scopes(s) = {Top} \cup (Ids(s) \ Leaves(s))
        /\ h \in Scopes(s)
    BY DEF Joinable, Good, IsTree
  <1>2. /\ DOMAIN t.inside = DOMAIN t.node /\ DOMAIN t.body \subseteq DOMAIN t.node
        /\ Top \notin DOMAIN t.node /\ DOMAIN t.node \cap Ids(s) = {}
    BY DEF Joinable, IsSubtree
  <1>3. u = [s EXCEPT !.body = Over(t.body, bh), !.node = Over(t.node, s.node),
                      !.inside = Over(th, s.inside)]
    BY DEF Grafted
  <1>5. PICK v : v = u
    OBVIOUS
  <1>6. /\ DOMAIN v = {"body", "node", "inside", "exit"}
        /\ v.body = Over(t.body, bh) /\ v.node = Over(t.node, s.node)
        /\ v.inside = Over(th, s.inside) /\ v.exit = s.exit
    <2> HIDE DEF u, bh, th
    <2> QED  BY <1>1, <1>3, <1>5
  <1>7. /\ DOMAIN v.node = DOMAIN t.node \cup Ids(s)
        /\ \A x \in DOMAIN t.node : v.node[x] = t.node[x]
        /\ \A x \in Ids(s) : v.node[x] = s.node[x]
    <2>1. \A x \in Ids(s) : x \in DOMAIN s.node \ DOMAIN t.node
      BY <1>2 DEF Ids
    <2>2. /\ DOMAIN Over(t.node, s.node) = DOMAIN t.node \cup DOMAIN s.node
          /\ \A x \in DOMAIN t.node : Over(t.node, s.node)[x] = t.node[x]
          /\ \A x \in DOMAIN s.node \ DOMAIN t.node : Over(t.node, s.node)[x] = s.node[x]
      BY OverIs
    <2> QED  BY <1>6, <2>1, <2>2 DEF Ids
  <1>8. /\ DOMAIN v.inside = DOMAIN t.node \cup Ids(s)
        /\ \A x \in DOMAIN t.node : v.inside[x] = t.inside[x] \cup Enclosing(s, h)
        /\ \A x \in Ids(s) : v.inside[x] = s.inside[x]
    <2>1. DOMAIN th = DOMAIN t.node /\ \A x \in DOMAIN t.node : th[x] = t.inside[x] \cup Enclosing(s, h)
      BY <1>2
    <2> HIDE DEF th
    <2>2. /\ DOMAIN Over(th, s.inside) = DOMAIN th \cup DOMAIN s.inside
          /\ \A x \in DOMAIN th : Over(th, s.inside)[x] = th[x]
          /\ \A x \in DOMAIN s.inside \ DOMAIN th : Over(th, s.inside)[x] = s.inside[x]
      BY OverIs
    <2> QED  BY <1>1, <1>2, <1>6, <2>1, <2>2
  <1>9. /\ DOMAIN v.body = DOMAIN t.body \cup Scopes(s)
        /\ \A g \in DOMAIN t.body : g \notin Scopes(s) /\ v.body[g] = t.body[g]
        /\ \A g \in Scopes(s) \ {h} : v.body[g] = s.body[g]
        /\ v.body[h] = InsertAt(s.body[h], i, t.root)
    <2>1. DOMAIN bh = Scopes(s) /\ bh[h] = InsertAt(s.body[h], i, t.root)
      BY <1>1 DEF Scopes
    <2>2. \A g \in Scopes(s) \ {h} : bh[g] = s.body[g]
      BY <1>1 DEF Scopes
    <2>3. \A g \in DOMAIN t.body : g \notin Scopes(s)
      BY <1>1, <1>2
    <2> HIDE DEF bh
    <2>4. /\ DOMAIN Over(t.body, bh) = DOMAIN t.body \cup DOMAIN bh
          /\ \A x \in DOMAIN t.body : Over(t.body, bh)[x] = t.body[x]
          /\ \A x \in DOMAIN bh \ DOMAIN t.body : Over(t.body, bh)[x] = bh[x]
      BY OverIs
    <2>5. \A g \in Scopes(s) : g \in DOMAIN bh \ DOMAIN t.body
      BY <2>1, <2>3
    <2> QED  BY <1>1, <1>6, <2>1, <2>2, <2>3, <2>4, <2>5
  <1> HIDE DEF u
  <1>10. IsGraft(s, h, i, t, v)
    BY <1>2, <1>6, <1>7, <1>8, <1>9 DEF IsGraft, Ids, Scopes
  <1> QED  BY <1>5, <1>10 DEF u

\* A subtree of new nodes leaves a tree.
LEMMA GraftIsTree ==
  ASSUME NEW s, NEW h, NEW i, NEW t, Joinable(s, h, i, t), NEW u, IsGraft(s, h, i, t, u)
  PROVE  IsTree(u)
  <1> DEFINE N == DOMAIN t.node
             C == DOMAIN t.body
             b == s.body[h]
             c == InsertAt(s.body[h], i, t.root)
  <1>1. /\ Good(s) /\ IsTree(s) /\ IsSubtree(t) /\ N \cap Ids(s) = {}
        /\ h \in Scopes(s) /\ i \in 1..(Len(b) + 1) /\ t.root \in N
    BY DEF Joinable, Good, IsSubtree
  <1>2. /\ Ids(u) = N \cup Ids(s) /\ DOMAIN u.inside = Ids(u) /\ Scopes(u) = C \cup Scopes(s)
        /\ \A x \in N : u.node[x] = t.node[x] /\ u.inside[x] = t.inside[x] \cup Enclosing(s, h)
        /\ \A x \in Ids(s) : x \notin N /\ u.node[x] = s.node[x] /\ u.inside[x] = s.inside[x]
        /\ \A g \in C : g \notin Scopes(s) /\ u.body[g] = t.body[g]
        /\ \A g \in Scopes(s) \ {h} : u.body[g] = s.body[g]
        /\ u.body[h] = c
    BY DEF IsGraft
  <1>3. IsBody(Ids(s), b)
    BY <1>1, ScopeIs
  <1>4. IsBody(Ids(u), c) /\ ToSet(c) = ToSet(b) \cup {t.root}
    <2>1. IsBody(Ids(u), b) /\ t.root \notin ToSet(b) /\ t.root \in Ids(u)
      BY <1>1, <1>2, <1>3, WiderBody DEF IsBody
    <2>2. b \in Seq(Ids(u)) /\ Distinct(b)
      BY <2>1 DEF IsBody
    <2>3. ToSet(c) = ToSet(b) \cup {t.root} /\ Distinct(c)
      BY <1>1, <2>1, <2>2, InsertAtKeepsDistinct
    <2>4. c \in Seq(Ids(u))
      BY <1>1, <2>1, <2>2, InsertAtIs
    <2> QED  BY <2>3, <2>4, SequenceIs DEF IsBody
  <1> HIDE DEF b, c
  <1>5. \A g \in C : IsBody(Ids(u), u.body[g]) /\ \A x \in ToSet(u.body[g]) : x \in N \ {t.root}
    <2> SUFFICES ASSUME NEW g \in C
                 PROVE  IsBody(Ids(u), u.body[g]) /\ \A x \in ToSet(u.body[g]) : x \in N \ {t.root}
      OBVIOUS
    <2>1. IsBody(N, t.body[g]) /\ t.root \notin ToSet(t.body[g])
      BY <1>1 DEF IsSubtree
    <2>2. \A x \in ToSet(t.body[g]) : x \in N
      BY <2>1 DEF IsBody
    <2> QED  BY <1>2, <2>1, <2>2, WiderBody
  <1>6. \A g \in Scopes(s) \ {h} : IsBody(Ids(u), u.body[g]) /\ \A x \in ToSet(u.body[g]) : x \in Ids(s)
    <2> SUFFICES ASSUME NEW g \in Scopes(s) \ {h}
                 PROVE  IsBody(Ids(u), u.body[g]) /\ \A x \in ToSet(u.body[g]) : x \in Ids(s)
      OBVIOUS
    <2>1. IsBody(Ids(s), s.body[g])
      BY <1>1, ScopeIs
    <2>2. \A x \in ToSet(s.body[g]) : x \in Ids(s)
      BY <2>1 DEF IsBody
    <2> QED  BY <1>2, <2>1, <2>2, WiderBody
  <1>7. \A g \in Scopes(u) : IsBody(Ids(u), u.body[g])
    BY <1>2, <1>4, <1>5, <1>6
  <1>8. ToSet(u.body[h]) = ToSet(b) \cup {t.root} /\ \A x \in ToSet(b) : x \in Ids(s)
    BY <1>2, <1>3, <1>4 DEF IsBody
  <1>9. \A g, k \in Scopes(u) : g # k => ToSet(u.body[g]) \cap ToSet(u.body[k]) = {}
    <2> SUFFICES ASSUME NEW g \in Scopes(u), NEW k \in Scopes(u), NEW x,
                        x \in ToSet(u.body[g]), x \in ToSet(u.body[k]), g # k
                 PROVE  FALSE
      OBVIOUS
    <2>1. CASE g \in C /\ k \in C
      <3>1. ToSet(t.body[g]) \cap ToSet(t.body[k]) = {}
        BY <1>1, <2>1 DEF IsSubtree
      <3> QED  BY <1>2, <2>1, <3>1
    <2>2. CASE (g \in C) # (k \in C)
      <3>1. ASSUME NEW d \in C, NEW e \in Scopes(s) PROVE ToSet(u.body[d]) \cap ToSet(u.body[e]) = {}
        <4>1. ToSet(u.body[d]) \subseteq N /\ t.root \notin ToSet(u.body[d])
          BY <1>1, <1>2, <1>5
        <4>2. ToSet(u.body[e]) \subseteq Ids(s) \cup {t.root}
          BY <1>2, <1>6, <1>8
        <4> QED  BY <1>1, <4>1, <4>2
      <3> QED  BY <1>2, <2>2, <3>1
    <2>3. CASE g \notin C /\ k \notin C
      <3>1. g \in Scopes(s) /\ k \in Scopes(s)
        BY <1>2, <2>3
      <3>2. ToSet(s.body[g]) \cap ToSet(s.body[k]) = {}
        BY <1>1, <3>1, ApartIs
      <3>3. x \in ToSet(s.body[g]) \/ (g = h /\ x = t.root)
        BY <1>2, <1>8, <3>1 DEF b
      <3>4. x \in ToSet(s.body[k]) \/ (k = h /\ x = t.root)
        BY <1>2, <1>8, <3>1 DEF b
      <3>5. x \in Ids(s)
        BY <1>6, <1>8, <3>1
      <3> QED  BY <1>1, <3>2, <3>3, <3>4, <3>5
    <2> QED  BY <2>1, <2>2, <2>3
  <1>10. \A g, k \in Scopes(u) : \A m \in DOMAIN u.body[g], n \in DOMAIN u.body[k] :
           u.body[g][m] = u.body[k][n] => g = k /\ m = n
    BY <1>7, <1>9, OnePlace
  <1>11. Ids(u) \subseteq IdSet \ {Top, InputSource.node}
    BY <1>1, <1>2 DEF IsTree, IsSubtree
  <1>12. Scopes(u) = {Top} \cup (Ids(u) \ Leaves(u))
    <2>1. C = {x \in N : t.node[x].kind # "step"}
      BY <1>1 DEF IsSubtree
    <2>2. Scopes(s) = {Top} \cup (Ids(s) \ Leaves(s))
      BY <1>1 DEF IsTree
    <2>3. Ids(u) \ Leaves(u) = C \cup (Ids(s) \ Leaves(s))
      BY <1>2, <2>1 DEF Leaves
    <2> QED  BY <1>2, <2>2, <2>3
  <1>13. \A x \in Ids(u) : \E g \in Scopes(u) : x \in ToSet(u.body[g])
    <2> SUFFICES ASSUME NEW x \in Ids(u) PROVE \E g \in Scopes(u) : x \in ToSet(u.body[g])
      OBVIOUS
    <2>1. CASE x = t.root
      BY <1>1, <1>2, <1>8, <2>1
    <2>2. CASE x \in N \ {t.root}
      <3>1. PICK g \in C : x \in ToSet(t.body[g])
        BY <1>1, <2>2 DEF IsSubtree
      <3> QED  BY <1>2, <3>1
    <2>3. CASE x \in Ids(s)
      <3>1. PICK g \in Scopes(s) : x \in ToSet(s.body[g])
        BY <1>1, <2>3 DEF IsTree
      <3> QED  BY <1>2, <1>8, <3>1 DEF b
    <2> QED  BY <1>2, <2>1, <2>2, <2>3
  <1>14. Enclosing(s, h) \subseteq Scopes(s) \ {Top}
         /\ \A y \in Enclosing(s, h) : s.inside[y] \subseteq Enclosing(s, h) /\ y \in Ids(s)
    <2>1. CASE h = Top
      BY <2>1 DEF Enclosing
    <2>2. CASE h # Top
      <3>1. h \in Ids(s) /\ Enclosing(s, h) = s.inside[h] \cup {h}
        BY <1>1, <2>2 DEF Enclosing, IsTree
      <3>2. /\ s.inside[h] \subseteq Scopes(s) \ {Top, h}
            /\ \A y \in s.inside[h] : s.inside[y] \subseteq s.inside[h]
        BY <1>1, <3>1 DEF IsTree
      <3>3. Scopes(s) \ {Top} \subseteq Ids(s)
        BY <1>1 DEF IsTree
      <3> QED  BY <1>1, <2>2, <3>1, <3>2, <3>3
    <2> QED  BY <2>1, <2>2
  <1>15. \A g \in Scopes(u) : \A x \in ToSet(u.body[g]) : u.inside[x] = Enclosing(u, g)
    <2> SUFFICES ASSUME NEW g \in Scopes(u), NEW x \in ToSet(u.body[g])
                 PROVE  u.inside[x] = Enclosing(u, g)
      OBVIOUS
    <2>1. CASE g \in C
      <3>1. g # Top /\ g \in N
        BY <1>1, <2>1 DEF IsSubtree
      <3>2. x \in N /\ t.inside[x] = t.inside[g] \cup {g}
        BY <1>1, <1>2, <1>5, <2>1 DEF IsSubtree
      <3> QED  BY <1>2, <3>1, <3>2 DEF Enclosing
    <2>2. CASE g \notin C
      <3>1. g \in Scopes(s)
        BY <1>2, <2>2
      <3>2. Enclosing(u, g) = Enclosing(s, g)
        BY <1>1, <1>2, <3>1 DEF Enclosing, IsTree
      <3>3. CASE x = t.root /\ g = h
        <4>1. t.inside[x] = {}
          BY <1>1, <3>3 DEF IsSubtree
        <4>2. t.root \in N /\ u.inside[x] = t.inside[x] \cup Enclosing(s, h)
          BY <1>1, <1>2, <3>3
        <4> QED  BY <3>2, <3>3, <4>1, <4>2
      <3>4. CASE x \in ToSet(s.body[g])
        <4>1. x \in Ids(s) /\ s.inside[x] = Enclosing(s, g)
          BY <1>1, <3>1, <3>4, HomeIs
        <4> QED  BY <1>2, <3>2, <4>1
      <3> QED  BY <1>2, <1>8, <3>1, <3>3, <3>4 DEF b
    <2> QED  BY <2>1, <2>2
  <1>16. \A x \in Ids(u) : /\ u.inside[x] \subseteq Scopes(u) \ {Top, x}
                           /\ \A y \in u.inside[x] : u.inside[y] \subseteq u.inside[x]
    <2> SUFFICES ASSUME NEW x \in Ids(u)
                 PROVE  /\ u.inside[x] \subseteq Scopes(u) \ {Top, x}
                        /\ \A y \in u.inside[x] : u.inside[y] \subseteq u.inside[x]
      OBVIOUS
    <2>1. CASE x \in N
      <3>1. u.inside[x] = t.inside[x] \cup Enclosing(s, h)
        BY <1>2, <2>1
      <3>2. t.inside[x] \subseteq C \ {x} /\ \A y \in t.inside[x] : t.inside[y] \subseteq t.inside[x]
        BY <1>1, <2>1 DEF IsSubtree
      <3>3. C \subseteq N /\ Top \notin N
        BY <1>1 DEF IsSubtree
      <3>4. \A y \in t.inside[x] : u.inside[y] = t.inside[y] \cup Enclosing(s, h)
        BY <1>2, <3>2, <3>3
      <3>5. \A y \in Enclosing(s, h) : u.inside[y] \subseteq Enclosing(s, h) /\ y # x
        BY <1>1, <1>2, <1>14, <2>1
      <3> QED  BY <1>2, <1>14, <3>1, <3>2, <3>3, <3>4, <3>5
    <2>2. CASE x \in Ids(s)
      <3>1. u.inside[x] = s.inside[x]
        BY <1>2, <2>2
      <3>2. /\ s.inside[x] \subseteq Scopes(s) \ {Top, x}
            /\ \A y \in s.inside[x] : s.inside[y] \subseteq s.inside[x]
        BY <1>1, <2>2 DEF IsTree
      <3>3. Scopes(s) \ {Top} \subseteq Ids(s)
        BY <1>1 DEF IsTree
      <3>4. \A y \in s.inside[x] : u.inside[y] = s.inside[y]
        BY <1>2, <3>2, <3>3
      <3> QED  BY <1>2, <3>1, <3>2, <3>4
    <2> QED  BY <1>2, <2>1, <2>2
  <1>17. \A g \in Scopes(u) : u.body[g] \in Seq(Ids(u))
    BY <1>7 DEF IsBody
  <1> QED  BY <1>2, <1>10, <1>11, <1>12, <1>13, <1>15, <1>16, <1>17 DEF IsTree

\* And when its wires are well made, so is the whole.
LEMMA GraftIsGood ==
  ASSUME NEW s, NEW h, NEW i, NEW t, Joinable(s, h, i, t), IsWiredIn(t, h = Top)
  PROVE  Good(Grafted(s, h, i, t))
  <1>1. PICK u : u = Grafted(s, h, i, t)
    OBVIOUS
  <1>2. IsGraft(s, h, i, t, u)
    BY <1>1, GraftedIs
  <1>3. IsTree(u)
    BY <1>2, GraftIsTree
  <1>4. /\ DOMAIN u = {"body", "node", "inside", "exit"}
        /\ Ids(u) = DOMAIN t.node \cup Ids(s)
        /\ \A x \in DOMAIN t.node : u.node[x] = t.node[x] /\ u.inside[x] = t.inside[x] \cup Enclosing(s, h)
        /\ \A x \in Ids(s) : u.node[x] = s.node[x] /\ u.inside[x] = s.inside[x]
    BY <1>2 DEF IsGraft
  <1>5. \A x \in Ids(u) : IsNode(u.node[x]) /\ u.node[x].harvest \subseteq Hidden
    BY <1>4 DEF IsWiredIn, Joinable, Good
  <1>6. IsWired(u)
    <2> SUFFICES ASSUME NEW x \in Ids(u), NEW f \in DOMAIN u.node[x].binds \ Unchecked
                 PROVE  /\ u.node[x].binds[f] = InputSource => u.inside[x] = {} /\ ~OfBody(u.node[x], f)
                        /\ OfBody(u.node[x], f) => u.node[x].binds[f].port \notin Hidden
      BY DEF IsWired
    <2>1. CASE x \in Ids(s)
      BY <1>4, <2>1 DEF Joinable, Good, IsWired
    <2>2. CASE x \in DOMAIN t.node
      <3>1. t.inside[t.root] = {} /\ (h = Top => Enclosing(s, h) = {})
        BY DEF Joinable, IsSubtree, Enclosing
      <3>2. h = Top /\ x = t.root => u.inside[x] = {}
        BY <1>4, <2>2, <3>1
      <3> QED  BY <1>4, <2>2, <3>2 DEF IsWiredIn
    <2> QED  BY <1>4, <2>1, <2>2
  <1> QED  BY <1>1, <1>3, <1>4, <1>5, <1>6 DEF Good

-----------------------------------------------------------------------------
(***************************************************************************)
(* Edits of one node's wires.                                              *)
(***************************************************************************)

ArePorts(B) == B = [f \in DOMAIN B |-> Port(B[f].node, B[f].port)]

\* Two nodes that differ in their bindings only.
SameButBinds(n, m) ==
  /\ m.kind = n.kind /\ m.ins = n.ins /\ m.needs = n.needs /\ m.outs = n.outs
  /\ m.harvest = n.harvest

\* A node stays a node under other bindings.
LEMMA NodeRebound ==
  ASSUME NEW n, IsNode(n), NEW B, ArePorts(B),
         n.kind = "group" => DOMAIN B \subseteq {"seedInput", "bodyOutput"}
  PROVE  LET m == [n EXCEPT !.binds = B]
         IN  IsNode(m) /\ m.binds = B /\ SameButBinds(n, m)
  <1> DEFINE m == [n EXCEPT !.binds = B]
  <1>1. DOMAIN n = {"kind", "ins", "needs", "outs", "binds", "harvest"}
    BY DEF IsNode
  <1>2. /\ DOMAIN m = DOMAIN n /\ m.binds = B /\ m.kind = n.kind /\ m.ins = n.ins
        /\ m.needs = n.needs /\ m.outs = n.outs /\ m.harvest = n.harvest
    BY <1>1
  <1> HIDE DEF m
  <1>3. IsNode(m)
    BY <1>1, <1>2 DEF IsNode, ArePorts
  <1> QED  BY <1>2, <1>3 DEF m, SameButBinds

\* Ports written over ports are ports.
LEMMA OverIsPorts ==
  ASSUME NEW A, NEW B, ArePorts(A), ArePorts(B)
  PROVE  ArePorts(Over(A, B))
  <1>1. PICK o : o = Over(A, B)
    OBVIOUS
  <1>2. /\ DOMAIN o = DOMAIN A \cup DOMAIN B
        /\ \A x \in DOMAIN A : o[x] = A[x]
        /\ \A x \in DOMAIN B \ DOMAIN A : o[x] = B[x]
        /\ o = [x \in DOMAIN o |-> o[x]]
    BY <1>1 DEF Over
  <1>3. /\ \A x \in DOMAIN A : A[x] = Port(A[x].node, A[x].port)
        /\ \A x \in DOMAIN B : B[x] = Port(B[x].node, B[x].port)
    BY DEF ArePorts
  <1>4. \A x \in DOMAIN o : o[x] = Port(o[x].node, o[x].port)
    BY <1>2, <1>3
  <1>5. o = [x \in DOMAIN o |-> Port(o[x].node, o[x].port)]
    BY <1>2, <1>4
  <1> QED  BY <1>1, <1>5 DEF ArePorts

\* u is s with the wires B at the leaf x.
Rewired(s, x, B) == [s EXCEPT !.node[x].binds = B]

\* What u is when it is s with the bindings B at x.
IsRewired(s, x, B, u) ==
  /\ DOMAIN u = DOMAIN s /\ u.body = s.body /\ u.inside = s.inside
  /\ u.exit = s.exit /\ DOMAIN u.node = DOMAIN s.node
  /\ \A y \in DOMAIN s.node \ {x} : u.node[y] = s.node[y]
  /\ u.node[x].binds = B /\ IsNode(u.node[x]) /\ SameButBinds(s.node[x], u.node[x])

\* The operator does what it says.
LEMMA RewiredIs ==
  ASSUME NEW s, Good(s), NEW x \in Leaves(s), NEW B, ArePorts(B)
  PROVE  IsRewired(s, x, B, Rewired(s, x, B))
  <1>1. /\ DOMAIN s = {"body", "node", "inside", "exit"}
        /\ x \in Ids(s) /\ IsNode(s.node[x]) /\ s.node[x].kind = "step"
    BY DEF Good, Leaves
  <1>2. PICK m : m = [s.node[x] EXCEPT !.binds = B]
    OBVIOUS
  <1>3. IsNode(m) /\ m.binds = B /\ SameButBinds(s.node[x], m)
    BY <1>1, <1>2, NodeRebound
  <1>4. PICK u : u = Rewired(s, x, B)
    OBVIOUS
  <1>5. u = [s EXCEPT !.node = [s.node EXCEPT ![x] = m]]
    BY <1>2, <1>4 DEF Rewired
  <1>6. PICK nn : nn = [s.node EXCEPT ![x] = m]
    OBVIOUS
  <1>7. DOMAIN nn = DOMAIN s.node /\ nn[x] = m /\ \A y \in DOMAIN s.node \ {x} : nn[y] = s.node[y]
    BY <1>1, <1>6 DEF Ids
  <1>8. u = [s EXCEPT !.node = nn]
    BY <1>5, <1>6
  <1>9. /\ DOMAIN u = DOMAIN s /\ u.body = s.body /\ u.inside = s.inside
        /\ u.exit = s.exit /\ u.node = nn
    BY <1>1, <1>8
  <1>10. IsRewired(s, x, B, u)
    BY <1>3, <1>7, <1>9 DEF IsRewired
  <1> QED  BY <1>4, <1>10

\* New bindings leave the tree alone; the spec is well made if they are.
LEMMA RewiredIsGood ==
  ASSUME NEW s, Good(s), NEW x \in Leaves(s), NEW B, ArePorts(B),
         (\E f \in DOMAIN B \ Unchecked : B[f] = InputSource) => s.inside[x] = {},
         NEW u, IsRewired(s, x, B, u)
  PROVE  /\ Good(u) /\ Ids(u) = Ids(s) /\ Scopes(u) = Scopes(s) /\ Leaves(u) = Leaves(s)
         /\ \A h \in Scopes(s) : Injected(u, h) = Injected(s, h)
         /\ \A X : X \subseteq Ids(s) => Outputs(u, X) = Outputs(s, X)
         /\ \A y : Home(u, y) = Home(s, y) /\ Before(u, y) = Before(s, y)
  <1>1. /\ DOMAIN s = {"body", "node", "inside", "exit"} /\ DOMAIN u = DOMAIN s
        /\ u.body = s.body /\ u.inside = s.inside /\ u.exit = s.exit /\ DOMAIN u.node = DOMAIN s.node
        /\ \A y \in Ids(s) \ {x} : u.node[y] = s.node[y]
        /\ u.node[x].binds = B /\ IsNode(u.node[x]) /\ SameButBinds(s.node[x], u.node[x])
    BY DEF IsRewired, Ids, Good
  <1>2. Ids(u) = Ids(s) /\ Scopes(u) = Scopes(s) /\ x \in Ids(s) /\ s.node[x].kind = "step"
    BY <1>1 DEF Ids, Scopes, Leaves
  <1>3. \A y \in Ids(s) : SameButBinds(s.node[y], u.node[y])
    BY <1>1 DEF SameButBinds
  <1>4. Leaves(u) = Leaves(s)
    BY <1>2, <1>3 DEF Leaves, SameButBinds
  <1>5. IsTree(s) /\ IsWired(s) /\ \A y \in Ids(s) : IsNode(s.node[y]) /\ s.node[y].harvest \subseteq Hidden
    BY DEF Good
  <1>6. \A h : Enclosing(u, h) = Enclosing(s, h)
    BY <1>1 DEF Enclosing
  <1>7. IsTree(u)
    BY <1>1, <1>2, <1>4, <1>5, <1>6 DEF IsTree
  <1>8. \A y \in Ids(u) : IsNode(u.node[y]) /\ u.node[y].harvest \subseteq Hidden
    <2> TAKE y \in Ids(u)
    <2>1. CASE y = x
      BY <1>1, <1>2, <1>5, <2>1 DEF SameButBinds
    <2>2. CASE y # x
      BY <1>1, <1>2, <1>5, <2>2
    <2> QED  BY <2>1, <2>2
  <1>9. IsWired(u)
    <2> SUFFICES ASSUME NEW y \in Ids(s), NEW f \in DOMAIN u.node[y].binds \ Unchecked
                 PROVE  /\ u.node[y].binds[f] = InputSource => u.inside[y] = {} /\ ~OfBody(u.node[y], f)
                        /\ OfBody(u.node[y], f) => u.node[y].binds[f].port \notin Hidden
      BY <1>2 DEF IsWired
    <2>1. CASE y = x
      <3>1. ~OfBody(u.node[x], f)
        BY <1>1, <1>2 DEF OfBody, SameButBinds
      <3> QED  BY <1>1, <2>1, <3>1
    <2>2. CASE y # x
      <3>1. u.node[y] = s.node[y] /\ u.inside[y] = s.inside[y]
        BY <1>1, <2>2
      <3> QED  BY <1>5, <3>1 DEF IsWired
    <2> QED  BY <2>1, <2>2
  <1>10. \A h \in Scopes(s) : Injected(u, h) = Injected(s, h)
    <2> SUFFICES ASSUME NEW h \in Scopes(s) PROVE Injected(u, h) = Injected(s, h)
      OBVIOUS
    <2>1. CASE h = Top
      BY <2>1 DEF Injected
    <2>2. CASE h # Top
      <3>1. h \in Ids(s) /\ h # x
        BY <1>5, <2>2 DEF IsTree
      <3>2. u.node[h] = s.node[h]
        BY <1>1, <3>1
      <3> QED  BY <3>2 DEF Injected
    <2> QED  BY <2>1, <2>2
  <1>11. \A X : X \subseteq Ids(s) => Outputs(u, X) = Outputs(s, X)
    <2> SUFFICES ASSUME NEW X, X \subseteq Ids(s) PROVE Outputs(u, X) = Outputs(s, X)
      OBVIOUS
    <2>1. \A y \in X : Published(u.node[y]) = Published(s.node[y])
      BY <1>3 DEF Published, SameButBinds
    <2> QED  BY <2>1 DEF Outputs
  <1>12. \A y : Home(u, y) = Home(s, y)
    BY <1>1, <1>2 DEF Home
  <1>13. \A y : Before(u, y) = Before(s, y)
    BY <1>1, <1>12 DEF Before
  <1> QED  BY <1>1, <1>2, <1>4, <1>7, <1>8, <1>9, <1>10, <1>11, <1>12, <1>13 DEF Good

\* The seeds the enumerator knows of are the ports the runtime injects.
LEMMA SeedsAreInjected ==
  ASSUME NEW s, NEW h
  PROVE  BodySeedScope(s, h) \subseteq Injected(s, h)
  BY SeedsAgree

\* Every source the enumerator offers is one the runtime resolves at that point
\* of the walk (legalSourcesForInput against resolveBinding).
LEMMA OfferedIsSeen ==
  ASSUME NEW s, NEW x \in Leaves(s)
  PROVE  LegalSources(s, x) \subseteq SeenBy(s, x)
  <1> SUFFICES ASSUME NEW b \in LegalSources(s, x)
               PROVE  b \in SeenBy(s, x)
    OBVIOUS
  <1>1. CASE b \in {InputSource : h \in {Home(s, x)} \cap {Top}}
    BY <1>1 DEF SeenBy, Injected
  <1>2. CASE b \in BodySeedScope(s, Home(s, x))
    BY <1>2, SeedsAreInjected DEF SeenBy
  <1>3. CASE b \in UNION {{Port(y, p) : p \in ToSet(s.node[y].outs)} : y \in Before(s, x)}
    <2>1. PICK y \in Before(s, x) : b \in {Port(y, p) : p \in ToSet(s.node[y].outs)}
      BY <1>3
    <2>2. PICK p \in ToSet(s.node[y].outs) : b = Port(y, p)
      BY <2>1
    <2>3. b \in Outputs(s, Before(s, x))
      BY <2>2, OutputsAre
    <2> QED  BY <2>3 DEF SeenBy
  <1> QED  BY <1>1, <1>2, <1>3 DEF LegalSources

\* A source that is offered is the message, a seed, or an output of a sibling
\* before.
LEMMA LegalIs ==
  ASSUME NEW s, Good(s), NEW x \in Leaves(s), NEW b \in LegalSources(s, x)
  PROVE  /\ b = Port(b.node, b.port)
         /\ b = InputSource => s.inside[x] = {}
         /\ b.node \in Leaves(s) => b.node \in Before(s, x)
  <1> DEFINE h == Home(s, x)
  <1>1. IsTree(s) /\ x \in Ids(s) /\ InputSource.node \notin Ids(s)
    BY DEF Good, IsTree, Leaves
  <1>2. InputSource = Port(InputSource.node, "out") /\ \A y, p : Port(y, p).node = y
    BY DEF InputSource, Port
  <1>3. CASE b \in {InputSource : g \in {h} \cap {Top}}
    <2>1. h = Top /\ b = InputSource
      BY <1>3
    <2>2. b.node \notin Ids(s)
      BY <1>1, <2>1
    <2>3. b = Port(b.node, b.port)
      <3>1. b.node = InputSource.node /\ b.port = "out"
        BY <1>2, <2>1, PortIs
      <3> QED  BY <1>2, <2>1, <3>1
    <2>4. s.inside[x] = {}
      BY <1>1, <2>1, NestedIs
    <2>5. b.node \notin Leaves(s)
      BY <2>2 DEF Leaves
    <2> QED  BY <2>3, <2>4, <2>5
  <1>4. CASE b \in BodySeedScope(s, h)
    <2>1. h # Top
      BY <1>4 DEF BodySeedScope
    <2>2. h \in Ids(s) \ Leaves(s)
      BY <1>1, <2>1, NestedIs
    <2>3. b = Port(h, "in") \/ b = Port(h, "chain")
      BY <1>4, <2>1, SeedsAgree
    <2> QED  BY <1>1, <1>2, <2>2, <2>3, PortIs
  <1>5. CASE b \in UNION {{Port(y, p) : p \in ToSet(s.node[y].outs)} : y \in Before(s, x)}
    <2>1. PICK y \in Before(s, x) : b \in {Port(y, p) : p \in ToSet(s.node[y].outs)}
      BY <1>5
    <2>2. PICK p : b = Port(y, p)
      BY <2>1
    <2>3. y \in Ids(s)
      BY <1>1, BeforeInHome
    <2> QED  BY <1>1, <1>2, <2>2, <2>3, PortIs
  <1>6. LegalSources(s, x) = {InputSource : g \in {h} \cap {Top}} \cup BodySeedScope(s, h)
          \cup UNION {{Port(y, q) : q \in ToSet(s.node[y].outs)} : y \in Before(s, x)}
    BY DEF LegalSources
  <1> QED  BY <1>3, <1>4, <1>5, <1>6

\* A source clicked on the canvas is offered by its first output.
LEMMA ClickedIsLegal ==
  ASSUME NEW s, Good(s), NEW x \in Leaves(s), NEW y \in Leaves(s),
         NEW c \in LegalSources(s, x), c.node = y
  PROVE  Port(y, s.node[y].outs[1]) \in LegalSources(s, x)
  <1>1. y \in Before(s, x)
    BY LegalIs
  <1>2. s.node[y].outs \in Seq(STRING) \ {<<>>}
    BY DEF Good, IsNode, Leaves
  <1>3. s.node[y].outs[1] \in ToSet(s.node[y].outs)
    <2>1. PICK b : b = s.node[y].outs
      OBVIOUS
    <2>2. b \in Seq(STRING) /\ b # <<>>
      BY <1>2, <2>1
    <2>3. Len(b) \in Nat /\ Len(b) # 0
      BY <2>2, LenProperties
    <2>4. 1 \in 1..Len(b)
      BY <2>3
    <2>5. b[1] \in ToSet(b)
      BY <2>2, <2>4, SequenceIs
    <2> QED  BY <2>1, <2>5
  <1> QED  BY <1>1, <1>3 DEF LegalSources

\* What binding a port makes of the spec.
LEMMA BoundIsGood ==
  ASSUME NEW s, Good(s), NEW x \in Leaves(s), NEW p, NEW b \in LegalSources(s, x),
         NEW u, u = Bound(s, x, p, b)
  PROVE  /\ Good(u) /\ Ids(u) = Ids(s)
         /\ \A y \in Ids(s) : \A f \in DOMAIN u.node[y].binds :
              \/ f \in DOMAIN s.node[y].binds /\ s.node[y].binds[f] = u.node[y].binds[f]
              \/ Resolves(u, y, f)
  <1>1. x \in Ids(s) /\ s.node[x].kind = "step" /\ IsTree(s) /\ IsWired(s) /\ IsNode(s.node[x])
    BY DEF Good, Leaves
  <1>2. PICK A : A = s.node[x].binds
    OBVIOUS
  <1>3. ArePorts(A)
    BY <1>1, <1>2 DEF IsNode, ArePorts
  <1>4. PICK o : o = Only(p, b)
    OBVIOUS
  <1>5. DOMAIN o = {p} /\ o[p] = b /\ o = [y \in {p} |-> b]
    BY <1>4 DEF Only
  <1>6. ArePorts(o)
    BY <1>5, LegalIs DEF ArePorts
  <1>7. PICK B : B = Over(o, A)
    OBVIOUS
  <1>8. ArePorts(B)
    BY <1>3, <1>6, <1>7, OverIsPorts
  <1>9. /\ DOMAIN B = {p} \cup DOMAIN A /\ B[p] = b
        /\ \A f \in DOMAIN A \ {p} : B[f] = A[f]
    <2>1. /\ DOMAIN Over(o, A) = DOMAIN o \cup DOMAIN A
          /\ \A y \in DOMAIN o : Over(o, A)[y] = o[y]
          /\ \A y \in DOMAIN A \ DOMAIN o : Over(o, A)[y] = A[y]
      BY OverIs
    <2> QED  BY <1>5, <1>7, <2>1
  <1>10. u = Rewired(s, x, B)
    BY <1>2, <1>4, <1>7 DEF Bound, Rewired
  <1>11. IsRewired(s, x, B, u)
    BY <1>8, <1>10, RewiredIs
  <1>12. (\E f \in DOMAIN B \ Unchecked : B[f] = InputSource) => s.inside[x] = {}
    <2> SUFFICES ASSUME NEW f \in DOMAIN B \ Unchecked, B[f] = InputSource
                 PROVE  s.inside[x] = {}
      OBVIOUS
    <2>1. CASE f = p
      BY <1>9, <2>1, LegalIs
    <2>2. CASE f # p
      <3>1. f \in DOMAIN s.node[x].binds \ Unchecked /\ s.node[x].binds[f] = InputSource
        BY <1>2, <1>9, <2>2
      <3> QED  BY <1>1, <3>1 DEF IsWired
    <2> QED  BY <2>1, <2>2
  <1>13. /\ Good(u) /\ Ids(u) = Ids(s) /\ Scopes(u) = Scopes(s) /\ Leaves(u) = Leaves(s)
         /\ \A h \in Scopes(s) : Injected(u, h) = Injected(s, h)
         /\ \A X : X \subseteq Ids(s) => Outputs(u, X) = Outputs(s, X)
         /\ \A y : Home(u, y) = Home(s, y) /\ Before(u, y) = Before(s, y)
    BY <1>8, <1>11, <1>12, RewiredIsGood
  <1>14. SeenBy(u, x) = SeenBy(s, x)
    <2>1. Home(s, x) \in Scopes(s) /\ Before(s, x) \subseteq Ids(s)
      BY <1>1, HomeExists, BeforeInHome
    <2> QED  BY <1>13, <2>1 DEF SeenBy
  <1>15. u.node[x].binds = B /\ u.node[x].kind = "step"
         /\ \A y \in Ids(s) \ {x} : u.node[y] = s.node[y]
    BY <1>1, <1>11 DEF IsRewired, SameButBinds, Ids
  <1>16. Resolves(u, x, p)
    <2>1. b \in SeenBy(u, x)
      BY <1>14, OfferedIsSeen
    <2>2. ~OfBody(u.node[x], p)
      BY <1>15 DEF OfBody
    <2> QED  BY <1>9, <1>15, <2>1, <2>2 DEF Resolves
  <1>17. ASSUME NEW y \in Ids(s), NEW f \in DOMAIN u.node[y].binds
         PROVE  \/ f \in DOMAIN s.node[y].binds /\ s.node[y].binds[f] = u.node[y].binds[f]
                \/ Resolves(u, y, f)
    BY <1>2, <1>9, <1>15, <1>16
  <1> QED  BY <1>13, <1>17

\* And what clearing one does.
LEMMA ClearedIsGood ==
  ASSUME NEW s, Good(s), NEW x \in Leaves(s), NEW p, NEW u, u = Cleared(s, x, p)
  PROVE  /\ Good(u) /\ Ids(u) = Ids(s)
         /\ \A y \in Ids(s) : \A f \in DOMAIN u.node[y].binds :
              f \in DOMAIN s.node[y].binds /\ s.node[y].binds[f] = u.node[y].binds[f]
  <1>1. x \in Ids(s) /\ s.node[x].kind = "step" /\ IsTree(s) /\ IsWired(s) /\ IsNode(s.node[x])
    BY DEF Good, Leaves
  <1>2. PICK A : A = s.node[x].binds
    OBVIOUS
  <1>3. ArePorts(A)
    BY <1>1, <1>2 DEF IsNode, ArePorts
  <1>4. PICK B : B = Restrict(A, DOMAIN A \ {p})
    OBVIOUS
  <1>5. DOMAIN B = DOMAIN A \ {p} /\ \A f \in DOMAIN B : B[f] = A[f]
    BY <1>4 DEF Restrict
  <1>6. ArePorts(B)
    <2>1. B = [f \in DOMAIN A \ {p} |-> A[f]]
      BY <1>4 DEF Restrict
    <2>2. \A f \in DOMAIN A : A[f] = Port(A[f].node, A[f].port)
      BY <1>3 DEF ArePorts
    <2> QED  BY <1>5, <2>1, <2>2 DEF ArePorts
  <1>7. u = Rewired(s, x, B)
    BY <1>2, <1>4 DEF Cleared, Rewired
  <1>8. IsRewired(s, x, B, u)
    BY <1>6, <1>7, RewiredIs
  <1>9. (\E f \in DOMAIN B \ Unchecked : B[f] = InputSource) => s.inside[x] = {}
    BY <1>1, <1>2, <1>5 DEF IsWired
  <1>10. Good(u) /\ Ids(u) = Ids(s)
    BY <1>6, <1>8, <1>9, RewiredIsGood
  <1>11. u.node[x].binds = B /\ \A y \in Ids(s) \ {x} : u.node[y] = s.node[y]
    BY <1>8 DEF IsRewired, Ids
  <1>12. ASSUME NEW y \in Ids(s), NEW f \in DOMAIN u.node[y].binds
         PROVE  f \in DOMAIN s.node[y].binds /\ s.node[y].binds[f] = u.node[y].binds[f]
    BY <1>2, <1>5, <1>11
  <1> QED  BY <1>10, <1>12

-----------------------------------------------------------------------------
(***************************************************************************)
(* What a drop inserts, and where.                                         *)
(***************************************************************************)

LEMMA SlotIs ==
  ASSUME NEW s, NEW w \in Slots(s)
  PROVE  w[1] \in Scopes(s) /\ w[2] \in 1..(Len(s.body[w[1]]) + 1)
  <1>1. PICK h \in Scopes(s) : w \in {h} \X (1..(Len(s.body[h]) + 1))
    BY DEF Slots
  <1> QED  BY <1>1

\* A generated id is an id, and neither the top nor the message.
LEMMA NumberedIs ==
  ASSUME NEW name \in STRING, NEW n \in Nat, name # "$input" \/ n # 0
  PROVE  << <<name, n>> >> \in IdSet \ {Top, InputSource.node}
  <1>1. << <<name, n>> >> \in Seq(STRING \X Nat)
    BY DEF IdSet
  <1>2. << <<name, n>> >> # <<>>
    OBVIOUS
  <1>3. << <<name, n>> >> # << <<"$input", 0>> >>
    <2>1. << <<name, n>> >>[1] = <<name, n>> /\ << <<"$input", 0>> >>[1] = <<"$input", 0>>
      OBVIOUS
    <2>2. <<name, n>>[1] = name /\ <<name, n>>[2] = n
      OBVIOUS
    <2>3. <<"$input", 0>>[1] = "$input" /\ <<"$input", 0>>[2] = 0
      OBVIOUS
    <2> QED  BY <2>1, <2>2, <2>3
  <1> QED  BY <1>1, <1>2, <1>3, PortIs DEF IdSet, Top, InputSource

\* The subtree of a single leaf.
LeafTree(t, id) == [root |-> id, body |-> <<>>, node |-> Only(id, Leaf(t)), inside |-> Only(id, {})]

\* A leaf fresh from the palette is a node without wires.
LEMMA LeafIsNode ==
  ASSUME NEW t \in Palette
  PROVE  /\ IsNode(Leaf(t)) /\ Leaf(t).kind = "step" /\ Leaf(t).harvest = {}
         /\ DOMAIN Leaf(t).binds = {}
  <1>1. PICK n : n = Leaf(t)
    OBVIOUS
  <1>2. /\ DOMAIN n = {"kind", "ins", "needs", "outs", "binds", "harvest"}
        /\ n.kind = "step" /\ n.outs = t.outs /\ n.binds = <<>> /\ n.harvest = {}
    BY <1>1 DEF Leaf
  <1>3. PICK e : e = <<>>
    OBVIOUS
  <1>4. DOMAIN e = {} /\ e = [f \in {} |-> Port(e[f].node, e[f].port)]
    BY <1>3
  <1>5. n.binds = [f \in DOMAIN n.binds |-> Port(n.binds[f].node, n.binds[f].port)]
    BY <1>2, <1>3, <1>4
  <1>6. t.outs \in Seq(STRING) \ {<<>>}
    BY NamesAssumption
  <1> QED  BY <1>1, <1>2, <1>3, <1>4, <1>5, <1>6 DEF IsNode

\* And a subtree of its own.
LEMMA LeafTreeIs ==
  ASSUME NEW t \in Palette, NEW id \in IdSet \ {Top, InputSource.node}
  PROVE  /\ IsSubtree(LeafTree(t, id)) /\ IsWiredIn(LeafTree(t, id), FALSE)
         /\ DOMAIN LeafTree(t, id).node = {id}
  <1>1. PICK u : u = LeafTree(t, id)
    OBVIOUS
  <1>2. /\ u.root = id /\ DOMAIN u.node = {id} /\ u.node[id] = Leaf(t)
        /\ DOMAIN u.inside = {id} /\ u.inside[id] = {} /\ DOMAIN u.body = {}
    BY <1>1 DEF LeafTree, Only
  <1>3. /\ IsNode(Leaf(t)) /\ Leaf(t).kind = "step" /\ Leaf(t).harvest = {}
        /\ DOMAIN Leaf(t).binds = {}
    BY LeafIsNode
  <1>4. IsSubtree(u)
    BY <1>2, <1>3 DEF IsSubtree
  <1>5. IsWiredIn(u, FALSE)
    BY <1>2, <1>3 DEF IsWiredIn
  <1> QED  BY <1>1, <1>2, <1>4, <1>5

\* Where a copy's seed is read from.
LEMMA SeedIs ==
  ASSUME NEW s, Good(s), NEW h \in Scopes(s), NEW i \in 1..(Len(s.body[h]) + 1),
         NEW b \in PickSeed(s, h, i)
  PROVE  b = Port(b.node, b.port) /\ (b = InputSource => h = Top)
  <1>1. IsTree(s) /\ InputSource.node \notin Ids(s)
    BY DEF Good, IsTree
  <1>2. CASE i > 1
    <2> DEFINE pred == s.body[h][i-1]
    <2>1. IsBody(Ids(s), s.body[h])
      BY <1>1, ScopeIs
    <2>2. pred \in Ids(s)
      BY <1>2, <2>1 DEF IsBody
    <2>3. b = Port(pred, s.node[pred].outs[1])
      BY <1>2 DEF PickSeed
    <2> HIDE DEF pred
    <2>4. b.node = pred /\ b.port = s.node[pred].outs[1]
      BY <2>3, PortIs
    <2> QED  BY <1>1, <2>2, <2>3, <2>4
  <1>3. CASE ~(i > 1) /\ h = Top
    <2>1. b = InputSource
      BY <1>3 DEF PickSeed
    <2>2. InputSource = Port(InputSource.node, InputSource.port)
      BY PortIs DEF InputSource
    <2> QED  BY <1>3, <2>1, <2>2
  <1>4. CASE ~(i > 1) /\ h # Top
    <2>1. b = Port(h, "in")
      BY <1>4 DEF PickSeed
    <2>2. h \in Ids(s)
      BY <1>1, <1>4 DEF IsTree
    <2> QED  BY <1>1, <2>1, <2>2, PortIs
  <1> QED  BY <1>2, <1>3, <1>4

\* What u is when it is t with one of the seeds at its root, if there are any.
IsSeeded(t, seeds, u) ==
  /\ u.root = t.root /\ u.body = t.body /\ u.inside = t.inside /\ DOMAIN u.node = DOMAIN t.node
  /\ \A x \in DOMAIN t.node \ {t.root} : u.node[x] = t.node[x]
  /\ IsNode(u.node[t.root]) /\ SameButBinds(t.node[t.root], u.node[t.root])
  /\ DOMAIN t.node[t.root].binds \subseteq DOMAIN u.node[t.root].binds
  /\ DOMAIN u.node[t.root].binds \subseteq DOMAIN t.node[t.root].binds \cup {"seedInput"}
  /\ \A f \in DOMAIN u.node[t.root].binds \ {"seedInput"} :
       u.node[t.root].binds[f] = t.node[t.root].binds[f]
  /\ "seedInput" \in DOMAIN u.node[t.root].binds <=> seeds # {}
  /\ seeds # {} => u.node[t.root].binds["seedInput"] \in seeds

\* The operator does what it says.
LEMMA WithSeedIs ==
  ASSUME NEW t, IsSubtree(t), IsWiredIn(t, FALSE), t.node[t.root].kind = "group",
         {"root", "body", "node", "inside"} \subseteq DOMAIN t,
         "seedInput" \notin DOMAIN t.node[t.root].binds,
         NEW seeds, \A b \in seeds : b = Port(b.node, b.port)
  PROVE  IsSeeded(t, seeds, WithSeed(t, seeds))
  <1> DEFINE n == t.node[t.root]
  <1>1. IsNode(n) /\ t.root \in DOMAIN t.node
    BY DEF IsSubtree, IsWiredIn
  <1>2. PICK A : A = n.binds
    OBVIOUS
  <1>3. ArePorts(A) /\ DOMAIN A \subseteq {"bodyOutput"}
    BY <1>1, <1>2 DEF IsNode, ArePorts
  <1>4. PICK o : o = [f \in {"seedInput" : b \in seeds} |-> CHOOSE b \in seeds : TRUE]
    OBVIOUS
  <1>5. /\ DOMAIN o \subseteq {"seedInput"}
        /\ "seedInput" \in DOMAIN o <=> seeds # {}
        /\ seeds # {} => o["seedInput"] \in seeds
    BY <1>4
  <1>6. ArePorts(o)
    <2>1. \A f \in DOMAIN o : f = "seedInput" /\ seeds # {}
      BY <1>5
    <2>2. \A f \in DOMAIN o : o[f] = Port(o[f].node, o[f].port)
      BY <1>5, <2>1
    <2>3. o = [f \in DOMAIN o |-> o[f]]
      BY <1>4
    <2> QED  BY <2>2, <2>3 DEF ArePorts
  <1>7. PICK B : B = Over(o, A)
    OBVIOUS
  <1>8. ArePorts(B)
    BY <1>3, <1>6, <1>7, OverIsPorts
  <1>9. /\ DOMAIN B = DOMAIN o \cup DOMAIN A
        /\ \A f \in DOMAIN o : B[f] = o[f]
        /\ \A f \in DOMAIN A \ DOMAIN o : B[f] = A[f]
    BY <1>7 DEF Over
  <1>10. PICK m : m = [n EXCEPT !.binds = B]
    OBVIOUS
  <1>11. IsNode(m) /\ m.binds = B /\ SameButBinds(n, m)
    <2>1. DOMAIN B \subseteq {"seedInput", "bodyOutput"}
      BY <1>3, <1>5, <1>9
    <2> HIDE DEF n
    <2>2. LET k == [n EXCEPT !.binds = B]
          IN  IsNode(k) /\ k.binds = B /\ SameButBinds(n, k)
      BY <1>1, <1>8, <2>1, NodeRebound
    <2> QED  BY <1>10, <2>2
  <1>12. PICK u : u = WithSeed(t, seeds)
    OBVIOUS
  <1>13. PICK nn : nn = [t.node EXCEPT ![t.root] = m]
    OBVIOUS
  <1>14. u = [t EXCEPT !.node = nn]
    BY <1>2, <1>4, <1>7, <1>10, <1>12, <1>13 DEF WithSeed
  <1>15. u.root = t.root /\ u.body = t.body /\ u.inside = t.inside /\ u.node = nn
    BY <1>14
  <1>16. DOMAIN nn = DOMAIN t.node /\ nn[t.root] = m
         /\ \A x \in DOMAIN t.node \ {t.root} : nn[x] = t.node[x]
    BY <1>1, <1>13
  <1>17. IsSeeded(t, seeds, u)
    BY <1>2, <1>3, <1>5, <1>9, <1>11, <1>15, <1>16 DEF IsSeeded
  <1> QED  BY <1>12, <1>17

\* The seed leaves the subtree alone; its wires stay well made.
LEMMA SeededIsSubtree ==
  ASSUME NEW t, IsSubtree(t), IsWiredIn(t, FALSE), t.node[t.root].kind = "group",
         NEW seeds, NEW top \in BOOLEAN, \A b \in seeds : b = InputSource => top,
         NEW u, IsSeeded(t, seeds, u)
  PROVE  IsSubtree(u) /\ IsWiredIn(u, top)
  <1>1. /\ u.root = t.root /\ u.body = t.body /\ u.inside = t.inside /\ DOMAIN u.node = DOMAIN t.node
        /\ \A x \in DOMAIN t.node \ {t.root} : u.node[x] = t.node[x]
        /\ IsNode(u.node[t.root]) /\ SameButBinds(t.node[t.root], u.node[t.root])
    BY DEF IsSeeded
  <1>2. \A x \in DOMAIN t.node : SameButBinds(t.node[x], u.node[x])
    BY <1>1 DEF SameButBinds
  <1>3. IsSubtree(u)
    <2>1. \A x \in DOMAIN t.node : u.node[x].kind = t.node[x].kind
      BY <1>2 DEF SameButBinds
    <2>2. {x \in DOMAIN u.node : u.node[x].kind # "step"} = {x \in DOMAIN t.node : t.node[x].kind # "step"}
      BY <1>1, <2>1
    <2>3. /\ u.root \in DOMAIN u.node /\ DOMAIN u.node \subseteq IdSet \ {Top, InputSource.node}
          /\ DOMAIN u.body = {x \in DOMAIN u.node : u.node[x].kind # "step"}
          /\ DOMAIN u.inside = DOMAIN u.node
      BY <1>1, <2>2 DEF IsSubtree
    <2>4. PICK N : N = DOMAIN t.node
      OBVIOUS
    <2>5. DOMAIN u.node = N
      BY <1>1, <2>4
    <2>6. /\ \A h \in DOMAIN t.body : IsBody(N, t.body[h]) /\ t.root \notin ToSet(t.body[h])
          /\ \A g, h \in DOMAIN t.body : g # h => ToSet(t.body[g]) \cap ToSet(t.body[h]) = {}
          /\ \A x \in N \ {t.root} : \E h \in DOMAIN t.body : x \in ToSet(t.body[h])
          /\ t.inside[t.root] = {}
          /\ \A h \in DOMAIN t.body : \A x \in ToSet(t.body[h]) : t.inside[x] = t.inside[h] \cup {h}
          /\ \A x \in N : /\ t.inside[x] \subseteq DOMAIN t.body \ {x}
                          /\ \A y \in t.inside[x] : t.inside[y] \subseteq t.inside[x]
      BY <2>4 DEF IsSubtree
    <2>7. /\ \A h \in DOMAIN u.body : IsBody(N, u.body[h]) /\ u.root \notin ToSet(u.body[h])
          /\ \A g, h \in DOMAIN u.body : g # h => ToSet(u.body[g]) \cap ToSet(u.body[h]) = {}
          /\ \A x \in N \ {u.root} : \E h \in DOMAIN u.body : x \in ToSet(u.body[h])
          /\ u.inside[u.root] = {}
          /\ \A h \in DOMAIN u.body : \A x \in ToSet(u.body[h]) : u.inside[x] = u.inside[h] \cup {h}
          /\ \A x \in N : /\ u.inside[x] \subseteq DOMAIN u.body \ {x}
                          /\ \A y \in u.inside[x] : u.inside[y] \subseteq u.inside[x]
      <3>1. u.body = t.body /\ u.root = t.root /\ u.inside = t.inside
        BY <1>1
      <3> QED  BY <2>6, <3>1
    <2> QED  BY <2>3, <2>5, <2>7 DEF IsSubtree
  <1>4. \A x \in DOMAIN u.node : IsNode(u.node[x]) /\ u.node[x].harvest \subseteq Hidden
    <2> TAKE x \in DOMAIN u.node
    <2>1. IsNode(t.node[x]) /\ t.node[x].harvest \subseteq Hidden
      BY <1>1 DEF IsWiredIn
    <2>2. u.node[x].harvest = t.node[x].harvest
      BY <1>1, <1>2 DEF SameButBinds
    <2> QED  BY <1>1, <2>1, <2>2
  <1>5. ASSUME NEW x \in DOMAIN u.node, NEW f \in DOMAIN u.node[x].binds \ Unchecked
        PROVE  /\ u.node[x].binds[f] = InputSource => top /\ x = u.root /\ ~OfBody(u.node[x], f)
               /\ OfBody(u.node[x], f) => u.node[x].binds[f].port \notin Hidden
    <2>1. CASE x # t.root
      BY <1>1, <1>5, <2>1 DEF IsWiredIn
    <2>2. CASE x = t.root /\ f # "seedInput"
      <3>1. f \in DOMAIN t.node[x].binds \ Unchecked /\ u.node[x].binds[f] = t.node[x].binds[f]
        BY <1>5, <2>2 DEF IsSeeded
      <3>2. OfBody(u.node[x], f) <=> OfBody(t.node[x], f)
        BY <1>1, <2>2 DEF OfBody, SameButBinds
      <3> QED  BY <1>1, <2>2, <3>1, <3>2 DEF IsWiredIn
    <2>3. CASE x = t.root /\ f = "seedInput"
      <3>1. ~OfBody(u.node[x], f)
        BY <2>3 DEF OfBody, BodyFields
      <3>2. u.node[x].binds[f] \in seeds
        BY <1>5, <2>3 DEF IsSeeded
      <3> QED  BY <1>1, <2>3, <3>1, <3>2
    <2> QED  BY <2>1, <2>2, <2>3
  <1>6. IsWiredIn(u, top)
    BY <1>4, <1>5 DEF IsWiredIn
  <1> QED  BY <1>3, <1>6

-----------------------------------------------------------------------------
(***************************************************************************)
(* Copies.                                                                 *)
(***************************************************************************)

Remap(r, b) == IF b.node \in DOMAIN r THEN Port(r[b.node], b.port) ELSE b

\* New ids, one for each node of t.
IsRenaming(t, r) ==
  /\ IsInjective(r) /\ DOMAIN r = DOMAIN t.node
  /\ \A x \in DOMAIN r : r[x] \in IdSet \ {Top, InputSource.node}

\* What u is when it is t under the ids r.
IsClone(t, r, u) ==
  /\ DOMAIN u = {"root", "body", "node", "inside"}
  /\ u.root = r[t.root]
  /\ DOMAIN u.inside = DOMAIN u.node
  /\ \A y : y \in DOMAIN u.node <=> \E x \in DOMAIN t.node : y = r[x]
  /\ \A y : y \in DOMAIN u.body <=> \E c \in DOMAIN t.body : y = r[c]
  /\ \A x \in DOMAIN t.node :
       /\ IsNode(u.node[r[x]]) /\ SameButBinds(t.node[x], u.node[r[x]])
       /\ DOMAIN u.node[r[x]].binds = DOMAIN t.node[x].binds
       /\ \A f \in DOMAIN t.node[x].binds : u.node[r[x]].binds[f] = Remap(r, t.node[x].binds[f])
       /\ \A y : y \in u.inside[r[x]] <=> \E c \in t.inside[x] : y = r[c]
  /\ \A c \in DOMAIN t.body : u.body[r[c]] = [i \in DOMAIN t.body[c] |-> r[t.body[c][i]]]

\* The old id of a new one.
LEMMA AntiFunctionIs ==
  ASSUME NEW r, IsInjective(r)
  PROVE  /\ \A y : y \in DOMAIN AntiFunction(r) <=> \E x \in DOMAIN r : y = r[x]
         /\ \A x \in DOMAIN r : AntiFunction(r)[r[x]] = x
  <1>1. AntiFunction(r) = [y \in Range(r) |-> CHOOSE x \in DOMAIN r : y \in Range(r) => r[x] = y]
    BY DEF AntiFunction, Inverse
  <1>2. \A y : y \in Range(r) <=> \E x \in DOMAIN r : y = r[x]
    BY DEF Range
  <1>3. DOMAIN AntiFunction(r) = Range(r)
    BY <1>1
  <1>4. ASSUME NEW x \in DOMAIN r
        PROVE  AntiFunction(r)[r[x]] = x
    <2> DEFINE z == CHOOSE v \in DOMAIN r : r[x] \in Range(r) => r[v] = r[x]
    <2>1. r[x] \in Range(r)
      BY <1>2
    <2>2. AntiFunction(r)[r[x]] = z
      BY <1>1, <2>1
    <2>3. z \in DOMAIN r /\ r[z] = r[x]
      BY <2>1
    <2> HIDE DEF z
    <2>4. z = x
      BY <2>3 DEF IsInjective
    <2> QED  BY <2>2, <2>4
  <1> QED  BY <1>2, <1>3, <1>4

\* A node stays a node when its wires follow the renaming.
LEMMA RemappedNode ==
  ASSUME NEW n, IsNode(n), NEW r
  PROVE  LET m == [n EXCEPT !.binds = [f \in DOMAIN n.binds |-> Remap(r, n.binds[f])]]
         IN  /\ IsNode(m) /\ SameButBinds(n, m) /\ DOMAIN m.binds = DOMAIN n.binds
             /\ \A f \in DOMAIN n.binds : m.binds[f] = Remap(r, n.binds[f])
  <1> DEFINE A == n.binds
             B == [f \in DOMAIN A |-> Remap(r, A[f])]
  <1>1. \A f \in DOMAIN A : A[f] = Port(A[f].node, A[f].port)
    BY DEF IsNode
  <1>2. \A f \in DOMAIN A : B[f] = Port(B[f].node, B[f].port)
    <2> TAKE f \in DOMAIN A
    <2>1. CASE A[f].node \in DOMAIN r
      <3>1. B[f] = Port(r[A[f].node], A[f].port)
        BY <2>1 DEF Remap
      <3> QED  BY <3>1, PortIs
    <2>2. CASE A[f].node \notin DOMAIN r
      <3>1. B[f] = A[f]
        BY <2>2 DEF Remap
      <3> QED  BY <1>1, <3>1
    <2> QED  BY <2>1, <2>2
  <1>3. ArePorts(B)
    BY <1>2 DEF ArePorts
  <1>4. n.kind = "group" => DOMAIN B \subseteq {"seedInput", "bodyOutput"}
    BY DEF IsNode
  <1>5. DOMAIN B = DOMAIN A /\ \A f \in DOMAIN A : B[f] = Remap(r, A[f])
    OBVIOUS
  <1> HIDE DEF B
  <1>6. LET m == [n EXCEPT !.binds = B]
        IN  IsNode(m) /\ m.binds = B /\ SameButBinds(n, m)
    BY <1>3, <1>4, NodeRebound
  <1> QED  BY <1>5, <1>6 DEF B

\* The operator does what it says.
LEMMA CloneIs ==
  ASSUME NEW t, IsSubtree(t), IsWiredIn(t, FALSE), NEW r, IsRenaming(t, r)
  PROVE  IsClone(t, r, Clone(t, r))
  <1>1. PICK old : old = AntiFunction(r)
    OBVIOUS
  <1>2. /\ DOMAIN r = DOMAIN t.node
        /\ \A y : y \in DOMAIN old <=> \E x \in DOMAIN t.node : y = r[x]
        /\ \A x \in DOMAIN t.node : old[r[x]] = x
    <2>1. IsInjective(r) /\ DOMAIN r = DOMAIN t.node
      BY DEF IsRenaming
    <2>2. /\ \A y : y \in DOMAIN AntiFunction(r) <=> \E x \in DOMAIN r : y = r[x]
          /\ \A x \in DOMAIN r : AntiFunction(r)[r[x]] = x
      BY <2>1, AntiFunctionIs
    <2> QED  BY <1>1, <2>1, <2>2
  <1>3. DOMAIN t.inside = DOMAIN t.node /\ DOMAIN t.body \subseteq DOMAIN t.node
    BY DEF IsSubtree
  <1>4. PICK u : u = Clone(t, r)
    OBVIOUS
  <1>5. PICK nodes : nodes = [y \in DOMAIN old |->
          [t.node[old[y]] EXCEPT !.binds = [f \in DOMAIN t.node[old[y]].binds |-> Remap(r, t.node[old[y]].binds[f])]]]
    OBVIOUS
  <1>6. PICK bodies : bodies = [y \in {r[c] : c \in DOMAIN t.body} |->
                  [i \in DOMAIN t.body[old[y]] |-> r[t.body[old[y]][i]]]]
    OBVIOUS
  <1>7. PICK insides : insides = [y \in DOMAIN old |-> {r[c] : c \in t.inside[old[y]]}]
    OBVIOUS
  <1>8. u = [root |-> r[t.root], body |-> bodies, node |-> nodes, inside |-> insides]
    BY <1>1, <1>4, <1>5, <1>6, <1>7 DEF Clone, Remap
  <1>9. /\ DOMAIN u = {"root", "body", "node", "inside"} /\ u.root = r[t.root]
        /\ u.body = bodies /\ u.node = nodes /\ u.inside = insides
    BY <1>8
  <1>10. ASSUME NEW x \in DOMAIN t.node
         PROVE  /\ IsNode(u.node[r[x]]) /\ SameButBinds(t.node[x], u.node[r[x]])
                /\ DOMAIN u.node[r[x]].binds = DOMAIN t.node[x].binds
                /\ \A f \in DOMAIN t.node[x].binds : u.node[r[x]].binds[f] = Remap(r, t.node[x].binds[f])
    <2>1. PICK n : n = t.node[x]
      OBVIOUS
    <2>2. r[x] \in DOMAIN old /\ old[r[x]] = x
      BY <1>2
    <2>3. u.node[r[x]] = [n EXCEPT !.binds = [f \in DOMAIN n.binds |-> Remap(r, n.binds[f])]]
      BY <1>5, <1>9, <2>1, <2>2
    <2>4. IsNode(n)
      BY <2>1 DEF IsWiredIn
    <2>5. LET m == [n EXCEPT !.binds = [f \in DOMAIN n.binds |-> Remap(r, n.binds[f])]]
          IN  /\ IsNode(m) /\ SameButBinds(n, m) /\ DOMAIN m.binds = DOMAIN n.binds
              /\ \A f \in DOMAIN n.binds : m.binds[f] = Remap(r, n.binds[f])
      BY <2>4, RemappedNode
    <2> QED  BY <2>1, <2>3, <2>5
  <1>11. ASSUME NEW x \in DOMAIN t.node
         PROVE  \A y : y \in u.inside[r[x]] <=> \E c \in t.inside[x] : y = r[c]
    <2>1. r[x] \in DOMAIN old /\ old[r[x]] = x
      BY <1>2
    <2>2. u.inside[r[x]] = {r[c] : c \in t.inside[x]}
      BY <1>7, <1>9, <2>1
    <2> QED  BY <2>2
  <1>12. ASSUME NEW c \in DOMAIN t.body
         PROVE  u.body[r[c]] = [i \in DOMAIN t.body[c] |-> r[t.body[c][i]]]
    <2>1. old[r[c]] = c
      BY <1>2, <1>3
    <2> QED  BY <1>6, <1>9, <2>1
  <1>13. \A y : y \in DOMAIN u.body <=> \E c \in DOMAIN t.body : y = r[c]
    <2>1. DOMAIN u.body = {r[c] : c \in DOMAIN t.body}
      BY <1>6, <1>9
    <2> QED  BY <2>1
  <1>14. DOMAIN u.node = DOMAIN old /\ DOMAIN u.inside = DOMAIN old
    BY <1>5, <1>7, <1>9
  <1>15. IsClone(t, r, u)
    BY <1>2, <1>9, <1>10, <1>11, <1>12, <1>13, <1>14 DEF IsClone
  <1> QED  BY <1>4, <1>15

\* A list under new ids, one for each, is a list of them in the same order.
LEMMA MappedBody ==
  ASSUME NEW S, NEW b, IsBody(S, b), NEW r, IsInjective(r), S \subseteq DOMAIN r,
         NEW T, \A x \in S : r[x] \in T,
         NEW g, g = [i \in DOMAIN b |-> r[b[i]]]
  PROVE  /\ IsBody(T, g)
         /\ \A y \in ToSet(g) : \E x \in ToSet(b) : y = r[x]
         /\ \A x \in ToSet(b) : r[x] \in ToSet(g)
         /\ DOMAIN g = DOMAIN b
  <1>1. /\ b \in Seq(S) /\ Len(b) \in Nat /\ DOMAIN b = 1..Len(b) /\ Distinct(b)
        /\ \A i \in 1..Len(b) : b[i] \in S /\ b[i] \in ToSet(b)
        /\ \A x \in ToSet(b) : x \in S /\ \E i \in 1..Len(b) : b[i] = x
    BY DEF IsBody
  <1>2. PICK n : n = Len(b)
    OBVIOUS
  <1>3. g = [i \in 1..n |-> r[b[i]]] /\ n \in Nat /\ DOMAIN g = 1..n
    BY <1>1, <1>2
  <1>4. g \in Seq(T)
    <2>1. g \in [1..n -> T]
      BY <1>1, <1>2, <1>3
    <2> QED  BY <1>3, <2>1, SeqDef
  <1>5. /\ Len(g) \in Nat /\ DOMAIN g = 1..Len(g)
        /\ \A i \in 1..Len(g) : g[i] \in T
        /\ \A x : x \in ToSet(g) <=> \E i \in 1..Len(g) : g[i] = x
        /\ \A x : Contains(g, x) <=> x \in ToSet(g)
    BY <1>4, SequenceIs
  <1>6. Len(g) = n
    BY <1>3, <1>4, <1>5, LenProperties
  <1>7. \A i \in 1..n : g[i] = r[b[i]]
    BY <1>3
  <1>8. Distinct(g)
    <2> SUFFICES ASSUME NEW i \in 1..n, NEW j \in 1..n, g[i] = g[j] PROVE i = j
      BY <1>6 DEF Distinct
    <2>1. r[b[i]] = r[b[j]] /\ b[i] \in DOMAIN r /\ b[j] \in DOMAIN r
      BY <1>1, <1>2, <1>7
    <2>2. b[i] = b[j]
      BY <2>1 DEF IsInjective
    <2> QED  BY <1>1, <1>2, <2>2 DEF Distinct
  <1>9. \A i \in 1..Len(g) : g[i] \in ToSet(g)
    BY <1>5
  <1>10. \A y \in ToSet(g) : y \in T /\ \E i \in 1..Len(g) : g[i] = y
    BY <1>5
  <1>11. IsBody(T, g)
    BY <1>4, <1>5, <1>8, <1>9, <1>10 DEF IsBody
  <1>12. ASSUME NEW y \in ToSet(g) PROVE \E x \in ToSet(b) : y = r[x]
    <2>1. PICK i \in 1..n : g[i] = y
      BY <1>6, <1>10
    <2> QED  BY <1>1, <1>2, <1>7, <2>1
  <1>13. ASSUME NEW x \in ToSet(b) PROVE r[x] \in ToSet(g)
    <2>1. PICK i \in 1..n : b[i] = x
      BY <1>1, <1>2
    <2> QED  BY <1>6, <1>7, <1>9, <2>1
  <1> QED  BY <1>1, <1>2, <1>3, <1>11, <1>12, <1>13

\* A clone is a subtree like the original, with wires as well made.
LEMMA CloneIsSubtree ==
  ASSUME NEW t, IsSubtree(t), IsWiredIn(t, FALSE), NEW r, IsRenaming(t, r), NEW u, IsClone(t, r, u)
  PROVE  /\ IsSubtree(u) /\ IsWiredIn(u, FALSE)
         /\ \A c \in DOMAIN t.body : \A x \in DOMAIN t.node :
              r[x] \in ToSet(u.body[r[c]]) <=> x \in ToSet(t.body[c])
  <1> DEFINE N == DOMAIN t.node
  <1>1. /\ IsInjective(r) /\ DOMAIN r = N
        /\ \A x \in N : r[x] \in IdSet \ {Top, InputSource.node}
        /\ \A x, y \in N : r[x] = r[y] => x = y
    BY DEF IsRenaming, IsInjective
  <1>2. /\ t.root \in N /\ DOMAIN t.body = {x \in N : t.node[x].kind # "step"}
        /\ DOMAIN t.inside = N
        /\ \A h \in DOMAIN t.body : IsBody(N, t.body[h]) /\ t.root \notin ToSet(t.body[h])
        /\ t.inside[t.root] = {}
    BY DEF IsSubtree
  <1>3. /\ u.root = r[t.root] /\ DOMAIN u.inside = DOMAIN u.node
        /\ \A y : y \in DOMAIN u.node <=> \E x \in N : y = r[x]
        /\ \A y : y \in DOMAIN u.body <=> \E c \in DOMAIN t.body : y = r[c]
    BY DEF IsClone
  <1>4. \A x \in N :
          /\ IsNode(u.node[r[x]]) /\ SameButBinds(t.node[x], u.node[r[x]])
          /\ DOMAIN u.node[r[x]].binds = DOMAIN t.node[x].binds
          /\ \A f \in DOMAIN t.node[x].binds : u.node[r[x]].binds[f] = Remap(r, t.node[x].binds[f])
          /\ \A y : y \in u.inside[r[x]] <=> \E c \in t.inside[x] : y = r[c]
    BY DEF IsClone
  <1>5. \A x \in N : r[x] \in DOMAIN u.node
    BY <1>3
  <1>6. ASSUME NEW c \in DOMAIN t.body
        PROVE  /\ IsBody(DOMAIN u.node, u.body[r[c]])
               /\ \A y \in ToSet(u.body[r[c]]) : \E x \in ToSet(t.body[c]) : y = r[x]
               /\ \A x \in ToSet(t.body[c]) : r[x] \in ToSet(u.body[r[c]])
               /\ \A x \in ToSet(t.body[c]) : x \in N
    <2>1. IsBody(N, t.body[c])
      BY <1>2
    <2>2. \A x \in ToSet(t.body[c]) : x \in N
      BY <2>1 DEF IsBody
    <2>3. PICK g : g = [i \in DOMAIN t.body[c] |-> r[t.body[c][i]]]
      OBVIOUS
    <2>4. /\ IsBody(DOMAIN u.node, g)
          /\ \A y \in ToSet(g) : \E x \in ToSet(t.body[c]) : y = r[x]
          /\ \A x \in ToSet(t.body[c]) : r[x] \in ToSet(g)
          /\ DOMAIN g = DOMAIN t.body[c]
      BY <1>1, <1>5, <2>1, <2>3, MappedBody
    <2>5. u.body[r[c]] = g
      BY <2>3 DEF IsClone
    <2> QED  BY <2>2, <2>4, <2>5
  <1>7. ASSUME NEW c \in DOMAIN t.body, NEW x \in N
        PROVE  r[x] \in ToSet(u.body[r[c]]) <=> x \in ToSet(t.body[c])
    BY <1>1, <1>6
  <1>8. DOMAIN u.body = {y \in DOMAIN u.node : u.node[y].kind # "step"}
    <2>1. ASSUME NEW x \in N PROVE u.node[r[x]].kind # "step" <=> x \in DOMAIN t.body
      BY <1>2, <1>4 DEF SameButBinds
    <2>2. ASSUME NEW y \in DOMAIN u.body PROVE y \in DOMAIN u.node /\ u.node[y].kind # "step"
      BY <1>2, <1>3, <2>1
    <2>3. ASSUME NEW y \in DOMAIN u.node, u.node[y].kind # "step" PROVE y \in DOMAIN u.body
      BY <1>3, <2>1, <2>3
    <2> QED  BY <2>2, <2>3
  <1>9. \A h \in DOMAIN u.body : IsBody(DOMAIN u.node, u.body[h]) /\ u.root \notin ToSet(u.body[h])
    <2> SUFFICES ASSUME NEW c \in DOMAIN t.body
                 PROVE  IsBody(DOMAIN u.node, u.body[r[c]]) /\ u.root \notin ToSet(u.body[r[c]])
      BY <1>3
    <2> QED  BY <1>2, <1>3, <1>6, <1>7
  <1>10. \A g, h \in DOMAIN u.body : g # h => ToSet(u.body[g]) \cap ToSet(u.body[h]) = {}
    <2> SUFFICES ASSUME NEW c \in DOMAIN t.body, NEW d \in DOMAIN t.body, r[c] # r[d], NEW y,
                        y \in ToSet(u.body[r[c]]), y \in ToSet(u.body[r[d]])
                 PROVE  FALSE
      BY <1>3
    <2>1. PICK x \in ToSet(t.body[c]) : y = r[x]
      BY <1>6
    <2>2. PICK z \in ToSet(t.body[d]) : y = r[z]
      BY <1>6
    <2>3. x = z
      BY <1>1, <1>6, <2>1, <2>2
    <2>4. ToSet(t.body[c]) \cap ToSet(t.body[d]) = {}
      BY DEF IsSubtree
    <2> QED  BY <2>1, <2>2, <2>3, <2>4
  <1>11. \A y \in DOMAIN u.node \ {u.root} : \E h \in DOMAIN u.body : y \in ToSet(u.body[h])
    <2> SUFFICES ASSUME NEW x \in N, x # t.root PROVE \E h \in DOMAIN u.body : r[x] \in ToSet(u.body[h])
      BY <1>3
    <2>1. PICK c \in DOMAIN t.body : x \in ToSet(t.body[c])
      BY DEF IsSubtree
    <2> QED  BY <1>3, <1>6, <2>1
  <1>12. u.inside[u.root] = {}
    BY <1>2, <1>3, <1>4
  <1>13. \A h \in DOMAIN u.body : \A y \in ToSet(u.body[h]) : u.inside[y] = u.inside[h] \cup {h}
    <2> SUFFICES ASSUME NEW c \in DOMAIN t.body, NEW x \in ToSet(t.body[c])
                 PROVE  u.inside[r[x]] = u.inside[r[c]] \cup {r[c]}
      BY <1>3, <1>6
    <2>1. t.inside[x] = t.inside[c] \cup {c} /\ c \in N /\ x \in N
      BY <1>2, <1>6 DEF IsSubtree
    <2>2. \A y : y \in u.inside[r[x]] <=> \E d \in t.inside[x] : y = r[d]
      BY <1>4, <2>1
    <2>3. \A y : y \in u.inside[r[c]] <=> \E d \in t.inside[c] : y = r[d]
      BY <1>4, <2>1
    <2> QED  BY <2>1, <2>2, <2>3
  <1>14. \A y \in DOMAIN u.node : /\ u.inside[y] \subseteq DOMAIN u.body \ {y}
                                  /\ \A z \in u.inside[y] : u.inside[z] \subseteq u.inside[y]
    <2> SUFFICES ASSUME NEW x \in N
                 PROVE  /\ u.inside[r[x]] \subseteq DOMAIN u.body \ {r[x]}
                        /\ \A z \in u.inside[r[x]] : u.inside[z] \subseteq u.inside[r[x]]
      BY <1>3
    <2>1. t.inside[x] \subseteq DOMAIN t.body \ {x} /\ \A y \in t.inside[x] : t.inside[y] \subseteq t.inside[x]
      BY DEF IsSubtree
    <2>2. \A y : y \in u.inside[r[x]] <=> \E d \in t.inside[x] : y = r[d]
      BY <1>4
    <2>3. ASSUME NEW d \in t.inside[x] PROVE r[d] \in DOMAIN u.body \ {r[x]}
      <3>1. d \in N /\ d # x /\ d \in DOMAIN t.body
        BY <1>2, <2>1
      <3> QED  BY <1>1, <1>3, <3>1
    <2>4. ASSUME NEW d \in t.inside[x] PROVE u.inside[r[d]] \subseteq u.inside[r[x]]
      <3>1. d \in N /\ t.inside[d] \subseteq t.inside[x]
        BY <1>2, <2>1
      <3>2. \A y : y \in u.inside[r[d]] <=> \E e \in t.inside[d] : y = r[e]
        BY <1>4, <3>1
      <3> QED  BY <2>2, <3>1, <3>2
    <2> QED  BY <2>2, <2>3, <2>4
  <1>15. u.root \in DOMAIN u.node /\ DOMAIN u.node \subseteq IdSet \ {Top, InputSource.node}
    BY <1>1, <1>2, <1>3
  <1>16. IsSubtree(u)
    BY <1>3, <1>8, <1>9, <1>10, <1>11, <1>12, <1>13, <1>14, <1>15 DEF IsSubtree
  <1>17. IsWiredIn(u, FALSE)
    <2> SUFFICES ASSUME NEW x \in N
                 PROVE  /\ IsNode(u.node[r[x]]) /\ u.node[r[x]].harvest \subseteq Hidden
                        /\ \A f \in DOMAIN t.node[x].binds \ Unchecked :
                             /\ u.node[r[x]].binds[f] # InputSource
                             /\ OfBody(u.node[r[x]], f) => u.node[r[x]].binds[f].port \notin Hidden
      BY <1>3, <1>4 DEF IsWiredIn
    <2>1. /\ IsNode(t.node[x]) /\ t.node[x].harvest \subseteq Hidden
          /\ \A f \in DOMAIN t.node[x].binds \ Unchecked :
               /\ t.node[x].binds[f] # InputSource
               /\ OfBody(t.node[x], f) => t.node[x].binds[f].port \notin Hidden
      BY DEF IsWiredIn
    <2>2. IsNode(u.node[r[x]]) /\ SameButBinds(t.node[x], u.node[r[x]])
      BY <1>4
    <2>3. ASSUME NEW f \in DOMAIN t.node[x].binds \ Unchecked
          PROVE  /\ u.node[r[x]].binds[f] # InputSource
                 /\ OfBody(u.node[r[x]], f) => u.node[r[x]].binds[f].port \notin Hidden
      <3>1. PICK b : b = t.node[x].binds[f]
        OBVIOUS
      <3>2. PICK d : d = u.node[r[x]].binds[f]
        OBVIOUS
      <3>3. d = Remap(r, b)
        BY <1>4, <3>1, <3>2
      <3>4. d.port = b.port
        BY <3>3, PortIs DEF Remap
      <3>5. d # InputSource
        <4>1. CASE b.node \in N
          <5>1. d.node = r[b.node]
            BY <1>1, <3>3, <4>1, PortIs DEF Remap
          <5> QED  BY <1>1, <4>1, <5>1
        <4>2. CASE b.node \notin N
          BY <1>1, <2>1, <3>1, <3>3, <4>2 DEF Remap
        <4> QED  BY <4>1, <4>2
      <3>6. OfBody(u.node[r[x]], f) <=> OfBody(t.node[x], f)
        BY <2>2 DEF OfBody, SameButBinds
      <3> QED  BY <2>1, <3>1, <3>2, <3>4, <3>5, <3>6
    <2>4. u.node[r[x]].harvest \subseteq Hidden
      BY <2>1, <2>2 DEF SameButBinds
    <2> QED  BY <2>2, <2>3, <2>4
  <1> QED  BY <1>7, <1>16, <1>17

\* An id behind a new root is an id, and differs from the root and the message.
LEMMA PrefixedIs ==
  ASSUME NEW name \in STRING \ {"$input"}, NEW n \in Nat, NEW rest \in IdSet
  PROVE  << <<name, n>> >> \o rest \in IdSet \ {Top, InputSource.node}
  <1>1. PICK c : c = << <<name, n>> >>
    OBVIOUS
  <1>2. c \in Seq(STRING \X Nat) /\ Len(c) = 1 /\ c[1] = <<name, n>>
    BY <1>1
  <1>3. PICK o : o = c \o rest
    OBVIOUS
  <1>4. rest \in Seq(STRING \X Nat) /\ Len(rest) \in Nat
    BY LenProperties DEF IdSet
  <1>5. o \in Seq(STRING \X Nat) /\ Len(o) = 1 + Len(rest) /\ o[1] = <<name, n>>
    <2>1. PICK S : S = STRING \X Nat
      OBVIOUS
    <2>2. c \in Seq(S) /\ rest \in Seq(S) /\ 1 \in 1..Len(c)
      BY <1>2, <1>4, <2>1
    <2>3. /\ c \o rest \in Seq(S) /\ Len(c \o rest) = Len(c) + Len(rest)
          /\ \A i \in 1..(Len(c) + Len(rest)) :
               (c \o rest)[i] = IF i <= Len(c) THEN c[i] ELSE rest[i - Len(c)]
      BY <2>2, ConcatProperties
    <2>4. 1 \in 1..(Len(c) + Len(rest)) /\ 1 <= Len(c)
      BY <1>2, <1>4
    <2> QED  BY <1>2, <1>3, <2>1, <2>3, <2>4
  <1>6. o # <<>>
    BY <1>4, <1>5
  <1>7. o # << <<"$input", 0>> >>
    <2>1. << <<"$input", 0>> >>[1] = <<"$input", 0>>
      OBVIOUS
    <2>2. <<"$input", 0>>[1] = "$input" /\ <<name, n>>[1] = name
      OBVIOUS
    <2> QED  BY <1>5, <2>1, <2>2
  <1> QED  BY <1>1, <1>3, <1>5, <1>6, <1>7, PortIs DEF IdSet, Top, InputSource

\* The ids a clone gets are a renaming, when they differ.
LEMMA FreshIdsRename ==
  ASSUME NEW t, IsSubtree(t), t.name \in Names, NEW n \in Nat, IsInjective(FreshIds(t, n))
  PROVE  IsRenaming(t, FreshIds(t, n))
  <1>1. PICK r : r = FreshIds(t, n)
    OBVIOUS
  <1>2. PICK first : first = << <<t.name, n>> >>
    OBVIOUS
  <1>3. r = [x \in DOMAIN t.node |->
               IF IsPrefix(t.root, x) THEN first \o SubSeq(x, Len(t.root) + 1, Len(x)) ELSE first \o x]
    BY <1>1, <1>2 DEF FreshIds
  <1>4. t.name \in STRING \ {"$input"} /\ t.root \in IdSet
    BY NamesAssumption DEF IsSubtree
  <1>5. Len(t.root) \in Nat
    BY <1>4, LenProperties DEF IdSet
  <1>6. ASSUME NEW x \in DOMAIN t.node PROVE r[x] \in IdSet \ {Top, InputSource.node}
    <2>1. x \in Seq(STRING \X Nat)
      BY DEF IsSubtree, IdSet
    <2>2. PICK k : k = Len(t.root) + 1
      OBVIOUS
    <2>3. PICK rest : rest = SubSeq(x, k, Len(x))
      OBVIOUS
    <2>4. rest \in IdSet
      <3>1. Len(x) \in Nat /\ k \in Nat /\ k >= 1
        BY <1>5, <2>1, <2>2, LenProperties
      <3>2. \A i \in k..Len(x) : x[i] \in STRING \X Nat
        BY <2>1, <3>1, ElementOfSeq
      <3> QED  BY <2>1, <2>3, <3>1, <3>2, SubSeqProperties DEF IdSet
    <2>5. r[x] = first \o rest \/ r[x] = first \o x
      BY <1>3, <2>2, <2>3
    <2>6. x \in IdSet
      BY <2>1 DEF IdSet
    <2> QED  BY <1>2, <1>4, <2>4, <2>5, <2>6, PrefixedIs
  <1>7. DOMAIN r = DOMAIN t.node
    BY <1>3
  <1> QED  BY <1>1, <1>6, <1>7 DEF IsRenaming

\* What the library holds.
IsElement(t) ==
  /\ DOMAIN t = {"name", "root", "body", "node", "inside"} /\ t.name \in Names
  /\ IsSubtree(t) /\ IsWiredIn(t, FALSE)
  /\ t.node[t.root].kind = "group" /\ "seedInput" \notin DOMAIN t.node[t.root].binds
  /\ \A x \in DOMAIN t.node : t.node[x].kind \in {"step", "group"}

\* What t is when it is the group g of s, saved under a name.
IsTemplate(s, g, name, t) ==
  /\ DOMAIN t = {"name", "root", "body", "node", "inside"} /\ t.name = name /\ t.root = g
  /\ DOMAIN t.node = {g} \cup Below(s, g) /\ DOMAIN t.inside = {g} \cup Below(s, g)
  /\ DOMAIN t.body = ({g} \cup Below(s, g)) \cap Scopes(s)
  /\ \A x \in Below(s, g) \ {g} : t.node[x] = s.node[x]
  /\ \A x \in {g} \cup Below(s, g) : t.inside[x] = s.inside[x] \cap ({g} \cup Below(s, g))
  /\ \A x \in DOMAIN t.body : t.body[x] = s.body[x]
  /\ IsNode(t.node[g]) /\ SameButBinds(s.node[g], t.node[g])
  /\ DOMAIN t.node[g].binds = DOMAIN s.node[g].binds \ {"seedInput"}
  /\ \A f \in DOMAIN t.node[g].binds : t.node[g].binds[f] = s.node[g].binds[f]

\* Some of the ports of a node are ports.
LEMMA RestrictIsPorts ==
  ASSUME NEW A, ArePorts(A), NEW S, S \subseteq DOMAIN A
  PROVE  ArePorts(Restrict(A, S)) /\ DOMAIN Restrict(A, S) = S /\ \A f \in S : Restrict(A, S)[f] = A[f]
  <1>1. PICK B : B = Restrict(A, S)
    OBVIOUS
  <1>2. B = [f \in S |-> A[f]]
    BY <1>1 DEF Restrict
  <1>3. \A f \in DOMAIN A : A[f] = Port(A[f].node, A[f].port)
    BY DEF ArePorts
  <1>4. DOMAIN B = S /\ \A f \in S : B[f] = A[f]
    BY <1>2
  <1>5. ArePorts(B)
    BY <1>2, <1>3, <1>4 DEF ArePorts
  <1> QED  BY <1>1, <1>4, <1>5

\* The operator does what it says.
LEMMA TemplateIs ==
  ASSUME NEW s, Good(s), NEW g \in Ids(s), s.node[g].kind = "group", NEW name
  PROVE  IsTemplate(s, g, name, Template(s, g, name))
  <1>1. PICK all : all = {g} \cup Below(s, g)
    OBVIOUS
  <1>2. PICK t : t = Template(s, g, name)
    OBVIOUS
  <1>3. PICK n : n = s.node[g]
    OBVIOUS
  <1>4. IsNode(n)
    BY <1>3 DEF Good
  <1>5. ArePorts(n.binds)
    BY <1>4 DEF IsNode, ArePorts
  <1>6. PICK B : B = Restrict(n.binds, DOMAIN n.binds \ {"seedInput"})
    OBVIOUS
  <1>7. /\ ArePorts(B) /\ DOMAIN B = DOMAIN n.binds \ {"seedInput"}
        /\ \A f \in DOMAIN B : B[f] = n.binds[f]
    <2>1. PICK S : S = DOMAIN n.binds \ {"seedInput"}
      OBVIOUS
    <2>2. /\ ArePorts(Restrict(n.binds, S)) /\ DOMAIN Restrict(n.binds, S) = S
          /\ \A f \in S : Restrict(n.binds, S)[f] = n.binds[f]
      BY <1>5, <2>1, RestrictIsPorts
    <2> QED  BY <1>6, <2>1, <2>2
  <1>8. PICK m : m = [n EXCEPT !.binds = B]
    OBVIOUS
  <1>9. IsNode(m) /\ m.binds = B /\ SameButBinds(n, m)
    <2>1. n.kind = "group" => DOMAIN B \subseteq {"seedInput", "bodyOutput"}
      BY <1>4, <1>7 DEF IsNode
    <2>2. LET k == [n EXCEPT !.binds = B] IN IsNode(k) /\ k.binds = B /\ SameButBinds(n, k)
      BY <1>4, <1>7, <2>1, NodeRebound
    <2> QED  BY <1>8, <2>2
  <1>10. PICK c : c = Restrict(s.node, all)
    OBVIOUS
  <1>11. DOMAIN c = all /\ \A x \in all : c[x] = s.node[x]
    BY <1>10 DEF Restrict
  <1>12. PICK nodes : nodes = [c EXCEPT ![g] = m]
    OBVIOUS
  <1>13. DOMAIN nodes = all /\ nodes[g] = m /\ \A x \in all \ {g} : nodes[x] = s.node[x]
    BY <1>1, <1>11, <1>12
  <1>14. nodes = [c EXCEPT ![g].binds = Restrict(c[g].binds, DOMAIN c[g].binds \ {"seedInput"})]
    <2>1. c[g] = n
      BY <1>1, <1>3, <1>11
    <2> QED  BY <1>6, <1>8, <1>12, <2>1
  <1>15. t = [name |-> name, root |-> g, body |-> Restrict(s.body, all \cap Scopes(s)),
              node |-> nodes, inside |-> [x \in all |-> s.inside[x] \cap all]]
    BY <1>1, <1>2, <1>10, <1>14 DEF Template
  <1>16. /\ DOMAIN t = {"name", "root", "body", "node", "inside"} /\ t.name = name /\ t.root = g
         /\ t.body = Restrict(s.body, all \cap Scopes(s)) /\ t.node = nodes
         /\ t.inside = [x \in all |-> s.inside[x] \cap all]
    BY <1>15
  <1>17. DOMAIN t.inside = all /\ \A x \in all : t.inside[x] = s.inside[x] \cap all
    BY <1>16
  <1>18. DOMAIN t.body = all \cap Scopes(s) /\ \A x \in DOMAIN t.body : t.body[x] = s.body[x]
    BY <1>16 DEF Restrict
  <1>19. IsTemplate(s, g, name, t)
    BY <1>1, <1>3, <1>7, <1>9, <1>13, <1>16, <1>17, <1>18 DEF IsTemplate
  <1> QED  BY <1>2, <1>19

\* What is saved from a spec that is well made is an element.
LEMMA TemplateIsElement ==
  ASSUME NEW s, Good(s), NEW g \in Ids(s), s.node[g].kind = "group",
         \A x \in Below(s, g) : s.node[x].kind \in {"step", "group"},
         NEW name \in Names, NEW t, IsTemplate(s, g, name, t)
  PROVE  IsElement(t)
  <1> DEFINE below == Below(s, g)
             all == {g} \cup below
  <1>1. /\ DOMAIN t = {"name", "root", "body", "node", "inside"} /\ t.name = name /\ t.root = g
        /\ DOMAIN t.node = all /\ DOMAIN t.inside = all
        /\ DOMAIN t.body = all \cap Scopes(s)
        /\ \A x \in below \ {g} : t.node[x] = s.node[x]
        /\ \A x \in all : t.inside[x] = s.inside[x] \cap all
        /\ \A x \in DOMAIN t.body : t.body[x] = s.body[x]
        /\ IsNode(t.node[g]) /\ SameButBinds(s.node[g], t.node[g])
        /\ DOMAIN t.node[g].binds = DOMAIN s.node[g].binds \ {"seedInput"}
        /\ \A f \in DOMAIN t.node[g].binds : t.node[g].binds[f] = s.node[g].binds[f]
    BY DEF IsTemplate
  <1>2. /\ IsTree(s) /\ IsWired(s)
        /\ \A x \in Ids(s) : IsNode(s.node[x]) /\ s.node[x].harvest \subseteq Hidden
    BY DEF Good
  <1>3. \A y : y \in below <=> y \in Ids(s) /\ g \in s.inside[y]
    BY DEF Below
  <1> HIDE DEF below
  <1>4. /\ Ids(s) \subseteq IdSet \ {Top, InputSource.node}
        /\ Scopes(s) = {Top} \cup (Ids(s) \ Leaves(s))
        /\ \A x \in Ids(s) : /\ s.inside[x] \subseteq Scopes(s) \ {Top, x}
                             /\ \A y \in s.inside[x] : s.inside[y] \subseteq s.inside[x]
    BY <1>2 DEF IsTree
  <1>5. all \subseteq Ids(s) /\ g \notin below
    BY <1>3, <1>4
  <1>6. \A x \in all : SameButBinds(s.node[x], t.node[x])
    <2> TAKE x \in all
    <2>1. CASE x = g
      BY <1>1, <2>1
    <2>2. CASE x # g
      <3>1. t.node[x] = s.node[x]
        BY <1>1, <2>2
      <3> QED  BY <3>1 DEF SameButBinds
    <2> QED  BY <2>1, <2>2
  <1>7. ASSUME NEW h \in DOMAIN t.body, NEW x \in ToSet(s.body[h])
        PROVE  x \in below /\ s.inside[x] = s.inside[h] \cup {h}
    <2>1. h \in Scopes(s) /\ h \in Ids(s) /\ h # Top /\ h \in all
      BY <1>1, <1>4, <1>5
    <2>2. x \in Ids(s) /\ s.inside[x] = Enclosing(s, h)
      BY <1>2, <2>1, HomeIs
    <2>3. s.inside[x] = s.inside[h] \cup {h}
      BY <2>1, <2>2 DEF Enclosing
    <2>4. g = h \/ g \in s.inside[h]
      BY <1>3, <2>1
    <2> QED  BY <1>3, <2>2, <2>3, <2>4
  <1>8. \A h \in DOMAIN t.body : IsBody(DOMAIN t.node, t.body[h]) /\ t.root \notin ToSet(t.body[h])
    <2> SUFFICES ASSUME NEW h \in DOMAIN t.body
                 PROVE  IsBody(DOMAIN t.node, t.body[h]) /\ t.root \notin ToSet(t.body[h])
      OBVIOUS
    <2>1. IsBody(Ids(s), s.body[h])
      BY <1>1, <1>2, ScopeIs
    <2>2. \A x \in ToSet(s.body[h]) : x \in DOMAIN t.node /\ x # g
      BY <1>1, <1>5, <1>7
    <2>3. IsBody(DOMAIN t.node, s.body[h])
      BY <2>1, <2>2, WiderBody
    <2> QED  BY <1>1, <2>2, <2>3
  <1>9. DOMAIN t.body = {x \in DOMAIN t.node : t.node[x].kind # "step"}
    <2>1. \A x \in all : t.node[x].kind = s.node[x].kind
      BY <1>6 DEF SameButBinds
    <2>2. \A x \in all : x \in Scopes(s) <=> s.node[x].kind # "step"
      BY <1>4, <1>5 DEF Leaves
    <2> QED  BY <1>1, <2>1, <2>2
  <1>10. \A h, k \in DOMAIN t.body : h # k => ToSet(t.body[h]) \cap ToSet(t.body[k]) = {}
    <2> SUFFICES ASSUME NEW h \in DOMAIN t.body, NEW k \in DOMAIN t.body, h # k
                 PROVE  ToSet(t.body[h]) \cap ToSet(t.body[k]) = {}
      OBVIOUS
    <2>1. ToSet(s.body[h]) \cap ToSet(s.body[k]) = {}
      BY <1>1, <1>2, ApartIs
    <2> QED  BY <1>1, <2>1
  <1>11. \A x \in DOMAIN t.node \ {t.root} : \E h \in DOMAIN t.body : x \in ToSet(t.body[h])
    <2> SUFFICES ASSUME NEW x \in below PROVE \E h \in DOMAIN t.body : x \in ToSet(s.body[h])
      BY <1>1
    <2>1. x \in Ids(s) /\ g \in s.inside[x]
      BY <1>3
    <2>2. PICK h : h = Home(s, x)
      OBVIOUS
    <2>3. h \in Scopes(s) /\ x \in ToSet(s.body[h]) /\ s.inside[x] = Enclosing(s, h)
      BY <1>2, <2>1, <2>2, HomeExists
    <2>4. h # Top
      BY <2>1, <2>3 DEF Enclosing
    <2>5. h \in Ids(s) /\ s.inside[x] = s.inside[h] \cup {h}
      BY <1>4, <2>3, <2>4 DEF Enclosing
    <2>6. h \in all
      BY <1>3, <2>1, <2>5
    <2> QED  BY <1>1, <2>3, <2>6
  <1>12. t.inside[t.root] = {}
    <2>1. ASSUME NEW y \in s.inside[g], y \in all PROVE FALSE
      <3>1. y # g /\ s.inside[y] \subseteq s.inside[g] /\ g \notin s.inside[g]
        BY <1>4, <2>1
      <3>2. g \in s.inside[y]
        BY <1>3, <2>1, <3>1
      <3> QED  BY <3>1, <3>2
    <2> QED  BY <1>1, <2>1
  <1>13. \A h \in DOMAIN t.body : \A x \in ToSet(t.body[h]) : t.inside[x] = t.inside[h] \cup {h}
    <2> SUFFICES ASSUME NEW h \in DOMAIN t.body, NEW x \in ToSet(s.body[h])
                 PROVE  t.inside[x] = t.inside[h] \cup {h}
      BY <1>1
    <2>1. h \in all /\ x \in all /\ s.inside[x] = s.inside[h] \cup {h}
      BY <1>1, <1>7
    <2>2. t.inside[x] = s.inside[x] \cap all /\ t.inside[h] = s.inside[h] \cap all
      BY <1>1, <2>1
    <2> QED  BY <2>1, <2>2
  <1>14. \A x \in DOMAIN t.node : /\ t.inside[x] \subseteq DOMAIN t.body \ {x}
                                  /\ \A y \in t.inside[x] : t.inside[y] \subseteq t.inside[x]
    <2> SUFFICES ASSUME NEW x \in all
                 PROVE  /\ t.inside[x] \subseteq DOMAIN t.body \ {x}
                        /\ \A y \in t.inside[x] : t.inside[y] \subseteq t.inside[x]
      BY <1>1
    <2>1. t.inside[x] = s.inside[x] \cap all
      BY <1>1
    <2>2. /\ s.inside[x] \subseteq Scopes(s) \ {Top, x}
          /\ \A y \in s.inside[x] : s.inside[y] \subseteq s.inside[x]
      BY <1>4, <1>5
    <2>3. \A y \in t.inside[x] : t.inside[y] = s.inside[y] \cap all
      BY <1>1, <2>1
    <2> QED  BY <1>1, <2>1, <2>2, <2>3
  <1>15. t.root \in DOMAIN t.node /\ DOMAIN t.node \subseteq IdSet \ {Top, InputSource.node}
    BY <1>1, <1>4, <1>5
  <1>16. IsSubtree(t)
    <2>1. DOMAIN t.inside = DOMAIN t.node
      BY <1>1
    <2> QED  BY <1>8, <1>9, <1>10, <1>11, <1>12, <1>13, <1>14, <1>15, <2>1 DEF IsSubtree
  <1>17. IsWiredIn(t, FALSE)
    <2> SUFFICES ASSUME NEW x \in all
                 PROVE  /\ IsNode(t.node[x]) /\ t.node[x].harvest \subseteq Hidden
                        /\ \A f \in DOMAIN t.node[x].binds \ Unchecked :
                             /\ t.node[x].binds[f] # InputSource
                             /\ OfBody(t.node[x], f) => t.node[x].binds[f].port \notin Hidden
      BY <1>1 DEF IsWiredIn
    <2>1. x \in Ids(s)
      BY <1>5
    <2>2. /\ IsNode(s.node[x]) /\ s.node[x].harvest \subseteq Hidden
          /\ \A f \in DOMAIN s.node[x].binds \ Unchecked :
               /\ s.node[x].binds[f] = InputSource => s.inside[x] = {} /\ ~OfBody(s.node[x], f)
               /\ OfBody(s.node[x], f) => s.node[x].binds[f].port \notin Hidden
      BY <1>2, <2>1 DEF IsWired
    <2>3. CASE x # g
      <3>1. t.node[x] = s.node[x] /\ s.inside[x] # {}
        BY <1>1, <1>3, <2>3
      <3> QED  BY <2>2, <3>1
    <2>4. CASE x = g
      <3>1. t.node[g].harvest \subseteq Hidden
        BY <1>6, <2>2, <2>4 DEF SameButBinds
      <3>2. ASSUME NEW f \in DOMAIN t.node[g].binds \ Unchecked
            PROVE  /\ t.node[g].binds[f] # InputSource
                   /\ OfBody(t.node[g], f) => t.node[g].binds[f].port \notin Hidden
        <4>1. f \in DOMAIN s.node[g].binds \ Unchecked /\ f # "seedInput"
              /\ t.node[g].binds[f] = s.node[g].binds[f]
          BY <1>1
        <4>2. DOMAIN s.node[g].binds \subseteq {"seedInput", "bodyOutput"}
          BY <2>2, <2>4 DEF IsNode
        <4>3. OfBody(s.node[g], f) /\ (OfBody(t.node[g], f) <=> OfBody(s.node[g], f))
          BY <1>1, <4>1, <4>2 DEF OfBody, BodyFields, SameButBinds
        <4> QED  BY <2>2, <2>4, <4>1, <4>3
      <3> QED  BY <1>1, <2>4, <3>1, <3>2
    <2> QED  BY <2>3, <2>4
  <1>18. \A x \in DOMAIN t.node : t.node[x].kind \in {"step", "group"}
    BY <1>1, <1>5, <1>6 DEF SameButBinds, below
  <1>19. t.node[t.root].kind = "group" /\ "seedInput" \notin DOMAIN t.node[t.root].binds
    BY <1>1, <1>6 DEF SameButBinds
  <1> QED  BY <1>1, <1>16, <1>17, <1>18, <1>19 DEF IsElement

-----------------------------------------------------------------------------
(***************************************************************************)
(* What is left when a node and all in it are taken out.                   *)
(***************************************************************************)

IsRemoved(s, x, u) ==
  /\ DOMAIN u = {"body", "node", "inside", "exit"} /\ u.exit = s.exit
  /\ Ids(u) = Ids(s) \ ({x} \cup Below(s, x)) /\ DOMAIN u.inside = Ids(u)
  /\ \A y \in Ids(u) : u.node[y] = s.node[y] /\ u.inside[y] = s.inside[y]
  /\ Scopes(u) = Scopes(s) \cap ({Top} \cup Ids(u))
  /\ \A g \in Scopes(u) : /\ IsBody(Ids(s), u.body[g])
                          /\ ToSet(u.body[g]) = ToSet(s.body[g]) \ {x}

\* The operator does what it says.
LEMMA RemovedIs ==
  ASSUME NEW s, Good(s), NEW x \in Ids(s)
  PROVE  IsRemoved(s, x, Removed(s, x))
  <1>1. PICK rest : rest = Ids(s) \ ({x} \cup Below(s, x))
    OBVIOUS
  <1>2. PICK h : h = Home(s, x)
    OBVIOUS
  <1>3. PICK b : b = s.body[h]
    OBVIOUS
  <1>4. IsTree(s) /\ DOMAIN s = {"body", "node", "inside", "exit"}
    BY DEF Good
  <1>5. h \in Scopes(s) /\ x \in ToSet(b) /\ IsBody(Ids(s), b)
    BY <1>2, <1>3, <1>4, HomeExists, ScopeIs
  <1>6. PICK i : i = CHOOSE j \in DOMAIN b : b[j] = x
    OBVIOUS
  <1>7. i \in 1..Len(b) /\ b[i] = x
    <2>1. \E j \in DOMAIN b : b[j] = x
      BY <1>5 DEF IsBody
    <2>2. i \in DOMAIN b /\ b[i] = x
      BY <1>6, <2>1
    <2> QED  BY <1>5, <2>2 DEF IsBody
  <1>8. PICK c : c = RemoveAt(b, i)
    OBVIOUS
  <1>9. IsBody(Ids(s), c) /\ ToSet(c) = ToSet(b) \ {x}
    <2>1. b \in Seq(Ids(s)) /\ Distinct(b)
      BY <1>5 DEF IsBody
    <2>2. ToSet(c) = ToSet(b) \ {b[i]} /\ Distinct(c)
      BY <1>7, <1>8, <2>1, RemoveAtKeepsDistinct
    <2>3. c \in Seq(Ids(s))
      BY <1>7, <1>8, <2>1, RemoveAtIs
    <2> QED  BY <1>7, <2>2, <2>3, SequenceIs DEF IsBody
  <1>10. PICK bodies : bodies = [s.body EXCEPT ![h] = c]
    OBVIOUS
  <1>11. DOMAIN bodies = Scopes(s) /\ bodies[h] = c /\ \A g \in Scopes(s) \ {h} : bodies[g] = s.body[g]
    BY <1>5, <1>10 DEF Scopes
  <1>12. PICK u : u = Removed(s, x)
    OBVIOUS
  <1>13. u = [s EXCEPT !.body = Restrict(bodies, Scopes(s) \cap ({Top} \cup rest)),
                       !.node = Restrict(s.node, rest), !.inside = Restrict(s.inside, rest)]
    <2>1. \A d : d = b => (CHOOSE j \in DOMAIN d : d[j] = x) = i
      BY <1>6
    <2>2. (CHOOSE j \in DOMAIN s.body[h] : s.body[h][j] = x) = i
      BY <1>3, <2>1
    <2> QED  BY <1>1, <1>2, <1>3, <1>8, <1>10, <1>12, <2>2 DEF Removed
  <1>14. PICK B : B = Restrict(bodies, Scopes(s) \cap ({Top} \cup rest))
    OBVIOUS
  <1>15. PICK N : N = Restrict(s.node, rest)
    OBVIOUS
  <1>16. PICK I : I = Restrict(s.inside, rest)
    OBVIOUS
  <1>17. u = [s EXCEPT !.body = B, !.node = N, !.inside = I]
    BY <1>13, <1>14, <1>15, <1>16
  <1>18. /\ DOMAIN u = {"body", "node", "inside", "exit"} /\ u.exit = s.exit
         /\ u.body = B /\ u.node = N /\ u.inside = I
    BY <1>4, <1>17
  <1>19. /\ DOMAIN N = rest /\ \A y \in rest : N[y] = s.node[y]
         /\ DOMAIN I = rest /\ \A y \in rest : I[y] = s.inside[y]
         /\ DOMAIN B = Scopes(s) \cap ({Top} \cup rest) /\ \A g \in DOMAIN B : B[g] = bodies[g]
    BY <1>14, <1>15, <1>16 DEF Restrict
  <1>20. ASSUME NEW g \in DOMAIN B
         PROVE  IsBody(Ids(s), B[g]) /\ ToSet(B[g]) = ToSet(s.body[g]) \ {x}
    <2>1. g \in Scopes(s) /\ B[g] = bodies[g]
      BY <1>19
    <2>2. CASE g = h
      BY <1>3, <1>9, <1>11, <2>1, <2>2
    <2>3. CASE g # h
      <3>1. B[g] = s.body[g]
        BY <1>11, <2>1, <2>3
      <3>2. IsBody(Ids(s), s.body[g])
        BY <1>4, <2>1, ScopeIs
      <3>3. ToSet(s.body[g]) \cap ToSet(s.body[h]) = {}
        BY <1>4, <1>5, <2>1, <2>3, ApartIs
      <3> QED  BY <1>3, <1>5, <3>1, <3>2, <3>3
    <2> QED  BY <2>2, <2>3
  <1>21. IsRemoved(s, x, u)
    BY <1>1, <1>18, <1>19, <1>20 DEF IsRemoved, Ids, Scopes
  <1> QED  BY <1>12, <1>21

\* What is left after a removal is well made: it is a tree, and a wire does not
\* change.
LEMMA RemovedIsGood ==
  ASSUME NEW s, Good(s), NEW x \in Ids(s), NEW u, IsRemoved(s, x, u)
  PROVE  Good(u)
  <1>1. /\ DOMAIN u = {"body", "node", "inside", "exit"}
        /\ Ids(u) = Ids(s) \ ({x} \cup Below(s, x)) /\ DOMAIN u.inside = Ids(u)
        /\ \A y \in Ids(u) : u.node[y] = s.node[y] /\ u.inside[y] = s.inside[y]
        /\ Scopes(u) = Scopes(s) \cap ({Top} \cup Ids(u))
        /\ \A g \in Scopes(u) : /\ IsBody(Ids(s), u.body[g])
                                /\ ToSet(u.body[g]) = ToSet(s.body[g]) \ {x}
    BY DEF IsRemoved
  <1>2. /\ IsTree(s) /\ IsWired(s)
        /\ \A y \in Ids(s) : IsNode(s.node[y]) /\ s.node[y].harvest \subseteq Hidden
    BY DEF Good
  <1>3. \A y : y \in Ids(u) <=> y \in Ids(s) /\ y # x /\ x \notin s.inside[y]
    BY <1>1 DEF Below
  <1>4. /\ Ids(s) \subseteq IdSet \ {Top, InputSource.node}
        /\ Scopes(s) = {Top} \cup (Ids(s) \ Leaves(s))
        /\ \A y \in Ids(s) : /\ s.inside[y] \subseteq Scopes(s) \ {Top, y}
                             /\ \A z \in s.inside[y] : s.inside[z] \subseteq s.inside[y]
    BY <1>2 DEF IsTree
  <1>5. \A g \in Scopes(u) : Enclosing(u, g) = Enclosing(s, g) /\ x \notin Enclosing(s, g)
    BY <1>1, <1>3 DEF Enclosing
  <1>6. ASSUME NEW g \in Scopes(u), NEW y \in ToSet(s.body[g]), y # x
        PROVE  y \in Ids(u)
    <2>1. y \in Ids(s) /\ s.inside[y] = Enclosing(s, g)
      BY <1>1, <1>2, HomeIs
    <2> QED  BY <1>3, <1>5, <1>6, <2>1
  <1>7. \A g \in Scopes(u) : IsBody(Ids(u), u.body[g])
    <2> SUFFICES ASSUME NEW g \in Scopes(u) PROVE IsBody(Ids(u), u.body[g])
      OBVIOUS
    <2>1. \A y \in ToSet(u.body[g]) : y \in Ids(u)
      BY <1>1, <1>6
    <2> QED  BY <1>1, <2>1, WiderBody
  <1>8. \A g, h \in Scopes(u) : g # h => ToSet(u.body[g]) \cap ToSet(u.body[h]) = {}
    <2> SUFFICES ASSUME NEW g \in Scopes(u), NEW h \in Scopes(u), g # h
                 PROVE  ToSet(u.body[g]) \cap ToSet(u.body[h]) = {}
      OBVIOUS
    <2>1. ToSet(s.body[g]) \cap ToSet(s.body[h]) = {}
      BY <1>1, <1>2, ApartIs
    <2> QED  BY <1>1, <2>1
  <1>9. \A g, h \in Scopes(u) : \A i \in DOMAIN u.body[g], j \in DOMAIN u.body[h] :
          u.body[g][i] = u.body[h][j] => g = h /\ i = j
    BY <1>7, <1>8, OnePlace
  <1>10. Scopes(u) = {Top} \cup (Ids(u) \ Leaves(u))
    <2>1. \A y \in Ids(u) : y \in Leaves(u) <=> y \in Leaves(s)
      BY <1>1, <1>3 DEF Leaves
    <2> QED  BY <1>1, <1>3, <1>4, <2>1
  <1>11. \A y \in Ids(u) : \E g \in Scopes(u) : y \in ToSet(u.body[g])
    <2> SUFFICES ASSUME NEW y \in Ids(u) PROVE \E g \in Scopes(u) : y \in ToSet(u.body[g])
      OBVIOUS
    <2>1. PICK g : g = Home(s, y)
      OBVIOUS
    <2>2. g \in Scopes(s) /\ y \in ToSet(s.body[g]) /\ s.inside[y] = Enclosing(s, g)
      BY <1>2, <1>3, <2>1, HomeExists
    <2>3. g = Top \/ g \in Ids(u)
      BY <1>3, <1>4, <2>2 DEF Enclosing
    <2> QED  BY <1>1, <1>3, <2>2, <2>3
  <1>12. \A g \in Scopes(u) : \A y \in ToSet(u.body[g]) : u.inside[y] = Enclosing(u, g)
    <2> SUFFICES ASSUME NEW g \in Scopes(u), NEW y \in ToSet(u.body[g])
                 PROVE  u.inside[y] = Enclosing(u, g)
      OBVIOUS
    <2>1. y \in ToSet(s.body[g]) /\ y \in Ids(u)
      BY <1>1, <1>6
    <2>2. s.inside[y] = Enclosing(s, g)
      BY <1>1, <1>2, <2>1, HomeIs
    <2> QED  BY <1>1, <1>5, <2>1, <2>2
  <1>13. \A y \in Ids(u) : /\ u.inside[y] \subseteq Scopes(u) \ {Top, y}
                           /\ \A z \in u.inside[y] : u.inside[z] \subseteq u.inside[y]
    <2> SUFFICES ASSUME NEW y \in Ids(u)
                 PROVE  /\ u.inside[y] \subseteq Scopes(u) \ {Top, y}
                        /\ \A z \in u.inside[y] : u.inside[z] \subseteq u.inside[y]
      OBVIOUS
    <2>1. /\ s.inside[y] \subseteq Scopes(s) \ {Top, y}
          /\ \A z \in s.inside[y] : s.inside[z] \subseteq s.inside[y]
          /\ x \notin s.inside[y] /\ u.inside[y] = s.inside[y]
      BY <1>1, <1>3, <1>4
    <2>2. ASSUME NEW z \in s.inside[y] PROVE z \in Ids(u)
      <3>1. z \in Ids(s) /\ z # x /\ x \notin s.inside[z]
        BY <1>4, <2>1
      <3> QED  BY <1>3, <3>1
    <2> QED  BY <1>1, <2>1, <2>2
  <1>14. \A g \in Scopes(u) : u.body[g] \in Seq(Ids(u))
    BY <1>7 DEF IsBody
  <1>15. IsTree(u)
    BY <1>1, <1>3, <1>4, <1>9, <1>10, <1>11, <1>12, <1>13, <1>14 DEF IsTree
  <1>16. IsWired(u)
    BY <1>1, <1>2, <1>3 DEF IsWired
  <1> QED  BY <1>1, <1>2, <1>3, <1>15, <1>16 DEF Good

-----------------------------------------------------------------------------
(***************************************************************************)
(* The operations.                                                         *)
(***************************************************************************)

\* What a saved element becomes at slot <<h, i>>: its copy c, seeded as w.
IsDrop(s, h, i, t, r, c, w) ==
  /\ IsRenaming(t, r) /\ (\A x \in DOMAIN r : r[x] \notin Ids(s))
  /\ IsClone(t, r, c) /\ IsSubtree(c) /\ IsWiredIn(c, FALSE)
  /\ (\A d \in DOMAIN t.body : \A x \in DOMAIN t.node :
        r[x] \in ToSet(c.body[r[d]]) <=> x \in ToSet(t.body[d]))
  /\ c.node[c.root].kind = "group" /\ "seedInput" \notin DOMAIN c.node[c.root].binds
  /\ IsSeeded(c, PickSeed(s, h, i), w) /\ IsWiredIn(w, h = Top)
  /\ Joinable(s, h, i, w)

\* A saved element arrives so when its new ids are free.
LEMMA DropIs ==
  ASSUME NEW s, Good(s), NEW t, IsElement(t), NEW n \in Nat,
         NEW r, r = FreshIds(t, n), IsInjective(r), Range(r) \cap Ids(s) = {},
         NEW h \in Scopes(s), NEW i \in 1..(Len(s.body[h]) + 1)
  PROVE  IsDrop(s, h, i, t, r, Clone(t, r), WithSeed(Clone(t, r), PickSeed(s, h, i)))
  <1>1. /\ IsSubtree(t) /\ IsWiredIn(t, FALSE) /\ t.name \in Names
        /\ t.node[t.root].kind = "group" /\ "seedInput" \notin DOMAIN t.node[t.root].binds
        /\ t.root \in DOMAIN t.node
    BY DEF IsElement, IsSubtree
  <1>2. IsRenaming(t, r)
    BY <1>1, FreshIdsRename
  <1>3. \A x \in DOMAIN r : r[x] \notin Ids(s)
    BY DEF Range
  <1>4. PICK c : c = Clone(t, r)
    OBVIOUS
  <1>5. IsClone(t, r, c)
    BY <1>1, <1>2, <1>4, CloneIs
  <1>6. /\ IsSubtree(c) /\ IsWiredIn(c, FALSE)
        /\ \A d \in DOMAIN t.body : \A x \in DOMAIN t.node :
             r[x] \in ToSet(c.body[r[d]]) <=> x \in ToSet(t.body[d])
    BY <1>1, <1>2, <1>5, CloneIsSubtree
  <1>7. /\ DOMAIN c = {"root", "body", "node", "inside"} /\ c.root = r[t.root]
        /\ \A y : y \in DOMAIN c.node <=> \E x \in DOMAIN t.node : y = r[x]
        /\ SameButBinds(t.node[t.root], c.node[r[t.root]])
        /\ DOMAIN c.node[r[t.root]].binds = DOMAIN t.node[t.root].binds
    BY <1>1, <1>5 DEF IsClone
  <1>8. c.node[c.root].kind = "group" /\ "seedInput" \notin DOMAIN c.node[c.root].binds
    BY <1>1, <1>7 DEF SameButBinds
  <1>9. PICK seeds : seeds = PickSeed(s, h, i)
    OBVIOUS
  <1>10. \A b \in seeds : b = Port(b.node, b.port) /\ (b = InputSource => h = Top)
    BY <1>9, SeedIs
  <1>11. PICK w : w = WithSeed(c, seeds)
    OBVIOUS
  <1>12. {"root", "body", "node", "inside"} \subseteq DOMAIN c
    BY <1>7
  <1>13. IsSeeded(c, seeds, w)
    BY <1>6, <1>8, <1>10, <1>11, <1>12, WithSeedIs
  <1>14. PICK top \in BOOLEAN : top = (h = Top)
    OBVIOUS
  <1>15. IsSubtree(w) /\ IsWiredIn(w, top)
    <2>1. \A b \in seeds : b = InputSource => top
      BY <1>10, <1>14
    <2> QED  BY <1>6, <1>8, <1>13, <2>1, SeededIsSubtree
  <1>16. IsWiredIn(w, h = Top)
    BY <1>14, <1>15
  <1>17. DOMAIN w.node = DOMAIN c.node
    BY <1>13 DEF IsSeeded
  <1>18. DOMAIN w.node \cap Ids(s) = {}
    BY <1>2, <1>3, <1>7, <1>17 DEF IsRenaming
  <1>19. Joinable(s, h, i, w)
    BY <1>15, <1>18 DEF Joinable
  <1> QED  BY <1>2, <1>3, <1>4, <1>5, <1>6, <1>8, <1>9, <1>11, <1>13, <1>16, <1>19 DEF IsDrop

\* The inductive invariant: the live spec is well made, and so is every saved
\* element.
IInv ==
  /\ Good(spec)
  /\ \A t \in library : IsElement(t)
  /\ edits \in 0..MaxEdits

\* Every wire of u at a node that s has too is one that s has, or resolves.
KeepsWires(s, u) ==
  /\ Good(u)
  /\ \A x \in Ids(s) \cap Ids(u) : \A p \in DOMAIN u.node[x].binds :
       \/ p \in DOMAIN s.node[x].binds /\ s.node[x].binds[p] = u.node[x].binds[p]
       \/ Resolves(u, x, p)

\* An insertion changes no wire of the nodes that were there.
LEMMA GraftKeepsWires ==
  ASSUME NEW s, NEW h, NEW i, NEW t, Joinable(s, h, i, t), IsWiredIn(t, h = Top)
  PROVE  KeepsWires(s, Grafted(s, h, i, t))
  <1>1. PICK u : u = Grafted(s, h, i, t)
    OBVIOUS
  <1>2. IsGraft(s, h, i, t, u)
    BY <1>1, GraftedIs
  <1>3. Good(u)
    BY <1>1, GraftIsGood
  <1>4. \A x \in Ids(s) : u.node[x] = s.node[x]
    BY <1>2 DEF IsGraft
  <1> QED  BY <1>1, <1>3, <1>4 DEF KeepsWires

\* An edit stays within the bound.
LEMMA EditCounts ==
  ASSUME edits \in 0..MaxEdits, NEW s, Edit(s)
  PROVE  edits' \in 0..MaxEdits /\ spec' = s
  <1>1. edits + 1 < MaxEdits \/ edits + 0 < MaxEdits
    BY DEF Edit
  <1> QED  BY <1>1, BoundsAssumption DEF Edit

\* Each operation keeps the invariant and makes only wires that resolve: a leaf
\* dropped ...
LEMMA InsertStepKeeps ==
  ASSUME IInv, NEW w \in Slots(spec), NEW n \in 1..MaxNumber, NEW t \in Palette,
         InsertStep(t, w[1], w[2], n)
  PROVE  IInv' /\ KeepsWires(spec, spec')
  <1>1. PICK id : id = << <<t.base, n>> >>
    OBVIOUS
  <1>2. id \in IdSet \ {Top, InputSource.node}
    <2>1. t.base \in STRING /\ n \in Nat /\ n # 0
      BY NamesAssumption, BoundsAssumption
    <2>2. << <<t.base, n>> >> \in IdSet \ {Top, InputSource.node}
      BY <2>1, NumberedIs
    <2> QED  BY <1>1, <2>2
  <1>3. PICK l : l = LeafTree(t, id)
    OBVIOUS
  <1>4. IsSubtree(l) /\ IsWiredIn(l, FALSE) /\ DOMAIN l.node = {id}
    BY <1>2, <1>3, LeafTreeIs
  <1>5. w[1] \in Scopes(spec) /\ w[2] \in 1..(Len(spec.body[w[1]]) + 1)
    BY SlotIs
  <1>6. id \notin Ids(spec)
    BY <1>1 DEF InsertStep, FirstFree
  <1>7. Joinable(spec, w[1], w[2], l)
    BY <1>4, <1>5, <1>6 DEF Joinable, IInv
  <1>8. IsWiredIn(l, w[1] = Top)
    BY <1>4 DEF IsWiredIn
  <1>9. KeepsWires(spec, Grafted(spec, w[1], w[2], l))
    BY <1>7, <1>8, GraftKeepsWires
  <1>10. UNCHANGED library /\ Edit(Grafted(spec, w[1], w[2], l))
    BY <1>1, <1>3 DEF InsertStep, LeafTree
  <1>11. edits' \in 0..MaxEdits /\ spec' = Grafted(spec, w[1], w[2], l)
    BY <1>10, EditCounts DEF IInv
  <1> QED  BY <1>9, <1>10, <1>11 DEF IInv, KeepsWires

\* ... a saved element dropped ...
LEMMA InsertCompositeKeeps ==
  ASSUME IInv, NEW w \in Slots(spec), NEW n \in 0..MaxNumber, NEW t \in library,
         InsertComposite(t, w[1], w[2], n)
  PROVE  IInv' /\ KeepsWires(spec, spec')
  <1>1. PICK h : h = w[1]
    OBVIOUS
  <1>2. PICK i : i = w[2]
    OBVIOUS
  <1>3. h \in Scopes(spec) /\ i \in 1..(Len(spec.body[h]) + 1)
    BY <1>1, <1>2, SlotIs
  <1>4. PICK r : r = FreshIds(t, n)
    OBVIOUS
  <1>5. PICK v : v = WithSeed(Clone(t, r), PickSeed(spec, h, i))
    OBVIOUS
  <1>6. /\ IsInjective(r) /\ Range(r) \cap Ids(spec) = {}
        /\ UNCHANGED library /\ Edit(Grafted(spec, h, i, v))
    BY <1>1, <1>2, <1>4, <1>5 DEF InsertComposite
  <1>7. Good(spec) /\ IsElement(t) /\ n \in Nat
    BY BoundsAssumption DEF IInv
  <1>8. IsDrop(spec, h, i, t, r, Clone(t, r), v)
    BY <1>3, <1>4, <1>5, <1>6, <1>7, DropIs
  <1>9. KeepsWires(spec, Grafted(spec, h, i, v))
    BY <1>8, GraftKeepsWires DEF IsDrop
  <1>10. edits' \in 0..MaxEdits /\ spec' = Grafted(spec, h, i, v)
    BY <1>6, EditCounts DEF IInv
  <1> QED  BY <1>6, <1>9, <1>10 DEF IInv, KeepsWires

\* ... a node removed ...
LEMMA RemoveStepKeeps ==
  ASSUME IInv, NEW x \in Ids(spec), RemoveStep(x)
  PROVE  IInv' /\ KeepsWires(spec, spec')
  <1>1. PICK u : u = Removed(spec, x)
    OBVIOUS
  <1>2. IsRemoved(spec, x, u) /\ Good(u)
    BY <1>1, RemovedIs, RemovedIsGood DEF IInv
  <1>3. KeepsWires(spec, u)
    <2>1. \A y \in Ids(u) : u.node[y] = spec.node[y]
      BY <1>2 DEF IsRemoved
    <2> QED  BY <1>2, <2>1 DEF KeepsWires
  <1>4. UNCHANGED library /\ Edit(u)
    BY <1>1 DEF RemoveStep
  <1>5. edits' \in 0..MaxEdits /\ spec' = u
    BY <1>4, EditCounts DEF IInv
  <1> QED  BY <1>2, <1>3, <1>4, <1>5 DEF IInv

\* ... a port bound to a source that is offered ...
LEMMA BindKeeps ==
  ASSUME IInv, NEW x \in Leaves(spec), NEW p, NEW b \in LegalSources(spec, x),
         UNCHANGED library, Edit(Bound(spec, x, p, b))
  PROVE  IInv' /\ KeepsWires(spec, spec')
  <1>1. PICK u : u = Bound(spec, x, p, b)
    OBVIOUS
  <1>2. KeepsWires(spec, u)
    BY <1>1, BoundIsGood DEF IInv, KeepsWires
  <1>3. edits' \in 0..MaxEdits /\ spec' = u
    BY <1>1, EditCounts DEF IInv
  <1> QED  BY <1>2, <1>3 DEF IInv, KeepsWires

\* ... in the dropdown ...
LEMMA BindPortKeeps ==
  ASSUME IInv, NEW x \in Leaves(spec), NEW p, NEW b \in LegalSources(spec, x), BindPort(x, p, b)
  PROVE  IInv' /\ KeepsWires(spec, spec')
  <1>1. UNCHANGED library /\ Edit(Bound(spec, x, p, b))
    BY DEF BindPort
  <1> QED  BY <1>1, BindKeeps

\* ... a port unwired ...
LEMMA ClearPortKeeps ==
  ASSUME IInv, NEW x \in Leaves(spec), NEW p, ClearPort(x, p)
  PROVE  IInv' /\ KeepsWires(spec, spec')
  <1>1. PICK u : u = Cleared(spec, x, p)
    OBVIOUS
  <1>2. KeepsWires(spec, u)
    BY <1>1, ClearedIsGood DEF IInv, KeepsWires
  <1>3. UNCHANGED library /\ Edit(u)
    BY <1>1 DEF ClearPort
  <1>4. edits' \in 0..MaxEdits /\ spec' = u
    BY <1>3, EditCounts DEF IInv
  <1> QED  BY <1>2, <1>3, <1>4 DEF IInv, KeepsWires

\* The armed port need not be there any more: then it has no legal source.
LEMMA BindHereKeeps ==
  ASSUME IInv, NEW y \in Ids(spec), BindHere(y)
  PROVE  IInv' /\ KeepsWires(spec, spec')
  <1>1. PICK x : x = armed[1]
    OBVIOUS
  <1>2. PICK b : b = Port(y, spec.node[y].outs[1])
    OBVIOUS
  <1>3. /\ y \in Leaves(spec) /\ \E c \in LegalSources(spec, x) : c.node = y
        /\ UNCHANGED library /\ Edit(Bound(spec, x, armed[2], b))
    BY <1>1, <1>2 DEF BindHere
  <1>4. x \in Leaves(spec)
    BY <1>3 DEF LegalSources
  <1>5. b \in LegalSources(spec, x)
    BY <1>2, <1>3, <1>4, ClickedIsLegal DEF IInv
  <1> QED  BY <1>3, <1>4, <1>5, BindKeeps

\* ... and a group saved, which changes no wire.
LEMMA SaveCompositeKeeps ==
  ASSUME IInv, NEW g \in Ids(spec), NEW name \in Names, SaveComposite(g, name)
  PROVE  IInv' /\ spec' = spec
  <1>1. PICK t : t = Template(spec, g, name)
    OBVIOUS
  <1>2. /\ spec.node[g].kind = "group"
        /\ \A x \in Below(spec, g) : spec.node[x].kind \in {"step", "group"}
        /\ library' = library \cup {t} /\ Edit(spec)
    BY <1>1 DEF SaveComposite
  <1>3. IsTemplate(spec, g, name, t)
    BY <1>1, <1>2, TemplateIs DEF IInv
  <1>4. IsElement(t)
    BY <1>2, <1>3, TemplateIsElement DEF IInv
  <1>5. edits' \in 0..MaxEdits /\ spec' = spec
    BY <1>2, EditCounts DEF IInv
  <1> QED  BY <1>2, <1>4, <1>5 DEF IInv

\* The shipped spec is well made.
LEMMA ShippedIsGood == Good(Shipped)
  <1>1. \A x \in Ids(Shipped) : Shipped.node[x].harvest \subseteq Hidden
    BY DEF Hidden
  <1> QED  BY <1>1, ShippedAssumption DEF Good

\* The invariant holds throughout.
LEMMA InvariantHolds == Spec => []IInv
  <1>1. Init => IInv
    BY ShippedIsGood, BoundsAssumption DEF Init, IInv
  <1>2. IInv /\ [Next]_vars => IInv'
    <2> SUFFICES ASSUME IInv, [Next]_vars PROVE IInv'
      OBVIOUS
    <2>1. ASSUME NEW w \in Slots(spec), NEW n \in 0..MaxNumber, NEW t \in Palette,
                 n > 0, InsertStep(t, w[1], w[2], n)
          PROVE  IInv'
      <3>1. n \in 1..MaxNumber
        BY <2>1, BoundsAssumption
      <3> QED  BY <2>1, <3>1, InsertStepKeeps
    <2>2. ASSUME NEW w \in Slots(spec), NEW n \in 0..MaxNumber, NEW t \in library,
                 InsertComposite(t, w[1], w[2], n)
          PROVE  IInv'
      BY <2>2, InsertCompositeKeeps
    <2>3. ASSUME NEW x \in Ids(spec), RemoveStep(x) \/ BindHere(x) PROVE IInv'
      BY <2>3, RemoveStepKeeps, BindHereKeeps
    <2>4. ASSUME NEW x \in Leaves(spec), NEW p, ClearPort(x, p) PROVE IInv'
      BY <2>4, ClearPortKeeps
    <2>5. ASSUME NEW x \in Leaves(spec), NEW p, ToggleArmPort(x, p) PROVE IInv'
      BY <2>5 DEF ToggleArmPort, IInv
    <2>6. ASSUME NEW x \in Leaves(spec), NEW p, NEW b \in LegalSources(spec, x), BindPort(x, p, b)
          PROVE  IInv'
      BY <2>6, BindPortKeeps
    <2>7. CASE DisarmPort
      BY <2>7 DEF DisarmPort, IInv
    <2>8. ASSUME NEW g \in Ids(spec), NEW name \in Names, SaveComposite(g, name) PROVE IInv'
      BY <2>8, SaveCompositeKeeps
    <2>9. ASSUME NEW t \in library, DeleteComposite(t) PROVE IInv'
      BY <2>9 DEF DeleteComposite, IInv
    <2>10. CASE ResetSpec
      BY <2>10, ShippedIsGood DEF ResetSpec, IInv
    <2>11. CASE UNCHANGED vars
      BY <2>11 DEF vars, IInv
    <2> QED  BY <2>1, <2>2, <2>3, <2>4, <2>5, <2>6, <2>7, <2>8, <2>9, <2>10, <2>11 DEF Next
  <1> QED  BY <1>1, <1>2, PTL DEF Spec

-----------------------------------------------------------------------------
(***************************************************************************)
(* What the editor tells and offers.                                       *)
(***************************************************************************)

\* Whatever the spec has become, what the editor offers for a port resolves at
\* run time.
THEOREM OfferedResolve == Spec => []OfferedSourcesResolve
  <1>1. OfferedSourcesResolve
    BY OfferedIsSeen DEF OfferedSourcesResolve
  <1> QED  BY <1>1, PTL DEF Spec

\* Whatever the spec has become, it is a tree in which an id names one node, the
\* validator warns of exactly the bindings at which a run throws, and no wire
\* that resolves is missing from the menu.
THEOREM EditorTellsTheTruth == Spec => []EditorSeesTheSpec
  <1>1. IInv => EditorSeesTheSpec
    BY GoodIsSeen DEF IInv
  <1> QED  BY <1>1, InvariantHolds, PTL

\* A wire made by the dropdown or the canvas resolves when it is made, whatever
\* happened to the spec since its port was armed.
THEOREM WiresResolveWhenMade == Spec => NewWiresResolve
  <1> DEFINE Made == spec' \notin {spec, Shipped} => KeepsWires(spec, spec')
  <1>1. IInv /\ [Next]_vars => Made
    <2> SUFFICES ASSUME IInv, [Next]_vars PROVE Made
      OBVIOUS
    <2>1. ASSUME NEW w \in Slots(spec), NEW n \in 0..MaxNumber, NEW t \in Palette,
                 n > 0, InsertStep(t, w[1], w[2], n)
          PROVE  Made
      <3>1. n \in 1..MaxNumber
        BY <2>1, BoundsAssumption
      <3> QED  BY <2>1, <3>1, InsertStepKeeps
    <2>2. ASSUME NEW w \in Slots(spec), NEW n \in 0..MaxNumber, NEW t \in library,
                 InsertComposite(t, w[1], w[2], n)
          PROVE  Made
      BY <2>2, InsertCompositeKeeps
    <2>3. ASSUME NEW x \in Ids(spec), RemoveStep(x) \/ BindHere(x) PROVE Made
      BY <2>3, RemoveStepKeeps, BindHereKeeps
    <2>4. ASSUME NEW x \in Leaves(spec), NEW p, ClearPort(x, p) PROVE Made
      BY <2>4, ClearPortKeeps
    <2>5. ASSUME NEW x \in Leaves(spec), NEW p, ToggleArmPort(x, p) PROVE Made
      BY <2>5 DEF ToggleArmPort
    <2>6. ASSUME NEW x \in Leaves(spec), NEW p, NEW b \in LegalSources(spec, x), BindPort(x, p, b)
          PROVE  Made
      BY <2>6, BindPortKeeps
    <2>7. ASSUME NEW g \in Ids(spec), NEW name \in Names, SaveComposite(g, name) PROVE Made
      BY <2>7, SaveCompositeKeeps
    <2>8. CASE DisarmPort \/ ResetSpec \/ UNCHANGED vars \/ \E t \in library : DeleteComposite(t)
      BY <2>8 DEF DisarmPort, ResetSpec, vars, DeleteComposite
    <2> QED  BY <2>1, <2>2, <2>3, <2>4, <2>5, <2>6, <2>7, <2>8 DEF Next
  <1>2. Made => (spec' \notin {spec, Shipped} =>
          \A x \in Ids(spec) \cap Ids(spec') : \A p \in DOMAIN spec'.node[x].binds :
            \/ p \in DOMAIN spec.node[x].binds /\ spec.node[x].binds[p] = spec'.node[x].binds[p]
            \/ Resolves(spec', x, p))
    BY DEF KeepsWires
  <1> HIDE DEF Made
  <1> QED  BY <1>1, <1>2, InvariantHolds, PTL DEF Spec, NewWiresResolve

-----------------------------------------------------------------------------
(***************************************************************************)
(* A part of a spec found again in another: what resolves there resolves   *)
(* here.                                                                   *)
(***************************************************************************)

LEMMA RunsIs ==
  ASSUME NEW s
  PROVE  Runs(s) <=> /\ \A x \in Ids(s) : /\ Unwired(s, x) = {}
                                          /\ \A f \in DOMAIN s.node[x].binds : Resolves(s, x, f)
                     /\ s.exit \in AtExit(s, Top)
  <1> DEFINE all == UNION {{x} \X (DOMAIN s.node[x].binds \cup s.node[x].needs) : x \in Ids(s)}
             bad == {w \in all : w[2] \in Unwired(s, w[1]) \/ ~Resolves(s, w[1], w[2])}
             exits == {<<Top, "outputFrom">> : e \in {s.exit} \ AtExit(s, Top)}
  <1>1. Runs(s) <=> bad = {} /\ exits = {}
    BY DEF Runs, Throws
  <1>2. exits = {} <=> s.exit \in AtExit(s, Top)
    OBVIOUS
  <1>3. \A w : w \in all <=> \E x \in Ids(s) : \E f \in DOMAIN s.node[x].binds \cup s.node[x].needs :
                 w = <<x, f>>
    OBVIOUS
  <1>4. \A x, f : <<x, f>>[1] = x /\ <<x, f>>[2] = f
    OBVIOUS
  <1> HIDE DEF all, exits
  <1>5. bad = {} <=> \A x \in Ids(s) : \A f \in DOMAIN s.node[x].binds \cup s.node[x].needs :
                       f \notin Unwired(s, x) /\ Resolves(s, x, f)
    <2>1. ASSUME bad = {}, NEW x \in Ids(s), NEW f \in DOMAIN s.node[x].binds \cup s.node[x].needs
          PROVE  f \notin Unwired(s, x) /\ Resolves(s, x, f)
      <3>1. <<x, f>> \in all
        BY <1>3
      <3> QED  BY <1>4, <2>1, <3>1
    <2>2. ASSUME \A x \in Ids(s) : \A f \in DOMAIN s.node[x].binds \cup s.node[x].needs :
                   f \notin Unwired(s, x) /\ Resolves(s, x, f),
                 NEW w \in bad
          PROVE  FALSE
      <3>1. PICK x \in Ids(s) : \E f \in DOMAIN s.node[x].binds \cup s.node[x].needs : w = <<x, f>>
        BY <1>3
      <3>2. PICK f \in DOMAIN s.node[x].binds \cup s.node[x].needs : w = <<x, f>>
        BY <3>1
      <3> QED  BY <1>4, <2>2, <3>2
    <2> QED  BY <2>1, <2>2
  <1>6. \A x : Unwired(s, x) = s.node[x].needs \ DOMAIN s.node[x].binds
    BY DEF Unwired
  <1>7. bad = {} <=> \A x \in Ids(s) : /\ Unwired(s, x) = {}
                                       /\ \A f \in DOMAIN s.node[x].binds : Resolves(s, x, f)
    <2> HIDE DEF bad
    <2>1. ASSUME bad = {}, NEW x \in Ids(s)
          PROVE  Unwired(s, x) = {} /\ \A f \in DOMAIN s.node[x].binds : Resolves(s, x, f)
      BY <1>5, <1>6, <2>1
    <2>2. ASSUME \A x \in Ids(s) : /\ Unwired(s, x) = {}
                                   /\ \A f \in DOMAIN s.node[x].binds : Resolves(s, x, f)
          PROVE  bad = {}
      BY <1>5, <1>6, <2>2
    <2> QED  BY <2>1, <2>2
  <1> HIDE DEF bad
  <1> QED  BY <1>1, <1>2, <1>7

\* The order of the body of d is kept by r in the body of k.
Follows(s, d, u, k, r) ==
  \A i \in 1..Len(s.body[d]) : \E j \in 1..Len(u.body[k]) :
    /\ u.body[k][j] = r[s.body[d][i]]
    /\ \A m \in 1..(i - 1) : \E l \in 1..(j - 1) : u.body[k][l] = r[s.body[d][m]]

\* The nodes r names are found in u, with all they had in s and their bodies in
\* order.
Embeds(s, u, r) ==
  /\ IsTree(s) /\ IsTree(u) /\ DOMAIN r \subseteq Ids(s)
  /\ \A x \in DOMAIN r : /\ r[x] \in Ids(u) /\ SameButBinds(s.node[x], u.node[r[x]])
                         /\ DOMAIN s.node[x].binds \subseteq DOMAIN u.node[r[x]].binds
  /\ \A h \in DOMAIN r \cap Scopes(s) : /\ \A x \in ToSet(s.body[h]) : x \in DOMAIN r
                                        /\ Follows(s, h, u, r[h], r)

\* A wire follows the node it reads, if that is renamed.
LEMMA RemapIs ==
  ASSUME NEW r, NEW x, NEW p
  PROVE  /\ x \in DOMAIN r => Remap(r, Port(x, p)) = Port(r[x], p)
         /\ x \notin DOMAIN r => Remap(r, Port(x, p)) = Port(x, p)
  BY PortIs DEF Remap

\* What nodes publish in s, their images publish in u.
LEMMA OutputsEmbed ==
  ASSUME NEW s, NEW u, NEW r, Embeds(s, u, r), NEW X, X \subseteq DOMAIN r,
         NEW Y, \A x \in X : r[x] \in Y, NEW b \in Outputs(s, X)
  PROVE  Remap(r, b) \in Outputs(u, Y)
  <1>1. PICK x \in X : \E p \in ToSet(s.node[x].outs) \cup s.node[x].harvest : b = Port(x, p)
    BY OutputsAre
  <1>2. PICK p \in ToSet(s.node[x].outs) \cup s.node[x].harvest : b = Port(x, p)
    BY <1>1
  <1>3. SameButBinds(s.node[x], u.node[r[x]])
    BY DEF Embeds
  <1>4. p \in ToSet(u.node[r[x]].outs) \cup u.node[r[x]].harvest
    BY <1>3 DEF SameButBinds
  <1>5. Remap(r, b) = Port(r[x], p)
    BY <1>2, RemapIs
  <1> QED  BY <1>4, <1>5, OutputsAre

\* What is injected at the head of a body is injected at the head of its image.
LEMMA InjectedEmbed ==
  ASSUME NEW s, NEW u, NEW r, Embeds(s, u, r), NEW h \in DOMAIN r, NEW b \in Injected(s, h)
  PROVE  Remap(r, b) \in Injected(u, r[h])
  <1>1. /\ h \in Ids(s) /\ h # Top /\ r[h] # Top /\ SameButBinds(s.node[h], u.node[r[h]])
        /\ DOMAIN s.node[h].binds \subseteq DOMAIN u.node[r[h]].binds
    BY DEF Embeds, IsTree
  <1>2. Seeded(s.node[h])
    BY <1>1 DEF Injected
  <1>3. Seeded(u.node[r[h]])
    BY <1>1, <1>2 DEF Seeded, SameButBinds
  <1>4. PICK p \in {"in"} \cup {"chain" : f \in {"chainInput"} \cap DOMAIN s.node[h].binds} : b = Port(h, p)
    BY <1>1, <1>2 DEF Injected
  <1>5. p \in {"in"} \cup {"chain" : f \in {"chainInput"} \cap DOMAIN u.node[r[h]].binds}
    BY <1>1, <1>4
  <1>6. Remap(r, b) = Port(r[h], p)
    BY <1>4, RemapIs
  <1> QED  BY <1>1, <1>3, <1>5, <1>6 DEF Injected

\* In a body whose order is kept, what came before comes before.
LEMMA FollowsIs ==
  ASSUME NEW s, NEW u, NEW r, IsTree(s), IsTree(u), NEW d \in Scopes(s), NEW k \in Scopes(u),
         Follows(s, d, u, k, r)
  PROVE  /\ \A x \in ToSet(s.body[d]) : r[x] \in ToSet(u.body[k])
         /\ \A x \in ToSet(s.body[d]) : /\ Home(s, x) = d /\ Home(u, r[x]) = k
                                        /\ \A z \in Before(s, x) : r[z] \in Before(u, r[x])
  <1> DEFINE b == s.body[d]
             c == u.body[k]
  <1>1. IsBody(Ids(s), b) /\ IsBody(Ids(u), c)
    BY ScopeIs
  <1>2. \A i \in 1..Len(b) : \E j \in 1..Len(c) :
          /\ c[j] = r[b[i]]
          /\ \A m \in 1..(i - 1) : \E l \in 1..(j - 1) : c[l] = r[b[m]]
    BY DEF Follows
  <1> SUFFICES ASSUME NEW x \in ToSet(b)
               PROVE  /\ r[x] \in ToSet(c) /\ Home(s, x) = d /\ Home(u, r[x]) = k
                      /\ \A z \in Before(s, x) : r[z] \in Before(u, r[x])
    OBVIOUS
  <1>3. PICK i \in 1..Len(b) : b[i] = x
    BY <1>1 DEF IsBody
  <1>4. PICK j \in 1..Len(c) : /\ c[j] = r[b[i]]
                               /\ \A m \in 1..(i - 1) : \E l \in 1..(j - 1) : c[l] = r[b[m]]
    BY <1>2
  <1>5. c[j] = r[x] /\ r[x] \in ToSet(c)
    BY <1>1, <1>3, <1>4 DEF IsBody
  <1>6. Home(s, x) = d /\ \A y : y \in Before(s, x) <=> \E m \in 1..(i - 1) : b[m] = y
    <2>1. Home(s, s.body[d][i]) = d /\ Before(s, s.body[d][i]) = Preceding(s.body[d], i)
      BY BeforeIs
    <2> QED  BY <1>3, <2>1 DEF Preceding
  <1>7. Home(u, r[x]) = k /\ \A y : y \in Before(u, r[x]) <=> \E l \in 1..(j - 1) : c[l] = y
    <2>1. Home(u, u.body[k][j]) = k /\ Before(u, u.body[k][j]) = Preceding(u.body[k], j)
      BY BeforeIs
    <2> QED  BY <1>5, <2>1 DEF Preceding
  <1> HIDE DEF b, c
  <1>8. ASSUME NEW z \in Before(s, x) PROVE r[z] \in Before(u, r[x])
    <2>1. PICK m \in 1..(i - 1) : b[m] = z
      BY <1>6
    <2>2. PICK l \in 1..(j - 1) : c[l] = r[b[m]]
      BY <1>4
    <2> QED  BY <1>7, <2>1, <2>2
  <1> QED  BY <1>5, <1>6, <1>7, <1>8

\* The image of a container is one.
LEMMA ScopeEmbeds ==
  ASSUME NEW s, NEW u, NEW r, Embeds(s, u, r), NEW h \in DOMAIN r, h \in Scopes(s)
  PROVE  r[h] \in Scopes(u) /\ r[h] # Top /\ h # Top
  <1>1. h \in Ids(s) /\ r[h] \in Ids(u) /\ SameButBinds(s.node[h], u.node[r[h]])
    BY DEF Embeds
  <1>2. h # Top /\ s.node[h].kind # "step"
    BY <1>1 DEF Embeds, IsTree, Leaves
  <1>3. u.node[r[h]].kind # "step"
    BY <1>1, <1>2 DEF SameButBinds
  <1> QED  BY <1>1, <1>2, <1>3 DEF Embeds, IsTree, Leaves

\* What the end of a body sees, the end of its image sees.
LEMMA ExitEmbeds ==
  ASSUME NEW s, NEW u, NEW r, Embeds(s, u, r), NEW h \in DOMAIN r, h \in Scopes(s),
         NEW b \in AtExit(s, h)
  PROVE  Remap(r, b) \in AtExit(u, r[h])
  <1>1. r[h] \in Scopes(u)
    BY ScopeEmbeds
  <1>2. ToSet(s.body[h]) \subseteq DOMAIN r /\ Follows(s, h, u, r[h], r) /\ IsTree(s) /\ IsTree(u)
    BY DEF Embeds
  <1>3. \A x \in ToSet(s.body[h]) : r[x] \in ToSet(u.body[r[h]])
    BY <1>1, <1>2, FollowsIs
  <1>4. CASE b \in Injected(s, h)
    BY <1>4, InjectedEmbed DEF AtExit
  <1>5. CASE b \in Outputs(s, ToSet(s.body[h]))
    BY <1>2, <1>3, <1>5, OutputsEmbed DEF AtExit
  <1> QED  BY <1>4, <1>5 DEF AtExit

\* What a node sees, its image sees.
LEMMA SeenEmbeds ==
  ASSUME NEW s, NEW u, NEW r, Embeds(s, u, r), NEW x \in DOMAIN r,
         NEW h \in Scopes(s), x \in ToSet(s.body[h]), NEW k \in Scopes(u),
         (h \in DOMAIN r /\ k = r[h]) \/ (h = Top /\ k = Top),
         ToSet(s.body[h]) \subseteq DOMAIN r, Follows(s, h, u, k, r),
         NEW b \in SeenBy(s, x)
  PROVE  Remap(r, b) \in SeenBy(u, r[x])
  <1>1. IsTree(s) /\ IsTree(u) /\ DOMAIN r \subseteq Ids(s)
    BY DEF Embeds
  <1>2. Home(s, x) = h /\ Home(u, r[x]) = k /\ \A z \in Before(s, x) : r[z] \in Before(u, r[x])
    BY <1>1, FollowsIs
  <1>3. Before(s, x) \subseteq DOMAIN r
    <2>1. x \in Ids(s)
      BY <1>1
    <2>2. Before(s, x) \subseteq ToSet(s.body[Home(s, x)])
      BY <1>1, <2>1, BeforeInHome
    <2> QED  BY <1>2, <2>2
  <1>4. CASE b \in Injected(s, h)
    <2>1. CASE h \in DOMAIN r /\ k = r[h]
      BY <1>2, <1>4, <2>1, InjectedEmbed DEF SeenBy
    <2>2. CASE h = Top /\ k = Top
      <3>1. b = InputSource
        BY <1>4, <2>2 DEF Injected
      <3>2. InputSource.node \notin DOMAIN r
        BY <1>1 DEF IsTree
      <3>3. Remap(r, b) = InputSource
        BY <3>1, <3>2 DEF Remap
      <3>4. InputSource \in Injected(u, k)
        BY <2>2 DEF Injected
      <3> QED  BY <1>2, <3>3, <3>4 DEF SeenBy
    <2> QED  BY <2>1, <2>2
  <1>5. CASE b \in Outputs(s, Before(s, x))
    BY <1>2, <1>3, <1>5, OutputsEmbed DEF SeenBy
  <1> QED  BY <1>2, <1>4, <1>5 DEF SeenBy

\* So a wire that resolves in s resolves in u, where it follows the renaming.
LEMMA ResolvesEmbeds ==
  ASSUME NEW s, NEW u, NEW r, Embeds(s, u, r), NEW x \in DOMAIN r, NEW f, Resolves(s, x, f),
         u.node[r[x]].binds[f] = Remap(r, s.node[x].binds[f]),
         \/ OfBody(s.node[x], f)
         \/ \E h \in Scopes(s) \cap DOMAIN r : x \in ToSet(s.body[h])
         \/ /\ x \in ToSet(s.body[Top]) /\ ToSet(s.body[Top]) \subseteq DOMAIN r
            /\ Follows(s, Top, u, Top, r)
  PROVE  Resolves(u, r[x], f)
  <1>1. x \in Ids(s) /\ SameButBinds(s.node[x], u.node[r[x]]) /\ IsTree(s) /\ IsTree(u)
    BY DEF Embeds
  <1>2. OfBody(u.node[r[x]], f) <=> OfBody(s.node[x], f)
    BY <1>1 DEF OfBody, SameButBinds
  <1>3. CASE OfBody(s.node[x], f)
    <2>1. x \in Scopes(s)
      BY <1>1, <1>3 DEF OfBody, IsTree, Leaves
    <2>2. s.node[x].binds[f] \in AtExit(s, x)
      BY <1>3 DEF Resolves
    <2>3. Remap(r, s.node[x].binds[f]) \in AtExit(u, r[x])
      BY <2>1, <2>2, ExitEmbeds
    <2> QED  BY <1>2, <1>3, <2>3 DEF Resolves
  <1>4. CASE ~OfBody(s.node[x], f)
    <2>1. s.node[x].binds[f] \in SeenBy(s, x)
      BY <1>4 DEF Resolves
    <2>2. Remap(r, s.node[x].binds[f]) \in SeenBy(u, r[x])
      <3>1. ASSUME NEW h \in Scopes(s) \cap DOMAIN r, x \in ToSet(s.body[h])
            PROVE  Remap(r, s.node[x].binds[f]) \in SeenBy(u, r[x])
        <4>1. r[h] \in Scopes(u)
          BY ScopeEmbeds
        <4>2. ToSet(s.body[h]) \subseteq DOMAIN r /\ Follows(s, h, u, r[h], r)
          BY DEF Embeds
        <4>3. PICK k \in Scopes(u) : k = r[h]
          BY <4>1
        <4>4. Follows(s, h, u, k, r) /\ h \in Scopes(s) /\ h \in DOMAIN r
          BY <4>2, <4>3
        <4>5. PICK b \in SeenBy(s, x) : b = s.node[x].binds[f]
          BY <2>1
        <4>6. (h \in DOMAIN r /\ k = r[h]) \/ (h = Top /\ k = Top)
          BY <4>3
        <4>7. Remap(r, b) \in SeenBy(u, r[x])
          BY <3>1, <4>2, <4>4, <4>6, SeenEmbeds
        <4> QED  BY <4>5, <4>7
      <3>2. ASSUME x \in ToSet(s.body[Top]), ToSet(s.body[Top]) \subseteq DOMAIN r,
                   Follows(s, Top, u, Top, r)
            PROVE  Remap(r, s.node[x].binds[f]) \in SeenBy(u, r[x])
        <4>1. Top \in Scopes(s) /\ Top \in Scopes(u)
          BY <1>1 DEF IsTree
        <4> QED  BY <2>1, <3>2, <4>1, SeenEmbeds
      <3> QED  BY <1>4, <3>1, <3>2
    <2> QED  BY <1>2, <1>4, <2>2 DEF Resolves
  <1> QED  BY <1>3, <1>4

-----------------------------------------------------------------------------
(***************************************************************************)
(* An element alone.                                                       *)
(***************************************************************************)

IsAlone(t, a) ==
  /\ DOMAIN a = {"body", "node", "inside", "exit"} /\ a.exit = InputSource
  /\ Ids(a) = DOMAIN t.node /\ a.inside = t.inside
  /\ Scopes(a) = {Top} \cup DOMAIN t.body /\ a.body[Top] = <<t.root>>
  /\ \A d \in DOMAIN t.body : d # Top /\ a.body[d] = t.body[d]
  /\ IsSeeded(t, {InputSource}, [root |-> t.root, body |-> t.body, node |-> a.node, inside |-> t.inside])

\* The operator does what it says.
LEMMA AloneIs ==
  ASSUME NEW t, IsElement(t)
  PROVE  IsAlone(t, Alone(t))
  <1>1. /\ DOMAIN t = {"name", "root", "body", "node", "inside"}
        /\ IsSubtree(t) /\ IsWiredIn(t, FALSE) /\ t.node[t.root].kind = "group"
        /\ "seedInput" \notin DOMAIN t.node[t.root].binds
    BY DEF IsElement
  <1>2. PICK a : a = Alone(t)
    OBVIOUS
  <1>3. PICK n : n = t.node[t.root]
    OBVIOUS
  <1>4. IsNode(n) /\ t.root \in DOMAIN t.node /\ Top \notin DOMAIN t.body
    BY <1>1, <1>3 DEF IsSubtree, IsWiredIn
  <1>5. PICK o : o = Only("seedInput", InputSource)
    OBVIOUS
  <1>6. o = [y \in {"seedInput"} |-> InputSource]
    BY <1>5 DEF Only
  <1>7. PICK B : B = Over(o, n.binds)
    OBVIOUS
  <1>8. /\ DOMAIN B = {"seedInput"} \cup DOMAIN n.binds /\ B["seedInput"] = InputSource
        /\ \A f \in DOMAIN n.binds \ {"seedInput"} : B[f] = n.binds[f]
    <2>1. /\ DOMAIN Over(o, n.binds) = DOMAIN o \cup DOMAIN n.binds
          /\ \A y \in DOMAIN o : Over(o, n.binds)[y] = o[y]
          /\ \A y \in DOMAIN n.binds \ DOMAIN o : Over(o, n.binds)[y] = n.binds[y]
      BY OverIs
    <2> QED  BY <1>6, <1>7, <2>1
  <1>9. ArePorts(B)
    <2>1. ArePorts(o)
      <3>1. InputSource = Port(InputSource.node, InputSource.port)
        BY PortIs DEF InputSource
      <3> QED  BY <1>6, <3>1 DEF ArePorts
    <2>2. ArePorts(n.binds)
      BY <1>4 DEF IsNode, ArePorts
    <2> QED  BY <1>7, <2>1, <2>2, OverIsPorts
  <1>10. PICK m : m = [n EXCEPT !.binds = B]
    OBVIOUS
  <1>11. IsNode(m) /\ m.binds = B /\ SameButBinds(n, m)
    <2>1. n.kind = "group" => DOMAIN B \subseteq {"seedInput", "bodyOutput"}
      BY <1>4, <1>8 DEF IsNode
    <2>2. LET k == [n EXCEPT !.binds = B] IN IsNode(k) /\ k.binds = B /\ SameButBinds(n, k)
      BY <1>4, <1>9, <2>1, NodeRebound
    <2> QED  BY <1>10, <2>2
  <1>12. PICK nodes : nodes = [t.node EXCEPT ![t.root] = m]
    OBVIOUS
  <1>13. DOMAIN nodes = DOMAIN t.node /\ nodes[t.root] = m
         /\ \A x \in DOMAIN t.node \ {t.root} : nodes[x] = t.node[x]
    BY <1>4, <1>12
  <1>14. nodes = [t.node EXCEPT ![t.root].binds = Over(Only("seedInput", InputSource), t.node[t.root].binds)]
    BY <1>3, <1>5, <1>7, <1>10, <1>12
  <1>15. PICK top : top = Only(Top, <<t.root>>)
    OBVIOUS
  <1>16. DOMAIN top = {Top} /\ top[Top] = <<t.root>>
    BY <1>15 DEF Only
  <1>17. PICK bodies : bodies = Over(top, t.body)
    OBVIOUS
  <1>18. /\ DOMAIN bodies = {Top} \cup DOMAIN t.body /\ bodies[Top] = <<t.root>>
         /\ \A d \in DOMAIN t.body : d # Top /\ bodies[d] = t.body[d]
    <2>1. /\ DOMAIN Over(top, t.body) = DOMAIN top \cup DOMAIN t.body
          /\ \A y \in DOMAIN top : Over(top, t.body)[y] = top[y]
          /\ \A y \in DOMAIN t.body \ DOMAIN top : Over(top, t.body)[y] = t.body[y]
      BY OverIs
    <2> QED  BY <1>4, <1>16, <1>17, <2>1
  <1>19. a = [body |-> bodies, exit |-> InputSource, inside |-> t.inside, node |-> nodes]
    BY <1>2, <1>14, <1>15, <1>17 DEF Alone
  <1>20. /\ DOMAIN a = {"body", "node", "inside", "exit"} /\ a.exit = InputSource
         /\ a.body = bodies /\ a.inside = t.inside /\ a.node = nodes
    BY <1>19
  <1>21. PICK v : v = [root |-> t.root, body |-> t.body, node |-> a.node, inside |-> t.inside]
    OBVIOUS
  <1>22. v.root = t.root /\ v.body = t.body /\ v.inside = t.inside /\ v.node = nodes
    BY <1>20, <1>21
  <1>23. IsSeeded(t, {InputSource}, v)
    BY <1>1, <1>3, <1>8, <1>11, <1>13, <1>22 DEF IsSeeded
  <1>24. IsAlone(t, a)
    BY <1>13, <1>18, <1>20, <1>21, <1>23 DEF IsAlone, Ids, Scopes
  <1> QED  BY <1>2, <1>24

\* The spec with nothing in it, into which an element is placed to stand alone.
Empty == [body |-> [h \in {Top} |-> <<>>], node |-> [x \in {} |-> x],
          inside |-> [x \in {} |-> x], exit |-> InputSource]

\* A spec without nodes is well made.
LEMMA EmptyIsGood ==
  /\ Good(Empty) /\ Ids(Empty) = {} /\ Scopes(Empty) = {Top} /\ Empty.body[Top] = <<>>
  /\ Empty.exit = InputSource
  <1>1. PICK e : e = Empty
    OBVIOUS
  <1>2. /\ DOMAIN e = {"body", "node", "inside", "exit"} /\ DOMAIN e.body = {Top} /\ e.body[Top] = <<>>
        /\ DOMAIN e.node = {} /\ DOMAIN e.inside = {} /\ e.exit = InputSource
    BY <1>1 DEF Empty
  <1>3. PICK b : b = <<>>
    OBVIOUS
  <1>4. b \in Seq({}) /\ Len(b) = 0 /\ DOMAIN b = {}
    BY <1>3
  <1>5. ToSet(b) = {}
    <2>1. \A x : x \in ToSet(b) <=> \E i \in 1..Len(b) : b[i] = x
      BY <1>4, SequenceIs
    <2> QED  BY <1>4, <2>1
  <1>6. /\ Ids(e) = {} /\ Scopes(e) = {Top} /\ Leaves(e) = {}
        /\ e.body[Top] = b
    BY <1>2, <1>3 DEF Ids, Scopes, Leaves
  <1>7. IsTree(e)
    BY <1>2, <1>4, <1>5, <1>6 DEF IsTree
  <1>8. IsWired(e)
    BY <1>6 DEF IsWired
  <1> QED  BY <1>1, <1>2, <1>6, <1>7, <1>8 DEF Good

\* An element alone is a tree: it is grafted on the empty spec.
LEMMA AloneIsTree ==
  ASSUME NEW t, IsElement(t), NEW a, IsAlone(t, a)
  PROVE  IsTree(a)
  <1>1. PICK v : v = [root |-> t.root, body |-> t.body, node |-> a.node, inside |-> t.inside]
    OBVIOUS
  <1>2. /\ v.root = t.root /\ v.body = t.body /\ v.inside = t.inside /\ v.node = a.node
    BY <1>1
  <1>3. IsSeeded(t, {InputSource}, v)
    BY <1>1 DEF IsAlone
  <1>4. IsSubtree(v)
    <2>1. IsSubtree(t) /\ IsWiredIn(t, FALSE) /\ t.node[t.root].kind = "group"
      BY DEF IsElement
    <2> QED  BY <1>3, <2>1, SeededIsSubtree
  <1>5. /\ Good(Empty) /\ Ids(Empty) = {} /\ Scopes(Empty) = {Top} /\ Empty.body[Top] = <<>>
        /\ Empty.exit = InputSource
    BY EmptyIsGood
  <1>6. PICK e : e = Empty
    OBVIOUS
  <1>7. PICK b : b = e.body[Top]
    OBVIOUS
  <1>8. b = <<>> /\ Len(b) = 0 /\ b \in Seq(IdSet)
    BY <1>5, <1>6, <1>7
  <1>9. Joinable(e, Top, 1, v)
    BY <1>4, <1>5, <1>6, <1>7, <1>8 DEF Joinable
  <1>10. InsertAt(b, 1, t.root) = <<t.root>>
    <2>1. t.root \in IdSet
      BY DEF IsElement, IsSubtree
    <2>2. PICK c : c = InsertAt(b, 1, t.root)
      OBVIOUS
    <2>3. 1 \in 1..(Len(b) + 1)
      BY <1>8
    <2>4. c \in Seq(IdSet) /\ Len(c) = Len(b) + 1 /\ c[1] = t.root
      <3>1. PICK g \in IdSet : g = t.root
        BY <2>1
      <3>2. PICK k \in 1..(Len(b) + 1) : k = 1
        BY <2>3
      <3>3. /\ InsertAt(b, k, g) \in Seq(IdSet)
            /\ Len(InsertAt(b, k, g)) = Len(b) + 1
            /\ \A j \in 1..(k - 1) : InsertAt(b, k, g)[j] = b[j]
            /\ InsertAt(b, k, g)[k] = g
            /\ \A j \in (k + 1)..(Len(b) + 1) : InsertAt(b, k, g)[j] = b[j - 1]
        <4>1. PICK S : S = IdSet
          OBVIOUS
        <4>2. b \in Seq(S) /\ g \in S
          BY <1>8, <4>1
        <4>3. /\ InsertAt(b, k, g) \in Seq(S)
              /\ Len(InsertAt(b, k, g)) = Len(b) + 1
              /\ \A j \in 1..(k - 1) : InsertAt(b, k, g)[j] = b[j]
              /\ InsertAt(b, k, g)[k] = g
              /\ \A j \in (k + 1)..(Len(b) + 1) : InsertAt(b, k, g)[j] = b[j - 1]
          BY <4>2, InsertAtIs
        <4> QED  BY <4>1, <4>3
      <3> QED  BY <2>2, <3>1, <3>2, <3>3
    <2>5. c \in Seq(IdSet) /\ Len(c) = 1 /\ c[1] = t.root
      BY <1>8, <2>4
    <2>6. PICK d : d = <<t.root>>
      OBVIOUS
    <2>7. d \in Seq(IdSet) /\ Len(d) = 1 /\ d[1] = t.root
      BY <2>1, <2>6
    <2>8. c = d
      BY <2>5, <2>7, SeqEqual
    <2> QED  BY <2>2, <2>6, <2>8
  <1>11. /\ DOMAIN a = {"body", "node", "inside", "exit"} /\ a.exit = InputSource
         /\ Ids(a) = DOMAIN t.node /\ a.inside = t.inside
         /\ Scopes(a) = {Top} \cup DOMAIN t.body /\ a.body[Top] = <<t.root>>
         /\ \A d \in DOMAIN t.body : d # Top /\ a.body[d] = t.body[d]
    BY DEF IsAlone
  <1>12. DOMAIN t.inside = DOMAIN t.node
    BY DEF IsElement, IsSubtree
  <1>13. Enclosing(e, Top) = {}
    BY DEF Enclosing
  <1>14. DOMAIN v.node = DOMAIN t.node
    BY <1>2, <1>3 DEF IsSeeded
  <1>15. IsGraft(e, Top, 1, v, a)
    BY <1>2, <1>5, <1>6, <1>7, <1>10, <1>11, <1>12, <1>13, <1>14 DEF IsGraft
  <1> QED  BY <1>9, <1>15, GraftIsTree

\* A list mapped element by element keeps its order.
LEMMA SameOrder ==
  ASSUME NEW s, NEW d, NEW u, NEW k, NEW r, NEW S, NEW T,
         IsBody(S, s.body[d]), IsBody(T, u.body[k]), DOMAIN u.body[k] = DOMAIN s.body[d],
         \A i \in DOMAIN s.body[d] : u.body[k][i] = r[s.body[d][i]]
  PROVE  Follows(s, d, u, k, r)
  <1>1. PICK b : b = s.body[d]
    OBVIOUS
  <1>2. PICK c : c = u.body[k]
    OBVIOUS
  <1>3. /\ DOMAIN b = 1..Len(b) /\ DOMAIN c = 1..Len(c) /\ DOMAIN c = DOMAIN b
        /\ Len(b) \in Nat /\ \A i \in DOMAIN b : c[i] = r[b[i]]
    BY <1>1, <1>2 DEF IsBody
  <1>4. ASSUME NEW i \in 1..Len(b)
        PROVE  \E j \in 1..Len(c) : /\ c[j] = r[b[i]]
                                    /\ \A m \in 1..(i - 1) : \E l \in 1..(j - 1) : c[l] = r[b[m]]
    <2>1. i \in 1..Len(c) /\ c[i] = r[b[i]]
      BY <1>3
    <2>2. \A m \in 1..(i - 1) : m \in DOMAIN b /\ c[m] = r[b[m]]
      BY <1>3
    <2> QED  BY <2>1, <2>2
  <1> QED  BY <1>1, <1>2, <1>4 DEF Follows

\* A list with an element inserted keeps its order.
LEMMA InsertedOrder ==
  ASSUME NEW s, NEW d, NEW u, NEW S, IsBody(S, s.body[d]), NEW e \in S,
         NEW i \in 1..(Len(s.body[d]) + 1), u.body[d] = InsertAt(s.body[d], i, e),
         NEW r, \A x \in S : r[x] = x
  PROVE  Follows(s, d, u, d, r)
  <1> DEFINE b == s.body[d]
             c == u.body[d]
  <1>1. i \in 1..(Len(b) + 1) /\ c = InsertAt(b, i, e) /\ IsBody(S, b)
    OBVIOUS
  <1> HIDE DEF b, c
  <1>2. PICK v \in Seq(S) : v = b
    BY <1>1 DEF IsBody
  <1>3. b \in Seq(S) /\ Len(b) \in Nat /\ \A j \in 1..Len(b) : b[j] \in S
    BY <1>1 DEF IsBody
  <1>4. /\ Len(c) = Len(b) + 1 /\ \A j \in 1..(i - 1) : c[j] = b[j]
        /\ \A j \in (i + 1)..(Len(b) + 1) : c[j] = b[j - 1]
    <2>1. PICK k \in 1..(Len(v) + 1) : k = i
      BY <1>1, <1>2
    <2>2. /\ InsertAt(v, k, e) \in Seq(S)
          /\ Len(InsertAt(v, k, e)) = Len(v) + 1
          /\ \A j \in 1..(k - 1) : InsertAt(v, k, e)[j] = v[j]
          /\ InsertAt(v, k, e)[k] = e
          /\ \A j \in (k + 1)..(Len(v) + 1) : InsertAt(v, k, e)[j] = v[j - 1]
      BY InsertAtIs
    <2> QED  BY <1>1, <1>2, <2>1, <2>2
  <1>5. \A j \in 1..Len(b) : IF j < i THEN c[j] = r[b[j]] ELSE c[j + 1] = r[b[j]]
    <2> TAKE j \in 1..Len(b)
    <2>1. r[b[j]] = b[j] /\ i \in Nat
      BY <1>1, <1>3
    <2>2. CASE j < i
      BY <1>4, <2>1, <2>2
    <2>3. CASE ~(j < i)
      <3>1. j + 1 \in (i + 1)..(Len(b) + 1) /\ (j + 1) - 1 = j
        BY <1>3, <2>1, <2>3
      <3> QED  BY <1>4, <2>1, <2>3, <3>1
    <2> QED  BY <2>2, <2>3
  <1>6. ASSUME NEW k \in 1..Len(b)
        PROVE  \E j \in 1..Len(c) : /\ c[j] = r[b[k]]
                                    /\ \A m \in 1..(k - 1) : \E l \in 1..(j - 1) : c[l] = r[b[m]]
    <2>1. i \in Nat
      BY <1>1, <1>3
    <2>2. CASE k < i
      <3>1. k \in 1..Len(c) /\ c[k] = r[b[k]]
        BY <1>3, <1>4, <1>5, <2>2
      <3>2. \A m \in 1..(k - 1) : m \in 1..Len(b) /\ m < i /\ c[m] = r[b[m]]
        BY <1>3, <1>5, <2>1, <2>2
      <3> QED  BY <3>1, <3>2
    <2>3. CASE ~(k < i)
      <3>1. k + 1 \in 1..Len(c) /\ c[k + 1] = r[b[k]]
        BY <1>3, <1>4, <1>5, <2>3
      <3>2. ASSUME NEW m \in 1..(k - 1) PROVE \E l \in 1..((k + 1) - 1) : c[l] = r[b[m]]
        <4>1. m \in 1..Len(b) /\ m \in 1..k /\ m + 1 \in 1..k /\ (k + 1) - 1 = k
          BY <1>3
        <4>2. c[m] = r[b[m]] \/ c[m + 1] = r[b[m]]
          BY <1>5, <4>1
        <4> QED  BY <4>1, <4>2
      <3> QED  BY <3>1, <3>2
    <2> QED  BY <2>2, <2>3
  <1> QED  BY <1>6 DEF Follows, b, c

\* A wire of a node that keeps its id does not change.
LEMMA RemapStays ==
  ASSUME NEW r, \A x \in DOMAIN r : r[x] = x, NEW b, b = Port(b.node, b.port)
  PROVE  Remap(r, b) = b
  BY DEF Remap

\* The wires of a node are ports.
LEMMA WiresArePorts ==
  ASSUME NEW n, IsNode(n), NEW f \in DOMAIN n.binds
  PROVE  n.binds[f] = Port(n.binds[f].node, n.binds[f].port)
  BY DEF IsNode

\* An element saved from a spec that runs, runs alone.
LEMMA SavedRuns ==
  ASSUME NEW s, Good(s), Runs(s), NEW g \in Ids(s), s.node[g].kind = "group", NEW name,
         NEW t, IsTemplate(s, g, name, t), IsElement(t), NEW a, IsAlone(t, a)
  PROVE  Runs(a)
  <1>1. PICK all : all = {g} \cup Below(s, g)
    OBVIOUS
  <1>2. /\ t.root = g /\ DOMAIN t.node = all /\ DOMAIN t.body = all \cap Scopes(s) /\ g \in all
        /\ \A x \in all \ {g} : t.node[x] = s.node[x]
        /\ \A d \in DOMAIN t.body : t.body[d] = s.body[d]
        /\ SameButBinds(s.node[g], t.node[g])
        /\ DOMAIN t.node[g].binds = DOMAIN s.node[g].binds \ {"seedInput"}
        /\ \A f \in DOMAIN t.node[g].binds : t.node[g].binds[f] = s.node[g].binds[f]
    BY <1>1 DEF IsTemplate
  <1>3. all \subseteq Ids(s)
    BY <1>1 DEF Below
  <1>4. /\ IsTree(s) /\ IsTree(a) /\ \A x \in Ids(s) : IsNode(s.node[x])
    BY AloneIsTree DEF Good
  <1>5. /\ Ids(a) = all /\ a.exit = InputSource
        /\ Scopes(a) = {Top} \cup DOMAIN t.body /\ a.body[Top] = <<g>>
        /\ \A d \in DOMAIN t.body : d # Top /\ a.body[d] = t.body[d]
    BY <1>2 DEF IsAlone
  <1>6. /\ \A x \in all \ {g} : a.node[x] = t.node[x]
        /\ IsNode(a.node[g]) /\ SameButBinds(t.node[g], a.node[g])
        /\ DOMAIN a.node[g].binds = DOMAIN t.node[g].binds \cup {"seedInput"}
        /\ \A f \in DOMAIN a.node[g].binds \ {"seedInput"} : a.node[g].binds[f] = t.node[g].binds[f]
        /\ a.node[g].binds["seedInput"] = InputSource
    <2>1. PICK v : v = [root |-> t.root, body |-> t.body, node |-> a.node, inside |-> t.inside]
      OBVIOUS
    <2>2. v.node = a.node
      BY <2>1
    <2>3. IsSeeded(t, {InputSource}, v)
      BY <2>1 DEF IsAlone
    <2> QED  BY <1>2, <2>2, <2>3 DEF IsSeeded
  <1>7. PICK r : r = [x \in all |-> x]
    OBVIOUS
  <1>8. DOMAIN r = all /\ \A x \in all : r[x] = x
    BY <1>7
  <1>9. ASSUME NEW x \in all
        PROVE  SameButBinds(s.node[x], a.node[x]) /\ DOMAIN s.node[x].binds \subseteq DOMAIN a.node[x].binds
    <2>1. CASE x = g
      BY <1>2, <1>6, <2>1 DEF SameButBinds
    <2>2. CASE x # g
      <3>1. a.node[x] = s.node[x]
        BY <1>2, <1>6, <2>2
      <3> QED  BY <3>1 DEF SameButBinds
    <2> QED  BY <2>1, <2>2
  <1>10. ASSUME NEW d \in DOMAIN t.body
         PROVE  (\A x \in ToSet(s.body[d]) : x \in all) /\ Follows(s, d, a, d, r)
    <2>1. IsBody(all, t.body[d])
      BY <1>2 DEF IsElement, IsSubtree
    <2>2. t.body[d] = s.body[d] /\ a.body[d] = s.body[d]
      BY <1>2, <1>5
    <2>3. \A x \in ToSet(s.body[d]) : x \in all
      BY <2>1, <2>2 DEF IsBody
    <2>4. IsBody(all, s.body[d]) /\ IsBody(all, a.body[d])
      BY <2>1, <2>2
    <2>5. \A i \in DOMAIN s.body[d] : a.body[d][i] = r[s.body[d][i]]
      BY <1>8, <2>1, <2>2 DEF IsBody
    <2>6. Follows(s, d, a, d, r)
      BY <2>2, <2>4, <2>5, SameOrder
    <2> QED  BY <2>3, <2>6
  <1>11. Embeds(s, a, r)
    BY <1>2, <1>3, <1>4, <1>5, <1>8, <1>9, <1>10 DEF Embeds
  <1>12. /\ \A x \in Ids(s) : /\ Unwired(s, x) = {}
                              /\ \A f \in DOMAIN s.node[x].binds : Resolves(s, x, f)
    BY RunsIs
  <1>13. ASSUME NEW x \in all, NEW f \in DOMAIN s.node[x].binds, a.node[x].binds[f] = s.node[x].binds[f],
                OfBody(s.node[x], f) \/ x # g
         PROVE  Resolves(a, x, f)
    <2>1. Resolves(s, x, f) /\ s.node[x].binds[f] = Port(s.node[x].binds[f].node, s.node[x].binds[f].port)
      BY <1>3, <1>4, <1>12, WiresArePorts
    <2>2. a.node[r[x]].binds[f] = Remap(r, s.node[x].binds[f])
      BY <1>8, <1>13, <2>1, RemapStays
    <2>3. OfBody(s.node[x], f) \/ \E d \in Scopes(s) \cap DOMAIN r : x \in ToSet(s.body[d])
      <3>1. CASE x # g
        <4>1. PICK d \in DOMAIN t.body : x \in ToSet(t.body[d])
          BY <1>2, <3>1 DEF IsElement, IsSubtree
        <4> QED  BY <1>2, <1>8, <4>1
      <3> QED  BY <1>13, <3>1
    <2>4. x \in DOMAIN r
      BY <1>8
    <2>5. Resolves(a, r[x], f)
      BY <1>11, <2>1, <2>2, <2>3, <2>4, ResolvesEmbeds
    <2> QED  BY <1>8, <2>5
  <1>14. InputSource \in Injected(a, Top)
    BY DEF Injected
  <1>15. Resolves(a, g, "seedInput")
    <2>1. ~OfBody(a.node[g], "seedInput")
      BY DEF OfBody, BodyFields
    <2>2. g \in ToSet(a.body[Top])
      <3>1. IsBody(Ids(a), a.body[Top])
        BY <1>4, <1>5, ScopeIs
      <3>2. Len(a.body[Top]) = 1 /\ a.body[Top][1] = g
        BY <1>5
      <3> QED  BY <3>1, <3>2 DEF IsBody
    <2>3. Home(a, g) = Top
      BY <1>4, <1>5, <2>2, HomeIs
    <2>4. InputSource \in SeenBy(a, g)
      BY <1>14, <2>3 DEF SeenBy
    <2> QED  BY <1>6, <2>1, <2>4 DEF Resolves
  <1>16. ASSUME NEW x \in all
         PROVE  Unwired(a, x) = {} /\ \A f \in DOMAIN a.node[x].binds : Resolves(a, x, f)
    <2>1. CASE x # g
      <3>1. a.node[x] = s.node[x]
        BY <1>2, <1>6, <2>1
      <3>2. Unwired(a, x) = {}
        BY <1>3, <1>12, <3>1 DEF Unwired
      <3> QED  BY <1>13, <2>1, <3>1, <3>2
    <2>2. CASE x = g
      <3>1. a.node[g].kind = "group"
        BY <1>9, <2>2 DEF SameButBinds
      <3>2. a.node[g].needs = {}
        BY <1>6, <3>1 DEF IsNode
      <3>3. ASSUME NEW f \in DOMAIN a.node[g].binds \ {"seedInput"} PROVE Resolves(a, g, f)
        <4>1. f \in DOMAIN s.node[g].binds /\ a.node[g].binds[f] = s.node[g].binds[f]
          BY <1>2, <1>6
        <4>2. DOMAIN s.node[g].binds \subseteq {"seedInput", "bodyOutput"}
          BY <1>4 DEF IsNode
        <4>3. OfBody(s.node[g], f)
          BY <4>1, <4>2 DEF OfBody, BodyFields
        <4> QED  BY <1>2, <1>13, <4>1, <4>3
      <3> QED  BY <1>15, <2>2, <3>2, <3>3 DEF Unwired
    <2> QED  BY <2>1, <2>2
  <1>17. a.exit \in AtExit(a, Top)
    BY <1>5, <1>14 DEF AtExit
  <1> QED  BY <1>5, <1>16, <1>17, RunsIs

\* Differing in bindings only is symmetric and transitive.
LEMMA SameButBindsChains ==
  ASSUME NEW m, NEW n, NEW o, SameButBinds(m, n)
  PROVE  /\ SameButBinds(n, m)
         /\ SameButBinds(n, o) => SameButBinds(m, o)
         /\ SameButBinds(m, o) => SameButBinds(n, o)
  BY DEF SameButBinds

\* An element in its new place: what it resolves alone it resolves there.
LEMMA CopyEmbeds ==
  ASSUME NEW s, NEW h, NEW i, NEW t, NEW r, NEW c, NEW w, IsDrop(s, h, i, t, r, c, w), IsElement(t),
         PickSeed(s, h, i) # {}, NEW a, IsAlone(t, a), NEW u, IsGraft(s, h, i, w, u)
  PROVE  /\ Embeds(a, u, r) /\ DOMAIN r = DOMAIN t.node /\ Ids(a) = DOMAIN t.node
         /\ Scopes(a) = {Top} \cup DOMAIN t.body /\ \A d \in DOMAIN t.body : a.body[d] = t.body[d]
         /\ \A x \in DOMAIN t.node : IsNode(u.node[r[x]])
         /\ \A x \in DOMAIN t.node \ {t.root} : DOMAIN u.node[r[x]].binds = DOMAIN a.node[x].binds
         /\ \A x \in DOMAIN t.node : \A f \in DOMAIN u.node[r[x]].binds :
              \/ x = t.root /\ f = "seedInput" /\ u.node[r[x]].binds[f] \in PickSeed(s, h, i)
              \/ /\ f \in DOMAIN a.node[x].binds
                 /\ u.node[r[x]].binds[f] = Remap(r, a.node[x].binds[f])
                 /\ x = t.root => f = "bodyOutput"
  <1> DEFINE N == DOMAIN t.node
             root == t.root
             seeds == PickSeed(s, h, i)
  <1>1. /\ IsRenaming(t, r) /\ IsClone(t, r, c) /\ IsSeeded(c, seeds, w) /\ Joinable(s, h, i, w)
        /\ "seedInput" \notin DOMAIN c.node[c.root].binds
    BY DEF IsDrop
  <1>2. /\ IsSubtree(t) /\ IsWiredIn(t, FALSE) /\ t.node[root].kind = "group" /\ root \in N
        /\ "seedInput" \notin DOMAIN t.node[root].binds
    BY DEF IsElement, IsSubtree
  <1>3. DOMAIN r = N /\ \A x, y \in N : r[x] = r[y] => x = y
    BY <1>1 DEF IsRenaming, IsInjective
  <1>4. /\ c.root = r[root]
        /\ \A y : y \in DOMAIN c.node <=> \E x \in N : y = r[x]
        /\ \A y : y \in DOMAIN c.body <=> \E d \in DOMAIN t.body : y = r[d]
        /\ \A x \in N :
             /\ IsNode(c.node[r[x]]) /\ SameButBinds(t.node[x], c.node[r[x]])
             /\ DOMAIN c.node[r[x]].binds = DOMAIN t.node[x].binds
             /\ \A f \in DOMAIN t.node[x].binds : c.node[r[x]].binds[f] = Remap(r, t.node[x].binds[f])
        /\ \A d \in DOMAIN t.body : c.body[r[d]] = [j \in DOMAIN t.body[d] |-> r[t.body[d][j]]]
    BY <1>1 DEF IsClone
  <1>5. /\ w.root = c.root /\ w.body = c.body /\ DOMAIN w.node = DOMAIN c.node
        /\ \A y \in DOMAIN c.node \ {c.root} : w.node[y] = c.node[y]
        /\ IsNode(w.node[c.root]) /\ SameButBinds(c.node[c.root], w.node[c.root])
        /\ DOMAIN c.node[c.root].binds \subseteq DOMAIN w.node[c.root].binds
        /\ DOMAIN w.node[c.root].binds \subseteq DOMAIN c.node[c.root].binds \cup {"seedInput"}
        /\ \A f \in DOMAIN w.node[c.root].binds \ {"seedInput"} :
             w.node[c.root].binds[f] = c.node[c.root].binds[f]
        /\ "seedInput" \in DOMAIN w.node[c.root].binds /\ w.node[c.root].binds["seedInput"] \in seeds
    BY <1>1 DEF IsSeeded
  <1>6. /\ Ids(a) = N /\ Scopes(a) = {Top} \cup DOMAIN t.body /\ a.body[Top] = <<root>>
        /\ \A d \in DOMAIN t.body : d # Top /\ a.body[d] = t.body[d]
    BY DEF IsAlone
  <1>7. /\ \A x \in N \ {root} : a.node[x] = t.node[x]
        /\ IsNode(a.node[root]) /\ SameButBinds(t.node[root], a.node[root])
        /\ DOMAIN a.node[root].binds = DOMAIN t.node[root].binds \cup {"seedInput"}
        /\ \A f \in DOMAIN a.node[root].binds \ {"seedInput"} : a.node[root].binds[f] = t.node[root].binds[f]
    <2>1. PICK v : v = [root |-> t.root, body |-> t.body, node |-> a.node, inside |-> t.inside]
      OBVIOUS
    <2>2. v.node = a.node
      BY <2>1
    <2>3. IsSeeded(t, {InputSource}, v)
      BY <2>1 DEF IsAlone
    <2> QED  BY <2>2, <2>3 DEF IsSeeded
  <1>8. /\ Ids(u) = DOMAIN w.node \cup Ids(s) /\ Scopes(u) = DOMAIN w.body \cup Scopes(s)
        /\ \A y \in DOMAIN w.node : u.node[y] = w.node[y]
        /\ \A d \in DOMAIN w.body : u.body[d] = w.body[d]
    BY DEF IsGraft
  <1>9. IsTree(a) /\ IsTree(u)
    BY <1>1, AloneIsTree, GraftIsTree
  <1> HIDE DEF seeds, root, N
  <1>10. \A x \in N : r[x] \in DOMAIN w.node /\ r[x] \in Ids(u) /\ u.node[r[x]] = w.node[r[x]]
    BY <1>4, <1>5, <1>8
  <1>11. ASSUME NEW x \in N \ {root}
         PROVE  /\ u.node[r[x]] = c.node[r[x]] /\ a.node[x] = t.node[x]
                /\ SameButBinds(a.node[x], u.node[r[x]]) /\ IsNode(u.node[r[x]])
                /\ DOMAIN u.node[r[x]].binds = DOMAIN a.node[x].binds
                /\ \A f \in DOMAIN a.node[x].binds : u.node[r[x]].binds[f] = Remap(r, a.node[x].binds[f])
    <2>1. r[x] # c.root /\ r[x] \in DOMAIN c.node
      BY <1>2, <1>3, <1>4
    <2>2. u.node[r[x]] = c.node[r[x]]
      BY <1>5, <1>10, <2>1
    <2>3. a.node[x] = t.node[x]
      BY <1>7
    <2> QED  BY <1>4, <2>2, <2>3
  <1>12. /\ IsNode(u.node[r[root]]) /\ SameButBinds(a.node[root], u.node[r[root]])
         /\ DOMAIN a.node[root].binds \subseteq DOMAIN u.node[r[root]].binds
         /\ u.node[r[root]].binds["seedInput"] \in seeds
         /\ \A f \in DOMAIN u.node[r[root]].binds \ {"seedInput"} :
              /\ f \in DOMAIN a.node[root].binds /\ f = "bodyOutput"
              /\ u.node[r[root]].binds[f] = Remap(r, a.node[root].binds[f])
    <2>1. u.node[r[root]] = w.node[c.root]
      BY <1>2, <1>4, <1>10
    <2>2. SameButBinds(a.node[root], u.node[r[root]])
      <3>1. SameButBinds(t.node[root], c.node[c.root])
        BY <1>2, <1>4
      <3>2. SameButBinds(t.node[root], w.node[c.root])
        BY <1>5, <3>1, SameButBindsChains
      <3> QED  BY <1>7, <2>1, <3>2, SameButBindsChains
    <2>3. IsNode(t.node[root])
      BY <1>2 DEF IsWiredIn, N
    <2>4. DOMAIN t.node[root].binds \subseteq {"bodyOutput"}
      BY <1>2, <2>3 DEF IsNode
    <2>5. /\ DOMAIN c.node[c.root].binds = DOMAIN t.node[root].binds
          /\ \A f \in DOMAIN t.node[root].binds : c.node[c.root].binds[f] = Remap(r, t.node[root].binds[f])
      BY <1>2, <1>4
    <2>6. ASSUME NEW f \in DOMAIN w.node[c.root].binds \ {"seedInput"}
          PROVE  /\ f \in DOMAIN a.node[root].binds /\ f = "bodyOutput"
                 /\ w.node[c.root].binds[f] = Remap(r, a.node[root].binds[f])
      <3>1. f \in DOMAIN t.node[root].binds /\ w.node[c.root].binds[f] = c.node[c.root].binds[f]
        BY <1>5, <2>5
      <3>2. a.node[root].binds[f] = t.node[root].binds[f] /\ f \in DOMAIN a.node[root].binds
        BY <1>7, <3>1
      <3> QED  BY <2>4, <2>5, <3>1, <3>2
    <2>7. DOMAIN a.node[root].binds \subseteq DOMAIN w.node[c.root].binds
      BY <1>5, <1>7, <2>5
    <2> QED  BY <1>5, <2>1, <2>2, <2>6, <2>7
  <1>13. ASSUME NEW d \in DOMAIN t.body
         PROVE  (\A x \in ToSet(a.body[d]) : x \in N) /\ Follows(a, d, u, r[d], r)
    <2>1. IsBody(N, t.body[d]) /\ a.body[d] = t.body[d]
      BY <1>2, <1>6 DEF IsSubtree, N
    <2>2. r[d] \in DOMAIN w.body /\ u.body[r[d]] = c.body[r[d]] /\ r[d] \in Scopes(u)
      BY <1>4, <1>5, <1>8
    <2>3. IsBody(Ids(u), u.body[r[d]])
      BY <1>9, <2>2, ScopeIs
    <2>4. DOMAIN u.body[r[d]] = DOMAIN a.body[d]
          /\ \A j \in DOMAIN a.body[d] : u.body[r[d]][j] = r[a.body[d][j]]
      <3>1. PICK g : g = [j \in DOMAIN t.body[d] |-> r[t.body[d][j]]]
        OBVIOUS
      <3>2. u.body[r[d]] = g
        BY <1>4, <2>2, <3>1
      <3>3. DOMAIN g = DOMAIN t.body[d] /\ \A j \in DOMAIN t.body[d] : g[j] = r[t.body[d][j]]
        BY <3>1
      <3> QED  BY <2>1, <3>2, <3>3
    <2>5. \A x \in ToSet(a.body[d]) : x \in N
      BY <2>1 DEF IsBody
    <2>6. IsBody(N, a.body[d])
      BY <2>1
    <2>7. Follows(a, d, u, r[d], r)
      BY <2>3, <2>4, <2>6, SameOrder
    <2> QED  BY <2>5, <2>7
  <1>14. \A x \in N : SameButBinds(a.node[x], u.node[r[x]])
                      /\ DOMAIN a.node[x].binds \subseteq DOMAIN u.node[r[x]].binds
    BY <1>11, <1>12
  <1>15. Top \notin N
    BY <1>2 DEF IsSubtree, N
  <1>16. Embeds(a, u, r)
    BY <1>3, <1>6, <1>9, <1>10, <1>13, <1>14, <1>15 DEF Embeds
  <1>17. \A x \in N : IsNode(u.node[r[x]])
    BY <1>11, <1>12
  <1>18. \A x \in N : \A f \in DOMAIN u.node[r[x]].binds :
              \/ x = root /\ f = "seedInput" /\ u.node[r[x]].binds[f] \in seeds
              \/ /\ f \in DOMAIN a.node[x].binds
                 /\ u.node[r[x]].binds[f] = Remap(r, a.node[x].binds[f])
                 /\ x = root => f = "bodyOutput"
    BY <1>11, <1>12
  <1> QED  BY <1>3, <1>6, <1>11, <1>16, <1>17, <1>18 DEF N, root, seeds

\* What the spec had is in it still.
LEMMA RestEmbeds ==
  ASSUME NEW s, NEW h, NEW i, NEW t, Joinable(s, h, i, t), NEW u, IsGraft(s, h, i, t, u),
         NEW r, r = [x \in Ids(s) |-> x]
  PROVE  /\ Embeds(s, u, r) /\ Follows(s, Top, u, Top, r) /\ ToSet(s.body[Top]) \subseteq Ids(s)
  <1>1. IsTree(s) /\ IsTree(u) /\ h \in Scopes(s) /\ i \in 1..(Len(s.body[h]) + 1) /\ IsSubtree(t)
    BY GraftIsTree DEF Joinable, Good
  <1>2. /\ Ids(u) = DOMAIN t.node \cup Ids(s) /\ Scopes(u) = DOMAIN t.body \cup Scopes(s)
        /\ \A x \in Ids(s) : u.node[x] = s.node[x]
        /\ \A g \in Scopes(s) \ {h} : u.body[g] = s.body[g]
        /\ u.body[h] = InsertAt(s.body[h], i, t.root)
    BY DEF IsGraft
  <1>3. DOMAIN r = Ids(s) /\ \A x \in Ids(s) : r[x] = x
    OBVIOUS
  <1>4. ASSUME NEW d \in Scopes(s)
        PROVE  (\A x \in ToSet(s.body[d]) : x \in Ids(s)) /\ Follows(s, d, u, d, r)
    <2>1. IsBody(Ids(s), s.body[d]) /\ IsBody(Ids(u), u.body[d])
      BY <1>1, <1>2, ScopeIs
    <2>2. \A x \in ToSet(s.body[d]) : x \in Ids(s)
      BY <2>1 DEF IsBody
    <2>3. CASE d = h
      <3>1. PICK S : S = Ids(u)
        OBVIOUS
      <3>2. \A x \in ToSet(s.body[d]) : x \in Ids(s) \cup {t.root}
        BY <2>2
      <3>3. PICK T : T = Ids(s) \cup {t.root}
        OBVIOUS
      <3>4. IsBody(T, s.body[d])
        BY <2>1, <3>2, <3>3, WiderBody
      <3>5. PICK q : q = [x \in T |-> x]
        OBVIOUS
      <3>6. \A x \in T : q[x] = x
        BY <3>5
      <3>7. PICK e \in T : e = t.root
        BY <3>3
      <3>8. i \in 1..(Len(s.body[d]) + 1) /\ u.body[d] = InsertAt(s.body[d], i, e)
        BY <1>1, <1>2, <2>3, <3>7
      <3>9. Follows(s, d, u, d, q)
        BY <3>4, <3>6, <3>8, InsertedOrder
      <3>10. \A j \in 1..Len(s.body[d]) : s.body[d][j] \in Ids(s) /\ q[s.body[d][j]] = r[s.body[d][j]]
        BY <1>3, <2>1, <3>3, <3>6 DEF IsBody
      <3>11. Follows(s, d, u, d, r)
        <4> DEFINE b == s.body[d]
                   c == u.body[d]
        <4>1. \A k \in 1..Len(b) : \E j \in 1..Len(c) :
                /\ c[j] = q[b[k]]
                /\ \A m \in 1..(k - 1) : \E l \in 1..(j - 1) : c[l] = q[b[m]]
          BY <3>9 DEF Follows
        <4>2. Len(b) \in Nat /\ \A k \in 1..Len(b) : q[b[k]] = r[b[k]]
          BY <2>1, <3>10 DEF IsBody
        <4> HIDE DEF b, c
        <4>3. ASSUME NEW k \in 1..Len(b)
              PROVE  \E j \in 1..Len(c) :
                       /\ c[j] = r[b[k]]
                       /\ \A m \in 1..(k - 1) : \E l \in 1..(j - 1) : c[l] = r[b[m]]
          <5>1. PICK j \in 1..Len(c) : /\ c[j] = q[b[k]]
                                       /\ \A m \in 1..(k - 1) : \E l \in 1..(j - 1) : c[l] = q[b[m]]
            BY <4>1
          <5>2. \A m \in 1..(k - 1) : m \in 1..Len(b)
            BY <4>2
          <5>3. c[j] = r[b[k]]
            BY <4>2, <5>1
          <5>4. ASSUME NEW m \in 1..(k - 1)
                PROVE  \E l \in 1..(j - 1) : c[l] = r[b[m]]
            <6>1. PICK l \in 1..(j - 1) : c[l] = q[b[m]]
              BY <5>1
            <6>2. q[b[m]] = r[b[m]]
              BY <4>2, <5>2
            <6> QED  BY <6>1, <6>2
          <5> QED  BY <5>3, <5>4
        <4> QED  BY <4>3 DEF Follows, b, c
      <3> QED  BY <2>2, <3>11
    <2>4. CASE d # h
      <3>1. u.body[d] = s.body[d]
        BY <1>2, <2>4
      <3>2. \A j \in DOMAIN s.body[d] : u.body[d][j] = r[s.body[d][j]]
        BY <1>3, <2>1, <3>1 DEF IsBody
      <3>3. Follows(s, d, u, d, r)
        BY <2>1, <3>1, <3>2, SameOrder
      <3> QED  BY <2>2, <3>3
    <2> QED  BY <2>3, <2>4
  <1>5. Top \in Scopes(s)
    BY <1>1 DEF IsTree
  <1>6. \A x \in Ids(s) : /\ r[x] \in Ids(u) /\ SameButBinds(s.node[x], u.node[r[x]])
                          /\ DOMAIN s.node[x].binds \subseteq DOMAIN u.node[r[x]].binds
    BY <1>2, <1>3 DEF SameButBinds
  <1>7. Embeds(s, u, r)
    BY <1>1, <1>3, <1>4, <1>6 DEF Embeds
  <1> QED  BY <1>4, <1>5, <1>7

\* What the code seeds a copy with is there to be read.
LEMMA SeedResolves ==
  ASSUME NEW s, NEW h, NEW i, NEW t, Joinable(s, h, i, t), NEW u, IsGraft(s, h, i, t, u),
         NEW b \in PickSeed(s, h, i)
  PROVE  b \in SeenBy(u, t.root)
  <1> DEFINE v == s.body[h]
             c == u.body[h]
  <1>1. /\ IsTree(s) /\ IsTree(u) /\ h \in Scopes(s) /\ i \in 1..(Len(v) + 1)
        /\ t.root \in DOMAIN t.node /\ \A x \in Ids(s) : IsNode(s.node[x])
    BY GraftIsTree DEF Joinable, Good, IsSubtree
  <1>2. /\ Ids(u) = DOMAIN t.node \cup Ids(s) /\ Scopes(u) = DOMAIN t.body \cup Scopes(s)
        /\ \A x \in Ids(s) : u.node[x] = s.node[x]
        /\ c = InsertAt(v, i, t.root)
    BY DEF IsGraft
  <1>3. IsBody(Ids(s), v) /\ IsBody(Ids(u), c) /\ h \in Scopes(u)
    BY <1>1, <1>2, ScopeIs
  <1>4. /\ i \in 1..Len(c) /\ c[i] = t.root /\ \A j \in 1..(i - 1) : c[j] = v[j] /\ j \in 1..Len(v)
    <2>1. PICK S : S = Ids(u)
      OBVIOUS
    <2>2. Len(v) \in Nat /\ \A j \in 1..Len(v) : v[j] \in S
      BY <1>2, <1>3, <2>1 DEF IsBody
    <2>3. IsBody(S, v)
      BY <1>2, <1>3, <2>1, <2>2, WiderBody DEF IsBody
    <2>4. PICK w \in Seq(S) : w = v
      BY <2>3 DEF IsBody
    <2>5. PICK e \in S : e = t.root
      BY <1>1, <1>2, <2>1
    <2>6. PICK k \in 1..(Len(w) + 1) : k = i
      BY <1>1, <2>4
    <2>7. /\ InsertAt(w, k, e) \in Seq(S)
          /\ Len(InsertAt(w, k, e)) = Len(w) + 1
          /\ \A j \in 1..(k - 1) : InsertAt(w, k, e)[j] = w[j]
          /\ InsertAt(w, k, e)[k] = e
          /\ \A j \in (k + 1)..(Len(w) + 1) : InsertAt(w, k, e)[j] = w[j - 1]
      BY InsertAtIs
    <2>8. Len(c) = Len(v) + 1 /\ c[i] = t.root /\ \A j \in 1..(i - 1) : c[j] = v[j]
      BY <1>2, <2>4, <2>5, <2>6, <2>7
    <2> HIDE DEF v, c
    <2> QED  BY <1>1, <2>2, <2>8
  <1>5. /\ Home(u, u.body[h][i]) = h
        /\ \A y : y \in Before(u, u.body[h][i]) <=> \E j \in 1..(i - 1) : u.body[h][j] = y
    <2>1. PICK k \in 1..Len(u.body[h]) : k = i
      BY <1>4
    <2>2. Home(u, u.body[h][k]) = h /\ Before(u, u.body[h][k]) = Preceding(u.body[h], k)
      BY <1>1, <1>3, BeforeIs
    <2> QED  BY <2>1, <2>2 DEF Preceding
  <1> HIDE DEF v, c
  <1>6. Home(u, t.root) = h /\ \A y : y \in Before(u, t.root) <=> \E j \in 1..(i - 1) : c[j] = y
    BY <1>4, <1>5 DEF c
  <1>7. CASE i > 1
    <2>1. PICK y : y = v[i - 1]
      OBVIOUS
    <2>2. i - 1 \in 1..(i - 1)
      BY <1>1, <1>3, <1>7 DEF IsBody
    <2>3. y \in Before(u, t.root) /\ y \in Ids(s)
      BY <1>3, <1>4, <1>6, <2>1, <2>2 DEF IsBody
    <2>4. b = Port(y, s.node[y].outs[1])
      BY <1>7, <2>1 DEF PickSeed, v
    <2>5. PICK o : o = s.node[y].outs
      OBVIOUS
    <2>6. o \in Seq(STRING) /\ o # <<>>
      BY <1>1, <2>3, <2>5 DEF IsNode
    <2>7. Len(o) \in Nat /\ Len(o) # 0
      BY <2>6, LenProperties
    <2>8. o[1] \in ToSet(o)
      BY <2>6, <2>7, SequenceIs
    <2>9. u.node[y].outs = o /\ b = Port(y, o[1])
      BY <1>2, <2>3, <2>4, <2>5
    <2>10. b \in Outputs(u, Before(u, t.root))
      BY <2>3, <2>8, <2>9, OutputsAre
    <2> QED  BY <2>10 DEF SeenBy
  <1>8. CASE ~(i > 1) /\ h = Top
    BY <1>6, <1>8 DEF PickSeed, SeenBy, Injected
  <1>9. CASE ~(i > 1) /\ h # Top
    <2>1. h \in Ids(s)
      BY <1>1, <1>9 DEF IsTree
    <2>2. b = Port(h, "in") /\ Seeded(s.node[h])
      BY <1>9 DEF PickSeed
    <2>3. Seeded(u.node[h])
      BY <1>2, <2>1, <2>2
    <2>4. b \in Injected(u, h)
      BY <1>9, <2>2, <2>3 DEF Injected
    <2> QED  BY <1>6, <2>4 DEF SeenBy
  <1> QED  BY <1>7, <1>8, <1>9

\* The nodes of a dropped element resolve: the root its seed, the others as they do
\* alone.
LEMMA CopyRuns ==
  ASSUME NEW s, NEW h, NEW i, NEW t, NEW r, NEW c, NEW w, IsDrop(s, h, i, t, r, c, w), IsElement(t),
         PickSeed(s, h, i) # {}, NEW a, IsAlone(t, a), Runs(a), NEW u, IsGraft(s, h, i, w, u),
         NEW x \in DOMAIN t.node
  PROVE  Unwired(u, r[x]) = {} /\ \A f \in DOMAIN u.node[r[x]].binds : Resolves(u, r[x], f)
  <1> DEFINE root == t.root
             y == r[x]
  <1>1. /\ Embeds(a, u, r) /\ DOMAIN r = DOMAIN t.node /\ Ids(a) = DOMAIN t.node
        /\ Scopes(a) = {Top} \cup DOMAIN t.body /\ \A d \in DOMAIN t.body : a.body[d] = t.body[d]
        /\ \A z \in DOMAIN t.node : IsNode(u.node[r[z]])
        /\ \A z \in DOMAIN t.node \ {t.root} : DOMAIN u.node[r[z]].binds = DOMAIN a.node[z].binds
        /\ \A z \in DOMAIN t.node : \A f \in DOMAIN u.node[r[z]].binds :
             \/ z = t.root /\ f = "seedInput" /\ u.node[r[z]].binds[f] \in PickSeed(s, h, i)
             \/ /\ f \in DOMAIN a.node[z].binds
                /\ u.node[r[z]].binds[f] = Remap(r, a.node[z].binds[f])
                /\ z = t.root => f = "bodyOutput"
    BY CopyEmbeds
  <1>2. /\ IsSubtree(t) /\ t.node[root].kind = "group" /\ root \in DOMAIN t.node
        /\ Joinable(s, h, i, w) /\ w.root = r[root] /\ SameButBinds(t.node[root], c.node[r[root]])
        /\ w.node[r[root]].kind = c.node[r[root]].kind /\ r[root] \in DOMAIN w.node
    BY DEF IsDrop, IsElement, IsSubtree, IsClone, IsSeeded, SameButBinds
  <1>3. u.node[r[root]].kind = "group" /\ SameButBinds(a.node[x], u.node[y])
    <2>1. u.node[r[root]] = w.node[r[root]]
      BY <1>2 DEF IsGraft
    <2> QED  BY <1>1, <1>2, <2>1 DEF SameButBinds, Embeds
  <1>4. Unwired(a, x) = {} /\ \A f \in DOMAIN a.node[x].binds : Resolves(a, x, f)
    BY <1>1, RunsIs
  <1>5. Unwired(u, y) = {}
    <2>1. CASE x = root
      BY <1>1, <1>2, <1>3, <2>1 DEF IsNode, Unwired
    <2>2. CASE x # root
      BY <1>1, <1>3, <1>4, <2>2 DEF Unwired, SameButBinds
    <2> QED  BY <2>1, <2>2
  <1>6. ASSUME NEW f \in DOMAIN u.node[y].binds PROVE Resolves(u, y, f)
    <2>1. CASE x = root /\ f = "seedInput" /\ u.node[y].binds[f] \in PickSeed(s, h, i)
      <3>1. u.node[y].binds[f] \in SeenBy(u, y)
        BY <1>2, <2>1, SeedResolves
      <3>2. ~OfBody(u.node[y], f)
        BY <2>1 DEF OfBody, BodyFields
      <3> QED  BY <3>1, <3>2 DEF Resolves
    <2>2. CASE /\ f \in DOMAIN a.node[x].binds
               /\ u.node[y].binds[f] = Remap(r, a.node[x].binds[f])
               /\ x = root => f = "bodyOutput"
      <3>1. \/ OfBody(a.node[x], f)
            \/ \E d \in Scopes(a) \cap DOMAIN r : x \in ToSet(a.body[d])
        <4>1. CASE x = root
          BY <1>3, <2>2, <4>1 DEF SameButBinds, OfBody, BodyFields
        <4>2. CASE x # root
          <5>1. PICK d \in DOMAIN t.body : x \in ToSet(t.body[d])
            BY <1>2, <4>2 DEF IsSubtree
          <5>2. d \in DOMAIN t.node
            BY <1>2 DEF IsSubtree
          <5> QED  BY <1>1, <5>1, <5>2
        <4> QED  BY <4>1, <4>2
      <3>2. Resolves(a, x, f) /\ x \in DOMAIN r
        BY <1>1, <1>4, <2>2
      <3> QED  BY <1>1, <2>2, <3>1, <3>2, ResolvesEmbeds
    <2> QED  BY <1>1, <2>1, <2>2
  <1> QED  BY <1>5, <1>6

\* The other nodes, and the exit of the spec, resolve as before.
LEMMA RestRuns ==
  ASSUME NEW s, Runs(s), NEW h, NEW i, NEW t, Joinable(s, h, i, t), NEW u, IsGraft(s, h, i, t, u)
  PROVE  /\ \A x \in Ids(s) : /\ Unwired(u, x) = {}
                              /\ \A f \in DOMAIN u.node[x].binds : Resolves(u, x, f)
         /\ u.exit \in AtExit(u, Top)
  <1>1. PICK r : r = [x \in Ids(s) |-> x]
    OBVIOUS
  <1>2. Embeds(s, u, r) /\ Follows(s, Top, u, Top, r) /\ ToSet(s.body[Top]) \subseteq Ids(s)
    BY <1>1, RestEmbeds
  <1>3. DOMAIN r = Ids(s) /\ \A x \in DOMAIN r : r[x] = x
    BY <1>1
  <1>4. /\ \A x \in Ids(s) : IsNode(s.node[x]) /\ u.node[x] = s.node[x]
        /\ IsTree(s) /\ IsTree(u) /\ u.exit = s.exit
    BY <1>2 DEF Joinable, Good, IsGraft, Embeds
  <1>5. /\ \A x \in Ids(s) : /\ Unwired(s, x) = {}
                             /\ \A f \in DOMAIN s.node[x].binds : Resolves(s, x, f)
        /\ s.exit \in AtExit(s, Top)
    BY RunsIs
  <1>6. ASSUME NEW x \in Ids(s), NEW f \in DOMAIN u.node[x].binds PROVE Resolves(u, x, f)
    <2>1. Resolves(s, x, f) /\ x \in DOMAIN r
      BY <1>3, <1>4, <1>5
    <2>2. s.node[x].binds[f] = Port(s.node[x].binds[f].node, s.node[x].binds[f].port)
      BY <1>4, WiresArePorts
    <2>3. u.node[r[x]].binds[f] = Remap(r, s.node[x].binds[f])
      BY <1>3, <1>4, <2>2, RemapStays
    <2>4. \/ \E d \in Scopes(s) \cap DOMAIN r : x \in ToSet(s.body[d])
          \/ /\ x \in ToSet(s.body[Top]) /\ ToSet(s.body[Top]) \subseteq DOMAIN r
             /\ Follows(s, Top, u, Top, r)
      <3>1. PICK d \in Scopes(s) : x \in ToSet(s.body[d])
        BY <1>4 DEF IsTree
      <3>2. d = Top \/ d \in Ids(s)
        BY <1>4 DEF IsTree
      <3> QED  BY <1>2, <1>3, <3>1, <3>2
    <2>5. Resolves(u, r[x], f)
      BY <1>2, <2>1, <2>3, <2>4, ResolvesEmbeds
    <2> QED  BY <1>3, <2>5
  <1>7. \A x \in Ids(s) : Unwired(u, x) = {}
    BY <1>4, <1>5 DEF Unwired
  <1>8. u.exit \in AtExit(u, Top)
    <2>1. CASE s.exit \in Injected(s, Top)
      BY <1>4, <2>1 DEF AtExit, Injected
    <2>2. CASE s.exit \in Outputs(s, ToSet(s.body[Top]))
      <3>1. Top \in Scopes(s) /\ Top \in Scopes(u)
        BY <1>4 DEF IsTree
      <3>2. \A x \in ToSet(s.body[Top]) : r[x] \in ToSet(u.body[Top])
        BY <1>2, <1>4, <3>1, FollowsIs
      <3>3. Remap(r, s.exit) \in Outputs(u, ToSet(u.body[Top]))
        BY <1>2, <1>3, <2>2, <3>2, OutputsEmbed
      <3>4. \E y, p : s.exit = Port(y, p)
        BY <2>2, OutputsAre
      <3>5. s.exit = Port(s.exit.node, s.exit.port)
        BY <3>4 DEF Port
      <3>6. Remap(r, s.exit) = s.exit
        BY <1>3, <3>5, RemapStays
      <3> QED  BY <1>4, <3>3, <3>6 DEF AtExit
    <2> QED  BY <1>5, <2>1, <2>2 DEF AtExit
  <1> QED  BY <1>6, <1>7, <1>8

\* So a spec that runs is left running.
LEMMA DropRuns ==
  ASSUME NEW s, Runs(s), NEW h, NEW i, NEW t, NEW r, NEW c, NEW w, IsDrop(s, h, i, t, r, c, w),
         IsElement(t), PickSeed(s, h, i) # {}, NEW a, IsAlone(t, a), Runs(a),
         NEW u, IsGraft(s, h, i, w, u)
  PROVE  Runs(u)
  <1>1. Joinable(s, h, i, w)
    BY DEF IsDrop
  <1>2. /\ \A x \in Ids(s) : /\ Unwired(u, x) = {}
                             /\ \A f \in DOMAIN u.node[x].binds : Resolves(u, x, f)
        /\ u.exit \in AtExit(u, Top)
    BY <1>1, RestRuns
  <1>3. \A y \in Ids(u) : y \in Ids(s) \/ \E x \in DOMAIN t.node : y = r[x]
    <2>1. Ids(u) = DOMAIN w.node \cup Ids(s)
      BY DEF IsGraft
    <2>2. DOMAIN w.node = DOMAIN c.node
      BY DEF IsDrop, IsSeeded
    <2>3. \A y : y \in DOMAIN c.node <=> \E x \in DOMAIN t.node : y = r[x]
      BY DEF IsDrop, IsClone
    <2> QED  BY <2>1, <2>2, <2>3
  <1>4. \A x \in DOMAIN t.node : /\ Unwired(u, r[x]) = {}
                                 /\ \A f \in DOMAIN u.node[r[x]].binds : Resolves(u, r[x], f)
    BY CopyRuns
  <1> QED  BY <1>2, <1>3, <1>4, RunsIs

\* An element saved from a spec that runs resolves alone, with any input as its
\* seed, and dropped in a spec that runs leaves it running: the copy is wired to
\* its new place, and to nothing of the place it came from.
THEOREM ElementsRunAnywhere == Spec => ElementsStandAlone
  <1>1. IInv /\ [Next]_vars => SavedElementIsClosed
    <2> SUFFICES ASSUME IInv, [Next]_vars, NEW t \in library' \ library, Runs(spec)
                 PROVE  Runs(Alone(t))
      BY DEF SavedElementIsClosed
    <2>1. ASSUME NEW g \in Ids(spec), NEW name \in Names, SaveComposite(g, name)
          PROVE  Runs(Alone(t))
      <3>1. /\ spec.node[g].kind = "group" /\ t = Template(spec, g, name)
            /\ \A x \in Below(spec, g) : spec.node[x].kind \in {"step", "group"}
        BY <2>1 DEF SaveComposite
      <3>2. IsTemplate(spec, g, name, t)
        BY <3>1, TemplateIs DEF IInv
      <3>3. IsElement(t)
        BY <3>1, <3>2, TemplateIsElement DEF IInv
      <3>4. IsAlone(t, Alone(t))
        BY <3>3, AloneIs
      <3> QED  BY <3>1, <3>2, <3>3, <3>4, SavedRuns DEF IInv
    <2>2. CASE UNCHANGED library
      BY <2>2
    <2>3. CASE \E e \in library : DeleteComposite(e)
      BY <2>3 DEF DeleteComposite
    <2> QED
      BY <2>1, <2>2, <2>3 DEF Next, vars, InsertStep, InsertComposite, RemoveStep, BindHere, ClearPort,
         ToggleArmPort, BindPort, DisarmPort, ResetSpec
  <1>2. IInv /\ [Next]_vars => DroppedElementRuns
    <2> SUFFICES ASSUME IInv, Runs(spec), NEW t \in library, NEW v \in Slots(spec),
                        NEW n \in 0..MaxNumber, Runs(Alone(t)),
                        PickSeed(spec, v[1], v[2]) # {}, InsertComposite(t, v[1], v[2], n)
                 PROVE  Runs(spec')
      BY DEF DroppedElementRuns
    <2>1. PICK h : h = v[1]
      OBVIOUS
    <2>2. PICK i : i = v[2]
      OBVIOUS
    <2>3. h \in Scopes(spec) /\ i \in 1..(Len(spec.body[h]) + 1)
      BY <2>1, <2>2, SlotIs
    <2>4. PICK r : r = FreshIds(t, n)
      OBVIOUS
    <2>5. PICK w : w = WithSeed(Clone(t, r), PickSeed(spec, h, i))
      OBVIOUS
    <2>6. /\ IsInjective(r) /\ Range(r) \cap Ids(spec) = {}
          /\ Edit(Grafted(spec, h, i, w))
      BY <2>1, <2>2, <2>4, <2>5 DEF InsertComposite
    <2>7. Good(spec) /\ IsElement(t) /\ n \in Nat
      BY BoundsAssumption DEF IInv
    <2>8. PICK c : c = Clone(t, r)
      OBVIOUS
    <2>9. IsDrop(spec, h, i, t, r, Clone(t, r), w)
      BY <2>3, <2>4, <2>5, <2>6, <2>7, DropIs
    <2>10. IsDrop(spec, h, i, t, r, c, w)
      BY <2>8, <2>9
    <2>11. spec' = Grafted(spec, h, i, w)
      BY <2>6 DEF Edit
    <2>12. PICK u : u = Grafted(spec, h, i, w)
      OBVIOUS
    <2>13. IsGraft(spec, h, i, w, u)
      BY <2>10, <2>12, GraftedIs DEF IsDrop
    <2>14. PICK a : a = Alone(t)
      OBVIOUS
    <2>15. IsAlone(t, a) /\ Runs(a)
      BY <2>7, <2>14, AloneIs
    <2>16. PickSeed(spec, h, i) # {}
      BY <2>1, <2>2
    <2>17. Runs(u)
      BY <2>7, <2>10, <2>13, <2>15, <2>16, DropRuns
    <2> QED  BY <2>11, <2>12, <2>17
  <1>3. IInv /\ [Next]_vars => [SavedElementIsClosed /\ DroppedElementRuns]_vars
    BY <1>1, <1>2
  <1> QED  BY <1>3, InvariantHolds, PTL DEF Spec, ElementsStandAlone

=============================================================================
