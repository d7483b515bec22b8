--------------------------- MODULE BikeDocsProofs ---------------------------
(***************************************************************************)
(* What the loops over the collection "bicycle" return, for every           *)
(* collection: the facts that the proofs about the screens rest on.         *)
(***************************************************************************)
EXTENDS BikeDocs, TLAPS, FiniteSetTheorems, SequenceTheorems

\* In a finite set of numbers, the count of elements up to x rises with x: it is the
\* place of x in the order.
LEMMA RankIsRising ==
    ASSUME NEW S \in SUBSET Int, IsFiniteSet(S)
    PROVE  LET rank == [x \in S |-> Cardinality({y \in S : y <= x})]
           IN  /\ rank \in [S -> 1..Cardinality(S)]
               /\ \A x, y \in S : x < y => rank[x] < rank[y]
<1> DEFINE below(x) == {y \in S : y <= x}
<1>1. ASSUME NEW x \in S
      PROVE  /\ IsFiniteSet(below(x)) /\ Cardinality(below(x)) \in Nat
             /\ Cardinality(below(x)) <= Cardinality(S)
             /\ Cardinality(below(x)) >= 1
  <2>1. below(x) \in SUBSET S
    OBVIOUS
  <2>2. IsFiniteSet(below(x)) /\ Cardinality(below(x)) <= Cardinality(S)
    BY <2>1, FS_Subset
  <2>3. Cardinality(below(x)) \in Nat
    BY <2>2, FS_CardinalityType
  <2>4. x \in below(x)
    OBVIOUS
  <2>5. Cardinality(below(x)) # 0
    BY <2>2, <2>4, FS_EmptySet
  <2> QED BY <2>2, <2>3, <2>5
<1>2. ASSUME NEW x \in S, NEW y \in S, x < y
      PROVE  Cardinality(below(x)) < Cardinality(below(y))
  <2>i. S \subseteq Int
    OBVIOUS
  <2>1. below(x) \in SUBSET below(y)
    <3> SUFFICES ASSUME NEW z \in S, z <= x PROVE z <= y
      OBVIOUS
    <3> QED BY <1>2, <2>i
  <2>2. y \in below(y) /\ y \notin below(x)
    BY <1>2
  <2>3. Cardinality(below(x)) <= Cardinality(below(y)) /\ Cardinality(below(x)) # Cardinality(below(y))
    BY <1>1, <2>1, <2>2, FS_Subset
  <2> QED BY <1>1, <2>3
<1>3. Cardinality(S) \in Nat
  BY FS_CardinalityType
<1> QED BY <1>1, <1>2, <1>3

\* A loop over finitely many documents meets each of them once, in the order of their
\* numbers: such a sequence exists, so this is what Ascending chooses.
THEOREM AscendingSeq ==
    ASSUME NEW S \in SUBSET Int, IsFiniteSet(S)
    PROVE  /\ Ascending(S) \in [1..Cardinality(S) -> S]
           /\ Cardinality(S) \in Nat
           /\ \A i, j \in 1..Cardinality(S) : i < j => Ascending(S)[i] < Ascending(S)[j]
           /\ \A x \in S : \E i \in 1..Cardinality(S) : Ascending(S)[i] = x
<1> DEFINE n == Cardinality(S)
           rank == [x \in S |-> Cardinality({y \in S : y <= x})]
           s == [i \in 1..n |-> CHOOSE x \in S : rank[x] = i]
<1>n. n \in Nat
  BY FS_CardinalityType
<1>r. rank \in [S -> 1..n] /\ \A x, y \in S : x < y => rank[x] < rank[y]
  BY RankIsRising
<1> HIDE DEF rank
<1>1. rank \in Injection(S, 1..n)
  BY <1>n, <1>r DEF Injection, IsInjective
<1>2. IsFiniteSet(1..n) /\ Cardinality(1..n) = n
  BY <1>n, FS_Interval
<1>3. rank \in Surjection(S, 1..n)
  BY <1>1, <1>2, FS_Injection
<1>4. \A i \in 1..n : \E x \in S : rank[x] = i
  BY <1>3 DEF Surjection
<1>5. \A i \in 1..n : s[i] \in S /\ rank[s[i]] = i
  BY <1>4
<1> HIDE DEF s
<1>6. s \in [1..n -> S]
  BY <1>5 DEF s
<1>7. \A i, j \in 1..n : i < j => s[i] < s[j]
  <2> SUFFICES ASSUME NEW i \in 1..n, NEW j \in 1..n, i < j PROVE s[i] < s[j]
    OBVIOUS
  <2>1. s[i] \in S /\ s[j] \in S /\ rank[s[i]] = i /\ rank[s[j]] = j
    BY <1>5
  <2>2. s[i] \in Int /\ s[j] \in Int
    BY <2>1
  <2>3. ~(s[j] < s[i]) /\ s[i] # s[j]
    <3>1. s[j] < s[i] => rank[s[j]] < rank[s[i]]
      BY <1>r, <2>1
    <3> QED BY <2>1, <2>2, <3>1
  <2> QED BY <2>2, <2>3
<1>8. /\ Ascending(S) \in [1..n -> S]
      /\ \A i, j \in 1..n : i < j => Ascending(S)[i] < Ascending(S)[j]
  BY <1>6, <1>7 DEF Ascending
<1> DEFINE a == Ascending(S)
<1> HIDE DEF a
<1>9. a \in Injection(1..n, S)
  <2>1. \A i, j \in 1..n : a[i] = a[j] => i = j
    <3> SUFFICES ASSUME NEW i \in 1..n, NEW j \in 1..n, i # j PROVE a[i] # a[j]
      OBVIOUS
    <3>1. a[i] \in Int /\ a[j] \in Int
      BY <1>8 DEF a
    <3>2. i < j \/ j < i
      BY <1>n
    <3> QED BY <1>8, <3>1, <3>2 DEF a
  <2> QED BY <1>8, <2>1 DEF a, Injection, IsInjective
<1>10. a \in Surjection(1..n, S)
  BY <1>2, <1>9, FS_Injection
<1> QED BY <1>n, <1>8, <1>10 DEF a, Surjection
-----------------------------------------------------------------------------
\* The set of all collections, for the answers that carry one.
Collections == UNION {[D -> Fields] : D \in SUBSET Bikes}

LEMMA CollectionsDef == \A c : c \in Collections <=> IsCollection(c)
BY DEF Collections, IsCollection

\* A document with an owner has a nickname: both are written together.
Nicknamed(docs) == \A d \in DOMAIN docs : docs[d].uid # NoUid => docs[d].nick # NoNick

Sound(docs) == IsCollection(docs) /\ Nicknamed(docs)

\* Whatever the program writes leaves a collection, and its owners' documents with a
\* nickname.
LEMMA WritesStaySound ==
    ASSUME NEW c, Sound(c), NEW d \in Bikes
    PROVE  /\ \A s \in States : Sound(Patched(c, d, s)) /\ Sound(Updated(c, d, s))
           /\ \A nick \in Nicks, uid \in Users : Sound(Registered(c, d, nick, uid))
<1> USE DEF Sound, IsCollection, Nicknamed
<1>1. ASSUME NEW doc \in Fields, doc.uid # NoUid => doc.nick # NoNick
      PROVE  Sound(Put(c, d, doc))
  BY <1>1 DEF Put
<1>2. ASSUME NEW s \in States PROVE Sound(Patched(c, d, s))
  <2>1. CASE d \in DOMAIN c
    <3> DEFINE doc == [c[d] EXCEPT !.state = s]
    <3>1. doc \in Fields /\ (doc.uid # NoUid => doc.nick # NoNick)
      BY <2>1 DEF Fields
    <3> HIDE DEF doc
    <3>2. Sound(Put(c, d, doc))
      BY <1>1, <3>1
    <3> QED BY <2>1, <3>2 DEF Patched, doc
  <2>2. CASE d \notin DOMAIN c
    <3> DEFINE doc == [uid |-> NoUid, nick |-> NoNick, state |-> s]
    <3>1. doc \in Fields /\ (doc.uid # NoUid => doc.nick # NoNick)
      BY DEF Fields
    <3> HIDE DEF doc
    <3>2. Sound(Put(c, d, doc))
      BY <1>1, <3>1
    <3> QED BY <2>2, <3>2 DEF Patched, doc
  <2> QED BY <2>1, <2>2
<1>3. ASSUME NEW s \in States PROVE Sound(Updated(c, d, s))
  BY DEF Updated, Fields
<1>4. ASSUME NEW nick \in Nicks, NEW uid \in Users PROVE Sound(Registered(c, d, nick, uid))
  <2> DEFINE doc == [uid |-> uid, nick |-> nick, state |-> 0]
  <2>1. doc \in Fields /\ (doc.uid # NoUid => doc.nick # NoNick)
    BY FieldAssumption DEF Fields, States
  <2> HIDE DEF doc
  <2> QED BY <1>1, <2>1 DEF Registered, doc
<1> QED BY <1>2, <1>3, <1>4

\* Deleting documents leaves a collection too.
LEMMA RemovalStaysSound ==
    ASSUME NEW c, Sound(c), NEW gone
    PROVE  Sound(Removed(c, gone))
BY DEF Sound, IsCollection, Nicknamed, Removed

\* The documents a loop selects are finitely many numbers.
LEMMA Selection ==
    ASSUME NEW c, IsCollection(c), NEW S \in SUBSET DOMAIN c
    PROVE  IsFiniteSet(S) /\ S \in SUBSET Int
<1>1. S \in SUBSET Bikes
  BY DEF IsCollection
<1> QED BY <1>1, BikesAssumption, FS_Subset

\* The documents that Mine puts into order.
Own(c, user) == {d \in Reached(c) : c[d].uid = user}

\* The user's documents, as a loop takes them: each once, in order, all of those that
\* it reaches.
LEMMA MineSeq ==
    ASSUME NEW c, IsCollection(c), NEW user
    PROVE  /\ Own(c, user) \in SUBSET DOMAIN c /\ IsFiniteSet(Own(c, user))
           /\ Mine(c, user) \in Seq(Own(c, user))
           /\ Len(Mine(c, user)) = Cardinality(Own(c, user))
           /\ \A i, j \in DOMAIN Mine(c, user) :
                 i # j => Mine(c, user)[i] # Mine(c, user)[j]
           /\ \A d \in Own(c, user) : \E i \in DOMAIN Mine(c, user) : Mine(c, user)[i] = d
<1> DEFINE mine == Own(c, user)
<1>1. mine \in SUBSET DOMAIN c
  BY DEF Reached, Own
<1> HIDE DEF mine
<1>2. IsFiniteSet(mine) /\ mine \in SUBSET Int
  BY <1>1, Selection
<1> DEFINE s == Ascending(mine)
<1> HIDE DEF s
<1>3. /\ s \in [1..Cardinality(mine) -> mine]
      /\ Cardinality(mine) \in Nat
      /\ \A i, j \in 1..Cardinality(mine) : i < j => s[i] < s[j]
      /\ \A d \in mine : \E i \in 1..Cardinality(mine) : s[i] = d
  BY <1>2, AscendingSeq DEF s
<1>4. s \in Seq(mine) /\ Len(s) = Cardinality(mine) /\ DOMAIN s = 1..Cardinality(mine)
  BY <1>3
<1>5. \A i, j \in DOMAIN s : i # j => s[i] # s[j]
  <2> SUFFICES ASSUME NEW i \in DOMAIN s, NEW j \in DOMAIN s, i # j PROVE s[i] # s[j]
    OBVIOUS
  <2>1. i \in 1..Cardinality(mine) /\ j \in 1..Cardinality(mine) /\ (i < j \/ j < i)
    BY <1>3, <1>4
  <2>2. s[i] \in Int /\ s[j] \in Int
    BY <1>2, <1>3, <2>1
  <2> QED BY <1>3, <2>1, <2>2
<1>6. Mine(c, user) = s
  BY DEF Mine, mine, s, Own
<1> QED BY <1>1, <1>2, <1>3, <1>4, <1>5, <1>6 DEF mine
-----------------------------------------------------------------------------
\* Removing one element of a sequence closes the gap.
LEMMA RemoveAtSeq ==
    ASSUME NEW S, NEW s \in Seq(S), NEW i \in DOMAIN s
    PROVE  /\ RemoveAt(s, i) \in Seq(S)
           /\ Len(RemoveAt(s, i)) = Len(s) - 1
           /\ \A j \in DOMAIN RemoveAt(s, i) :
                 RemoveAt(s, i)[j] = IF j < i THEN s[j] ELSE s[j + 1]
<1> DEFINE front == SubSeq(s, 1, i - 1)
           back  == SubSeq(s, i + 1, Len(s))
<1>i. Len(s) \in Nat /\ i \in 1..Len(s)
  OBVIOUS
<1>1. /\ front \in Seq(S) /\ Len(front) = i - 1
      /\ \A j \in 1..(i - 1) : front[j] = s[j]
  BY <1>i, SubSeqProperties
<1>2. /\ back \in Seq(S) /\ Len(back) = Len(s) - i
      /\ \A j \in 1..(Len(s) - i) : back[j] = s[i + j]
  BY <1>i, SubSeqProperties
<1> HIDE DEF front, back
<1>3. /\ front \o back \in Seq(S) /\ Len(front \o back) = Len(s) - 1
      /\ \A j \in 1..(Len(s) - 1) :
            (front \o back)[j] = IF j < i THEN front[j] ELSE back[j - (i - 1)]
  <2>1. /\ front \o back \in Seq(S)
        /\ Len(front \o back) = Len(front) + Len(back)
        /\ \A j \in 1..(Len(front) + Len(back)) :
              (front \o back)[j] = IF j <= Len(front) THEN front[j] ELSE back[j - Len(front)]
    BY <1>1, <1>2, ConcatProperties
  <2> QED BY <1>i, <1>1, <1>2, <2>1
<1>4. \A j \in 1..(Len(s) - 1) : (front \o back)[j] = IF j < i THEN s[j] ELSE s[j + 1]
  <2> SUFFICES ASSUME NEW j \in 1..(Len(s) - 1)
               PROVE  (front \o back)[j] = IF j < i THEN s[j] ELSE s[j + 1]
    OBVIOUS
  <2>1. CASE j < i
    BY <1>i, <1>1, <1>3, <2>1
  <2>2. CASE ~(j < i)
    <3>1. j - (i - 1) \in 1..(Len(s) - i) /\ i + (j - (i - 1)) = j + 1
      BY <1>i, <2>2
    <3>2. (front \o back)[j] = back[j - (i - 1)]
      BY <1>3, <2>2
    <3> QED BY <1>2, <2>2, <3>1, <3>2
  <2> QED BY <2>1, <2>2
<1>5. RemoveAt(s, i) = front \o back
  BY DEF RemoveAt, front, back
<1>6. DOMAIN (front \o back) = 1..(Len(s) - 1)
  BY <1>i, <1>3
<1> QED BY <1>3, <1>4, <1>5, <1>6

\* A prefix agrees with the sequence as far as it goes.
LEMMA PrefixSeq ==
    ASSUME NEW S, NEW s \in Seq(S), NEW t \in Seq(S)
    PROVE  IsPrefix(s, t) <=> Len(s) <= Len(t) /\ \A i \in 1..Len(s) : s[i] = t[i]
<1>n. Len(s) \in Nat /\ Len(t) \in Nat
  OBVIOUS
<1>1. SubSeq(s, 1, Len(s)) = s
  OBVIOUS
<1>2. ASSUME Len(s) <= Len(t)
      PROVE  /\ SubSeq(t, 1, Len(s)) \in Seq(S) /\ Len(SubSeq(t, 1, Len(s))) = Len(s)
             /\ \A i \in 1..Len(s) : SubSeq(t, 1, Len(s))[i] = t[i]
  BY <1>2, <1>n, SubSeqProperties
<1>3. ASSUME Len(s) <= Len(t), \A i \in 1..Len(s) : s[i] = t[i]
      PROVE  s = SubSeq(t, 1, Len(s))
  <2> DEFINE u == SubSeq(t, 1, Len(s))
  <2>1. u \in Seq(S) /\ Len(u) = Len(s) /\ \A i \in 1..Len(s) : u[i] = s[i]
    BY <1>2, <1>3
  <2> HIDE DEF u
  <2>2. s = u
    BY <2>1, SeqEqual
  <2> QED BY <2>2 DEF u
<1>4. ASSUME Len(s) <= Len(t), s = SubSeq(t, 1, Len(s))
      PROVE  \A i \in 1..Len(s) : s[i] = t[i]
  BY <1>2, <1>4
<1> QED BY <1>1, <1>3, <1>4 DEF IsPrefix
=============================================================================
