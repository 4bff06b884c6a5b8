------------------------- MODULE XornStorageProofs -------------------------
(***************************************************************************)
(* What holds of the storage backend for any number of revisions, cells,   *)
(* objects and data: its types, exact reference counts, forests, typed     *)
(* attachments, and the values its interface promises.                     *)
(*                                                                         *)
(* No single one of these survives a call by itself.  StorageInv joins     *)
(* them with what the code relies on besides: revisions that are not live  *)
(* are empty, every counted cell is allocated, and no object is numbered   *)
(* beyond next_object_id.  The module goes from sequences and counts       *)
(* over single maps to actions, one lemma per action and conjunct; then    *)
(* come the theorems on invariants, then what a single call may do to the  *)
(* revisions it was not given, and at the end that the storage implements  *)
(* XornRevisions.                                                          *)
(***************************************************************************)
EXTENDS XornRefinement, FiniteSetTheorems, SequenceTheorems, FunctionTheorems, TLAPS

LEMMA AppendElems ==
  ASSUME NEW T, NEW s \in Seq(T), NEW x \in T
  PROVE  /\ Append(s, x) \in Seq(T)
         /\ Len(Append(s, x)) = Len(s) + 1
         /\ \A i \in 1..Len(s) : Append(s, x)[i] = s[i]
         /\ Append(s, x)[Len(s) + 1] = x
OBVIOUS

LEMMA InsertElems ==
  ASSUME NEW T, NEW s \in Seq(T), NEW x \in T, NEW j \in 1..Len(s)+1
  PROVE  /\ Insert(s, j, x) \in Seq(T)
         /\ Len(Insert(s, j, x)) = Len(s) + 1
         /\ \A i \in 1..j-1 : Insert(s, j, x)[i] = s[i]
         /\ Insert(s, j, x)[j] = x
         /\ \A i \in j..Len(s) : Insert(s, j, x)[i+1] = s[i]
<1> DEFINE a == SubSeq(s, 1, j-1)
           b == SubSeq(s, j, Len(s))
<1>1. /\ Len(s) \in Nat /\ \A k \in 1..Len(s) : s[k] \in T /\ j \in Int
  BY LenProperties, ElementOfSeq
<1>2. /\ a \in Seq(T) /\ Len(a) = j - 1
      /\ \A i \in 1..j-1 : a[i] = s[i]
  BY <1>1, SubSeqProperties
<1>3. /\ b \in Seq(T) /\ Len(b) = Len(s) - j + 1
      /\ \A i \in 1..Len(s)-j+1 : b[i] = s[j+i-1]
  BY <1>1, SubSeqProperties
<1> DEFINE c == a \o <<x>>
<1> HIDE DEF a, b
<1>4. /\ c \in Seq(T) /\ Len(c) = j
      /\ \A i \in 1..j-1 : c[i] = s[i]
      /\ c[j] = x
  BY <1>1, <1>2, ConcatProperties, <<x>> \in Seq(T)
<1> HIDE DEF c
<1>5. /\ c \o b \in Seq(T) /\ Len(c \o b) = Len(s) + 1
      /\ \A i \in 1..Len(s)+1 : (c \o b)[i] = IF i <= j THEN c[i] ELSE b[i-j]
  <2>1. /\ c \o b \in Seq(T) /\ Len(c \o b) = Len(c) + Len(b)
        /\ \A i \in 1..Len(c)+Len(b) :
             (c \o b)[i] = IF i <= Len(c) THEN c[i] ELSE b[i-Len(c)]
    BY <1>3, <1>4, ConcatProperties
  <2>2. Len(c) = j /\ Len(c) + Len(b) = Len(s) + 1
    BY <1>1, <1>3, <1>4
  <2> QED
    BY <2>1, <2>2
<1>6. Insert(s, j, x) = c \o b
  BY DEF Insert, a, b, c
<1>7. \A i \in j..Len(s) : b[i+1-j] = s[i]
  BY <1>1, <1>3
<1> QED
  BY <1>1, <1>4, <1>5, <1>6, <1>7

LEMMA EraseElems ==
  ASSUME NEW T, NEW s \in Seq(T), NEW i \in 1..Len(s)
  PROVE  /\ EraseAt(s, i) \in Seq(T)
         /\ Len(EraseAt(s, i)) = Len(s) - 1
         /\ \A k \in 1..i-1 : EraseAt(s, i)[k] = s[k]
         /\ \A k \in i..Len(s)-1 : EraseAt(s, i)[k] = s[k+1]
<1> DEFINE a == SubSeq(s, 1, i-1)
           b == SubSeq(s, i+1, Len(s))
<1>1. /\ Len(s) \in Nat /\ \A k \in 1..Len(s) : s[k] \in T
      /\ i \in Int /\ 1 <= i /\ i <= Len(s)
  BY LenProperties, ElementOfSeq
<1>2. /\ a \in Seq(T) /\ Len(a) = i - 1
      /\ \A k \in 1..i-1 : a[k] = s[k]
  BY <1>1, SubSeqProperties
<1>3. /\ b \in Seq(T) /\ Len(b) = Len(s) - i
      /\ \A k \in 1..Len(s)-i : b[k] = s[i+k]
  <2>1. \A k \in i+1..Len(s) : s[k] \in T
    BY <1>1
  <2>2. /\ b \in Seq(T)
        /\ Len(b) = IF i+1 <= Len(s) THEN Len(s)-(i+1)+1 ELSE 0
        /\ \A k \in 1..Len(s)-(i+1)+1 : b[k] = s[(i+1)+k-1]
    BY <1>1, <2>1, SubSeqProperties
  <2> HIDE DEF b
  <2>3. Len(b) = Len(s) - i
    <3>1. CASE i + 1 <= Len(s)
      BY <1>1, <2>2, <3>1
    <3>2. CASE i = Len(s)
      BY <1>1, <2>2, <3>2
    <3>3. i + 1 <= Len(s) \/ i = Len(s)
      BY <1>1
    <3> QED
      BY <3>1, <3>2, <3>3
  <2>4. \A k \in 1..Len(s)-i : k \in 1..Len(s)-(i+1)+1 /\ (i+1)+k-1 = i+k
    BY <1>1
  <2> QED
    BY <2>2, <2>3, <2>4
<1> HIDE DEF a, b
<1>4. /\ a \o b \in Seq(T) /\ Len(a \o b) = Len(s) - 1
      /\ \A k \in 1..Len(s)-1 : (a \o b)[k] = IF k <= i-1 THEN a[k] ELSE b[k-i+1]
  <2>1. /\ a \o b \in Seq(T) /\ Len(a \o b) = Len(a) + Len(b)
        /\ \A k \in 1..Len(a)+Len(b) :
             (a \o b)[k] = IF k <= Len(a) THEN a[k] ELSE b[k-Len(a)]
    BY <1>2, <1>3, ConcatProperties
  <2>2. Len(a) = i - 1 /\ Len(a) + Len(b) = Len(s) - 1
    BY <1>1, <1>2, <1>3
  <2>3. \A k \in 1..Len(s)-1 : k - Len(a) = k - i + 1 /\ (k <= Len(a) <=> k <= i-1)
    BY <1>1, <2>2
  <2>4. 1..Len(a)+Len(b) = 1..Len(s)-1
    BY <2>2
  <2> QED
    BY <2>1, <2>2, <2>3, <2>4
<1>5. EraseAt(s, i) = a \o b
  BY DEF EraseAt, a, b
<1>6. \A k \in i..Len(s)-1 : (a \o b)[k] = s[k+1]
  <2> SUFFICES ASSUME NEW k \in i..Len(s)-1
               PROVE  (a \o b)[k] = s[k+1]
    OBVIOUS
  <2>1. /\ k \in 1..Len(s)-1 /\ ~(k <= i-1)
        /\ k-i+1 \in 1..Len(s)-i /\ i+(k-i+1) = k+1
    BY <1>1
  <2> QED
    BY <1>3, <1>4, <2>1
<1>7. \A k \in 1..i-1 : k \in 1..Len(s)-1 /\ k <= i-1
  BY <1>1
<1> QED
  BY <1>2, <1>4, <1>5, <1>6, <1>7

LEMMA PopAppend ==
  ASSUME NEW T, NEW s \in Seq(T), NEW x \in T
  PROVE  SubSeq(Append(s, x), 1, Len(Append(s, x)) - 1) = s
<1> DEFINE a == Append(s, x)
           b == SubSeq(a, 1, Len(a) - 1)
<1>1. /\ Len(s) \in Nat /\ a \in Seq(T) /\ Len(a) = Len(s) + 1
      /\ \A i \in 1..Len(s) : a[i] = s[i] /\ s[i] \in T
  BY AppendElems, LenProperties
<1> HIDE DEF a
<1>2. b \in Seq(T) /\ Len(b) = Len(s) /\ \A i \in 1..Len(s) : b[i] = s[i]
  BY <1>1, SubSeqProperties
<1> HIDE DEF b
<1>3. b = s
  BY <1>2, SeqEqual
<1> QED
  BY <1>3 DEF a, b

(* R orders the elements of S strictly and totally.                        *)
StrictOrder(S, R) ==
  /\ \A x \in S : <<x, x>> \notin R
  /\ \A x, y \in S : x # y => <<x, y>> \in R \/ <<y, x>> \in R
  /\ \A x, y, z \in S : <<x, y>> \in R /\ <<y, z>> \in R => <<x, z>> \in R

(* The sequence s lists the n elements of S in the order R: the k-th is    *)
(* the one with k-1 elements before it.                                    *)
Lists(s, n, S, R) ==
  /\ n \in Nat
  /\ DOMAIN s = 1..n
  /\ \A k \in 1..n : s[k] \in S /\ Cardinality({y \in S : <<y, s[k]>> \in R}) = k - 1
  /\ \A x \in S : LET k == Cardinality({y \in S : <<y, x>> \in R}) + 1
                  IN  k \in 1..n /\ s[k] = x

LEMMA RankedOrder ==
  ASSUME NEW S, IsFiniteSet(S), NEW R, StrictOrder(S, R)
  PROVE  Lists(Ranked(S, R), Cardinality(S), S, R)
<1> USE DEF StrictOrder
<1> DEFINE below(x) == {y \in S : <<y, x>> \in R}
           rank(x) == Cardinality(below(x))
           n == Cardinality(S)
<1>1. n \in Nat
  BY FS_CardinalityType
<1>2. \A x \in S : rank(x) \in 0..n-1
  <2> TAKE x \in S
  <2>1. below(x) \in SUBSET (S \ {x})
    OBVIOUS
  <2>2. IsFiniteSet(S \ {x}) /\ Cardinality(S \ {x}) = n - 1
    BY FS_RemoveElement
  <2> HIDE DEF below
  <2>3. IsFiniteSet(below(x)) /\ rank(x) <= Cardinality(S \ {x})
    BY <2>1, <2>2, FS_Subset
  <2>4. rank(x) \in Nat
    BY <2>3, FS_CardinalityType
  <2> QED
    BY <1>1, <2>2, <2>3, <2>4
<1>3. ASSUME NEW x \in S, NEW y \in S, <<x, y>> \in R
      PROVE  rank(x) # rank(y)
  <2>1. below(x) \in SUBSET below(y) /\ below(x) # below(y)
    BY <1>3
  <2>2. IsFiniteSet(below(y))
    BY FS_Subset
  <2> HIDE DEF below
  <2>3. Cardinality(below(x)) = Cardinality(below(y)) => below(x) = below(y)
    BY <2>1, <2>2, FS_Subset
  <2> QED
    BY <2>1, <2>3
<1> HIDE DEF rank
<1>4. \A x, y \in S : rank(x) = rank(y) => x = y
  BY <1>3
<1> DEFINE f == [x \in S |-> rank(x) + 1]
<1>5. f \in Injection(S, 1..n)
  <2>1. f \in [S -> 1..n]
    BY <1>1, <1>2
  <2>2. \A x, y \in S : f[x] = f[y] => x = y
    <3> SUFFICES ASSUME NEW x \in S, NEW y \in S, f[x] = f[y]
                 PROVE  x = y
      OBVIOUS
    <3>1. rank(x) + 1 = rank(y) + 1
      OBVIOUS
    <3>2. rank(x) \in Int /\ rank(y) \in Int
      BY <1>1, <1>2
    <3>3. rank(x) = rank(y)
      BY <3>1, <3>2
    <3> QED
      BY <1>4, <3>3
  <2> QED
    BY <2>1, <2>2, Fun_IsInj
<1>6. IsFiniteSet(1..n) /\ Cardinality(1..n) = n
  BY <1>1, FS_Interval
<1>7. f \in Surjection(S, 1..n)
  BY <1>5, <1>6, FS_Injection
<1>8. \A k \in 1..n : \E x \in S : f[x] = k
  <2> HIDE DEF f
  <2> QED
    BY <1>7, Fun_SurjectionProperties, ZenonT(60)
<1>9. \A k \in 1..n : \E x \in S : rank(x) = k - 1
  <2> SUFFICES ASSUME NEW k \in 1..n
               PROVE  \E x \in S : rank(x) = k - 1
    OBVIOUS
  <2>1. PICK x \in S : f[x] = k
    BY <1>8
  <2>2. rank(x) + 1 = k /\ rank(x) \in Int /\ k \in Int
    BY <1>1, <1>2, <2>1
  <2>3. rank(x) = k - 1
    BY <2>2
  <2> QED
    BY <2>3
<1>10. \A k \in 1..n : /\ Ranked(S, R)[k] \in S
                       /\ rank(Ranked(S, R)[k]) = k - 1
  BY <1>9 DEF Ranked, rank
<1>11. \A x \in S : /\ rank(x) + 1 \in 1..n
                    /\ Ranked(S, R)[rank(x) + 1] = x
  <2> TAKE x \in S
  <2>1. rank(x) + 1 \in 1..n /\ (rank(x) + 1) - 1 = rank(x)
    BY <1>1, <1>2
  <2> DEFINE y == Ranked(S, R)[rank(x) + 1]
  <2>2. y \in S /\ rank(y) = rank(x)
    BY <1>10, <2>1
  <2> QED
    BY <1>4, <2>1, <2>2
<1>12. DOMAIN Ranked(S, R) = 1..n
  BY DEF Ranked
<1> QED
  BY <1>1, <1>10, <1>11, <1>12 DEF rank, Lists

LEMMA WithoutElems ==
  ASSUME NEW T, NEW s \in Seq(T), NEW D
  PROVE  /\ Without(s, D) \in Seq(T)
         /\ \A k \in 1..Len(Without(s, D)) :
              \E i \in 1..Len(s) : Without(s, D)[k] = s[i] /\ s[i] \notin D
         /\ \A i \in 1..Len(s) : s[i] \notin D =>
              \E k \in 1..Len(Without(s, D)) : Without(s, D)[k] = s[i]
         /\ (\A i, j \in 1..Len(s) : s[i] = s[j] => i = j)
              => \A k, l \in 1..Len(Without(s, D)) :
                   Without(s, D)[k] = Without(s, D)[l] => k = l
<1> DEFINE kept == {i \in 1..Len(s) : s[i] \notin D}
           R == {p \in kept \X kept : p[1] < p[2]}
           pos == Ranked(kept, R)
           n == Cardinality(kept)
           W == [k \in 1..n |-> s[pos[k]]]
<1>1. Len(s) \in Nat /\ \A i \in 1..Len(s) : s[i] \in T
  BY LenProperties, ElementOfSeq
<1>2. IsFiniteSet(kept)
  <2>1. IsFiniteSet(1..Len(s)) /\ kept \in SUBSET (1..Len(s))
    BY <1>1, FS_Interval
  <2> HIDE DEF kept
  <2> QED
    BY <2>1, FS_Subset
<1>3. \A x, y \in kept : <<x, y>> \in R <=> x < y
  OBVIOUS
<1>4. \A x \in kept : x \in Int
  BY <1>1
<1>5. StrictOrder(kept, R)
  <2> HIDE DEF kept, R
  <2> QED
    BY <1>3, <1>4 DEF StrictOrder
<1>6. /\ n \in Nat
      /\ \A k \in 1..n : pos[k] \in kept
      /\ \A k \in 1..n : Cardinality({y \in kept : <<y, pos[k]>> \in R}) = k - 1
      /\ \A i \in kept : \E k \in 1..n : pos[k] = i
  <2>1. Lists(pos, n, kept, R)
    BY <1>2, <1>5, RankedOrder
  <2> HIDE DEF kept, R, pos, n
  <2> QED
    BY <2>1 DEF Lists
<1>7. \A k, l \in 1..n : pos[k] = pos[l] => k = l
  <2> SUFFICES ASSUME NEW k \in 1..n, NEW l \in 1..n, pos[k] = pos[l]
               PROVE  k = l
    OBVIOUS
  <2>1. k - 1 = l - 1
    BY <1>6
  <2> QED
    BY <1>6, <2>1
<1> HIDE DEF pos
<1>8. W = Without(s, D)
  BY DEF Without, pos
<1>9. W \in Seq(T) /\ Len(W) = n
  <2> HIDE DEF n
  <2>1. \A k \in 1..n : s[pos[k]] \in T
    BY <1>1, <1>6
  <2>2. W \in [1..n -> T]
    BY <2>1
  <2> QED
    BY <1>6, <2>2
<1>10. \A k \in 1..n : W[k] = s[pos[k]]
  OBVIOUS
<1> HIDE DEF W, n
<1>11. \A k \in 1..n : \E i \in 1..Len(s) : W[k] = s[i] /\ s[i] \notin D
  BY <1>6, <1>10
<1>12. \A i \in 1..Len(s) : s[i] \notin D => \E k \in 1..n : W[k] = s[i]
  BY <1>6, <1>10
<1>13. ASSUME \A i, j \in 1..Len(s) : s[i] = s[j] => i = j
       PROVE  \A k, l \in 1..n : W[k] = W[l] => k = l
  BY <1>6, <1>7, <1>10, <1>13, SMTT(40)
<1> QED
  BY <1>8, <1>9, <1>11, <1>12, <1>13, SMTT(40)

-----------------------------------------------------------------------------
(* The elements of a sequence and their being different.                   *)

LEMMA EmptySet ==
  Elems(<< >>) = {} /\ NoDuplicates(<< >>)
BY DEF Elems, NoDuplicates

LEMMA AppendSet ==
  ASSUME NEW T, NEW s \in Seq(T), NEW x \in T
  PROVE  /\ Append(s, x) \in Seq(T)
         /\ Elems(Append(s, x)) = Elems(s) \cup {x}
         /\ NoDuplicates(s) /\ x \notin Elems(s) => NoDuplicates(Append(s, x))
<1> DEFINE u == Append(s, x)
<1>1. /\ Len(s) \in Nat /\ u \in Seq(T) /\ Len(u) = Len(s) + 1
      /\ \A i \in 1..Len(s) : u[i] = s[i]
      /\ u[Len(s) + 1] = x
  BY AppendElems, LenProperties
<1> HIDE DEF u
<1>2. \A i \in 1..Len(u) : i \in 1..Len(s) \/ i = Len(s) + 1
  BY <1>1
<1>3. Elems(u) = Elems(s) \cup {x}
  BY <1>1, <1>2 DEF Elems
<1>4. NoDuplicates(s) /\ x \notin Elems(s) => NoDuplicates(u)
  BY <1>1, <1>2 DEF NoDuplicates, Elems
<1> QED
  BY <1>1, <1>3, <1>4 DEF u

LEMMA ConcatSet ==
  ASSUME NEW T, NEW s \in Seq(T), NEW t \in Seq(T)
  PROVE  /\ s \o t \in Seq(T)
         /\ Elems(s \o t) = Elems(s) \cup Elems(t)
         /\ NoDuplicates(s) /\ NoDuplicates(t) /\ Elems(s) \cap Elems(t) = {}
              => NoDuplicates(s \o t)
<1> DEFINE u == s \o t
<1>1. /\ Len(s) \in Nat /\ Len(t) \in Nat
      /\ u \in Seq(T) /\ Len(u) = Len(s) + Len(t)
      /\ \A i \in 1..Len(s) + Len(t) : u[i] = IF i <= Len(s) THEN s[i] ELSE t[i - Len(s)]
  BY ConcatProperties, LenProperties
<1> HIDE DEF u
<1>2. \A i \in 1..Len(u) : \/ i \in 1..Len(s) /\ u[i] = s[i]
                           \/ i - Len(s) \in 1..Len(t) /\ u[i] = t[i - Len(s)]
  BY <1>1
<1>3. \A i \in 1..Len(s) : i \in 1..Len(u) /\ u[i] = s[i]
  BY <1>1
<1>4. \A i \in 1..Len(t) : i + Len(s) \in 1..Len(u) /\ u[i + Len(s)] = t[i]
  BY <1>1
<1>5. Elems(u) = Elems(s) \cup Elems(t)
  BY <1>2, <1>3, <1>4, SMTT(40) DEF Elems
<1>6. ASSUME NoDuplicates(s), NoDuplicates(t), Elems(s) \cap Elems(t) = {}
      PROVE  NoDuplicates(u)
  <2> SUFFICES ASSUME NEW i \in 1..Len(u), NEW j \in 1..Len(u), u[i] = u[j]
               PROVE  i = j
    BY DEF NoDuplicates
  <2>1. CASE i \in 1..Len(s) /\ j \in 1..Len(s)
    BY <1>3, <1>6, <2>1 DEF NoDuplicates
  <2>2. CASE i \notin 1..Len(s) /\ j \notin 1..Len(s)
    <3>1. i - Len(s) \in 1..Len(t) /\ j - Len(s) \in 1..Len(t)
      BY <1>2, <2>2
    <3>2. i - Len(s) = j - Len(s)
      BY <1>2, <1>6, <2>2, <3>1 DEF NoDuplicates
    <3> QED
      BY <1>1, <3>2
  <2>3. ASSUME NEW k \in 1..Len(u), k \in 1..Len(s), NEW l \in 1..Len(u), l \notin 1..Len(s)
        PROVE  u[k] # u[l]
    <3>1. u[k] \in Elems(s)
      BY <1>3, <2>3 DEF Elems
    <3>2. u[l] \in Elems(t)
      BY <1>2, <2>3 DEF Elems
    <3> QED
      BY <1>6, <3>1, <3>2
  <2> QED
    BY <2>1, <2>2, <2>3
<1> QED
  BY <1>1, <1>5, <1>6 DEF u

LEMMA InsertSet ==
  ASSUME NEW T, NEW s \in Seq(T), NEW x \in T, NEW j \in 1..Len(s)+1
  PROVE  /\ Insert(s, j, x) \in Seq(T)
         /\ Elems(Insert(s, j, x)) = Elems(s) \cup {x}
         /\ NoDuplicates(s) /\ x \notin Elems(s) => NoDuplicates(Insert(s, j, x))
<1> DEFINE u == Insert(s, j, x)
<1>1. /\ Len(s) \in Nat /\ j \in Int /\ u \in Seq(T) /\ Len(u) = Len(s) + 1
      /\ \A i \in 1..j-1 : u[i] = s[i]
      /\ u[j] = x
      /\ \A i \in j..Len(s) : u[i+1] = s[i]
  BY InsertElems, LenProperties
<1> HIDE DEF u
<1>2. \A i \in 1..Len(u) : \/ i < j /\ i \in 1..Len(s) /\ u[i] = s[i]
                           \/ i = j /\ u[i] = x
                           \/ i > j /\ i-1 \in 1..Len(s) /\ u[i] = s[i-1]
  <2> SUFFICES ASSUME NEW i \in 1..Len(u), i > j
               PROVE  i-1 \in 1..Len(s) /\ u[i] = s[i-1]
    BY <1>1
  <2>1. i-1 \in j..Len(s) /\ i-1 \in 1..Len(s) /\ (i-1)+1 = i
    BY <1>1
  <2> QED
    BY <1>1, <2>1
<1>3. \A i \in 1..Len(s) : \E k \in 1..Len(u) : u[k] = s[i]
  <2> SUFFICES ASSUME NEW i \in 1..Len(s)
               PROVE  \E k \in 1..Len(u) : u[k] = s[i]
    OBVIOUS
  <2>1. CASE i < j
    BY <1>1, <2>1
  <2>2. CASE i >= j
    BY <1>1, <2>2, i + 1 \in 1..Len(u), i \in j..Len(s)
  <2> QED
    BY <1>1, <2>1, <2>2
<1>4. j \in 1..Len(u)
  BY <1>1
<1>5. Elems(u) = Elems(s) \cup {x}
  <2>1. Elems(u) \subseteq Elems(s) \cup {x}
    <3> SUFFICES ASSUME NEW i \in 1..Len(u)
                 PROVE  u[i] \in Elems(s) \cup {x}
      BY DEF Elems
    <3> QED
      BY <1>2 DEF Elems
  <2>2. x \in Elems(u)
    BY <1>1, <1>4 DEF Elems
  <2>3. Elems(s) \subseteq Elems(u)
    BY <1>3 DEF Elems
  <2> QED
    BY <2>1, <2>2, <2>3
<1>6. ASSUME NoDuplicates(s), x \notin Elems(s)
      PROVE  NoDuplicates(u)
  <2>1. \A i \in 1..Len(s) : s[i] # x
    BY <1>6 DEF Elems
  <2>2. \A i, k \in 1..Len(s) : s[i] = s[k] => i = k
    BY <1>6 DEF NoDuplicates
  <2> SUFFICES ASSUME NEW i \in 1..Len(u), NEW k \in 1..Len(u), u[i] = u[k]
               PROVE  i = k
    BY DEF NoDuplicates
  <2>3. i \in Int /\ k \in Int
    BY <1>1
  <2>4. CASE i = j \/ k = j
    BY <1>2, <2>1, <2>4, SMTT(40)
  <2>5. CASE i < j /\ k < j
    BY <1>1, <1>2, <2>2, <2>3, <2>5
  <2>6. CASE i > j /\ k > j
    <3>1. /\ i-1 \in 1..Len(s) /\ u[i] = s[i-1]
          /\ k-1 \in 1..Len(s) /\ u[k] = s[k-1]
      BY <1>1, <1>2, <2>3, <2>6
    <3>2. i - 1 = k - 1
      BY <2>2, <3>1
    <3> QED
      BY <2>3, <3>2
  <2>7. CASE i < j /\ k > j
    BY <1>1, <1>2, <2>2, <2>3, <2>7
  <2>8. CASE i > j /\ k < j
    BY <1>1, <1>2, <2>2, <2>3, <2>8
  <2> QED
    BY <1>1, <2>3, <2>4, <2>5, <2>6, <2>7, <2>8
<1> QED
  BY <1>1, <1>5, <1>6 DEF u

LEMMA EraseSet ==
  ASSUME NEW T, NEW s \in Seq(T), NEW i \in 1..Len(s), NoDuplicates(s)
  PROVE  /\ EraseAt(s, i) \in Seq(T)
         /\ Elems(EraseAt(s, i)) = Elems(s) \ {s[i]}
         /\ NoDuplicates(EraseAt(s, i))
<1> DEFINE u == EraseAt(s, i)
<1>1. /\ Len(s) \in Nat /\ i \in Int /\ 1 <= i /\ i <= Len(s)
      /\ u \in Seq(T) /\ Len(u) = Len(s) - 1
      /\ \A k \in 1..i-1 : u[k] = s[k]
      /\ \A k \in i..Len(s)-1 : u[k] = s[k+1]
  <2>1. Len(s) \in Nat
    BY LenProperties
  <2>2. i \in Int /\ 1 <= i /\ i <= Len(s)
    BY <2>1
  <2> QED
    BY <2>1, <2>2, EraseElems
<1> HIDE DEF u
<1>2. \A k \in 1..Len(u) : \/ k < i /\ k \in 1..Len(s) /\ u[k] = s[k]
                           \/ k >= i /\ k+1 \in 1..Len(s) /\ u[k] = s[k+1]
  BY <1>1
<1>3. \A k, l \in 1..Len(s) : s[k] = s[l] => k = l
  BY DEF NoDuplicates
<1>4. Elems(u) \subseteq Elems(s) \ {s[i]}
  <2> SUFFICES ASSUME NEW k \in 1..Len(u)
               PROVE  u[k] \in Elems(s) /\ u[k] # s[i]
    BY DEF Elems
  <2>1. CASE k < i /\ k \in 1..Len(s) /\ u[k] = s[k]
    BY <1>1, <1>3, <2>1 DEF Elems
  <2>2. CASE k >= i /\ k+1 \in 1..Len(s) /\ u[k] = s[k+1]
    <3>1. k + 1 # i
      BY <1>1, <2>2
    <3> QED
      BY <1>3, <2>2, <3>1 DEF Elems
  <2> QED
    BY <1>2, <2>1, <2>2
<1>5. Elems(s) \ {s[i]} \subseteq Elems(u)
  <2> SUFFICES ASSUME NEW k \in 1..Len(s), k # i
               PROVE  s[k] \in Elems(u)
    BY DEF Elems
  <2>1. CASE k < i
    BY <1>1, <2>1, k \in 1..Len(u) DEF Elems
  <2>2. CASE k > i
    <3>1. k-1 \in i..Len(s)-1 /\ k-1 \in 1..Len(u) /\ (k-1)+1 = k
      BY <1>1, <2>2
    <3>2. u[k-1] = s[k]
      BY <1>1, <3>1
    <3> QED
      BY <3>1, <3>2 DEF Elems
  <2> QED
    BY <1>1, <2>1, <2>2
<1>6. NoDuplicates(u)
  <2> SUFFICES ASSUME NEW k \in 1..Len(u), NEW l \in 1..Len(u), u[k] = u[l]
               PROVE  k = l
    BY DEF NoDuplicates
  <2>1. k \in Int /\ l \in Int
    BY <1>1
  <2>2. CASE k < i /\ l < i
    BY <1>2, <1>3, <2>1, <2>2, <1>1
  <2>3. CASE k >= i /\ l >= i
    <3>1. k + 1 = l + 1
      BY <1>1, <1>2, <1>3, <2>1, <2>3
    <3> QED
      BY <2>1, <3>1
  <2>4. CASE k < i /\ l >= i
    <3>1. k = l + 1
      BY <1>1, <1>2, <1>3, <2>1, <2>4
    <3> QED
      BY <1>1, <2>1, <2>4, <3>1
  <2>5. CASE k >= i /\ l < i
    <3>1. k + 1 = l
      BY <1>1, <1>2, <1>3, <2>1, <2>5
    <3> QED
      BY <1>1, <2>1, <2>5, <3>1
  <2> QED
    BY <1>1, <2>1, <2>2, <2>3, <2>4, <2>5
<1> QED
  BY <1>1, <1>4, <1>5, <1>6 DEF u

LEMMA FindIndex ==
  ASSUME NEW T, NEW s \in Seq(T), NoDuplicates(s), NEW x \in Elems(s)
  PROVE  Find(s, x) \in 1..Len(s) /\ s[Find(s, x)] = x
<1>1. Len(s) \in Nat
  BY LenProperties
<1>2. PICK i \in 1..Len(s) : s[i] = x
  BY DEF Elems
<1>3. \A j \in 1..i-1 : j \in 1..Len(s) /\ j # i
  BY <1>1
<1>4. \A j \in 1..i-1 : s[j] # x
  BY <1>2, <1>3 DEF NoDuplicates
<1> QED
  BY <1>2, <1>4 DEF Find

(* Moving x from position i to before position j, as xorn_relocate_object  *)
(* does within one vector.                                                 *)
LEMMA MoveSet ==
  ASSUME NEW T, NEW s \in Seq(T), NoDuplicates(s),
         NEW i \in 1..Len(s), NEW j \in 1..Len(s)+1
  PROVE  LET u == EraseAt(Insert(s, j, s[i]), IF j <= i THEN i + 1 ELSE i)
         IN  u \in Seq(T) /\ Elems(u) = Elems(s) /\ NoDuplicates(u)
<1> DEFINE x == s[i]
           v == Insert(s, j, x)
           pos == IF j <= i THEN i + 1 ELSE i
           u == EraseAt(v, pos)
           g(k) == IF j <= i
                     THEN IF k = j THEN i ELSE IF j < k /\ k <= i THEN k-1 ELSE k
                     ELSE IF k = j-1 THEN i ELSE IF i <= k /\ k < j-1 THEN k+1 ELSE k
<1>1. /\ Len(s) \in Nat /\ x \in T
  BY LenProperties, ElementOfSeq
<1>2. i \in Int /\ 1 <= i /\ i <= Len(s) /\ j \in Int /\ 1 <= j /\ j <= Len(s) + 1
  BY <1>1
<1>3. /\ v \in Seq(T) /\ Len(v) = Len(s) + 1
      /\ \A k \in 1..j-1 : v[k] = s[k]
      /\ v[j] = x
      /\ \A k \in j..Len(s) : v[k+1] = s[k]
  <2> HIDE DEF x
  <2>1. s \in Seq(T) /\ x \in T /\ j \in 1..Len(s)+1
    BY <1>1
  <2>2. /\ Insert(s, j, x) \in Seq(T)
        /\ Len(Insert(s, j, x)) = Len(s) + 1
        /\ \A k \in 1..j-1 : Insert(s, j, x)[k] = s[k]
        /\ Insert(s, j, x)[j] = x
        /\ \A k \in j..Len(s) : Insert(s, j, x)[k+1] = s[k]
    BY <2>1, InsertElems
  <2> QED
    BY <2>2
<1>4. pos \in 1..Len(v)
  BY <1>1, <1>2, <1>3
<1> HIDE DEF v
<1>5. /\ u \in Seq(T) /\ Len(u) = Len(s)
      /\ \A k \in 1..pos-1 : u[k] = v[k]
      /\ \A k \in pos..Len(s) : u[k] = v[k+1]
  <2>1. /\ u \in Seq(T) /\ Len(u) = Len(v) - 1
        /\ \A k \in 1..pos-1 : u[k] = v[k]
        /\ \A k \in pos..Len(v)-1 : u[k] = v[k+1]
    <3> HIDE DEF pos
    <3> QED
      BY <1>3, <1>4, EraseElems
  <2>2. Len(v) - 1 = Len(s)
    BY <1>1, <1>3
  <2> QED
    BY <2>1, <2>2
<1> HIDE DEF u
<1>6. ASSUME NEW k \in 1..Len(s)
      PROVE  g(k) \in 1..Len(s) /\ u[k] = s[g(k)]
  <2>1. k \in Int /\ 1 <= k /\ k <= Len(s)
    BY <1>1
  <2>2. CASE j <= i
    <3>1. pos = i + 1
      BY <2>2
    <3>2. CASE k < j
      BY <1>1, <1>2, <1>3, <1>5, <2>1, <2>2, <3>1, <3>2, k \in 1..pos-1, k \in 1..j-1
    <3>3. CASE k = j
      BY <1>1, <1>2, <1>3, <1>5, <2>1, <2>2, <3>1, <3>3, k \in 1..pos-1
    <3>4. CASE j < k /\ k <= i
      <4>1. k \in 1..pos-1 /\ k-1 \in j..Len(s) /\ (k-1)+1 = k
        BY <1>1, <1>2, <2>1, <2>2, <3>1, <3>4
      <4>2. u[k] = s[k-1]
        BY <1>3, <1>5, <4>1, ZenonT(60)
      <4> QED
        BY <1>1, <1>2, <2>1, <2>2, <3>4, <4>2
    <3>5. CASE k > i
      <4>1. k \in pos..Len(s) /\ k \in j..Len(s)
        BY <1>1, <1>2, <2>1, <2>2, <3>1, <3>5
      <4>2. u[k] = s[k]
        BY <1>3, <1>5, <4>1
      <4> QED
        BY <1>1, <1>2, <2>1, <2>2, <3>5, <4>2
    <3> QED
      BY <1>2, <2>1, <3>2, <3>3, <3>4, <3>5
  <2>3. CASE ~(j <= i)
    <3>1. pos = i
      BY <2>3
    <3>2. CASE k < i
      BY <1>1, <1>2, <1>3, <1>5, <2>1, <2>3, <3>1, <3>2, k \in 1..pos-1, k \in 1..j-1
    <3>3. CASE k = j-1
      <4>1. k \in pos..Len(s) /\ k + 1 = j
        BY <1>1, <1>2, <2>1, <2>3, <3>1, <3>3
      <4> QED
        BY <1>1, <1>2, <1>3, <1>5, <2>1, <2>3, <3>3, <4>1
    <3>4. CASE i <= k /\ k < j-1
      <4>1. k \in pos..Len(s) /\ k+1 \in 1..j-1
        BY <1>1, <1>2, <2>1, <2>3, <3>1, <3>4
      <4>2. u[k] = s[k+1]
        BY <1>3, <1>5, <4>1
      <4> QED
        BY <1>1, <1>2, <2>1, <2>3, <3>4, <4>2
    <3>5. CASE k > j-1
      <4>1. k \in pos..Len(s) /\ k \in j..Len(s)
        BY <1>1, <1>2, <2>1, <2>3, <3>1, <3>5
      <4>2. u[k] = s[k]
        BY <1>3, <1>5, <4>1
      <4> QED
        BY <1>1, <1>2, <2>1, <2>3, <3>5, <4>2
    <3> QED
      BY <1>2, <2>1, <3>2, <3>3, <3>4, <3>5
  <2> QED
    BY <2>2, <2>3
<1>7. \A k, l \in 1..Len(s) : g(k) = g(l) => k = l
  BY <1>1, <1>2
<1>8. \A m \in 1..Len(s) : \E k \in 1..Len(s) : g(k) = m
  <2> SUFFICES ASSUME NEW m \in 1..Len(s)
               PROVE  \E k \in 1..Len(s) : g(k) = m
    OBVIOUS
  <2> DEFINE k == IF j <= i
                    THEN IF m = i THEN j ELSE IF j <= m /\ m < i THEN m+1 ELSE m
                    ELSE IF m = i THEN j-1 ELSE IF i < m /\ m <= j-1 THEN m-1 ELSE m
  <2>1. k \in 1..Len(s) /\ g(k) = m
    BY <1>1, <1>2
  <2> QED
    BY <2>1
<1> HIDE DEF g
<1>9. Elems(u) = Elems(s)
  <2>1. ASSUME NEW k \in 1..Len(u) PROVE u[k] \in Elems(s)
    <3>1. k \in 1..Len(s)
      BY <1>5
    <3> QED
      BY <1>6, <3>1 DEF Elems
  <2>2. ASSUME NEW m \in 1..Len(s) PROVE s[m] \in Elems(u)
    <3>1. PICK k \in 1..Len(s) : g(k) = m
      BY <1>8
    <3>2. k \in 1..Len(u) /\ u[k] = s[m]
      BY <1>5, <1>6, <3>1
    <3> QED
      BY <3>2 DEF Elems
  <2> QED
    BY <2>1, <2>2 DEF Elems
<1>10. NoDuplicates(u)
  <2> SUFFICES ASSUME NEW k \in 1..Len(u), NEW l \in 1..Len(u), u[k] = u[l]
               PROVE  k = l
    BY DEF NoDuplicates
  <2>1. k \in 1..Len(s) /\ l \in 1..Len(s)
    BY <1>5
  <2>2. /\ g(k) \in 1..Len(s) /\ u[k] = s[g(k)]
        /\ g(l) \in 1..Len(s) /\ u[l] = s[g(l)]
    BY <1>6, <2>1
  <2>3. g(k) = g(l)
    BY <2>2 DEF NoDuplicates
  <2> QED
    BY <1>7, <2>1, <2>3
<1> QED
  BY <1>5, <1>9, <1>10 DEF u, v, pos, x

-----------------------------------------------------------------------------
(* The inductive invariant.                                                *)

\* The maps of a revision have their types and describe one forest.
TypedForest(obs, pa, ch) ==
  /\ obs \subseteq Objects
  /\ IsMap(pa, Objects, Objects \cup {Null})
  /\ IsMap(ch, Objects \cup {Null}, Seq(Objects))
  /\ IsForest(obs, pa, ch)

\* A freed revision holds no references.
FreedEmpty == \A r \in Revs \ live : DOMAIN obstates[r] = {}

\* An object state that is counted is allocated.
CountedAllocated == \A c \in Cells : refcnt[c] > 0 => content[c] \in ObData

\* No revision holds an object that was never handed out.
NumberedObjects == \A r \in Revs : DOMAIN obstates[r] \subseteq 1..next_object_id

StorageInv ==
  /\ TypeOK
  /\ TreeConsistent
  /\ AttachmentsTyped
  /\ RefcountExact
  /\ FreedEmpty
  /\ CountedAllocated
  /\ NumberedObjects

LEMMA InitInv == Init => StorageInv
<1> SUFFICES ASSUME Init PROVE StorageInv
  OBVIOUS
<1> USE StorageAssumption DEF Init, EmptyMap
<1>1. TypeOK
  <2>1. \A r \in Revs : /\ IsMap(obstates[r], Objects, Cells)
                        /\ IsMap(parent[r], Objects, Objects \cup {Null})
                        /\ IsMap(children[r], Objects \cup {Null}, Seq(Objects))
    BY DEF IsMap
  <2>2. /\ live \subseteq Revs /\ is_transient \in [Revs -> BOOLEAN]
        /\ next_object_id \in 0..MaxId
        /\ obstates = [r \in Revs |-> obstates[r]]
        /\ parent = [r \in Revs |-> parent[r]]
        /\ children = [r \in Revs |-> children[r]]
    OBVIOUS
  <2>3. refcnt \in [Cells -> Nat] /\ content \in [Cells -> ObData \cup {Freed}]
    OBVIOUS
  <2>4. ret \in Errors \cup {"ok"} /\ aborted \in BOOLEAN
    OBVIOUS
  <2> QED
    BY <2>1, <2>2, <2>3, <2>4 DEF TypeOK
<1>2. TreeConsistent
  BY DEF TreeConsistent, IsForest
<1>3. AttachmentsTyped
  BY DEF AttachmentsTyped
<1>4. RefcountExact
  <2> SUFFICES ASSUME NEW c \in Cells
               PROVE  refcnt[c] = Cardinality(References(c))
    BY DEF RefcountExact
  <2>1. References(c) = {}
    BY DEF References
  <2> QED
    BY <2>1, FS_EmptySet
<1>5. FreedEmpty /\ CountedAllocated /\ NumberedObjects
  BY DEF FreedEmpty, CountedAllocated, NumberedObjects
<1> QED
  BY <1>1, <1>2, <1>3, <1>4, <1>5 DEF StorageInv

-----------------------------------------------------------------------------
(* Maps, and the forest under each operation.                              *)

LEMMA PutMap ==
  ASSUME NEW K, NEW V, NEW map, IsMap(map, K, V), NEW k \in K, NEW v \in V
  PROVE  IsMap(Put(map, k, v), K, V)
BY DEF Put, IsMap

LEMMA DropMap ==
  ASSUME NEW K, NEW V, NEW map, IsMap(map, K, V), NEW D
  PROVE  IsMap(Drop(map, D), K, V)
BY DEF Drop, IsMap

LEMMA MergeMap ==
  ASSUME NEW K, NEW V, NEW f, IsMap(f, K, V), NEW g, IsMap(g, K, V)
  PROVE  IsMap(Merge(f, g), K, V)
BY DEF Merge, IsMap

\* Reading a vector, whether or not there is one.
LEMMA KidsSeq ==
  ASSUME NEW obs, NEW pa, NEW ch, TypedForest(obs, pa, ch), NEW p \in obs \cup {Null}
  PROVE  /\ Kids(ch, p) \in Seq(Objects)
         /\ Elems(Kids(ch, p)) = {ob \in obs : pa[ob] = p}
         /\ NoDuplicates(Kids(ch, p))
<1>1. CASE p \in DOMAIN ch
  BY <1>1 DEF Kids, TypedForest, IsForest, IsMap
<1>2. CASE p \notin DOMAIN ch
  <2>1. Kids(ch, p) = << >> /\ << >> \in Seq(Objects)
    BY <1>2 DEF Kids
  <2>2. {ob \in obs : pa[ob] = p} = {}
    BY <1>2 DEF TypedForest, IsForest
  <2> QED
    BY <2>1, <2>2, EmptySet
<1> QED
  BY <1>1, <1>2

\* ch with the vector at one key replaced.
LEMMA ForestPut ==
  ASSUME NEW obs, NEW pa, NEW ch, TypedForest(obs, pa, ch),
         NEW p \in obs \cup {Null}, NEW s \in Seq(Objects),
         Elems(s) = {ob \in obs : pa[ob] = p}, NoDuplicates(s)
  PROVE  TypedForest(obs, pa, Put(ch, p, s))
<1> DEFINE C == Put(ch, p, s)
<1>1. /\ obs \subseteq Objects /\ IsMap(pa, Objects, Objects \cup {Null})
      /\ IsMap(ch, Objects \cup {Null}, Seq(Objects))
      /\ DOMAIN pa = obs
      /\ DOMAIN ch \subseteq obs \cup {Null}
      /\ \A ob \in obs : pa[ob] \in DOMAIN ch
      /\ \A q \in DOMAIN ch : Elems(ch[q]) = {ob \in obs : pa[ob] = q} /\ NoDuplicates(ch[q])
  BY DEF TypedForest, IsForest
<1>2. p \in Objects \cup {Null}
  BY <1>1
<1>3. /\ IsMap(C, Objects \cup {Null}, Seq(Objects))
      /\ DOMAIN C = DOMAIN ch \cup {p}
      /\ C[p] = s
      /\ \A q \in DOMAIN ch : q # p => C[q] = ch[q]
  <2>1. IsMap(C, Objects \cup {Null}, Seq(Objects))
    BY <1>1, <1>2, PutMap
  <2> QED
    BY <1>1, <2>1 DEF Put
<1> HIDE DEF C
<1>4. \A q \in DOMAIN C : Elems(C[q]) = {ob \in obs : pa[ob] = q} /\ NoDuplicates(C[q])
  BY <1>1, <1>3
<1>5. TypedForest(obs, pa, C)
  BY <1>1, <1>3, <1>4 DEF TypedForest, IsForest
<1> QED
  BY <1>5 DEF C

LEMMA ForestTouch ==
  ASSUME NEW obs, NEW pa, NEW ch, TypedForest(obs, pa, ch), NEW p \in obs \cup {Null}
  PROVE  TypedForest(obs, pa, Touch(ch, p))
BY KidsSeq, ForestPut DEF Touch

LEMMA ForestEnter ==
  ASSUME NEW obs, NEW pa, NEW ch, TypedForest(obs, pa, ch), NEW ob \in Objects \ obs
  PROVE  TypedForest(obs \cup {ob}, Put(pa, ob, Null), PushBack(ch, Null, ob))
<1> DEFINE P == Put(pa, ob, Null)
           s == Append(Kids(ch, Null), ob)
           C == Put(ch, Null, s)
<1>1. /\ obs \subseteq Objects /\ IsMap(pa, Objects, Objects \cup {Null})
      /\ IsMap(ch, Objects \cup {Null}, Seq(Objects))
      /\ DOMAIN pa = obs
      /\ DOMAIN ch \subseteq obs \cup {Null}
      /\ \A x \in obs : pa[x] \in DOMAIN ch
      /\ \A q \in DOMAIN ch : Elems(ch[q]) = {x \in obs : pa[x] = q} /\ NoDuplicates(ch[q])
  BY DEF TypedForest, IsForest
<1>2. /\ IsMap(P, Objects, Objects \cup {Null})
      /\ DOMAIN P = obs \cup {ob}
      /\ P[ob] = Null
      /\ \A x \in obs : P[x] = pa[x]
  <2>1. IsMap(P, Objects, Objects \cup {Null})
    BY <1>1, PutMap, Null \in Objects \cup {Null}, ob \in Objects
  <2> QED
    BY <1>1, <2>1 DEF Put
<1>3. /\ Kids(ch, Null) \in Seq(Objects)
      /\ Elems(Kids(ch, Null)) = {x \in obs : pa[x] = Null}
      /\ NoDuplicates(Kids(ch, Null))
  BY KidsSeq
<1>4. /\ s \in Seq(Objects)
      /\ Elems(s) = {x \in obs : pa[x] = Null} \cup {ob}
      /\ NoDuplicates(s)
  BY <1>3, AppendSet
<1> HIDE DEF s, P
<1>5. /\ IsMap(C, Objects \cup {Null}, Seq(Objects))
      /\ DOMAIN C = DOMAIN ch \cup {Null}
      /\ C[Null] = s
      /\ \A q \in DOMAIN ch : q # Null => C[q] = ch[q]
  <2>1. IsMap(C, Objects \cup {Null}, Seq(Objects))
    BY <1>1, <1>4, PutMap, Null \in Objects \cup {Null}
  <2> QED
    BY <1>1, <2>1 DEF Put
<1> HIDE DEF C
<1>6. ASSUME NEW q \in DOMAIN C
      PROVE  Elems(C[q]) = {x \in obs \cup {ob} : P[x] = q} /\ NoDuplicates(C[q])
  <2>1. CASE q = Null
    BY <1>2, <1>4, <1>5, <2>1
  <2>2. CASE q # Null
    BY <1>1, <1>2, <1>5, <2>2
  <2> QED
    BY <2>1, <2>2
<1>7. /\ obs \cup {ob} \subseteq Objects
      /\ DOMAIN C \subseteq (obs \cup {ob}) \cup {Null}
      /\ \A x \in obs \cup {ob} : P[x] \in DOMAIN C
  BY <1>1, <1>2, <1>5
<1>8. TypedForest(obs \cup {ob}, P, C)
  BY <1>2, <1>5, <1>6, <1>7 DEF TypedForest, IsForest
<1> QED
  BY <1>8 DEF PushBack, P, C, s

\* Undoing the append leaves an empty vector at most.
LEMMA PopPush ==
  ASSUME NEW ch, IsMap(ch, Objects \cup {Null}, Seq(Objects)), NEW p, NEW ob \in Objects
  PROVE  PopBack(PushBack(ch, p, ob), p) = Touch(ch, p)
<1> DEFINE k == Kids(ch, p)
           a == Append(k, ob)
<1>1. k \in Seq(Objects)
  BY DEF Kids, IsMap
<1>2. SubSeq(a, 1, Len(a) - 1) = k
  BY <1>1, PopAppend
<1> HIDE DEF k, a
<1>3. Put(ch, p, a)[p] = a
  BY DEF Put
<1>4. Put(Put(ch, p, a), p, k) = Put(ch, p, k)
  BY DEF Put
<1>5. PushBack(ch, p, ob) = Put(ch, p, a) /\ Touch(ch, p) = Put(ch, p, k)
  BY DEF PushBack, Touch, a, k
<1> QED
  BY <1>2, <1>3, <1>4, <1>5 DEF PopBack

LEMMA DropPut ==
  ASSUME NEW map, NEW K, NEW V, IsMap(map, K, V), NEW k, k \notin DOMAIN map, NEW v
  PROVE  Drop(Put(map, k, v), {k}) = map
<1>1. map = [x \in DOMAIN map |-> map[x]]
  BY DEF IsMap
<1>2. DOMAIN Drop(Put(map, k, v), {k}) = DOMAIN map
  BY DEF Drop, Put
<1>3. Drop(Put(map, k, v), {k}) = [x \in DOMAIN map |-> map[x]]
  BY <1>2 DEF Drop, Put
<1> QED
  BY <1>1, <1>3

LEMMA WithoutSet ==
  ASSUME NEW T, NEW s \in Seq(T), NEW D
  PROVE  /\ Without(s, D) \in Seq(T)
         /\ Elems(Without(s, D)) = Elems(s) \ D
         /\ NoDuplicates(s) => NoDuplicates(Without(s, D))
<1> DEFINE u == Without(s, D)
<1>1. /\ u \in Seq(T)
      /\ \A k \in 1..Len(u) : \E i \in 1..Len(s) : u[k] = s[i] /\ s[i] \notin D
      /\ \A i \in 1..Len(s) : s[i] \notin D => \E k \in 1..Len(u) : u[k] = s[i]
      /\ (\A i, j \in 1..Len(s) : s[i] = s[j] => i = j)
           => \A k, l \in 1..Len(u) : u[k] = u[l] => k = l
  BY WithoutElems
<1> HIDE DEF u
<1>2. Elems(u) = Elems(s) \ D
  <2>1. Elems(u) \subseteq Elems(s) \ D
    BY <1>1 DEF Elems
  <2>2. Elems(s) \ D \subseteq Elems(u)
    <3> SUFFICES ASSUME NEW i \in 1..Len(s), s[i] \notin D
                 PROVE  s[i] \in Elems(u)
      BY DEF Elems
    <3> QED
      BY <1>1 DEF Elems
  <2> QED
    BY <2>1, <2>2
<1>3. NoDuplicates(s) => NoDuplicates(u)
  BY <1>1 DEF NoDuplicates
<1> QED
  BY <1>1, <1>2, <1>3 DEF u

\* Erasing objects with everything attached to them.
LEMMA ForestErase ==
  ASSUME NEW obs, NEW pa, NEW ch, TypedForest(obs, pa, ch),
         NEW D \in SUBSET Objects, \A ob \in obs : pa[ob] \in D => ob \in D
  PROVE  TypedForest(obs \ D, Drop(pa, D), Erase(ch, D))
<1> DEFINE P == Drop(pa, D)
           C == Erase(ch, D)
<1>1. /\ obs \subseteq Objects /\ IsMap(pa, Objects, Objects \cup {Null})
      /\ IsMap(ch, Objects \cup {Null}, Seq(Objects))
      /\ DOMAIN pa = obs
      /\ DOMAIN ch \subseteq obs \cup {Null}
      /\ \A x \in obs : pa[x] \in DOMAIN ch
      /\ \A q \in DOMAIN ch : Elems(ch[q]) = {x \in obs : pa[x] = q} /\ NoDuplicates(ch[q])
  BY DEF TypedForest, IsForest
<1>2. IsMap(P, Objects, Objects \cup {Null})
  BY <1>1, DropMap
<1>3. DOMAIN P = obs \ D /\ \A x \in obs \ D : P[x] = pa[x]
  BY <1>1 DEF Drop
<1>4. \A q \in DOMAIN ch : ch[q] \in Seq(Objects)
  BY <1>1 DEF IsMap
<1>5. \A q \in DOMAIN ch : /\ Without(ch[q], D) \in Seq(Objects)
                           /\ Elems(Without(ch[q], D)) = Elems(ch[q]) \ D
                           /\ NoDuplicates(Without(ch[q], D))
  BY <1>1, <1>4, WithoutSet
<1>6. DOMAIN C = DOMAIN ch \ D /\ \A q \in DOMAIN ch \ D : C[q] = Without(ch[q], D)
  BY DEF Erase
<1>7. IsMap(C, Objects \cup {Null}, Seq(Objects))
  <2>1. DOMAIN C \subseteq Objects \cup {Null}
    BY <1>1, <1>6
  <2>2. C \in [DOMAIN C -> Seq(Objects)]
    <3>1. \A q \in DOMAIN ch \ D : Without(ch[q], D) \in Seq(Objects)
      BY <1>5
    <3> QED
      BY <3>1 DEF Erase
  <2> QED
    BY <2>1, <2>2 DEF IsMap
<1> HIDE DEF P, C
<1>8. Null \notin D
  BY DEF Objects, Null
<1>9. DOMAIN C \subseteq (obs \ D) \cup {Null}
  BY <1>1, <1>6
<1>10. \A x \in obs \ D : P[x] \in DOMAIN C
  BY <1>1, <1>3, <1>6
<1>11. ASSUME NEW q \in DOMAIN C
       PROVE  Elems(C[q]) = {x \in obs \ D : P[x] = q} /\ NoDuplicates(C[q])
  <2>1. q \in DOMAIN ch \ D /\ C[q] = Without(ch[q], D)
    BY <1>6
  <2>2. Elems(C[q]) = {x \in obs : pa[x] = q} \ D
    BY <1>1, <1>5, <2>1
  <2>3. {x \in obs \ D : P[x] = q} = {x \in obs : pa[x] = q} \ D
    BY <1>3
  <2> QED
    BY <1>5, <2>1, <2>2, <2>3
<1>12. TypedForest(obs \ D, P, C)
  BY <1>1, <1>2, <1>3, <1>7, <1>9, <1>10, <1>11 DEF TypedForest, IsForest
<1> QED
  BY <1>12 DEF P, C

\* Relocating an object, within a vector or to another.
LEMMA ForestMove ==
  ASSUME NEW obs, NEW pa, NEW ch, TypedForest(obs, pa, ch),
         NEW ob \in obs, NEW to \in obs \cup {Null},
         NEW before, before = Null \/ before \in Elems(Kids(ch, to))
  PROVE  TypedForest(obs, [pa EXCEPT ![ob] = to], Moved(ch, pa[ob], ob, to, before))
<1> DEFINE from == pa[ob]
           P == [pa EXCEPT ![ob] = to]
           k == Kids(ch, to)
           i == Find(ch[from], ob)
           j == IF before = Null THEN Len(k) + 1 ELSE Find(k, before)
           pos == IF to = from /\ before # Null /\ j <= i THEN i + 1 ELSE i
           s == Insert(k, j, ob)
           inserted == Put(ch, to, s)
           e == EraseAt(inserted[from], pos)
           C == Put(inserted, from, e)
<1>1. /\ obs \subseteq Objects /\ IsMap(pa, Objects, Objects \cup {Null})
      /\ IsMap(ch, Objects \cup {Null}, Seq(Objects))
      /\ DOMAIN pa = obs
      /\ DOMAIN ch \subseteq obs \cup {Null}
      /\ \A x \in obs : pa[x] \in DOMAIN ch
      /\ \A q \in DOMAIN ch : Elems(ch[q]) = {x \in obs : pa[x] = q} /\ NoDuplicates(ch[q])
  BY DEF TypedForest, IsForest
<1>2. Moved(ch, from, ob, to, before) = C
  BY DEF Moved
<1>3. /\ k \in Seq(Objects)
      /\ Elems(k) = {x \in obs : pa[x] = to}
      /\ NoDuplicates(k)
      /\ Len(k) \in Nat
  BY KidsSeq, LenProperties
<1>4. /\ from \in DOMAIN ch /\ ch[from] \in Seq(Objects)
      /\ Elems(ch[from]) = {x \in obs : pa[x] = from}
      /\ NoDuplicates(ch[from])
      /\ Len(ch[from]) \in Nat
  BY <1>1, LenProperties DEF IsMap
<1>5. i \in 1..Len(ch[from]) /\ ch[from][i] = ob
  BY <1>1, <1>4, FindIndex, ob \in Elems(ch[from])
<1>6. j \in 1..Len(k) + 1
  <2>1. CASE before = Null
    BY <1>3, <2>1
  <2>2. CASE before # Null
    <3>1. Find(k, before) \in 1..Len(k)
      BY <1>3, <2>2, FindIndex
    <3> QED
      BY <1>3, <2>2, <3>1
  <2> QED
    BY <2>1, <2>2
<1>7. /\ P = [x \in obs |-> IF x = ob THEN to ELSE pa[x]]
      /\ IsMap(P, Objects, Objects \cup {Null})
  BY <1>1 DEF IsMap
<1>8. CASE to = from
  <2>1. k = ch[from]
    BY <1>4, <1>8 DEF Kids
  <2>2. /\ e \in Seq(Objects) /\ Elems(e) = Elems(k) /\ NoDuplicates(e)
    <3>1. inserted[from] = s
      BY <1>8 DEF Put
    <3>2. i \in 1..Len(k) /\ k[i] = ob
      BY <1>5, <2>1
    <3> HIDE DEF i, k
    <3>3. LET u == EraseAt(Insert(k, j, k[i]), IF j <= i THEN i + 1 ELSE i)
          IN  u \in Seq(Objects) /\ Elems(u) = Elems(k) /\ NoDuplicates(u)
      BY <1>3, <1>6, <3>2, MoveSet
    <3>4. pos = IF j <= i THEN i + 1 ELSE i
      BY <1>3, <1>8, <3>2
    <3>5. e = EraseAt(Insert(k, j, k[i]), IF j <= i THEN i + 1 ELSE i)
      BY <3>1, <3>2, <3>4
    <3> QED
      BY <3>3, <3>5
  <2>3. C = Put(ch, from, e)
    BY <1>8 DEF Put
  <2>4. P = pa
    BY <1>1, <1>8 DEF IsMap
  <2>5. from \in obs \cup {Null}
    BY <1>1, <1>4
  <2>6. Elems(e) = {x \in obs : pa[x] = from}
    BY <1>4, <2>1, <2>2
  <2> HIDE DEF e, C, P
  <2>7. TypedForest(obs, pa, Put(ch, from, e))
    BY <2>2, <2>5, <2>6, ForestPut
  <2> QED
    BY <1>2, <2>3, <2>4, <2>7 DEF P
<1>9. CASE to # from
  <2>1. pos = i /\ inserted[from] = ch[from]
    BY <1>4, <1>9 DEF Put
  <2>2. /\ e \in Seq(Objects)
        /\ Elems(e) = {x \in obs : pa[x] = from} \ {ob}
        /\ NoDuplicates(e)
    <3>1. e = EraseAt(ch[from], i)
      BY <2>1
    <3> HIDE DEF i, e
    <3> QED
      BY <1>4, <1>5, <3>1, EraseSet
  <2>3. /\ s \in Seq(Objects)
        /\ Elems(s) = {x \in obs : pa[x] = to} \cup {ob}
        /\ NoDuplicates(s)
    <3>1. ob \notin Elems(k) /\ ob \in Objects
      BY <1>1, <1>3, <1>9
    <3> HIDE DEF k, j
    <3> QED
      BY <1>3, <1>6, <3>1, InsertSet
  <2>4. IsMap(C, Objects \cup {Null}, Seq(Objects))
    <3>1. to \in Objects \cup {Null} /\ from \in Objects \cup {Null}
      BY <1>1, <1>4
    <3> HIDE DEF s, e, from
    <3>2. IsMap(Put(ch, to, s), Objects \cup {Null}, Seq(Objects))
      BY <1>1, <2>3, <3>1, PutMap
    <3> QED
      BY <2>2, <3>1, <3>2, PutMap
  <2>5. /\ DOMAIN C = DOMAIN ch \cup {to}
        /\ C[to] = s /\ C[from] = e
        /\ \A q \in DOMAIN ch : q # to /\ q # from => C[q] = ch[q]
    <3> HIDE DEF s, e
    <3> QED
      BY <1>4, <1>9 DEF Put
  <2> HIDE DEF s, e, C
  <2>6. DOMAIN P = obs /\ P[ob] = to /\ \A x \in obs : x # ob => P[x] = pa[x]
    BY <1>7
  <2> HIDE DEF P
  <2>7. ASSUME NEW q \in DOMAIN C
        PROVE  Elems(C[q]) = {x \in obs : P[x] = q} /\ NoDuplicates(C[q])
    <3>1. CASE q = to
      <4>1. {x \in obs : P[x] = to} = {x \in obs : pa[x] = to} \cup {ob}
        BY <1>9, <2>6
      <4> QED
        BY <2>3, <2>5, <3>1, <4>1
    <3>2. CASE q = from
      <4>1. {x \in obs : P[x] = from} = {x \in obs : pa[x] = from} \ {ob}
        BY <1>9, <2>6
      <4> QED
        BY <2>2, <2>5, <3>2, <4>1
    <3>3. CASE q # to /\ q # from
      <4>1. {x \in obs : P[x] = q} = {x \in obs : pa[x] = q}
        BY <2>6, <3>3
      <4> QED
        BY <1>1, <2>5, <3>3, <4>1
    <3> QED
      BY <3>1, <3>2, <3>3
  <2>8. DOMAIN C \subseteq obs \cup {Null}
    BY <1>1, <2>5
  <2>9. \A x \in obs : P[x] \in DOMAIN C
    BY <1>1, <2>5, <2>6
  <2>10. TypedForest(obs, P, C)
    BY <1>1, <1>7, <2>4, <2>6, <2>7, <2>8, <2>9 DEF TypedForest, IsForest
  <2> QED
    BY <1>2, <2>10 DEF P
<1> QED
  BY <1>8, <1>9

-----------------------------------------------------------------------------
(* Counting references.                                                    *)

LEMMA DisjointCount ==
  ASSUME NEW A, NEW B, IsFiniteSet(A), IsFiniteSet(B), A \cap B = {}
  PROVE  /\ IsFiniteSet(A \cup B)
         /\ Cardinality(A \cup B) = Cardinality(A) + Cardinality(B)
         /\ Cardinality(A) \in Nat /\ Cardinality(B) \in Nat
<1>1. Cardinality(A \cap B) = 0
  BY FS_EmptySet
<1>2. /\ IsFiniteSet(A \cup B)
      /\ Cardinality(A \cup B) = Cardinality(A) + Cardinality(B) - Cardinality(A \cap B)
  BY FS_Union
<1>3. Cardinality(A) \in Nat /\ Cardinality(B) \in Nat
  BY FS_CardinalityType
<1> QED
  BY <1>1, <1>2, <1>3

LEMMA UsesFinite ==
  ASSUME NEW map, NEW D \in SUBSET Objects, NEW c
  PROVE  IsFiniteSet(Uses(map, D, c)) /\ Cardinality(Uses(map, D, c)) \in Nat
<1>1. IsFiniteSet(Objects)
  BY StorageAssumption, FS_Interval DEF Objects
<1>2. Uses(map, D, c) \in SUBSET Objects
  BY DEF Uses
<1>3. IsFiniteSet(Uses(map, D, c))
  BY <1>1, <1>2, FS_Subset
<1> QED
  BY <1>3, FS_CardinalityType

\* The references to c in the maps of all revisions.
RefsIn(obs, c) ==
  {ref \in Revs \X Objects : ref[2] \in DOMAIN obs[ref[1]] /\ obs[ref[1]][ref[2]] = c}

LEMMA RefsFinite ==
  ASSUME NEW obs, NEW c
  PROVE  IsFiniteSet(RefsIn(obs, c))
<1>1. IsFiniteSet(Objects)
  BY StorageAssumption, FS_Interval DEF Objects
<1>2. IsFiniteSet(Revs \X Objects)
  BY <1>1, StorageAssumption, FS_Product
<1>3. RefsIn(obs, c) \in SUBSET (Revs \X Objects)
  BY DEF RefsIn
<1> QED
  BY <1>2, <1>3, FS_Subset

LEMMA SplitOff ==
  ASSUME NEW obs, NEW r \in Revs, DOMAIN obs[r] \subseteq Objects, NEW c
  PROVE  LET rest == {ref \in RefsIn(obs, c) : ref[1] # r}
         IN  /\ Cardinality(rest) \in Nat
             /\ Cardinality(RefsIn(obs, c))
                  = Cardinality(rest) + Cardinality(Uses(obs[r], DOMAIN obs[r], c))
<1> DEFINE rest == {ref \in RefsIn(obs, c) : ref[1] # r}
           U == Uses(obs[r], DOMAIN obs[r], c)
<1>1. IsFiniteSet(U) /\ Cardinality(U) \in Nat
  BY UsesFinite
<1>2. IsFiniteSet(rest)
  BY RefsFinite, FS_Subset, rest \in SUBSET RefsIn(obs, c)
<1>3. RefsIn(obs, c) = rest \cup ({r} \X U)
  BY DEF RefsIn, Uses
<1>4. rest \cap ({r} \X U) = {}
  OBVIOUS
<1> HIDE DEF rest, U
<1>5. IsFiniteSet({r} \X U) /\ Cardinality({r} \X U) = Cardinality(U)
  <2>1. IsFiniteSet({r}) /\ Cardinality({r}) = 1
    BY FS_Singleton
  <2>2. IsFiniteSet({r} \X U) /\ Cardinality({r} \X U) = 1 * Cardinality(U)
    BY <1>1, <2>1, FS_Product
  <2> QED
    BY <1>1, <2>2
<1>6. /\ Cardinality(rest) \in Nat
      /\ Cardinality(rest \cup ({r} \X U)) = Cardinality(rest) + Cardinality(U)
  BY <1>2, <1>4, <1>5, DisjointCount
<1> QED
  BY <1>3, <1>6 DEF rest, U

\* The maps old and new of all revisions differ for r at most: there they
\* are o and n.
DifferFor(r, old, o, new, n) ==
  /\ \A s \in Revs : s # r => new[s] = old[s]
  /\ old[r] = o /\ DOMAIN o \subseteq Objects
  /\ new[r] = n /\ DOMAIN n \subseteq Objects

\* Changing one revision changes the count by what that revision refers to.
LEMMA RecountOne ==
  ASSUME NEW old, NEW new, NEW r \in Revs, NEW c,
         NEW o, NEW n, DifferFor(r, old, o, new, n)
  PROVE  /\ Cardinality(RefsIn(old, c)) \in Nat /\ Cardinality(RefsIn(new, c)) \in Nat
         /\ Cardinality(RefsIn(new, c))
              = Cardinality(RefsIn(old, c)) - Cardinality(Uses(o, DOMAIN o, c))
                  + Cardinality(Uses(n, DOMAIN n, c))
<1> USE DEF DifferFor
<1> DEFINE rest(m) == {ref \in RefsIn(m, c) : ref[1] # r}
           u(m) == Cardinality(Uses(m[r], DOMAIN m[r], c))
<1>1. rest(new) = rest(old)
  BY DEF RefsIn
<1>2. /\ Cardinality(rest(old)) \in Nat /\ Cardinality(rest(new)) \in Nat
      /\ Cardinality(RefsIn(old, c)) = Cardinality(rest(old)) + u(old)
      /\ Cardinality(RefsIn(new, c)) = Cardinality(rest(new)) + u(new)
  BY SplitOff
<1>3. u(old) \in Nat /\ u(new) \in Nat
  BY UsesFinite
<1> HIDE DEF rest, u
<1>4. /\ Cardinality(RefsIn(old, c)) \in Nat /\ Cardinality(RefsIn(new, c)) \in Nat
      /\ Cardinality(RefsIn(new, c)) = Cardinality(RefsIn(old, c)) - u(old) + u(new)
  BY <1>1, <1>2, <1>3
<1> QED
  BY <1>4 DEF u

-----------------------------------------------------------------------------
(* One call.                                                               *)

\* A call that changes no map and no count, and frees no revision.
LEMMA QuietStep ==
  ASSUME StorageInv,
         UNCHANGED <<rev_vars, heap_vars, next_object_id>>,
         live \subseteq live', live' \subseteq Revs,
         is_transient' \in [Revs -> BOOLEAN],
         ret' \in Errors \cup {"ok"}, aborted' \in BOOLEAN
  PROVE  StorageInv'
<1> USE DEF StorageInv, rev_vars, heap_vars
<1>1. TypeOK'
  BY DEF TypeOK
<1>2. TreeConsistent' /\ AttachmentsTyped'
  BY DEF TreeConsistent, AttachmentsTyped, TypeOf, Exists
<1>3. RefcountExact'
  BY DEF RefcountExact, References
<1>4. FreedEmpty' /\ CountedAllocated' /\ NumberedObjects'
  BY DEF FreedEmpty, CountedAllocated, NumberedObjects
<1> QED
  BY <1>1, <1>2, <1>3, <1>4

(* The attachments of one revision's maps are of texts to nets, by the     *)
(* contents ct of their cells.                                             *)
TypedLinks(obs, pa, ct) ==
  \A ob \in DOMAIN pa :
    pa[ob] # Null => ct[obs[ob]].type = "text" /\ ct[obs[pa[ob]]].type = "net"

(* A call that gives revision r the maps obs, pa and ch, and what it must  *)
(* do about the heap: ct is the content of the cells that r refers to.     *)
Effect(r, obs, pa, ch, ct) ==
  /\ obstates' = [obstates EXCEPT ![r] = obs]
  /\ parent' = [parent EXCEPT ![r] = pa]
  /\ children' = [children EXCEPT ![r] = ch]
  /\ IsMap(obs, Objects, Cells)
  /\ TypedForest(DOMAIN obs, pa, ch)
  /\ TypedLinks(obs, pa, ct)
  /\ DOMAIN obs \subseteq 1..next_object_id'
  /\ next_object_id' \in next_object_id..MaxId
  /\ live' \subseteq Revs /\ live \subseteq live' \cup {r}
  /\ r \in live' \/ DOMAIN obs = {}
  /\ refcnt' = [c \in Cells |-> refcnt[c] - Cardinality(Uses(obstates[r], DOMAIN obstates[r], c))
                                 + Cardinality(Uses(obs, DOMAIN obs, c))]
  /\ content' \in [Cells -> ObData \cup {Freed}]
  /\ \A c \in Cells : refcnt'[c] > 0 => content'[c] \in ObData /\ content'[c] = ct[c]
  /\ \A c \in Cells : refcnt[c] > 0 /\ refcnt'[c] > 0 => content'[c] = content[c]
  /\ is_transient' \in [Revs -> BOOLEAN]
  /\ ret' \in Errors \cup {"ok"} /\ aborted' \in BOOLEAN

LEMMA OneRevisionStep ==
  ASSUME StorageInv, NEW r \in Revs, NEW obs, NEW pa, NEW ch, NEW ct,
         Effect(r, obs, pa, ch, ct)
  PROVE  StorageInv'
<1> USE DEF Effect
<1>1. /\ \A s \in Revs : /\ IsMap(obstates[s], Objects, Cells)
                         /\ IsMap(parent[s], Objects, Objects \cup {Null})
                         /\ IsMap(children[s], Objects \cup {Null}, Seq(Objects))
      /\ DOMAIN obstates = Revs /\ DOMAIN parent = Revs /\ DOMAIN children = Revs
      /\ live \subseteq Revs /\ next_object_id \in 0..MaxId
      /\ refcnt \in [Cells -> Nat]
      /\ \A s \in Revs : IsForest(DOMAIN obstates[s], parent[s], children[s])
  BY DEF StorageInv, TypeOK, TreeConsistent
<1>2. /\ DOMAIN obstates' = Revs /\ DOMAIN parent' = Revs /\ DOMAIN children' = Revs
      /\ obstates'[r] = obs /\ parent'[r] = pa /\ children'[r] = ch
      /\ \A s \in Revs : s # r => /\ obstates'[s] = obstates[s]
                                  /\ parent'[s] = parent[s]
                                  /\ children'[s] = children[s]
  BY <1>1
<1>3. TreeConsistent'
  BY <1>1, <1>2 DEF TreeConsistent, TypedForest
<1>4. RefcountExact'
  <2> SUFFICES ASSUME NEW c \in Cells
               PROVE  refcnt'[c] = Cardinality(RefsIn(obstates', c))
    BY DEF RefcountExact, References, RefsIn
  <2>1. refcnt[c] = Cardinality(RefsIn(obstates, c))
    BY DEF StorageInv, RefcountExact, References, RefsIn
  <2>2. DOMAIN obstates[r] \subseteq Objects /\ DOMAIN obstates'[r] \subseteq Objects
    BY <1>1, <1>2 DEF IsMap
  <2> DEFINE o == obstates[r]
  <2>3. Cardinality(RefsIn(obstates', c))
          = Cardinality(RefsIn(obstates, c)) - Cardinality(Uses(o, DOMAIN o, c))
              + Cardinality(Uses(obs, DOMAIN obs, c))
    <3>1. DifferFor(r, obstates, o, obstates', obs)
      BY <1>2, <2>2 DEF DifferFor
    <3> HIDE DEF o
    <3> QED
      BY <3>1, RecountOne
  <2>4. refcnt'[c] = refcnt[c] - Cardinality(Uses(obstates[r], DOMAIN obstates[r], c))
                       + Cardinality(Uses(obs, DOMAIN obs, c))
    OBVIOUS
  <2> QED
    BY <1>2, <2>1, <2>3, <2>4
<1>5. refcnt' \in [Cells -> Nat]
  <2>1. \A c \in Cells : refcnt'[c] \in Nat
    <3> TAKE c \in Cells
    <3>1. refcnt'[c] = Cardinality(RefsIn(obstates', c))
      BY <1>4 DEF RefcountExact, References, RefsIn
    <3> QED
      BY <3>1, RefsFinite, FS_CardinalityType
  <2> QED
    BY <2>1
<1>6. TypeOK'
  <2>1. \A s \in Revs : /\ IsMap(obstates'[s], Objects, Cells)
                        /\ IsMap(parent'[s], Objects, Objects \cup {Null})
                        /\ IsMap(children'[s], Objects \cup {Null}, Seq(Objects))
    BY <1>1, <1>2 DEF TypedForest
  <2>2. next_object_id' \in 0..MaxId
    BY <1>1, StorageAssumption
  <2>3. /\ obstates' = [s \in Revs |-> obstates'[s]]
        /\ parent' = [s \in Revs |-> parent'[s]]
        /\ children' = [s \in Revs |-> children'[s]]
    BY <1>1
  <2> QED
    BY <1>1, <1>2, <1>5, <2>1, <2>2, <2>3 DEF TypeOK
<1>7. AttachmentsTyped'
  <2> SUFFICES ASSUME NEW s \in Revs, NEW ob \in DOMAIN parent'[s], parent'[s][ob] # Null
               PROVE  /\ content'[obstates'[s][ob]].type = "text"
                      /\ content'[obstates'[s][parent'[s][ob]]].type = "net"
                      /\ ob \in DOMAIN obstates'[s] /\ parent'[s][ob] \in DOMAIN obstates'[s]
    BY DEF AttachmentsTyped, TypeOf, Exists
  <2>1. IsForest(DOMAIN obstates'[s], parent'[s], children'[s])
    BY <1>3 DEF TreeConsistent
  <2>2. ob \in DOMAIN obstates'[s] /\ parent'[s][ob] \in DOMAIN obstates'[s]
    BY <2>1 DEF IsForest
  <2>3. ASSUME NEW x \in DOMAIN obstates'[s]
        PROVE  obstates'[s][x] \in Cells /\ refcnt'[obstates'[s][x]] > 0
    <3> DEFINE c == obstates'[s][x]
    <3>1. c \in Cells /\ x \in Objects
      BY <1>6 DEF TypeOK, IsMap
    <3>2. <<s, x>> \in RefsIn(obstates', c)
      BY <3>1 DEF RefsIn
    <3> HIDE DEF c
    <3>3. refcnt'[c] = Cardinality(RefsIn(obstates', c)) /\ IsFiniteSet(RefsIn(obstates', c))
        <4>1. refcnt'[c] = Cardinality(RefsIn(obstates', c))
          BY <1>4, <3>1 DEF RefcountExact, References, RefsIn
        <4> QED
          BY <4>1, RefsFinite
    <3>4. Cardinality(RefsIn(obstates', c)) # 0
      BY <3>2, <3>3, FS_EmptySet
    <3>5. refcnt'[c] > 0
      BY <1>5, <3>1, <3>3, <3>4
    <3> QED
      BY <3>1, <3>5 DEF c
  <2>4. CASE s = r
    <3>1. ct[obs[ob]].type = "text" /\ ct[obs[pa[ob]]].type = "net"
      BY <1>2, <2>2, <2>4 DEF TypedLinks
    <3>2. \A x \in DOMAIN obs : content'[obs[x]] = ct[obs[x]]
      BY <1>2, <2>3, <2>4
    <3> QED
      BY <1>2, <2>2, <2>4, <3>1, <3>2
  <2>5. CASE s # r
    <3>1. /\ content[obstates[s][ob]].type = "text"
          /\ content[obstates[s][parent[s][ob]]].type = "net"
      BY <1>2, <2>2, <2>5 DEF StorageInv, AttachmentsTyped, TypeOf, Exists
    <3>2. ASSUME NEW x \in DOMAIN obstates[s]
          PROVE  content'[obstates[s][x]] = content[obstates[s][x]]
      <4> DEFINE c == obstates[s][x]
      <4>1. c \in Cells /\ x \in Objects /\ refcnt'[c] > 0
        BY <1>1, <1>2, <2>3, <2>5 DEF IsMap
      <4>2. <<s, x>> \in RefsIn(obstates, c)
        BY <4>1 DEF RefsIn
      <4> HIDE DEF c
      <4>3. refcnt[c] = Cardinality(RefsIn(obstates, c)) /\ IsFiniteSet(RefsIn(obstates, c))
          <5>1. refcnt[c] = Cardinality(RefsIn(obstates, c))
            BY <4>1 DEF StorageInv, RefcountExact, References, RefsIn
          <5> QED
            BY <5>1, RefsFinite
      <4>4. Cardinality(RefsIn(obstates, c)) # 0
        BY <4>2, <4>3, FS_EmptySet
      <4>5. refcnt[c] > 0
        BY <1>1, <4>1, <4>3, <4>4
      <4> QED
        BY <4>1, <4>5 DEF c
    <3> QED
      BY <1>2, <2>2, <2>5, <3>1, <3>2
  <2> QED
    BY <2>2, <2>4, <2>5
<1>8. FreedEmpty'
  <2> SUFFICES ASSUME NEW s \in Revs, s \notin live'
               PROVE  DOMAIN obstates'[s] = {}
    BY DEF FreedEmpty
  <2>1. CASE s = r
    BY <1>2, <2>1
  <2>2. CASE s # r
    BY <1>2, <2>2 DEF StorageInv, FreedEmpty
  <2> QED
    BY <2>1, <2>2
<1>9. CountedAllocated'
  BY DEF CountedAllocated
<1>10. NumberedObjects'
  <2> SUFFICES ASSUME NEW s \in Revs
               PROVE  DOMAIN obstates'[s] \subseteq 1..next_object_id'
    BY DEF NumberedObjects
  <2>1. CASE s = r
    BY <1>2, <2>1
  <2>2. CASE s # r
    <3>1. DOMAIN obstates'[s] \subseteq 1..next_object_id
      BY <1>2, <2>2 DEF StorageInv, NumberedObjects
    <3> QED
      BY <1>1, <3>1
  <2> QED
    BY <2>1, <2>2
<1> QED
  BY <1>3, <1>4, <1>6, <1>7, <1>8, <1>9, <1>10 DEF StorageInv

-----------------------------------------------------------------------------
(* What StorageInv says of one revision, and how counts follow its map.    *)

LEMMA OneRevision ==
  ASSUME StorageInv, NEW r \in Revs
  PROVE  /\ IsMap(obstates[r], Objects, Cells)
         /\ DOMAIN obstates[r] \subseteq Objects
         /\ DOMAIN obstates[r] \subseteq 1..next_object_id
         /\ TypedForest(DOMAIN obstates[r], parent[r], children[r])
         /\ DOMAIN parent[r] = DOMAIN obstates[r]
         /\ TypedLinks(obstates[r], parent[r], content)
<1>1. /\ IsMap(obstates[r], Objects, Cells)
      /\ DOMAIN obstates[r] \subseteq Objects
      /\ DOMAIN obstates[r] \subseteq 1..next_object_id
  BY DEF StorageInv, TypeOK, NumberedObjects, IsMap
<1>2. TypedForest(DOMAIN obstates[r], parent[r], children[r])
  BY <1>1 DEF StorageInv, TypeOK, TreeConsistent, TypedForest
<1>3. DOMAIN parent[r] = DOMAIN obstates[r]
  BY <1>2 DEF TypedForest, IsForest
<1>4. TypedLinks(obstates[r], parent[r], content)
  <2> SUFFICES ASSUME NEW ob \in DOMAIN parent[r], parent[r][ob] # Null
               PROVE  /\ content[obstates[r][ob]].type = "text"
                      /\ content[obstates[r][parent[r][ob]]].type = "net"
    BY DEF TypedLinks
  <2>1. TypeOf(r, ob) = "text" /\ TypeOf(r, parent[r][ob]) = "net"
    BY DEF StorageInv, AttachmentsTyped
  <2> QED
    BY <2>1 DEF TypeOf
<1> QED
  BY <1>1, <1>2, <1>3, <1>4

\* A cell that a revision refers to is counted.
LEMMA UsedCounted ==
  ASSUME StorageInv, NEW r \in Revs, NEW x \in DOMAIN obstates[r]
  PROVE  obstates[r][x] \in Cells /\ refcnt[obstates[r][x]] > 0
<1> DEFINE c == obstates[r][x]
<1>1. c \in Cells /\ x \in Objects
  BY DEF StorageInv, TypeOK, IsMap
<1>2. <<r, x>> \in RefsIn(obstates, c)
  BY <1>1 DEF RefsIn
<1> HIDE DEF c
<1>3. refcnt[c] = Cardinality(RefsIn(obstates, c))
  BY <1>1 DEF StorageInv, RefcountExact, References, RefsIn
<1>4. Cardinality(RefsIn(obstates, c)) # 0
  BY <1>2, RefsFinite, FS_EmptySet
<1>5. refcnt[c] > 0
  BY <1>1, <1>3, <1>4 DEF StorageInv, TypeOK
<1> QED
  BY <1>1, <1>5 DEF c

\* The references of one revision are no more than the count.
LEMMA UsesBounded ==
  ASSUME StorageInv, NEW r \in Revs, NEW own, own = obstates[r],
         NEW D, D \subseteq DOMAIN own, NEW c \in Cells
  PROVE  /\ Cardinality(Uses(own, D, c)) \in Nat
         /\ refcnt[c] \in Nat /\ Cardinality(Uses(own, D, c)) <= refcnt[c]
<1> DEFINE U == Uses(own, D, c)
<1>1. DOMAIN own \subseteq Objects
  BY OneRevision
<1>2. U \in SUBSET Objects
  BY <1>1 DEF Uses
<1>3. IsFiniteSet(U) /\ Cardinality(U) \in Nat
  BY <1>1, UsesFinite
<1>4. refcnt[c] = Cardinality(RefsIn(obstates, c)) /\ refcnt[c] \in Nat
  BY DEF StorageInv, RefcountExact, References, RefsIn, TypeOK
<1>5. {r} \X U \in SUBSET RefsIn(obstates, c)
  BY <1>2 DEF RefsIn, Uses
<1> HIDE DEF U
<1>6. IsFiniteSet({r} \X U) /\ Cardinality({r} \X U) = Cardinality(U)
  <2>1. IsFiniteSet({r}) /\ Cardinality({r}) = 1
    BY FS_Singleton
  <2>2. IsFiniteSet({r} \X U) /\ Cardinality({r} \X U) = 1 * Cardinality(U)
    BY <1>3, <2>1, FS_Product
  <2> QED
    BY <1>3, <2>2
<1>7. Cardinality({r} \X U) <= Cardinality(RefsIn(obstates, c))
  BY <1>5, RefsFinite, FS_Subset
<1> QED
  BY <1>3, <1>4, <1>6, <1>7 DEF U

LEMMA UsesSplit ==
  ASSUME NEW o, NEW A, NEW B, A \cup B \subseteq Objects, A \cap B = {}, NEW d
  PROVE  /\ Cardinality(Uses(o, A \cup B, d)) = Cardinality(Uses(o, A, d)) + Cardinality(Uses(o, B, d))
         /\ Cardinality(Uses(o, A, d)) \in Nat /\ Cardinality(Uses(o, B, d)) \in Nat
<1>1. Uses(o, A \cup B, d) = Uses(o, A, d) \cup Uses(o, B, d)
  BY DEF Uses
<1>2. Uses(o, A, d) \cap Uses(o, B, d) = {}
  BY DEF Uses
<1>3. IsFiniteSet(Uses(o, A, d)) /\ IsFiniteSet(Uses(o, B, d))
  BY UsesFinite
<1> QED
  BY <1>1, <1>2, <1>3, DisjointCount

LEMMA UsesDrop ==
  ASSUME NEW o, DOMAIN o \subseteq Objects, NEW D, D \subseteq DOMAIN o, NEW d
  PROVE  /\ Cardinality(Uses(o, DOMAIN o, d))
              = Cardinality(Uses(o, D, d)) + Cardinality(Uses(Drop(o, D), DOMAIN Drop(o, D), d))
         /\ Cardinality(Uses(o, D, d)) \in Nat
         /\ Cardinality(Uses(Drop(o, D), DOMAIN Drop(o, D), d)) \in Nat
<1> DEFINE K == DOMAIN o \ D
<1>1. D \cup K = DOMAIN o /\ D \cap K = {}
  OBVIOUS
<1>2. Uses(Drop(o, D), DOMAIN Drop(o, D), d) = Uses(o, K, d)
  BY DEF Uses, Drop
<1> HIDE DEF K
<1>3. /\ Cardinality(Uses(o, D \cup K, d)) = Cardinality(Uses(o, D, d)) + Cardinality(Uses(o, K, d))
      /\ Cardinality(Uses(o, D, d)) \in Nat /\ Cardinality(Uses(o, K, d)) \in Nat
  BY <1>1, UsesSplit
<1> QED
  BY <1>1, <1>2, <1>3

LEMMA UsesMerge ==
  ASSUME NEW o, NEW g, DOMAIN o \subseteq Objects, DOMAIN g \subseteq Objects,
         DOMAIN o \cap DOMAIN g = {}, NEW d
  PROVE  /\ Cardinality(Uses(Merge(o, g), DOMAIN Merge(o, g), d))
              = Cardinality(Uses(o, DOMAIN o, d)) + Cardinality(Uses(g, DOMAIN g, d))
         /\ Cardinality(Uses(o, DOMAIN o, d)) \in Nat
         /\ Cardinality(Uses(g, DOMAIN g, d)) \in Nat
<1> DEFINE m == Merge(o, g)
           A == DOMAIN o
           B == DOMAIN g
<1>1. DOMAIN m = A \cup B /\ A \cap B = {} /\ A \cup B \subseteq Objects
  BY DEF Merge
<1>2. Uses(m, A, d) = Uses(o, A, d) /\ Uses(m, B, d) = Uses(g, B, d)
  BY DEF Uses, Merge
<1> HIDE DEF m, A, B
<1>3. /\ Cardinality(Uses(m, A \cup B, d)) = Cardinality(Uses(m, A, d)) + Cardinality(Uses(m, B, d))
      /\ Cardinality(Uses(m, A, d)) \in Nat /\ Cardinality(Uses(m, B, d)) \in Nat
  BY <1>1, UsesSplit
<1>4. /\ Cardinality(Uses(m, DOMAIN m, d)) = Cardinality(Uses(o, A, d)) + Cardinality(Uses(g, B, d))
      /\ Cardinality(Uses(o, A, d)) \in Nat /\ Cardinality(Uses(g, B, d)) \in Nat
  BY <1>1, <1>2, <1>3
<1> QED
  BY <1>4 DEF m, A, B

LEMMA UsesPut ==
  ASSUME NEW o, DOMAIN o \subseteq Objects, NEW k \in Objects, NEW c, NEW d,
         NEW n, n = Put(o, k, c), NEW old, old = DOMAIN o \cap {k}
  PROVE  /\ Cardinality(Uses(n, DOMAIN n, d))
              = Cardinality(Uses(o, DOMAIN o, d)) - Cardinality(Uses(o, old, d))
                  + IF c = d THEN 1 ELSE 0
         /\ Cardinality(Uses(o, DOMAIN o, d)) \in Nat
         /\ Cardinality(Uses(o, old, d)) \in Nat
         /\ Cardinality(Uses(o, old, d)) <= Cardinality(Uses(o, DOMAIN o, d))
<1> DEFINE m == Put(o, k, c)
           A == DOMAIN o \ {k}
           B == DOMAIN o \cap {k}
<1>1. A \cup B = DOMAIN o /\ A \cap B = {} /\ A \cup B \subseteq Objects
  OBVIOUS
<1>2. /\ DOMAIN m = A \cup {k} /\ A \cap {k} = {} /\ A \cup {k} \subseteq Objects
      /\ Uses(m, A, d) = Uses(o, A, d)
      /\ Uses(m, {k}, d) = IF c = d THEN {k} ELSE {}
  BY DEF Put, Uses
<1> HIDE DEF m, A, B
<1>3. /\ Cardinality(Uses(o, A \cup B, d)) = Cardinality(Uses(o, A, d)) + Cardinality(Uses(o, B, d))
      /\ Cardinality(Uses(o, A, d)) \in Nat /\ Cardinality(Uses(o, B, d)) \in Nat
  BY <1>1, UsesSplit
<1>4. Cardinality(Uses(m, A \cup {k}, d)) = Cardinality(Uses(m, A, d)) + Cardinality(Uses(m, {k}, d))
  BY <1>2, UsesSplit
<1>5. Cardinality(Uses(m, {k}, d)) = IF c = d THEN 1 ELSE 0
  BY <1>2, FS_EmptySet, FS_Singleton
<1>6. /\ Cardinality(Uses(m, DOMAIN m, d))
           = Cardinality(Uses(o, DOMAIN o, d)) - Cardinality(Uses(o, B, d)) + (IF c = d THEN 1 ELSE 0)
      /\ Cardinality(Uses(o, DOMAIN o, d)) \in Nat
      /\ Cardinality(Uses(o, B, d)) \in Nat
      /\ Cardinality(Uses(o, B, d)) <= Cardinality(Uses(o, DOMAIN o, d))
  <2>1. Cardinality(Uses(m, DOMAIN m, d)) = Cardinality(Uses(o, A, d)) + Cardinality(Uses(m, {k}, d))
    BY <1>2, <1>4
  <2>2. Cardinality(Uses(o, DOMAIN o, d)) = Cardinality(Uses(o, A, d)) + Cardinality(Uses(o, B, d))
    BY <1>1, <1>3
  <2> QED
    BY <1>3, <1>5, <2>1, <2>2
<1> QED
  BY <1>6 DEF m, B

-----------------------------------------------------------------------------
(* Each call preserves StorageInv.                                         *)

LEMMA RejectKeeps ==
  ASSUME StorageInv, NEW err \in Errors, Reject(err)
  PROVE  StorageInv'
<1>1. /\ UNCHANGED <<rev_vars, heap_vars, next_object_id>>
      /\ live \subseteq live' /\ live' \subseteq Revs
      /\ is_transient' \in [Revs -> BOOLEAN]
      /\ ret' \in Errors \cup {"ok"} /\ aborted' \in BOOLEAN
  BY DEF Reject, StorageInv, TypeOK
<1> QED
  BY <1>1, QuietStep

LEMMA NewRevisionKeeps ==
  ASSUME StorageInv, NEW r \in Revs, NewRevision(r)
  PROVE  StorageInv'
<1>1. /\ UNCHANGED <<rev_vars, heap_vars, next_object_id>>
      /\ live \subseteq live' /\ live' \subseteq Revs
      /\ is_transient' \in [Revs -> BOOLEAN]
      /\ ret' \in Errors \cup {"ok"} /\ aborted' \in BOOLEAN
  BY DEF NewRevision, StorageInv, TypeOK
<1> QED
  BY <1>1, QuietStep

LEMMA FinalizeRevisionKeeps ==
  ASSUME StorageInv, NEW r \in Revs, FinalizeRevision(r)
  PROVE  StorageInv'
<1>1. /\ UNCHANGED <<rev_vars, heap_vars, next_object_id>>
      /\ live \subseteq live' /\ live' \subseteq Revs
      /\ is_transient' \in [Revs -> BOOLEAN]
      /\ ret' \in Errors \cup {"ok"} /\ aborted' \in BOOLEAN
  BY DEF FinalizeRevision, StorageInv, TypeOK
<1> QED
  BY <1>1, QuietStep

\* The heap's share of Effect when no content changes: counts only grow.
LEMMA CountsGrow ==
  ASSUME StorageInv, UNCHANGED content,
         \A c \in Cells : refcnt'[c] > 0 => refcnt[c] > 0
  PROVE  /\ content' \in [Cells -> ObData \cup {Freed}]
         /\ \A c \in Cells : refcnt'[c] > 0 => content'[c] \in ObData /\ content'[c] = content[c]
BY DEF StorageInv, TypeOK, CountedAllocated

\* The same when dec_refcnt has deleted what is no longer counted.
LEMMA CountsSwept ==
  ASSUME StorageInv, content' = Sweep(refcnt', content),
         \A c \in Cells : refcnt'[c] \in Nat /\ refcnt'[c] <= refcnt[c]
  PROVE  /\ content' \in [Cells -> ObData \cup {Freed}]
         /\ \A c \in Cells : refcnt'[c] > 0 => content'[c] \in ObData /\ content'[c] = content[c]
<1>1. refcnt \in [Cells -> Nat] /\ content \in [Cells -> ObData \cup {Freed}]
  BY DEF StorageInv, TypeOK
<1>2. \A c \in Cells : content'[c] = IF refcnt'[c] = 0 THEN Freed ELSE content[c]
  BY DEF Sweep
<1>3. content' \in [Cells -> ObData \cup {Freed}]
  BY <1>1 DEF Sweep
<1>4. \A c \in Cells : refcnt'[c] > 0 => content'[c] \in ObData /\ content'[c] = content[c]
  BY <1>1, <1>2 DEF StorageInv, CountedAllocated
<1> QED
  BY <1>3, <1>4

LEMMA CopyRevisionKeeps ==
  ASSUME StorageInv, NEW r \in Revs, NEW from \in Revs, CopyRevision(r, from)
  PROVE  StorageInv'
<1> USE DEF CopyRevision
<1> DEFINE o == obstates[from]
           own == obstates[r]
<1>1. /\ IsMap(o, Objects, Cells)
      /\ DOMAIN o \subseteq Objects
      /\ DOMAIN o \subseteq 1..next_object_id
      /\ TypedForest(DOMAIN o, parent[from], children[from])
      /\ TypedLinks(o, parent[from], content)
  BY OneRevision
<1>2. DOMAIN own = {}
  BY DEF StorageInv, FreedEmpty
<1> HIDE DEF own
<1>3. ASSUME NEW c
      PROVE  /\ Cardinality(Uses(own, DOMAIN own, c)) = 0
             /\ Cardinality(Uses(o, DOMAIN o, c)) \in Nat
  <2>1. Uses(own, DOMAIN own, c) = {}
    BY <1>2 DEF Uses
  <2> HIDE DEF o
  <2> QED
    BY <1>1, <2>1, FS_EmptySet, UsesFinite
<1>4. refcnt \in [Cells -> Nat]
  BY DEF StorageInv, TypeOK
<1>5. refcnt' = [c \in Cells |-> refcnt[c] - Cardinality(Uses(own, DOMAIN own, c))
                                   + Cardinality(Uses(o, DOMAIN o, c))]
  BY <1>3, <1>4 DEF Retain
<1>6. \A c \in Cells : refcnt'[c] > 0 => refcnt[c] > 0
  <2> SUFFICES ASSUME NEW c \in Cells, refcnt[c] = 0
               PROVE  refcnt'[c] = 0
    BY <1>4
  <2>1. Uses(o, DOMAIN o, c) = {}
    <3>1. \A x \in DOMAIN o : refcnt[o[x]] > 0
      BY UsedCounted
    <3> QED
      BY <3>1 DEF Uses
  <2>2. Cardinality(Uses(o, DOMAIN o, c)) = 0
    BY <2>1, FS_EmptySet
  <2> HIDE DEF o
  <2> QED
    BY <1>3, <1>5, <2>2
<1>7. /\ content' \in [Cells -> ObData \cup {Freed}]
      /\ \A c \in Cells : refcnt'[c] > 0 => content'[c] \in ObData /\ content'[c] = content[c]
  BY <1>6, CountsGrow
<1>8. /\ live' \subseteq Revs /\ live \subseteq live' \cup {r} /\ r \in live'
      /\ is_transient' \in [Revs -> BOOLEAN]
      /\ ret' \in Errors \cup {"ok"} /\ aborted' \in BOOLEAN
      /\ next_object_id' = next_object_id /\ next_object_id \in Int /\ next_object_id <= MaxId
  BY StorageAssumption DEF StorageInv, TypeOK
<1>9. Effect(r, o, parent[from], children[from], content)
  BY <1>1, <1>5, <1>7, <1>8, StorageAssumption DEF Effect, own
<1> QED
  BY <1>9, OneRevisionStep

LEMMA FreeRevisionKeeps ==
  ASSUME StorageInv, NEW r \in Revs, FreeRevision(r)
  PROVE  StorageInv'
<1> USE DEF FreeRevision
<1> DEFINE own == obstates[r]
<1>1. /\ IsMap(EmptyMap, Objects, Cells)
      /\ TypedForest(DOMAIN EmptyMap, EmptyMap, EmptyMap)
      /\ TypedLinks(EmptyMap, EmptyMap, content)
      /\ DOMAIN EmptyMap = {}
  BY DEF EmptyMap, IsMap, TypedForest, IsForest, TypedLinks
<1>2. DOMAIN own \subseteq Objects
  BY OneRevision
<1> HIDE DEF own
<1>3. ASSUME NEW c
      PROVE  /\ Cardinality(Uses(EmptyMap, DOMAIN EmptyMap, c)) = 0
             /\ Cardinality(Uses(own, DOMAIN own, c)) \in Nat
  <2>1. Uses(EmptyMap, DOMAIN EmptyMap, c) = {}
    BY <1>1 DEF Uses
  <2> QED
    BY <1>2, <2>1, FS_EmptySet, UsesFinite
<1>4. refcnt \in [Cells -> Nat]
  BY DEF StorageInv, TypeOK
<1>5. refcnt' = [c \in Cells |-> refcnt[c] - Cardinality(Uses(own, DOMAIN own, c))
                                   + Cardinality(Uses(EmptyMap, DOMAIN EmptyMap, c))]
  BY <1>3, <1>4 DEF Release, own
<1>6. \A c \in Cells : refcnt'[c] \in Nat /\ refcnt'[c] <= refcnt[c]
  <2> TAKE c \in Cells
  <2>1. /\ Cardinality(Uses(own, DOMAIN own, c)) \in Nat
        /\ refcnt[c] \in Nat /\ Cardinality(Uses(own, DOMAIN own, c)) <= refcnt[c]
    <3>1. own = obstates[r]
      BY DEF own
    <3> QED
      BY <3>1, UsesBounded
  <2>2. refcnt'[c] = refcnt[c] - Cardinality(Uses(own, DOMAIN own, c))
    BY <1>3, <1>5, <2>1
  <2> QED
    BY <2>1, <2>2
<1>7. /\ content' \in [Cells -> ObData \cup {Freed}]
      /\ \A c \in Cells : refcnt'[c] > 0 => content'[c] \in ObData /\ content'[c] = content[c]
  BY <1>6, CountsSwept
<1>8. /\ live' \subseteq Revs /\ live \subseteq live' \cup {r}
      /\ is_transient' \in [Revs -> BOOLEAN]
      /\ ret' \in Errors \cup {"ok"} /\ aborted' \in BOOLEAN
      /\ next_object_id' = next_object_id /\ next_object_id \in Int /\ next_object_id <= MaxId
  BY StorageAssumption DEF StorageInv, TypeOK
<1>9. Effect(r, EmptyMap, EmptyMap, EmptyMap, content)
  BY <1>1, <1>5, <1>7, <1>8, StorageAssumption DEF Effect, own
<1> QED
  BY <1>9, OneRevisionStep

\* A call that only rearranges: it touches no object state.
LEMMA RetieEffect ==
  ASSUME StorageInv, NEW r \in Revs, NEW pa, NEW ch,
         UNCHANGED <<live, is_transient, obstates, heap_vars, aborted>>,
         parent' = [parent EXCEPT ![r] = pa],
         children' = [children EXCEPT ![r] = ch],
         TypedForest(DOMAIN obstates[r], pa, ch),
         TypedLinks(obstates[r], pa, content),
         next_object_id' \in next_object_id..MaxId,
         ret' \in Errors \cup {"ok"}
  PROVE  StorageInv'
<1> USE DEF heap_vars
<1> DEFINE o == obstates[r]
<1>1. /\ IsMap(o, Objects, Cells)
      /\ DOMAIN o \subseteq Objects
      /\ DOMAIN o \subseteq 1..next_object_id
  BY OneRevision
<1>2. DOMAIN obstates = Revs /\ next_object_id \in 0..MaxId /\ refcnt \in [Cells -> Nat]
  BY DEF StorageInv, TypeOK
<1>3. obstates' = [obstates EXCEPT ![r] = o]
  <2>1. obstates = [obstates EXCEPT ![r] = obstates[r]]
    BY DEF StorageInv, TypeOK
  <2> QED
    BY <2>1
<1>4. refcnt' = [c \in Cells |-> refcnt[c] - Cardinality(Uses(o, DOMAIN o, c))
                                   + Cardinality(Uses(o, DOMAIN o, c))]
  <2>1. \A c \in Cells : Cardinality(Uses(o, DOMAIN o, c)) \in Nat
    <3> HIDE DEF o
    <3> QED
      BY <1>1, UsesFinite
  <2> HIDE DEF o
  <2> QED
    BY <1>2, <2>1
<1>5. /\ content' \in [Cells -> ObData \cup {Freed}]
      /\ \A c \in Cells : refcnt'[c] > 0 => content'[c] \in ObData /\ content'[c] = content[c]
  BY CountsGrow
<1>6. DOMAIN o \subseteq 1..next_object_id'
  BY <1>1, <1>2
<1>7. /\ live' \subseteq Revs /\ live \subseteq live' \cup {r}
      /\ r \in live' \/ DOMAIN o = {}
      /\ is_transient' \in [Revs -> BOOLEAN]
      /\ aborted' \in BOOLEAN
  BY DEF StorageInv, TypeOK, FreedEmpty
<1>8. Effect(r, o, pa, ch, content)
  BY <1>1, <1>3, <1>4, <1>5, <1>6, <1>7 DEF Effect
<1> QED
  BY <1>8, OneRevisionStep

\* The unchanged maps of a revision, as the EXCEPT that Effect asks for.
LEMMA KeepsOwn ==
  ASSUME StorageInv, NEW r \in Revs
  PROVE  /\ parent = [parent EXCEPT ![r] = parent[r]]
         /\ children = [children EXCEPT ![r] = children[r]]
         /\ obstates = [obstates EXCEPT ![r] = obstates[r]]
BY DEF StorageInv, TypeOK

\* What a successful RelocateCheck has established.
LEMMA RelocateChecked ==
  ASSUME NEW r, NEW ob, NEW to, RelocateCheck(r, ob, to) = "ok"
  PROVE  /\ ob \in DOMAIN obstates[r]
         /\ to \in DOMAIN obstates[r] \cup {Null}
         /\ to # Null => /\ content[obstates[r][ob]].type = "text"
                         /\ content[obstates[r][to]].type = "net"
<1>1. ob \in DOMAIN obstates[r]
  BY DEF RelocateCheck, Exists
<1>2. CASE to = Null
  BY <1>1, <1>2
<1>3. CASE to # Null
  <2>1. TypeOf(r, ob) = "text" /\ Exists(r, to) /\ TypeOf(r, to) = "net"
    BY <1>3 DEF RelocateCheck
  <2> QED
    BY <1>1, <2>1 DEF TypeOf, Exists
<1> QED
  BY <1>2, <1>3

LEMMA RelocateKeeps ==
  ASSUME StorageInv, NEW r \in Revs, NEW ob \in Objects, NEW to, NEW before,
         Relocate(r, ob, to, before)
  PROVE  StorageInv'
<1> DEFINE o == obstates[r]
           pa == parent[r]
           ch == children[r]
           P == [pa EXCEPT ![ob] = to]
           C == Moved(ch, pa[ob], ob, to, before)
<1>1. /\ ob \in DOMAIN o /\ to \in DOMAIN o \cup {Null}
      /\ to # Null => /\ content[o[ob]].type = "text" /\ content[o[to]].type = "net"
  BY RelocateChecked DEF Relocate
<1>2. /\ TypedForest(DOMAIN o, pa, ch) /\ DOMAIN pa = DOMAIN o
      /\ TypedLinks(o, pa, content)
  BY OneRevision
<1>3. before = Null \/ before \in Elems(Kids(ch, to))
  BY DEF Relocate
<1>4. parent' = [parent EXCEPT ![r] = P] /\ children' = [children EXCEPT ![r] = C]
  BY DEF Relocate, StorageInv, TypeOK
<1>5. UNCHANGED <<live, is_transient, obstates, heap_vars, aborted, next_object_id>> /\ ret' = "ok"
  BY DEF Relocate
<1> HIDE DEF o, pa, ch
<1>6. TypedForest(DOMAIN o, P, C)
  BY <1>1, <1>2, <1>3, ForestMove
<1>7. TypedLinks(o, P, content)
  BY <1>1, <1>2 DEF TypedLinks
<1> HIDE DEF P, C
<1>8. next_object_id' \in next_object_id..MaxId
  BY <1>5 DEF StorageInv, TypeOK
<1> QED
  BY <1>4, <1>5, <1>6, <1>7, <1>8, RetieEffect DEF o

\* The two failures that may have entered an empty vector.
LEMMA TouchKeeps ==
  ASSUME StorageInv, NEW r \in Revs, NEW to \in DOMAIN obstates[r] \cup {Null},
         UNCHANGED <<live, is_transient, obstates, parent, heap_vars, next_object_id, aborted>>,
         children' = [children EXCEPT ![r] = Touch(@, to)],
         ret' \in Errors
  PROVE  StorageInv'
<1> DEFINE o == obstates[r]
           pa == parent[r]
           ch == children[r]
<1>1. /\ TypedForest(DOMAIN o, pa, ch)
      /\ TypedLinks(o, pa, content)
  BY OneRevision
<1>2. parent' = [parent EXCEPT ![r] = pa] /\ children' = [children EXCEPT ![r] = Touch(ch, to)]
  BY KeepsOwn
<1>3. next_object_id' \in next_object_id..MaxId
  BY DEF StorageInv, TypeOK
<1>4. to \in DOMAIN o \cup {Null}
  OBVIOUS
<1> HIDE DEF o, pa, ch
<1>5. TypedForest(DOMAIN o, pa, Touch(ch, to))
  BY <1>1, <1>4, ForestTouch
<1> QED
  BY <1>1, <1>2, <1>3, <1>5, RetieEffect DEF o

LEMMA RelocateFailsKeeps ==
  ASSUME StorageInv, NEW r \in Revs, NEW ob, NEW to, NEW before,
         RelocateFails(r, ob, to, before) \/ RelocateNoSuccessor(r, ob, to, before)
  PROVE  StorageInv'
<1>1. RelocateCheck(r, ob, to) = "ok"
  BY DEF RelocateFails, RelocateNoSuccessor
<1>2. to \in DOMAIN obstates[r] \cup {Null}
  BY <1>1, RelocateChecked
<1>3. /\ UNCHANGED <<live, is_transient, obstates, parent, heap_vars, next_object_id, aborted>>
      /\ children' = [children EXCEPT ![r] = Touch(@, to)]
      /\ ret' \in Errors
  BY DEF RelocateFails, RelocateNoSuccessor, Errors
<1> QED
  BY <1>2, <1>3, TouchKeeps

LEMMA RelocateAbortsKeeps ==
  ASSUME StorageInv, NEW r \in Revs, NEW ob, NEW to, RelocateAborts(r, ob, to)
  PROVE  StorageInv'
<1>1. /\ UNCHANGED <<rev_vars, heap_vars, next_object_id>>
      /\ live \subseteq live' /\ live' \subseteq Revs
      /\ is_transient' \in [Revs -> BOOLEAN]
      /\ ret' \in Errors \cup {"ok"} /\ aborted' \in BOOLEAN
  BY DEF RelocateAborts, StorageInv, TypeOK
<1> QED
  BY <1>1, QuietStep

LEMMA RelocateRejectedKeeps ==
  ASSUME StorageInv, NEW r \in Revs, NEW ob, NEW to, RelocateRejected(r, ob, to)
  PROVE  StorageInv'
<1>1. RelocateCheck(r, ob, to) \in Errors
  BY DEF RelocateRejected, RelocateCheck, Errors
<1> QED
  BY <1>1, RejectKeeps DEF RelocateRejected

\* Whatever fails while an object is entered, no trace of it is left.
LEMMA EnterFailsLeaves ==
  ASSUME StorageInv, NEW r \in Revs, NEW ob \in Objects \ DOMAIN obstates[r],
         EnterFails(r, ob)
  PROVE  /\ parent' = parent
         /\ children' = children \/ children' = [children EXCEPT ![r] = Touch(@, Null)]
<1> DEFINE pa == parent[r]
           ch == children[r]
<1>1. IsMap(pa, Objects, Objects \cup {Null}) /\ ob \notin DOMAIN pa
  BY OneRevision DEF TypedForest
<1>2. IsMap(ch, Objects \cup {Null}, Seq(Objects))
  BY OneRevision DEF TypedForest
<1>3. parent = [parent EXCEPT ![r] = pa]
  BY KeepsOwn
<1>4. \/ UNCHANGED parent
      \/ parent' = [parent EXCEPT ![r] = Drop(Put(pa, ob, Null), {ob})]
  BY DEF EnterFails
<1>5. \/ UNCHANGED children
      \/ children' = [children EXCEPT ![r] = Touch(ch, Null)]
      \/ children' = [children EXCEPT ![r] = PopBack(PushBack(ch, Null, ob), Null)]
  BY DEF EnterFails
<1> HIDE DEF pa, ch
<1>6. Drop(Put(pa, ob, Null), {ob}) = pa
  BY <1>1, DropPut
<1>7. PopBack(PushBack(ch, Null, ob), Null) = Touch(ch, Null)
  BY <1>2, PopPush
<1>8. \/ children' = children
      \/ children' = [children EXCEPT ![r] = Touch(ch, Null)]
  BY <1>5, <1>7
<1> QED
  BY <1>3, <1>4, <1>6, <1>8 DEF ch

LEMMA EnterFailsKeeps ==
  ASSUME StorageInv, NEW r \in Revs, NEW ob \in Objects \ DOMAIN obstates[r],
         EnterFails(r, ob),
         UNCHANGED <<live, is_transient, obstates, heap_vars, aborted>>,
         next_object_id' \in next_object_id..MaxId, ret' \in Errors
  PROVE  StorageInv'
<1> DEFINE o == obstates[r]
           pa == parent[r]
           ch == children[r]
<1>1. /\ TypedForest(DOMAIN o, pa, ch)
      /\ TypedLinks(o, pa, content)
  BY OneRevision
<1>2. parent' = [parent EXCEPT ![r] = pa]
  BY EnterFailsLeaves, KeepsOwn
<1>3. \/ children' = [children EXCEPT ![r] = ch]
      \/ children' = [children EXCEPT ![r] = Touch(ch, Null)]
  BY EnterFailsLeaves, KeepsOwn
<1> HIDE DEF o, pa, ch
<1>4. TypedForest(DOMAIN o, pa, Touch(ch, Null))
  BY <1>1, ForestTouch
<1>5. CASE children' = [children EXCEPT ![r] = ch]
  BY <1>1, <1>2, <1>5, RetieEffect DEF o
<1>6. CASE children' = [children EXCEPT ![r] = Touch(ch, Null)]
  BY <1>1, <1>2, <1>4, <1>6, RetieEffect DEF o
<1> QED
  BY <1>3, <1>5, <1>6

LEMMA AddObjectFailsKeeps ==
  ASSUME StorageInv, NEW r \in Revs, NEW arg, AddObjectFails(r, arg)
  PROVE  StorageInv'
<1> DEFINE ob == next_object_id'
<1>1. ob \in Objects \ DOMAIN obstates[r]
  BY StorageAssumption DEF AddObjectFails, StorageInv, TypeOK, NumberedObjects, Objects
<1>2. /\ EnterFails(r, ob)
      /\ UNCHANGED <<live, is_transient, obstates, heap_vars, aborted>>
      /\ ret' \in Errors
  BY DEF AddObjectFails, Errors
<1>3. next_object_id' \in next_object_id..MaxId
  BY StorageAssumption DEF AddObjectFails, StorageInv, TypeOK
<1> HIDE DEF ob
<1> QED
  BY <1>1, <1>2, <1>3, EnterFailsKeeps

LEMMA SetObjectDataFailsKeeps ==
  ASSUME StorageInv, NEW r \in Revs, NEW ob \in Objects, NEW arg, SetObjectDataFails(r, ob, arg)
  PROVE  StorageInv'
<1>1. /\ UNCHANGED <<live, is_transient, obstates, heap_vars, next_object_id, aborted>>
      /\ ret' \in Errors
  BY DEF SetObjectDataFails, Errors
<1>2. CASE ob \in DOMAIN parent[r]
  <2>1. /\ UNCHANGED <<rev_vars, heap_vars, next_object_id>>
        /\ live \subseteq live' /\ live' \subseteq Revs
        /\ is_transient' \in [Revs -> BOOLEAN]
        /\ ret' \in Errors \cup {"ok"} /\ aborted' \in BOOLEAN
    BY <1>1, <1>2 DEF SetObjectDataFails, StorageInv, TypeOK, rev_vars
  <2> QED
    BY <2>1, QuietStep
<1>3. CASE ob \notin DOMAIN parent[r]
  <2>1. ob \in Objects \ DOMAIN obstates[r]
    BY <1>3, OneRevision
  <2>2. EnterFails(r, ob)
    BY <1>3 DEF SetObjectDataFails
  <2>3. next_object_id' \in next_object_id..MaxId
    BY <1>1 DEF StorageInv, TypeOK
  <2> QED
    BY <1>1, <2>1, <2>2, <2>3, EnterFailsKeeps
<1> QED
  BY <1>2, <1>3

LEMMA ArgRejectedKeeps ==
  ASSUME StorageInv, NEW r, NEW ob, NEW arg,
         AddObjectRejected(r, arg) \/ SetObjectDataRejected(r, ob, arg)
  PROVE  StorageInv'
<1>1. /\ AddObjectRejected(r, arg) => AddCheck(r, arg) \in Errors
      /\ SetObjectDataRejected(r, ob, arg) => SetCheck(r, ob, arg) \in Errors
  BY DEF AddObjectRejected, SetObjectDataRejected, SetCheck, AddCheck, Errors
<1> QED
  BY <1>1, RejectKeeps DEF AddObjectRejected, SetObjectDataRejected

\* Storing a new object state under an object, old or new.
LEMMA BindKeeps ==
  ASSUME StorageInv, NEW r \in Revs, NEW ob \in Objects, NEW c \in Cells, NEW arg \in ObData,
         Bind(r, ob, c, arg),
         NEW pa, NEW ch,
         parent' = [parent EXCEPT ![r] = pa],
         children' = [children EXCEPT ![r] = ch],
         TypedForest(DOMAIN obstates[r] \cup {ob}, pa, ch),
         TypedLinks(Put(obstates[r], ob, c), pa, [content EXCEPT ![c] = arg]),
         r \in live, UNCHANGED <<live, is_transient, aborted>>, ret' = "ok",
         next_object_id' \in next_object_id..MaxId, ob \in 1..next_object_id'
  PROVE  StorageInv'
<1> DEFINE o == obstates[r]
           n == Put(o, ob, c)
           old == DOMAIN o \cap {ob}
           ct == [content EXCEPT ![c] = arg]
<1>1. /\ refcnt[c] = 0
      /\ obstates' = [obstates EXCEPT ![r] = n]
      /\ refcnt' = [Release(refcnt, o, old) EXCEPT ![c] = 1]
      /\ content' = [Sweep(refcnt', content) EXCEPT ![c] = arg]
  BY DEF Bind
<1>2. /\ refcnt \in [Cells -> Nat] /\ content \in [Cells -> ObData \cup {Freed}]
      /\ \A d \in Cells : refcnt[d] > 0 => content[d] \in ObData
      /\ live \subseteq Revs /\ is_transient \in [Revs -> BOOLEAN] /\ aborted \in BOOLEAN
      /\ next_object_id \in 0..MaxId
  BY DEF StorageInv, TypeOK, CountedAllocated
<1>3. /\ IsMap(o, Objects, Cells) /\ DOMAIN o \subseteq Objects
      /\ DOMAIN o \subseteq 1..next_object_id
  BY OneRevision
<1>4. o = obstates[r]
  OBVIOUS
<1> HIDE DEF o
<1>5. IsMap(n, Objects, Cells)
  BY <1>3, PutMap
<1>6. DOMAIN n = DOMAIN o \cup {ob}
  BY DEF Put
<1>7. \A d \in Cells : /\ Cardinality(Uses(o, DOMAIN o, d)) \in Nat
                       /\ refcnt[d] \in Nat
                       /\ Cardinality(Uses(o, DOMAIN o, d)) <= refcnt[d]
  BY <1>4, UsesBounded
<1>8. \A d \in Cells :
         /\ Cardinality(Uses(n, DOMAIN n, d))
              = Cardinality(Uses(o, DOMAIN o, d)) - Cardinality(Uses(o, old, d))
                  + IF c = d THEN 1 ELSE 0
         /\ Cardinality(Uses(o, old, d)) \in Nat
         /\ Cardinality(Uses(o, old, d)) <= Cardinality(Uses(o, DOMAIN o, d))
  <2>1. n = Put(o, ob, c) /\ old = DOMAIN o \cap {ob}
    OBVIOUS
  <2> HIDE DEF n, old
  <2> QED
    BY <1>3, <2>1, UsesPut
<1> HIDE DEF n, old
<1>9. \A d \in Cells : refcnt'[d] = IF d = c THEN 1 ELSE refcnt[d] - Cardinality(Uses(o, old, d))
  BY <1>1, <1>2 DEF Release
<1>10. DOMAIN refcnt' = Cells /\ refcnt' = [d \in Cells |-> refcnt'[d]]
  BY <1>1 DEF Release
<1>11. \A d \in Cells : refcnt'[d] = refcnt[d] - Cardinality(Uses(o, DOMAIN o, d))
                                        + Cardinality(Uses(n, DOMAIN n, d))
  <2> TAKE d \in Cells
  <2>1. CASE d = c
    BY <1>1, <1>7, <1>8, <1>9, <2>1
  <2>2. CASE d # c
    BY <1>7, <1>8, <1>9, <2>2
  <2> QED
    BY <2>1, <2>2
<1>12. refcnt' = [d \in Cells |-> refcnt[d] - Cardinality(Uses(o, DOMAIN o, d))
                                    + Cardinality(Uses(n, DOMAIN n, d))]
  BY <1>10, <1>11
<1>13. \A d \in Cells : content'[d] = IF d = c THEN arg
                                      ELSE IF refcnt'[d] = 0 THEN Freed ELSE content[d]
  BY <1>1 DEF Sweep
<1>14. content' \in [Cells -> ObData \cup {Freed}]
  BY <1>1, <1>2 DEF Sweep
<1>15. \A d \in Cells : refcnt'[d] > 0 => content'[d] \in ObData /\ content'[d] = ct[d]
  <2> SUFFICES ASSUME NEW d \in Cells, refcnt'[d] > 0
               PROVE  content'[d] \in ObData /\ content'[d] = ct[d]
    OBVIOUS
  <2>1. CASE d = c
    BY <1>2, <1>13, <2>1
  <2>2. CASE d # c
    <3>1. refcnt[d] > 0
      BY <1>7, <1>8, <1>9, <2>2
    <3> QED
      BY <1>2, <1>13, <2>2, <3>1
  <2> QED
    BY <2>1, <2>2
<1>16. \A d \in Cells : refcnt[d] > 0 /\ refcnt'[d] > 0 => content'[d] = content[d]
  <2> SUFFICES ASSUME NEW d \in Cells, refcnt[d] > 0, refcnt'[d] > 0
               PROVE  content'[d] = content[d]
    OBVIOUS
  <2>1. d # c /\ refcnt'[d] # 0
    BY <1>1
  <2> QED
    BY <1>13, <2>1
<1>17. /\ live' \subseteq Revs /\ live \subseteq live' \cup {r} /\ r \in live'
       /\ is_transient' \in [Revs -> BOOLEAN]
       /\ ret' \in Errors \cup {"ok"} /\ aborted' \in BOOLEAN
       /\ DOMAIN n \subseteq 1..next_object_id'
  BY <1>2, <1>3, <1>6
<1>18. TypedForest(DOMAIN n, pa, ch) /\ TypedLinks(n, pa, ct)
  BY <1>4, <1>6 DEF n
<1> HIDE DEF ct
<1>19. Effect(r, n, pa, ch, ct)
  BY <1>1, <1>4, <1>5, <1>12, <1>14, <1>15, <1>16, <1>17, <1>18 DEF Effect
<1> QED
  BY <1>19, OneRevisionStep

\* A cell with count 0 is free: giving it contents changes nothing a revision sees.
LEMMA FreshCell ==
  ASSUME StorageInv, NEW r \in Revs, NEW c \in Cells, refcnt[c] = 0, NEW arg,
         NEW x \in DOMAIN obstates[r]
  PROVE  [content EXCEPT ![c] = arg][obstates[r][x]] = content[obstates[r][x]]
<1>1. obstates[r][x] \in Cells /\ refcnt[obstates[r][x]] > 0
  BY UsedCounted
<1>2. content \in [Cells -> ObData \cup {Freed}]
  BY DEF StorageInv, TypeOK
<1> QED
  BY <1>1, <1>2

\* An argument that AddCheck accepts is good object data.
LEMMA ArgChecked ==
  ASSUME NEW r, NEW arg \in ObArgs, AddCheck(r, arg) = "ok"
  PROVE  arg \in ObData
BY DEF AddCheck, ObArgs, ObData

\* Binding and entering an object that is not in the revision.
LEMMA CreateKeeps ==
  ASSUME StorageInv, NEW r \in Revs, NEW ob \in Objects \ DOMAIN obstates[r],
         NEW c \in Cells, NEW arg \in ObData,
         Bind(r, ob, c, arg), Enter(r, ob),
         r \in live, UNCHANGED <<live, is_transient, aborted>>, ret' = "ok",
         next_object_id' \in next_object_id..MaxId, ob \in 1..next_object_id'
  PROVE  StorageInv'
<1> DEFINE o == obstates[r]
           pa == parent[r]
           ch == children[r]
           n == Put(o, ob, c)
           P == Put(pa, ob, Null)
           C == PushBack(ch, Null, ob)
           ct == [content EXCEPT ![c] = arg]
<1>1. /\ TypedForest(DOMAIN o, pa, ch)
      /\ DOMAIN pa = DOMAIN o
      /\ TypedLinks(o, pa, content)
  BY OneRevision
<1>2. children' = [children EXCEPT ![r] = C] /\ parent' = [parent EXCEPT ![r] = P]
  BY DEF Enter
<1>3. \A x \in DOMAIN o : ct[o[x]] = content[o[x]]
  <2>1. refcnt[c] = 0
    BY DEF Bind
  <2> TAKE x \in DOMAIN o
  <2>2. [content EXCEPT ![c] = arg][obstates[r][x]] = content[obstates[r][x]]
    BY <2>1, FreshCell
  <2> QED
    BY <2>2
<1>4. ob \in Objects \ DOMAIN o
  OBVIOUS
<1>5. \A x \in DOMAIN o : pa[x] \in DOMAIN o \cup {Null}
  BY <1>1 DEF TypedForest, IsForest
<1> HIDE DEF o, pa, ch, ct
<1>6. TypedForest(DOMAIN o \cup {ob}, P, C)
  BY <1>1, <1>4, ForestEnter
<1>7. TypedLinks(n, P, ct)
  <2> SUFFICES ASSUME NEW x \in DOMAIN P, P[x] # Null
               PROVE  ct[n[x]].type = "text" /\ ct[n[P[x]]].type = "net"
    BY DEF TypedLinks
  <2>1. x \in DOMAIN o /\ P[x] = pa[x] /\ P[x] \in DOMAIN o
    BY <1>1, <1>5 DEF Put
  <2>2. n[x] = o[x] /\ n[P[x]] = o[P[x]]
    BY <1>4, <2>1 DEF Put
  <2>3. content[o[x]].type = "text" /\ content[o[pa[x]]].type = "net"
    BY <1>1, <2>1 DEF TypedLinks
  <2> QED
    BY <1>3, <2>1, <2>2, <2>3
<1> HIDE DEF P, C
<1> QED
  BY <1>2, <1>6, <1>7, BindKeeps DEF o, ct

LEMMA AddObjectKeeps ==
  ASSUME StorageInv, NEW r \in Revs, NEW arg \in ObArgs, AddObject(r, arg)
  PROVE  StorageInv'
<1> DEFINE ob == next_object_id'
<1>1. ob \in Objects \ DOMAIN obstates[r]
  BY StorageAssumption DEF AddObject, StorageInv, TypeOK, NumberedObjects, Objects
<1>2. next_object_id' \in next_object_id..MaxId /\ ob \in 1..next_object_id'
  BY StorageAssumption DEF AddObject, StorageInv, TypeOK
<1>3. arg \in ObData
  BY ArgChecked DEF AddObject
<1>4. PICK c \in Cells : Bind(r, ob, c, arg)
  BY DEF AddObject
<1>5. /\ Enter(r, ob) /\ r \in live /\ UNCHANGED <<live, is_transient, aborted>> /\ ret' = "ok"
  BY DEF AddObject
<1>6. next_object_id' = ob
  OBVIOUS
<1> HIDE DEF ob
<1> QED
  BY <1>1, <1>2, <1>3, <1>4, <1>5, CreateKeeps

LEMMA SetObjectDataKeeps ==
  ASSUME StorageInv, NEW r \in Revs, NEW ob \in Objects, NEW arg \in ObArgs,
         SetObjectData(r, ob, arg)
  PROVE  StorageInv'
<1>1. arg \in ObData
  BY ArgChecked DEF SetObjectData, SetCheck
<1>2. PICK c \in Cells : Bind(r, ob, c, arg)
  BY DEF SetObjectData
<1>3. /\ r \in live /\ UNCHANGED <<live, is_transient, aborted>> /\ ret' = "ok"
      /\ next_object_id' \in next_object_id..MaxId /\ ob \in 1..next_object_id'
  BY DEF SetObjectData, StorageInv, TypeOK
<1>4. CASE ob \notin DOMAIN parent[r]
  <2>1. ob \in Objects \ DOMAIN obstates[r]
    BY <1>4, OneRevision
  <2>2. Enter(r, ob)
    BY <1>4 DEF SetObjectData
  <2> QED
    BY <1>1, <1>2, <1>3, <2>1, <2>2, CreateKeeps
<1>5. CASE ob \in DOMAIN parent[r]
  <2> DEFINE o == obstates[r]
             pa == parent[r]
             ch == children[r]
             n == Put(o, ob, c)
             ct == [content EXCEPT ![c] = arg]
  <2>1. /\ TypedForest(DOMAIN o, pa, ch)
        /\ DOMAIN pa = DOMAIN o
        /\ TypedLinks(o, pa, content)
        /\ ob \in DOMAIN o /\ DOMAIN o \cup {ob} = DOMAIN o
    BY <1>5, OneRevision
  <2>2. children' = [children EXCEPT ![r] = ch] /\ parent' = [parent EXCEPT ![r] = pa]
    BY <1>5, KeepsOwn DEF SetObjectData
  <2>3. \A x \in DOMAIN o : ct[o[x]] = content[o[x]]
    <3>1. refcnt[c] = 0
      BY <1>2 DEF Bind
    <3> QED
      BY <3>1, FreshCell
  <2>4. /\ Kids(ch, ob) # << >> => arg.type = "net"
        /\ pa[ob] # Null => arg.type = "text"
    BY <1>5 DEF SetObjectData, SetCheck
  <2>5. ct[c] = arg
    BY DEF StorageInv, TypeOK
  <2>6. \A x \in DOMAIN o : pa[x] \in DOMAIN o \cup {Null}
    BY <2>1 DEF TypedForest, IsForest
  <2>7. ASSUME NEW x \in DOMAIN o, pa[x] = ob
        PROVE  Kids(ch, ob) # << >>
    <3> HIDE DEF o, pa, ch
    <3>1. Elems(Kids(ch, ob)) = {y \in DOMAIN o : pa[y] = ob}
      BY <2>1, KidsSeq
    <3>2. Elems(Kids(ch, ob)) # {}
      BY <2>7, <3>1
    <3> QED
      BY <3>2, EmptySet
  <2> HIDE DEF o, pa, ch, ct
  <2>8. TypedLinks(n, pa, ct)
    <3> SUFFICES ASSUME NEW x \in DOMAIN pa, pa[x] # Null
                 PROVE  ct[n[x]].type = "text" /\ ct[n[pa[x]]].type = "net"
      BY DEF TypedLinks
    <3>1. x \in DOMAIN o /\ pa[x] \in DOMAIN o
      BY <2>1, <2>6
    <3>2. content[o[x]].type = "text" /\ content[o[pa[x]]].type = "net"
      BY <2>1 DEF TypedLinks
    <3>3. \A y \in DOMAIN o : n[y] = IF y = ob THEN c ELSE o[y]
      BY DEF Put
    <3> HIDE DEF n
    <3>4. ct[n[x]].type = "text"
      BY <2>3, <2>4, <2>5, <3>1, <3>2, <3>3
    <3>5. ct[n[pa[x]]].type = "net"
      BY <2>3, <2>4, <2>5, <2>7, <3>1, <3>2, <3>3
    <3> QED
      BY <3>4, <3>5
  <2>9. TypedForest(DOMAIN o \cup {ob}, pa, ch)
    BY <2>1
  <2> QED
    BY <1>1, <1>2, <1>3, <2>2, <2>8, <2>9, BindKeeps DEF o, ct
<1> QED
  BY <1>4, <1>5

\* What is attached to a selected object is deleted with it.
LEMMA SubtreeClosed ==
  ASSUME StorageInv, NEW r \in Revs, NEW S
  PROVE  /\ Subtree(r, S) \subseteq DOMAIN obstates[r]
         /\ \A ob \in DOMAIN obstates[r] :
              parent[r][ob] \in Subtree(r, S) => ob \in Subtree(r, S)
<1> DEFINE o == obstates[r]
           pa == parent[r]
           ch == children[r]
           tops == S \cap DOMAIN o
<1>1. /\ TypedForest(DOMAIN o, pa, ch) /\ DOMAIN pa = DOMAIN o
      /\ TypedLinks(o, pa, content) /\ DOMAIN o \subseteq Objects
  BY OneRevision
<1>2. Subtree(r, S) = tops \cup UNION {Elems(Kids(ch, ob)) : ob \in tops}
  BY DEF Subtree
<1> HIDE DEF o, pa, ch
<1>3. \A p \in DOMAIN o : Elems(Kids(ch, p)) = {x \in DOMAIN o : pa[x] = p}
  BY <1>1, KidsSeq
<1> HIDE DEF tops
<1>4. Subtree(r, S) = tops \cup {x \in DOMAIN o : pa[x] \in tops}
  BY <1>2, <1>3 DEF tops
<1>5. ASSUME NEW ob \in DOMAIN o, pa[ob] \in Subtree(r, S)
      PROVE  ob \in Subtree(r, S)
  <2>1. CASE pa[ob] \in tops
    BY <1>4, <2>1
  <2>2. CASE pa[ob] \notin tops
    <3>1. pa[ob] \in DOMAIN o /\ pa[pa[ob]] \in tops
      BY <1>4, <1>5, <2>2
    <3>2. Null \notin DOMAIN o
      BY <1>1 DEF Objects, Null
    <3>3. pa[ob] # Null /\ pa[pa[ob]] # Null
      BY <3>1, <3>2 DEF tops
    <3>4. content[o[pa[ob]]].type = "net" /\ content[o[pa[ob]]].type = "text"
      BY <1>1, <3>1, <3>3 DEF TypedLinks
    <3> QED
      BY <3>4
  <2> QED
    BY <2>1, <2>2
<1>6. Subtree(r, S) \subseteq DOMAIN o
  BY <1>4 DEF tops
<1> QED
  BY <1>5, <1>6 DEF o, pa

LEMMA DeleteKeeps ==
  ASSUME StorageInv, NEW r \in Revs, r \in live, NEW S, DeleteObjects(r, S)
  PROVE  StorageInv'
<1> DEFINE o == obstates[r]
           pa == parent[r]
           ch == children[r]
           D == Subtree(r, S)
           n == Drop(o, D)
           P == Drop(pa, D)
           C == Erase(ch, D)
<1>1. /\ TypedForest(DOMAIN o, pa, ch) /\ DOMAIN pa = DOMAIN o
      /\ TypedLinks(o, pa, content)
      /\ IsMap(o, Objects, Cells) /\ DOMAIN o \subseteq Objects
      /\ DOMAIN o \subseteq 1..next_object_id
  BY OneRevision
<1>2. D \subseteq DOMAIN o /\ \A ob \in DOMAIN o : pa[ob] \in D => ob \in D
  BY SubtreeClosed
<1>3. /\ obstates' = [obstates EXCEPT ![r] = n]
      /\ parent' = [parent EXCEPT ![r] = P]
      /\ children' = [children EXCEPT ![r] = C]
      /\ refcnt' = Release(refcnt, o, D)
      /\ content' = Sweep(refcnt', content)
      /\ ret' = "ok"
      /\ UNCHANGED <<live, is_transient, next_object_id, aborted>>
  BY DEF DeleteObjects
<1>4. /\ refcnt \in [Cells -> Nat] /\ next_object_id \in 0..MaxId
      /\ live \subseteq Revs /\ is_transient \in [Revs -> BOOLEAN] /\ aborted \in BOOLEAN
  BY DEF StorageInv, TypeOK
<1>5. o = obstates[r]
  OBVIOUS
<1> HIDE DEF o, pa, ch, D
<1>6. \A c \in Cells : /\ Cardinality(Uses(o, D, c)) \in Nat /\ refcnt[c] \in Nat
                       /\ Cardinality(Uses(o, D, c)) <= refcnt[c]
  BY <1>2, <1>5, UsesBounded
<1>7. IsMap(n, Objects, Cells)
  BY <1>1, DropMap
<1>8. DOMAIN n = DOMAIN o \ D
  BY DEF Drop
<1>9. D \in SUBSET Objects
  BY <1>1, <1>2
<1>10. TypedForest(DOMAIN o \ D, P, C)
  BY <1>1, <1>2, <1>9, ForestErase
<1>11. TypedLinks(n, P, content)
  <2> SUFFICES ASSUME NEW x \in DOMAIN P, P[x] # Null
               PROVE  content[n[x]].type = "text" /\ content[n[P[x]]].type = "net"
    BY DEF TypedLinks
  <2>1. x \in DOMAIN o \ D /\ P[x] = pa[x]
    BY <1>1 DEF Drop
  <2>2. pa[x] \in DOMAIN o \ D
    BY <1>1, <1>2, <2>1 DEF TypedForest, IsForest
  <2>3. n[x] = o[x] /\ n[P[x]] = o[pa[x]]
    BY <2>1, <2>2 DEF Drop
  <2> QED
    BY <1>1, <2>1, <2>3 DEF TypedLinks
<1>12. \A c \in Cells :
          /\ Cardinality(Uses(o, DOMAIN o, c))
               = Cardinality(Uses(o, D, c)) + Cardinality(Uses(n, DOMAIN n, c))
          /\ Cardinality(Uses(o, D, c)) \in Nat
          /\ Cardinality(Uses(n, DOMAIN n, c)) \in Nat
  BY <1>1, <1>2, UsesDrop
<1> HIDE DEF n, P, C
<1>13. refcnt' = [c \in Cells |-> refcnt[c] - Cardinality(Uses(o, DOMAIN o, c))
                                    + Cardinality(Uses(n, DOMAIN n, c))]
  <2>1. \A c \in Cells : refcnt[c] - Cardinality(Uses(o, D, c))
                           = refcnt[c] - Cardinality(Uses(o, DOMAIN o, c))
                               + Cardinality(Uses(n, DOMAIN n, c))
    BY <1>6, <1>12
  <2> QED
    BY <1>3, <2>1 DEF Release
<1>14. \A c \in Cells : refcnt'[c] \in Nat /\ refcnt'[c] <= refcnt[c]
  BY <1>3, <1>6 DEF Release
<1>15. /\ content' \in [Cells -> ObData \cup {Freed}]
       /\ \A c \in Cells : refcnt'[c] > 0 => content'[c] \in ObData /\ content'[c] = content[c]
  BY <1>3, <1>14, CountsSwept
<1>16. /\ live' \subseteq Revs /\ live \subseteq live' \cup {r} /\ r \in live'
       /\ is_transient' \in [Revs -> BOOLEAN]
       /\ ret' \in Errors \cup {"ok"} /\ aborted' \in BOOLEAN
       /\ next_object_id' \in next_object_id..MaxId
       /\ DOMAIN n \subseteq 1..next_object_id'
  BY <1>1, <1>3, <1>4, <1>8
<1>17. Effect(r, n, P, C, content)
  BY <1>3, <1>5, <1>7, <1>8, <1>10, <1>11, <1>13, <1>15, <1>16 DEF Effect
<1> QED
  BY <1>17, OneRevisionStep

LEMMA DeleteRejectedKeeps ==
  ASSUME StorageInv, NEW r, NEW ob, DeleteObjectRejected(r, ob) \/ DeleteSelectedRejected(r)
  PROVE  StorageInv'
<1>1. Reject("revision_not_transient") \/ Reject("object_doesnt_exist")
  BY DEF DeleteObjectRejected, DeleteSelectedRejected
<1> QED
  BY <1>1, RejectKeeps DEF Errors

-----------------------------------------------------------------------------
(* Copying objects.                                                        *)

\* A vector without duplicates has at most as many entries as there are objects.
LEMMA VectorBound ==
  ASSUME NEW s \in Seq(Objects), NoDuplicates(s)
  PROVE  Len(s) \in Nat /\ Len(s) <= MaxId
<1> DEFINE f == [i \in 1..Len(s) |-> s[i]]
<1>1. Len(s) \in Nat /\ \A i \in 1..Len(s) : s[i] \in Objects
  BY LenProperties, ElementOfSeq
<1>2. \A i, j \in 1..Len(s) : s[i] = s[j] => i = j
  BY DEF NoDuplicates
<1>3. f \in [1..Len(s) -> Objects] /\ \A i, j \in 1..Len(s) : f[i] = f[j] => i = j
  BY <1>1, <1>2
<1> HIDE DEF f
<1>4. f \in Injection(1..Len(s), Objects)
  BY <1>3, Fun_IsInj
<1>5. IsFiniteSet(Objects) /\ Cardinality(Objects) = MaxId
  <2>1. MaxId \in Nat
    BY StorageAssumption
  <2>2. IsFiniteSet(1..MaxId) /\ Cardinality(1..MaxId) = IF 1 > MaxId THEN 0 ELSE MaxId - 1 + 1
    BY <2>1, FS_Interval
  <2> QED
    BY <2>1, <2>2 DEF Objects
<1>6. Cardinality(1..Len(s)) <= Cardinality(Objects)
  BY <1>4, <1>5, FS_Injection
<1>7. Cardinality(1..Len(s)) = Len(s)
  <2>1. Cardinality(1..Len(s)) = IF 1 > Len(s) THEN 0 ELSE Len(s) - 1 + 1
    BY <1>1, FS_Interval, SMTT(40)
  <2> QED
    BY <1>1, <2>1
<1> QED
  BY <1>1, <1>5, <1>6, <1>7

ItemOrder(items) == {p \in items \X items : Precedes(p[1], p[2])}

\* The items of a copy are finitely many pairs of an object and a position.
LEMMA ItemsFinite ==
  ASSUME StorageInv, NEW src \in Revs, NEW S
  PROVE  /\ IsFiniteSet(Items(src, S))
         /\ \A it \in Items(src, S) :
              /\ it = <<it[1], it[2]>>
              /\ it[1] \in DOMAIN obstates[src] /\ it[1] \in Objects
              /\ it[2] \in 0..Len(Kids(children[src], it[1]))
              /\ it[2] \in Nat
              /\ <<it[1], 0>> \in Items(src, S)
<1> DEFINE o == obstates[src]
           ch == children[src]
           I == Items(src, S)
<1>1. TypedForest(DOMAIN o, parent[src], ch) /\ DOMAIN o \subseteq Objects
  BY OneRevision
<1>2. I = UNION {{<<ob, i>> : i \in 0..Len(Kids(ch, ob))} : ob \in S \cap DOMAIN o}
  BY DEF Items
<1> HIDE DEF o, ch, I
<1>3. \A ob \in DOMAIN o : Kids(ch, ob) \in Seq(Objects) /\ NoDuplicates(Kids(ch, ob))
  BY <1>1, KidsSeq
<1>4. \A ob \in DOMAIN o : Len(Kids(ch, ob)) \in Nat /\ Len(Kids(ch, ob)) <= MaxId
  BY <1>3, VectorBound
<1>5. \A it \in I : \E ob \in S \cap DOMAIN o : \E i \in 0..Len(Kids(ch, ob)) : it = <<ob, i>>
  BY <1>2
<1>6. \A ob \in S \cap DOMAIN o : <<ob, 0>> \in I
  <2> TAKE ob \in S \cap DOMAIN o
  <2>1. 0 \in 0..Len(Kids(ch, ob))
    BY <1>4
  <2>2. <<ob, 0>> \in {<<ob, i>> : i \in 0..Len(Kids(ch, ob))}
    BY <2>1
  <2> QED
    BY <1>2, <2>2
<1>7. IsFiniteSet(I)
  <2>1. IsFiniteSet(Objects) /\ IsFiniteSet(0..MaxId)
    BY StorageAssumption, FS_Interval DEF Objects
  <2>2. IsFiniteSet(Objects \X (0..MaxId))
    BY <2>1, FS_Product
  <2>3. I \in SUBSET (Objects \X (0..MaxId))
    <3> SUFFICES ASSUME NEW it \in I
                 PROVE  it \in Objects \X (0..MaxId)
      OBVIOUS
    <3>1. PICK ob \in DOMAIN o : \E i \in 0..Len(Kids(ch, ob)) : it = <<ob, i>>
      BY <1>5
    <3>2. PICK i \in 0..Len(Kids(ch, ob)) : it = <<ob, i>>
      BY <3>1
    <3>3. i \in 0..MaxId
      BY <1>4, StorageAssumption
    <3> QED
      BY <1>1, <3>2, <3>3
  <2> QED
    BY <2>2, <2>3, FS_Subset
<1>8. ASSUME NEW it \in I
      PROVE  /\ it = <<it[1], it[2]>>
             /\ it[1] \in DOMAIN o /\ it[1] \in Objects
             /\ it[2] \in 0..Len(Kids(ch, it[1]))
             /\ it[2] \in Nat
             /\ <<it[1], 0>> \in I
  <2>1. PICK ob \in S \cap DOMAIN o : \E i \in 0..Len(Kids(ch, ob)) : it = <<ob, i>>
    BY <1>5
  <2>2. PICK i \in 0..Len(Kids(ch, ob)) : it = <<ob, i>>
    BY <2>1
  <2>3. it[1] = ob /\ it[2] = i
    BY <2>2
  <2>4. i \in Nat
    BY <1>4
  <2> QED
    BY <1>1, <1>6, <2>2, <2>3, <2>4
<1> QED
  BY <1>7, <1>8 DEF o, ch, I

LEMMA ItemsOrdered ==
  ASSUME StorageInv, NEW src \in Revs, NEW S, NEW items, items = Items(src, S)
  PROVE  /\ StrictOrder(items, ItemOrder(items))
         /\ Lists(CopyOrder(items), Cardinality(items), items, ItemOrder(items))
<1>1. IsFiniteSet(items)
  BY ItemsFinite
<1>2. \A a \in items : a = <<a[1], a[2]>> /\ a[1] \in Int /\ a[2] \in Int
  <2>1. \A a \in Items(src, S) : a = <<a[1], a[2]>> /\ a[1] \in Objects /\ a[2] \in Nat
    BY ItemsFinite
  <2> QED
    BY <2>1 DEF Objects
<1>3. \A a, b \in items : <<a, b>> \in ItemOrder(items) <=> a[1] < b[1] \/ (a[1] = b[1] /\ a[2] < b[2])
  BY DEF ItemOrder, Precedes
<1>4. StrictOrder(items, ItemOrder(items))
  <2>1. \A x \in items : <<x, x>> \notin ItemOrder(items)
    BY <1>2, <1>3
  <2>2. \A x, y \in items : x # y => <<x, y>> \in ItemOrder(items) \/ <<y, x>> \in ItemOrder(items)
    <3> SUFFICES ASSUME NEW x \in items, NEW y \in items, x # y
                 PROVE  <<x, y>> \in ItemOrder(items) \/ <<y, x>> \in ItemOrder(items)
      OBVIOUS
    <3>1. x[1] # y[1] \/ x[2] # y[2]
      BY <1>2
    <3> QED
      BY <1>2, <1>3, <3>1
  <2>3. \A x, y, z \in items :
           <<x, y>> \in ItemOrder(items) /\ <<y, z>> \in ItemOrder(items)
             => <<x, z>> \in ItemOrder(items)
    BY <1>2, <1>3
  <2> QED
    BY <2>1, <2>2, <2>3 DEF StrictOrder
<1>5. CopyOrder(items) = Ranked(items, ItemOrder(items))
  BY DEF CopyOrder, ItemOrder
<1>6. Lists(Ranked(items, ItemOrder(items)), Cardinality(items), items, ItemOrder(items))
  BY <1>1, <1>4, RankedOrder
<1> QED
  BY <1>4, <1>5, <1>6

\* What comes before in the order comes before in the list.
LEMMA ListsMonotone ==
  ASSUME NEW S, IsFiniteSet(S), NEW R, StrictOrder(S, R), NEW s, NEW n, Lists(s, n, S, R),
         NEW k \in 1..n, NEW x \in S, <<x, s[k]>> \in R
  PROVE  \E j \in 1..k-1 : s[j] = x
<1> DEFINE below(y) == {z \in S : <<z, y>> \in R}
           j == Cardinality(below(x)) + 1
<1>1. /\ n \in Nat
      /\ s[k] \in S /\ Cardinality(below(s[k])) = k - 1
      /\ j \in 1..n /\ s[j] = x
  BY DEF Lists
<1>2. below(x) \cup {x} \in SUBSET below(s[k])
  BY <1>1 DEF StrictOrder
<1>3. x \notin below(x)
  BY DEF StrictOrder
<1>4. IsFiniteSet(below(x)) /\ IsFiniteSet(below(s[k]))
  <2>1. below(x) \in SUBSET S /\ below(s[k]) \in SUBSET S
    OBVIOUS
  <2> HIDE DEF below
  <2> QED
    BY <2>1, FS_Subset
<1> HIDE DEF below
<1>5. Cardinality(below(x) \cup {x}) = Cardinality(below(x)) + 1
  BY <1>3, <1>4, FS_AddElement
<1>6. Cardinality(below(x) \cup {x}) <= Cardinality(below(s[k]))
  BY <1>2, <1>4, FS_Subset
<1>7. j <= k - 1
  BY <1>1, <1>5, <1>6
<1>8. j \in 1..k-1
  BY <1>1, <1>7
<1> QED
  BY <1>1, <1>8

(* The m new objects of a copy, seen from the revision they go to: their   *)
(* object states cells and their parents cp, and which of them are tops.   *)
Copies(new, tops, cells, cp) ==
  /\ tops \subseteq new
  /\ DOMAIN cells = new /\ DOMAIN cp = new
  /\ cells = [id \in new |-> cells[id]] /\ cp = [id \in new |-> cp[id]]
  /\ \A id \in new : cells[id] \in Cells /\ refcnt[cells[id]] > 0
  /\ \A id \in tops : cp[id] = Null
  /\ \A id \in new \ tops : /\ cp[id] \in tops
                            /\ content[cells[id]].type = "text"
                            /\ content[cells[cp[id]]].type = "net"

LEMMA CopiesMade ==
  ASSUME StorageInv, NEW src \in Revs, NEW S, NEW items, items = Items(src, S),
         NEW order, order = CopyOrder(items), NEW m \in 0..Cardinality(items)
  PROVE  Copies(NewIds(m), TopCopies(order, m), CopiedCells(src, order, m), CopiedParent(order, m))
<1> DEFINE o == obstates[src]
           pa == parent[src]
           ch == children[src]
           n == next_object_id
           N == Cardinality(items)
           R == ItemOrder(items)
           new == NewIds(m)
           tops == TopCopies(order, m)
           cells == CopiedCells(src, order, m)
           cp == CopiedParent(order, m)
<1>1. /\ IsFiniteSet(items) /\ N \in Nat
  BY ItemsFinite, FS_CardinalityType
<1>2. StrictOrder(items, R) /\ Lists(order, N, items, R)
  BY ItemsOrdered
<1>3. n \in Nat /\ new = n+1 .. n+m /\ m \in Nat /\ m <= N
  BY <1>1 DEF StorageInv, TypeOK, NewIds
<1>4. \A k \in 1..N : order[k] \in items
  BY <1>2 DEF Lists
<1>5. \A id \in new : id - n \in 1..m /\ id - n \in 1..N /\ n + (id - n) = id
  <2> HIDE DEF n, N, new
  <2> QED
    BY <1>1, <1>3
<1>6. \A k \in 1..m : n + k \in new /\ (n + k) - n = k
  <2> HIDE DEF n, new
  <2> QED
    BY <1>3
<1>7. /\ TypedForest(DOMAIN o, pa, ch) /\ DOMAIN pa = DOMAIN o
      /\ TypedLinks(o, pa, content) /\ DOMAIN o \subseteq Objects
  BY OneRevision
<1>8. \A it \in items :
        /\ it = <<it[1], it[2]>>
        /\ it[1] \in DOMAIN o
        /\ it[2] \in 0..Len(Kids(ch, it[1]))
        /\ it[2] \in Nat
        /\ <<it[1], 0>> \in items
  <2>1. \A it \in Items(src, S) :
          /\ it = <<it[1], it[2]>>
          /\ it[1] \in DOMAIN obstates[src]
          /\ it[2] \in 0..Len(Kids(children[src], it[1]))
          /\ it[2] \in Nat
          /\ <<it[1], 0>> \in Items(src, S)
    BY ItemsFinite
  <2> QED
    BY <2>1
<1>9. \A x \in DOMAIN o : o[x] \in Cells /\ refcnt[o[x]] > 0
  BY UsedCounted
<1>10. \A it \in items : it[2] = 0 => Original(src, it) = it[1]
  BY DEF Original
<1>11. \A it \in items : it[2] # 0 => /\ Original(src, it) \in DOMAIN o
                                      /\ pa[Original(src, it)] = it[1]
  <2> SUFFICES ASSUME NEW it \in items, it[2] # 0
               PROVE  Original(src, it) \in DOMAIN o /\ pa[Original(src, it)] = it[1]
    OBVIOUS
  <2>1. Elems(Kids(ch, it[1])) = {x \in DOMAIN o : pa[x] = it[1]}
    <3> DEFINE p == it[1]
    <3>1. p \in DOMAIN o \cup {Null}
      BY <1>8
    <3> HIDE DEF p, o, pa, ch
    <3>2. Elems(Kids(ch, p)) = {x \in DOMAIN o : pa[x] = p}
      BY <1>7, <3>1, KidsSeq
    <3> QED
      BY <3>2 DEF p
  <2>2. Len(Kids(ch, it[1])) \in Nat
    <3> DEFINE p == it[1]
    <3>1. p \in DOMAIN o \cup {Null}
      BY <1>8
    <3> HIDE DEF p, o, pa, ch
    <3>2. Len(Kids(ch, p)) \in Nat
      BY <1>7, <3>1, KidsSeq, LenProperties
    <3> QED
      BY <3>2 DEF p
  <2>3. it[2] \in 1..Len(Kids(ch, it[1]))
    <3> DEFINE L == Len(Kids(ch, it[1]))
    <3>1. it[2] \in 0..L /\ L \in Nat
      BY <1>8, <2>2
    <3> HIDE DEF L
    <3>2. it[2] \in 1..L
      BY <3>1
    <3> QED
      BY <3>2 DEF L
  <2>4. it[1] \in DOMAIN ch
    BY <2>3 DEF Kids
  <2>5. Original(src, it) = Kids(ch, it[1])[it[2]]
    BY <2>4 DEF Original, Kids
  <2>6. Original(src, it) \in Elems(Kids(ch, it[1]))
    BY <2>3, <2>5 DEF Elems
  <2> QED
    BY <2>1, <2>6
<1>12. \A it \in items : Original(src, it) \in DOMAIN o
  BY <1>8, <1>10, <1>11
<1>13. /\ DOMAIN cells = new /\ cells = [id \in new |-> cells[id]]
       /\ \A id \in new : cells[id] = o[Original(src, order[id - n])]
  BY DEF CopiedCells, SourceOf
<1>14. tops = {id \in new : order[id - n][2] = 0}
  BY DEF TopCopies
<1>15. /\ DOMAIN cp = new /\ cp = [id \in new |-> cp[id]]
       /\ \A id \in new : cp[id] = IF id \in tops THEN Null
                                   ELSE CHOOSE t \in tops : order[t - n][1] = order[id - n][1]
  BY DEF CopiedParent
<1> HIDE DEF o, pa, ch, n, N, R, new, tops, cells, cp
<1>16. \A id \in new : cells[id] \in Cells /\ refcnt[cells[id]] > 0
  BY <1>4, <1>5, <1>9, <1>12, <1>13
<1>17. \A id \in tops : id \in new /\ cp[id] = Null
  BY <1>14, <1>15
<1>18. ASSUME NEW id \in new \ tops
       PROVE  /\ cp[id] \in tops
              /\ content[cells[id]].type = "text"
              /\ content[cells[cp[id]]].type = "net"
  <2> DEFINE k == id - n
             it == order[k]
             top == <<it[1], 0>>
  <2>1. /\ k \in 1..m /\ k \in 1..N /\ n + k = id
        /\ it \in items /\ it[2] # 0 /\ it[2] \in Nat
        /\ it = <<it[1], it[2]>> /\ it[1] \in DOMAIN o /\ top \in items
    BY <1>4, <1>5, <1>8, <1>14
  <2>2. <<top, order[k]>> \in R
    BY <2>1 DEF R, ItemOrder, Precedes
  <2>3. \E j \in 1..k-1 : order[j] = top
    <3> HIDE DEF k, top
    <3> QED
      BY <1>1, <1>2, <2>1, <2>2, ListsMonotone
  <2>4. PICK j \in 1..k-1 : order[j] = top
    BY <2>3
  <2>5. j \in 1..m
    BY <1>3, <2>1
  <2>6. n + j \in tops /\ order[(n + j) - n][1] = it[1]
    BY <1>6, <1>14, <2>4, <2>5
  <2>7. cp[id] = CHOOSE t \in tops : order[t - n][1] = it[1]
    BY <1>15
  <2> HIDE DEF it
  <2>8. cp[id] \in tops /\ order[cp[id] - n][1] = it[1]
    BY <2>6, <2>7
  <2>9. /\ order[cp[id] - n] \in items /\ order[cp[id] - n][2] = 0
        /\ cells[cp[id]] = o[Original(src, order[cp[id] - n])]
    BY <1>4, <1>5, <1>13, <1>14, <2>8
  <2>10. cells[cp[id]] = o[it[1]]
    BY <1>10, <2>8, <2>9
  <2>11. cells[id] = o[Original(src, it)]
    BY <1>13 DEF it
  <2>12. Original(src, it) \in DOMAIN o /\ pa[Original(src, it)] = it[1] /\ it[1] # Null
    BY <1>7, <1>11, <2>1 DEF Objects, Null
  <2>13. content[o[Original(src, it)]].type = "text" /\ content[o[it[1]]].type = "net"
    BY <1>7, <2>12 DEF TypedLinks
  <2> QED
    BY <2>8, <2>10, <2>11, <2>13
<1> QED
  BY <1>13, <1>15, <1>16, <1>17, <1>18, ZenonT(60) DEF Copies, new, tops, cells, cp

LEMMA InOrderSet ==
  ASSUME next_object_id \in Nat, NEW m \in Nat, next_object_id + m <= MaxId,
         NEW D, D \subseteq NewIds(m)
  PROVE  /\ InOrderMade(D, m) \in Seq(Objects)
         /\ Elems(InOrderMade(D, m)) = D
         /\ NoDuplicates(InOrderMade(D, m))
<1> DEFINE s == [k \in 1..m |-> next_object_id + k]
           gone == NewIds(m) \ D
<1>1. s \in Seq(Objects) /\ Len(s) = m
  <2>1. \A k \in 1..m : next_object_id + k \in Objects
    BY StorageAssumption DEF Objects
  <2> QED
    BY <2>1
<1>2. \A k \in 1..m : s[k] = next_object_id + k
  OBVIOUS
<1> HIDE DEF s
<1>3. Elems(s) = NewIds(m)
  <2>1. \A k \in 1..m : next_object_id + k \in NewIds(m)
    BY DEF NewIds
  <2>2. \A id \in NewIds(m) : id - next_object_id \in 1..m /\ next_object_id + (id - next_object_id) = id
    BY DEF NewIds
  <2>3. ASSUME NEW k \in 1..Len(s) PROVE s[k] \in NewIds(m)
    BY <1>1, <1>2, <2>1
  <2>4. ASSUME NEW id \in NewIds(m) PROVE \E k \in 1..Len(s) : s[k] = id
    BY <1>1, <1>2, <2>2
  <2> QED
    BY <2>3, <2>4 DEF Elems
<1>4. NoDuplicates(s)
  BY <1>1, <1>2 DEF NoDuplicates
<1> HIDE DEF gone
<1>5. /\ Without(s, gone) \in Seq(Objects)
      /\ Elems(Without(s, gone)) = Elems(s) \ gone
      /\ NoDuplicates(Without(s, gone))
  BY <1>1, <1>4, WithoutSet
<1>6. Elems(s) \ gone = D
  BY <1>3 DEF gone
<1>7. InOrderMade(D, m) = Without(s, gone)
  BY DEF InOrderMade, s, gone
<1> QED
  BY <1>5, <1>6, <1>7

LEMMA ForestCopy ==
  ASSUME NEW obs, NEW pa, NEW ch, TypedForest(obs, pa, ch),
         next_object_id \in Nat, NEW m \in Nat, next_object_id + m <= MaxId,
         obs \cap NewIds(m) = {},
         NEW order, NEW cells, Copies(NewIds(m), TopCopies(order, m), cells, CopiedParent(order, m))
  PROVE  TypedForest(obs \cup NewIds(m), Merge(pa, CopiedParent(order, m)),
                     CopiedChildren(ch, order, m))
<1> DEFINE new == NewIds(m)
           tops == TopCopies(order, m)
           cp == CopiedParent(order, m)
           P == Merge(pa, cp)
           C == CopiedChildren(ch, order, m)
           attached(t) == {id \in new : cp[id] = t}
           hosts == {t \in tops : attached(t) # {}}
           all == obs \cup new
<1>1. /\ obs \subseteq Objects /\ IsMap(pa, Objects, Objects \cup {Null})
      /\ IsMap(ch, Objects \cup {Null}, Seq(Objects))
      /\ DOMAIN pa = obs
      /\ DOMAIN ch \subseteq obs \cup {Null}
      /\ \A x \in obs : pa[x] \in DOMAIN ch
      /\ \A q \in DOMAIN ch : Elems(ch[q]) = {x \in obs : pa[x] = q} /\ NoDuplicates(ch[q])
  BY DEF TypedForest, IsForest
<1>2. /\ tops \subseteq new
      /\ DOMAIN cp = new /\ cp = [id \in new |-> cp[id]]
      /\ \A id \in tops : cp[id] = Null
      /\ \A id \in new \ tops : cp[id] \in tops
  BY DEF Copies
<1>3. new \subseteq Objects
  BY StorageAssumption DEF NewIds, Objects
<1>4. Null \notin Objects
  BY DEF Objects, Null
<1>5. /\ Kids(ch, Null) \in Seq(Objects)
      /\ Elems(Kids(ch, Null)) = {x \in obs : pa[x] = Null}
      /\ NoDuplicates(Kids(ch, Null))
  BY KidsSeq
<1>6. /\ DOMAIN C = DOMAIN ch \cup {Null} \cup hosts
      /\ \A p \in DOMAIN C : C[p] = IF p \in hosts THEN InOrderMade(attached(p), m)
                                    ELSE IF p = Null THEN Kids(ch, Null) \o InOrderMade(tops, m)
                                    ELSE ch[p]
      /\ C = [p \in DOMAIN C |-> C[p]]
  BY DEF CopiedChildren
<1> HIDE DEF tops, cp, C
<1>7. obs \cap new = {}
  OBVIOUS
<1>8. \A t : /\ InOrderMade(attached(t), m) \in Seq(Objects)
             /\ Elems(InOrderMade(attached(t), m)) = attached(t)
             /\ NoDuplicates(InOrderMade(attached(t), m))
  <2> TAKE t
  <2>1. attached(t) \subseteq NewIds(m)
    OBVIOUS
  <2> HIDE DEF attached
  <2> QED
    BY <2>1, InOrderSet
<1>9. /\ InOrderMade(tops, m) \in Seq(Objects)
      /\ Elems(InOrderMade(tops, m)) = tops
      /\ NoDuplicates(InOrderMade(tops, m))
  BY <1>2, InOrderSet
<1> HIDE DEF new
<1>10. /\ Kids(ch, Null) \o InOrderMade(tops, m) \in Seq(Objects)
       /\ Elems(Kids(ch, Null) \o InOrderMade(tops, m)) = {x \in obs : pa[x] = Null} \cup tops
       /\ NoDuplicates(Kids(ch, Null) \o InOrderMade(tops, m))
  <2>1. Elems(Kids(ch, Null)) \cap Elems(InOrderMade(tops, m)) = {}
    BY <1>2, <1>5, <1>7, <1>9
  <2>2. /\ Kids(ch, Null) \o InOrderMade(tops, m) \in Seq(Objects)
        /\ Elems(Kids(ch, Null) \o InOrderMade(tops, m))
             = Elems(Kids(ch, Null)) \cup Elems(InOrderMade(tops, m))
        /\ NoDuplicates(Kids(ch, Null) \o InOrderMade(tops, m))
    BY <1>5, <1>9, <2>1, ConcatSet
  <2> QED
    BY <1>5, <1>9, <2>2
<1>11. /\ DOMAIN P = all
       /\ \A x \in obs : P[x] = pa[x]
       /\ \A x \in new : P[x] = cp[x]
  BY <1>1, <1>2, <1>7 DEF Merge
<1>12. IsMap(P, Objects, Objects \cup {Null})
  <2>1. IsMap(cp, Objects, Objects \cup {Null})
    <3>1. \A id \in new : cp[id] \in Objects \cup {Null}
      BY <1>2, <1>3
    <3>2. cp \in [new -> Objects \cup {Null}]
      BY <1>2, <3>1
    <3> QED
      BY <1>2, <1>3, <3>2 DEF IsMap
  <2> QED
    BY <1>1, <2>1, MergeMap
<1> HIDE DEF P
<1>13. ASSUME NEW p \in DOMAIN C
       PROVE  /\ C[p] \in Seq(Objects)
              /\ Elems(C[p]) = {x \in all : P[x] = p}
              /\ NoDuplicates(C[p])
  <2>1. CASE p \in hosts
    <3>1. p \in new /\ p # Null
      BY <1>2, <1>3, <1>4, <2>1
    <3>2. {x \in all : P[x] = p} = attached(p)
      <4>1. \A x \in obs : pa[x] # p
        BY <1>1, <1>7, <3>1
      <4> QED
        BY <1>11, <4>1
    <3>3. C[p] = InOrderMade(attached(p), m)
      BY <1>6, <2>1
    <3> HIDE DEF attached, all
    <3> QED
      BY <1>8, <3>2, <3>3
  <2>2. CASE p = Null
    <3>1. p \notin hosts
      BY <1>2, <1>3, <1>4, <2>2
    <3>2. \A x \in new : cp[x] = Null <=> x \in tops
      BY <1>2, <1>3, <1>4
    <3>3. {x \in all : P[x] = Null} = {x \in obs : pa[x] = Null} \cup tops
      BY <1>2, <1>11, <3>2
    <3>4. C[p] = Kids(ch, Null) \o InOrderMade(tops, m)
      BY <1>6, <2>2, <3>1
    <3> QED
      BY <1>10, <2>2, <3>3, <3>4
  <2>3. CASE p \notin hosts /\ p # Null
    <3>1. p \in DOMAIN ch /\ C[p] = ch[p]
      BY <1>6, <2>3
    <3>2. p \in obs
      BY <1>1, <2>3, <3>1
    <3>3. \A x \in new : cp[x] # p
      <4> SUFFICES ASSUME NEW x \in new
                   PROVE  cp[x] # p
        OBVIOUS
      <4>1. p \notin new
        BY <1>7, <3>2
      <4>2. CASE x \in tops
        BY <1>2, <2>3, <4>2
      <4>3. CASE x \notin tops
        BY <1>2, <4>1, <4>3
      <4> QED
        BY <4>2, <4>3
    <3>4. {x \in all : P[x] = p} = {x \in obs : pa[x] = p}
      BY <1>11, <3>3
    <3>5. ch[p] \in Seq(Objects)
      BY <1>1, <3>1 DEF IsMap
    <3> QED
      BY <1>1, <3>1, <3>4, <3>5
  <2> QED
    BY <2>1, <2>2, <2>3
<1>14. IsMap(C, Objects \cup {Null}, Seq(Objects))
  <2>1. DOMAIN C \subseteq Objects \cup {Null}
    BY <1>1, <1>2, <1>3, <1>6
  <2>2. C \in [DOMAIN C -> Seq(Objects)]
    BY <1>6, <1>13
  <2> QED
    BY <2>1, <2>2 DEF IsMap
<1>15. DOMAIN C \subseteq all \cup {Null}
  BY <1>1, <1>2, <1>6
<1>16. \A x \in all : P[x] \in DOMAIN C
  <2>1. \A x \in obs : P[x] \in DOMAIN C
    BY <1>1, <1>6, <1>11
  <2>2. \A x \in new : P[x] \in DOMAIN C
    BY <1>2, <1>6, <1>11, ZenonT(60)
  <2> QED
    BY <2>1, <2>2
<1>17. all \subseteq Objects
  BY <1>1, <1>3
<1> HIDE DEF all
<1>18. TypedForest(all, P, C)
  BY <1>11, <1>12, <1>13, <1>14, <1>15, <1>16, <1>17 DEF TypedForest, IsForest
<1> QED
  BY <1>18 DEF all, new, P, C, cp

LEMMA DropMerge ==
  ASSUME NEW f, NEW K, NEW V, IsMap(f, K, V), NEW g, NEW D, DOMAIN g = D, DOMAIN f \cap D = {}
  PROVE  Drop(Merge(f, g), D) = f
<1>1. f = [x \in DOMAIN f |-> f[x]]
  BY DEF IsMap
<1>2. DOMAIN Drop(Merge(f, g), D) = DOMAIN f
  BY DEF Drop, Merge
<1>3. Drop(Merge(f, g), D) = [x \in DOMAIN f |-> f[x]]
  BY <1>2 DEF Drop, Merge
<1> QED
  BY <1>1, <1>3

LEMMA MergeNone ==
  ASSUME NEW f, NEW K, NEW V, IsMap(f, K, V), NEW g, DOMAIN g = {}
  PROVE  Merge(f, g) = f
<1>1. f = [x \in DOMAIN f |-> f[x]]
  BY DEF IsMap
<1>2. Merge(f, g) = [x \in DOMAIN f |-> f[x]]
  BY DEF Merge
<1> QED
  BY <1>1, <1>2

\* The first m copies of a call that copies the objects S of src.
Planned(src, S, items, order, m) ==
  /\ items = Items(src, S) /\ order = CopyOrder(items)
  /\ m \in 0..Cardinality(items) /\ next_object_id + m <= MaxId

\* The maps of dest once m copies are made.
CopiedInto(dest, src, order, m, obs, pa, ch) ==
  /\ obs = Merge(obstates[dest], CopiedCells(src, order, m))
  /\ pa = Merge(parent[dest], CopiedParent(order, m))
  /\ ch = IF m = 0 THEN children[dest] ELSE CopiedChildren(children[dest], order, m)

LEMMA CopiesTyped ==
  ASSUME StorageInv, NEW dest \in Revs, NEW src \in Revs,
         NEW S, NEW items, NEW order, NEW m, Planned(src, S, items, order, m),
         NEW obs, NEW pa, NEW ch, CopiedInto(dest, src, order, m, obs, pa, ch)
  PROVE  /\ IsMap(obs, Objects, Cells)
         /\ DOMAIN obs = DOMAIN obstates[dest] \cup NewIds(m)
         /\ DOMAIN obs \subseteq 1 .. next_object_id + m
         /\ DOMAIN obstates[dest] \cap NewIds(m) = {}
         /\ NewIds(m) \subseteq Objects
         /\ DOMAIN CopiedCells(src, order, m) = NewIds(m)
         /\ DOMAIN CopiedParent(order, m) = NewIds(m)
         /\ \A id \in NewIds(m) : refcnt[CopiedCells(src, order, m)[id]] > 0
         /\ TypedForest(DOMAIN obs, pa, ch)
         /\ TypedLinks(obs, pa, content)
<1> DEFINE o == obstates[dest]
           p == parent[dest]
           c == children[dest]
           new == NewIds(m)
           tops == TopCopies(order, m)
           cells == CopiedCells(src, order, m)
           cp == CopiedParent(order, m)
<1>0. /\ items = Items(src, S) /\ order = CopyOrder(items)
      /\ m \in 0..Cardinality(items) /\ next_object_id + m <= MaxId
  BY DEF Planned
<1>1. /\ IsMap(o, Objects, Cells)
      /\ DOMAIN o \subseteq Objects
      /\ DOMAIN o \subseteq 1..next_object_id
      /\ TypedForest(DOMAIN o, p, c)
      /\ DOMAIN p = DOMAIN o
      /\ TypedLinks(o, p, content)
  BY OneRevision
<1>2. /\ next_object_id \in Nat /\ m \in Nat
  <2>1. Cardinality(items) \in Nat
    BY <1>0, ItemsFinite, FS_CardinalityType
  <2> QED
    BY <1>0, <2>1 DEF StorageInv, TypeOK
<1>3. Copies(new, tops, cells, cp)
  BY <1>0, CopiesMade
<1>4. obs = Merge(o, cells) /\ pa = Merge(p, cp)
      /\ ch = IF m = 0 THEN c ELSE CopiedChildren(c, order, m)
  BY DEF CopiedInto
<1>5. new \subseteq Objects
  BY <1>0, <1>2, StorageAssumption DEF NewIds, Objects
<1>6. DOMAIN o \cap new = {}
  BY <1>1, <1>2 DEF NewIds
<1>7. TypedForest(DOMAIN o \cup new, Merge(p, cp), CopiedChildren(c, order, m))
  <2> HIDE DEF o, p, c, cells
  <2> QED
    BY <1>0, <1>1, <1>2, <1>3, <1>6, ForestCopy
<1> HIDE DEF o, p, c, tops, cells, cp
<1>8. /\ DOMAIN cells = new /\ DOMAIN cp = new
      /\ cells = [id \in new |-> cells[id]]
      /\ \A id \in new : cells[id] \in Cells /\ refcnt[cells[id]] > 0
      /\ tops \subseteq new
      /\ \A id \in tops : cp[id] = Null
      /\ \A id \in new \ tops : /\ cp[id] \in tops
                                /\ content[cells[id]].type = "text"
                                /\ content[cells[cp[id]]].type = "net"
  BY <1>3 DEF Copies
<1>9. DOMAIN obs = DOMAIN o \cup new
  BY <1>4, <1>8 DEF Merge
<1>10. DOMAIN obs \subseteq 1 .. next_object_id + m
  <2>1. new \subseteq 1 .. next_object_id + m
    BY <1>2 DEF NewIds
  <2>2. 1..next_object_id \subseteq 1 .. next_object_id + m
    BY <1>2
  <2> HIDE DEF new
  <2> QED
    BY <1>1, <1>9, <2>1, <2>2
<1>11. \A x \in DOMAIN o : p[x] \in DOMAIN o \cup {Null}
  BY <1>1 DEF TypedForest, IsForest
<1> HIDE DEF new
<1>12. IsMap(obs, Objects, Cells)
  <2>1. cells \in [new -> Cells]
    BY <1>8
  <2>2. IsMap(cells, Objects, Cells)
    BY <1>5, <1>8, <2>1 DEF IsMap
  <2> QED
    BY <1>1, <1>4, <2>2, MergeMap
<1>13. TypedForest(DOMAIN obs, pa, ch)
  <2>1. CASE m = 0
    <3>1. new = {}
      BY <1>2, <2>1 DEF new, NewIds
    <3>2. Merge(p, cp) = p
      BY <1>1, <1>8, <3>1, MergeNone DEF TypedForest
    <3>3. DOMAIN obs = DOMAIN o
      BY <1>9, <3>1
    <3> QED
      BY <1>1, <1>4, <2>1, <3>2, <3>3
  <2>2. CASE m # 0
    BY <1>4, <1>7, <1>9, <2>2
  <2> QED
    BY <2>1, <2>2
<1>14. TypedLinks(obs, pa, content)
  <2> SUFFICES ASSUME NEW x \in DOMAIN pa, pa[x] # Null
               PROVE  content[obs[x]].type = "text" /\ content[obs[pa[x]]].type = "net"
    BY DEF TypedLinks
  <2>1. x \in DOMAIN o \/ x \in new
    BY <1>1, <1>4, <1>8 DEF Merge
  <2>2. CASE x \in DOMAIN o
    <3>1. pa[x] = p[x] /\ p[x] \in DOMAIN o
      BY <1>1, <1>4, <1>6, <1>8, <1>11, <2>2 DEF Merge
    <3>2. obs[x] = o[x] /\ obs[pa[x]] = o[p[x]]
      BY <1>4, <1>6, <1>8, <2>2, <3>1 DEF Merge
    <3> QED
      BY <1>1, <2>2, <3>1, <3>2 DEF TypedLinks
  <2>3. CASE x \in new
    <3>1. pa[x] = cp[x] /\ x \notin tops /\ cp[x] \in new
      BY <1>4, <1>8, <2>3 DEF Merge
    <3>2. obs[x] = cells[x] /\ obs[pa[x]] = cells[cp[x]]
      BY <1>4, <1>8, <2>3, <3>1 DEF Merge
    <3> QED
      BY <1>8, <2>3, <3>1, <3>2
  <2> QED
    BY <2>1, <2>2, <2>3
<1> QED
  BY <1>5, <1>6, <1>8, <1>9, <1>10, <1>12, <1>13, <1>14 DEF o, new, cells, cp

\* The counts after m copies, and that only cells in use gain references.
LEMMA CopiesCounted ==
  ASSUME StorageInv, NEW own, DOMAIN own \subseteq Objects,
         NEW cells, NEW new, DOMAIN cells = new, new \subseteq Objects,
         DOMAIN own \cap new = {},
         NEW obs, obs = Merge(own, cells),
         \A id \in new : refcnt[cells[id]] > 0
  PROVE  /\ Retain(refcnt, cells, new)
               = [c \in Cells |-> refcnt[c] - Cardinality(Uses(own, DOMAIN own, c))
                                    + Cardinality(Uses(obs, DOMAIN obs, c))]
         /\ \A c \in Cells : Retain(refcnt, cells, new)[c] > 0 => refcnt[c] > 0
         /\ Release(Retain(refcnt, cells, new), cells, new) = refcnt
<1>1. /\ refcnt = [c \in Cells |-> refcnt[c]]
      /\ \A c \in Cells : refcnt[c] \in Nat
  BY DEF StorageInv, TypeOK
<1>2. \A c \in Cells :
         /\ Cardinality(Uses(obs, DOMAIN obs, c))
              = Cardinality(Uses(own, DOMAIN own, c)) + Cardinality(Uses(cells, new, c))
         /\ Cardinality(Uses(own, DOMAIN own, c)) \in Nat
         /\ Cardinality(Uses(cells, new, c)) \in Nat
  BY UsesMerge
<1>3. Retain(refcnt, cells, new)
        = [c \in Cells |-> refcnt[c] - Cardinality(Uses(own, DOMAIN own, c))
                             + Cardinality(Uses(obs, DOMAIN obs, c))]
  <2>1. \A c \in Cells : refcnt[c] + Cardinality(Uses(cells, new, c))
                           = refcnt[c] - Cardinality(Uses(own, DOMAIN own, c))
                               + Cardinality(Uses(obs, DOMAIN obs, c))
    BY <1>1, <1>2
  <2> QED
    BY <2>1 DEF Retain
<1>4. ASSUME NEW c \in Cells, Retain(refcnt, cells, new)[c] > 0, ~(refcnt[c] > 0)
      PROVE  FALSE
  <2>1. Uses(cells, new, c) = {}
    BY <1>4 DEF Uses
  <2>2. Cardinality(Uses(cells, new, c)) = 0
    BY <2>1, FS_EmptySet
  <2> QED
    BY <1>1, <1>4, <2>2 DEF Retain
<1>5. Release(Retain(refcnt, cells, new), cells, new) = refcnt
  <2>1. \A c \in Cells : refcnt[c] + Cardinality(Uses(cells, new, c)) - Cardinality(Uses(cells, new, c))
                           = refcnt[c]
    BY <1>1, <1>2
  <2> DEFINE rc == Retain(refcnt, cells, new)
  <2>2. \A c \in Cells : rc[c] = refcnt[c] + Cardinality(Uses(cells, new, c))
    BY DEF Retain
  <2> HIDE DEF rc
  <2>3. \A c \in Cells : rc[c] - Cardinality(Uses(cells, new, c)) = refcnt[c]
    BY <1>1, <1>2, <2>2
  <2>4. Release(rc, cells, new) = refcnt
    BY <1>1, <2>3 DEF Release
  <2> QED
    BY <2>4 DEF rc
<1> QED
  BY <1>3, <1>4, <1>5

LEMMA CopyObjectsKeeps ==
  ASSUME StorageInv, NEW dest \in Revs, dest \in live, NEW src \in Revs,
         NEW S, CopyObjects(dest, src, S)
  PROVE  StorageInv'
<1> DEFINE items == Items(src, S)
           m == Cardinality(items)
           order == CopyOrder(items)
           o == obstates[dest]
           cells == CopiedCells(src, order, m)
           new == NewIds(m)
           obs == Merge(o, cells)
           pa == Merge(parent[dest], CopiedParent(order, m))
           ch == IF m = 0 THEN children[dest] ELSE CopiedChildren(children[dest], order, m)
<1>1. /\ next_object_id + m <= MaxId
      /\ next_object_id' = next_object_id + m
      /\ obstates' = [obstates EXCEPT ![dest] = obs]
      /\ parent' = [parent EXCEPT ![dest] = pa]
      /\ children' = [children EXCEPT ![dest] = ch]
      /\ refcnt' = Retain(refcnt, cells, new)
      /\ ret' = "ok"
      /\ UNCHANGED <<live, is_transient, content, aborted>>
  BY DEF CopyObjects
<1>2. m \in Nat
  BY ItemsFinite, FS_CardinalityType
<1>3. CopiedInto(dest, src, order, m, obs, pa, ch)
  BY DEF CopiedInto
<1>4. /\ items = Items(src, S) /\ order = CopyOrder(items) /\ m = Cardinality(items)
      /\ o = obstates[dest] /\ new = NewIds(m) /\ cells = CopiedCells(src, order, m)
      /\ obs = Merge(o, cells)
  OBVIOUS
<1> HIDE DEF items, m, order, obs, pa, ch, cells, new, o
<1>5. m \in 0..Cardinality(items)
  BY <1>2, <1>4
<1>6. /\ IsMap(obs, Objects, Cells)
      /\ DOMAIN obs \subseteq 1 .. next_object_id + m
      /\ DOMAIN o \cap new = {}
      /\ new \subseteq Objects
      /\ DOMAIN cells = new
      /\ \A id \in new : refcnt[cells[id]] > 0
      /\ TypedForest(DOMAIN obs, pa, ch)
      /\ TypedLinks(obs, pa, content)
  <2>1. /\ IsMap(obs, Objects, Cells)
        /\ DOMAIN obs \subseteq 1 .. next_object_id + m
        /\ DOMAIN obstates[dest] \cap NewIds(m) = {}
        /\ NewIds(m) \subseteq Objects
        /\ DOMAIN CopiedCells(src, order, m) = NewIds(m)
        /\ \A id \in NewIds(m) : refcnt[CopiedCells(src, order, m)[id]] > 0
        /\ TypedForest(DOMAIN obs, pa, ch)
        /\ TypedLinks(obs, pa, content)
    <3>1. Planned(src, S, items, order, m)
      BY <1>1, <1>4, <1>5 DEF Planned
    <3>2. DOMAIN CopiedCells(src, order, m) = NewIds(m)
      BY DEF CopiedCells
    <3>3. /\ IsMap(obs, Objects, Cells)
          /\ DOMAIN obs \subseteq 1 .. next_object_id + m
          /\ DOMAIN obstates[dest] \cap NewIds(m) = {}
          /\ NewIds(m) \subseteq Objects
          /\ \A id \in NewIds(m) : refcnt[CopiedCells(src, order, m)[id]] > 0
          /\ TypedForest(DOMAIN obs, pa, ch)
          /\ TypedLinks(obs, pa, content)
      BY <1>3, <3>1, CopiesTyped
    <3> QED
      BY <3>2, <3>3
  <2> QED
    BY <1>4, <2>1
<1>7. DOMAIN o \subseteq Objects
  BY <1>4, OneRevision
<1>8. /\ refcnt' = [c \in Cells |-> refcnt[c] - Cardinality(Uses(o, DOMAIN o, c))
                                      + Cardinality(Uses(obs, DOMAIN obs, c))]
      /\ \A c \in Cells : refcnt'[c] > 0 => refcnt[c] > 0
  BY <1>1, <1>4, <1>6, <1>7, CopiesCounted
<1>9. /\ content' \in [Cells -> ObData \cup {Freed}]
      /\ \A c \in Cells : refcnt'[c] > 0 => content'[c] \in ObData /\ content'[c] = content[c]
  BY <1>1, <1>8, CountsGrow
<1>10. /\ live' \subseteq Revs /\ live \subseteq live' \cup {dest} /\ dest \in live'
       /\ is_transient' \in [Revs -> BOOLEAN]
       /\ ret' \in Errors \cup {"ok"} /\ aborted' \in BOOLEAN
       /\ next_object_id' \in next_object_id..MaxId
       /\ DOMAIN obs \subseteq 1..next_object_id'
  BY <1>1, <1>2, <1>6, StorageAssumption DEF StorageInv, TypeOK
<1>11. Effect(dest, obs, pa, ch, content)
  BY <1>1, <1>4, <1>6, <1>8, <1>9, <1>10 DEF Effect
<1> QED
  BY <1>11, OneRevisionStep

\* Erasing the copies leaves a forest of what dest had before.
LEMMA CopiesErased ==
  ASSUME NEW o, NEW p, NEW c, TypedForest(DOMAIN o, p, c), DOMAIN p = DOMAIN o,
         NEW new, new \subseteq Objects, DOMAIN o \cap new = {},
         NEW cp, DOMAIN cp = new,
         NEW ch, TypedForest(DOMAIN o \cup new, Merge(p, cp), ch),
         NEW left, left \in {ch, Touch(ch, Null)}
  PROVE  TypedForest(DOMAIN o, p, Erase(left, new))
<1> DEFINE obs == DOMAIN o
           all == obs \cup new
           pa == Merge(p, cp)
<1>1. TypedForest(all, pa, left)
  <2>1. Null \in all \cup {Null}
    OBVIOUS
  <2> HIDE DEF all, pa
  <2>2. TypedForest(all, pa, ch)
    BY DEF all, pa, obs
  <2> QED
    BY <2>1, <2>2, ForestTouch
<1>2. \A x \in obs : pa[x] = p[x] /\ p[x] \in obs \cup {Null}
  BY DEF Merge, TypedForest, IsForest
<1>3. Null \notin new
  BY DEF Null, Objects
<1>4. \A x \in all : pa[x] \in new => x \in new
  BY <1>2, <1>3
<1>5. Drop(pa, new) = p
  <2>1. IsMap(p, Objects, Objects \cup {Null})
    BY DEF TypedForest
  <2> QED
    BY <2>1, DropMerge
<1>6. all \ new = obs
  OBVIOUS
<1>7. new \in SUBSET Objects
  OBVIOUS
<1> HIDE DEF all, pa, obs
<1>8. TypedForest(all \ new, Drop(pa, new), Erase(left, new))
  BY <1>1, <1>4, <1>7, ForestErase
<1> QED
  BY <1>5, <1>6, <1>8 DEF obs

LEMMA CopyObjectsFailsKeeps ==
  ASSUME StorageInv, NEW dest \in Revs, dest \in live, NEW src \in Revs,
         NEW S, CopyObjectsFails(dest, src, S)
  PROVE  StorageInv'
<1> DEFINE items == Items(src, S)
           order == CopyOrder(items)
           o == obstates[dest]
           p == parent[dest]
           c == children[dest]
           cells(m) == CopiedCells(src, order, m)
           cp(m) == CopiedParent(order, m)
           chm(m) == IF m = 0 THEN c ELSE CopiedChildren(c, order, m)
<1>1. PICK m \in 0..Cardinality(items) - 1 :
        /\ next_object_id + m + 1 <= MaxId
        /\ next_object_id' = next_object_id + m + 1
        /\ obstates' = [obstates EXCEPT ![dest] = Drop(Merge(o, cells(m)), NewIds(m))]
        /\ parent' = [parent EXCEPT ![dest] = Drop(Merge(p, cp(m)), NewIds(m))]
        /\ \E left \in {chm(m), Touch(chm(m), Null)} :
             children' = [children EXCEPT ![dest] = Erase(left, NewIds(m))]
        /\ refcnt' = Release(Retain(refcnt, cells(m), NewIds(m)), cells(m), NewIds(m))
        /\ content' = Sweep(refcnt', content)
        /\ ret' = "out_of_memory"
        /\ UNCHANGED <<live, is_transient, aborted>>
  BY DEF CopyObjectsFails
<1>2. PICK left \in {chm(m), Touch(chm(m), Null)} :
             children' = [children EXCEPT ![dest] = Erase(left, NewIds(m))]
  BY <1>1
<1> DEFINE new == NewIds(m)
           made == cells(m)
           pm == cp(m)
           ch == chm(m)
           obs == Merge(o, made)
           pa == Merge(p, pm)
<1>3. Cardinality(items) \in Nat /\ m \in Nat
  BY <1>1, ItemsFinite, FS_CardinalityType
<1>4. next_object_id \in Nat
  BY DEF StorageInv, TypeOK
<1>5. Planned(src, S, items, order, m)
  BY <1>1, <1>3, <1>4, StorageAssumption DEF Planned
<1>6. CopiedInto(dest, src, order, m, obs, pa, ch)
  BY DEF CopiedInto
<1>7. DOMAIN made = new /\ DOMAIN pm = new
  BY DEF CopiedCells, CopiedParent
<1>8. /\ IsMap(o, Objects, Cells) /\ DOMAIN o \subseteq Objects
      /\ DOMAIN o \subseteq 1..next_object_id
      /\ TypedForest(DOMAIN o, p, c) /\ DOMAIN p = DOMAIN o
      /\ TypedLinks(o, p, content)
  BY OneRevision
<1>9. /\ DOMAIN o \cap new = {} /\ new \subseteq Objects
      /\ \A id \in new : refcnt[made[id]] > 0
      /\ DOMAIN obs = DOMAIN o \cup new
      /\ TypedForest(DOMAIN obs, pa, ch)
  <2>1. o = obstates[dest] /\ new = NewIds(m) /\ made = CopiedCells(src, order, m)
    OBVIOUS
  <2> HIDE DEF items, order, new, o, p, c, made, pm, ch, obs, pa
  <2>2. /\ DOMAIN obstates[dest] \cap NewIds(m) = {} /\ NewIds(m) \subseteq Objects
        /\ \A id \in NewIds(m) : refcnt[CopiedCells(src, order, m)[id]] > 0
        /\ TypedForest(DOMAIN obs, pa, ch)
    BY <1>5, <1>6, CopiesTyped
  <2>3. DOMAIN obs = DOMAIN o \cup new
    BY <1>7 DEF obs, Merge
  <2> QED
    BY <2>1, <2>2, <2>3
<1>10. /\ obstates' = [obstates EXCEPT ![dest] = Drop(obs, new)]
       /\ parent' = [parent EXCEPT ![dest] = Drop(pa, new)]
       /\ children' = [children EXCEPT ![dest] = Erase(left, new)]
       /\ left \in {ch, Touch(ch, Null)}
       /\ refcnt' = Release(Retain(refcnt, made, new), made, new)
  BY <1>1, <1>2
<1>11. obs = Merge(o, made) /\ pa = Merge(p, pm)
  OBVIOUS
<1>12. o = obstates[dest]
  OBVIOUS
<1> HIDE DEF items, order, o, p, c, cells, cp, chm, new, made, pm, ch, obs, pa
<1>13. Drop(obs, new) = o
  BY <1>7, <1>8, <1>9, <1>11, DropMerge
<1>14. Drop(pa, new) = p
  BY <1>7, <1>8, <1>9, <1>11, DropMerge DEF TypedForest
<1>15. TypedForest(DOMAIN o, p, Erase(left, new))
  BY <1>7, <1>8, <1>9, <1>10, <1>11, CopiesErased
<1>16. refcnt' = refcnt
  BY <1>7, <1>8, <1>9, <1>10, <1>11, CopiesCounted
<1>17. refcnt \in [Cells -> Nat]
  BY DEF StorageInv, TypeOK
<1>18. /\ content' \in [Cells -> ObData \cup {Freed}]
       /\ \A x \in Cells : refcnt'[x] > 0 => content'[x] \in ObData /\ content'[x] = content[x]
  <2>1. \A x \in Cells : refcnt'[x] \in Nat /\ refcnt'[x] <= refcnt[x]
    BY <1>16, <1>17
  <2>2. content' = Sweep(refcnt', content)
    BY <1>1
  <2> QED
    BY <2>1, <2>2, CountsSwept
<1>19. refcnt' = [x \in Cells |-> refcnt[x] - Cardinality(Uses(o, DOMAIN o, x))
                                     + Cardinality(Uses(o, DOMAIN o, x))]
  <2>1. \A x \in Cells : Cardinality(Uses(o, DOMAIN o, x)) \in Nat
    BY <1>8, UsesFinite
  <2>2. refcnt = [x \in Cells |-> refcnt[x] - Cardinality(Uses(o, DOMAIN o, x))
                                     + Cardinality(Uses(o, DOMAIN o, x))]
    BY <1>17, <2>1
  <2> QED
    BY <1>16, <2>2
<1>20. /\ live' \subseteq Revs /\ live \subseteq live' \cup {dest} /\ dest \in live'
       /\ is_transient' \in [Revs -> BOOLEAN]
       /\ ret' \in Errors \cup {"ok"} /\ aborted' \in BOOLEAN
  BY <1>1 DEF StorageInv, TypeOK, Errors
<1>21. next_object_id' \in next_object_id..MaxId /\ DOMAIN o \subseteq 1..next_object_id'
  BY <1>1, <1>3, <1>4, <1>8, StorageAssumption
<1>22. Effect(dest, o, p, Erase(left, new), content)
  BY <1>8, <1>10, <1>12, <1>13, <1>14, <1>15, <1>18, <1>19, <1>20, <1>21 DEF Effect
<1> QED
  BY <1>22, OneRevisionStep

LEMMA RevisionCallKeeps ==
  ASSUME StorageInv, RevisionCall
  PROVE  StorageInv'
<1>1. ASSUME NEW r \in Revs, NewRevision(r) PROVE StorageInv'
  BY <1>1, NewRevisionKeeps
<1>2. ASSUME NEW r \in Revs, FinalizeRevision(r) PROVE StorageInv'
  BY <1>2, FinalizeRevisionKeeps
<1>3. ASSUME NEW r \in Revs, FreeRevision(r) PROVE StorageInv'
  BY <1>3, FreeRevisionKeeps
<1>4. ASSUME NEW r \in Revs, NEW from \in Revs, CopyRevision(r, from) PROVE StorageInv'
  BY <1>4, CopyRevisionKeeps
<1>5. ASSUME NewRevisionFails PROVE StorageInv'
  BY <1>5, RejectKeeps DEF NewRevisionFails, Errors
<1> QED
  BY <1>1, <1>2, <1>3, <1>4, <1>5 DEF RevisionCall

LEMMA ObjectCallKeeps ==
  ASSUME StorageInv, ObjectCall
  PROVE  StorageInv'
<1>1. ASSUME NEW r \in Revs, NEW arg \in ObArgs, AddObject(r, arg) PROVE StorageInv'
  BY <1>1, AddObjectKeeps
<1>2. ASSUME NEW r \in Revs, NEW arg \in ObArgs, AddObjectFails(r, arg) PROVE StorageInv'
  BY <1>2, AddObjectFailsKeeps
<1>3. ASSUME NEW r \in Revs, NEW arg \in ObArgs, AddObjectRejected(r, arg) PROVE StorageInv'
  BY <1>3, ArgRejectedKeeps
<1>4. ASSUME NEW r \in Revs, NEW arg \in ObArgs, NEW ob \in Objects, SetObjectData(r, ob, arg)
      PROVE StorageInv'
  BY <1>4, SetObjectDataKeeps
<1>5. ASSUME NEW r \in Revs, NEW arg \in ObArgs, NEW ob \in Objects, SetObjectDataFails(r, ob, arg)
      PROVE StorageInv'
  BY <1>5, SetObjectDataFailsKeeps
<1>6. ASSUME NEW r \in Revs, NEW arg \in ObArgs, NEW ob \in Objects, SetObjectDataRejected(r, ob, arg)
      PROVE StorageInv'
  BY <1>6, ArgRejectedKeeps
<1> QED
  BY <1>1, <1>2, <1>3, <1>4, <1>5, <1>6 DEF ObjectCall

LEMMA RelocateCallKeeps ==
  ASSUME StorageInv, RelocateCall
  PROVE  StorageInv'
<1>1. PICK r \in Revs : \E ob \in Objects, to \in Objects \cup {Null} :
        \/ RelocateAborts(r, ob, to)
        \/ RelocateRejected(r, ob, to)
        \/ \E before \in 0..next_object_id :
             \/ Relocate(r, ob, to, before)
             \/ RelocateNoSuccessor(r, ob, to, before)
             \/ RelocateFails(r, ob, to, before)
  BY DEF RelocateCall
<1>2. ASSUME NEW ob \in Objects, NEW to, RelocateAborts(r, ob, to) PROVE StorageInv'
  BY <1>2, RelocateAbortsKeeps
<1>3. ASSUME NEW ob \in Objects, NEW to, RelocateRejected(r, ob, to) PROVE StorageInv'
  BY <1>3, RelocateRejectedKeeps
<1>4. ASSUME NEW ob \in Objects, NEW to, NEW before, Relocate(r, ob, to, before) PROVE StorageInv'
  BY <1>4, RelocateKeeps
<1>5. ASSUME NEW ob \in Objects, NEW to, NEW before,
             RelocateNoSuccessor(r, ob, to, before) \/ RelocateFails(r, ob, to, before)
      PROVE StorageInv'
  BY <1>5, RelocateFailsKeeps
<1> QED
  BY <1>1, <1>2, <1>3, <1>4, <1>5

LEMMA DeleteCallKeeps ==
  ASSUME StorageInv, DeleteCall
  PROVE  StorageInv'
<1>1. ASSUME NEW r \in Revs, NEW ob, DeleteObject(r, ob) PROVE StorageInv'
  BY <1>1, DeleteKeeps DEF DeleteObject
<1>2. ASSUME NEW r \in Revs, NEW sel, DeleteSelectedObjects(r, sel) PROVE StorageInv'
  BY <1>2, DeleteKeeps DEF DeleteSelectedObjects
<1>3. ASSUME NEW r, NEW ob, DeleteObjectRejected(r, ob) PROVE StorageInv'
  BY <1>3, DeleteRejectedKeeps
<1>4. ASSUME NEW r, DeleteSelectedRejected(r) PROVE StorageInv'
  BY <1>4, DeleteRejectedKeeps
<1> QED
  BY <1>1, <1>2, <1>3, <1>4 DEF DeleteCall

LEMMA CopyCallKeeps ==
  ASSUME StorageInv, CopyCall
  PROVE  StorageInv'
<1>1. ASSUME NEW dest \in Revs, NEW src \in Revs, dest \in live, NEW S,
             CopyObjects(dest, src, S) \/ CopyObjectsFails(dest, src, S)
      PROVE StorageInv'
  BY <1>1, CopyObjectsKeeps, CopyObjectsFailsKeeps
<1>2. ASSUME NEW err \in Errors, Reject(err) PROVE StorageInv'
  BY <1>2, RejectKeeps
<1>3. {"revision_not_transient", "object_doesnt_exist", "out_of_memory"} \subseteq Errors
  BY DEF Errors
<1>4. ASSUME NEW dest \in Revs, NEW src \in Revs, NEW ob,
             CopyObject(dest, src, ob) \/ CopyObjectRejected(dest, src, ob)
      PROVE StorageInv'
  BY <1>1, <1>2, <1>3, <1>4 DEF CopyObject, CopyObjectRejected
<1>5. ASSUME NEW dest \in Revs, NEW src \in Revs, NEW sel, CopySelected(dest, src, sel)
      PROVE StorageInv'
  BY <1>1, <1>2, <1>3, <1>5 DEF CopySelected
<1>6. ASSUME NEW dest \in Revs, NEW src \in Revs, CopySelectedRejected(dest, src)
      PROVE StorageInv'
  BY <1>2, <1>3, <1>6 DEF CopySelectedRejected
<1> QED
  BY <1>4, <1>5, <1>6 DEF CopyCall

LEMMA NextKeeps ==
  ASSUME StorageInv, [Next]_vars
  PROVE  StorageInv'
<1>1. CASE UNCHANGED vars
  <2>1. /\ UNCHANGED <<rev_vars, heap_vars, next_object_id>>
        /\ live' = live /\ is_transient' = is_transient /\ ret' = ret /\ aborted' = aborted
    BY <1>1 DEF vars, rev_vars, heap_vars
  <2>2. live' \subseteq Revs /\ is_transient' \in [Revs -> BOOLEAN]
        /\ ret' \in Errors \cup {"ok"} /\ aborted' \in BOOLEAN
    BY <2>1 DEF StorageInv, TypeOK
  <2> QED
    BY <2>1, <2>2, QuietStep
<1>2. CASE Next
  BY <1>2, RevisionCallKeeps, ObjectCallKeeps, RelocateCallKeeps, DeleteCallKeeps, CopyCallKeeps
     DEF Next
<1> QED
  BY <1>1, <1>2

-----------------------------------------------------------------------------
(* The invariants, for any number of revisions, cells and objects.         *)

(* Every reachable state of the storage satisfies the inductive invariant, *)
(* whatever calls are made and wherever they run out of memory.            *)
THEOREM Invariance == Spec => []StorageInv
<1>1. Init => StorageInv
  BY InitInv
<1>2. StorageInv /\ [Next]_vars => StorageInv'
  BY NextKeeps
<1> QED
  BY <1>1, <1>2, PTL DEF Spec

(* The three maps of every revision, the heap and the results of calls     *)
(* (src/xorn/src/storage/internal.h) always have their types.              *)
THEOREM TypeCorrect == Spec => []TypeOK
<1>1. StorageInv => TypeOK
  BY DEF StorageInv
<1> QED
  BY <1>1, Invariance, PTL

(* obstate::refcnt is exactly the number of entries, over all revisions,   *)
(* that refer to the object state: no call leaks a reference or releases   *)
(* one twice (obstate.cc, revision.cc, manipulate.cc).                     *)
THEOREM CountsAreExact == Spec => []RefcountExact
<1>1. StorageInv => RefcountExact
  BY DEF StorageInv
<1> QED
  BY <1>1, Invariance, PTL

(* No revision refers to a deleted object state, so the query functions    *)
(* never read freed memory.                                                *)
THEOREM NothingDangles == Spec => []NoDanglingState
<1>1. StorageInv => NoDanglingState
  <2> SUFFICES ASSUME StorageInv, NEW r \in Revs, NEW ob \in DOMAIN obstates[r]
               PROVE  content[obstates[r][ob]] # Freed
    BY DEF NoDanglingState
  <2>1. obstates[r][ob] \in Cells /\ refcnt[obstates[r][ob]] > 0
    BY UsedCounted
  <2>2. content[obstates[r][ob]] \in ObData
    BY <2>1 DEF StorageInv, CountedAllocated
  <2> QED
    BY <2>2, StorageAssumption DEF ObData, Freed
<1> QED
  BY <1>1, Invariance, PTL

(* The maps obstates, parent and children of every revision describe one   *)
(* forest (struct xorn_revision in internal.h).                            *)
THEOREM RevisionsAreForests == Spec => []TreeConsistent
<1>1. StorageInv => TreeConsistent
  BY DEF StorageInv
<1> QED
  BY <1>1, Invariance, PTL

(* Only texts are attached, and only to nets and components, although      *)
(* xorn_set_object_data can change the type of an object at either end.    *)
THEOREM AttachmentsAreTyped == Spec => []AttachmentsTyped
<1>1. StorageInv => AttachmentsTyped
  BY DEF StorageInv
<1> QED
  BY <1>1, Invariance, PTL

-----------------------------------------------------------------------------
(***************************************************************************)
(* What one call of the storage does to the revisions it was not given:    *)
(* the action properties of XornStorage, from its inductive invariant.     *)
(***************************************************************************)

\* The maps of revision s are left alone.
Untouched(s) ==
  /\ obstates'[s] = obstates[s]
  /\ parent'[s] = parent[s]
  /\ children'[s] = children[s]

\* A cell that stays counted keeps its content.
CellsKept == \A c \in Cells : refcnt[c] > 0 /\ refcnt'[c] > 0 => content'[c] = content[c]

\* What a call on r may do to the revisions.
OnlyChanges(r) ==
  /\ \A s \in Revs \ {r} : Untouched(s)
  /\ r \in live \cap live' => is_transient[r] \/ Untouched(r)

Domains ==
  /\ DOMAIN obstates = Revs /\ DOMAIN parent = Revs /\ DOMAIN children = Revs
  /\ refcnt \in [Cells -> Nat] /\ content \in [Cells -> ObData \cup {Freed}]
  /\ is_transient \in [Revs -> BOOLEAN] /\ live \subseteq Revs

LEMMA DomainsKnown == ASSUME StorageInv PROVE Domains
BY DEF StorageInv, TypeOK, Domains

\* A call given a transient revision that writes only its maps.
LEMMA WritesOne ==
  ASSUME Domains, NEW r \in Revs, is_transient[r],
         \/ UNCHANGED obstates
         \/ \E x : obstates' = [obstates EXCEPT ![r] = x],
         \/ UNCHANGED parent
         \/ \E x : parent' = [parent EXCEPT ![r] = x],
         \/ UNCHANGED children
         \/ \E x : children' = [children EXCEPT ![r] = x]
  PROVE  OnlyChanges(r)
<1>1. ASSUME NEW s \in Revs \ {r} PROVE obstates'[s] = obstates[s]
  BY DEF Domains
<1>2. ASSUME NEW s \in Revs \ {r} PROVE parent'[s] = parent[s]
  BY DEF Domains
<1>3. ASSUME NEW s \in Revs \ {r} PROVE children'[s] = children[s]
  BY DEF Domains
<1> QED
  BY <1>1, <1>2, <1>3 DEF OnlyChanges, Untouched

LEMMA RejectLeaves ==
  ASSUME NEW err, Reject(err)
  PROVE  /\ \A s \in Revs : Untouched(s)
         /\ UNCHANGED <<live, is_transient>>
         /\ CellsKept
BY DEF Reject, Untouched, CellsKept, rev_vars, heap_vars

\* What every call satisfies.
Contained ==
  /\ (\A s \in Revs : Untouched(s)) \/ \E r \in Revs : OnlyChanges(r)
  /\ CellsKept
  /\ \A r \in live \cap live' : ~is_transient[r] => ~is_transient'[r]

LEMMA RejectContained == ASSUME NEW err, Reject(err) PROVE Contained
BY RejectLeaves DEF Contained

\* Freeing what is no longer counted keeps the other cells.
LEMMA SweepKeeps ==
  ASSUME Domains, content' = Sweep(refcnt', content)
  PROVE  CellsKept
BY DEF Sweep, CellsKept, Domains

LEMMA SameContentKeeps ==
  ASSUME UNCHANGED content
  PROVE  CellsKept
BY DEF CellsKept

\* A call that writes the maps of one transient revision and no flags.
LEMMA WriteContained ==
  ASSUME NEW r \in Revs, OnlyChanges(r), CellsKept, UNCHANGED is_transient
  PROVE  Contained
BY DEF Contained

LEMMA RevisionCallContained ==
  ASSUME Domains, RevisionCall
  PROVE  Contained
<1>1. ASSUME NEW r \in Revs, NewRevision(r) \/ FinalizeRevision(r) PROVE Contained
  <2>1. UNCHANGED <<rev_vars, heap_vars>>
    BY <1>1 DEF NewRevision, FinalizeRevision
  <2>2. \A s \in Revs : Untouched(s)
    BY <2>1 DEF Untouched, rev_vars
  <2>3. CellsKept
    BY <2>1, SameContentKeeps DEF heap_vars
  <2>4. \A s \in live \cap live' : ~is_transient[s] => ~is_transient'[s]
    BY <1>1 DEF NewRevision, FinalizeRevision, Domains
  <2> QED
    BY <2>2, <2>3, <2>4 DEF Contained
<1>2. ASSUME NEW r \in Revs, FreeRevision(r) PROVE Contained
  <2>1. \A s \in Revs \ {r} : Untouched(s)
    BY <1>2 DEF FreeRevision, Untouched, Domains
  <2>2. OnlyChanges(r)
    BY <1>2, <2>1 DEF FreeRevision, OnlyChanges
  <2>3. CellsKept
    BY <1>2, SweepKeeps DEF FreeRevision
  <2>4. \A s \in live \cap live' : ~is_transient[s] => ~is_transient'[s]
    BY <1>2 DEF FreeRevision, Domains
  <2> QED
    BY <2>2, <2>3, <2>4 DEF Contained
<1>3. ASSUME NEW r \in Revs, NEW from \in Revs, CopyRevision(r, from) PROVE Contained
  <2>1. \A s \in Revs \ {r} : Untouched(s)
    BY <1>3 DEF CopyRevision, Untouched, Domains
  <2>2. OnlyChanges(r)
    BY <1>3, <2>1 DEF CopyRevision, OnlyChanges
  <2>3. CellsKept
    BY <1>3, SameContentKeeps DEF CopyRevision
  <2>4. \A s \in live \cap live' : ~is_transient[s] => ~is_transient'[s]
    BY <1>3 DEF CopyRevision, Domains
  <2> QED
    BY <2>2, <2>3, <2>4 DEF Contained
<1>4. ASSUME NewRevisionFails PROVE Contained
  BY <1>4, RejectContained DEF NewRevisionFails
<1> QED
  BY <1>1, <1>2, <1>3, <1>4 DEF RevisionCall

LEMMA AddChecked ==
  ASSUME NEW r, NEW arg, AddCheck(r, arg) = "ok" PROVE is_transient[r]
BY DEF AddCheck

LEMMA BindKeepsCells ==
  ASSUME Domains, NEW r, NEW ob, NEW c \in Cells, NEW arg, Bind(r, ob, c, arg)
  PROVE  /\ CellsKept
         /\ \E x : obstates' = [obstates EXCEPT ![r] = x]
<1>1. refcnt[c] = 0 /\ content' = [Sweep(refcnt', content) EXCEPT ![c] = arg]
  BY DEF Bind
<1>2. CellsKept
  BY <1>1 DEF CellsKept, Sweep, Domains
<1>3. \E x : obstates' = [obstates EXCEPT ![r] = x]
  BY DEF Bind
<1> QED
  BY <1>2, <1>3

LEMMA ObjectCallContained ==
  ASSUME Domains, ObjectCall
  PROVE  Contained
<1>1. PICK r \in Revs : \E arg \in ObArgs :
    \/ AddObject(r, arg)
    \/ AddObjectFails(r, arg)
    \/ AddObjectRejected(r, arg)
    \/ \E ob \in Objects :
         \/ SetObjectData(r, ob, arg)
         \/ SetObjectDataFails(r, ob, arg)
         \/ SetObjectDataRejected(r, ob, arg)
  BY DEF ObjectCall
<1>2. ASSUME NEW ob, NEW arg, NEW c \in Cells, Bind(r, ob, c, arg), is_transient[r],
             Enter(r, ob) \/ UNCHANGED <<children, parent>>, UNCHANGED is_transient
      PROVE  Contained
  <2>1. /\ CellsKept
        /\ \E x : obstates' = [obstates EXCEPT ![r] = x]
    BY <1>2, BindKeepsCells
  <2>2. /\ UNCHANGED parent \/ \E x : parent' = [parent EXCEPT ![r] = x]
        /\ UNCHANGED children \/ \E x : children' = [children EXCEPT ![r] = x]
    BY <1>2 DEF Enter
  <2> QED
    BY <1>2, <2>1, <2>2, WritesOne, WriteContained
<1>3. ASSUME NEW ob, EnterFails(r, ob) \/ UNCHANGED <<children, parent>>, is_transient[r],
             UNCHANGED <<is_transient, obstates, heap_vars>>
      PROVE  Contained
  <2>1. /\ UNCHANGED parent \/ \E x : parent' = [parent EXCEPT ![r] = x]
        /\ UNCHANGED children \/ \E x : children' = [children EXCEPT ![r] = x]
    BY <1>3 DEF EnterFails
  <2>2. CellsKept
    BY <1>3, SameContentKeeps DEF heap_vars
  <2> QED
    BY <1>3, <2>1, <2>2, WritesOne, WriteContained
<1>4. ASSUME NEW arg, AddObject(r, arg) PROVE Contained
  BY <1>2, <1>4, AddChecked DEF AddObject
<1>5. ASSUME NEW arg, NEW ob, SetObjectData(r, ob, arg) PROVE Contained
  <2>1. AddCheck(r, arg) = "ok"
    BY <1>5 DEF SetObjectData, SetCheck
  <2> QED
    BY <1>2, <1>5, <2>1, AddChecked DEF SetObjectData
<1>6. ASSUME NEW arg, AddObjectFails(r, arg) PROVE Contained
  BY <1>3, <1>6, AddChecked DEF AddObjectFails
<1>7. ASSUME NEW arg, NEW ob, SetObjectDataFails(r, ob, arg) PROVE Contained
  <2>1. AddCheck(r, arg) = "ok"
    BY <1>7 DEF SetObjectDataFails, SetCheck
  <2> QED
    BY <1>3, <1>7, <2>1, AddChecked DEF SetObjectDataFails
<1>8. ASSUME NEW arg, NEW ob, AddObjectRejected(r, arg) \/ SetObjectDataRejected(r, ob, arg)
      PROVE  Contained
  BY <1>8, RejectContained DEF AddObjectRejected, SetObjectDataRejected
<1> QED
  BY <1>1, <1>4, <1>5, <1>6, <1>7, <1>8

LEMMA RelocateCallContained ==
  ASSUME Domains, RelocateCall
  PROVE  Contained
<1>1. PICK r \in Revs : \E ob \in Objects, to \in Objects \cup {Null} :
        \/ RelocateAborts(r, ob, to)
        \/ RelocateRejected(r, ob, to)
        \/ \E before \in 0..next_object_id :
             \/ Relocate(r, ob, to, before)
             \/ RelocateNoSuccessor(r, ob, to, before)
             \/ RelocateFails(r, ob, to, before)
  BY DEF RelocateCall
<1>2. ASSUME NEW ob, NEW to, RelocateAborts(r, ob, to) PROVE Contained
  <2>1. UNCHANGED <<rev_vars, heap_vars, live, is_transient>>
    BY <1>2 DEF RelocateAborts
  <2>2. \A s \in Revs : Untouched(s)
    BY <2>1 DEF Untouched, rev_vars
  <2>3. CellsKept
    BY <2>1, SameContentKeeps DEF heap_vars
  <2> QED
    BY <2>1, <2>2, <2>3 DEF Contained
<1>3. ASSUME NEW ob, NEW to, RelocateRejected(r, ob, to) PROVE Contained
  BY <1>3, RejectContained DEF RelocateRejected
<1>4. ASSUME NEW ob, NEW to, NEW before,
             \/ Relocate(r, ob, to, before)
             \/ RelocateNoSuccessor(r, ob, to, before)
             \/ RelocateFails(r, ob, to, before)
      PROVE  Contained
  <2>1. RelocateCheck(r, ob, to) = "ok"
    BY <1>4 DEF Relocate, RelocateNoSuccessor, RelocateFails
  <2>2. is_transient[r]
    BY <2>1 DEF RelocateCheck
  <2>3. /\ UNCHANGED <<is_transient, obstates, heap_vars>>
        /\ \E x : children' = [children EXCEPT ![r] = x]
    BY <1>4 DEF Relocate, RelocateNoSuccessor, RelocateFails
  <2>4. UNCHANGED parent \/ \E x : parent' = [parent EXCEPT ![r] = x]
    BY <1>4 DEF Relocate, RelocateNoSuccessor, RelocateFails
  <2>5. CellsKept
    BY <2>3, SameContentKeeps DEF heap_vars
  <2> QED
    BY <2>2, <2>3, <2>4, <2>5, WritesOne, WriteContained
<1> QED
  BY <1>1, <1>2, <1>3, <1>4

LEMMA DeleteCallContained ==
  ASSUME Domains, DeleteCall
  PROVE  Contained
<1>1. ASSUME NEW r \in Revs, NEW S, DeleteObjects(r, S), is_transient[r] PROVE Contained
  <2>1. /\ \E x : obstates' = [obstates EXCEPT ![r] = x]
        /\ \E x : parent' = [parent EXCEPT ![r] = x]
        /\ \E x : children' = [children EXCEPT ![r] = x]
    BY <1>1 DEF DeleteObjects
  <2>2. CellsKept /\ UNCHANGED is_transient
    BY <1>1, SweepKeeps DEF DeleteObjects
  <2> QED
    BY <1>1, <2>1, <2>2, WritesOne, WriteContained
<1>2. ASSUME NEW r \in Revs, NEW ob, DeleteObject(r, ob) \/ DeleteObjectRejected(r, ob)
      PROVE  Contained
  BY <1>1, <1>2, RejectContained DEF DeleteObject, DeleteObjectRejected
<1>3. ASSUME NEW r \in Revs, NEW sel, DeleteSelectedObjects(r, sel) PROVE Contained
  BY <1>1, <1>3 DEF DeleteSelectedObjects
<1>4. ASSUME NEW r, DeleteSelectedRejected(r) PROVE Contained
  BY <1>4, RejectContained DEF DeleteSelectedRejected
<1> QED
  BY <1>2, <1>3, <1>4 DEF DeleteCall

LEMMA CopyCallContained ==
  ASSUME Domains, CopyCall
  PROVE  Contained
<1>1. ASSUME NEW dest \in Revs, NEW src \in Revs, NEW S, is_transient[dest],
             CopyObjects(dest, src, S) \/ CopyObjectsFails(dest, src, S)
      PROVE  Contained
  <2>1. /\ \E x : obstates' = [obstates EXCEPT ![dest] = x]
        /\ \E x : parent' = [parent EXCEPT ![dest] = x]
        /\ \E x : children' = [children EXCEPT ![dest] = x]
        /\ UNCHANGED is_transient
        /\ UNCHANGED content \/ content' = Sweep(refcnt', content)
    <3>1. CASE CopyObjects(dest, src, S)
      BY <3>1 DEF CopyObjects
    <3>2. CASE CopyObjectsFails(dest, src, S)
      BY <3>2 DEF CopyObjectsFails
    <3> QED
      BY <1>1, <3>1, <3>2
  <2>2. CellsKept
    BY <2>1, SweepKeeps, SameContentKeeps
  <2> QED
    BY <1>1, <2>1, <2>2, WritesOne, WriteContained
<1>2. ASSUME NEW dest \in Revs, NEW src \in Revs, NEW ob,
             CopyObject(dest, src, ob) \/ CopyObjectRejected(dest, src, ob)
      PROVE  Contained
  BY <1>1, <1>2, RejectContained DEF CopyObject, CopyObjectRejected
<1>3. ASSUME NEW dest \in Revs, NEW src \in Revs, NEW sel, CopySelected(dest, src, sel)
      PROVE  Contained
  BY <1>1, <1>3, RejectContained DEF CopySelected
<1>4. ASSUME NEW dest, NEW src, CopySelectedRejected(dest, src) PROVE Contained
  BY <1>4, RejectContained DEF CopySelectedRejected
<1> QED
  BY <1>2, <1>3, <1>4 DEF CopyCall

LEMMA StepContained ==
  ASSUME StorageInv, [Next]_vars
  PROVE  Contained
<1>1. Domains
  BY DomainsKnown
<1>2. CASE UNCHANGED vars
  BY <1>2 DEF vars, Contained, Untouched, CellsKept
<1>3. CASE Next
  BY <1>1, <1>3, RevisionCallContained, ObjectCallContained, RelocateCallContained,
     DeleteCallContained, CopyCallContained DEF Next
<1> QED
  BY <1>2, <1>3

-----------------------------------------------------------------------------
(* What the query functions show.                                          *)

\* The maps of revision s answer every query the same: an empty vector that
\* was entered in its children, or an erased one, is not seen.
SameQueries(s) ==
  /\ obstates'[s] = obstates[s]
  /\ parent'[s] = parent[s]
  /\ \A p \in DOMAIN obstates[s] \cup {Null} : Kids(children'[s], p) = Kids(children[s], p)

\* Such a revision shows the same, whatever happens to the heap.
LEMMA SameQueriesView ==
  ASSUME StorageInv, StorageInv', CellsKept, NEW s \in Revs, SameQueries(s)
  PROVE  View(s)' = View(s)
<1> DEFINE o == obstates[s]
           P == DOMAIN o \cup {Null}
<1>1. /\ o = obstates'[s] /\ parent'[s] = parent[s]
      /\ \A p \in P : Kids(children'[s], p) = Kids(children[s], p)
  BY DEF SameQueries
<1>2. ASSUME NEW x \in DOMAIN o PROVE content'[o[x]] = content[o[x]]
  <2> DEFINE c == o[x]
  <2>1. c \in Cells /\ refcnt[c] > 0
    BY UsedCounted
  <2>2. x \in Objects
    BY OneRevision
  <2>3. <<s, x>> \in RefsIn(obstates', c)
    BY <1>1, <2>2 DEF RefsIn
  <2> HIDE DEF c
  <2>4. refcnt'[c] = Cardinality(RefsIn(obstates', c))
    BY <2>1 DEF StorageInv, RefcountExact, References, RefsIn
  <2>5. Cardinality(RefsIn(obstates', c)) # 0
    BY <2>3, RefsFinite, FS_EmptySet
  <2>6. refcnt'[c] > 0
    BY <2>1, <2>4, <2>5 DEF StorageInv, TypeOK
  <2>7. content'[c] = content[c]
    BY <2>1, <2>6 DEF CellsKept
  <2> QED
    BY <2>7 DEF c
<1>3. [ob \in DOMAIN o |-> content'[o[ob]]] = [ob \in DOMAIN o |-> content[o[ob]]]
  BY <1>2
<1>4. [p \in P |-> Kids(children'[s], p)] = [p \in P |-> Kids(children[s], p)]
  BY <1>1
<1> QED
  BY <1>1, <1>3, <1>4 DEF View

LEMMA UntouchedView ==
  ASSUME StorageInv, StorageInv', CellsKept, NEW s \in Revs, Untouched(s)
  PROVE  View(s)' = View(s)
BY SameQueriesView DEF Untouched, SameQueries

(* A finalized revision shows the same until it is freed, although it      *)
(* shares its object states with revisions that are changed and freed      *)
(* (revision.cc, manipulate.cc).                                           *)
THEOREM FinalizedStaysFrozen == Spec => FinalizedFrozen
<1> DEFINE A == \A r \in live \cap live' :
                  ~is_transient[r] => ~is_transient'[r] /\ View(r)' = View(r)
<1>1. ASSUME StorageInv, StorageInv', [Next]_vars
      PROVE  A
  <2>1. Contained /\ live \subseteq Revs
    BY <1>1, StepContained DEF StorageInv, TypeOK
  <2>2. ASSUME NEW r \in live \cap live', ~is_transient[r]
        PROVE  ~is_transient'[r] /\ View(r)' = View(r)
    <3>1. Untouched(r)
      BY <2>1, <2>2 DEF Contained, OnlyChanges
    <3>2. View(r)' = View(r)
      BY <1>1, <2>1, <3>1, UntouchedView DEF Contained
    <3> QED
      BY <2>1, <2>2, <3>2 DEF Contained
  <2> QED
    BY <2>2
<1>2. StorageInv /\ StorageInv' /\ [Next]_vars => [A]_vars
  BY <1>1
<1>3. Spec => [][A]_vars
  <2> HIDE DEF A
  <2> QED
    BY <1>2, Invariance, PTL DEF Spec
<1> QED
  BY <1>3 DEF FinalizedFrozen

(* A call changes at most one revision, the one it was given, whatever     *)
(* object states the others share with it.                                 *)
THEOREM CallsChangeOneRevision == Spec => OneRevisionChanges
<1> DEFINE A == \A r, s \in live \cap live' :
                  View(r)' # View(r) /\ View(s)' # View(s) => r = s
<1>1. ASSUME StorageInv, StorageInv', [Next]_vars
      PROVE  A
  <2>1. Contained /\ live \subseteq Revs
    BY <1>1, StepContained DEF StorageInv, TypeOK
  <2>2. ASSUME NEW r \in live \cap live', NEW s \in live \cap live', r # s,
               View(r)' # View(r), View(s)' # View(s)
        PROVE  FALSE
    <3>1. Untouched(r) \/ Untouched(s)
      BY <2>1, <2>2 DEF Contained, OnlyChanges
    <3> QED
      BY <1>1, <2>1, <2>2, <3>1, UntouchedView DEF Contained
  <2> QED
    BY <2>2
<1>2. StorageInv /\ StorageInv' /\ [Next]_vars => [A]_vars
  BY <1>1
<1>3. Spec => [][A]_vars
  <2> HIDE DEF A
  <2> QED
    BY <1>2, Invariance, PTL DEF Spec
<1> QED
  BY <1>3 DEF OneRevisionChanges

\* The objects a step adds to any revision have the numbers it spends.
FreshNumbers ==
  \A r \in Revs : \A ob \in DOMAIN obstates'[r] \ DOMAIN obstates[r] :
    ob > next_object_id /\ ob <= next_object_id'

LEMMA CopyNumbers ==
  ASSUME StorageInv, NEW dest \in Revs, NEW src \in Revs, NEW S,
         CopyObjects(dest, src, S) \/ CopyObjectsFails(dest, src, S)
  PROVE  FreshNumbers
<1>1. Domains /\ next_object_id \in Nat
  <2>1. Domains
    BY DomainsKnown
  <2>2. next_object_id \in Nat
    BY DEF StorageInv, TypeOK
  <2> QED
    BY <2>1, <2>2
<1>2. Cardinality(Items(src, S)) \in Nat
  BY ItemsFinite, FS_CardinalityType
<1>3. CASE CopyObjects(dest, src, S)
  <2> DEFINE n == Cardinality(Items(src, S))
             cells == CopiedCells(src, CopyOrder(Items(src, S)), n)
  <2>1. obstates' = [obstates EXCEPT ![dest] = Merge(@, cells)] /\ next_object_id' = next_object_id + n
    BY <1>3 DEF CopyObjects
  <2>2. DOMAIN cells = NewIds(n)
    BY DEF CopiedCells
  <2> HIDE DEF cells, n
  <2>3. \A r \in Revs : DOMAIN obstates'[r] \ DOMAIN obstates[r] \subseteq NewIds(n)
    BY <1>1, <2>1, <2>2 DEF Merge, Domains
  <2>4. \A ob \in NewIds(n) : ob > next_object_id /\ ob <= next_object_id'
    BY <1>1, <1>2, <2>1 DEF NewIds, n
  <2> QED
    BY <2>3, <2>4 DEF FreshNumbers
<1>4. CASE CopyObjectsFails(dest, src, S)
  <2>1. PICK m \in 0..Cardinality(Items(src, S)) - 1 :
          obstates' = [obstates EXCEPT ![dest] =
                         Drop(Merge(@, CopiedCells(src, CopyOrder(Items(src, S)), m)), NewIds(m))]
    BY <1>4 DEF CopyObjectsFails
  <2> DEFINE cells == CopiedCells(src, CopyOrder(Items(src, S)), m)
  <2>2. obstates' = [obstates EXCEPT ![dest] = Drop(Merge(@, cells), NewIds(m))]
    BY <2>1
  <2>3. DOMAIN cells = NewIds(m)
    BY DEF CopiedCells
  <2> HIDE DEF cells
  <2>4. \A r \in Revs : DOMAIN obstates'[r] \subseteq DOMAIN obstates[r]
    BY <1>1, <2>2, <2>3 DEF Merge, Drop, Domains
  <2> QED
    BY <2>4 DEF FreshNumbers
<1> QED
  BY <1>3, <1>4

LEMMA StepNumbers ==
  ASSUME StorageInv, [Next]_vars, next_object_id' # next_object_id
  PROVE  FreshNumbers
<1>1. Domains /\ next_object_id \in Nat
  <2>1. Domains
    BY DomainsKnown
  <2>2. next_object_id \in Nat
    BY DEF StorageInv, TypeOK
  <2> QED
    BY <2>1, <2>2
<1>2. Next
  BY DEF vars
<1>3. CASE ObjectCall
  <2>1. PICK r \in Revs : \E arg \in ObArgs : AddObject(r, arg) \/ AddObjectFails(r, arg)
    BY <1>3 DEF ObjectCall, AddObjectRejected, SetObjectData, SetObjectDataFails,
       SetObjectDataRejected, Reject
  <2>2. PICK arg \in ObArgs : AddObject(r, arg) \/ AddObjectFails(r, arg)
    BY <2>1
  <2>3. CASE AddObject(r, arg)
    <3>1. /\ next_object_id' = next_object_id + 1
          /\ \E c \in Cells : obstates' = [obstates EXCEPT ![r] = Put(@, next_object_id', c)]
      BY <2>3 DEF AddObject, Bind
    <3>2. \A s \in Revs : DOMAIN obstates'[s] \ DOMAIN obstates[s] \subseteq {next_object_id'}
      BY <1>1, <3>1 DEF Put, Domains
    <3> QED
      BY <1>1, <3>1, <3>2 DEF FreshNumbers
  <2>4. CASE AddObjectFails(r, arg)
    <3>1. obstates' = obstates
      BY <2>4 DEF AddObjectFails
    <3> QED
      BY <3>1 DEF FreshNumbers
  <2> QED
    BY <2>2, <2>3, <2>4
<1>4. CASE CopyCall
  <2>1. PICK dest \in Revs, src \in Revs :
          \E S : CopyObjects(dest, src, S) \/ CopyObjectsFails(dest, src, S)
    BY <1>4 DEF CopyCall, CopyObject, CopyObjectRejected, CopySelected, CopySelectedRejected, Reject
  <2> QED
    BY <2>1, CopyNumbers
<1>5. ~RevisionCall
  BY DEF RevisionCall, NewRevision, FinalizeRevision, FreeRevision, CopyRevision, NewRevisionFails, Reject
<1>6. ~RelocateCall
  BY DEF RelocateCall, Relocate, RelocateNoSuccessor, RelocateFails, RelocateAborts, RelocateRejected, Reject
<1>7. ~DeleteCall
  BY DEF DeleteCall, DeleteObject, DeleteObjectRejected, DeleteSelectedObjects, DeleteSelectedRejected,
     DeleteObjects, Reject
<1> QED
  BY <1>2, <1>3, <1>4, <1>5, <1>6, <1>7 DEF Next

(* A new object never takes the number of one that exists or existed in    *)
(* any revision (next_object_id in manipulate.cc and copy.cc).             *)
THEOREM NumbersStayUnique == Spec => NumbersNeverReused
<1> DEFINE A == \A r \in live \cap live' : \A ob \in DOMAIN obstates'[r] \ DOMAIN obstates[r] :
                  next_object_id' # next_object_id =>
                    ob > next_object_id /\ ob <= next_object_id'
<1>1. ASSUME StorageInv, [Next]_vars
      PROVE  A
  <2>1. live \subseteq Revs
    BY <1>1 DEF StorageInv, TypeOK
  <2>2. next_object_id' # next_object_id => FreshNumbers
    BY <1>1, StepNumbers
  <2> QED
    BY <2>1, <2>2 DEF FreshNumbers
<1>2. StorageInv /\ [Next]_vars => [A]_vars
  BY <1>1
<1>3. Spec => [][A]_vars
  <2> HIDE DEF A
  <2> QED
    BY <1>2, Invariance, PTL DEF Spec
<1> QED
  BY <1>3 DEF NumbersNeverReused

-----------------------------------------------------------------------------
(* Calls that fail.                                                        *)

\* Erasing the elements of D, which are those after the first n, leaves the
\* first n: what was appended goes, and nothing else moves.
LEMMA WithoutTail ==
  ASSUME NEW T, NEW u \in Seq(T), NEW D, NEW n \in 0..Len(u),
         \A i \in 1..Len(u) : u[i] \in D <=> i > n
  PROVE  Without(u, D) = [k \in 1..n |-> u[k]]
<1> DEFINE kept == {i \in 1..Len(u) : u[i] \notin D}
           R == {p \in kept \X kept : p[1] < p[2]}
           pos == Ranked(kept, R)
<1>1. Len(u) \in Nat /\ n \in Nat
  BY LenProperties
<1>2. kept = 1..n
  BY <1>1
<1>3. IsFiniteSet(kept) /\ Cardinality(kept) = n
  <2>1. IsFiniteSet(1..n) /\ Cardinality(1..n) = n
    BY <1>1, FS_Interval
  <2> QED
    BY <1>2, <2>1
<1>4. \A x, y \in kept : <<x, y>> \in R <=> x < y
  OBVIOUS
<1>5. \A x \in kept : x \in Int
  BY <1>1
<1>6. StrictOrder(kept, R)
  <2> HIDE DEF kept, R
  <2> QED
    BY <1>4, <1>5 DEF StrictOrder
<1>7. \A x \in kept : Cardinality({y \in kept : <<y, x>> \in R}) = x - 1
  <2> TAKE x \in kept
  <2>1. {y \in kept : <<y, x>> \in R} = 1..(x - 1)
    <3>1. {y \in kept : <<y, x>> \in R} = {y \in kept : y < x}
      BY <1>4
    <3> HIDE DEF kept, R
    <3>2. {y \in kept : y < x} = 1..(x - 1)
      BY <1>1, <1>2
    <3> QED
      BY <3>1, <3>2
  <2>2. x - 1 \in Nat
    BY <1>1, <1>2
  <2>3. Cardinality(1..(x - 1)) = x - 1
    BY <2>2, FS_Interval
  <2> QED
    BY <2>1, <2>3
<1> HIDE DEF kept, R
<1>8. \A x \in kept : pos[x] = x
  <2>1. Lists(pos, n, kept, R)
    BY <1>3, <1>6, RankedOrder
  <2> HIDE DEF pos
  <2> TAKE x \in kept
  <2>2. pos[Cardinality({y \in kept : <<y, x>> \in R}) + 1] = x
    BY <2>1 DEF Lists
  <2>3. x - 1 + 1 = x
    BY <1>5
  <2> QED
    BY <1>7, <2>2, <2>3
<1>9. Without(u, D) = [k \in 1..Cardinality(kept) |-> u[pos[k]]]
  BY DEF Without, kept, R
<1> HIDE DEF pos
<1> QED
  BY <1>2, <1>3, <1>8, <1>9

LEMMA WithoutNone ==
  ASSUME NEW T, NEW s \in Seq(T), NEW D, Elems(s) \cap D = {}
  PROVE  Without(s, D) = s
<1>1. Len(s) \in Nat /\ s = [i \in 1..Len(s) |-> s[i]]
  BY LenProperties
<1>2. \A i \in 1..Len(s) : s[i] \in D <=> i > Len(s)
  BY <1>1 DEF Elems
<1>3. Without(s, D) = [i \in 1..Len(s) |-> s[i]]
  <2>1. Len(s) \in 0..Len(s)
    BY <1>1
  <2> QED
    BY <1>2, <2>1, WithoutTail
<1> QED
  BY <1>1, <1>3

LEMMA WithoutAppended ==
  ASSUME NEW T, NEW s \in Seq(T), NEW t \in Seq(T), NEW D,
         Elems(s) \cap D = {}, Elems(t) \subseteq D
  PROVE  Without(s \o t, D) = s
<1> DEFINE u == s \o t
<1>1. /\ Len(s) \in Nat /\ Len(t) \in Nat
      /\ u \in Seq(T) /\ Len(u) = Len(s) + Len(t)
      /\ \A i \in 1..Len(s) : u[i] = s[i]
      /\ \A i \in Len(s)+1..Len(u) : u[i] = t[i - Len(s)]
      /\ s = [i \in 1..Len(s) |-> s[i]]
  BY LenProperties, ConcatProperties
<1> HIDE DEF u
<1>2. ASSUME NEW i \in 1..Len(u) PROVE u[i] \in D <=> i > Len(s)
  <2>1. CASE i <= Len(s)
    <3>1. i \in 1..Len(s)
      BY <1>1, <2>1
    <3> QED
      BY <1>1, <2>1, <3>1 DEF Elems
  <2>2. CASE i > Len(s)
    <3>1. i \in Len(s)+1..Len(u) /\ i - Len(s) \in 1..Len(t)
      BY <1>1, <2>2
    <3> QED
      BY <1>1, <2>2, <3>1 DEF Elems
  <2> QED
    BY <1>1, <2>1, <2>2
<1>3. Without(u, D) = [i \in 1..Len(s) |-> u[i]]
  <2>1. Len(s) \in 0..Len(u) /\ u \in Seq(T)
    BY <1>1
  <2> QED
    BY <1>2, <2>1, WithoutTail
<1>4. [i \in 1..Len(s) |-> u[i]] = s
  BY <1>1
<1> QED
  BY <1>3, <1>4 DEF u

\* What the failed copies leave behind in the vectors of a revision: what they
\* appended is erased, and an empty vector that they entered is not seen.
LEMMA CopiesUnseen ==
  ASSUME next_object_id \in Nat, NEW m \in Nat, next_object_id + m <= MaxId,
         NEW obs, NEW pa, NEW c, TypedForest(obs, pa, c), obs \cap NewIds(m) = {},
         NEW order, NEW ch, ch = IF m = 0 THEN c ELSE CopiedChildren(c, order, m),
         NEW left, left \in {ch, Touch(ch, Null)},
         NEW q \in obs \cup {Null}
  PROVE  Kids(Erase(left, NewIds(m)), q) = Kids(c, q)
<1> DEFINE new == NewIds(m)
           tops == TopCopies(order, m)
<1>1. /\ Kids(c, q) \in Seq(Objects) /\ Elems(Kids(c, q)) \subseteq obs
      /\ obs \subseteq Objects
  <2>1. /\ Kids(c, q) \in Seq(Objects)
        /\ Elems(Kids(c, q)) = {ob \in obs : pa[ob] = q}
    BY KidsSeq
  <2> QED
    BY <2>1 DEF TypedForest
<1>2. q \notin new
  BY DEF NewIds, Null
<1>3. Without(Kids(c, q), new) = Kids(c, q)
  <2>1. Elems(Kids(c, q)) \cap new = {}
    BY <1>1
  <2> HIDE DEF new
  <2> QED
    BY <1>1, <2>1, WithoutNone
<1>4. Without(<< >>, new) = << >>
  <2>1. Elems(<< >>) \cap new = {} /\ << >> \in Seq(Objects)
    BY EmptySet
  <2> HIDE DEF new
  <2> QED
    BY <2>1, WithoutNone
<1>5. tops \subseteq new
  BY DEF TopCopies
<1>6. /\ InOrderMade(tops, m) \in Seq(Objects)
      /\ Elems(InOrderMade(tops, m)) = tops
  <2> HIDE DEF tops
  <2> QED
    BY <1>5, InOrderSet
<1>7. Kids(ch, q) = Kids(c, q) \/ Kids(ch, q) = Kids(c, q) \o InOrderMade(tops, m)
  <2>1. CASE m = 0
    BY <2>1
  <2>2. CASE m # 0
    <3>1. ch = CopiedChildren(c, order, m)
      BY <2>2
    <3>2. CASE q = Null
      <4>1. Null \in DOMAIN ch
        BY <3>1 DEF CopiedChildren
      <4>2. ch[Null] = Kids(c, Null) \o InOrderMade(tops, m)
        <5>1. Null \notin tops
          BY <1>2, <1>5, <3>2
        <5> QED
          BY <3>1, <5>1 DEF CopiedChildren
      <4> QED
        BY <3>2, <4>1, <4>2 DEF Kids
    <3>3. CASE q # Null
      <4>1. q \notin tops
        BY <1>2, <1>5
      <4>2. /\ q \in DOMAIN ch <=> q \in DOMAIN c
            /\ q \in DOMAIN c => ch[q] = c[q]
        BY <3>1, <3>3, <4>1 DEF CopiedChildren
      <4> QED
        BY <4>2 DEF Kids
    <3> QED
      BY <3>2, <3>3
  <2> QED
    BY <2>1, <2>2
<1>8. Kids(left, q) = Kids(ch, q)
  BY DEF Touch, Put, Kids
<1>9. Without(Kids(left, q), new) = Kids(c, q)
  <2>1. Elems(Kids(c, q)) \cap new = {}
    BY <1>1
  <2> HIDE DEF new, tops
  <2>2. Without(Kids(c, q) \o InOrderMade(tops, m), new) = Kids(c, q)
    BY <1>1, <1>5, <1>6, <2>1, WithoutAppended
  <2> QED
    BY <1>3, <1>7, <1>8, <2>2
<1>10. Kids(Erase(left, new), q) = Without(Kids(left, q), new)
  <2>1. CASE q \in DOMAIN left
    BY <1>2, <2>1 DEF Kids, Erase
  <2>2. CASE q \notin DOMAIN left
    BY <1>4, <2>2 DEF Kids, Erase
  <2> QED
    BY <2>1, <2>2
<1> QED
  BY <1>9, <1>10

\* Nothing that a query of any revision shows is different after the step.
Unseen ==
  /\ live' = live
  /\ \A s \in Revs : SameQueries(s)

LEMMA UntouchedUnseen ==
  ASSUME UNCHANGED <<live, rev_vars>>
  PROVE  Unseen
BY DEF Unseen, SameQueries, rev_vars

\* A step that at most enters an empty vector.
LEMMA TouchUnseen ==
  ASSUME Domains, UNCHANGED <<live, obstates, parent>>, NEW r \in Revs, NEW q,
         children' = children \/ children' = [children EXCEPT ![r] = Touch(@, q)]
  PROVE  Unseen
<1>1. ASSUME NEW s \in Revs, NEW p PROVE Kids(children'[s], p) = Kids(children[s], p)
  <2>1. children'[s] = children[s] \/ children'[s] = Touch(children[s], q)
    BY DEF Domains
  <2>2. Kids(Touch(children[s], q), p) = Kids(children[s], p)
    BY DEF Touch, Put, Kids
  <2> QED
    BY <2>1, <2>2
<1> QED
  BY <1>1 DEF Unseen, SameQueries

LEMMA RejectUnseen == ASSUME NEW err, Reject(err) PROVE Unseen
BY UntouchedUnseen DEF Reject

LEMMA AddObjectFailsUnseen ==
  ASSUME StorageInv, NEW r \in Revs, NEW arg, AddObjectFails(r, arg)
  PROVE  Unseen
<1> DEFINE ob == next_object_id'
<1>1. ob \in Objects \ DOMAIN obstates[r]
  BY StorageAssumption DEF AddObjectFails, StorageInv, TypeOK, NumberedObjects, Objects
<1>2. EnterFails(r, ob) /\ UNCHANGED <<live, obstates>>
  BY DEF AddObjectFails
<1> HIDE DEF ob
<1>3. /\ parent' = parent
      /\ children' = children \/ children' = [children EXCEPT ![r] = Touch(@, Null)]
  BY <1>1, <1>2, EnterFailsLeaves
<1> QED
  BY <1>2, <1>3, DomainsKnown, TouchUnseen

LEMMA SetObjectDataFailsUnseen ==
  ASSUME StorageInv, NEW r \in Revs, NEW ob \in Objects, NEW arg, SetObjectDataFails(r, ob, arg)
  PROVE  Unseen
<1>1. CASE ob \in DOMAIN parent[r]
  BY <1>1, UntouchedUnseen DEF SetObjectDataFails, rev_vars
<1>2. CASE ob \notin DOMAIN parent[r]
  <2>1. ob \in Objects \ DOMAIN obstates[r]
    BY <1>2, OneRevision
  <2>2. EnterFails(r, ob) /\ UNCHANGED <<live, obstates>>
    BY <1>2 DEF SetObjectDataFails
  <2>3. /\ parent' = parent
        /\ children' = children \/ children' = [children EXCEPT ![r] = Touch(@, Null)]
    BY <2>1, <2>2, EnterFailsLeaves
  <2> QED
    BY <2>2, <2>3, DomainsKnown, TouchUnseen
<1> QED
  BY <1>1, <1>2

LEMMA RelocateUnseen ==
  ASSUME StorageInv, RelocateCall, ret' # "ok"
  PROVE  Unseen
<1>1. PICK r \in Revs, ob \in Objects, to \in Objects \cup {Null} :
        \/ RelocateAborts(r, ob, to)
        \/ RelocateRejected(r, ob, to)
        \/ \E before \in 0..next_object_id :
             \/ Relocate(r, ob, to, before)
             \/ RelocateNoSuccessor(r, ob, to, before)
             \/ RelocateFails(r, ob, to, before)
  BY DEF RelocateCall
<1>2. CASE RelocateAborts(r, ob, to)
  BY <1>2, UntouchedUnseen DEF RelocateAborts
<1>3. CASE RelocateRejected(r, ob, to)
  BY <1>3, RejectUnseen DEF RelocateRejected
<1>4. ASSUME NEW before, RelocateNoSuccessor(r, ob, to, before) \/ RelocateFails(r, ob, to, before)
      PROVE  Unseen
  <2>1. /\ UNCHANGED <<live, obstates, parent>>
        /\ children' = [children EXCEPT ![r] = Touch(@, to)]
    BY <1>4 DEF RelocateNoSuccessor, RelocateFails
  <2> QED
    BY <2>1, DomainsKnown, TouchUnseen
<1>5. \A before : ~Relocate(r, ob, to, before)
  BY DEF Relocate
<1> QED
  BY <1>1, <1>2, <1>3, <1>4, <1>5

LEMMA CopyObjectsFailsUnseen ==
  ASSUME StorageInv, NEW dest \in Revs, NEW src \in Revs, NEW S, CopyObjectsFails(dest, src, S)
  PROVE  Unseen
<1> DEFINE items == Items(src, S)
           order == CopyOrder(items)
           o == obstates[dest]
           p == parent[dest]
           c == children[dest]
           cells(m) == CopiedCells(src, order, m)
           cp(m) == CopiedParent(order, m)
           chm(m) == IF m = 0 THEN c ELSE CopiedChildren(c, order, m)
<1>1. PICK m \in 0..Cardinality(items) - 1 :
        /\ next_object_id + m + 1 <= MaxId
        /\ obstates' = [obstates EXCEPT ![dest] = Drop(Merge(o, cells(m)), NewIds(m))]
        /\ parent' = [parent EXCEPT ![dest] = Drop(Merge(p, cp(m)), NewIds(m))]
        /\ \E left \in {chm(m), Touch(chm(m), Null)} :
             children' = [children EXCEPT ![dest] = Erase(left, NewIds(m))]
        /\ UNCHANGED live
  BY DEF CopyObjectsFails
<1>2. PICK left \in {chm(m), Touch(chm(m), Null)} :
             children' = [children EXCEPT ![dest] = Erase(left, NewIds(m))]
  BY <1>1
<1> DEFINE new == NewIds(m)
           made == cells(m)
           pm == cp(m)
           ch == chm(m)
<1>3. Cardinality(items) \in Nat /\ m \in Nat
  BY <1>1, ItemsFinite, FS_CardinalityType
<1>4. next_object_id \in Nat /\ next_object_id + m <= MaxId
  BY <1>1, <1>3, StorageAssumption DEF StorageInv, TypeOK
<1>5. DOMAIN made = new /\ DOMAIN pm = new
  BY DEF CopiedCells, CopiedParent
<1>6. /\ IsMap(o, Objects, Cells) /\ DOMAIN o \subseteq 1..next_object_id
      /\ TypedForest(DOMAIN o, p, c) /\ DOMAIN p = DOMAIN o
  BY OneRevision
<1>7. DOMAIN o \cap new = {}
  BY <1>4, <1>6 DEF NewIds
<1>8. ch = IF m = 0 THEN c ELSE CopiedChildren(c, order, m)
  OBVIOUS
<1>9. /\ obstates' = [obstates EXCEPT ![dest] = Drop(Merge(o, made), new)]
      /\ parent' = [parent EXCEPT ![dest] = Drop(Merge(p, pm), new)]
      /\ children' = [children EXCEPT ![dest] = Erase(left, NewIds(m))]
      /\ left \in {ch, Touch(ch, Null)}
  BY <1>1, <1>2
<1>10. o = obstates[dest] /\ p = parent[dest] /\ c = children[dest]
  OBVIOUS
<1>11. Domains /\ live' = live
  BY <1>1, DomainsKnown
<1> HIDE DEF items, order, o, p, c, cells, cp, chm, made, pm, ch
<1>12. Drop(Merge(o, made), new) = o
  BY <1>5, <1>6, <1>7, DropMerge
<1>13. Drop(Merge(p, pm), new) = p
  BY <1>5, <1>6, <1>7, DropMerge DEF TypedForest
<1>14. \A q \in DOMAIN o \cup {Null} : Kids(Erase(left, NewIds(m)), q) = Kids(c, q)
  BY <1>3, <1>4, <1>6, <1>7, <1>8, <1>9, CopiesUnseen
<1>15. SameQueries(dest)
  BY <1>9, <1>10, <1>11, <1>12, <1>13, <1>14 DEF SameQueries, Domains
<1>16. \A s \in Revs \ {dest} : SameQueries(s)
  BY <1>9, <1>11 DEF SameQueries, Domains
<1> QED
  BY <1>11, <1>15, <1>16 DEF Unseen

LEMMA CopyUnseen ==
  ASSUME StorageInv, CopyCall, ret' # "ok"
  PROVE  Unseen
<1>1. \A dest, src, S : ~CopyObjects(dest, src, S)
  BY DEF CopyObjects
<1>2. PICK dest \in Revs, src \in Revs :
        (\E S : CopyObjectsFails(dest, src, S)) \/ (\E err : Reject(err))
  BY <1>1 DEF CopyCall, CopyObject, CopyObjectRejected, CopySelected, CopySelectedRejected
<1> QED
  BY <1>2, CopyObjectsFailsUnseen, RejectUnseen

LEMMA ErrorUnseen ==
  ASSUME StorageInv, [Next]_vars, ret' # "ok"
  PROVE  Unseen
<1>1. CASE UNCHANGED vars
  BY <1>1, UntouchedUnseen DEF vars, rev_vars
<1>2. CASE RevisionCall
  <2>1. \E err : Reject(err)
    BY <1>2 DEF RevisionCall, NewRevision, FinalizeRevision, FreeRevision, CopyRevision,
       NewRevisionFails
  <2> QED
    BY <2>1, RejectUnseen
<1>3. CASE ObjectCall
  <2>1. PICK r \in Revs, arg \in ObArgs :
          \/ AddObjectFails(r, arg)
          \/ \E ob \in Objects : SetObjectDataFails(r, ob, arg)
          \/ \E err : Reject(err)
    BY <1>3 DEF ObjectCall, AddObject, AddObjectRejected, SetObjectData, SetObjectDataRejected
  <2> QED
    BY <2>1, AddObjectFailsUnseen, SetObjectDataFailsUnseen, RejectUnseen
<1>4. CASE RelocateCall
  BY <1>4, RelocateUnseen
<1>5. CASE DeleteCall
  <2>1. \E err : Reject(err)
    BY <1>5 DEF DeleteCall, DeleteObject, DeleteObjectRejected, DeleteSelectedObjects,
       DeleteSelectedRejected, DeleteObjects
  <2> QED
    BY <2>1, RejectUnseen
<1>6. CASE CopyCall
  BY <1>6, CopyUnseen
<1> QED
  BY <1>1, <1>2, <1>3, <1>4, <1>5, <1>6 DEF Next

(* A call that reports an error has changed nothing that a query shows:    *)
(* wherever an allocation fails, xorn_add_object, xorn_set_object_data,    *)
(* xorn_relocate_object and the copy functions take back all they did.     *)
THEOREM FailedCallsLeaveNoTrace == Spec => ErrorChangesNothing
<1> DEFINE A == ret' # "ok" => live' = live /\ \A r \in live : View(r)' = View(r)
<1>1. ASSUME StorageInv, StorageInv', [Next]_vars
      PROVE  A
  <2>1. CellsKept /\ live \subseteq Revs
    BY <1>1, StepContained DEF StorageInv, TypeOK, Contained
  <2>2. ASSUME ret' # "ok"
        PROVE  live' = live /\ \A r \in live : View(r)' = View(r)
    <3>1. Unseen
      BY <1>1, <2>2, ErrorUnseen
    <3> QED
      BY <1>1, <2>1, <3>1, SameQueriesView DEF Unseen
  <2> QED
    BY <2>2
<1>2. StorageInv /\ StorageInv' /\ [Next]_vars => [A]_vars
  BY <1>1
<1>3. Spec => [][A]_vars
  <2> HIDE DEF A
  <2> QED
    BY <1>2, Invariance, PTL DEF Spec
<1> QED
  BY <1>3 DEF ErrorChangesNothing

-----------------------------------------------------------------------------
(***************************************************************************)
(* The storage backend implements XornRevisions.  First the lists of a     *)
(* document: numbers in ascending order, a list without some objects, and  *)
(* an object in its new place.                                             *)
(***************************************************************************)

(* f[1] < ... < f[n] are the elements of S.                                *)
Enumerates(f, n, S) ==
  /\ n \in Nat /\ f = [k \in 1..n |-> f[k]]
  /\ \A k \in 1..n : f[k] \in S /\ f[k] \in Int
  /\ \A x \in S : \E k \in 1..n : f[k] = x
  /\ \A j, k \in 1..n : j < k => f[j] < f[k]

LEMMA EnumeratesRank ==
  ASSUME NEW f, NEW n, NEW S, Enumerates(f, n, S)
  PROVE  /\ IsFiniteSet(S) /\ Cardinality(S) = n
         /\ \A k \in 1..n : \A x \in S :
              Cardinality({y \in S : y < x}) = k - 1 <=> x = f[k]
<1>1. /\ n \in Nat
      /\ \A k \in 1..n : f[k] \in S /\ f[k] \in Int
      /\ \A x \in S : \E k \in 1..n : f[k] = x
      /\ \A j, k \in 1..n : j < k => f[j] < f[k]
  BY DEF Enumerates
<1>2. \A j, k \in 1..n : j < k <=> f[j] < f[k]
  <2> TAKE j, k \in 1..n
  <2>1. j < k \/ j = k \/ k < j
    BY <1>1
  <2> QED
    BY <1>1, <2>1
<1>3. ASSUME NEW m \in 0..n, NEW R, R \subseteq S,
             \A j \in 1..n : f[j] \in R <=> j <= m
      PROVE  IsFiniteSet(R) /\ Cardinality(R) = m
  <2> DEFINE g == [j \in 1..m |-> f[j]]
  <2>0. \A j \in 1..m : j \in 1..n /\ j <= m
    BY <1>1
  <2>1. g \in Bijection(1..m, R)
    <3>1. \A j \in 1..m : g[j] = f[j] /\ g[j] \in R
      BY <1>3, <2>0
    <3>2. ASSUME NEW j \in 1..m, NEW k \in 1..m, g[j] = g[k] PROVE j = k
      <4>1. j \in 1..n /\ k \in 1..n /\ f[j] = f[k] /\ f[j] \in Int /\ f[k] \in Int
        BY <1>1, <2>0, <3>1, <3>2
      <4>2. ~(f[j] < f[k]) /\ ~(f[k] < f[j])
        BY <4>1
      <4> QED
        BY <1>2, <4>1, <4>2
    <3>3. ASSUME NEW x \in R PROVE \E j \in 1..m : g[j] = x
      <4>1. PICK j \in 1..n : f[j] = x
        BY <1>1, <1>3, <3>3
      <4>2. j \in 1..m
        BY <1>1, <1>3, <4>1
      <4> QED
        BY <3>1, <4>1, <4>2
    <3>4. g \in [1..m -> R]
      BY <3>1
    <3> QED
      BY <3>2, <3>3, <3>4, Fun_IsBij
  <2>2. IsFiniteSet(1..m) /\ Cardinality(1..m) = m
    BY <1>1, FS_Interval
  <2>3. ExistsBijection(1..m, R)
    BY <2>1 DEF ExistsBijection
  <2> QED
    BY <2>2, <2>3, FS_Bijection
<1>4. IsFiniteSet(S) /\ Cardinality(S) = n
  BY <1>1, <1>3
<1>5. ASSUME NEW k \in 1..n PROVE Cardinality({y \in S : y < f[k]}) = k - 1
  <2> DEFINE R == {y \in S : y < f[k]}
  <2>1. R \subseteq S /\ k - 1 \in 0..n
    BY <1>1
  <2>2. \A j \in 1..n : f[j] \in R <=> j <= k - 1
    BY <1>1, <1>2
  <2> HIDE DEF R
  <2> QED
    BY <1>3, <2>1, <2>2 DEF R
<1>6. ASSUME NEW k \in 1..n, NEW x \in S
      PROVE  Cardinality({y \in S : y < x}) = k - 1 <=> x = f[k]
  <2>1. PICK j \in 1..n : f[j] = x
    BY <1>1
  <2>2. Cardinality({y \in S : y < x}) = j - 1
    BY <1>5, <2>1
  <2>3. Cardinality({y \in S : y < x}) = k - 1 => j = k
    BY <2>2
  <2> QED
    BY <1>5, <2>1, <2>3
<1> QED
  BY <1>4, <1>6

\* The abstract specification has its own instance of FiniteSets.
LEMMA CardinalityIs == \A S : Promised!Cardinality(S) = Cardinality(S)
BY DEF Promised!Cardinality, Cardinality

(* XornRevisions counts up a set, the storage ranks it by a relation.      *)
LEMMA AscendingIs ==
  ASSUME NEW f, NEW n, NEW S, Enumerates(f, n, S),
         NEW R, \A x, y \in S : <<x, y>> \in R <=> x < y
  PROVE  Promised!Ascending(S) = f /\ Ranked(S, R) = f
<1>1. /\ Cardinality(S) = n
      /\ \A k \in 1..n : \A x \in S :
           Cardinality({y \in S : y < x}) = k - 1 <=> x = f[k]
  BY EnumeratesRank
<1>2. \A k \in 1..n : f[k] \in S
  BY DEF Enumerates
<1> DEFINE nth(k) == CHOOSE x \in S : Cardinality({y \in S : y < x}) = k - 1
<1>3. \A k \in 1..n : nth(k) = f[k]
  BY <1>1, <1>2
<1>4. Promised!Ascending(S) = [k \in 1..n |-> f[k]]
  <2>1. Promised!Ascending(S) = [k \in 1..Cardinality(S) |-> nth(k)]
    BY DEF Promised!Ascending, Promised!Cardinality, Cardinality
  <2> HIDE DEF nth
  <2> QED
    BY <1>1, <1>3, <2>1
<1>5. \A x \in S : {y \in S : <<y, x>> \in R} = {y \in S : y < x}
  OBVIOUS
<1>6. \A k \in 1..n : (CHOOSE x \in S : Cardinality({y \in S : <<y, x>> \in R}) = k - 1) = f[k]
  <2> TAKE k \in 1..n
  <2>1. \A x \in S : Cardinality({y \in S : <<y, x>> \in R}) = k - 1 <=> x = f[k]
    BY <1>1, <1>5
  <2> QED
    BY <1>2, <2>1
<1>7. Ranked(S, R) = [k \in 1..n |-> f[k]]
  BY <1>1, <1>6 DEF Ranked
<1>8. f = [k \in 1..n |-> f[k]]
  BY DEF Enumerates
<1> QED
  BY <1>4, <1>7, <1>8

\* The list without the objects in D, given the positions that stay.
LEMMA LeftIs ==
  ASSUME NEW T, NEW s \in Seq(T), NEW D, NEW f, NEW n,
         NEW kept, kept = {i \in 1..Len(s) : s[i] \notin D}, Enumerates(f, n, kept),
         NEW u, u = [k \in 1..n |-> s[f[k]]]
  PROVE  Without(s, D) = u /\ Promised!Left(s, D) = u
<1> DEFINE R == {p \in kept \X kept : p[1] < p[2]}
<1>1. Cardinality(kept) = n
  BY EnumeratesRank
<1>2. Promised!Ascending(kept) = f /\ Ranked(kept, R) = f
  <2>1. \A x, y \in kept : <<x, y>> \in R <=> x < y
    OBVIOUS
  <2> HIDE DEF R
  <2> QED
    BY <2>1, AscendingIs
<1>3. kept = {i \in DOMAIN s : s[i] \notin D}
  BY LenProperties
<1>4. Without(s, D) = [k \in 1..Cardinality(kept) |-> s[Ranked(kept, R)[k]]]
  BY DEF Without
<1>5. Promised!Left(s, D) = [k \in DOMAIN Promised!Ascending(kept) |-> s[Promised!Ascending(kept)[k]]]
  BY <1>3 DEF Promised!Left
<1>6. DOMAIN f = 1..n
  BY DEF Enumerates
<1> HIDE DEF R
<1> QED
  BY <1>1, <1>2, <1>4, <1>5, <1>6

\* A set of positions can be counted up.
LEMMA PositionsEnumerated ==
  ASSUME NEW S, NEW n \in Nat, S \subseteq 1..n
  PROVE  \E f, m : Enumerates(f, m, S)
<1> DEFINE R == {p \in S \X S : p[1] < p[2]}
           f == Ranked(S, R)
           m == Cardinality(S)
<1>1. IsFiniteSet(S)
  <2>1. IsFiniteSet(1..n) /\ S \in SUBSET (1..n)
    BY FS_Interval
  <2> QED
    BY <2>1, FS_Subset
<1>2. \A x \in S : x \in Int
  OBVIOUS
<1>3. \A x, y \in S : <<x, y>> \in R <=> x < y
  OBVIOUS
<1> HIDE DEF R
<1>4. StrictOrder(S, R)
  BY <1>2, <1>3 DEF StrictOrder
<1>5. Lists(f, m, S, R)
  BY <1>1, <1>4, RankedOrder
<1> HIDE DEF f, m
<1>6. ASSUME NEW j \in 1..m, NEW k \in 1..m, j < k PROVE f[j] < f[k]
  <2>1. f[j] \in S /\ f[k] \in S /\ m \in Nat
    BY <1>5 DEF Lists
  <2> DEFINE rank(x) == Cardinality({y \in S : <<y, x>> \in R})
  <2>r. \A i \in 1..m : rank(f[i]) = i - 1
    BY <1>5 DEF Lists
  <2> HIDE DEF rank
  <2>2. f[j] # f[k]
    BY <1>6, <2>1, <2>r
  <2>3. ASSUME f[k] < f[j] PROVE FALSE
    <3>1. <<f[k], f[j]>> \in R
      BY <1>3, <2>1, <2>3
    <3>2. PICK i \in 1..j-1 : f[i] = f[k]
      BY <1>1, <1>4, <1>5, <2>1, <3>1, ListsMonotone
    <3>3. i \in 1..m /\ i < k
      BY <1>6, <2>1, <3>2
    <3> QED
      BY <2>1, <2>r, <3>2, <3>3
  <2>4. f[j] \in Int /\ f[k] \in Int
    BY <1>2, <2>1
  <2>5. ~(f[k] < f[j])
    BY <2>3
  <2> QED
    BY <2>2, <2>4, <2>5
<1>7. Enumerates(f, m, S)
  <2>1. \A x \in S : \E k \in 1..m : f[k] = x
    BY <1>5 DEF Lists
  <2>2. f = [k \in 1..m |-> f[k]]
    <3> DEFINE nth(k) == CHOOSE x \in S : Cardinality({y \in S : <<y, x>> \in R}) = k - 1
    <3>1. f = [k \in 1..m |-> nth(k)]
      BY DEF f, m, Ranked
    <3> HIDE DEF nth
    <3> QED
      BY <3>1
  <2> QED
    BY <1>2, <1>5, <1>6, <2>1, <2>2 DEF Enumerates, Lists
<1> QED
  BY <1>7

LEMMA LeftWithout ==
  ASSUME NEW T, NEW s \in Seq(T), NEW D
  PROVE  Promised!Left(s, D) = Without(s, D)
<1> DEFINE kept == {i \in 1..Len(s) : s[i] \notin D}
<1>1. Len(s) \in Nat
  BY LenProperties
<1>2. PICK f, n : Enumerates(f, n, kept)
  BY <1>1, PositionsEnumerated
<1> DEFINE u == [k \in 1..n |-> s[f[k]]]
<1> HIDE DEF kept
<1>3. \A v : v = u => Without(s, D) = v /\ Promised!Left(s, D) = v
  BY <1>2, LeftIs DEF kept
<1> QED
  BY <1>3

\* The list without the object at position i, which occurs there only.
LEMMA LeftOne ==
  ASSUME NEW T, NEW s \in Seq(T), NoDuplicates(s), NEW i \in 1..Len(s)
  PROVE  Promised!Left(s, {s[i]}) = EraseAt(s, i)
<1> DEFINE kept == {k \in 1..Len(s) : s[k] \notin {s[i]}}
           f == [k \in 1..Len(s)-1 |-> IF k < i THEN k ELSE k + 1]
<1>1. Len(s) \in Nat /\ i \in Int /\ 1 <= i /\ i <= Len(s)
  BY LenProperties
<1>2. kept = 1..Len(s) \ {i}
  BY DEF NoDuplicates
<1>3. Enumerates(f, Len(s)-1, kept)
  <2>1. \A k \in 1..Len(s)-1 : f[k] \in 1..Len(s) \ {i} /\ f[k] \in Int
    BY <1>1
  <2>2. \A x \in 1..Len(s) \ {i} : \E k \in 1..Len(s)-1 : f[k] = x
    <3> TAKE x \in 1..Len(s) \ {i}
    <3>1. CASE x < i
      <4>1. x \in 1..Len(s)-1 /\ f[x] = x
        BY <1>1, <3>1
      <4> QED
        BY <4>1
    <3>2. CASE x > i
      <4>1. x-1 \in 1..Len(s)-1 /\ f[x-1] = x
        BY <1>1, <3>2
      <4> QED
        BY <4>1
    <3> QED
      BY <1>1, <3>1, <3>2
  <2>3. \A j, k \in 1..Len(s)-1 : j < k => f[j] < f[k]
    BY <1>1
  <2>4. f = [k \in 1..Len(s)-1 |-> f[k]]
    OBVIOUS
  <2> HIDE DEF f, kept
  <2> QED
    BY <1>1, <1>2, <2>1, <2>2, <2>3, <2>4 DEF Enumerates
<1>4. Promised!Left(s, {s[i]}) = [k \in 1..Len(s)-1 |-> s[f[k]]]
  <2> HIDE DEF f
  <2> QED
    BY <1>3, LeftIs
<1>5. /\ EraseAt(s, i) \in Seq(T) /\ Len(EraseAt(s, i)) = Len(s) - 1
      /\ \A k \in 1..i-1 : EraseAt(s, i)[k] = s[k]
      /\ \A k \in i..Len(s)-1 : EraseAt(s, i)[k] = s[k+1]
  BY EraseElems
<1> DEFINE u == EraseAt(s, i)
<1>6. u = [k \in 1..Len(s)-1 |-> u[k]]
  BY <1>5, LenProperties
<1>7. \A k \in 1..Len(s)-1 : u[k] = s[f[k]]
  <2> TAKE k \in 1..Len(s)-1
  <2>1. CASE k < i
    BY <1>1, <1>5, <2>1
  <2>2. CASE ~(k < i)
    BY <1>1, <1>5, <2>2
  <2> QED
    BY <2>1, <2>2
<1> HIDE DEF u, f
<1> QED
  BY <1>4, <1>6, <1>7 DEF u

-----------------------------------------------------------------------------
(* An object in its new place.                                             *)

\* Entering x at position j and then erasing its old entry at i, which has
\* moved up if j is not behind it, is to erase first and then enter.
LEMMA EraseInsert ==
  ASSUME NEW T, NEW s \in Seq(T), NEW i \in 1..Len(s), NEW j \in 1..Len(s)+1, NEW x \in T
  PROVE  EraseAt(Insert(s, j, x), IF j <= i THEN i + 1 ELSE i)
           = Insert(EraseAt(s, i), IF j <= i THEN j ELSE j - 1, x)
<1> DEFINE v == Insert(s, j, x)
           pos == IF j <= i THEN i + 1 ELSE i
           u == EraseAt(v, pos)
           e == EraseAt(s, i)
           new == IF j <= i THEN j ELSE j - 1
           w == Insert(e, new, x)
<1>1. Len(s) \in Nat /\ i \in Int /\ 1 <= i /\ i <= Len(s) /\ j \in Int /\ 1 <= j /\ j <= Len(s) + 1
  BY LenProperties
<1>2. /\ v \in Seq(T) /\ Len(v) = Len(s) + 1
      /\ \A k \in 1..j-1 : v[k] = s[k]
      /\ v[j] = x
      /\ \A k \in j..Len(s) : v[k+1] = s[k]
  BY InsertElems
<1>3. /\ e \in Seq(T) /\ Len(e) = Len(s) - 1
      /\ \A k \in 1..i-1 : e[k] = s[k]
      /\ \A k \in i..Len(s)-1 : e[k] = s[k+1]
  BY EraseElems
<1> HIDE DEF v, e
<1>4. pos \in 1..Len(v) /\ new \in 1..Len(e)+1
  BY <1>1, <1>2, <1>3
<1>5. /\ u \in Seq(T) /\ Len(u) = Len(s)
      /\ \A k \in 1..pos-1 : u[k] = v[k]
      /\ \A k \in pos..Len(s) : u[k] = v[k+1]
  <2> HIDE DEF pos
  <2>1. Len(v) - 1 = Len(s)
    BY <1>1, <1>2
  <2>2. /\ EraseAt(v, pos) \in Seq(T) /\ Len(EraseAt(v, pos)) = Len(v) - 1
        /\ \A k \in 1..pos-1 : EraseAt(v, pos)[k] = v[k]
        /\ \A k \in pos..Len(v)-1 : EraseAt(v, pos)[k] = v[k+1]
    BY <1>2, <1>4, EraseElems
  <2> QED
    BY <2>1, <2>2
<1>6. /\ w \in Seq(T) /\ Len(w) = Len(s)
      /\ \A k \in 1..new-1 : w[k] = e[k]
      /\ w[new] = x
      /\ \A k \in new..Len(s)-1 : w[k+1] = e[k]
  <2> HIDE DEF new
  <2>1. Len(e) + 1 = Len(s)
    BY <1>1, <1>3
  <2>2. /\ Insert(e, new, x) \in Seq(T) /\ Len(Insert(e, new, x)) = Len(e) + 1
        /\ \A k \in 1..new-1 : Insert(e, new, x)[k] = e[k]
        /\ Insert(e, new, x)[new] = x
        /\ \A k \in new..Len(e) : Insert(e, new, x)[k+1] = e[k]
    <3> DEFINE Entered(q, n) ==
                 /\ Insert(q, n, x) \in Seq(T) /\ Len(Insert(q, n, x)) = Len(q) + 1
                 /\ \A k \in 1..n-1 : Insert(q, n, x)[k] = q[k]
                 /\ Insert(q, n, x)[n] = x
                 /\ \A k \in n..Len(q) : Insert(q, n, x)[k+1] = q[k]
    <3>1. ASSUME NEW q \in Seq(T), NEW n \in 1..Len(q)+1 PROVE Entered(q, n)
      BY ONLY InsertElems, x \in T, q \in Seq(T), n \in 1..Len(q)+1
    <3>2. e \in Seq(T) /\ new \in 1..Len(e)+1
      BY <1>3, <1>4
    <3> HIDE DEF Entered
    <3>3. Entered(e, new)
      BY ONLY <3>1, <3>2
    <3> QED
      BY ONLY <3>3 DEF Entered
  <2> QED
    BY <1>3, <2>1, <2>2
<1> HIDE DEF u, w
<1>7. ASSUME NEW k \in 1..Len(s) PROVE u[k] = w[k]
  <2>1. CASE j <= i /\ k < j
    <3>1. k \in 1..pos-1 /\ k \in 1..j-1 /\ k \in 1..new-1 /\ k \in 1..i-1
      BY <1>1, <2>1
    <3> QED
      BY <1>2, <1>3, <1>5, <1>6, <3>1
  <2>2. CASE j <= i /\ k = j
    <3>1. k \in 1..pos-1 /\ k = new
      BY <1>1, <2>2
    <3> QED
      BY <1>2, <1>5, <1>6, <2>2, <3>1
  <2>3. CASE j < k /\ k <= i
    <3>1. k \in 1..pos-1 /\ k-1 \in j..Len(s) /\ k-1 \in new..Len(s)-1 /\ k-1 \in 1..i-1 /\ k-1+1 = k
      BY <1>1, <2>3
    <3>2. u[k] = s[k-1]
      BY <1>2, <1>5, <3>1
    <3>3. w[k] = s[k-1]
      BY <1>3, <1>6, <3>1
    <3> QED
      BY <3>2, <3>3
  <2>4. CASE j <= i /\ i < k
    <3>1. k \in pos..Len(s) /\ k \in j..Len(s) /\ k-1 \in new..Len(s)-1 /\ k-1 \in i..Len(s)-1 /\ k-1+1 = k
      BY <1>1, <2>4
    <3>2. u[k] = s[k]
      BY <1>2, <1>5, <3>1
    <3>3. w[k] = s[k]
      BY <1>3, <1>6, <3>1
    <3> QED
      BY <3>2, <3>3
  <2>5. CASE i < j /\ k < i
    <3>1. k \in 1..pos-1 /\ k \in 1..j-1 /\ k \in 1..new-1 /\ k \in 1..i-1
      BY <1>1, <2>5
    <3> QED
      BY <1>2, <1>3, <1>5, <1>6, <3>1
  <2>6. CASE i <= k /\ k < j - 1
    <3>1. k \in pos..Len(s) /\ k+1 \in 1..j-1 /\ k \in 1..new-1 /\ k \in i..Len(s)-1
      BY <1>1, <2>6
    <3> QED
      BY <1>2, <1>3, <1>5, <1>6, <3>1
  <2>7. CASE i < j /\ k = j - 1
    <3>1. k \in pos..Len(s) /\ k + 1 = j /\ k = new
      BY <1>1, <2>7
    <3> QED
      BY <1>2, <1>5, <1>6, <3>1
  <2>8. CASE i < j /\ k > j - 1
    <3>1. k \in pos..Len(s) /\ k \in j..Len(s) /\ k-1 \in new..Len(s)-1 /\ k-1 \in i..Len(s)-1 /\ k-1+1 = k
      BY <1>1, <2>8
    <3>2. u[k] = s[k]
      BY <1>2, <1>5, <3>1
    <3>3. w[k] = s[k]
      BY <1>3, <1>6, <3>1
    <3> QED
      BY <3>2, <3>3
  <2> QED
    BY <1>1, <2>1, <2>2, <2>3, <2>4, <2>5, <2>6, <2>7, <2>8
<1>8. u = w
  BY <1>5, <1>6, <1>7, SeqEqual
<1> QED
  BY <1>8 DEF u, w, v, e

\* An entry that is erased and entered again in the same place.
LEMMA EraseInsertSame ==
  ASSUME NEW T, NEW s \in Seq(T), NEW i \in 1..Len(s)
  PROVE  Insert(EraseAt(s, i), i, s[i]) = s
<1> DEFINE e == EraseAt(s, i)
           w == Insert(e, i, s[i])
<1>1. Len(s) \in Nat /\ i \in Int /\ 1 <= i /\ i <= Len(s) /\ s[i] \in T
  BY LenProperties, ElementOfSeq
<1>2. /\ e \in Seq(T) /\ Len(e) = Len(s) - 1
      /\ \A k \in 1..i-1 : e[k] = s[k]
      /\ \A k \in i..Len(s)-1 : e[k] = s[k+1]
  BY EraseElems
<1> HIDE DEF e
<1>3. i \in 1..Len(e)+1
  BY <1>1, <1>2
<1>4. /\ w \in Seq(T) /\ Len(w) = Len(e) + 1
      /\ \A k \in 1..i-1 : w[k] = e[k]
      /\ w[i] = s[i]
      /\ \A k \in i..Len(e) : w[k+1] = e[k]
  <2> DEFINE x == s[i]
  <2>1. e \in Seq(T) /\ x \in T /\ i \in 1..Len(e)+1
    BY <1>1, <1>2, <1>3
  <2> HIDE DEF x
  <2>2. /\ Insert(e, i, x) \in Seq(T) /\ Len(Insert(e, i, x)) = Len(e) + 1
        /\ \A k \in 1..i-1 : Insert(e, i, x)[k] = e[k]
        /\ Insert(e, i, x)[i] = x
        /\ \A k \in i..Len(e) : Insert(e, i, x)[k+1] = e[k]
    BY <2>1, InsertElems
  <2> QED
    BY <2>2 DEF x
<1> HIDE DEF w
<1>5. ASSUME NEW k \in 1..Len(s) PROVE w[k] = s[k]
  <2>1. CASE k < i
    BY <1>1, <1>2, <1>4, <2>1
  <2>2. CASE k = i
    BY <1>4, <2>2
  <2>3. CASE k > i
    <3>1. k-1 \in i..Len(s)-1 /\ k-1 \in i..Len(e) /\ k-1+1 = k
      BY <1>1, <1>2, <2>3
    <3> QED
      BY <1>2, <1>4, <3>1
  <2> QED
    BY <1>1, <2>1, <2>2, <2>3
<1>6. Len(w) = Len(s)
  BY <1>1, <1>2, <1>4
<1>7. w = s
  BY <1>4, <1>5, <1>6, SeqEqual
<1> QED
  BY <1>7 DEF w, e

LEMMA InsertLast ==
  ASSUME NEW T, NEW s \in Seq(T), NEW x \in T
  PROVE  Insert(s, Len(s) + 1, x) = Append(s, x)
<1> DEFINE w == Insert(s, Len(s) + 1, x)
           u == Append(s, x)
<1>1. Len(s) \in Nat /\ Len(s) + 1 \in 1..Len(s)+1
  BY LenProperties
<1>2. /\ w \in Seq(T) /\ Len(w) = Len(s) + 1
      /\ \A k \in 1..Len(s)+1-1 : w[k] = s[k]
      /\ w[Len(s) + 1] = x
  BY <1>1, InsertElems
<1>3. /\ u \in Seq(T) /\ Len(u) = Len(s) + 1
      /\ \A i \in 1..Len(s) : u[i] = s[i]
      /\ u[Len(s) + 1] = x
  BY AppendElems
<1> HIDE DEF w, u
<1>4. ASSUME NEW k \in 1..Len(s)+1 PROVE w[k] = u[k]
  <2>1. k \in 1..Len(s) \/ k = Len(s) + 1
    BY <1>1
  <2>2. Len(s) + 1 - 1 = Len(s)
    BY <1>1
  <2> QED
    BY <1>2, <1>3, <2>1, <2>2
<1>5. w = u
  BY <1>2, <1>3, <1>4, SeqEqual
<1> QED
  BY <1>5 DEF w, u

\* Where Placed puts ob in a list without duplicates.
LEMMA PlacedIs ==
  ASSUME NEW T, NEW s \in Seq(T), NEW ob \in T, NEW before
  PROVE  /\ before = Null => Promised!Placed(s, ob, before) = Insert(s, Len(s) + 1, ob)
         /\ \A j \in 1..Len(s) : before # Null /\ NoDuplicates(s) /\ s[j] = before
              => Promised!Placed(s, ob, before) = Insert(s, j, ob)
<1>1. before = Null => Promised!Placed(s, ob, before) = Insert(s, Len(s) + 1, ob)
  BY InsertLast DEF Promised!Placed, Promised!Null, Null
<1>2. ASSUME NEW j \in 1..Len(s), before # Null, NoDuplicates(s), s[j] = before
      PROVE  Promised!Placed(s, ob, before) = Insert(s, j, ob)
  <2> DEFINE at == CHOOSE i \in DOMAIN s : s[i] = before
  <2>1. at = j
    <3>1. DOMAIN s = 1..Len(s)
      BY LenProperties
    <3> QED
      BY <1>2, <3>1 DEF NoDuplicates
  <2>2. Promised!Placed(s, ob, before) = Promised!InsertAt(s, at, ob)
    BY <1>2 DEF Promised!Placed, Promised!Null, Null
  <2> HIDE DEF at
  <2> QED
    BY <2>1, <2>2 DEF Promised!InsertAt, Insert
<1> QED
  BY <1>1, <1>2

\* Moving an object within its list.
LEMMA MovedWithin ==
  ASSUME NEW T, NEW s \in Seq(T), NoDuplicates(s), Null \notin T,
         NEW i \in 1..Len(s), NEW before, before = Null \/ before \in Elems(s), before # s[i],
         NEW j \in 1..Len(s)+1,
         before = Null => j = Len(s) + 1, before # Null => j \in 1..Len(s) /\ s[j] = before,
         NEW x, x = s[i], NEW u, u = Promised!Placed(Promised!Left(s, {x}), x, before)
  PROVE  /\ j <= i => EraseAt(Insert(s, j, x), i + 1) = u
         /\ i < j => EraseAt(Insert(s, j, x), i) = u
<1> DEFINE e == EraseAt(s, i)
           new == IF j <= i THEN j ELSE j - 1
<1>1. Len(s) \in Nat /\ i \in Int /\ 1 <= i /\ i <= Len(s) /\ x \in T
  BY LenProperties, ElementOfSeq
<1>2. before # Null => j \in 1..Len(s) /\ s[j] = before /\ j # i
  OBVIOUS
<1>3. /\ e \in Seq(T) /\ Len(e) = Len(s) - 1
      /\ \A k \in 1..i-1 : e[k] = s[k]
      /\ \A k \in i..Len(s)-1 : e[k] = s[k+1]
  BY EraseElems
<1>4. NoDuplicates(e)
  BY EraseSet
<1>5. Promised!Left(s, {x}) = e
  BY LeftOne
<1> HIDE DEF e
<1>6. EraseAt(Insert(s, j, x), IF j <= i THEN i + 1 ELSE i) = Insert(e, new, x)
  BY <1>1, <1>2, EraseInsert DEF e
<1>7. Promised!Placed(e, x, before) = Insert(e, new, x)
  <2>1. CASE before = Null
    <3>1. new = Len(e) + 1
      BY <1>1, <1>3, <2>1
    <3> QED
      BY <1>1, <1>3, <2>1, <3>1, PlacedIs
  <2>2. CASE before # Null
    <3>1. new \in 1..Len(e) /\ e[new] = before
      <4>1. CASE j < i
        <5>1. new = j /\ j \in 1..i-1 /\ j \in 1..Len(e)
          BY <1>1, <1>2, <1>3, <2>2, <4>1
        <5> QED
          BY <1>2, <1>3, <2>2, <5>1
      <4>2. CASE j > i
        <5>1. new = j-1 /\ j-1 \in i..Len(s)-1 /\ j-1 \in 1..Len(e) /\ j-1+1 = j
          BY <1>1, <1>2, <1>3, <2>2, <4>2
        <5> QED
          BY <1>2, <1>3, <2>2, <5>1
      <4> QED
        BY <1>1, <1>2, <2>2, <4>1, <4>2
    <3> HIDE DEF new
    <3> QED
      BY <1>1, <1>3, <1>4, <2>2, <3>1, PlacedIs
  <2> QED
    BY <2>1, <2>2
<1> QED
  BY <1>5, <1>6, <1>7

-----------------------------------------------------------------------------
(* The document of a revision, and what a step does to all of them.        *)

\* The document that the maps o, ch and the object states ct make.
DocData(o, ct) == [ob \in DOMAIN o |-> ct[o[ob]]]
DocOrder(o, ch) == [p \in DOMAIN o \cup {Null} |-> Kids(ch, p)]
Doc(o, ch, ct) == [data |-> DocData(o, ct), order |-> DocOrder(o, ch)]

LEMMA DocumentIs ==
  ASSUME NEW r
  PROVE  /\ Document(r) = Doc(obstates[r], children[r], content)
         /\ Document(r)' = Doc(obstates'[r], children'[r], content')
BY DEF Document, View, Doc, DocData, DocOrder

LEMMA DocOf ==
  ASSUME NEW o, NEW ch, NEW ct
  PROVE  /\ Doc(o, ch, ct).data = DocData(o, ct)
         /\ Doc(o, ch, ct).order = DocOrder(o, ch)
         /\ DOMAIN DocOrder(o, ch) = DOMAIN o \cup {Null}
         /\ \A p \in DOMAIN o \cup {Null} : DocOrder(o, ch)[p] = Kids(ch, p)
         /\ DOMAIN DocData(o, ct) = DOMAIN o
         /\ \A ob \in DOMAIN o : DocData(o, ct)[ob] = ct[o[ob]]
BY DEF Doc, DocData, DocOrder

\* What a query shows of the objects of a document and of their attachments.
LEMMA DocReads ==
  ASSUME NEW o, NEW ch, NEW ct, NEW pa, TypedForest(DOMAIN o, pa, ch), NEW p \in DOMAIN o \cup {Null}
  PROVE  /\ Promised!ObjectsIn(Doc(o, ch, ct)) = DOMAIN o
         /\ Promised!Attached(Doc(o, ch, ct), p) = Elems(Kids(ch, p))
<1>1. Promised!ObjectsIn(Doc(o, ch, ct)) = DOMAIN o
  BY DEF Promised!ObjectsIn, Doc, DocData
<1>2. Kids(ch, p) \in Seq(Objects)
  BY KidsSeq
<1>3. DOMAIN Kids(ch, p) = 1..Len(Kids(ch, p))
  BY <1>2, LenProperties
<1>4. Promised!Attached(Doc(o, ch, ct), p) = {Kids(ch, p)[i] : i \in DOMAIN Kids(ch, p)}
  BY DEF Promised!Attached, Promised!ToSet, Doc, DocOrder
<1> QED
  BY <1>1, <1>3, <1>4 DEF Elems

\* What a query shows of a document after ob, attached to `from`, has moved.
LEMMA MovedDocument ==
  ASSUME NEW o, NEW ch, NEW ct, NEW pa, TypedForest(DOMAIN o, pa, ch),
         NEW ob \in DOMAIN o, NEW to \in DOMAIN o \cup {Null},
         NEW before, before = Null \/ before \in Elems(Kids(ch, to))
  PROVE  Promised!Rearranged(Doc(o, ch, ct), ob, to, before)
           = Doc(o, Moved(ch, pa[ob], ob, to, before), ct)
<1> DEFINE d == Doc(o, ch, ct)
           data == DocData(o, ct)
           order == DocOrder(o, ch)
           obs == DOMAIN o
           from == pa[ob]
           s == Kids(ch, from)
           t == Kids(ch, to)
           i == Find(s, ob)
           j == IF before = Null THEN Len(t) + 1 ELSE Find(t, before)
           pos == IF to = from /\ before # Null /\ j <= i THEN i + 1 ELSE i
           C == Moved(ch, from, ob, to, before)
<1>1. /\ obs \subseteq Objects /\ DOMAIN pa = obs
      /\ from \in obs \cup {Null} /\ from \in DOMAIN ch
      /\ s = ch[from]
  BY DEF TypedForest, IsForest, Kids
<1>2. \A p \in obs \cup {Null} : /\ Kids(ch, p) \in Seq(Objects) /\ NoDuplicates(Kids(ch, p))
                                 /\ Elems(Kids(ch, p)) = {x \in obs : pa[x] = p}
  BY KidsSeq
<1>3. ob \in Elems(s) /\ ob \in Objects /\ ob # Null
  <2>1. ob \in Objects
    BY <1>1
  <2>2. Elems(s) = {x \in obs : pa[x] = from}
    BY <1>1, <1>2
  <2> QED
    BY <2>1, <2>2 DEF Objects, Null
<1>4. i \in 1..Len(s) /\ s[i] = ob
  BY <1>1, <1>2, <1>3, FindIndex
<1>5. before # Null => j \in 1..Len(t) /\ t[j] = before
  BY <1>1, <1>2, FindIndex
<1>6. C = LET inserted == Put(ch, to, Insert(t, j, ob))
          IN  Put(inserted, from, EraseAt(inserted[from], pos))
  BY <1>1 DEF Moved
<1>7. \A p : Kids(C, p) = IF p = from
                            THEN EraseAt(IF to = from THEN Insert(t, j, ob) ELSE s, pos)
                            ELSE IF p = to THEN Insert(t, j, ob) ELSE Kids(ch, p)
  BY <1>1, <1>6 DEF Put, Kids
<1> DEFINE left(p) == Promised!Left(Kids(ch, p), {ob})
<1>8. left(from) = EraseAt(s, i)
  BY <1>1, <1>2, <1>4, LeftOne
<1>9. ASSUME NEW p \in obs \cup {Null}, p # from PROVE left(p) = Kids(ch, p)
  <2>1. Elems(Kids(ch, p)) \cap {ob} = {}
    BY <1>2, <1>9
  <2> QED
    BY <1>2, <2>1, LeftWithout, WithoutNone
<1>10. ASSUME before # ob
       PROVE  \A p \in obs \cup {Null} :
                Kids(C, p) = IF p = to THEN Promised!Placed(left(p), ob, before) ELSE left(p)
  <2> SUFFICES ASSUME NEW p \in obs \cup {Null}
               PROVE  Kids(C, p) = IF p = to THEN Promised!Placed(left(p), ob, before) ELSE left(p)
    OBVIOUS
  <2>1. CASE p = to /\ to = from
    <3>1. EraseAt(Insert(s, j, ob), pos) = Promised!Placed(Promised!Left(s, {ob}), ob, before)
      <4>1. Null \notin Objects
        BY DEF Objects, Null
      <4>2. /\ j \in 1..Len(s)+1
            /\ before = Null => j = Len(s) + 1
            /\ before # Null => j \in 1..Len(s) /\ s[j] = before
            /\ Len(s) \in Nat
        BY <1>1, <1>2, <1>5, <2>1, LenProperties
      <4>3. s \in Seq(Objects) /\ NoDuplicates(s) /\ before # s[i] /\ ob = s[i]
            /\ (before = Null \/ before \in Elems(s))
        BY <1>1, <1>2, <1>4, <1>10, <2>1
      <4>4. i \in 1..Len(s)
        BY <1>4
      <4>5. pos = IF j <= i THEN i + 1 ELSE i
        BY <2>1, <4>2, <4>4
      <4> HIDE DEF s, i, j, pos, from, obs, t
      <4> DEFINE u == Promised!Placed(Promised!Left(s, {ob}), ob, before)
      <4>6. \A v : v = u => /\ j <= i => EraseAt(Insert(s, j, ob), i + 1) = v
                            /\ i < j => EraseAt(Insert(s, j, ob), i) = v
        <5> HIDE DEF u
        <5> QED
          BY <4>1, <4>2, <4>3, <4>4, MovedWithin DEF u
      <4> HIDE DEF u
      <4>7. (j <= i /\ pos = i + 1) \/ (i < j /\ pos = i)
        BY <4>2, <4>4, <4>5
      <4>8. EraseAt(Insert(s, j, ob), pos) = u
        BY <4>6, <4>7
      <4> QED
        BY <4>8 DEF u
    <3> QED
      BY <1>4, <1>7, <2>1, <3>1
  <2>2. CASE p = to /\ to # from
    <3>1. Kids(C, p) = Insert(t, j, ob)
      BY <1>7, <2>2
    <3>2. t \in Seq(Objects) /\ NoDuplicates(t)
      BY <1>2
    <3>3. Promised!Placed(t, ob, before) = Insert(t, j, ob)
      <4> HIDE DEF t
      <4>1. CASE before = Null
        BY <1>3, <3>2, <4>1, PlacedIs
      <4>2. CASE before # Null
        <5> HIDE DEF j
        <5> QED
          BY <1>3, <1>5, <3>2, <4>2, PlacedIs
      <4> QED
        BY <4>1, <4>2
    <3> QED
      BY <1>9, <2>2, <3>1, <3>3
  <2>3. CASE p # to /\ p = from
    BY <1>7, <1>8, <2>3
  <2>4. CASE p # to /\ p # from
    BY <1>7, <1>9, <2>4
  <2> QED
    BY <2>1, <2>2, <2>3, <2>4
<1>11. ASSUME before = ob
       PROVE  \A p \in obs \cup {Null} : Kids(C, p) = Kids(ch, p)
  <2>1. to = from
    BY <1>1, <1>2, <1>3, <1>11
  <2>2. j = i /\ pos = i + 1 /\ before # Null
    BY <1>3, <1>4, <1>11, <2>1
  <2>3. EraseAt(Insert(s, i, s[i]), i + 1) = s
    <3>1. s \in Seq(Objects) /\ s[i] \in Objects /\ i \in 1..Len(s)+1 /\ i <= i
      BY <1>1, <1>2, <1>3, <1>4, LenProperties
    <3> HIDE DEF s, i
    <3>2. EraseAt(Insert(s, i, s[i]), IF i <= i THEN i + 1 ELSE i)
            = Insert(EraseAt(s, i), IF i <= i THEN i ELSE i - 1, s[i])
      BY <1>4, <3>1, EraseInsert
    <3>3. Insert(EraseAt(s, i), i, s[i]) = s
      BY <1>4, <3>1, EraseInsertSame
    <3> QED
      BY <3>1, <3>2, <3>3
  <2> QED
    BY <1>4, <1>7, <2>1, <2>2, <2>3
<1>a. d = [data |-> data, order |-> order] /\ order = [p \in obs \cup {Null} |-> Kids(ch, p)]
  BY DEF Doc, DocOrder
<1>b. Doc(o, C, ct) = [data |-> data, order |-> [p \in obs \cup {Null} |-> Kids(C, p)]]
  BY DEF Doc, DocOrder
<1> HIDE DEF C, left, d, data, order
<1>12. ASSUME before = ob PROVE Promised!Rearranged(d, ob, to, before) = Doc(o, C, ct)
  <2>1. [p \in obs \cup {Null} |-> Kids(C, p)] = order
    BY <1>11, <1>12, <1>a
  <2>2. Promised!Rearranged(d, ob, to, before) = d
    BY <1>12 DEF Promised!Rearranged
  <2> QED
    BY <1>a, <1>b, <2>1, <2>2
<1>13. ASSUME before # ob PROVE Promised!Rearranged(d, ob, to, before) = Doc(o, C, ct)
  <2>1. \A p \in obs \cup {Null} : d.order[p] = Kids(ch, p)
    BY <1>a
  <2>2. /\ d.order = order /\ d.data = data /\ DOMAIN d.order = obs \cup {Null}
        /\ \A f : [d EXCEPT !.order = f] = [data |-> data, order |-> f]
    BY <1>a
  <2> DEFINE new(p) == IF p = to THEN Promised!Placed(Promised!Left(d.order[p], {ob}), ob, before)
                       ELSE Promised!Left(d.order[p], {ob})
  <2>3. Promised!Rearranged(d, ob, to, before)
          = [d EXCEPT !.order = [p \in DOMAIN d.order |-> new(p)]]
    BY <1>13 DEF Promised!Rearranged
  <2>4. \A p \in obs \cup {Null} : new(p) = Kids(C, p)
    BY <1>10, <1>13, <2>1 DEF left
  <2> HIDE DEF new
  <2>5. [p \in DOMAIN d.order |-> new(p)] = [p \in obs \cup {Null} |-> Kids(C, p)]
    BY <2>2, <2>4
  <2> QED
    BY <1>b, <2>2, <2>3, <2>5
<1>14. Promised!Rearranged(d, ob, to, before) = Doc(o, C, ct)
  BY <1>12, <1>13
<1> QED
  BY <1>14 DEF C, d

\* An object state stays as it is as long as a revision keeps it.
LEMMA KeptData ==
  ASSUME StorageInv, StorageInv', CellsKept, NEW s \in Revs, NEW x \in DOMAIN obstates[s],
         x \in DOMAIN obstates'[s], obstates'[s][x] = obstates[s][x]
  PROVE  content'[obstates[s][x]] = content[obstates[s][x]]
<1> DEFINE c == obstates[s][x]
<1>1. c \in Cells /\ refcnt[c] > 0
  BY UsedCounted
<1>2. x \in Objects
  BY OneRevision
<1>3. <<s, x>> \in RefsIn(obstates', c)
  BY <1>2 DEF RefsIn
<1> HIDE DEF c
<1>4. refcnt'[c] = Cardinality(RefsIn(obstates', c))
  BY <1>1 DEF StorageInv, RefcountExact, References, RefsIn
<1>5. Cardinality(RefsIn(obstates', c)) # 0
  BY <1>3, RefsFinite, FS_EmptySet
<1>6. refcnt'[c] > 0
  BY <1>1, <1>4, <1>5 DEF StorageInv, TypeOK
<1>7. content'[c] = content[c]
  BY <1>1, <1>6 DEF CellsKept
<1> QED
  BY <1>7 DEF c

LEMMA SameDocument ==
  ASSUME StorageInv, StorageInv', CellsKept, NEW s \in Revs, SameQueries(s)
  PROVE  Document(s)' = Document(s)
<1>1. View(s)' = View(s)
  BY SameQueriesView
<1> QED
  BY <1>1 DEF Document

LEMMA UntouchedDocument ==
  ASSUME StorageInv, StorageInv', CellsKept, NEW s \in Revs, Untouched(s)
  PROVE  Document(s)' = Document(s)
BY SameDocument DEF Untouched, SameQueries

\* A revision without objects has the empty document.
LEMMA EmptyDocument ==
  ASSUME NEW o, NEW ch, NEW ct, DOMAIN o = {}, Kids(ch, Null) = << >>
  PROVE  Doc(o, ch, ct) = Promised!EmptyDoc
<1>1. DocData(o, ct) = [ob \in {} |-> Null]
  BY DEF DocData
<1>2. DocOrder(o, ch) = [p \in {Null} |-> << >>]
  BY DEF DocOrder
<1> QED
  BY <1>1, <1>2 DEF Doc, Promised!EmptyDoc, Promised!Null, Null

LEMMA FreedDocument ==
  ASSUME StorageInv, NEW r \in Revs \ live
  PROVE  Document(r) = Promised!EmptyDoc
<1>1. DOMAIN obstates[r] = {}
  BY DEF StorageInv, FreedEmpty
<1>2. TypedForest(DOMAIN obstates[r], parent[r], children[r])
  BY OneRevision
<1> DEFINE k == Kids(children[r], Null)
<1>3. k \in Seq(Objects) /\ Elems(k) = {x \in DOMAIN obstates[r] : parent[r][x] = Null}
  BY <1>2, KidsSeq
<1> HIDE DEF k
<1>4. Len(k) \in Nat /\ Elems(k) = {}
  BY <1>1, <1>3, LenProperties
<1>5. Len(k) = 0
  <2>1. ~(Len(k) >= 1)
    BY <1>4 DEF Elems
  <2> QED
    BY <1>4, <2>1
<1>6. k = << >>
  BY <1>3, <1>5, EmptySeq
<1> QED
  BY <1>1, <1>6, DocumentIs, EmptyDocument DEF k

\* A step that gives the transient revision r document d and leaves the others
\* alone is a change of XornRevisions.
LEMMA ChangeIs ==
  ASSUME StorageInv, StorageInv', CellsKept, NEW r \in live, r \in Revs, is_transient[r],
         UNCHANGED <<live, is_transient>>, \A s \in Revs \ {r} : Untouched(s),
         NEW d, Document(r)' = d, NEW last, next_object_id' = last
  PROVE  Promised!Change(r, d, last)
<1>1. \A s \in Revs \ {r} : Document(s)' = Document(s)
  BY UntouchedDocument
<1>2. [s \in Revs |-> Document(s)]' = [[s \in Revs |-> Document(s)] EXCEPT ![r] = d]
  BY <1>1
<1> QED
  BY <1>2 DEF Promised!Change

-----------------------------------------------------------------------------
(* Each call, completed or failed, is a step of XornRevisions.             *)

\* Object numbers are never given back.
LEMMA NumbersGrow ==
  ASSUME StorageInv, StorageInv', [Next]_vars
  PROVE  next_object_id' \in next_object_id..MaxId
<1>1. next_object_id \in Nat /\ next_object_id' \in 0..MaxId /\ MaxId \in Nat
  BY StorageAssumption DEF StorageInv, TypeOK
<1>2. \A src, S : Cardinality(Items(src, S)) \in Nat \/ src \notin Revs
  BY ItemsFinite, FS_CardinalityType
<1>3. next_object_id' >= next_object_id
  <2>1. CASE UNCHANGED vars
    BY <1>1, <2>1 DEF vars
  <2>2. CASE RevisionCall
    BY <1>1, <2>2 DEF RevisionCall, NewRevision, FinalizeRevision, FreeRevision, CopyRevision,
       NewRevisionFails, Reject
  <2>3. CASE ObjectCall
    BY <1>1, <2>3 DEF ObjectCall, AddObject, AddObjectFails, AddObjectRejected, SetObjectData,
       SetObjectDataFails, SetObjectDataRejected, Reject
  <2>4. CASE RelocateCall
    BY <1>1, <2>4 DEF RelocateCall, Relocate, RelocateNoSuccessor, RelocateFails, RelocateAborts,
       RelocateRejected, Reject
  <2>5. CASE DeleteCall
    <3>1. (\E r, S : DeleteObjects(r, S)) \/ (\E err : Reject(err))
      BY <2>5 DEF DeleteCall, DeleteObject, DeleteObjectRejected, DeleteSelectedObjects,
         DeleteSelectedRejected
    <3>2. next_object_id' = next_object_id
      BY <3>1 DEF DeleteObjects, Reject
    <3> QED
      BY <1>1, <3>2
  <2>6. CASE CopyCall
    <3>1. PICK dest \in Revs, src \in Revs :
            \/ \E S : CopyObjects(dest, src, S) \/ CopyObjectsFails(dest, src, S)
            \/ \E err : Reject(err)
      BY <2>6 DEF CopyCall, CopyObject, CopyObjectRejected, CopySelected, CopySelectedRejected
    <3>2. ASSUME NEW S, CopyObjects(dest, src, S) PROVE next_object_id' >= next_object_id
      BY <1>1, <1>2, <3>2 DEF CopyObjects
    <3>3. ASSUME NEW S, CopyObjectsFails(dest, src, S) PROVE next_object_id' >= next_object_id
      <4>1. PICK m \in 0..Cardinality(Items(src, S)) - 1 : next_object_id' = next_object_id + m + 1
        BY <3>3 DEF CopyObjectsFails
      <4> QED
        BY <1>1, <1>2, <4>1
    <3>4. ASSUME NEW err, Reject(err) PROVE next_object_id' >= next_object_id
      BY <1>1, <3>4 DEF Reject
    <3> QED
      BY <3>1, <3>2, <3>3, <3>4
  <2> QED
    BY <2>1, <2>2, <2>3, <2>4, <2>5, <2>6 DEF Next
<1> QED
  BY <1>1, <1>3

\* A step that no query sees has at most spent numbers.
LEMMA UnseenSpends ==
  ASSUME StorageInv, StorageInv', [Next]_vars, Unseen, UNCHANGED is_transient
  PROVE  Promised!Next
<1>1. CellsKept
  BY StepContained DEF Contained
<1>2. \A s \in Revs : Document(s)' = Document(s)
  BY <1>1, SameDocument DEF Unseen
<1>3. [s \in Revs |-> Document(s)]' = [s \in Revs |-> Document(s)]
  BY <1>2
<1>4. Promised!SpendNumbers(next_object_id')
  BY <1>3 DEF Promised!SpendNumbers, Unseen
<1> QED
  BY <1>4, NumbersGrow DEF Promised!Next

\* No call that reports an error touches the flags.
LEMMA ErrorKeepsFlags ==
  ASSUME Next, ret' # "ok"
  PROVE  UNCHANGED is_transient
<1>1. CASE RevisionCall
  BY <1>1 DEF RevisionCall, NewRevision, FinalizeRevision, FreeRevision, CopyRevision,
     NewRevisionFails, Reject
<1>2. CASE ObjectCall
  BY <1>2 DEF ObjectCall, AddObject, AddObjectFails, AddObjectRejected, SetObjectData,
     SetObjectDataFails, SetObjectDataRejected, Reject
<1>3. CASE RelocateCall
  BY <1>3 DEF RelocateCall, Relocate, RelocateNoSuccessor, RelocateFails, RelocateAborts,
     RelocateRejected, Reject
<1>4. CASE DeleteCall
  BY <1>4 DEF DeleteCall, DeleteObject, DeleteObjectRejected, DeleteSelectedObjects,
     DeleteSelectedRejected, DeleteObjects, Reject
<1>5. CASE CopyCall
  <2>1. \/ \E dest, src, S : CopyObjects(dest, src, S) \/ CopyObjectsFails(dest, src, S)
        \/ \E err : Reject(err)
    BY <1>5 DEF CopyCall, CopyObject, CopyObjectRejected, CopySelected, CopySelectedRejected
  <2>2. ASSUME NEW dest, NEW src, NEW S, CopyObjects(dest, src, S) \/ CopyObjectsFails(dest, src, S)
        PROVE  UNCHANGED is_transient
    BY <2>2 DEF CopyObjects, CopyObjectsFails
  <2> QED
    BY <2>1, <2>2 DEF Reject
<1> QED
  BY <1>1, <1>2, <1>3, <1>4, <1>5 DEF Next

LEMMA ErrorRefines ==
  ASSUME StorageInv, StorageInv', Next, ret' # "ok"
  PROVE  Promised!Next
BY ErrorUnseen, ErrorKeepsFlags, UnseenSpends

LEMMA RevisionCallRefines ==
  ASSUME StorageInv, StorageInv', RevisionCall, [Next]_vars, ret' = "ok"
  PROVE  Promised!Next
<1> DEFINE doc == [s \in Revs |-> Document(s)]
<1>1. CellsKept /\ Domains
  BY StepContained, DomainsKnown DEF Contained
<1>2. \A s \in Revs : Untouched(s) => Document(s)' = Document(s)
  BY <1>1, UntouchedDocument
<1>3. ASSUME NEW r \in Revs, NewRevision(r) PROVE Promised!New(r)
  <2>1. doc' = doc
    BY <1>2, <1>3 DEF NewRevision, Untouched, rev_vars
  <2>2. doc[r] = Promised!EmptyDoc
    BY <1>3, FreedDocument DEF NewRevision
  <2> HIDE DEF doc
  <2>3. doc' = [doc EXCEPT ![r] = Promised!EmptyDoc]
    BY <2>1, <2>2 DEF doc
  <2> QED
    BY <1>3, <2>3 DEF NewRevision, Promised!New, doc
<1>4. ASSUME NEW r \in Revs, NEW from \in Revs, CopyRevision(r, from) PROVE Promised!New(r)
  <2>1. \A s \in Revs \ {r} : Untouched(s)
    BY <1>1, <1>4 DEF CopyRevision, Untouched, Domains
  <2>2. Document(r)' = Document(from)
    <3>1. obstates'[r] = obstates[from] /\ children'[r] = children[from] /\ content' = content
      BY <1>1, <1>4 DEF CopyRevision, Domains
    <3> QED
      BY <3>1, DocumentIs
  <2>3. doc' = [doc EXCEPT ![r] = doc[from]]
    BY <1>2, <2>1, <2>2
  <2>4. from \in live
    BY <1>4 DEF CopyRevision
  <2> QED
    BY <1>4, <2>3, <2>4 DEF CopyRevision, Promised!New
<1>5. ASSUME NEW r \in Revs, FinalizeRevision(r) PROVE Promised!Finalize(r)
  <2>1. doc' = doc
    BY <1>2, <1>5 DEF FinalizeRevision, Untouched, rev_vars
  <2> QED
    BY <1>5, <2>1 DEF FinalizeRevision, Promised!Finalize
<1>6. ASSUME NEW r \in Revs, FreeRevision(r) PROVE Promised!Free(r)
  <2>1. \A s \in Revs \ {r} : Untouched(s)
    BY <1>1, <1>6 DEF FreeRevision, Untouched, Domains
  <2>2. Document(r)' = Promised!EmptyDoc
    <3>1. obstates'[r] = EmptyMap /\ children'[r] = EmptyMap
      BY <1>1, <1>6 DEF FreeRevision, Domains
    <3>2. DOMAIN EmptyMap = {} /\ Kids(EmptyMap, Null) = << >>
      BY DEF EmptyMap, Kids
    <3> QED
      BY <3>1, <3>2, DocumentIs, EmptyDocument
  <2>3. doc' = [doc EXCEPT ![r] = Promised!EmptyDoc]
    BY <1>2, <2>1, <2>2
  <2> QED
    BY <1>6, <2>3 DEF FreeRevision, Promised!Free
<1>7. ~NewRevisionFails
  BY DEF NewRevisionFails, Reject
<1> HIDE DEF doc
<1> QED
  BY <1>3, <1>4, <1>5, <1>6, <1>7 DEF RevisionCall, Promised!Next

\* A new object at the end of the list of r.
LEMMA GrownIs ==
  ASSUME StorageInv, StorageInv', CellsKept, NEW r \in Revs, NEW ob \in Objects \ DOMAIN obstates[r],
         NEW c, NEW arg,
         obstates'[r] = Put(obstates[r], ob, c), content'[c] = arg,
         children'[r] = PushBack(children[r], Null, ob)
  PROVE  Document(r)' = Promised!Grown(Document(r), ob, arg)
<1> DEFINE o == obstates[r]
           ch == children[r]
           n == Put(o, ob, c)
           C == PushBack(ch, Null, ob)
<1>1. TypedForest(DOMAIN o, parent[r], ch)
  BY OneRevision
<1>2. ob # Null /\ Null \notin DOMAIN o /\ ob \notin DOMAIN ch /\ ob \notin DOMAIN o
  BY <1>1 DEF TypedForest, IsForest, Objects, Null
<1>3. DOMAIN n = DOMAIN o \cup {ob} /\ n[ob] = c /\ \A x \in DOMAIN o : n[x] = o[x]
  BY <1>2 DEF Put
<1>4. \A x \in DOMAIN o : content'[o[x]] = content[o[x]]
  BY <1>3, KeptData
<1>5. /\ Kids(C, Null) = Append(Kids(ch, Null), ob)
      /\ \A p : p # Null => Kids(C, p) = Kids(ch, p)
      /\ Kids(ch, ob) = << >>
  BY <1>2 DEF PushBack, Put, Kids
<1> DEFINE d == Doc(o, ch, content)
           state(x) == IF x = ob THEN arg ELSE d.data[x]
           list(p) == IF p = ob THEN << >>
                      ELSE IF p = Null THEN Append(d.order[Null], ob) ELSE d.order[p]
<1>6. Promised!Grown(d, ob, arg) = [data |-> [x \in DOMAIN d.data \cup {ob} |-> state(x)],
                                    order |-> [p \in DOMAIN d.order \cup {ob} |-> list(p)]]
  BY DEF Promised!Grown, Promised!ObjectsIn, Promised!Null, Null
<1>7. /\ DOMAIN d.data = DOMAIN o /\ DOMAIN d.order = DOMAIN o \cup {Null}
      /\ \A x \in DOMAIN o : d.data[x] = content[o[x]]
      /\ \A p \in DOMAIN o \cup {Null} : d.order[p] = Kids(ch, p)
  BY DEF Doc, DocData, DocOrder
<1>8. Document(r) = d /\ Document(r)' = Doc(n, C, content')
  BY DocumentIs
<1> HIDE DEF o, ch, n, C, d
<1>9. \A x \in DOMAIN o \cup {ob} : state(x) = content'[n[x]]
  BY <1>3, <1>4, <1>7
<1>10. \A p \in DOMAIN o \cup {Null, ob} : list(p) = Kids(C, p)
  BY <1>2, <1>5, <1>7
<1> HIDE DEF state, list
<1>11. [x \in DOMAIN d.data \cup {ob} |-> state(x)] = DocData(n, content')
  BY <1>3, <1>7, <1>9 DEF DocData
<1>12. [p \in DOMAIN d.order \cup {ob} |-> list(p)] = DocOrder(n, C)
  BY <1>3, <1>7, <1>10 DEF DocOrder
<1> QED
  BY <1>6, <1>8, <1>11, <1>12 DEF Doc

\* New data for an object that is in r already.
LEMMA ReplacedIs ==
  ASSUME StorageInv, StorageInv', CellsKept, NEW r \in Revs, NEW ob \in DOMAIN obstates[r],
         NEW c, NEW arg,
         obstates'[r] = Put(obstates[r], ob, c), content'[c] = arg,
         children'[r] = children[r]
  PROVE  Document(r)' = [Document(r) EXCEPT !.data[ob] = arg]
<1> DEFINE o == obstates[r]
           ch == children[r]
           n == Put(o, ob, c)
           d == Doc(o, ch, content)
<1>1. DOMAIN n = DOMAIN o /\ n[ob] = c /\ \A x \in DOMAIN o : x # ob => n[x] = o[x]
  BY DEF Put
<1>2. \A x \in DOMAIN o : x # ob => content'[o[x]] = content[o[x]]
  BY <1>1, KeptData
<1>3. Document(r) = d /\ Document(r)' = Doc(n, ch, content')
  BY DocumentIs
<1> HIDE DEF o, ch, n
<1>4. DocOrder(n, ch) = DocOrder(o, ch)
  BY <1>1 DEF DocOrder
<1>5. DocData(n, content') = [DocData(o, content) EXCEPT ![ob] = arg]
  BY <1>1, <1>2 DEF DocData
<1>6. [d EXCEPT !.data[ob] = arg] = [data |-> [DocData(o, content) EXCEPT ![ob] = arg],
                                     order |-> DocOrder(o, ch)]
  BY DEF Doc
<1> QED
  BY <1>3, <1>4, <1>5, <1>6 DEF Doc

LEMMA AddRefines ==
  ASSUME StorageInv, StorageInv', NEW r \in Revs, NEW arg \in ObArgs, AddObject(r, arg), CellsKept
  PROVE  Promised!Next
<1> DEFINE ob == next_object_id + 1
<1>1. /\ r \in live /\ is_transient[r] /\ arg \in ObData
      /\ next_object_id < MaxId /\ next_object_id' = ob
      /\ UNCHANGED <<live, is_transient>>
      /\ Enter(r, ob)
  BY ArgChecked DEF AddObject, AddCheck
<1>2. PICK c \in Cells : Bind(r, ob, c, arg)
  BY <1>1 DEF AddObject
<1>3. Domains
  BY DomainsKnown
<1>4. ob \in Objects \ DOMAIN obstates[r]
  BY <1>1, StorageAssumption DEF StorageInv, TypeOK, NumberedObjects, Objects
<1> HIDE DEF ob
<1>5. /\ obstates' = [obstates EXCEPT ![r] = Put(obstates[r], ob, c)]
      /\ content'[c] = arg
      /\ children' = [children EXCEPT ![r] = PushBack(children[r], Null, ob)]
      /\ parent' = [parent EXCEPT ![r] = Put(parent[r], ob, Null)]
  BY <1>1, <1>2 DEF Bind, Enter, Sweep
<1>6. \A s \in Revs \ {r} : Untouched(s)
  BY <1>3, <1>5 DEF Untouched, Domains
<1>7. Document(r)' = Promised!Grown(Document(r), ob, arg)
  BY <1>3, <1>4, <1>5, GrownIs DEF Domains
<1>8. Promised!Change(r, Promised!Grown(Document(r), ob, arg), ob)
  BY <1>1, <1>6, <1>7, ChangeIs
<1>9. Promised!Add(r, arg)
  BY <1>8 DEF Promised!Add, ob
<1>10. arg \in Promised!ObData
  BY <1>1 DEF Promised!ObData, ObData
<1> QED
  BY <1>1, <1>9, <1>10 DEF Promised!Next

\* An object that passes the checks may have its new type, seen from outside.
LEMMA MayBeChecked ==
  ASSUME StorageInv, NEW r \in Revs, NEW ob \in DOMAIN obstates[r], NEW arg,
         SetCheck(r, ob, arg) = "ok"
  PROVE  Promised!MayBe(Document(r), ob, arg.type)
<1> DEFINE o == obstates[r]
           ch == children[r]
           pa == parent[r]
           d == Document(r)
<1>1. /\ arg.type # "net" => Kids(ch, ob) = << >>
      /\ arg.type # "text" => ob \notin DOMAIN pa \/ pa[ob] = Null
  BY DEF SetCheck
<1>2. TypedForest(DOMAIN o, pa, ch) /\ DOMAIN pa = DOMAIN o /\ DOMAIN o \subseteq Objects
  BY OneRevision
<1>3. d = Doc(o, ch, content)
  BY DocumentIs
<1> HIDE DEF o, ch, pa, d
<1>4. Promised!ObjectsIn(d) = DOMAIN o
  BY <1>2, <1>3, DocReads, Null \in DOMAIN o \cup {Null}
<1>5. \A p \in DOMAIN o : Promised!Attached(d, p) = Elems(Kids(ch, p))
  BY <1>2, <1>3, DocReads
<1>6. ob \in DOMAIN o
  BY DEF o
<1>7. Promised!Attached(d, ob) # {} => arg.type = "net"
  BY <1>1, <1>5, <1>6, EmptySet
<1>8. ASSUME NEW host \in DOMAIN o, ob \in Promised!Attached(d, host) PROVE arg.type = "text"
  <2>1. pa[ob] = host
    BY <1>2, <1>5, <1>8, KidsSeq
  <2>2. host # Null
    BY <1>2 DEF Objects, Null
  <2> QED
    BY <1>1, <1>2, <1>6, <2>1, <2>2
<1> QED
  BY <1>4, <1>7, <1>8 DEF Promised!MayBe, d

LEMMA SetRefines ==
  ASSUME StorageInv, StorageInv', NEW r \in Revs, NEW ob \in Objects, NEW arg \in ObArgs,
         SetObjectData(r, ob, arg), CellsKept
  PROVE  Promised!Next
<1>1. /\ r \in live /\ is_transient[r] /\ arg \in ObData /\ ob \in 1..next_object_id
      /\ SetCheck(r, ob, arg) = "ok"
      /\ next_object_id' = next_object_id
      /\ UNCHANGED <<live, is_transient>>
      /\ IF ob \in DOMAIN parent[r] THEN UNCHANGED <<children, parent>> ELSE Enter(r, ob)
  BY ArgChecked DEF SetObjectData, SetCheck, AddCheck
<1>2. PICK c \in Cells : Bind(r, ob, c, arg)
  BY DEF SetObjectData
<1>3. Domains
  BY DomainsKnown
<1>4. DOMAIN parent[r] = DOMAIN obstates[r] /\ TypedForest(DOMAIN obstates[r], parent[r], children[r])
  BY OneRevision
<1>5. /\ obstates' = [obstates EXCEPT ![r] = Put(obstates[r], ob, c)]
      /\ content'[c] = arg
  BY <1>2 DEF Bind, Sweep
<1>6. obstates'[r] = Put(obstates[r], ob, c)
  BY <1>3, <1>5 DEF Domains
<1>7. arg \in Promised!ObData
  BY <1>1 DEF Promised!ObData, ObData
<1>8. Promised!ObjectsIn(Document(r)) = DOMAIN obstates[r]
  <2>1. Promised!ObjectsIn(Doc(obstates[r], children[r], content)) = DOMAIN obstates[r]
    BY <1>4, DocReads, Null \in DOMAIN obstates[r] \cup {Null}
  <2> QED
    BY <2>1, DocumentIs
<1>9. Promised!Set(r, ob, arg)
  <2>1. CASE ob \in DOMAIN obstates[r]
    <3>1. children' = children /\ parent' = parent
      BY <1>1, <1>4, <2>1
    <3>2. \A s \in Revs \ {r} : Untouched(s)
      BY <1>3, <1>5, <3>1 DEF Untouched, Domains
    <3>3. Document(r)' = [Document(r) EXCEPT !.data[ob] = arg]
      BY <1>5, <1>6, <2>1, <3>1, ReplacedIs
    <3>4. Promised!Change(r, [Document(r) EXCEPT !.data[ob] = arg], next_object_id)
      BY <1>1, <3>2, <3>3, ChangeIs
    <3>5. Promised!MayBe(Document(r), ob, arg.type)
      BY <1>1, <2>1, MayBeChecked
    <3> QED
      BY <1>8, <2>1, <3>4, <3>5 DEF Promised!Set
  <2>2. CASE ob \notin DOMAIN obstates[r]
    <3>1. /\ children' = [children EXCEPT ![r] = PushBack(children[r], Null, ob)]
          /\ parent' = [parent EXCEPT ![r] = Put(parent[r], ob, Null)]
      BY <1>1, <1>4, <2>2 DEF Enter
    <3>2. \A s \in Revs \ {r} : Untouched(s)
      BY <1>3, <1>5, <3>1 DEF Untouched, Domains
    <3>3. Document(r)' = Promised!Grown(Document(r), ob, arg)
      BY <1>3, <1>5, <1>6, <2>2, <3>1, GrownIs DEF Domains
    <3>4. Promised!Change(r, Promised!Grown(Document(r), ob, arg), next_object_id)
      BY <1>1, <3>2, <3>3, ChangeIs
    <3> QED
      BY <1>8, <2>2, <3>4 DEF Promised!Set
  <2> QED
    BY <2>1, <2>2
<1> QED
  BY <1>1, <1>7, <1>9 DEF Promised!Next

LEMMA ObjectCallRefines ==
  ASSUME StorageInv, StorageInv', ObjectCall, CellsKept, ret' = "ok"
  PROVE  Promised!Next
<1>1. PICK r \in Revs, arg \in ObArgs :
        AddObject(r, arg) \/ \E ob \in Objects : SetObjectData(r, ob, arg)
  <2>1. \A r, arg, ob : /\ ~AddObjectFails(r, arg) /\ ~AddObjectRejected(r, arg)
                        /\ ~SetObjectDataFails(r, ob, arg) /\ ~SetObjectDataRejected(r, ob, arg)
    BY DEF AddObjectFails, AddObjectRejected, SetObjectDataFails, SetObjectDataRejected, Reject
  <2> QED
    BY <2>1 DEF ObjectCall
<1> QED
  BY <1>1, AddRefines, SetRefines

LEMMA RelocateRefines ==
  ASSUME StorageInv, StorageInv', CellsKept, NEW r \in Revs, NEW ob \in Objects,
         NEW to, NEW before, Relocate(r, ob, to, before)
  PROVE  Promised!Next
<1> DEFINE o == obstates[r]
           ch == children[r]
           pa == parent[r]
           C == Moved(ch, pa[ob], ob, to, before)
           d == Document(r)
<1>1. /\ ob \in DOMAIN o /\ to \in DOMAIN o \cup {Null}
      /\ to # Null => content[o[ob]].type = "text" /\ content[o[to]].type = "net"
  BY RelocateChecked DEF Relocate
<1>2. /\ TypedForest(DOMAIN o, pa, ch) /\ DOMAIN o \subseteq Objects
  BY OneRevision
<1>3. before = Null \/ before \in Elems(Kids(ch, to))
  BY DEF Relocate
<1>4. /\ r \in live /\ is_transient[r]
      /\ children' = [children EXCEPT ![r] = C]
      /\ \E x : parent' = [parent EXCEPT ![r] = x]
      /\ UNCHANGED <<live, is_transient, obstates, content, next_object_id>>
  BY DEF Relocate, RelocateCheck, heap_vars
<1>5. Domains
  BY DomainsKnown
<1>6. \A s \in Revs \ {r} : Untouched(s)
  BY <1>4, <1>5 DEF Untouched, Domains
<1>7. d = Doc(o, ch, content) /\ Document(r)' = Doc(o, C, content)
  BY <1>4, <1>5, DocumentIs DEF Domains
<1> HIDE DEF o, ch, pa, C, d
<1>8. Document(r)' = Promised!Rearranged(d, ob, to, before)
  BY <1>1, <1>2, <1>3, <1>7, MovedDocument DEF C
<1>9. Promised!Change(r, Promised!Rearranged(d, ob, to, before), next_object_id)
  BY <1>4, <1>6, <1>8, ChangeIs
<1>10. /\ Promised!ObjectsIn(d) = DOMAIN o
       /\ Promised!Attached(d, to) = Elems(Kids(ch, to))
  BY <1>1, <1>2, <1>7, DocReads
<1>11. before \in DOMAIN o \cup {Null}
  <2>1. Elems(Kids(ch, to)) \subseteq DOMAIN o
    BY <1>1, <1>2, KidsSeq
  <2> QED
    BY <1>3, <2>1
<1>12. to # Null => d.data[to].type = "net" /\ d.data[ob].type = "text"
  BY <1>1, <1>7 DEF Doc, DocData
<1>13. Promised!Move(r, ob, to, before)
  BY <1>1, <1>3, <1>9, <1>10, <1>12 DEF Promised!Move, Promised!Null, Null, d
<1>14. /\ ob \in Promised!ObjectsIn(Document(r))
       /\ to \in Promised!ObjectsIn(Document(r)) \cup {Promised!Null}
       /\ before \in Promised!ObjectsIn(Document(r)) \cup {Promised!Null}
  BY <1>1, <1>10, <1>11 DEF d, Promised!Null, Null
<1> QED
  BY <1>13, <1>14 DEF Promised!Next

LEMMA RelocateCallRefines ==
  ASSUME StorageInv, StorageInv', RelocateCall, [Next]_vars, CellsKept, ret' = "ok"
  PROVE  Promised!Next
<1>1. PICK r \in Revs, ob \in Objects, to \in Objects \cup {Null} :
        \/ RelocateAborts(r, ob, to)
        \/ RelocateRejected(r, ob, to)
        \/ \E before \in 0..next_object_id :
             \/ Relocate(r, ob, to, before)
             \/ RelocateNoSuccessor(r, ob, to, before)
             \/ RelocateFails(r, ob, to, before)
  BY DEF RelocateCall
<1>2. CASE RelocateAborts(r, ob, to)
  <2>1. UNCHANGED <<live, rev_vars, is_transient>>
    BY <1>2 DEF RelocateAborts
  <2> QED
    BY <2>1, UntouchedUnseen, UnseenSpends
<1>3. ~RelocateRejected(r, ob, to)
  BY DEF RelocateRejected, Reject
<1>4. \A before : ~RelocateNoSuccessor(r, ob, to, before) /\ ~RelocateFails(r, ob, to, before)
  BY DEF RelocateNoSuccessor, RelocateFails
<1>5. ASSUME NEW before, Relocate(r, ob, to, before) PROVE Promised!Next
  BY <1>5, RelocateRefines
<1> QED
  BY <1>1, <1>2, <1>3, <1>4, <1>5

\* What a query shows of r after the objects D are gone.
LEMMA PrunedIs ==
  ASSUME StorageInv, StorageInv', CellsKept, NEW r \in Revs, NEW D, D \subseteq DOMAIN obstates[r],
         obstates'[r] = Drop(obstates[r], D), children'[r] = Erase(children[r], D)
  PROVE  Document(r)' = Promised!Pruned(Document(r), D)
<1> DEFINE o == obstates[r]
           ch == children[r]
           n == Drop(o, D)
           C == Erase(ch, D)
           d == Doc(o, ch, content)
           left(p) == Promised!Left(d.order[p], D)
<1>1. TypedForest(DOMAIN o, parent[r], ch) /\ DOMAIN o \subseteq Objects
  BY OneRevision
<1>2. DOMAIN n = DOMAIN o \ D /\ \A x \in DOMAIN o \ D : n[x] = o[x]
  BY DEF Drop
<1>3. \A x \in DOMAIN o \ D : content'[n[x]] = content[o[x]]
  BY <1>2, KeptData
<1>4. Document(r) = d /\ Document(r)' = Doc(n, C, content')
  BY DocumentIs
<1>5. Promised!Pruned(d, D) = [data |-> [x \in DOMAIN d.data \ D |-> d.data[x]],
                               order |-> [p \in DOMAIN d.order \ D |-> left(p)]]
  BY DEF Promised!Pruned, Promised!ObjectsIn
<1>6. /\ DOMAIN d.data = DOMAIN o /\ DOMAIN d.order = DOMAIN o \cup {Null}
      /\ \A x \in DOMAIN o : d.data[x] = content[o[x]]
      /\ \A p \in DOMAIN o \cup {Null} : d.order[p] = Kids(ch, p)
  BY DEF Doc, DocData, DocOrder
<1>7. D \subseteq DOMAIN o /\ Null \notin D
  BY <1>1 DEF Objects, Null
<1> HIDE DEF o, ch, d, n
<1>8. \A p \in DOMAIN o \cup {Null} : Kids(ch, p) \in Seq(Objects)
  BY <1>1, KidsSeq
<1>9. ASSUME NEW p \in (DOMAIN o \cup {Null}) \ D PROVE left(p) = Kids(C, p)
  <2>1. left(p) = Without(Kids(ch, p), D)
    BY <1>6, <1>8, LeftWithout
  <2>2. CASE p \in DOMAIN ch
    BY <2>1, <2>2 DEF Erase, Kids
  <2>3. CASE p \notin DOMAIN ch
    <3>1. Kids(ch, p) = << >> /\ Kids(C, p) = << >>
      BY <2>3 DEF Kids, Erase
    <3>2. Elems(Kids(ch, p)) \cap D = {}
      BY <3>1 DEF Elems
    <3>3. Without(Kids(ch, p), D) = Kids(ch, p)
      BY <1>8, <3>2, WithoutNone
    <3> QED
      BY <2>1, <3>1, <3>3
  <2> QED
    BY <2>2, <2>3
<1> HIDE DEF left, C
<1>10. [x \in DOMAIN d.data \ D |-> d.data[x]] = DocData(n, content')
  BY <1>2, <1>3, <1>6 DEF DocData
<1>11. [p \in DOMAIN d.order \ D |-> left(p)] = DocOrder(n, C)
  <2>1. DOMAIN d.order \ D = DOMAIN n \cup {Null}
    BY <1>2, <1>6, <1>7
  <2> QED
    BY <1>6, <1>9, <2>1 DEF DocOrder
<1> QED
  BY <1>4, <1>5, <1>10, <1>11 DEF Doc

LEMMA DeleteRefines ==
  ASSUME StorageInv, StorageInv', CellsKept, NEW r \in Revs, NEW S,
         r \in live, is_transient[r], DeleteObjects(r, S)
  PROVE  Promised!Next
<1> DEFINE o == obstates[r]
           ch == children[r]
           d == Document(r)
           tops == S \cap DOMAIN o
           D == Subtree(r, S)
<1>1. /\ obstates' = [obstates EXCEPT ![r] = Drop(o, D)]
      /\ children' = [children EXCEPT ![r] = Erase(ch, D)]
      /\ parent' = [parent EXCEPT ![r] = Drop(@, D)]
      /\ UNCHANGED <<live, is_transient, next_object_id>>
  BY DEF DeleteObjects
<1>2. Domains
  BY DomainsKnown
<1>3. D \subseteq DOMAIN o
  BY SubtreeClosed
<1>4. TypedForest(DOMAIN o, parent[r], ch)
  BY OneRevision
<1>5. D = tops \cup UNION {Elems(Kids(ch, ob)) : ob \in tops}
  BY DEF Subtree
<1> HIDE DEF D
<1>6. \A s \in Revs \ {r} : Untouched(s)
  BY <1>1, <1>2 DEF Untouched, Domains
<1>7. obstates'[r] = Drop(o, D) /\ children'[r] = Erase(ch, D)
  BY <1>1, <1>2 DEF Domains
<1>8. Document(r)' = Promised!Pruned(d, D)
  BY <1>3, <1>7, PrunedIs
<1>9. Promised!ObjectsIn(d) = DOMAIN o /\ \A p \in DOMAIN o : Promised!Attached(d, p) = Elems(Kids(ch, p))
  BY <1>4, DocReads, DocumentIs, Null \in DOMAIN o \cup {Null}
<1>10. Promised!WithAttached(d, tops) = D
  BY <1>5, <1>9 DEF Promised!WithAttached
<1> HIDE DEF o, ch, d
<1>11. Promised!Change(r, Promised!Pruned(d, D), next_object_id)
  BY <1>1, <1>6, <1>8, ChangeIs DEF d
<1>12. Promised!Delete(r, tops)
  BY <1>10, <1>11 DEF Promised!Delete, d
<1>13. tops \in SUBSET Promised!ObjectsIn(Document(r))
  BY <1>9 DEF d
<1> HIDE DEF tops
<1> QED
  BY <1>12, <1>13 DEF Promised!Next

LEMMA DeleteCallRefines ==
  ASSUME StorageInv, StorageInv', DeleteCall, CellsKept, ret' = "ok"
  PROVE  Promised!Next
<1>1. PICK r \in Revs : \/ \E ob \in Objects : DeleteObject(r, ob) \/ DeleteObjectRejected(r, ob)
                        \/ \E sel \in SUBSET Objects : DeleteSelectedObjects(r, sel)
                        \/ DeleteSelectedRejected(r)
  BY DEF DeleteCall
<1>2. ~DeleteSelectedRejected(r) /\ \A ob : ~DeleteObjectRejected(r, ob)
  BY DEF DeleteSelectedRejected, DeleteObjectRejected, Reject
<1>3. ASSUME NEW ob, DeleteObject(r, ob) PROVE Promised!Next
  BY <1>3, DeleteRefines DEF DeleteObject
<1>4. ASSUME NEW sel, DeleteSelectedObjects(r, sel) PROVE Promised!Next
  BY <1>4, DeleteRefines DEF DeleteSelectedObjects
<1> QED
  BY <1>1, <1>2, <1>3, <1>4

-----------------------------------------------------------------------------
(* Copies: where each item is in the order of the recursion, which numbers *)
(* the copies get, and the lists they make.                                *)

LEMMA LeastPosition ==
  ASSUME NEW B, NEW n \in Nat, B \subseteq 1..n, B # {}
  PROVE  \E i \in B : \A j \in B : i <= j
<1>1. PICK f, m : Enumerates(f, m, B)
  BY PositionsEnumerated
<1>2. /\ m \in Nat
      /\ \A k \in 1..m : f[k] \in B /\ f[k] \in Int
      /\ \A x \in B : \E k \in 1..m : f[k] = x
      /\ \A j, k \in 1..m : j < k => f[j] < f[k]
  BY <1>1 DEF Enumerates
<1>3. 1 \in 1..m
  <2>1. PICK k \in 1..m : f[k] \in B
    BY <1>2
  <2> QED
    BY <1>2, <2>1
<1>4. ASSUME NEW j \in B PROVE f[1] <= j
  <2>1. PICK k \in 1..m : f[k] = j
    BY <1>2
  <2>2. k = 1 \/ 1 < k
    BY <1>2
  <2> QED
    BY <1>2, <1>3, <2>1, <2>2
<1> QED
  BY <1>2, <1>3, <1>4

(* Where the items of a copy are in its order: ob itself at first[ob] and  *)
(* what is attached to it right behind.                                    *)
Positions(order, n, items, tops, first) ==
  /\ n \in Nat /\ DOMAIN first = tops /\ \A ob \in tops : first[ob] \in 1..n
  /\ \A it \in items : first[it[1]] + it[2] \in 1..n /\ order[first[it[1]] + it[2]] = it
  /\ \A k \in 1..n : order[k] \in items /\ first[order[k][1]] + order[k][2] = k

\* The items of a copy, object by object.
LEMMA ItemsAre ==
  ASSUME StorageInv, NEW src \in Revs, NEW S, NEW tops, tops = S \cap DOMAIN obstates[src]
  PROVE  /\ \A it \in Items(src, S) : /\ it = <<it[1], it[2]>> /\ it[1] \in tops
                                      /\ it[2] \in 0..Len(Kids(children[src], it[1]))
         /\ \A ob \in tops : \A i \in 0..Len(Kids(children[src], ob)) : <<ob, i>> \in Items(src, S)
         /\ \A ob \in tops : Len(Kids(children[src], ob)) \in Nat
<1>1. TypedForest(DOMAIN obstates[src], parent[src], children[src])
  BY OneRevision
<1>2. \A ob \in tops : Len(Kids(children[src], ob)) \in Nat
  BY <1>1, KidsSeq, LenProperties
<1>3. Items(src, S) = UNION {{<<ob, i>> : i \in 0..Len(Kids(children[src], ob))} : ob \in tops}
  BY DEF Items
<1>4. \A it \in Items(src, S) : \E ob \in tops : \E i \in 0..Len(Kids(children[src], ob)) : it = <<ob, i>>
  BY <1>3
<1>5. \A ob \in tops : \A i \in 0..Len(Kids(children[src], ob)) : <<ob, i>> \in Items(src, S)
  BY <1>3
<1> QED
  BY <1>2, <1>4, <1>5

LEMMA CopyPositions ==
  ASSUME StorageInv, NEW src \in Revs, NEW S, NEW items, items = Items(src, S),
         NEW order, order = CopyOrder(items), NEW n, n = Cardinality(items),
         NEW tops, tops = S \cap DOMAIN obstates[src]
  PROVE  \E first : Positions(order, n, items, tops, first)
<1> DEFINE R == ItemOrder(items)
           below(x) == {y \in items : <<y, x>> \in R}
           at(x) == Cardinality(below(x)) + 1
           len(ob) == Len(Kids(children[src], ob))
<1>1. IsFiniteSet(items) /\ n \in Nat
  BY ItemsFinite, FS_CardinalityType
<1>2. StrictOrder(items, R) /\ Lists(order, n, items, R)
  BY ItemsOrdered
<1>3. /\ \A it \in items : it = <<it[1], it[2]>> /\ it[1] \in tops /\ it[2] \in 0..len(it[1])
      /\ \A ob \in tops : \A i \in 0..len(ob) : <<ob, i>> \in items
      /\ \A ob \in tops : len(ob) \in Nat
  BY ItemsAre
<1>4. \A ob \in tops : ob \in Int
  BY OneRevision DEF Objects
<1> HIDE DEF len
<1>5. \A it \in items : it[1] \in Int /\ it[2] \in Nat
  BY <1>3, <1>4
<1>6. \A x \in items : at(x) \in 1..n /\ order[at(x)] = x
  BY <1>2 DEF Lists
<1>7. \A k \in 1..n : order[k] \in items /\ at(order[k]) = k
  <2> TAKE k \in 1..n
  <2>1. order[k] \in items /\ Cardinality({y \in items : <<y, order[k]>> \in R}) = k - 1
    BY <1>2 DEF Lists
  <2> QED
    BY <2>1
<1>8. \A a, b \in items : <<a, b>> \in R <=> a[1] < b[1] \/ (a[1] = b[1] /\ a[2] < b[2])
  BY DEF ItemOrder, Precedes
<1>9. ASSUME NEW x \in items, NEW y \in items, x[1] = y[1], y[2] = x[2] + 1
      PROVE  at(y) = at(x) + 1
  <2>1. \A z \in items : <<z, y>> \in R <=> <<z, x>> \in R \/ z = x
    <3> TAKE z \in items
    <3>1. z[1] = x[1] /\ z[2] = x[2] <=> z = x
      BY <1>3
    <3> QED
      BY <1>5, <1>8, <1>9, <3>1
  <2>2. below(y) = below(x) \cup {x} /\ x \notin below(x)
    BY <1>2, <2>1 DEF StrictOrder
  <2>3. IsFiniteSet(below(x))
    <3>1. below(x) \in SUBSET items
      OBVIOUS
    <3> HIDE DEF below
    <3> QED
      BY <1>1, <3>1, FS_Subset
  <2> HIDE DEF below
  <2>4. Cardinality(below(x) \cup {x}) = Cardinality(below(x)) + 1
    BY <2>2, <2>3, FS_AddElement
  <2> QED
    BY <2>2, <2>4
<1> HIDE DEF at, R
<1>10. ASSUME NEW ob \in tops, NEW l \in 0..len(ob)
       PROVE  at(<<ob, l>>) = at(<<ob, 0>>) + l
  <2> DEFINE B == {i \in 1..len(ob) : at(<<ob, i>>) # at(<<ob, 0>>) + i}
  <2>1. len(ob) \in Nat /\ at(<<ob, 0>>) \in Nat
    BY <1>1, <1>3, <1>6
  <2>2. ASSUME B # {} PROVE FALSE
    <3>1. B \subseteq 1..len(ob)
      OBVIOUS
    <3> HIDE DEF B
    <3>2. PICK i \in B : \A j \in B : i <= j
      BY <2>1, <2>2, <3>1, LeastPosition
    <3>3. i \in 1..len(ob) /\ i - 1 \in 0..len(ob) /\ i - 1 \notin B
      BY <2>1, <3>1, <3>2
    <3>4. at(<<ob, i - 1>>) = at(<<ob, 0>>) + (i - 1)
      <4>1. CASE i = 1
        BY <2>1, <4>1
      <4>2. CASE i # 1
        <5>1. i - 1 \in 1..len(ob)
          BY <2>1, <3>3, <4>2
        <5> QED
          BY <3>3, <5>1 DEF B
      <4> QED
        BY <4>1, <4>2
    <3>5. at(<<ob, i>>) = at(<<ob, i - 1>>) + 1
      <4>1. <<ob, i>> \in items /\ <<ob, i - 1>> \in items
        BY <1>3, <2>1, <3>3
      <4>2. <<ob, i>>[2] = <<ob, i - 1>>[2] + 1 /\ <<ob, i - 1>>[1] = <<ob, i>>[1]
        BY <3>3
      <4> QED
        BY <1>9, <4>1, <4>2
    <3> QED
      BY <2>1, <3>2, <3>3, <3>4, <3>5 DEF B
  <2>3. l = 0 \/ l \in 1..len(ob)
    BY <2>1
  <2> QED
    BY <2>1, <2>2, <2>3
<1> DEFINE first == [ob \in tops |-> at(<<ob, 0>>)]
<1>11. ASSUME NEW it \in items PROVE first[it[1]] + it[2] = at(it)
  BY <1>3, <1>10
<1>12. DOMAIN first = tops /\ \A ob \in tops : first[ob] \in 1..n
  BY <1>3, <1>6
<1> HIDE DEF first
<1>13. Positions(order, n, items, tops, first)
  BY <1>1, <1>6, <1>7, <1>11, <1>12 DEF Positions
<1> QED
  BY <1>13

\* The copies in D in the order they are made are those in ascending order.
LEMMA InOrderAscending ==
  ASSUME next_object_id \in Nat, NEW m \in Nat, NEW D, D \subseteq NewIds(m)
  PROVE  InOrderMade(D, m) = Promised!Ascending(D)
<1> DEFINE N == next_object_id
           s == [k \in 1..m |-> N + k]
           gone == NewIds(m) \ D
           kept == {i \in 1..Len(s) : s[i] \notin gone}
<1>1. s \in Seq(Int) /\ Len(s) = m /\ \A k \in 1..m : s[k] = N + k
  OBVIOUS
<1>2. InOrderMade(D, m) = Without(s, gone)
  BY DEF InOrderMade
<1>3. \A k \in 1..m : N + k \in NewIds(m)
  BY DEF NewIds
<1>4. \A id \in NewIds(m) : id - N \in 1..m /\ N + (id - N) = id
  BY DEF NewIds
<1> HIDE DEF s, N
<1>5. \A k \in 1..m : k \in kept <=> N + k \in D
  BY <1>1, <1>3
<1>6. kept \subseteq 1..m
  BY <1>1
<1>7. PICK f, n : Enumerates(f, n, kept)
  BY <1>6, PositionsEnumerated
<1> DEFINE u == [k \in 1..n |-> s[f[k]]]
<1>8. \A v : v = u => Without(s, gone) = v
  <2> HIDE DEF gone, kept
  <2> QED
    BY <1>1, <1>7, LeftIs DEF kept
<1>9. /\ n \in Nat
      /\ \A k \in 1..n : f[k] \in 1..m /\ N + f[k] \in D /\ f[k] \in Int
      /\ \A x \in kept : \E k \in 1..n : f[k] = x
      /\ \A j, k \in 1..n : j < k => f[j] < f[k]
  <2> HIDE DEF kept
  <2> QED
    BY <1>5, <1>6, <1>7 DEF Enumerates
<1>10. \A k \in 1..n : u[k] = N + f[k]
  BY <1>1, <1>9
<1>11. u = [k \in 1..n |-> u[k]]
  OBVIOUS
<1> HIDE DEF kept, u
<1>12. Enumerates(u, n, D)
  <2>1. N \in Nat
    BY DEF N
  <2>2. \A k \in 1..n : u[k] \in D /\ u[k] \in Int
    BY <1>9, <1>10, <2>1
  <2>3. ASSUME NEW x \in D PROVE \E k \in 1..n : u[k] = x
    <3>1. x - N \in kept /\ N + (x - N) = x
      BY <1>4, <1>5
    <3> QED
      BY <1>9, <1>10, <3>1
  <2>4. \A j, k \in 1..n : j < k => u[j] < u[k]
    BY <1>9, <1>10, <2>1
  <2> QED
    BY <1>9, <1>11, <2>2, <2>3, <2>4 DEF Enumerates
<1>13. Promised!Ascending(D) = u
  <2> DEFINE Q == {p \in D \X D : p[1] < p[2]}
  <2>1. \A x, y \in D : <<x, y>> \in Q <=> x < y
    OBVIOUS
  <2> HIDE DEF Q
  <2> QED
    BY <1>12, <2>1, AscendingIs
<1> QED
  BY <1>2, <1>8, <1>13

(* The same, seen from the new objects: the number of the copy of each     *)
(* object, and which item each number stands for.                          *)
Numbered(src, S, order, n, tops, number) ==
  /\ n \in Nat /\ tops = S \cap DOMAIN obstates[src] /\ DOMAIN number = tops
  /\ \A ob \in tops : number[ob] \in NewIds(n) /\ order[number[ob] - next_object_id] = <<ob, 0>>
  /\ \A it \in Items(src, S) : number[it[1]] + it[2] \in NewIds(n)
  /\ \A id \in NewIds(n) :
       /\ order[id - next_object_id] \in Items(src, S)
       /\ \A it \in Items(src, S) :
            number[it[1]] + it[2] = id <=> it = order[id - next_object_id]

LEMMA CopiesNumbered ==
  ASSUME StorageInv, NEW src \in Revs, NEW S, NEW items, items = Items(src, S),
         NEW order, NEW n, NEW tops, tops = S \cap DOMAIN obstates[src],
         NEW first, Positions(order, n, items, tops, first),
         NEW number, DOMAIN number = tops, \A ob \in tops : number[ob] = next_object_id + first[ob]
  PROVE  Numbered(src, S, order, n, tops, number)
<1> DEFINE N == next_object_id
           new == NewIds(n)
<1>1. /\ n \in Nat /\ \A ob \in tops : first[ob] \in 1..n
      /\ \A it \in items : first[it[1]] + it[2] \in 1..n /\ order[first[it[1]] + it[2]] = it
      /\ \A k \in 1..n : order[k] \in items /\ first[order[k][1]] + order[k][2] = k
  BY DEF Positions
<1>2. /\ \A it \in items : it[1] \in tops /\ it[2] \in Nat
      /\ \A ob \in tops : <<ob, 0>> \in items
  <2>1. /\ \A it \in items : it[1] \in tops /\ it[2] \in 0..Len(Kids(children[src], it[1]))
        /\ \A ob \in tops : \A i \in 0..Len(Kids(children[src], ob)) : <<ob, i>> \in items
        /\ \A ob \in tops : Len(Kids(children[src], ob)) \in Nat
    BY ItemsAre
  <2>2. ASSUME NEW ob \in tops PROVE <<ob, 0>> \in items
    <3>1. 0 \in 0..Len(Kids(children[src], ob))
      BY <2>1
    <3> QED
      BY <2>1, <3>1
  <2>3. ASSUME NEW it \in items PROVE it[2] \in Nat
    BY <2>1
  <2> QED
    BY <2>1, <2>2, <2>3
<1>3. N \in Nat
  BY DEF StorageInv, TypeOK
<1>4. \A k \in 1..n : N + k \in new /\ (N + k) - N = k
  BY <1>1, <1>3 DEF NewIds
<1>5. \A id \in new : id - N \in 1..n /\ N + (id - N) = id
  BY <1>1, <1>3 DEF NewIds
<1>6. \A ob \in tops : number[ob] = N + first[ob]
  OBVIOUS
<1> HIDE DEF N, new
<1>7. ASSUME NEW ob \in tops PROVE number[ob] \in new /\ order[number[ob] - N] = <<ob, 0>>
  <2>1. first[ob] + 0 = first[ob] /\ order[first[ob] + 0] = <<ob, 0>>
    <3>1. <<ob, 0>>[1] = ob /\ <<ob, 0>>[2] = 0
      OBVIOUS
    <3>2. order[first[<<ob, 0>>[1]] + <<ob, 0>>[2]] = <<ob, 0>>
      BY <1>1, <1>2
    <3> QED
      BY <1>1, <3>1, <3>2
  <2>2. N + first[ob] \in new /\ (N + first[ob]) - N = first[ob]
    BY <1>1, <1>4
  <2> QED
    BY <1>6, <2>1, <2>2
<1>8. ASSUME NEW it \in items
      PROVE  /\ number[it[1]] + it[2] = N + (first[it[1]] + it[2])
             /\ first[it[1]] + it[2] \in 1..n
  <2>1. number[it[1]] = N + first[it[1]] /\ first[it[1]] \in 1..n /\ it[2] \in Nat
    BY <1>1, <1>2, <1>6
  <2>2. N + first[it[1]] + it[2] = N + (first[it[1]] + it[2])
    BY <1>3, <2>1
  <2> QED
    BY <1>1, <2>1, <2>2
<1>9. ASSUME NEW id \in new, NEW it \in items
      PROVE  number[it[1]] + it[2] = id <=> it = order[id - N]
  <2>1. number[it[1]] + it[2] = id <=> first[it[1]] + it[2] = id - N
    <3> DEFINE p == first[it[1]] + it[2]
               q == number[it[1]] + it[2]
    <3>1. p \in 1..n /\ id - N \in 1..n /\ N + (id - N) = id /\ q = N + p
      BY <1>5, <1>8
    <3> HIDE DEF p, q
    <3>2. q = id <=> p = id - N
      BY <1>1, <1>3, <3>1
    <3> QED
      BY <3>2 DEF p, q
  <2>2. first[it[1]] + it[2] = id - N => it = order[id - N]
    BY <1>1
  <2>3. it = order[id - N] => first[it[1]] + it[2] = id - N
    BY <1>1, <1>5
  <2> QED
    BY <2>1, <2>2, <2>3
<1>10. \A id \in new : order[id - N] \in items
  BY <1>1, <1>5
<1>11. \A it \in items : number[it[1]] + it[2] \in new
  BY <1>4, <1>8
<1>12. DOMAIN number = tops
  OBVIOUS
<1> QED
  BY <1>1, <1>7, <1>9, <1>10, <1>11, <1>12 DEF Numbered, N, new

\* The items are those that XornRevisions sees in the document of src.
LEMMA SameItems ==
  ASSUME StorageInv, NEW src \in Revs, NEW S, NEW tops, tops = S \cap DOMAIN obstates[src]
  PROVE  Promised!Items(Document(src), tops) = Items(src, S)
<1> DEFINE ch == children[src]
           s == Document(src)
<1>1. \A ob \in tops : s.order[ob] = Kids(ch, ob)
  <2>1. s.order = DocOrder(obstates[src], ch)
    BY DocumentIs DEF Doc
  <2> QED
    BY <2>1 DEF DocOrder
<1> DEFINE promised(ob) == {<<ob, i>> : i \in 0..Len(s.order[ob])}
           made(ob) == {<<ob, i>> : i \in 0..Len(Kids(ch, ob))}
<1>2. Promised!Items(s, tops) = UNION {promised(ob) : ob \in tops}
  BY DEF Promised!Items
<1>3. Items(src, S) = UNION {made(ob) : ob \in tops}
  BY DEF Items
<1>4. \A ob \in tops : promised(ob) = made(ob)
  BY <1>1
<1> HIDE DEF promised, made
<1>5. {promised(ob) : ob \in tops} = {made(ob) : ob \in tops}
  BY <1>4
<1> QED
  BY <1>2, <1>3, <1>5

\* What is attached to the copy t: for each object attached to the original one
\* copy, and these have the numbers that follow.
LEMMA CopiesAttached ==
  ASSUME StorageInv, NEW src \in Revs, NEW S, NEW order, NEW n, NEW tops, NEW number,
         Numbered(src, S, order, n, tops, number)
  PROVE  /\ \A id : id \in TopCopies(order, n) <=> \E ob \in tops : id = number[ob]
         /\ \A ob \in tops : \A id :
              id \in NewIds(n) /\ CopiedParent(order, n)[id] = number[ob]
                <=> \E i \in 1..Len(Kids(children[src], ob)) : id = number[ob] + i
         /\ \A t \in NewIds(n) \ TopCopies(order, n) : \A id \in NewIds(n) :
              CopiedParent(order, n)[id] # t
<1> DEFINE items == Items(src, S)
           N == next_object_id
           new == NewIds(n)
           top == TopCopies(order, n)
           cp == CopiedParent(order, n)
           len(ob) == Len(Kids(children[src], ob))
<1>1. /\ \A ob \in tops : number[ob] \in new /\ order[number[ob] - N] = <<ob, 0>>
      /\ \A it \in items : number[it[1]] + it[2] \in new
      /\ \A id \in new : /\ order[id - N] \in items
                         /\ \A it \in items : number[it[1]] + it[2] = id <=> it = order[id - N]
      /\ n \in Nat /\ tops = S \cap DOMAIN obstates[src]
  BY DEF Numbered
<1>2. /\ \A it \in items : it = <<it[1], it[2]>> /\ it[1] \in tops /\ it[2] \in 0..len(it[1])
      /\ \A ob \in tops : \A i \in 0..len(ob) : <<ob, i>> \in items
      /\ \A ob \in tops : len(ob) \in Nat
  BY <1>1, ItemsAre
<1>3. top = {id \in new : order[id - N][2] = 0}
  BY DEF TopCopies
<1>4. \A id \in new : cp[id] = IF id \in top THEN Null
                               ELSE CHOOSE t \in top : order[t - N][1] = order[id - N][1]
  BY DEF CopiedParent
<1>5. \A id \in new : id \in Int /\ id # Null
  BY <1>1 DEF NewIds, StorageInv, TypeOK, Null
<1> HIDE DEF items, N, new, top, cp, len
<1>6. ASSUME NEW id \in new
      PROVE  /\ order[id - N][1] \in tops /\ order[id - N][2] \in 0..len(order[id - N][1])
             /\ id = number[order[id - N][1]] + order[id - N][2]
  BY <1>1, <1>2
<1>7. \A ob \in tops : number[ob] \in Int /\ number[ob] \in top
  BY <1>1, <1>3, <1>5
<1>8. \A id : id \in top <=> \E ob \in tops : id = number[ob]
  <2>1. ASSUME NEW id \in top PROVE \E ob \in tops : id = number[ob]
    <3>1. id \in new /\ order[id - N][2] = 0
      BY <1>3
    <3> QED
      BY <1>6, <1>7, <3>1
  <2> QED
    BY <1>7, <2>1
<1>9. ASSUME NEW id \in new \ top
      PROVE  cp[id] = number[order[id - N][1]]
  <2> DEFINE ob == order[id - N][1]
  <2>0. ob \in tops
    BY <1>6
  <2>1. number[ob] \in top /\ order[number[ob] - N][1] = ob
    <3> HIDE DEF ob
    <3>1. order[number[ob] - N] = <<ob, 0>>
      BY <1>1, <2>0
    <3> QED
      BY <1>7, <2>0, <3>1
  <2>2. ASSUME NEW t \in top, order[t - N][1] = ob PROVE t = number[ob]
    <3>1. t \in new /\ order[t - N][2] = 0
      BY <1>3
    <3> QED
      BY <1>6, <1>7, <2>1, <2>2, <3>1
  <2>3. cp[id] = CHOOSE t \in top : order[t - N][1] = ob
    BY <1>4
  <2> HIDE DEF ob
  <2>4. cp[id] = number[ob]
    BY <2>1, <2>2, <2>3
  <2> QED
    BY <2>4 DEF ob
<1>10. ASSUME NEW ob \in tops, NEW id \in new, cp[id] = number[ob]
       PROVE  \E i \in 1..len(ob) : id = number[ob] + i
  <2>1. id \notin top
    BY <1>1, <1>4, <1>5, <1>10
  <2>2. cp[id] = number[order[id - N][1]] /\ order[id - N][1] \in tops
    BY <1>6, <1>9, <2>1
  <2>3. order[id - N][1] = ob
    <3>1. \A a \in tops : order[number[a] - N][1] = a
      BY <1>1
    <3> QED
      BY <1>10, <2>2, <3>1
  <2>4. order[id - N][2] # 0
    BY <1>3, <2>1
  <2>5. order[id - N][2] \in 1..len(ob)
    BY <1>2, <1>6, <2>3, <2>4
  <2> QED
    BY <1>6, <2>3, <2>5
<1>11. ASSUME NEW ob \in tops, NEW i \in 1..len(ob), NEW id, id = number[ob] + i
       PROVE  id \in new /\ cp[id] = number[ob]
  <2>1. <<ob, i>> \in items
    BY <1>2
  <2>2. <<ob, i>>[1] = ob /\ <<ob, i>>[2] = i
    OBVIOUS
  <2>3. id \in new
    BY <1>1, <1>11, <2>1, <2>2
  <2>4. order[id - N] = <<ob, i>>
    BY <1>1, <1>11, <2>1, <2>2, <2>3
  <2>5. id \notin top
    BY <1>2, <1>3, <2>2, <2>4
  <2> QED
    BY <1>9, <2>2, <2>3, <2>4, <2>5
<1>12. ASSUME NEW t \in new \ top, NEW id \in new PROVE cp[id] # t
  <2>1. CASE id \in top
    BY <1>4, <1>5, <2>1
  <2>2. CASE id \notin top
    BY <1>6, <1>7, <1>9, <2>2
  <2> QED
    BY <2>1, <2>2
<1> QED
  BY <1>8, <1>10, <1>11, <1>12 DEF new, top, cp, len

\* The lists of the revision that the copies go to.
LEMMA CopiedLists ==
  ASSUME StorageInv, NEW src \in Revs, NEW S, NEW order, NEW n, NEW tops, NEW number,
         Numbered(src, S, order, n, tops, number),
         NEW ch, DOMAIN ch \cap NewIds(n) = {}, Kids(ch, Null) \in Seq(Objects),
         NEW C, C = IF n = 0 THEN ch ELSE CopiedChildren(ch, order, n)
  PROVE  /\ \A ob \in tops : Kids(C, number[ob])
                               = [i \in 1..Len(Kids(children[src], ob)) |-> number[ob] + i]
         /\ \A t \in NewIds(n) \ TopCopies(order, n) : Kids(C, t) = << >>
         /\ Kids(C, Null) = Kids(ch, Null) \o Promised!Ascending(TopCopies(order, n))
         /\ \A p : p \notin NewIds(n) /\ p # Null => Kids(C, p) = Kids(ch, p)
<1> DEFINE new == NewIds(n)
           top == TopCopies(order, n)
           cp == CopiedParent(order, n)
           len(ob) == Len(Kids(children[src], ob))
           attached(t) == {id \in new : cp[id] = t}
           hosts == {t \in top : attached(t) # {}}
<1>1. /\ \A id : id \in top <=> \E ob \in tops : id = number[ob]
      /\ \A ob \in tops : \A id :
           id \in new /\ cp[id] = number[ob] <=> \E i \in 1..len(ob) : id = number[ob] + i
      /\ \A t \in new \ top : \A id \in new : cp[id] # t
  BY CopiesAttached
<1>2. next_object_id \in Nat /\ n \in Nat /\ tops = S \cap DOMAIN obstates[src]
  BY DEF StorageInv, TypeOK, Numbered
<1>3. top \subseteq new
  BY DEF TopCopies
<1>4. \A id \in new : id \in Int /\ id # Null /\ n # 0
  BY <1>2 DEF NewIds, Null
<1>5. \A ob \in tops : len(ob) \in Nat
  BY <1>2, ItemsAre
<1>6. n # 0 => C = [p \in DOMAIN ch \cup {Null} \cup hosts |->
                      IF p \in hosts THEN InOrderMade(attached(p), n)
                      ELSE IF p = Null THEN Kids(ch, Null) \o InOrderMade(top, n)
                      ELSE ch[p]]
  BY DEF CopiedChildren
<1> HIDE DEF new, top, cp, len
<1>7. ASSUME NEW ob \in tops PROVE Kids(C, number[ob]) = [i \in 1..len(ob) |-> number[ob] + i]
  <2> DEFINE t == number[ob]
             u == [i \in 1..len(ob) |-> t + i]
             A == attached(t)
  <2>1. t \in top /\ t \in new /\ t \in Int /\ t # Null /\ n # 0 /\ t \notin DOMAIN ch
    BY <1>1, <1>3, <1>4 DEF new
  <2>2. \A id : id \in A <=> \E i \in 1..len(ob) : id = t + i
    BY <1>1
  <2>3. A \subseteq new
    OBVIOUS
  <2> HIDE DEF t
  <2>4. u = [i \in 1..len(ob) |-> u[i]] /\ \A i \in 1..len(ob) : u[i] = t + i
    OBVIOUS
  <2> HIDE DEF attached, u
  <2>5. Enumerates(u, len(ob), A)
    <3> HIDE DEF A
    <3>1. len(ob) \in Nat
      BY <1>5
    <3>2. \A i \in 1..len(ob) : u[i] \in A /\ u[i] \in Int
      BY <2>1, <2>2, <2>4
    <3>3. \A x \in A : \E i \in 1..len(ob) : u[i] = x
      BY <2>2, <2>4
    <3>4. \A j, k \in 1..len(ob) : j < k => u[j] < u[k]
      BY <2>1, <2>4, <3>1
    <3> QED
      BY <2>4, <3>1, <3>2, <3>3, <3>4 DEF Enumerates
  <2>6. Promised!Ascending(A) = u
    <3> DEFINE Q == {p \in A \X A : p[1] < p[2]}
    <3> HIDE DEF A
    <3>1. \A x, y \in A : <<x, y>> \in Q <=> x < y
      OBVIOUS
    <3> HIDE DEF Q
    <3> QED
      BY <2>5, <3>1, AscendingIs
  <2>7. InOrderMade(A, n) = u
    <3> HIDE DEF A
    <3> QED
      BY <1>2, <2>3, <2>6, InOrderAscending DEF new
  <2>8. CASE A # {}
    <3>1. t \in hosts
      BY <2>1, <2>8
    <3>2. Kids(C, t) = InOrderMade(A, n)
      BY <1>6, <2>1, <3>1 DEF Kids
    <3> QED
      BY <2>7, <3>2 DEF u, t
  <2>9. CASE A = {}
    <3>1. t \notin hosts
      BY <2>9
    <3>2. Kids(C, t) = << >>
      BY <1>6, <2>1, <3>1 DEF Kids
    <3>3. len(ob) = 0
      <4>1. ~(1 \in 1..len(ob))
        BY <2>2, <2>9
      <4> QED
        BY <1>5, <4>1
    <3>4. u = << >>
      BY <3>3 DEF u
    <3> QED
      BY <3>2, <3>4 DEF u, t
  <2> QED
    BY <2>8, <2>9
<1>8. ASSUME NEW t \in new \ top PROVE Kids(C, t) = << >>
  <2>1. t \notin hosts /\ t \notin DOMAIN ch /\ t # Null /\ n # 0
    BY <1>4 DEF new
  <2> QED
    BY <1>6, <2>1 DEF Kids
<1>9. Kids(C, Null) = Kids(ch, Null) \o Promised!Ascending(top)
  <2>1. Null \notin hosts
    BY <1>3, <1>4
  <2>2. InOrderMade(top, n) = Promised!Ascending(top)
    BY <1>2, <1>3, InOrderAscending DEF new
  <2>3. CASE n # 0
    BY <1>6, <2>1, <2>2, <2>3 DEF Kids
  <2>4. CASE n = 0
    <3>1. top = {}
      BY <1>3, <1>4, <2>4
    <3>2. Promised!Ascending({}) = << >>
      <4>1. Enumerates(<< >>, 0, {})
        BY DEF Enumerates
      <4>2. \A x, y \in {} : <<x, y>> \in {} <=> x < y
        OBVIOUS
      <4> QED
        BY <4>1, <4>2, AscendingIs
    <3>3. Kids(ch, Null) \o << >> = Kids(ch, Null)
      OBVIOUS
    <3>4. C = ch
      BY <2>4
    <3> QED
      BY <3>1, <3>2, <3>3, <3>4
  <2> QED
    BY <2>3, <2>4
<1>10. ASSUME NEW p, p \notin new, p # Null PROVE Kids(C, p) = Kids(ch, p)
  <2>1. p \notin hosts
    BY <1>3, <1>10
  <2>2. CASE n # 0
    BY <1>6, <1>10, <2>1, <2>2 DEF Kids
  <2>3. CASE n = 0
    BY <2>3
  <2> QED
    BY <2>2, <2>3
<1> QED
  BY <1>7, <1>8, <1>9, <1>10 DEF new, top, len

\* What XornRevisions sees of the object that an item of a copy stands for.
LEMMA OriginalIs ==
  ASSUME StorageInv, NEW src \in Revs, NEW S, NEW it \in Items(src, S), NEW x,
         x = IF it[2] = 0 THEN it[1] ELSE Document(src).order[it[1]][it[2]]
  PROVE  x = Original(src, it) /\ Document(src).data[x] = content[obstates[src][Original(src, it)]]
<1> DEFINE o == obstates[src]
           ch == children[src]
           ob == it[1]
           i == it[2]
           s == Document(src)
           tops == S \cap DOMAIN o
<1>1. ob \in tops /\ i \in 0..Len(Kids(ch, ob)) /\ Len(Kids(ch, ob)) \in Nat
  BY ItemsAre
<1>2. s.order = DocOrder(o, ch) /\ s.data = DocData(o, content)
  BY DocumentIs DEF Doc
<1>3. s.order[ob] = Kids(ch, ob) /\ \A y \in DOMAIN o : s.data[y] = content[o[y]]
  BY <1>1, <1>2 DEF DocOrder, DocData
<1>4. TypedForest(DOMAIN o, parent[src], ch)
  BY OneRevision
<1> HIDE DEF o, ch, s
<1>5. CASE i = 0
  BY <1>1, <1>3, <1>5 DEF Original, o, s
<1>6. CASE i # 0
  <2>1. i \in 1..Len(Kids(ch, ob)) /\ ob \in DOMAIN o \cup {Null}
    <3> HIDE DEF i, ob
    <3> QED
      BY <1>1, <1>6
  <2>2. ob \in DOMAIN ch
    BY <2>1 DEF Kids
  <2>3. x = Kids(ch, ob)[i] /\ Original(src, it) = Kids(ch, ob)[i]
    BY <1>3, <1>6, <2>2 DEF Original, Kids, ch, s
  <2>4. Kids(ch, ob)[i] \in DOMAIN o
    <3> HIDE DEF ob, i
    <3>1. Elems(Kids(ch, ob)) = {y \in DOMAIN o : parent[src][y] = ob}
      BY <1>4, <2>1, KidsSeq
    <3> QED
      BY <2>1, <3>1 DEF Elems
  <2> QED
    BY <1>3, <2>3, <2>4 DEF o, s
<1> QED
  BY <1>5, <1>6

\* What a query shows of dest after the copies are made.
LEMMA CopiedDocument ==
  ASSUME StorageInv, NEW dest \in Revs, NEW src \in Revs, NEW S, NEW order, NEW n, NEW tops,
         NEW number, Numbered(src, S, order, n, tops, number),
         NEW obs, obs = Merge(obstates[dest], CopiedCells(src, order, n)),
         NEW C, C = IF n = 0 THEN children[dest] ELSE CopiedChildren(children[dest], order, n)
  PROVE  Doc(obs, C, content)
           = Promised!WithCopies(Document(dest), Document(src), tops, number, NewIds(n))
<1> DEFINE N == next_object_id
           new == NewIds(n)
           o == obstates[dest]
           ch == children[dest]
           cells == CopiedCells(src, order, n)
           d == Document(dest)
           s == Document(src)
           top == {number[ob] : ob \in tops}
           pick == [id \in new |-> CHOOSE it \in Promised!Items(s, tops) : number[it[1]] + it[2] = id]
           original(id) == IF pick[id][2] = 0 THEN pick[id][1] ELSE s.order[pick[id][1]][pick[id][2]]
           datum(x) == IF x \in new THEN s.data[original(x)] ELSE d.data[x]
           followers(p) == IF p \in top THEN Len(s.order[pick[p][1]]) ELSE 0
           list(p) == IF p \in new THEN [i \in 1..followers(p) |-> p + i]
                      ELSE IF p = Null THEN d.order[Null] \o Promised!Ascending(top) ELSE d.order[p]
<1>1. Promised!WithCopies(d, s, tops, number, new)
        = [data |-> [x \in DOMAIN d.data \cup new |-> datum(x)],
           order |-> [p \in DOMAIN d.order \cup new |-> list(p)]]
  BY DEF Promised!WithCopies, Promised!ObjectsIn, Promised!Null, Null
<1>2. /\ \A id \in new : /\ order[id - N] \in Items(src, S)
                         /\ \A it \in Items(src, S) :
                              number[it[1]] + it[2] = id <=> it = order[id - N]
      /\ \A ob \in tops : number[ob] \in new /\ order[number[ob] - N] = <<ob, 0>>
      /\ n \in Nat /\ tops = S \cap DOMAIN obstates[src]
  BY DEF Numbered
<1>3. Promised!Items(s, tops) = Items(src, S)
  BY <1>2, SameItems
<1>4. ASSUME NEW id \in new PROVE pick[id] = order[id - N]
  BY <1>2, <1>3
<1>5. \A id \in new : s.data[original(id)] = content[cells[id]]
  <2> TAKE id \in new
  <2> DEFINE it == order[id - N]
             x == IF it[2] = 0 THEN it[1] ELSE s.order[it[1]][it[2]]
  <2>1. it \in Items(src, S)
    BY <1>2
  <2>2. original(id) = x
    <3>1. pick[id] = it
      BY <1>4
    <3> HIDE DEF pick, it, s
    <3> QED
      BY <3>1
  <2>3. cells[id] = obstates[src][Original(src, it)]
    BY DEF CopiedCells, SourceOf
  <2> HIDE DEF it
  <2>4. s.data[x] = content[obstates[src][Original(src, it)]]
    BY <2>1, OriginalIs
  <2> HIDE DEF x, original, s
  <2> QED
    BY <2>2, <2>3, <2>4
<1>6. DOMAIN cells = new
  BY DEF CopiedCells
<1>7. /\ TypedForest(DOMAIN o, parent[dest], ch) /\ DOMAIN o \subseteq Objects
      /\ DOMAIN o \subseteq 1..N
  BY OneRevision
<1>8. /\ DOMAIN ch \subseteq DOMAIN o \cup {Null}
      /\ Kids(ch, Null) \in Seq(Objects)
  <2>1. DOMAIN ch \subseteq DOMAIN o \cup {Null}
    BY <1>7 DEF TypedForest, IsForest
  <2>2. Null \in DOMAIN o \cup {Null}
    OBVIOUS
  <2> HIDE DEF o, ch
  <2>3. Kids(ch, Null) \in Seq(Objects)
    BY <1>7, <2>2, KidsSeq
  <2> QED
    BY <2>1, <2>3
<1>9. N \in Nat
  BY DEF StorageInv, TypeOK
<1>10. DOMAIN o \cap new = {} /\ Null \notin new /\ Null \notin DOMAIN o
  BY <1>2, <1>7, <1>9 DEF NewIds, Null
<1>11. /\ DOMAIN d.data = DOMAIN o /\ DOMAIN d.order = DOMAIN o \cup {Null}
       /\ \A x \in DOMAIN o : d.data[x] = content[o[x]]
       /\ \A p \in DOMAIN o \cup {Null} : d.order[p] = Kids(ch, p)
  <2>1. d.order = DocOrder(o, ch) /\ d.data = DocData(o, content)
    BY DocumentIs DEF Doc
  <2> QED
    BY <2>1 DEF DocOrder, DocData
<1>12. obs = Merge(o, cells)
  OBVIOUS
<1>13. top = TopCopies(order, n)
  <2>1. \A id : id \in TopCopies(order, n) <=> \E ob \in tops : id = number[ob]
    BY CopiesAttached
  <2>2. \A id : id \in top <=> \E ob \in tops : id = number[ob]
    OBVIOUS
  <2> HIDE DEF top
  <2> QED
    BY <2>1, <2>2
<1>14. /\ \A ob \in tops : Kids(C, number[ob])
                              = [i \in 1..Len(Kids(children[src], ob)) |-> number[ob] + i]
       /\ \A t \in new \ top : Kids(C, t) = << >>
       /\ Kids(C, Null) = Kids(ch, Null) \o Promised!Ascending(top)
       /\ \A p : p \notin new /\ p # Null => Kids(C, p) = Kids(ch, p)
  <2>1. /\ \A ob \in tops : Kids(C, number[ob])
                              = [i \in 1..Len(Kids(children[src], ob)) |-> number[ob] + i]
        /\ \A t \in new \ TopCopies(order, n) : Kids(C, t) = << >>
        /\ Kids(C, Null) = Kids(ch, Null) \o Promised!Ascending(TopCopies(order, n))
        /\ \A p : p \notin new /\ p # Null => Kids(C, p) = Kids(ch, p)
    <3>1. DOMAIN ch \cap NewIds(n) = {}
      BY <1>8, <1>10
    <3> HIDE DEF top, pick
    <3> QED
      BY <1>8, <3>1, CopiedLists
  <2> HIDE DEF top
  <2> QED
    BY <1>13, <2>1
<1>15. \A ob \in tops : s.order[ob] = Kids(children[src], ob)
  <2>1. s.order = DocOrder(obstates[src], children[src])
    BY DocumentIs DEF Doc
  <2> QED
    BY <1>2, <2>1 DEF DocOrder
<1>16. \A t \in top : \E ob \in tops : t = number[ob]
  OBVIOUS
<1> HIDE DEF pick, o, ch, cells, d, s, new, top, N
<1>17. ASSUME NEW p \in new PROVE list(p) = Kids(C, p)
  <2>1. CASE p \in top
    <3>1. PICK ob \in tops : p = number[ob]
      BY <1>16, <2>1
    <3>2. pick[p][1] = ob
      BY <1>2, <1>4, <3>1
    <3>3. followers(p) = Len(Kids(children[src], ob))
      BY <1>15, <2>1, <3>2
    <3> QED
      BY <1>14, <3>1, <3>3
  <2>2. CASE p \notin top
    <3>1. followers(p) = 0
      BY <2>2
    <3>2. [i \in 1..0 |-> p + i] = << >>
      OBVIOUS
    <3> HIDE DEF followers
    <3> QED
      BY <1>14, <2>2, <3>1, <3>2
  <2> QED
    BY <2>1, <2>2
<1>18. ASSUME NEW p \in DOMAIN o \cup {Null} PROVE list(p) = Kids(C, p)
  <2>1. p \notin new /\ d.order[p] = Kids(ch, p)
    BY <1>10, <1>11
  <2> HIDE DEF followers
  <2>2. CASE p = Null
    BY <1>14, <2>1, <2>2
  <2>3. CASE p # Null
    BY <1>14, <2>1, <2>3
  <2> QED
    BY <2>2, <2>3
<1>19. /\ DOMAIN obs = DOMAIN o \cup new
       /\ \A x \in new : obs[x] = cells[x]
       /\ \A x \in DOMAIN o : obs[x] = o[x]
  BY <1>6, <1>10, <1>12 DEF Merge
<1>20. \A x \in DOMAIN o \cup new : datum(x) = content[obs[x]]
  BY <1>5, <1>10, <1>11, <1>19
<1> HIDE DEF list, datum
<1>21. [x \in DOMAIN d.data \cup new |-> datum(x)] = DocData(obs, content)
  BY <1>11, <1>19, <1>20 DEF DocData
<1>22. [p \in DOMAIN d.order \cup new |-> list(p)] = DocOrder(obs, C)
  <2>1. DOMAIN d.order \cup new = DOMAIN obs \cup {Null}
    BY <1>11, <1>19
  <2>2. \A p \in DOMAIN obs \cup {Null} : list(p) = Kids(C, p)
    BY <1>17, <1>18, <1>19
  <2> QED
    BY <2>1, <2>2 DEF DocOrder
<1> QED
  BY <1>1, <1>21, <1>22 DEF Doc, d, s, new

\* A call that copies objects, all the way through.
LEMMA CopyRefines ==
  ASSUME StorageInv, StorageInv', CellsKept, NEW dest \in Revs, NEW src \in Revs, NEW S,
         {dest, src} \subseteq live, is_transient[dest], CopyObjects(dest, src, S)
  PROVE  Promised!Next
<1> DEFINE items == Items(src, S)
           n == Cardinality(items)
           order == CopyOrder(items)
           tops == S \cap DOMAIN obstates[src]
           new == NewIds(n)
           d == Document(dest)
           s == Document(src)
<1>1. PICK first : Positions(order, n, items, tops, first)
  BY CopyPositions
<1> DEFINE number == [ob \in tops |-> next_object_id + first[ob]]
<1>2. Numbered(src, S, order, n, tops, number)
  <2>1. DOMAIN number = tops /\ \A ob \in tops : number[ob] = next_object_id + first[ob]
    OBVIOUS
  <2> HIDE DEF number, items, order, n, tops
  <2>2. items = Items(src, S) /\ tops = S \cap DOMAIN obstates[src]
    BY DEF items, tops
  <2> QED
    BY <1>1, <2>1, <2>2, CopiesNumbered
<1> HIDE DEF number
<1> DEFINE obs == Merge(obstates[dest], CopiedCells(src, order, n))
           C == IF n = 0 THEN children[dest] ELSE CopiedChildren(children[dest], order, n)
<1>3. /\ next_object_id + n <= MaxId
      /\ next_object_id' = next_object_id + n
      /\ obstates' = [obstates EXCEPT ![dest] = obs]
      /\ parent' = [parent EXCEPT ![dest] = Merge(@, CopiedParent(order, n))]
      /\ children' = [children EXCEPT ![dest] = C]
      /\ UNCHANGED <<live, is_transient, content>>
  BY DEF CopyObjects
<1>4. Domains
  BY DomainsKnown
<1>5. n = Promised!Cardinality(Promised!Items(s, tops))
  BY SameItems, CardinalityIs
<1>6. /\ \A ob \in tops : number[ob] \in new
      /\ \A it \in items : number[it[1]] + it[2] \in new
      /\ \A id \in new : \E it \in items : number[it[1]] + it[2] = id
      /\ DOMAIN number = tops
  BY <1>2 DEF Numbered
<1>7. Promised!Items(s, tops) = items
  BY SameItems
<1>8. tops \in SUBSET Promised!ObjectsIn(s)
  <2>1. s.data = DocData(obstates[src], content)
    BY DocumentIs DEF Doc
  <2> QED
    BY <2>1 DEF Promised!ObjectsIn, DocData
<1>9. \A t \in Revs \ {dest} : Untouched(t)
  <2> HIDE DEF obs, C
  <2> QED
    BY <1>3, <1>4 DEF Untouched, Domains
<1>10. Document(dest)' = Doc(obs, C, content)
  <2> HIDE DEF obs, C
  <2>1. obstates'[dest] = obs /\ children'[dest] = C /\ content' = content
    BY <1>3, <1>4 DEF Domains
  <2> QED
    BY <2>1, DocumentIs
<1>11. Doc(obs, C, content) = Promised!WithCopies(d, s, tops, number, new)
  <2>1. \A o, c : o = obs /\ c = C => Doc(o, c, content) = Promised!WithCopies(d, s, tops, number, new)
    <3> HIDE DEF order, n, tops
    <3> QED
      BY <1>2, CopiedDocument
  <2> HIDE DEF obs, C
  <2> QED
    BY <2>1
<1> HIDE DEF obs, C, items, order, n
<1>12. number \in [tops -> new]
  <2>1. number = [ob \in tops |-> number[ob]]
    BY DEF number
  <2> QED
    BY <1>6, <2>1
<1>13. {number[it[1]] + it[2] : it \in items} = new
  BY <1>6
<1> HIDE DEF tops
<1>14. Promised!Change(dest, Promised!WithCopies(d, s, tops, number, new), next_object_id + n)
  <2>1. dest \in live /\ UNCHANGED <<live, is_transient>>
    BY <1>3
  <2>2. \A w : w = Promised!WithCopies(d, s, tops, number, new)
                 => Promised!Change(dest, w, next_object_id + n)
    BY <1>3, <1>9, <1>10, <1>11, <2>1, ChangeIs
  <2> QED
    BY <2>2
<1>15. Promised!Copy(dest, src, tops)
  BY <1>3, <1>5, <1>7, <1>12, <1>13, <1>14 DEF Promised!Copy, NewIds
<1> QED
  BY <1>8, <1>15 DEF Promised!Next

LEMMA CopyCallRefines ==
  ASSUME StorageInv, StorageInv', CopyCall, CellsKept, ret' = "ok"
  PROVE  Promised!Next
<1>1. PICK dest \in Revs, src \in Revs :
        \/ \E ob \in Objects : CopyObject(dest, src, ob) \/ CopyObjectRejected(dest, src, ob)
        \/ \E sel \in SUBSET Objects : CopySelected(dest, src, sel)
        \/ CopySelectedRejected(dest, src)
  BY DEF CopyCall
<1>2. \A S : ~CopyObjectsFails(dest, src, S)
  BY DEF CopyObjectsFails
<1>3. ~CopySelectedRejected(dest, src) /\ \A ob : ~CopyObjectRejected(dest, src, ob)
  BY DEF CopySelectedRejected, CopyObjectRejected, Reject
<1>4. ASSUME NEW ob, CopyObject(dest, src, ob) PROVE Promised!Next
  BY <1>2, <1>4, CopyRefines DEF CopyObject
<1>5. ASSUME NEW sel, CopySelected(dest, src, sel) PROVE Promised!Next
  BY <1>2, <1>5, CopyRefines DEF CopySelected, Reject
<1> QED
  BY <1>1, <1>3, <1>4, <1>5

-----------------------------------------------------------------------------
(* The refinement.                                                         *)

LEMMA InitRefines == Init => Promised!Init
<1> SUFFICES ASSUME Init PROVE Promised!Init
  OBVIOUS
<1>1. ASSUME NEW r \in Revs PROVE Document(r) = Promised!EmptyDoc
  <2>1. obstates[r] = EmptyMap /\ children[r] = EmptyMap
    BY DEF Init
  <2>2. DOMAIN EmptyMap = {} /\ Kids(EmptyMap, Null) = << >>
    BY DEF EmptyMap, Kids
  <2> QED
    BY <2>1, <2>2, DocumentIs, EmptyDocument
<1>2. [r \in Revs |-> Document(r)] = [r \in Revs |-> Promised!EmptyDoc]
  BY <1>1
<1> QED
  BY <1>2 DEF Init, Promised!Init

LEMMA StepRefines ==
  ASSUME StorageInv, StorageInv', [Next]_vars
  PROVE  [Promised!Next]_(Promised!vars)
<1>1. CellsKept
  BY StepContained DEF Contained
<1>2. CASE UNCHANGED vars
  <2>1. UNCHANGED <<live, is_transient, next_object_id, obstates, children, content, parent>>
    BY <1>2 DEF vars
  <2>2. \A s \in Revs : Document(s)' = Document(s)
    BY <2>1, DocumentIs
  <2>3. [s \in Revs |-> Document(s)]' = [s \in Revs |-> Document(s)]
    BY <2>2
  <2> QED
    BY <2>1, <2>3 DEF Promised!vars
<1>3. CASE Next
  <2>1. CASE ret' # "ok"
    BY <1>3, <2>1, ErrorRefines
  <2>2. CASE ret' = "ok"
    BY <1>1, <1>3, <2>2, RevisionCallRefines, ObjectCallRefines, RelocateCallRefines,
       DeleteCallRefines, CopyCallRefines DEF Next
  <2> QED
    BY <2>1, <2>2
<1> QED
  BY <1>2, <1>3

(* Refinement: every behaviour of the storage backend (copy-on-write       *)
(* revisions sharing counted object states, calls that fail half-way) is   *)
(* one of revisions that are values of their own.                          *)
THEOREM StorageKeepsItsPromise == Spec => RevisionsAreValues
<1>1. Init => Promised!Init
  BY InitRefines
<1>2. StorageInv /\ StorageInv' /\ [Next]_vars => [Promised!Next]_(Promised!vars)
  BY StepRefines
<1> QED
  BY <1>1, <1>2, Invariance, PTL DEF Spec, RevisionsAreValues, Promised!Spec
=============================================================================
