-------------------------- MODULE TreeCommit_proofs --------------------------
(* For every set of workspaces and results, finite trees all: the roots are  *)
(* enough and not too much, every rename lands, rollback and restore bring   *)
(* the whole tree back, and what the policy promises of a committed tree.    *)
(*                                                                           *)
(* Trees are compared entry by entry (Here).  The inductive invariant says   *)
(* of every root, from the flags of its operation, what the workspace, the   *)
(* payload and the quarantine hold inside it; of a path inside no root, that *)
(* it is as it was.                                                          *)
EXTENDS TreeCommit, FiniteSetTheorems, TLAPS

----------------------------------------------------------------------------
(* Paths.                                                                    *)

\* Being inside is an order on paths; what is inside a path has its head.
LEMMA InsideOrder ==
    ASSUME NEW p \in Path, NEW q \in Path, NEW r \in Path
    PROVE  /\ Inside(p, p)
           /\ Inside(p, q) /\ Inside(q, r) => Inside(p, r)
           /\ Inside(p, q) /\ Inside(q, p) => p = q
           /\ Inside(p, r) /\ Inside(q, r) => Inside(p, q) \/ Inside(q, p)
           /\ Inside(p, q) => Head(p) = Head(q)
BY DEF Inside, Path, IsPrefix

\* A path is inside another if it agrees with it as far as that one goes.
LEMMA InsideIndex ==
    ASSUME NEW p \in Path, NEW q \in Path
    PROVE  Inside(p, q) <=> /\ Len(p) <= Len(q)
                            /\ \A i \in 1 .. Len(p) : p[i] = q[i]
BY DEF Inside, Path, IsPrefix

\* The directories above a path are the other paths it is inside.
LEMMA AbovePath ==
    ASSUME NEW p \in Path, NEW q
    PROVE  q \in Above(p) <=> q \in Path /\ Inside(q, p) /\ q # p
BY DEF Inside, Path, IsPrefix, Above, Prefixes

\* The parent is above, and everything else above is above the parent.
LEMMA ParentPath ==
    ASSUME NEW p \in Path, Len(p) > 1
    PROVE  /\ Parent(p) \in Above(p) /\ Len(Parent(p)) = Len(p) - 1
           /\ \A q \in Above(p) : q = Parent(p) \/ q \in Above(Parent(p))
BY DEF Inside, Path, IsPrefix, Above, Prefixes, Parent, Front

\* Only a path of several names has something above it.
LEMMA TopPath ==
    ASSUME NEW p \in Path, NEW q \in Above(p)
    PROVE  Len(p) \in Nat /\ Len(p) > 1
BY DEF Path, Above, Prefixes

\* A path is its root followed by the rest.
LEMMA Rejoin ==
    ASSUME NEW p \in Path, NEW q \in Path, Inside(p, q)
    PROVE  p \o SubSeq(q, Len(p) + 1, Len(q)) = q
BY DEF Inside, Path, IsPrefix

\* Exchanging the root of a path keeps the rest, and can be undone.
LEMMA Graft ==
    ASSUME NEW p \in Path, NEW q \in Path, NEW r \in Path, Inside(p, q)
    PROVE  LET s == r \o SubSeq(q, Len(p) + 1, Len(q)) IN
           /\ s \in Path /\ Inside(r, s)
           /\ p \o SubSeq(s, Len(r) + 1, Len(s)) = q
BY DEF Inside, Path, IsPrefix

----------------------------------------------------------------------------
(* The order of the operations.                                              *)

\* The induction of this module: a set of numbers has a least one.
LEMMA NatMin ==
    ASSUME NEW T, T \subseteq Nat, T # {}
    PROVE  \E m \in T : \A k \in T : m <= k
<1> DEFINE R == OpToRel(<, Nat)
<1>1. IsWellFoundedOn(R, Nat)
  BY NatLessThanWellFounded
<1>2. \A x, y \in Nat : x < y => <<x, y>> \in R
  BY DEF OpToRel
<1> HIDE DEF R
<1>3. PICK m \in T : \A y \in T : ~(<<y, m>> \in R)
  BY <1>1, WFMin
<1>4. ASSUME NEW k \in T PROVE m <= k
  <2>1. m \in Nat /\ k \in Nat /\ ~(k < m)
    BY <1>2, <1>3
  <2> QED BY <2>1
<1> QED BY <1>4

\* Names are numbers, and so are their keys.
LEMMA PathNames ==
    ASSUME NEW p \in Path
    PROVE  /\ Len(p) \in Nat \ {0}
           /\ \A i \in 1 .. Len(p) : p[i] \in Nat /\ Key(p, i) \in Nat
<1>1. Len(p) \in Nat \ {0} /\ \A i \in 1 .. Len(p) : p[i] \in Name
  BY DEF Path
<1>2. Name \subseteq Nat /\ WithSlash \in [Name -> Nat]
  BY NamesAssumption
<1> QED BY <1>1, <1>2 DEF Key

\* In paths of one length, equal keys are equal names.
LEMMA KeyIsName ==
    ASSUME NEW p \in Path, NEW q \in Path, Len(p) = Len(q),
           NEW i \in 1 .. Len(p)
    PROVE  Key(p, i) = Key(q, i) <=> p[i] = q[i]
<1>1. p[i] \in Name /\ q[i] \in Name
  BY DEF Path
<1>2. \A a, b \in Name : WithSlash[a] = WithSlash[b] => a = b
  BY NamesAssumption DEF IsInjective
<1> QED BY <1>1, <1>2 DEF Key

\* Precedes is a strict linear order.
LEMMA PrecedesOrder ==
    ASSUME NEW p \in Path, NEW q \in Path, NEW r \in Path
    PROVE  /\ ~Precedes(p, p)
           /\ Precedes(p, q) /\ Precedes(q, r) => Precedes(p, r)
           /\ p = q \/ Precedes(p, q) \/ Precedes(q, p)
<1> USE PathNames
<1>1. ~Precedes(p, p)
  <2>1. DOMAIN p = 1 .. Len(p)
    BY DEF Path
  <2>2. \A i \in DOMAIN p : ~(Key(p, i) < Key(p, i))
    BY <2>1
  <2> QED BY <2>2 DEF Precedes
<1>2. ASSUME Precedes(p, q), Precedes(q, r) PROVE Precedes(p, r)
  <2>1. CASE Len(p) = Len(q) /\ Len(q) = Len(r)
    <3>1. PICK i \in DOMAIN p :
              Key(p, i) < Key(q, i) /\ \A j \in 1 .. i - 1 : p[j] = q[j]
      BY <1>2, <2>1 DEF Precedes
    <3>2. PICK k \in DOMAIN q :
              Key(q, k) < Key(r, k) /\ \A j \in 1 .. k - 1 : q[j] = r[j]
      BY <1>2, <2>1 DEF Precedes
    <3>3. DOMAIN p = 1 .. Len(p) /\ DOMAIN q = 1 .. Len(p)
      BY <2>1 DEF Path
    <3>4. CASE i < k
      <4>1. i \in 1 .. k - 1 /\ \A j \in 1 .. i - 1 : j \in 1 .. k - 1
        BY <3>1, <3>2, <3>3, <3>4
      <4>2. Key(q, i) = Key(r, i)
        BY <3>2, <4>1, <2>1 DEF Key
      <4>3. Key(p, i) < Key(r, i) /\ \A j \in 1 .. i - 1 : p[j] = r[j]
        BY <3>1, <3>2, <4>1, <4>2
      <4> QED BY <4>3, <2>1 DEF Precedes
    <3>5. CASE k <= i
      <4>1. Key(p, k) < Key(r, k) /\ \A j \in 1 .. k - 1 : p[j] = r[j]
        <5>1. Key(p, k) \in Nat /\ Key(q, k) \in Nat /\ Key(r, k) \in Nat
          BY <3>3, <2>1
        <5>2. Key(p, k) <= Key(q, k)
          <6>1. i \in Nat /\ k \in Nat /\ (k = i \/ k \in 1 .. i - 1)
            BY <3>1, <3>2, <3>3, <3>5
          <6>2. k = i => Key(p, k) < Key(q, k)
            BY <3>1
          <6>3. k \in 1 .. i - 1 => Key(p, k) = Key(q, k)
            BY <3>1, <2>1 DEF Key
          <6> QED BY <5>1, <6>1, <6>2, <6>3
        <5> QED BY <3>1, <3>2, <3>3, <3>5, <5>1, <5>2
      <4> QED BY <4>1, <2>1, <3>3 DEF Precedes
    <3> QED BY <3>3, <3>4, <3>5
  <2>2. CASE ~(Len(p) = Len(q) /\ Len(q) = Len(r))
    <3>1. Len(p) < Len(r)
      BY <1>2, <2>2 DEF Precedes
    <3> QED BY <3>1 DEF Precedes
  <2> QED BY <2>1, <2>2
<1>3. ASSUME p # q, Len(p) = Len(q) PROVE Precedes(p, q) \/ Precedes(q, p)
  <2> DEFINE T == {i \in 1 .. Len(p) : p[i] # q[i]}
  <2>1. T # {} /\ T \subseteq Nat
    <3>1. Len(p) \in Nat
      OBVIOUS
    <3>2. p \in Seq(Name) /\ q \in Seq(Name)
      BY DEF Path
    <3>3. PICK i \in 1 .. Len(p) : p[i] # q[i]
      BY <1>3, <3>2
    <3>4. i \in T
      BY <3>3
    <3>5. T \subseteq 1 .. Len(p) /\ 1 .. Len(p) \subseteq Nat
      BY <3>1
    <3> HIDE DEF T
    <3> QED BY <3>4, <3>5
  <2>2. PICK m \in T : \A k \in T : m <= k
    <3> HIDE DEF T
    <3> QED BY <2>1, NatMin
  <2>3. m \in 1 .. Len(p) /\ \A j \in 1 .. m - 1 : p[j] = q[j]
    <3>1. m \in 1 .. Len(p) /\ Len(p) \in Nat
      OBVIOUS
    <3>2. ASSUME NEW j \in 1 .. m - 1 PROVE p[j] = q[j]
      <4>1. j \in 1 .. Len(p) /\ ~(m <= j)
        BY <3>1
      <4>2. j \notin T
        BY <2>2, <4>1
      <4> QED BY <4>1, <4>2
    <3> QED BY <3>1, <3>2
  <2>4. Key(p, m) < Key(q, m) \/ Key(q, m) < Key(p, m)
    <3>1. Key(p, m) # Key(q, m)
      BY <2>2, <2>3, <1>3, KeyIsName
    <3> QED BY <2>3, <3>1, <1>3
  <2>5. DOMAIN p = 1 .. Len(p) /\ DOMAIN q = 1 .. Len(p)
    BY <1>3 DEF Path
  <2> QED BY <1>3, <2>3, <2>4, <2>5 DEF Precedes
<1>4. ASSUME Len(p) # Len(q) PROVE Precedes(p, q) \/ Precedes(q, p)
  BY <1>4 DEF Precedes
<1> QED BY <1>1, <1>2, <1>3, <1>4

\* The number of elements of S before p.
Rank(S, p) == Cardinality({q \in S : Precedes(q, p)})

\* Ranks are different numbers, and grow with the order.
LEMMA Ranks ==
    ASSUME NEW S, S \subseteq Path, IsFiniteSet(S)
    PROVE  /\ Cardinality(S) \in Nat
           /\ \A p \in S : Rank(S, p) \in 0 .. Cardinality(S) - 1
           /\ \A p, q \in S : Precedes(p, q) => Rank(S, p) < Rank(S, q)
           /\ \A p, q \in S : Rank(S, p) = Rank(S, q) => p = q
<1> DEFINE n == Cardinality(S)
           B(p) == {q \in S : Precedes(q, p)}
<1>1. n \in Nat
  BY FS_CardinalityType
<1>2. ASSUME NEW p \in S
      PROVE  IsFiniteSet(B(p)) /\ Cardinality(B(p)) \in 0 .. n - 1
  <2>1. ~Precedes(p, p)
    BY PrecedesOrder
  <2>2. IsFiniteSet(S \ {p}) /\ Cardinality(S \ {p}) = n - 1
    BY FS_RemoveElement
  <2>3. B(p) \in SUBSET (S \ {p})
    BY <2>1
  <2>4. IsFiniteSet(B(p)) /\ Cardinality(B(p)) <= n - 1
    <3> HIDE DEF B, n
    <3> QED BY <2>2, <2>3, FS_Subset
  <2>5. Cardinality(B(p)) \in Nat
    <3> HIDE DEF B
    <3> QED BY <2>4, FS_CardinalityType
  <2> QED BY <1>1, <2>4, <2>5
<1>3. ASSUME NEW p \in S, NEW q \in S, Precedes(p, q)
      PROVE  Cardinality(B(p)) < Cardinality(B(q))
  <2>1. B(p) \subseteq B(q)
    <3> SUFFICES ASSUME NEW r \in S, Precedes(r, p) PROVE Precedes(r, q)
      OBVIOUS
    <3> QED BY <1>3, PrecedesOrder
  <2>2. p \in B(q) /\ ~(p \in B(p))
    BY <1>3, PrecedesOrder
  <2> HIDE DEF B
  <2>3. Cardinality(B(p)) <= Cardinality(B(q))
           /\ Cardinality(B(p)) # Cardinality(B(q))
    BY <1>2, <2>1, <2>2, FS_Subset
  <2> QED BY <1>2, <2>3
<1>4. \A p, q \in S : Cardinality(B(p)) = Cardinality(B(q)) => p = q
  <2> SUFFICES ASSUME NEW p \in S, NEW q \in S,
                      Cardinality(B(p)) = Cardinality(B(q))
               PROVE  p = q
    OBVIOUS
  <2>1. Cardinality(B(p)) \in Nat
    BY <1>2
  <2>2. p = q \/ Precedes(p, q) \/ Precedes(q, p)
    BY PrecedesOrder
  <2> HIDE DEF B
  <2> QED BY <1>3, <2>1, <2>2
<1> QED BY <1>1, <1>2, <1>3, <1>4 DEF Rank

\* InOrder lists the elements of a finite set, each once and at its rank.
LEMMA InOrderEnumerates ==
    ASSUME NEW S, S \subseteq Path, IsFiniteSet(S)
    PROVE  /\ DOMAIN InOrder(S) = 1 .. Cardinality(S)
           /\ Cardinality(S) \in Nat /\ InOrder(S) \in Seq(S)
           /\ \A i \in 1 .. Cardinality(S) : Rank(S, InOrder(S)[i]) = i - 1
           /\ \A i, j \in DOMAIN InOrder(S) :
                  InOrder(S)[i] = InOrder(S)[j] => i = j
           /\ \A p \in S : \E i \in DOMAIN InOrder(S) : InOrder(S)[i] = p
<1> DEFINE n == Cardinality(S)
           rank == [p \in S |-> Rank(S, p) + 1]
           s == InOrder(S)
<1>1. /\ n \in Nat /\ \A p \in S : Rank(S, p) \in 0 .. n - 1
      /\ \A p, q \in S : Rank(S, p) = Rank(S, q) => p = q
  BY Ranks
<1>2. s = [i \in 1 .. n |-> CHOOSE p \in S : Rank(S, p) = i - 1]
  BY DEF InOrder, Rank
<1> HIDE DEF s
<1>3. rank \in Surjection(S, 1 .. n)
  <2>1. rank \in Injection(S, 1 .. n)
    <3>1. \A p \in S : Rank(S, p) + 1 \in 1 .. n
      BY <1>1
    <3>2. \A p, q \in S : Rank(S, p) + 1 = Rank(S, q) + 1 => p = q
      BY <1>1
    <3> QED BY <3>1, <3>2 DEF Injection, IsInjective
  <2>2. IsFiniteSet(1 .. n) /\ Cardinality(1 .. n) = n
    BY <1>1, FS_Interval
  <2> HIDE DEF rank
  <2> QED BY <2>1, <2>2, FS_Injection
<1>4. ASSUME NEW i \in 1 .. n PROVE \E p \in S : Rank(S, p) = i - 1
  <2>1. PICK p \in S : rank[p] = i
    BY <1>3 DEF Surjection
  <2>2. Rank(S, p) + 1 = i /\ Rank(S, p) \in Nat
    BY <1>1, <2>1
  <2> QED BY <2>2
<1>5. \A i \in 1 .. n : s[i] \in S /\ Rank(S, s[i]) = i - 1
  BY <1>2, <1>4
<1>6. DOMAIN s = 1 .. n /\ s \in [1 .. n -> S]
  BY <1>2, <1>5
<1>7. s \in Seq(S)
  <2> HIDE DEF n
  <2> QED BY <1>1, <1>6
<1>8. \A i, j \in 1 .. n : s[i] = s[j] => i = j
  BY <1>1, <1>5
<1>9. ASSUME NEW p \in S PROVE \E i \in 1 .. n : s[i] = p
  <2>1. Rank(S, p) + 1 \in 1 .. n
    BY <1>1
  <2>2. s[Rank(S, p) + 1] \in S /\ Rank(S, s[Rank(S, p) + 1]) = Rank(S, p)
    BY <1>1, <1>5, <2>1
  <2> QED BY <1>1, <2>1, <2>2
<1> QED BY <1>1, <1>5, <1>6, <1>7, <1>8, <1>9 DEF s

\* What precedes comes earlier.
LEMMA InOrderSorts ==
    ASSUME NEW S, S \subseteq Path, IsFiniteSet(S),
           NEW i \in DOMAIN InOrder(S), NEW j \in DOMAIN InOrder(S),
           Precedes(InOrder(S)[i], InOrder(S)[j])
    PROVE  i < j
<1> DEFINE s == InOrder(S)
<1>1. /\ DOMAIN s = 1 .. Cardinality(S) /\ s[i] \in S /\ s[j] \in S
      /\ Rank(S, s[i]) = i - 1 /\ Rank(S, s[j]) = j - 1
      /\ Cardinality(S) \in Nat
  BY InOrderEnumerates
<1> HIDE DEF s
<1>2. Precedes(s[i], s[j])
  BY DEF s
<1>3. Rank(S, s[i]) < Rank(S, s[j])
  BY <1>1, <1>2, Ranks
<1>4. i \in Nat /\ j \in Nat
  BY <1>1 DEF s
<1> QED BY <1>1, <1>3, <1>4

\* What comes after everything in S is appended.
LEMMA InOrderAppend ==
    ASSUME NEW S, S \subseteq Path, IsFiniteSet(S), NEW p \in Path,
           \A q \in S : Precedes(q, p)
    PROVE  InOrder(S \cup {p}) = Append(InOrder(S), p)
<1> DEFINE U == S \cup {p}
           n == Cardinality(S)
           s == InOrder(S)
           u == InOrder(U)
<1>1. p \notin S /\ \A q \in S : ~Precedes(p, q)
  BY PrecedesOrder
<1>2. /\ \A q \in S : {x \in U : Precedes(x, q)} = {x \in S : Precedes(x, q)}
      /\ {x \in U : Precedes(x, p)} = S
  BY <1>1, PrecedesOrder
<1>3. /\ \A q \in S : Rank(U, q) = Rank(S, q)
      /\ Rank(U, p) = n
  BY <1>2 DEF Rank
<1>4. IsFiniteSet(U) /\ U \subseteq Path /\ Cardinality(U) = n + 1
  BY <1>1, FS_AddElement
<1>5. /\ n \in Nat /\ DOMAIN s = 1 .. n /\ s \in Seq(S)
      /\ \A i \in 1 .. n : Rank(S, s[i]) = i - 1
  BY InOrderEnumerates
<1> HIDE DEF U
<1>6. /\ DOMAIN u = 1 .. n + 1 /\ u \in Seq(U)
      /\ \A i \in 1 .. n + 1 : Rank(U, u[i]) = i - 1
  BY <1>4, InOrderEnumerates
<1>7. \A x, y \in U : Rank(U, x) = Rank(U, y) => x = y
  BY <1>4, Ranks
<1> HIDE DEF s, u, n
<1>8. ASSUME NEW i \in 1 .. n PROVE u[i] = s[i]
  <2>1. i \in 1 .. n + 1 /\ s[i] \in S /\ s[i] \in U /\ u[i] \in U
    BY <1>5, <1>6 DEF U
  <2> QED BY <1>3, <1>5, <1>6, <1>7, <2>1
<1>9. u[n + 1] = p
  <2>1. n + 1 \in 1 .. n + 1 /\ u[n + 1] \in U /\ p \in U /\ (n + 1) - 1 = n
    BY <1>5, <1>6 DEF U
  <2> QED BY <1>3, <1>6, <1>7, <2>1
<1>10. s \in Seq(U) /\ p \in U /\ Len(s) = n /\ Len(u) = n + 1
  BY <1>5, <1>6 DEF U
<1>11. u = Append(s, p)
  BY <1>5, <1>6, <1>8, <1>9, <1>10
<1> QED BY <1>11 DEF s, u, U

----------------------------------------------------------------------------
(* Trees.                                                                    *)

\* The entry of tree t at p, if any, as a set.
Here(t, p) == IF p \in DOMAIN t THEN {t[p]} ELSE {}

\* Entry by entry, what cutting, taking a subtree and scanning do.
LEMMA HereOf ==
    ASSUME NEW t, NEW r, NEW p
    PROVE  /\ Here(Cut(t, r), p) = IF Inside(r, p) THEN {} ELSE Here(t, p)
           /\ Here(Subtree(t, r), p) = IF Inside(r, p) THEN Here(t, p) ELSE {}
           /\ Here(Scan(t), p) =
                  IF Head(p) \in Excluded THEN {} ELSE Here(t, p)
BY DEF Here, Cut, Subtree, Scan, Restrict

\* Trees with the same entries are equal.
LEMMA HereSame ==
    ASSUME NEW t, NEW u, DOMAIN t \subseteq Path, DOMAIN u \subseteq Path,
           t \in [DOMAIN t -> Entry], u \in [DOMAIN u -> Entry],
           \A p \in Path : Here(t, p) = Here(u, p)
    PROVE  t = u
<1>1. DOMAIN t = DOMAIN u
  BY DEF Here
<1>2. \A p \in DOMAIN t : t[p] = u[p]
  <2> SUFFICES ASSUME NEW p \in DOMAIN t PROVE t[p] = u[p]
    OBVIOUS
  <2>1. {t[p]} = {u[p]}
    BY <1>1 DEF Here
  <2> QED BY <2>1
<1> QED BY <1>1, <1>2

\* In a tree everything above an entry is a directory: a parent that is
\* missing at the least depth would be the parent of an entry.
LEMMA TreeAbove ==
    ASSUME NEW t, IsTree(t), NEW p \in DOMAIN t, NEW q \in Above(p)
    PROVE  IsDirectory(t, q)
<1> DEFINE Odd(x) == \E y \in Above(x) : ~IsDirectory(t, y)
           T == {n \in Nat : \E x \in DOMAIN t : Len(x) = n /\ Odd(x)}
<1>1. DOMAIN t \subseteq Path
  BY DEF IsTree
<1>2. SUFFICES ASSUME T # {} PROVE FALSE
  <2>1. Len(p) \in Nat
    BY <1>1, PathNames
  <2> QED BY <1>1, <1>2, <2>1
<1>3. PICK m \in T : \A k \in T : m <= k
  <2>1. T \subseteq Nat
    OBVIOUS
  <2> HIDE DEF T
  <2> QED BY <1>2, <2>1, NatMin
<1>4. PICK x \in DOMAIN t : Len(x) = m /\ Odd(x)
  OBVIOUS
<1>5. PICK y \in Above(x) : ~IsDirectory(t, y)
  BY <1>4
<1> HIDE DEF T
<1>6. Len(x) > 1 /\ m \in Nat /\ m - 1 \in Nat
  <2> HIDE DEF Odd
  <2> QED BY <1>1, <1>4, <1>5, TopPath
<1>7. IsDirectory(t, Parent(x))
  BY <1>6 DEF IsTree, IsDirectory
<1>8. y \in Above(Parent(x)) /\ Len(Parent(x)) = m - 1
  BY <1>1, <1>4, <1>5, <1>6, <1>7, ParentPath
<1>9. m - 1 \in T
  <2>2. Parent(x) \in DOMAIN t
    BY <1>7 DEF IsDirectory
  <2> QED BY <1>5, <1>6, <1>8, <2>2 DEF T
<1>10. m <= m - 1
  <2> HIDE DEF Odd
  <2> QED BY <1>3, <1>9
<1> QED BY <1>6, <1>10

\* And such a function is a tree.
LEMMA TreeByAbove ==
    ASSUME NEW t, DOMAIN t \subseteq Path, t \in [DOMAIN t -> Entry],
           \A p \in DOMAIN t : \A q \in Above(p) : IsDirectory(t, q)
    PROVE  IsTree(t)
BY ParentPath DEF IsTree, IsDirectory

\* The manifest of a tree is a tree.
LEMMA TreeScan ==
    ASSUME NEW t, IsTree(t)
    PROVE  IsTree(Scan(t))
<1> DEFINE s == Scan(t)
<1>1. /\ DOMAIN t \subseteq Path /\ t \in [DOMAIN t -> Entry]
      /\ DOMAIN s = {p \in DOMAIN t : Head(p) \notin Excluded}
      /\ \A p \in DOMAIN s : s[p] = t[p]
      /\ s = [p \in DOMAIN s |-> s[p]]
  BY DEF Scan, Restrict, IsTree
<1> HIDE DEF s
<1>2. DOMAIN s \subseteq Path /\ s \in [DOMAIN s -> Entry]
  BY <1>1
<1>3. ASSUME NEW p \in DOMAIN s, NEW q \in Above(p) PROVE IsDirectory(s, q)
  <2>1. IsDirectory(t, q)
    BY <1>1, TreeAbove
  <2>2. Head(p) = Head(q)
    BY <1>2, AbovePath, InsideOrder
  <2> QED BY <1>1, <2>1, <2>2 DEF IsDirectory
<1>4. IsTree(s)
  BY <1>2, <1>3, TreeByAbove
<1> QED BY <1>4 DEF s

\* A tree without one of its subtrees is a tree.
LEMMA TreeCut ==
    ASSUME NEW t, IsTree(t), NEW r \in Path
    PROVE  IsTree(Cut(t, r))
<1> DEFINE s == Cut(t, r)
<1>1. /\ DOMAIN t \subseteq Path /\ t \in [DOMAIN t -> Entry]
      /\ DOMAIN s = {p \in DOMAIN t : ~Inside(r, p)}
      /\ \A p \in DOMAIN s : s[p] = t[p]
      /\ s = [p \in DOMAIN s |-> s[p]]
  BY DEF Cut, Restrict, IsTree
<1> HIDE DEF s
<1>2. DOMAIN s \subseteq Path /\ s \in [DOMAIN s -> Entry]
  BY <1>1
<1>3. ASSUME NEW p \in DOMAIN s, NEW q \in Above(p) PROVE IsDirectory(s, q)
  <2>1. IsDirectory(t, q)
    BY <1>1, TreeAbove
  <2>2. q \in Path /\ Inside(q, p)
    BY <1>2, AbovePath
  <2>3. ~Inside(r, q)
    BY <1>1, <1>2, <2>2, InsideOrder
  <2> QED BY <1>1, <2>1, <2>3 DEF IsDirectory
<1>4. IsTree(s)
  BY <1>2, <1>3, TreeByAbove
<1> QED BY <1>4 DEF s

----------------------------------------------------------------------------
(* Operation roots.                                                          *)

\* An entry that is not the same is among the changes, since of a directory
\* only the mode is recorded.
LEMMA HereDiffers ==
    ASSUME NEW b, NEW s, IsTree(b), IsTree(s),
           NEW p \in Path, Here(b, p) # Here(s, p)
    PROVE  p \in Diff(b, s)
<1>1. CASE p \in DOMAIN b /\ p \in DOMAIN s
  <2>1. b[p] \in Entry /\ s[p] \in Entry
    BY <1>1 DEF IsTree
  <2>2. b[p] # s[p]
    BY <1>1 DEF Here
  <2>3. b[p].kind # s[p].kind \/ EntryChanged(b[p], s[p])
    BY <2>1, <2>2 DEF Entry, EntryChanged
  <2> QED BY <1>1, <2>3 DEF Diff
<1>2. CASE ~(p \in DOMAIN b /\ p \in DOMAIN s)
  BY <1>2 DEF Here, Diff
<1> QED BY <1>1, <1>2

\* The topmost changes lie outside each other, and every change is inside one
\* of them: the shallowest change that contains it.
LEMMA TopmostCovers ==
    ASSUME NEW b, NEW s, IsTree(b), IsTree(s),
           IsFiniteSet(DOMAIN b), IsFiniteSet(DOMAIN s)
    PROVE  LET D == Diff(b, s)  R == Topmost(b, s) IN
           /\ D \subseteq Path /\ IsFiniteSet(D)
           /\ R \subseteq D /\ R \subseteq Path /\ IsFiniteSet(R)
           /\ \A p \in D : \A q \in Above(p) :
                  IsDirectory(b, q) \/ IsDirectory(s, q)
           /\ \A p, q \in R : Inside(q, p) => q = p
           /\ \A p \in D : \E q \in R : Inside(q, p)
<1> DEFINE D == Diff(b, s)
           Dir(q) == IsDirectory(b, q) \/ IsDirectory(s, q)
           R == {p \in D : ~\E q \in D : q # p /\ Inside(q, p) /\ Dir(q)}
<1>1. ASSUME NEW p \in D, NEW q \in Above(p) PROVE Dir(q)
  <2>1. p \in DOMAIN b \/ p \in DOMAIN s
    BY DEF Diff
  <2> QED BY <2>1, TreeAbove
<1>2. D \subseteq DOMAIN b \cup DOMAIN s /\ D \subseteq Path /\ IsFiniteSet(D)
  <2>1. D \subseteq DOMAIN b \cup DOMAIN s
    BY DEF Diff
  <2>2. IsFiniteSet(DOMAIN b \cup DOMAIN s)
    BY FS_Union
  <2> HIDE DEF D
  <2> QED BY <2>1, <2>2, FS_Subset DEF IsTree
<1>3. R \subseteq D /\ R \subseteq Path /\ IsFiniteSet(R)
  <2>1. R \subseteq D
    OBVIOUS
  <2> HIDE DEF R, D
  <2> QED BY <1>2, <2>1, FS_Subset
<1>4. ASSUME NEW p \in R, NEW q \in R, Inside(q, p) PROVE q = p
  <2> SUFFICES ASSUME q # p PROVE FALSE
    OBVIOUS
  <2>1. q \in Above(p)
    BY <1>3, <1>4, AbovePath
  <2>2. p \in DOMAIN b \/ p \in DOMAIN s
    BY <1>2
  <2>3. Dir(q)
    BY <2>1, <2>2, TreeAbove
  <2>4. q \in D
    OBVIOUS
  <2> HIDE DEF Dir, D
  <2> QED BY <1>4, <2>3, <2>4
<1>5. ASSUME NEW p \in D PROVE \E q \in R : Inside(q, p)
  <2> DEFINE T == {n \in Nat : \E q \in D : Len(q) = n /\ Inside(q, p)}
  <2>1. p \in Path /\ Len(p) \in T
    <3>1. p \in Path
      BY <1>2
    <3> HIDE DEF D
    <3> QED BY <3>1, PathNames, InsideOrder
  <2>2. PICK m \in T : \A k \in T : m <= k
    <3>1. T # {} /\ T \subseteq Nat
      BY <2>1
    <3> HIDE DEF T
    <3> QED BY <3>1, NatMin
  <2>3. PICK q \in D : Len(q) = m /\ Inside(q, p)
    OBVIOUS
  <2>4. ASSUME NEW u \in D, u # q, Inside(u, q) PROVE FALSE
    <3>1. u \in Path /\ q \in Path
      BY <1>2
    <3>2. Inside(u, p)
      BY <2>1, <2>3, <2>4, <3>1, InsideOrder
    <3>3. Len(u) \in Nat /\ Len(q) \in Nat /\ Len(u) < Len(q)
      BY <2>4, <3>1 DEF Inside, IsPrefix, Path
    <3>4. Len(u) \in T
      <4> HIDE DEF D
      <4> QED BY <3>2, <3>3
    <3>5. Len(q) <= Len(u)
      <4> HIDE DEF T
      <4> QED BY <2>2, <2>3, <3>4
    <3> QED BY <3>3, <3>5
  <2>5. q \in R
    <3> HIDE DEF D, Dir
    <3> QED BY <2>4
  <2> QED BY <2>3, <2>5
<1>6. R = Topmost(b, s)
  BY DEF Topmost
<1> HIDE DEF R
<1> QED BY <1>1, <1>2, <1>3, <1>4, <1>5, <1>6

\* The states of the loop of operation_roots exist.
LEMMA LoopSelects ==
    ASSUME NEW b, NEW s, NEW c, c = InOrder(Diff(b, s)), Len(c) \in Nat
    PROVE  \E chosen :
               /\ OperationRoots(b, s) = chosen[Len(c)].roots
               /\ chosen[0] = [roots |-> <<>>, whole |-> {}]
               /\ \A n \in 1 .. Len(c) :
                      chosen[n] = Select(b, s, chosen[n - 1], c[n])
<1> DEFINE L == Len(c)
           start == [roots |-> <<>>, whole |-> {}]
           Is(f, m) == f = [n \in 0 .. m |-> IF n = 0 THEN start
                                ELSE Select(b, s, f[n - 1], c[n])]
           T == {m \in 0 .. L : ~\E f : Is(f, m)}
<1>0. L \in Nat
  OBVIOUS
<1> HIDE DEF start, L
<1>1. T = {}
  <2> SUFFICES ASSUME T # {} PROVE FALSE
    OBVIOUS
  <2>1. PICK m \in T : \A k \in T : m <= k
    <3>1. T \subseteq Nat
      OBVIOUS
    <3> HIDE DEF T
    <3> QED BY <3>1, NatMin
  <2>2. CASE m = 0
    <3>1. Is([n \in 0 .. 0 |-> start], 0)
      OBVIOUS
    <3> QED BY <2>1, <2>2, <3>1
  <2>3. CASE m # 0
    <3>1. m - 1 \in 0 .. L /\ m \in 0 .. L /\ m - 1 \notin T
      <4>1. m \in 0 .. L
        BY <2>1
      <4> HIDE DEF T
      <4> QED BY <1>0, <2>1, <2>3, <4>1
    <3>2. PICK f : Is(f, m - 1)
      BY <3>1
    <3> DEFINE h == [n \in 0 .. m |-> IF n < m THEN f[n]
                                      ELSE Select(b, s, f[m - 1], c[m])]
    <3>3. \A n \in 0 .. m - 1 : f[n] = IF n = 0 THEN start
                                       ELSE Select(b, s, f[n - 1], c[n])
      BY <3>2
    <3>4. h = [n \in 0 .. m |-> IF n = 0 THEN start
                                ELSE Select(b, s, h[n - 1], c[n])]
      BY <2>3, <3>1, <3>3
    <3> HIDE DEF h
    <3> QED BY <2>1, <3>4
  <2> QED BY <2>2, <2>3
<1>2. PICK g : Is(g, L)
  BY <1>0, <1>1
<1> DEFINE chosen == CHOOSE f : Is(f, L)
<1>3. Is(chosen, L)
  BY <1>2
<1>4. OperationRoots(b, s) = chosen[L].roots
  BY DEF OperationRoots, start, L
<1> HIDE DEF chosen
<1>5. /\ chosen[0] = start
      /\ \A n \in 1 .. L : chosen[n] = Select(b, s, chosen[n - 1], c[n])
  BY <1>0, <1>3
<1> QED BY <1>4, <1>5 DEF start, L

\* The loop selects the topmost changes, in order: the one above a change comes
\* before it and is selected.
LEMMA LoopIsTopmost ==
    ASSUME NEW b, NEW s, IsTree(b), IsTree(s),
           IsFiniteSet(DOMAIN b), IsFiniteSet(DOMAIN s)
    PROVE  OperationRoots(b, s) = InOrder(Topmost(b, s))
<1> DEFINE D == Diff(b, s)
           R == Topmost(b, s)
           Dir(q) == IsDirectory(b, q) \/ IsDirectory(s, q)
           c == InOrder(D)
           L == Len(c)
<1>1. /\ D \subseteq Path /\ IsFiniteSet(D)
      /\ R \subseteq D /\ R \subseteq Path /\ IsFiniteSet(R)
      /\ \A p \in D : \A q \in Above(p) : Dir(q)
      /\ \A p, q \in R : Inside(q, p) => q = p
      /\ \A p \in D : \E q \in R : Inside(q, p)
  BY TopmostCovers
<1>2. \A p \in D : p \notin R <=>
          \E q \in D : q # p /\ Inside(q, p) /\ Dir(q)
  BY DEF Topmost
<1> HIDE DEF D, R, Dir
<1>3. /\ DOMAIN c = 1 .. L /\ L \in Nat /\ c \in Seq(D)
      /\ \A i, j \in 1 .. L : c[i] = c[j] => i = j
      /\ \A p \in D : \E i \in 1 .. L : c[i] = p
  <2>1. c \in Seq(D) /\ DOMAIN c = 1 .. L /\ L \in Nat
    BY <1>1, InOrderEnumerates
  <2> QED BY <1>1, <2>1, InOrderEnumerates
<1>4. \A i, j \in 1 .. L : i < j => Precedes(c[i], c[j])
  <2> SUFFICES ASSUME NEW i \in 1 .. L, NEW j \in 1 .. L, i < j
               PROVE  Precedes(c[i], c[j])
    OBVIOUS
  <2>1. c[i] \in Path /\ c[j] \in Path /\ c[i] # c[j]
    BY <1>1, <1>3
  <2>2. ~Precedes(c[j], c[i])
    <3>1. Precedes(c[j], c[i]) => j < i
      BY <1>1, <1>3, InOrderSorts
    <3> QED BY <1>3, <3>1
  <2> HIDE DEF c
  <2> QED BY <2>1, <2>2, PrecedesOrder
<1>5. PICK chosen :
          /\ OperationRoots(b, s) = chosen[L].roots
          /\ chosen[0] = [roots |-> <<>>, whole |-> {}]
          /\ \A n \in 1 .. L : chosen[n] = Select(b, s, chosen[n - 1], c[n])
  BY <1>3, LoopSelects DEF D
<1> HIDE DEF c, L
<1> DEFINE S(n) == {q \in R : \E i \in 1 .. n : q = c[i]}
           Good(n) == chosen[n] = [roots |-> InOrder(S(n)),
                                   whole |-> {q \in S(n) : Dir(q)}]
           T == {n \in 0 .. L : ~Good(n)}
<1>6. Good(0)
  <2>1. S(0) = {}
    OBVIOUS
  <2>2. InOrder({}) = <<>>
    <3>1. Cardinality({}) = 0
      BY FS_EmptySet
    <3>2. InOrder({}) \in Seq({}) /\ DOMAIN InOrder({}) = 1 .. 0
      BY <3>1, FS_EmptySet, InOrderEnumerates
    <3> HIDE DEF S
    <3> QED BY <3>2
  <2> HIDE DEF S
  <2>3. {q \in S(0) : Dir(q)} = {}
    BY <2>1
  <2> QED BY <1>5, <2>1, <2>2, <2>3
<1>7. ASSUME NEW n \in 0 .. L - 1, Good(n) PROVE Good(n + 1)
  <2> DEFINE p == c[n + 1]
             W == {q \in S(n) : Dir(q)}
  <2>1. /\ n \in Nat /\ n + 1 \in 1 .. L /\ p \in D /\ p \in Path
        /\ chosen[n + 1] = Select(b, s, chosen[n], p)
        /\ S(n + 1) = S(n) \cup {q \in {p} : q \in R}
    <3>1. n \in Nat /\ n + 1 \in 1 .. L /\ (n + 1) - 1 = n
      BY <1>3
    <3>2. \A i : i \in 1 .. n + 1 <=> i \in 1 .. n \/ i = n + 1
      BY <3>1
    <3>3. S(n + 1) = S(n) \cup {q \in {p} : q \in R}
      BY <3>2
    <3>4. p \in D /\ p \in Path
      BY <1>1, <1>3, <3>1
    <3>5. chosen[n + 1] = Select(b, s, chosen[n], p)
      BY <1>5, <3>1
    <3> QED BY <3>1, <3>3, <3>4, <3>5
  <2>2. \A q \in S(n) : q \in D /\ Precedes(q, p)
    <3> SUFFICES ASSUME NEW q \in S(n) PROVE q \in D /\ Precedes(q, p)
      OBVIOUS
    <3>1. PICK i \in 1 .. n : q = c[i]
      OBVIOUS
    <3>2. i \in 1 .. L /\ i < n + 1
      BY <1>3, <2>1
    <3> QED BY <1>1, <1>4, <2>1, <3>1, <3>2
  <2>3. (\E q \in W : Inside(q, p)) <=> p \notin R
    <3>1. ASSUME NEW q \in W, Inside(q, p) PROVE p \notin R
      <4>1. q # p
        BY <2>1, <2>2, PrecedesOrder
      <4>2. q \in D /\ Dir(q)
        BY <2>2
      <4> HIDE DEF p
      <4> QED BY <1>2, <2>1, <3>1, <4>1, <4>2
    <3>2. ASSUME p \notin R PROVE \E q \in W : Inside(q, p)
      <4>1. PICK q \in R : Inside(q, p)
        BY <1>1, <2>1
      <4>2. q \in D /\ q \in Path /\ q # p
        BY <1>1, <3>2
      <4>3. q \in Above(p)
        BY <2>1, <4>1, <4>2, AbovePath
      <4>4. Dir(q)
        BY <1>1, <2>1, <4>3
      <4>5. PICK j \in 1 .. L : c[j] = q
        BY <1>3, <4>2
      <4>6. j \in 1 .. n
        <5> SUFFICES ASSUME n + 1 < j PROVE FALSE
          <6>1. j # n + 1
            BY <4>2, <4>5
          <6> QED BY <1>3, <2>1, <6>1
        <5>1. Precedes(p, q)
          BY <1>4, <2>1, <4>5
        <5>2. Len(q) < Len(p)
          <6> HIDE DEF p
          <6> QED BY <2>1, <4>1, <4>2 DEF Inside, IsPrefix, Path
        <5>3. Len(q) \in Nat /\ Len(p) \in Nat
          BY <2>1, <4>2, PathNames
        <5> HIDE DEF p
        <5> QED BY <5>1, <5>2, <5>3 DEF Precedes
      <4>7. q \in S(n)
        BY <4>5, <4>6
      <4> HIDE DEF p, S
      <4> QED BY <4>1, <4>4, <4>7
    <3> QED BY <3>1, <3>2
  <2>4. S(n) \subseteq Path /\ IsFiniteSet(S(n))
    <3>1. S(n) \in SUBSET R
      OBVIOUS
    <3> HIDE DEF S
    <3> QED BY <1>1, <3>1, FS_Subset
  <2>5. chosen[n].roots = InOrder(S(n)) /\ chosen[n].whole = W
    BY <1>7
  <2> HIDE DEF p, S
  <2>6. CASE p \notin R
    <3>1. S(n + 1) = S(n)
      BY <2>1, <2>6
    <3>2. chosen[n + 1] = chosen[n]
      BY <2>1, <2>3, <2>5, <2>6 DEF Select
    <3> QED BY <1>7, <3>1, <3>2
  <2>7. CASE p \in R
    <3>1. S(n + 1) = S(n) \cup {p}
      BY <2>1, <2>7
    <3>2. chosen[n + 1] = [roots |-> Append(InOrder(S(n)), p),
                           whole |-> W \cup {q \in {p} : Dir(q)}]
      BY <2>1, <2>3, <2>5, <2>7 DEF Select, Dir
    <3>3. InOrder(S(n + 1)) = Append(InOrder(S(n)), p)
      BY <2>1, <2>2, <2>4, <3>1, InOrderAppend
    <3>4. {q \in S(n + 1) : Dir(q)} = W \cup {q \in {p} : Dir(q)}
      BY <3>1
    <3> QED BY <3>2, <3>3, <3>4
  <2> QED BY <2>6, <2>7
<1>8. T = {}
  <2> SUFFICES ASSUME T # {} PROVE FALSE
    OBVIOUS
  <2> HIDE DEF Good
  <2>1. PICK m \in T : \A k \in T : m <= k
    <3>1. T \subseteq Nat
      OBVIOUS
    <3> HIDE DEF T
    <3> QED BY <3>1, NatMin
  <2>2. m # 0 /\ m \in 0 .. L /\ L \in Nat /\ ~Good(m)
    BY <1>3, <1>6, <2>1
  <2>3. m - 1 \in 0 .. L - 1 /\ m - 1 \notin T /\ (m - 1) + 1 = m
    BY <2>1, <2>2
  <2>4. Good(m - 1)
    BY <2>2, <2>3
  <2> QED BY <1>7, <2>2, <2>3, <2>4
<1>9. Good(L)
  <2> HIDE DEF Good
  <2> QED BY <1>3, <1>8
<1>10. S(L) = R
  BY <1>1, <1>3
<1> HIDE DEF S
<1>11. chosen[L].roots = InOrder(R)
  BY <1>9, <1>10
<1> QED BY <1>5, <1>11 DEF R

\* The operation roots are changes, none inside another, and wherever two
\* trees differ is inside one of them.
LEMMA RootsOfTrees ==
    ASSUME NEW b, NEW s, IsTree(b), IsTree(s),
           IsFiniteSet(DOMAIN b), IsFiniteSet(DOMAIN s)
    PROVE  LET r == OperationRoots(b, s) IN
           /\ r \in Seq(Diff(b, s))
           /\ \A i, j \in DOMAIN r : Inside(r[i], r[j]) => i = j
           /\ \A p \in Path : Here(b, p) # Here(s, p) =>
                  \E i \in DOMAIN r : Inside(r[i], p)
<1> DEFINE D == Diff(b, s)
           R == Topmost(b, s)
           r == OperationRoots(b, s)
<1>1. r = InOrder(R)
  BY LoopIsTopmost
<1>2. /\ R \subseteq D /\ R \subseteq Path /\ IsFiniteSet(R)
      /\ \A p, q \in R : Inside(q, p) => q = p
      /\ \A p \in D : \E q \in R : Inside(q, p)
  BY TopmostCovers
<1> HIDE DEF R, D
<1>3. /\ r \in Seq(R)
      /\ \A i, j \in DOMAIN r : r[i] = r[j] => i = j
      /\ \A p \in R : \E i \in DOMAIN r : r[i] = p
  BY <1>1, <1>2, InOrderEnumerates
<1> HIDE DEF r
<1>4. r \in Seq(D) /\ \A i \in DOMAIN r : r[i] \in R
  BY <1>2, <1>3
<1>5. ASSUME NEW p \in Path, Here(b, p) # Here(s, p)
      PROVE  \E i \in DOMAIN r : Inside(r[i], p)
  <2>1. p \in D
    BY <1>5, HereDiffers DEF D
  <2> QED BY <1>2, <1>3, <2>1
<1> QED BY <1>2, <1>3, <1>4, <1>5 DEF r, D

----------------------------------------------------------------------------
(* Renames.                                                                  *)

\* The path below `from` that rename puts at q below `to`.
Shift(from, to, q) == from \o SubSeq(q, Len(to) + 1, Len(q))

\* The paths a subtree of u comes to when it goes from `from` to `to`.
Landing(u, from, to) ==
    {q \in Path : Inside(to, q) /\ Shift(from, to, q) \in DOMAIN u}

\* A shifted path, name by name.
LEMMA ShiftIndex ==
    ASSUME NEW from \in Path, NEW to \in Path, NEW q \in Path, Inside(to, q)
    PROVE  /\ Len(Shift(from, to, q)) = Len(from) + Len(q) - Len(to)
           /\ \A i \in 1 .. Len(from) + Len(q) - Len(to) :
                  Shift(from, to, q)[i] =
                      IF i <= Len(from) THEN from[i]
                      ELSE q[i - Len(from) + Len(to)]
BY DEF Shift, Inside, IsPrefix, Path

\* Shifting keeps what is above what, and can be undone.
LEMMA ShiftBelow ==
    ASSUME NEW from \in Path, NEW to \in Path, NEW q \in Path, Inside(to, q)
    PROVE  /\ Shift(from, to, q) \in Path /\ Inside(from, Shift(from, to, q))
           /\ Shift(to, from, Shift(from, to, q)) = q
           /\ Shift(from, to, q) = from <=> q = to
           /\ \A y \in Above(q) : Inside(to, y) =>
                  Shift(from, to, y) \in Above(Shift(from, to, q))
<1>1. /\ Shift(from, to, q) \in Path /\ Inside(from, Shift(from, to, q))
      /\ Shift(to, from, Shift(from, to, q)) = q
  BY Graft DEF Shift
<1>2. Shift(from, to, q) = from <=> q = to
  BY DEF Shift, Inside, IsPrefix, Path
<1>3. ASSUME NEW y \in Above(q), Inside(to, y)
      PROVE  Shift(from, to, y) \in Above(Shift(from, to, q))
  <2>1. y \in Path /\ Inside(y, q) /\ y # q
    BY AbovePath
  <2>2. Shift(from, to, y) \in Path
    BY <1>3, <2>1, Graft DEF Shift
  <2>3. Shift(from, to, y) # Shift(from, to, q)
    <3>1. Shift(to, from, Shift(from, to, y)) = y
      BY <1>3, <2>1, Graft DEF Shift
    <3> QED BY <1>1, <2>1, <3>1
  <2>4. Inside(Shift(from, to, y), Shift(from, to, q))
    <3> DEFINE a == Shift(from, to, y)
               b == Shift(from, to, q)
               n == Len(from) + Len(y) - Len(to)
               m == Len(from) + Len(q) - Len(to)
    <3>1. /\ Len(to) <= Len(y) /\ Len(y) <= Len(q)
          /\ \A i \in 1 .. Len(y) : y[i] = q[i]
      BY <1>3, <2>1, InsideIndex
    <3>2. /\ Len(a) = n /\ Len(b) = m
          /\ \A i \in 1 .. n : a[i] = IF i <= Len(from) THEN from[i]
                                     ELSE y[i - Len(from) + Len(to)]
          /\ \A i \in 1 .. m : b[i] = IF i <= Len(from) THEN from[i]
                                     ELSE q[i - Len(from) + Len(to)]
      BY <1>3, <2>1, ShiftIndex
    <3>3. Len(from) \in Nat /\ Len(to) \in Nat /\ Len(y) \in Nat
             /\ Len(q) \in Nat
      BY <2>1, PathNames
    <3> HIDE DEF a, b
    <3>4. \A i \in 1 .. n : a[i] = b[i]
      <4> SUFFICES ASSUME NEW i \in 1 .. n PROVE a[i] = b[i]
        OBVIOUS
      <4>1. i \in 1 .. m
        BY <3>1, <3>3
      <4>2. CASE i <= Len(from)
        BY <3>2, <4>1, <4>2
      <4>3. CASE ~(i <= Len(from))
        <5>1. i - Len(from) + Len(to) \in 1 .. Len(y)
          BY <3>3, <4>3
        <5> QED BY <3>1, <3>2, <4>1, <4>3, <5>1
      <4> QED BY <4>2, <4>3
    <3>5. Len(a) <= Len(b)
      BY <3>1, <3>2, <3>3
    <3> QED BY <1>1, <2>2, <3>2, <3>4, <3>5, InsideIndex DEF a, b
  <2> QED BY <1>1, <2>2, <2>3, <2>4, AbovePath
<1> QED BY <1>1, <1>2, <1>3

\* Place, by shifting.
Placed(t, to, u, from) ==
    [q \in Landing(u, from, to) \cup DOMAIN t \cup Above(to) |->
        IF q \in Landing(u, from, to) THEN u[Shift(from, to, q)]
        ELSE IF q \in DOMAIN t THEN t[q] ELSE NewDirectory]

\* Place is Placed.
LEMMA PlaceIs ==
    ASSUME NEW t, NEW u, NEW to \in Path, NEW from \in Path,
           DOMAIN t \subseteq Path, DOMAIN u \subseteq Path
    PROVE  Place(t, to, Subtree(u, from), from) = Placed(t, to, u, from)
<1> DEFINE s == Subtree(u, from)
           P == Place(t, to, s, from)
           there == Landing(u, from, to)
           landed == {Shift(to, from, p) : p \in DOMAIN s}
<1>1. /\ DOMAIN s = {p \in DOMAIN u : Inside(from, p)}
      /\ \A p \in DOMAIN s : s[p] = u[p]
  BY DEF Subtree, Restrict
<1>2. landed = there
  <2>1. ASSUME NEW p \in DOMAIN s PROVE Shift(to, from, p) \in there
    BY <1>1, ShiftBelow DEF Landing
  <2>2. ASSUME NEW q \in there PROVE \E p \in DOMAIN s : q = Shift(to, from, p)
    <3>1. /\ Shift(from, to, q) \in DOMAIN s
          /\ Shift(to, from, Shift(from, to, q)) = q
      BY <1>1, ShiftBelow DEF Landing
    <3> QED BY <3>1
  <2> QED BY <2>1, <2>2
<1>3. P = [q \in landed \cup DOMAIN t \cup Above(to) |->
               IF q \in landed THEN s[Shift(from, to, q)]
               ELSE IF q \in DOMAIN t THEN t[q] ELSE NewDirectory]
  BY DEF Place, Shift
<1>4. \A q \in there : s[Shift(from, to, q)] = u[Shift(from, to, q)]
  BY <1>1, ShiftBelow DEF Landing
<1> HIDE DEF P, landed, there, s
<1>5. P = [q \in there \cup DOMAIN t \cup Above(to) |->
               IF q \in there THEN u[Shift(from, to, q)]
               ELSE IF q \in DOMAIN t THEN t[q] ELSE NewDirectory]
  BY <1>2, <1>3, <1>4
<1> QED BY <1>5 DEF P, there, s, Placed

\* Entry by entry, what a rename makes of the destination tree.
LEMMA PlaceHere ==
    ASSUME NEW t, NEW u, NEW to \in Path, NEW from \in Path,
           DOMAIN t \subseteq Path, DOMAIN u \subseteq Path, NEW q \in Path
    PROVE  LET P == Place(t, to, Subtree(u, from), from) IN
           /\ Inside(to, q) => Here(P, q) =
                  IF Shift(from, to, q) \in DOMAIN u
                  THEN {u[Shift(from, to, q)]} ELSE Here(t, q)
           /\ ~Inside(to, q) => Here(P, q) =
                  IF q \in Above(to) /\ q \notin DOMAIN t
                  THEN {NewDirectory} ELSE Here(t, q)
<1> DEFINE P == Place(t, to, Subtree(u, from), from)
<1>1. q \in Above(to) => ~Inside(to, q)
  BY AbovePath, InsideOrder
<1>2. P = Placed(t, to, u, from)
  BY PlaceIs
<1>5. q \in Landing(u, from, to) <=>
          Inside(to, q) /\ Shift(from, to, q) \in DOMAIN u
  BY DEF Landing
<1> HIDE DEF P
<1>6. /\ q \in DOMAIN P <=> \/ Inside(to, q) /\ Shift(from, to, q) \in DOMAIN u
                            \/ q \in DOMAIN t \/ q \in Above(to)
      /\ q \in DOMAIN P =>
             P[q] = IF Inside(to, q) /\ Shift(from, to, q) \in DOMAIN u
                    THEN u[Shift(from, to, q)]
                    ELSE IF q \in DOMAIN t THEN t[q] ELSE NewDirectory
  BY <1>2, <1>5 DEF Placed
<1>3. ASSUME Inside(to, q)
      PROVE  Here(P, q) = IF Shift(from, to, q) \in DOMAIN u
                          THEN {u[Shift(from, to, q)]} ELSE Here(t, q)
  BY <1>1, <1>6, <1>3 DEF Here
<1>4. ASSUME ~Inside(to, q)
      PROVE  Here(P, q) = IF q \in Above(to) /\ q \notin DOMAIN t
                          THEN {NewDirectory} ELSE Here(t, q)
  BY <1>6, <1>4 DEF Here
<1> QED BY <1>3, <1>4 DEF P

\* A tree put where it fits into a tree makes a tree.
LEMMA PlaceTree ==
    ASSUME NEW t, NEW u, NEW to \in Path, NEW from \in Path, IsTree(t),
           DOMAIN u \subseteq Path, u \in [DOMAIN u -> Entry],
           \A p \in DOMAIN u : \A y \in Above(p) :
               Inside(from, y) => IsDirectory(u, y),
           Fits(t, to), \A q \in DOMAIN t : Inside(to, q) => q = to
    PROVE  IsTree(Place(t, to, Subtree(u, from), from))
<1> DEFINE P == Place(t, to, Subtree(u, from), from)
           there == Landing(u, from, to)
<1>1. DOMAIN t \subseteq Path /\ t \in [DOMAIN t -> Entry]
  BY DEF IsTree
<1>2. P = [q \in there \cup DOMAIN t \cup Above(to) |->
               IF q \in there THEN u[Shift(from, to, q)]
               ELSE IF q \in DOMAIN t THEN t[q] ELSE NewDirectory]
  <2>1. P = Placed(t, to, u, from)
    BY <1>1, PlaceIs
  <2> HIDE DEF P
  <2> QED BY <2>1 DEF Placed
<1>3. \A q \in there : /\ q \in Path /\ Inside(to, q)
                       /\ Shift(from, to, q) \in DOMAIN u
  BY DEF Landing
<1>4. ASSUME NEW q \in Path, Inside(to, q), Shift(from, to, q) \in DOMAIN u
      PROVE  q \in there
  BY <1>4 DEF Landing
<1> HIDE DEF P, there
<1>5. DOMAIN P \subseteq Path
  BY <1>1, <1>2, <1>3, AbovePath
<1>6. P \in [DOMAIN P -> Entry]
  <2>1. ASSUME NEW q \in DOMAIN P PROVE P[q] \in Entry
    BY <1>1, <1>2, <1>3, TreesAssumption
  <2> QED BY <1>2, <2>1
<1>7. ASSUME NEW y \in Above(to) PROVE IsDirectory(P, y)
  <2>1. ~(y \in there)
    BY <1>3, AbovePath, InsideOrder
  <2>2. y \in DOMAIN t => t[y].kind = "directory"
    BY DEF Fits
  <2> QED BY <1>2, <2>1, <2>2, TreesAssumption DEF IsDirectory
<1>8. ASSUME NEW q \in DOMAIN P, NEW y \in Above(q) PROVE IsDirectory(P, y)
  <2>1. y \in Path /\ q \in Path /\ Inside(y, q) /\ y # q
    BY <1>5, AbovePath
  <2>2. CASE Inside(to, y)
    <3>1. Inside(to, q) /\ q # to
      BY <2>1, <2>2, InsideOrder
    <3>2. q \in there
      <4>1. ~(q \in DOMAIN t) /\ ~(q \in Above(to))
        BY <2>1, <3>1, AbovePath, InsideOrder
      <4> QED BY <1>2, <4>1
    <3>3. IsDirectory(u, Shift(from, to, y))
      <4>1. /\ Shift(from, to, y) \in Above(Shift(from, to, q))
            /\ Inside(from, Shift(from, to, y))
        BY <2>1, <2>2, <3>1, ShiftBelow
      <4> QED BY <1>3, <3>2, <4>1
    <3>4. y \in there
      BY <1>4, <2>1, <2>2, <3>3 DEF IsDirectory
    <3> QED BY <1>2, <3>3, <3>4 DEF IsDirectory
  <2>3. CASE ~Inside(to, y)
    <3>1. CASE Inside(to, q)
      <4>1. y \in Above(to)
        BY <2>1, <2>3, <3>1, AbovePath, InsideOrder
      <4> QED BY <1>7, <4>1
    <3>2. CASE ~Inside(to, q) /\ q \in DOMAIN t
      <4>1. IsDirectory(t, y)
        BY <3>2, TreeAbove
      <4>2. ~(y \in there)
        BY <1>3, <2>3
      <4> QED BY <1>2, <4>1, <4>2 DEF IsDirectory
    <3>3. CASE q \in Above(to)
      <4>1. q \in Path /\ Inside(q, to) /\ q # to
        BY <3>3, AbovePath
      <4>2. y \in Above(to)
        BY <2>1, <4>1, AbovePath, InsideOrder
      <4> QED BY <1>7, <4>2
    <3>4. Inside(to, q) \/ q \in DOMAIN t \/ q \in Above(to)
      BY <1>2, <1>3
    <3> QED BY <3>1, <3>2, <3>3, <3>4
  <2> QED BY <2>2, <2>3
<1>9. IsTree(P)
  BY <1>5, <1>6, <1>8, TreeByAbove
<1> QED BY <1>9 DEF P

----------------------------------------------------------------------------
(* The inductive invariant.                                                  *)

\* The planned manifest; the paths a root covers, and those of no root.
Staged == Scan(worktree)
Covers(i, p) == Inside(roots[i], p)
Free(p) == \A i \in DOMAIN roots : ~Covers(i, p)

\* Where a transaction stands.
Begun == {"begin", "refused"}
Unplanned == {"begin", "refused", "open", "worked"}
Forward == {"planned", "move", "install", "verify", "committed"}
Backward == {"undo", "undo_failed", "restore"}
Returned == {"rolled_back", "rollback_failed", "restored"}
\* The directory of the quarantine that installed entries are set aside in.
Side == IF pc \in {"restore", "restored", "restore_failed"}
        THEN RestoreCurrent ELSE FailedNew

\* What was recorded, and what follows from it.
PlanInv ==
    /\ pc \in Label /\ faulted \in BOOLEAN
    /\ origin \in Workspaces
    /\ IsTree(worktree) /\ IsFiniteSet(DOMAIN worktree)
    /\ IF pc \in Begun THEN base = NoTree ELSE base = Scan(origin)
    /\ IF pc \in Unplanned
       THEN /\ decision = "none" /\ roots = <<>> /\ live = origin
            /\ quarantine = NoTree
       ELSE /\ decision = Evaluate(base, Staged)
            /\ roots = OperationRoots(base, Staged)
    /\ pc \notin Unplanned \cup {"planned"} => decision # "deny"

\* An operation that is complete, and one that has not begun.
Done(i) ==
    /\ Existed(roots[i]) <=> i \in moved
    /\ Remains(roots[i]) <=> i \in installed
Untouched(i) == i \notin moved /\ i \notin installed

\* The flags say which operations are complete: all before the one the loop
\* is at, none behind it.
FlagsInv ==
    /\ moved \subseteq DOMAIN roots /\ installed \subseteq DOMAIN roots
    /\ \A i \in DOMAIN roots :
           /\ i \in moved => Existed(roots[i])
           /\ i \in installed => Remains(roots[i])
           /\ i \in installed /\ Existed(roots[i]) => i \in moved
    /\ pc \in Unplanned \cup {"planned"} =>
           at = 1 /\ moved = {} /\ installed = {}
    /\ pc \in {"move", "install"} \cup Backward => at \in DOMAIN roots
    /\ pc \in {"move", "install"} =>
           \A i \in DOMAIN roots : /\ i < at => Done(i)
                                   /\ i > at => Untouched(i)
    /\ pc = "move" => Untouched(at)
    /\ pc = "install" =>
           at \notin installed /\ (Existed(roots[at]) <=> at \in moved)
    /\ pc \in {"verify", "committed"} => \A i \in DOMAIN roots : Done(i)
    /\ pc = "committed" => at = Len(roots) /\ Scan(live) = Staged
    /\ at \in (0 .. Len(roots)) \cup {1}

\* The operations that still count as applied, and those taken back.
Pending(i) == pc \in Forward \/ (pc \in Backward /\ i <= at)
Back(i) == pc \in Returned \/ (pc \in Backward /\ i > at)

\* What the workspace holds inside root i, by the flags.
RootInv(i) ==
    \A p \in Path : Covers(i, p) =>
        /\ Pending(i) =>
               Here(live, p) = IF i \in installed THEN Here(Staged, p)
                               ELSE IF i \in moved THEN {}
                               ELSE Here(origin, p)
        /\ Back(i) /\ ~Collision(Side) => Here(live, p) = Here(origin, p)

\* The workspace is the original outside the roots, and inside each of them
\* what its flags say.
LiveInv ==
    /\ IsTree(live)
    /\ \A p \in Path : Free(p) => Here(live, p) = Here(origin, p)
    /\ \A i \in DOMAIN roots : RootInv(i)

\* The payload of a root is there until it is installed.
ApplyInv ==
    pc \in {"move", "install"} =>
        /\ DOMAIN apply \subseteq Path /\ apply \in [DOMAIN apply -> Entry]
        /\ \A i \in DOMAIN roots \ installed : \A p \in Path :
               Covers(i, p) => Here(apply, p) = Here(Staged, p)

\* A backup is whole until it is returned.
Backups ==
    \A i \in moved : Pending(i) => \A p \in Path :
        Covers(i, p) => Here(quarantine, p) = Here(origin, p)
\* Directories made on the way to a backup or to an entry set aside.
Way(p) == \E i \in DOMAIN roots : p \in Above(roots[i])
Made(side, q) == q = <<side>> \/ \E p \in Path : Way(p) /\ q = <<side>> \o p
Aside(q) ==
    \/ Made(Side, q) /\ IsDirectory(quarantine, q)
    \/ \E i \in DOMAIN roots : Back(i) /\ Inside(<<Side>> \o roots[i], q)

\* The quarantine holds backups, directories above them and, while operations
\* are taken back, what is set aside: nothing is in the way of anything.
QuarantineInv ==
    /\ IsTree(quarantine)
    /\ pc \in Forward \/ (pc \in Backward /\ ~Collision(Side)) =>
           /\ Backups
           /\ \A q \in DOMAIN quarantine :
                  \/ \E i \in moved : Pending(i) /\ Covers(i, q)
                  \/ Way(q) /\ IsDirectory(quarantine, q)
                  \/ pc \in Backward /\ Aside(q)

\* Only a root of the name of the directory set aside in makes a step fail.
FailureInv ==
    /\ pc \in {"undo_failed", "rollback_failed", "restore_failed"} =>
           Collision(Side)
    /\ pc = "restored" => live = origin

\* The inductive invariant.
IInv ==
    /\ PlanInv /\ FlagsInv /\ LiveInv
    /\ ApplyInv /\ QuarantineInv /\ FailureInv

\* What the plan knows of its roots.
Shape ==
    /\ IsTree(origin) /\ IsTree(Staged)
    /\ roots \in Seq(Path)
    /\ \A i \in DOMAIN roots :
           /\ Existed(roots[i]) \/ Remains(roots[i])
           /\ Head(roots[i]) \notin Excluded
           /\ \A q \in Above(roots[i]) :
                  q \in Path /\ Free(q) /\ IsDirectory(origin, q)
    /\ \A p \in Path : \A i, j \in DOMAIN roots :
           Covers(i, p) /\ Covers(j, p) => i = j
    /\ \A p \in Path : Free(p) => Here(base, p) = Here(Staged, p)
    /\ \A p \in Path :
           Here(base, p) = IF Head(p) \in Excluded THEN {} ELSE Here(origin, p)
    /\ \A i \in DOMAIN roots : \A p \in Path : Covers(i, p) =>
           /\ ~Existed(roots[i]) => Here(origin, p) = {}
           /\ ~Remains(roots[i]) => Here(Staged, p) = {}

----------------------------------------------------------------------------
(* The plan.                                                                 *)

\* The trees of the constants.
LEMMA TreesFinite ==
    ASSUME NEW t \in Workspaces \cup Results
    PROVE  IsTree(t) /\ IsFiniteSet(DOMAIN t)
BY TreesAssumption

\* A manifest is finite.
LEMMA ScanFinite ==
    ASSUME NEW t, IsFiniteSet(DOMAIN t)
    PROVE  IsFiniteSet(DOMAIN Scan(t))
<1>1. DOMAIN Scan(t) \in SUBSET DOMAIN t
  BY DEF Scan, Restrict
<1> QED BY <1>1, FS_Subset

\* The shape follows from how the roots are computed.
LEMMA PlanShape == PlanInv /\ pc \notin Unplanned => Shape
<1> SUFFICES ASSUME PlanInv, pc \notin Unplanned PROVE Shape
  OBVIOUS
<1>1. /\ IsTree(origin) /\ IsFiniteSet(DOMAIN origin)
      /\ IsTree(worktree) /\ IsFiniteSet(DOMAIN worktree)
      /\ base = Scan(origin) /\ roots = OperationRoots(base, Staged)
  BY TreesFinite DEF PlanInv, Unplanned, Begun
<1>2. /\ IsTree(base) /\ IsFiniteSet(DOMAIN base)
      /\ IsTree(Staged) /\ IsFiniteSet(DOMAIN Staged)
  BY <1>1, TreeScan, ScanFinite DEF Staged
<1>3. /\ roots \in Seq(Diff(base, Staged))
      /\ \A i, j \in DOMAIN roots : Inside(roots[i], roots[j]) => i = j
      /\ \A p \in Path : Here(base, p) # Here(Staged, p) =>
             \E i \in DOMAIN roots : Inside(roots[i], p)
  BY <1>1, <1>2, RootsOfTrees
<1>4. \A p \in Path : Free(p) => Here(base, p) = Here(Staged, p)
  BY <1>3 DEF Free, Covers
<1>5. \A p : Here(base, p) =
                 IF Head(p) \in Excluded THEN {} ELSE Here(origin, p)
  BY <1>1, HereOf
<1>6. \A p : Head(p) \in Excluded =>
                 ~(p \in DOMAIN base) /\ ~(p \in DOMAIN Staged)
  BY <1>1 DEF Scan, Restrict, Staged
<1>7. /\ Diff(base, Staged) \subseteq DOMAIN base \cup DOMAIN Staged
      /\ Diff(base, Staged) \subseteq Path
  BY <1>2 DEF Diff, IsTree
<1>8. roots \in Seq(Path)
  BY <1>3, <1>7
<1>9. ASSUME NEW i \in DOMAIN roots
      PROVE  /\ roots[i] \in Path
             /\ Existed(roots[i]) \/ Remains(roots[i])
             /\ Head(roots[i]) \notin Excluded
  <2>1. roots[i] \in Diff(base, Staged)
    BY <1>3
  <2>2. roots[i] \in Path /\ (Existed(roots[i]) \/ Remains(roots[i]))
    BY <1>7, <2>1 DEF Existed, Remains, Staged
  <2> QED BY <1>6, <2>2 DEF Existed, Remains, Staged
<1>10. ASSUME NEW p \in Path, NEW i \in DOMAIN roots, NEW j \in DOMAIN roots,
              Covers(i, p), Covers(j, p)
       PROVE  i = j
  BY <1>3, <1>9, <1>10, InsideOrder DEF Covers
<1>11. ASSUME NEW i \in DOMAIN roots, NEW q \in Above(roots[i])
       PROVE  q \in Path /\ Free(q) /\ IsDirectory(origin, q)
  <2>1. q \in Path /\ Inside(q, roots[i]) /\ q # roots[i]
    BY <1>9, AbovePath
  <2>2. Free(q)
    <3> SUFFICES ASSUME NEW j \in DOMAIN roots, Covers(j, q) PROVE FALSE
      BY DEF Free
    <3>1. i = j
      BY <1>3, <1>9, <2>1, InsideOrder DEF Covers
    <3> QED BY <1>9, <2>1, <3>1, InsideOrder DEF Covers
  <2>3. IsDirectory(base, q) \/ IsDirectory(Staged, q)
    BY <1>2, <1>9, TreeAbove DEF Existed, Remains, Staged
  <2>4. Here(base, q) = Here(Staged, q)
    BY <1>4, <2>1, <2>2
  <2>5. IsDirectory(base, q)
    BY <2>3, <2>4 DEF IsDirectory, Here
  <2>6. IsDirectory(origin, q)
    BY <1>1, <2>5 DEF IsDirectory, Scan, Restrict
  <2> QED BY <2>1, <2>2, <2>6
<1>12. ASSUME NEW t, IsTree(t), NEW i \in DOMAIN roots,
              ~(roots[i] \in DOMAIN t), NEW p \in Path, Covers(i, p)
       PROVE  Here(t, p) = {}
  <2> SUFFICES ASSUME p \in DOMAIN t PROVE FALSE
    BY DEF Here
  <2>1. roots[i] \in Above(p)
    BY <1>9, <1>12, AbovePath DEF Covers
  <2>2. roots[i] \in DOMAIN t
    BY <1>12, <2>1, TreeAbove DEF IsDirectory
  <2> QED BY <1>12, <2>2
<1>13. ASSUME NEW i \in DOMAIN roots, NEW p \in Path, Covers(i, p)
       PROVE  /\ ~Existed(roots[i]) => Here(origin, p) = {}
              /\ ~Remains(roots[i]) => Here(Staged, p) = {}
  <2>1. ~Existed(roots[i]) => Here(base, p) = {}
    BY <1>2, <1>12, <1>13 DEF Existed
  <2>2. ~Remains(roots[i]) => Here(Staged, p) = {}
    BY <1>2, <1>12, <1>13 DEF Remains, Staged
  <2>3. Head(p) \notin Excluded
    <3>1. Head(p) = Head(roots[i])
      BY <1>9, <1>13, InsideOrder DEF Covers
    <3> QED BY <1>9, <3>1
  <2> QED BY <1>5, <2>1, <2>2, <2>3
<1> QED
  BY <1>1, <1>2, <1>4, <1>5, <1>8, <1>9, <1>10, <1>11, <1>13 DEF Shape

----------------------------------------------------------------------------
(* Begin, plan and commit.                                                   *)

\* The empty tree.
LEMMA EmptyTree == IsTree(NoTree) /\ IsFiniteSet(DOMAIN NoTree)
<1>1. DOMAIN NoTree = {} /\ NoTree \in [DOMAIN NoTree -> Entry]
  BY DEF NoTree
<1> QED BY <1>1, FS_EmptySet DEF IsTree

\* The copy of a tree is a tree.
LEMMA CopyFinite ==
    ASSUME NEW t, IsTree(t), IsFiniteSet(DOMAIN t)
    PROVE  IsTree(Copy(t)) /\ IsFiniteSet(DOMAIN Copy(t))
<1> DEFINE s == Copy(t)
           Left(p) == \A i \in DOMAIN p : p[i] \notin Excluded
<1>1. /\ DOMAIN t \subseteq Path /\ t \in [DOMAIN t -> Entry]
      /\ DOMAIN s = {p \in DOMAIN t : Left(p)}
      /\ \A p \in DOMAIN s : s[p] = t[p]
      /\ s = [p \in DOMAIN s |-> s[p]]
  BY DEF Copy, Restrict, IsTree
<1>2. \A p \in DOMAIN s : Left(p)
  BY <1>1
<1> HIDE DEF s
<1>3. DOMAIN s \subseteq Path /\ s \in [DOMAIN s -> Entry]
  BY <1>1
<1>4. ASSUME NEW p \in DOMAIN s, NEW q \in Above(p) PROVE IsDirectory(s, q)
  <2>1. IsDirectory(t, q)
    BY <1>1, TreeAbove
  <2>2. Left(q)
    <3>1. p \in Path /\ q \in Path /\ Inside(q, p)
      BY <1>3, AbovePath
    <3>2. /\ DOMAIN p = 1 .. Len(p) /\ DOMAIN q = 1 .. Len(q)
          /\ Len(p) \in Nat /\ Len(q) \in Nat
      BY <3>1 DEF Path
    <3>3. Len(q) <= Len(p) /\ \A i \in 1 .. Len(q) : q[i] = p[i]
      BY <3>1, InsideIndex
    <3> QED BY <1>2, <3>2, <3>3
  <2> QED BY <1>1, <2>1, <2>2 DEF IsDirectory
<1>5. IsTree(s)
  BY <1>3, <1>4, TreeByAbove
<1>6. DOMAIN s \in SUBSET DOMAIN t
  BY <1>1
<1> QED BY <1>5, <1>6, FS_Subset DEF s

\* The invariant holds initially.
LEMMA InitInv == Init => IInv
<1> SUFFICES ASSUME Init PROVE IInv
  OBVIOUS
<1> USE DEF Init
<1>1. IsTree(live) /\ roots = <<>> /\ pc = "begin"
  BY TreesFinite
<1>2. PlanInv
  BY EmptyTree DEF PlanInv, Label, Begun, Unplanned
<1>3. FlagsInv
  BY DEF FlagsInv, Unplanned, Backward
<1>4. LiveInv
  BY <1>1 DEF LiveInv
<1>5. ApplyInv /\ QuarantineInv /\ FailureInv
  BY EmptyTree DEF ApplyInv, QuarantineInv, FailureInv, Forward, Backward
<1> QED BY <1>2, <1>3, <1>4, <1>5 DEF IInv

\* Before the plan the workspace is as it was, and nothing has been moved.
LEMMA EarlyStep ==
    ASSUME IInv, Begin \/ Work
    PROVE  IInv'
<1> USE DEF IInv
<1>1. /\ pc \in Unplanned /\ pc' \in Unplanned /\ pc' \in Label
      /\ faulted' \in BOOLEAN
      /\ UNCHANGED <<origin, live, decision, roots, stores, at, flags>>
  BY DEF PlanInv, Unplanned, Label, Begin, Work
<1>2. /\ IsTree(origin) /\ IsFiniteSet(DOMAIN origin)
      /\ origin \in Workspaces /\ live = origin
  BY <1>1, TreesFinite DEF PlanInv
<1>3. PlanInv'
  <2>1. IsTree(worktree') /\ IsFiniteSet(DOMAIN worktree')
    BY <1>2, CopyFinite, TreesFinite DEF Begin, Work, PlanInv
  <2>2. IF pc' \in Begun THEN base' = NoTree ELSE base' = Scan(origin')
    BY <1>2 DEF Begin, Work, PlanInv, Begun
  <2>3. /\ decision' = "none" /\ roots' = <<>> /\ live' = origin'
        /\ quarantine' = NoTree
    BY <1>1 DEF PlanInv, stores
  <2> QED BY <1>1, <1>2, <2>1, <2>2, <2>3 DEF PlanInv
<1>4. roots' = <<>> /\ live' = origin' /\ quarantine' = NoTree
  BY <1>1 DEF PlanInv, stores
<1>5. FlagsInv'
  <2>1. at' = 1 /\ moved' = {} /\ installed' = {}
    BY <1>1 DEF FlagsInv, flags
  <2> QED BY <1>1, <1>4, <2>1 DEF FlagsInv, Unplanned, Backward
<1>6. LiveInv'
  BY <1>1, <1>2, <1>4 DEF LiveInv
<1>7. ApplyInv' /\ QuarantineInv' /\ FailureInv'
  BY <1>1, <1>4, EmptyTree
  DEF ApplyInv, QuarantineInv, FailureInv, Forward, Backward, Unplanned
<1> QED BY <1>3, <1>5, <1>6, <1>7

\* The roots and the decision are computed from the two manifests.
LEMMA PlanStep ==
    ASSUME IInv, Plan
    PROVE  IInv'
<1> USE DEF IInv
<1>1. /\ pc = "worked" /\ pc' = "planned" /\ pc' \in Label
      /\ UNCHANGED <<origin, live, worktree, base, stores, at, flags, faulted>>
      /\ decision' = Evaluate(base, Staged)
      /\ roots' = OperationRoots(base, Staged)
  BY DEF Plan, Label, Staged
<1>2. /\ IsTree(origin) /\ live = origin /\ quarantine = NoTree
      /\ at = 1 /\ moved = {} /\ installed = {}
  BY <1>1, TreesFinite DEF PlanInv, FlagsInv, Unplanned
<1>3. PlanInv'
  BY <1>1 DEF PlanInv, Unplanned, Begun, Staged
<1>4. FlagsInv'
  BY <1>1, <1>2 DEF FlagsInv, Backward, flags, Unplanned
<1>5. LiveInv'
  BY <1>1, <1>2
  DEF LiveInv, RootInv, Pending, Back, Forward, Backward, Returned, flags
<1>6. ApplyInv' /\ QuarantineInv' /\ FailureInv'
  <2>1. quarantine' = NoTree /\ DOMAIN NoTree = {} /\ moved' = {}
    BY <1>1, <1>2 DEF NoTree, flags, stores
  <2> QED
    BY <1>1, <2>1, EmptyTree
    DEF ApplyInv, QuarantineInv, FailureInv, Forward, Backward, Backups
<1> QED BY <1>3, <1>4, <1>5, <1>6

\* What every step after the plan leaves alone.
LEMMA PlanKept ==
    ASSUME IInv, pc \notin Unplanned, UNCHANGED <<origin, plan>>,
           pc' \notin Unplanned, pc' \in Label, faulted' \in BOOLEAN,
           pc' = "planned" => pc = "planned", decision # "deny"
    PROVE  /\ PlanInv' /\ Shape
           /\ origin' = origin /\ roots' = roots /\ base' = base
           /\ Staged' = Staged /\ worktree' = worktree
           /\ \A p : Remains(p)' = Remains(p) /\ Existed(p)' = Existed(p)
<1>1. /\ worktree' = worktree /\ base' = base /\ decision' = decision
      /\ roots' = roots /\ origin' = origin
  BY DEF plan
<1>2. pc' \notin Begun /\ pc \notin Begun
  BY DEF Begun, Unplanned
<1>3. PlanInv'
  BY <1>1, <1>2 DEF IInv, PlanInv, Staged
<1>4. Shape
  BY PlanShape DEF IInv
<1> QED BY <1>1, <1>3, <1>4 DEF Remains, Existed, Staged

\* The payload holds what is below each root.
LEMMA CommitStep ==
    ASSUME IInv, Commit
    PROVE  IInv'
<1> USE DEF IInv
<1>1. /\ pc = "planned" /\ pc' \in {"move", "verify"}
      /\ pc' = "verify" <=> roots = <<>>
      /\ decision # "deny"
      /\ UNCHANGED <<origin, live, plan, quarantine, at, flags, faulted>>
  BY DEF Commit
<1>2. /\ PlanInv' /\ Shape
      /\ origin' = origin /\ roots' = roots /\ base' = base
      /\ Staged' = Staged
      /\ \A p : Remains(p)' = Remains(p) /\ Existed(p)' = Existed(p)
  BY <1>1, PlanKept DEF Unplanned, Label, PlanInv
<1>3. /\ live' = live /\ quarantine' = quarantine /\ at' = at /\ at = 1
      /\ moved' = {} /\ installed' = {} /\ moved = {} /\ installed = {}
  BY <1>1 DEF FlagsInv, flags
<1>4. FlagsInv'
  <2>1. roots \in Seq(Path) /\ (roots = <<>> <=> DOMAIN roots = {})
    BY <1>2 DEF Shape
  <2>2. roots # <<>> => 1 \in DOMAIN roots
    BY <2>1
  <2>3. \A i \in DOMAIN roots : i \in Nat /\ i >= 1
    BY <2>1
  <2>4. pc' \in {"move", "install"} \cup Backward => at' \in DOMAIN roots'
    BY <1>1, <1>2, <1>3, <2>2 DEF Backward
  <2>5. pc' \in {"move", "install"} => \A i \in DOMAIN roots' : ~(i < at')
    BY <1>2, <1>3, <2>3
  <2>6. pc' \in {"verify", "committed"} => DOMAIN roots' = {}
    BY <1>1, <1>2, <2>1
  <2> QED
    BY <1>1, <1>2, <1>3, <2>4, <2>5, <2>6
    DEF FlagsInv, Untouched, Unplanned
<1>5. LiveInv'
  <2>1. \A i : Pending(i) /\ ~Back(i)' /\ Pending(i)'
    BY <1>1 DEF Pending, Back, Forward, Backward, Returned
  <2> QED BY <1>1, <1>2, <1>3, <2>1 DEF LiveInv, RootInv, Free, Covers
<1>6. ApplyInv'
  <2>1. /\ apply' = [p \in {q \in DOMAIN Staged :
                               \E i \in DOMAIN roots : Covers(i, q)}
                        |-> worktree[p]]
        /\ \A p \in DOMAIN Staged : worktree[p] = Staged[p]
        /\ DOMAIN Staged \subseteq Path
        /\ Staged \in [DOMAIN Staged -> Entry]
    BY <1>2 DEF Commit, Staged, Scan, Restrict, Shape, IsTree, Covers
  <2>2. DOMAIN apply' \subseteq Path /\ apply' \in [DOMAIN apply' -> Entry]
    BY <2>1
  <2>3. \A i \in DOMAIN roots : \A p \in Path :
            Covers(i, p) => Here(apply', p) = Here(Staged, p)
    BY <2>1 DEF Here
  <2> QED BY <1>2, <2>2, <2>3 DEF ApplyInv, Covers
<1>7. QuarantineInv'
  <2>1. IsTree(quarantine)' /\ Backups'
    BY <1>3 DEF QuarantineInv, Backups
  <2>2. \A q \in DOMAIN quarantine' : Way(q)' /\ IsDirectory(quarantine', q)
    <3>1. \A q \in DOMAIN quarantine : Way(q) /\ IsDirectory(quarantine, q)
      BY <1>1, <1>3 DEF QuarantineInv, Forward, Backward
    <3> QED BY <1>2, <1>3, <3>1 DEF Way
  <2> QED BY <2>1, <2>2 DEF QuarantineInv
<1>8. FailureInv'
  BY <1>1 DEF FailureInv
<1> QED BY <1>2, <1>4, <1>5, <1>6, <1>7, <1>8

\* A directory above a root is where it was in every state of the commit.
LEMMA AboveRoot ==
    ASSUME Shape, LiveInv, NEW i \in DOMAIN roots, NEW q \in Above(roots[i])
    PROVE  q \in Path /\ IsDirectory(live, q) /\ Fits(live, roots[i])
<1>1. ASSUME NEW y \in Above(roots[i])
      PROVE  y \in Path /\ IsDirectory(live, y)
  <2>1. y \in Path /\ Free(y) /\ IsDirectory(origin, y)
    BY DEF Shape
  <2>2. Here(live, y) = Here(origin, y)
    BY <2>1 DEF LiveInv
  <2> QED BY <2>1, <2>2 DEF Here, IsDirectory
<1> QED BY <1>1 DEF Fits, IsDirectory

\* A subtree of u placed where it was.
LEMMA PlaceBack ==
    ASSUME NEW t, NEW u, NEW r \in Path, DOMAIN t \subseteq Path,
           DOMAIN u \subseteq Path, NEW q \in Path
    PROVE  LET P == Place(t, r, Subtree(u, r), r) IN
           /\ Inside(r, q) => Here(P, q) = IF q \in DOMAIN u THEN {u[q]}
                                           ELSE Here(t, q)
           /\ ~Inside(r, q) => Here(P, q) =
                  IF q \in Above(r) /\ q \notin DOMAIN t
                  THEN {NewDirectory} ELSE Here(t, q)
<1>1. Inside(r, q) => Shift(r, r, q) = q
  BY Rejoin DEF Shift
<1> QED BY <1>1, PlaceHere

\* The parts of being a tree.
LEMMA TreeType ==
    ASSUME NEW t, IsTree(t)
    PROVE  /\ DOMAIN t \subseteq Path /\ t \in [DOMAIN t -> Entry]
           /\ \A p \in DOMAIN t : \A q \in Above(p) : IsDirectory(t, q)
BY TreeAbove DEF IsTree

\* A subtree goes from the workspace to the quarantine.
LEMMA MoveBackupStep ==
    ASSUME IInv, MoveBackup
    PROVE  IInv'
<1> USE DEF IInv
<1>1. /\ pc = "move" /\ pc' = "install" /\ at \in DOMAIN roots
      /\ UNCHANGED <<origin, plan, apply, at, installed, faulted>>
      /\ decision # "deny"
  BY DEF MoveBackup, FlagsInv, PlanInv, Unplanned
<1>2. /\ PlanInv' /\ Shape
      /\ origin' = origin /\ roots' = roots /\ base' = base
      /\ Staged' = Staged
      /\ \A p : Remains(p)' = Remains(p) /\ Existed(p)' = Existed(p)
  BY <1>1, PlanKept DEF Unplanned, Label, PlanInv
<1> DEFINE r == roots[at]
<1>3. /\ r \in Path /\ at \notin moved /\ at \notin installed
      /\ at \in Nat /\ DOMAIN roots \subseteq Nat
      /\ \A i \in DOMAIN roots : roots[i] \in Path
  BY <1>1, <1>2 DEF Shape, FlagsInv, Untouched
<1>4. \/ /\ Existed(r) /\ r \in DOMAIN live
         /\ quarantine' = Place(quarantine, r, Subtree(live, r), r)
         /\ live' = Cut(live, r) /\ moved' = moved \cup {at}
      \/ /\ ~Existed(r)
         /\ live' = live /\ quarantine' = quarantine /\ moved' = moved
  BY DEF MoveBackup, Root
<1>5. FlagsInv'
  <2>1. moved' \subseteq DOMAIN roots /\ (at \in moved' <=> Existed(r))
    BY <1>1, <1>3, <1>4 DEF FlagsInv
  <2>2. \A i \in DOMAIN roots : i # at => (i \in moved' <=> i \in moved)
    BY <1>4
  <2>3. \A i \in DOMAIN roots : i # at => i < at \/ i > at
    BY <1>3
  <2>4. \A i \in DOMAIN roots : ~(at < at)
    BY <1>3
  <2> QED BY <1>1, <1>2, <1>3, <2>1, <2>2, <2>3, <2>4
          DEF FlagsInv, Done, Untouched, Unplanned, Backward
<1>6. \A p \in Path : ~Covers(at, p) => Here(live', p) = Here(live, p)
  BY <1>4, HereOf DEF Covers
<1>7. LiveInv'
  <2>1. IsTree(live')
    BY <1>3, <1>4, TreeCut DEF LiveInv
  <2>2. \A p \in Path : Free(p) => Here(live', p) = Here(origin, p)
    BY <1>1, <1>6 DEF LiveInv, Free
  <2>3. ASSUME NEW i \in DOMAIN roots, NEW p \in Path, Covers(i, p)
        PROVE  Here(live', p) = IF i \in installed THEN Here(Staged, p)
                                ELSE IF i \in moved' THEN {}
                                ELSE Here(origin, p)
    <3>1. Here(live, p) = IF i \in installed THEN Here(Staged, p)
                          ELSE IF i \in moved THEN {} ELSE Here(origin, p)
      BY <1>1, <2>3 DEF LiveInv, RootInv, Pending, Forward
    <3>2. CASE i # at
      <4>1. ~Covers(at, p)
        BY <1>1, <1>2, <2>3, <3>2 DEF Shape
      <4>2. i \in moved' <=> i \in moved
        BY <1>4, <3>2
      <4> QED BY <1>6, <3>1, <4>1, <4>2
    <3>3. CASE i = at
      BY <1>3, <1>4, <2>3, <3>1, <3>3, HereOf DEF Covers
    <3> QED BY <3>2, <3>3
  <2>4. \A i : ~Back(i)'
    BY <1>1 DEF Back, Returned, Backward
  <2> QED BY <1>1, <1>2, <2>1, <2>2, <2>3, <2>4
          DEF LiveInv, RootInv, Free, Covers
<1>8. ApplyInv'
  BY <1>1, <1>2 DEF ApplyInv, Covers
<1>9. QuarantineInv'
  <2>1. /\ IsTree(quarantine) /\ IsTree(live)
        /\ \A i \in moved : \A p \in Path :
               Covers(i, p) => Here(quarantine, p) = Here(origin, p)
        /\ \A q \in DOMAIN quarantine :
               \/ \E i \in moved : Covers(i, q)
               \/ Way(q) /\ IsDirectory(quarantine, q)
    BY <1>1 DEF QuarantineInv, Backups, Pending, Forward, Backward, LiveInv
  <2>2. CASE live' = live /\ quarantine' = quarantine /\ moved' = moved
    BY <1>1, <1>2, <2>1, <2>2
    DEF QuarantineInv, Backups, Pending, Forward, Backward, Way, Covers
  <2>3. CASE /\ Existed(r) /\ r \in DOMAIN live
             /\ quarantine' = Place(quarantine, r, Subtree(live, r), r)
             /\ live' = Cut(live, r) /\ moved' = moved \cup {at}
    <3>1. DOMAIN quarantine \subseteq Path /\ DOMAIN live \subseteq Path
      BY <2>1, TreeType
    <3>2. ASSUME NEW q \in DOMAIN quarantine, Inside(r, q) PROVE FALSE
      <4>1. q \in Path
        BY <3>1
      <4>2. CASE \E i \in moved : Covers(i, q)
        BY <1>1, <1>2, <1>3, <3>2, <4>1, <4>2 DEF Shape, Covers, FlagsInv
      <4>3. CASE Way(q)
        <5>1. PICK j \in DOMAIN roots : q \in Above(roots[j])
          BY <4>3 DEF Way
        <5>2. Free(q)
          BY <1>2, <5>1 DEF Shape
        <5> QED BY <1>1, <3>2, <5>2 DEF Free, Covers
      <4> QED BY <2>1, <4>2, <4>3
    <3>3. Fits(quarantine, r)
      <4> SUFFICES ASSUME NEW q \in Above(r), q \in DOMAIN quarantine
                   PROVE  quarantine[q].kind = "directory"
        BY DEF Fits
      <4>1. Free(q)
        BY <1>1, <1>2 DEF Shape
      <4>2. ~\E i \in moved : Covers(i, q)
        BY <4>1 DEF Free, FlagsInv
      <4> QED BY <2>1, <4>2 DEF IsDirectory
    <3>4. IsTree(quarantine')
      BY <1>3, <2>1, <2>3, <3>2, <3>3, PlaceTree, TreeType
    <3>5. \A q \in Path :
              /\ Inside(r, q) => Here(quarantine', q) =
                     IF q \in DOMAIN live THEN {live[q]}
                     ELSE Here(quarantine, q)
              /\ ~Inside(r, q) => Here(quarantine', q) =
                     IF q \in Above(r) /\ q \notin DOMAIN quarantine
                     THEN {NewDirectory} ELSE Here(quarantine, q)
      BY <1>3, <2>3, <3>1, PlaceBack
    <3>6. ASSUME NEW i \in moved', NEW p \in Path, Covers(i, p)
          PROVE  Here(quarantine', p) = Here(origin, p)
      <4>1. CASE i = at
        <5>1. Here(live, p) = Here(origin, p)
          BY <1>1, <1>3, <3>6, <4>1 DEF LiveInv, RootInv, Pending, Forward
        <5>2. Here(quarantine, p) = {}
          BY <3>2, <3>6, <4>1 DEF Here, Covers
        <5> QED BY <3>5, <3>6, <4>1, <5>1, <5>2 DEF Covers, Here
      <4>2. CASE i # at
        <5>1. i \in moved /\ i \in DOMAIN roots
          BY <2>3, <4>2 DEF FlagsInv
        <5>2. ~Inside(r, p) /\ ~(p \in Above(r))
          BY <1>1, <1>2, <3>6, <4>2, <5>1 DEF Shape, Covers, Free
        <5> QED BY <2>1, <3>5, <3>6, <5>1, <5>2
      <4> QED BY <4>1, <4>2
    <3>7. ASSUME NEW q \in DOMAIN quarantine'
          PROVE  \/ \E i \in moved' : Covers(i, q)
                 \/ Way(q) /\ IsDirectory(quarantine', q)
      <4>1. q \in Path
        BY <3>4, TreeType
      <4>2. CASE Inside(r, q)
        BY <1>1, <2>3, <4>2 DEF Covers
      <4>3. CASE ~Inside(r, q) /\ q \in DOMAIN quarantine
        <5>1. Here(quarantine', q) = Here(quarantine, q)
          BY <3>5, <4>1, <4>3
        <5>2. IsDirectory(quarantine, q) => IsDirectory(quarantine', q)
          BY <5>1 DEF Here, IsDirectory
        <5> QED BY <2>1, <2>3, <4>3, <5>2
      <4>4. CASE ~Inside(r, q) /\ q \notin DOMAIN quarantine
        <5>1. q \in Above(r) /\ Here(quarantine', q) = {NewDirectory}
          BY <3>5, <3>7, <4>1, <4>4 DEF Here
        <5>2. IsDirectory(quarantine', q)
          BY <5>1, TreesAssumption DEF Here, IsDirectory
        <5> QED BY <1>1, <5>1, <5>2 DEF Way
      <4> QED BY <4>2, <4>3, <4>4
    <3> QED
      BY <1>1, <1>2, <3>4, <3>6, <3>7
      DEF QuarantineInv, Backups, Pending, Forward, Backward, Way, Covers
  <2> QED BY <1>4, <2>2, <2>3
<1>10. FailureInv'
  BY <1>1 DEF FailureInv
<1> QED BY <1>2, <1>5, <1>7, <1>8, <1>9, <1>10

\* A subtree goes from the payload to the workspace, whose other entries stay.
LEMMA InstallStep ==
    ASSUME IInv, Install
    PROVE  IInv'
<1> USE DEF IInv
<1>1. /\ pc = "install" /\ at \in DOMAIN roots /\ decision # "deny"
      /\ UNCHANGED <<origin, plan, quarantine, moved, faulted>>
      /\ \/ at = Len(roots) /\ pc' = "verify" /\ at' = at
         \/ at # Len(roots) /\ pc' = "move" /\ at' = at + 1
  BY DEF Install, FlagsInv, PlanInv, Unplanned
<1>2. /\ PlanInv' /\ Shape
      /\ origin' = origin /\ roots' = roots /\ base' = base
      /\ Staged' = Staged
      /\ \A p : Remains(p)' = Remains(p) /\ Existed(p)' = Existed(p)
  BY <1>1, PlanKept DEF Unplanned, Label, PlanInv
<1> DEFINE r == roots[at]
<1>3. /\ r \in Path /\ at \notin installed /\ (Existed(r) <=> at \in moved)
      /\ Len(roots) \in Nat /\ DOMAIN roots = 1 .. Len(roots)
      /\ \A i \in DOMAIN roots : roots[i] \in Path
  BY <1>1, <1>2 DEF Shape, FlagsInv
<1>4. \/ /\ Remains(r) /\ r \in DOMAIN apply /\ Fits(live, r)
         /\ live' = Place(Cut(live, r), r, Subtree(apply, r), r)
         /\ apply' = Cut(apply, r) /\ installed' = installed \cup {at}
      \/ /\ ~Remains(r)
         /\ live' = live /\ apply' = apply /\ installed' = installed
  BY DEF Install, Root
<1>5. FlagsInv'
  <2>1. /\ installed' \subseteq DOMAIN roots
        /\ at \in installed' <=> Remains(r)
    BY <1>1, <1>3, <1>4 DEF FlagsInv
  <2>2. \A i \in DOMAIN roots :
            i # at => (i \in installed' <=> i \in installed)
    BY <1>4
  <2>3. moved' = moved /\ moved \subseteq DOMAIN roots
    BY <1>1 DEF FlagsInv
  <2>4. \A i \in DOMAIN roots :
            /\ i \in moved => Existed(roots[i])
            /\ i \in installed' => Remains(roots[i])
            /\ i \in installed' /\ Existed(roots[i]) => i \in moved
    BY <1>3, <2>1, <2>2 DEF FlagsInv
  <2>5. \A i \in DOMAIN roots :
            /\ i < at \/ i = at => Done(i)'
            /\ i > at => Untouched(i)'
    <3>1. \A i \in DOMAIN roots : /\ i < at => Done(i) /\ i # at
                                  /\ i > at => Untouched(i) /\ i # at
      BY <1>1, <1>3 DEF FlagsInv
    <3>2. \A i \in DOMAIN roots : i < at => Done(i)'
      BY <1>2, <2>2, <2>3, <3>1 DEF Done
    <3>3. \A i \in DOMAIN roots : i = at => Done(i)'
      BY <1>2, <1>3, <2>1, <2>3 DEF Done
    <3>4. \A i \in DOMAIN roots : i > at => Untouched(i)'
      BY <2>2, <2>3, <3>1 DEF Untouched
    <3> QED BY <3>2, <3>3, <3>4
  <2>6. CASE at = Len(roots) /\ pc' = "verify" /\ at' = at
    <3>1. \A i \in DOMAIN roots' : Done(i)'
      BY <1>2, <1>3, <2>5, <2>6
    <3>2. at' \in (0 .. Len(roots')) \cup {1}
      BY <1>2, <1>3, <2>6
    <3> QED BY <1>2, <2>1, <2>3, <2>4, <2>6, <3>1, <3>2
            DEF FlagsInv, Unplanned, Backward
  <2>7. CASE at # Len(roots) /\ pc' = "move" /\ at' = at + 1
    <3>1. at' \in DOMAIN roots' /\ at' \in (0 .. Len(roots')) \cup {1}
      BY <1>1, <1>2, <1>3, <2>7
    <3>2. \A i \in DOMAIN roots' : /\ i < at' => Done(i)'
                                   /\ i > at' => Untouched(i)'
      BY <1>1, <1>2, <1>3, <2>5, <2>7
    <3>3. Untouched(at)'
      <4>1. at' > at
        BY <1>1, <1>3, <2>7
      <4> QED BY <1>2, <2>5, <3>1, <4>1 DEF Untouched
    <3> QED BY <1>2, <2>1, <2>3, <2>4, <2>7, <3>1, <3>2, <3>3
            DEF FlagsInv, Unplanned, Backward
  <2> QED BY <1>1, <2>6, <2>7
<1>6. /\ \A i \in DOMAIN roots : \A p \in Path : Covers(i, p) =>
             Here(live, p) = IF i \in installed THEN Here(Staged, p)
                             ELSE IF i \in moved THEN {} ELSE Here(origin, p)
      /\ \A p \in Path : Covers(at, p) => Here(live, p) = {}
  <2>1. \A i \in DOMAIN roots : \A p \in Path : Covers(i, p) =>
            Here(live, p) = IF i \in installed THEN Here(Staged, p)
                            ELSE IF i \in moved THEN {} ELSE Here(origin, p)
    BY <1>1 DEF LiveInv, RootInv, Pending, Forward
  <2> QED BY <1>1, <1>2, <1>3, <2>1 DEF Shape
<1>7. \A i : Pending(i)' /\ ~Back(i)'
  BY <1>1 DEF Pending, Back, Forward, Backward, Returned
<1>8. ASSUME ~Remains(r), live' = live, apply' = apply, installed' = installed
      PROVE  LiveInv' /\ ApplyInv'
  <2>1. LiveInv'
    BY <1>1, <1>2, <1>6, <1>7, <1>8 DEF LiveInv, RootInv, Free, Covers
  <2>2. ApplyInv'
    BY <1>1, <1>2, <1>8 DEF ApplyInv, Covers
  <2> QED BY <2>1, <2>2
<1>9. ASSUME Remains(r), Fits(live, r), apply' = Cut(apply, r),
             live' = Place(Cut(live, r), r, Subtree(apply, r), r),
             installed' = installed \cup {at}
      PROVE  LiveInv' /\ ApplyInv'
  <2> DEFINE left == Cut(live, r)
  <2>1. /\ DOMAIN apply \subseteq Path /\ apply \in [DOMAIN apply -> Entry]
        /\ \A i \in DOMAIN roots \ installed : \A p \in Path :
               Covers(i, p) => Here(apply, p) = Here(Staged, p)
    BY <1>1 DEF ApplyInv
  <2>2. IsTree(left) /\ DOMAIN left \subseteq Path
    BY <1>3, TreeCut, TreeType DEF LiveInv
  <2>3. \A q : Here(left, q) = IF Inside(r, q) THEN {} ELSE Here(live, q)
    BY HereOf
  <2>4. ASSUME NEW q \in Above(r)
        PROVE  q \in DOMAIN left /\ left[q].kind = "directory"
    <3>1. q \in Path /\ IsDirectory(live, q)
      BY <1>1, <1>2, AboveRoot
    <3>2. ~Inside(r, q)
      BY <1>3, <3>1, AbovePath, InsideOrder
    <3>3. Here(left, q) = Here(live, q)
      BY <2>3, <3>2
    <3> HIDE DEF left
    <3> QED BY <3>1, <3>3 DEF Here, IsDirectory
  <2>5. \A q \in DOMAIN left : ~Inside(r, q)
    BY DEF Cut, Restrict
  <2>6. ASSUME NEW p \in DOMAIN apply, NEW y \in Above(p), Inside(r, y)
        PROVE  IsDirectory(apply, y)
    <3>1. p \in Path /\ y \in Path /\ Inside(y, p)
      BY <2>1, AbovePath
    <3>2. Covers(at, p) /\ Covers(at, y)
      BY <1>3, <2>6, <3>1, InsideOrder DEF Covers
    <3>3. /\ Here(apply, p) = Here(Staged, p)
          /\ Here(apply, y) = Here(Staged, y)
      BY <1>1, <1>3, <2>1, <3>1, <3>2
    <3>4. IsDirectory(Staged, y)
      BY <1>2, <3>3, TreeAbove DEF Shape, Here
    <3> QED BY <3>3, <3>4 DEF Here, IsDirectory
  <2>7. \A q \in Path :
            /\ Inside(r, q) => Here(live', q) =
                   IF q \in DOMAIN apply THEN {apply[q]} ELSE Here(left, q)
            /\ ~Inside(r, q) => Here(live', q) =
                   IF q \in Above(r) /\ q \notin DOMAIN left
                   THEN {NewDirectory} ELSE Here(left, q)
    <3> HIDE DEF left
    <3>1. live' = Place(left, r, Subtree(apply, r), r)
      BY <1>9 DEF left
    <3> SUFFICES ASSUME NEW q \in Path
                 PROVE  /\ Inside(r, q) => Here(live', q) =
                               IF q \in DOMAIN apply THEN {apply[q]}
                               ELSE Here(left, q)
                        /\ ~Inside(r, q) => Here(live', q) =
                               IF q \in Above(r) /\ q \notin DOMAIN left
                               THEN {NewDirectory} ELSE Here(left, q)
      OBVIOUS
    <3>2. /\ DOMAIN left \subseteq Path /\ DOMAIN apply \subseteq Path
          /\ r \in Path
      BY <1>3, <2>1, <2>2
    <3> HIDE DEF r
    <3> QED BY <3>1, <3>2, PlaceBack
  <2>8. IsTree(live')
    <3>1. Fits(left, r)
      BY <2>4 DEF Fits
    <3> HIDE DEF left
    <3>2. live' = Place(left, r, Subtree(apply, r), r)
      BY <1>9 DEF left
    <3> QED BY <1>3, <2>1, <2>2, <2>5, <2>6, <3>1, <3>2, PlaceTree
  <2> HIDE DEF left
  <2>9. \A p \in Path : ~Covers(at, p) => Here(live', p) = Here(live, p)
    BY <2>3, <2>4, <2>7 DEF Covers
  <2>10. \A p \in Path : Covers(at, p) => Here(live', p) = Here(Staged, p)
    <3> SUFFICES ASSUME NEW p \in Path, Covers(at, p)
                 PROVE  Here(live', p) = Here(Staged, p)
      OBVIOUS
    <3>1. Here(live', p) = Here(apply, p)
      BY <2>3, <2>7 DEF Covers, Here
    <3> QED BY <1>1, <1>3, <2>1, <3>1
  <2>11. ASSUME NEW i \in DOMAIN roots, NEW p \in Path, Covers(i, p)
         PROVE  Here(live', p) = IF i \in installed' THEN Here(Staged, p)
                                 ELSE IF i \in moved THEN {}
                                 ELSE Here(origin, p)
    <3>1. CASE i = at
      BY <1>9, <2>10, <2>11, <3>1
    <3>2. CASE i # at
      <4>1. ~Covers(at, p)
        BY <1>1, <1>2, <2>11, <3>2 DEF Shape
      <4> QED BY <1>6, <1>9, <2>9, <2>11, <3>2, <4>1
    <3> QED BY <3>1, <3>2
  <2>12. \A p \in Path : Free(p) => Here(live', p) = Here(origin, p)
    BY <1>1, <2>9 DEF LiveInv, Free
  <2>13. LiveInv'
    BY <1>1, <1>2, <1>7, <2>8, <2>11, <2>12
    DEF LiveInv, RootInv, Free, Covers
  <2>14. ApplyInv'
    <3>1. DOMAIN apply' \subseteq Path /\ apply' \in [DOMAIN apply' -> Entry]
      BY <1>9, <2>1 DEF Cut, Restrict
    <3>2. ASSUME NEW i \in DOMAIN roots \ installed', NEW p \in Path,
                 Covers(i, p)
          PROVE  Here(apply', p) = Here(Staged, p)
      <4>1. ~Covers(at, p) /\ i \notin installed
        BY <1>1, <1>2, <1>9, <3>2 DEF Shape
      <4>2. Here(apply', p) = Here(apply, p)
        BY <1>9, <4>1, HereOf DEF Covers
      <4> QED BY <2>1, <3>2, <4>1, <4>2
    <3> QED BY <1>2, <3>1, <3>2 DEF ApplyInv, Covers
  <2> QED BY <2>13, <2>14
<1>10. QuarantineInv'
  <2>1. quarantine' = quarantine /\ moved' = moved /\ pc \in Forward
           /\ pc' \notin Backward /\ pc \notin Backward
    BY <1>1 DEF Forward, Backward
  <2> QED BY <1>2, <1>7, <2>1
          DEF QuarantineInv, Backups, Way, Covers, Pending
<1>11. FailureInv'
  BY <1>1 DEF FailureInv
<1> QED BY <1>2, <1>4, <1>5, <1>8, <1>9, <1>10, <1>11

----------------------------------------------------------------------------
(* Rollback and restore.                                                     *)

\* Paths below a directory set aside in have its name in front.
LEMMA SidePath ==
    ASSUME NEW side \in Name, NEW p \in Path
    PROVE  /\ <<side>> \o p \in Path /\ <<side>> \in Path
           /\ \A q \in Path : Inside(<<side>> \o p, q) => Head(q) = side
           /\ \A q \in Above(<<side>> \o p) :
                  /\ Head(q) = side
                  /\ q = <<side>> \/ \E y \in Above(p) : q = <<side>> \o y
<1> DEFINE s == <<side>> \o p
<1>1. s \in Path /\ <<side>> \in Path /\ Head(s) = side
  BY DEF Path
<1>2. \A q \in Path : Inside(s, q) => Head(q) = side
  BY <1>1, InsideOrder
<1>3. ASSUME NEW q \in Above(s)
      PROVE  /\ Head(q) = side
             /\ q = <<side>> \/ \E y \in Above(p) : q = <<side>> \o y
  <2>1. q \in Path /\ Inside(q, s) /\ q # s
    BY <1>1, AbovePath
  <2>2. Head(q) = side
    BY <1>1, <2>1, InsideOrder
  <2>3. CASE Len(q) = 1
    BY <2>1, <2>2, <2>3 DEF Path
  <2>4. CASE Len(q) # 1
    <3> DEFINE y == SubSeq(p, 1, Len(q) - 1)
    <3>1. /\ Len(q) \in Nat /\ Len(q) <= Len(s) /\ Len(s) = Len(p) + 1
          /\ Len(p) \in Nat /\ Len(q) >= 1
          /\ \A i \in 1 .. Len(q) : q[i] = s[i]
      <4>1. /\ Len(q) <= Len(s) /\ \A i \in 1 .. Len(q) : q[i] = s[i]
        <5> HIDE DEF s
        <5> QED BY <1>1, <2>1, InsideIndex
      <4>2. Len(s) = Len(p) + 1 /\ Len(p) \in Nat
        BY DEF Path
      <4>3. Len(q) \in Nat /\ Len(q) >= 1
        BY <2>1 DEF Path
      <4> HIDE DEF s
      <4> QED BY <4>1, <4>2, <4>3
    <3>2. Len(q) # Len(s)
      BY <1>1, <2>1, <3>1 DEF Path
    <3>3. y \in Prefixes(p) /\ Len(y) = Len(q) - 1 /\ y # <<>> /\ y # p
      <4>1. Len(q) - 1 \in 1 .. Len(p) - 1
        <5> DEFINE a == Len(q)
                   b == Len(p)
                   c == Len(s)
        <5>1. /\ a \in Nat /\ b \in Nat /\ a >= 1 /\ a # 1 /\ a <= c
              /\ c = b + 1 /\ a # c
          BY <2>4, <3>1, <3>2
        <5> HIDE DEF a, b, c
        <5>2. a - 1 \in 1 .. b - 1
          BY <5>1
        <5> QED BY <5>2 DEF a, b
      <4>2. y \in Prefixes(p)
        BY <3>1, <4>1 DEF Prefixes
      <4>3. Len(y) = Len(q) - 1
        BY <3>1, <4>1 DEF Path
      <4> HIDE DEF y
      <4> QED BY <3>1, <4>1, <4>2, <4>3
    <3>4. y \in Above(p)
      BY <3>3 DEF Above
    <3>5. q = <<side>> \o y
      <4>1. Len(<<side>> \o y) = Len(q) /\ <<side>> \o y \in Seq(Name)
        BY <3>1, <3>3 DEF Path
      <4>2. \A i \in 1 .. Len(q) : (<<side>> \o y)[i] = s[i]
        BY <2>4, <3>1, <3>2 DEF Path
      <4> QED BY <2>1, <3>1, <4>1, <4>2 DEF Path
    <3> QED BY <2>2, <3>4, <3>5
  <2> QED BY <2>3, <2>4
<1> QED BY <1>1, <1>2, <1>3

\* What taking one operation back makes of the workspace and, without a root
\* of the name of that directory, of the quarantine.
LEMMA TakeBackResult ==
    ASSUME IInv, pc \in Backward, NEW side \in Name, side = Side,
           ~Blocked(side), TakeBack(side)
    PROVE  /\ IsTree(live') /\ IsTree(quarantine')
           /\ \A p \in Path : ~Covers(at, p) => Here(live', p) = Here(live, p)
           /\ ~Collision(side) =>
                  /\ \A p \in Path :
                         Covers(at, p) => Here(live', p) = Here(origin, p)
                  /\ \A i \in moved \ {at} : \A p \in Path : Covers(i, p) =>
                         Here(quarantine', p) = Here(quarantine, p)
                  /\ \A q \in DOMAIN quarantine' :
                         \/ \E i \in moved \ {at} : Pending(i) /\ Covers(i, q)
                         \/ /\ Way(q) \/ Made(side, q)
                            /\ IsDirectory(quarantine', q)
                         \/ \E i \in DOMAIN roots :
                               /\ Back(i) \/ i = at
                               /\ Inside(<<side>> \o roots[i], q)
<1> USE DEF IInv
<1> DEFINE r == roots[at]
           aside == <<side>> \o r
           put == at \in installed
           left == IF put THEN Cut(live, r) ELSE live
           held == IF put THEN Place(quarantine, aside, Subtree(live, r), r)
                   ELSE quarantine
<1>1. /\ at \in DOMAIN roots /\ at \in Nat /\ Pending(at) /\ Shape
      /\ r \in Path /\ \A i \in DOMAIN roots : roots[i] \in Path
  <2>1. pc \notin Unplanned
    BY DEF Backward, Unplanned
  <2>2. Shape /\ at \in DOMAIN roots
    BY <2>1, PlanShape DEF FlagsInv
  <2> QED BY <2>2 DEF Shape, Pending
<1>2. /\ aside \in Path /\ <<side>> \in Path
      /\ \A q \in Path : Inside(aside, q) => Head(q) = side
      /\ \A q \in Above(aside) :
             /\ Head(q) = side
             /\ q = <<side>> \/ \E y \in Above(r) : q = <<side>> \o y
  BY <1>1, SidePath
<1>3. /\ live' = IF at \in moved THEN Place(left, r, Subtree(held, r), r)
                 ELSE left
      /\ quarantine' = IF at \in moved THEN Cut(held, r) ELSE held
  BY DEF TakeBack, Root
<1>4. /\ IsTree(live) /\ DOMAIN live \subseteq Path
      /\ IsTree(quarantine) /\ DOMAIN quarantine \subseteq Path
  BY TreeType DEF LiveInv, QuarantineInv
<1>5. put => Fits(quarantine, aside) /\ Replaces(quarantine, aside, live[r])
  BY DEF Blocked, Root
<1>6. at \in moved => Existed(r)
  BY <1>1 DEF FlagsInv
<1>7. \A p \in Path : Covers(at, p) =>
          Here(live, p) = IF put THEN Here(Staged, p)
                          ELSE IF at \in moved THEN {} ELSE Here(origin, p)
  BY <1>1 DEF LiveInv, RootInv
<1>8. /\ IsTree(left) /\ DOMAIN left \subseteq Path
      /\ \A p \in Path : ~Covers(at, p) => Here(left, p) = Here(live, p)
      /\ at \in moved => \A p \in DOMAIN left : ~Inside(r, p)
      /\ put => \A p \in Path : Covers(at, p) => Here(left, p) = {}
  <2>1. CASE put
    <3>1. IsTree(left)
      BY <1>1, <1>4, <2>1, TreeCut
    <3>2. \A p : Here(left, p) = IF Inside(r, p) THEN {} ELSE Here(live, p)
      BY <2>1, HereOf
    <3>3. \A p \in DOMAIN left : ~Inside(r, p)
      BY <3>2 DEF Here
    <3> QED BY <3>1, <3>2, <3>3, TreeType DEF Covers
  <2>2. CASE ~put
    <3>1. left = live
      BY <2>2
    <3>2. at \in moved => \A p \in DOMAIN live : ~Inside(r, p)
      BY <1>4, <1>7, <2>2 DEF Covers, Here
    <3> HIDE DEF left
    <3> QED BY <1>4, <2>2, <3>1, <3>2
  <2> QED BY <2>1, <2>2
<1>9. \A q \in Above(r) : q \in DOMAIN left /\ left[q].kind = "directory"
  <2> SUFFICES ASSUME NEW q \in Above(r)
               PROVE  q \in DOMAIN left /\ left[q].kind = "directory"
    OBVIOUS
  <2>1. q \in Path /\ IsDirectory(live, q)
    BY <1>1, AboveRoot
  <2>2. ~Covers(at, q)
    BY <1>1, <2>1, AbovePath, InsideOrder DEF Covers
  <2>3. Here(left, q) = Here(live, q)
    BY <1>8, <2>1, <2>2
  <2> HIDE DEF left
  <2> QED BY <2>1, <2>3 DEF Here, IsDirectory
<1>10. put => \A q \in Path :
           /\ Inside(aside, q) => Here(held, q) =
                  IF Shift(r, aside, q) \in DOMAIN live
                  THEN {live[Shift(r, aside, q)]} ELSE Here(quarantine, q)
           /\ ~Inside(aside, q) => Here(held, q) =
                  IF q \in Above(aside) /\ q \notin DOMAIN quarantine
                  THEN {NewDirectory} ELSE Here(quarantine, q)
  <2> SUFFICES ASSUME put, NEW q \in Path
               PROVE
           /\ Inside(aside, q) => Here(held, q) =
                  IF Shift(r, aside, q) \in DOMAIN live
                  THEN {live[Shift(r, aside, q)]} ELSE Here(quarantine, q)
           /\ ~Inside(aside, q) => Here(held, q) =
                  IF q \in Above(aside) /\ q \notin DOMAIN quarantine
                  THEN {NewDirectory} ELSE Here(quarantine, q)
    OBVIOUS
  <2>1. held = Place(quarantine, aside, Subtree(live, r), r)
    OBVIOUS
  <2> HIDE DEF held, r, aside
  <2> QED BY <1>1, <1>2, <1>4, <2>1, PlaceHere
<1>11. IsTree(held) /\ DOMAIN held \subseteq Path
  <2>1. CASE put
    <3>1. \A q \in DOMAIN quarantine : Inside(aside, q) => q = aside
      <4> SUFFICES ASSUME NEW q \in DOMAIN quarantine, Inside(aside, q),
                          q # aside
                   PROVE  FALSE
        OBVIOUS
      <4>1. aside \in Above(q)
        BY <1>2, <1>4, AbovePath
      <4>2. aside \in DOMAIN quarantine
        BY <1>4, <4>1, TreeAbove DEF IsDirectory
      <4> QED BY <1>5, <2>1, <4>2 DEF Replaces
    <3>2. held = Place(quarantine, aside, Subtree(live, r), r)
      BY <2>1
    <3>3. live \in [DOMAIN live -> Entry]
             /\ \A p \in DOMAIN live : \A y \in Above(p) : IsDirectory(live, y)
      BY <1>4, TreeType
    <3>4. Fits(quarantine, aside)
      BY <1>5, <2>1
    <3> HIDE DEF held, aside, r
    <3>5. IsTree(held)
      BY <1>1, <1>2, <1>4, <3>1, <3>2, <3>3, <3>4, PlaceTree
    <3> QED BY <3>5, TreeType
  <2>2. CASE ~put
    BY <1>4, <2>2
  <2> QED BY <2>1, <2>2
<1> HIDE DEF left, held
<1>12. at \in moved => \A p \in Path :
           /\ Inside(r, p) => Here(live', p) = IF p \in DOMAIN held
                                               THEN {held[p]}
                                               ELSE Here(left, p)
           /\ ~Inside(r, p) => Here(live', p) =
                  IF p \in Above(r) /\ p \notin DOMAIN left
                  THEN {NewDirectory} ELSE Here(left, p)
  <2> SUFFICES ASSUME at \in moved, NEW p \in Path
               PROVE
           /\ Inside(r, p) => Here(live', p) = IF p \in DOMAIN held
                                               THEN {held[p]}
                                               ELSE Here(left, p)
           /\ ~Inside(r, p) => Here(live', p) =
                  IF p \in Above(r) /\ p \notin DOMAIN left
                  THEN {NewDirectory} ELSE Here(left, p)
    OBVIOUS
  <2>1. live' = Place(left, r, Subtree(held, r), r)
    BY <1>3
  <2> HIDE DEF r
  <2> QED BY <1>1, <1>8, <1>11, <2>1, PlaceBack
<1>13. IsTree(live')
  <2>1. CASE at \in moved
    <3>1. live' = Place(left, r, Subtree(held, r), r)
      BY <1>3, <2>1
    <3>2. Fits(left, r)
      BY <1>9 DEF Fits
    <3>3. held \in [DOMAIN held -> Entry]
             /\ \A p \in DOMAIN held : \A y \in Above(p) : IsDirectory(held, y)
      BY <1>11, TreeType
    <3> HIDE DEF r
    <3> QED BY <1>1, <1>8, <1>11, <2>1, <3>1, <3>2, <3>3, PlaceTree
  <2>2. CASE at \notin moved
    BY <1>3, <1>8, <2>2
  <2> QED BY <2>1, <2>2
<1>14. IsTree(quarantine') /\ DOMAIN quarantine' \subseteq Path
  <2>1. IsTree(quarantine')
    BY <1>1, <1>3, <1>11, TreeCut
  <2> QED BY <2>1, TreeType
<1>15. ASSUME NEW p \in Path, ~Covers(at, p)
       PROVE  Here(live', p) = Here(live, p)
  <2>1. Here(left, p) = Here(live, p)
    BY <1>8, <1>15
  <2> QED BY <1>3, <1>9, <1>12, <1>15, <2>1 DEF Covers
<1>16. ASSUME NEW q \in Path, Head(q) # side
       PROVE  Here(held, q) = Here(quarantine, q)
  <2>1. ~Inside(aside, q) /\ ~(q \in Above(aside))
    BY <1>2, <1>16
  <2>2. ~put => held = quarantine
    BY DEF held
  <2> QED BY <1>10, <1>16, <2>1, <2>2
<1>17. \A q : Here(quarantine', q) = IF at \in moved /\ Inside(r, q) THEN {}
                                     ELSE Here(held, q)
  BY <1>3, HereOf
<1>18. ~Collision(side) => \A i \in DOMAIN roots : \A p \in Path :
           Covers(i, p) => Head(p) # side
  BY <1>1, InsideOrder DEF Collision, Covers
<1>19. ASSUME ~Collision(side), NEW p \in Path, Covers(at, p)
       PROVE  Here(live', p) = Here(origin, p)
  <2>1. CASE at \in moved
    <3>1. Here(quarantine, p) = Here(origin, p)
      BY <1>1, <1>19, <2>1 DEF QuarantineInv, Backups
    <3>2. Here(held, p) = Here(quarantine, p)
      BY <1>1, <1>16, <1>18, <1>19
    <3>3. Here(left, p) = {}
      BY <1>8, <1>19, <2>1 DEF Covers, Here
    <3> QED BY <1>12, <1>19, <2>1, <3>1, <3>2, <3>3 DEF Covers, Here
  <2>2. CASE at \notin moved /\ put
    <3>1. ~Existed(r)
      BY <1>1, <2>2 DEF FlagsInv
    <3>2. Here(origin, p) = {}
      BY <1>1, <1>19, <3>1 DEF Shape
    <3> QED BY <1>3, <1>8, <1>19, <2>2, <3>2
  <2>3. CASE at \notin moved /\ ~put
    <3>1. live' = live
      BY <1>3, <2>3 DEF left
    <3> QED BY <1>7, <1>19, <2>3, <3>1
  <2> QED BY <2>1, <2>2, <2>3
<1>20. ASSUME ~Collision(side), NEW i \in moved \ {at}, NEW p \in Path,
              Covers(i, p)
       PROVE  Here(quarantine', p) = Here(quarantine, p)
  <2>1. i \in DOMAIN roots
    BY DEF FlagsInv
  <2>2. ~Inside(r, p)
    BY <1>1, <1>20, <2>1 DEF Shape, Covers
  <2>3. Here(held, p) = Here(quarantine, p)
    BY <1>16, <1>18, <1>20, <2>1
  <2> QED BY <1>17, <2>2, <2>3
<1>21. ASSUME ~Collision(side), NEW q \in DOMAIN quarantine'
       PROVE  \/ \E i \in moved \ {at} : Pending(i) /\ Covers(i, q)
              \/ (Way(q) \/ Made(side, q)) /\ IsDirectory(quarantine', q)
              \/ \E i \in DOMAIN roots : /\ Back(i) \/ i = at
                                        /\ Inside(<<side>> \o roots[i], q)
  <2>1. /\ q \in Path /\ Here(quarantine', q) = Here(held, q)
        /\ ~(at \in moved /\ Inside(r, q))
    BY <1>14, <1>17 DEF Here
  <2>2. CASE put /\ Inside(aside, q)
    BY <1>1, <2>2
  <2>3. CASE Here(held, q) = Here(quarantine, q)
    <3>1. q \in DOMAIN quarantine
             /\ (IsDirectory(quarantine, q) => IsDirectory(quarantine', q))
      BY <2>1, <2>3 DEF Here, IsDirectory
    <3>2. \/ \E i \in moved : Pending(i) /\ Covers(i, q)
          \/ (Way(q) \/ Made(side, q)) /\ IsDirectory(quarantine, q)
          \/ \E i \in DOMAIN roots : Back(i) /\ Inside(<<side>> \o roots[i], q)
      BY <1>21, <3>1 DEF QuarantineInv, Aside
    <3> QED BY <2>1, <3>1, <3>2 DEF Covers
  <2>4. CASE put /\ ~Inside(aside, q) /\ Here(held, q) # Here(quarantine, q)
    <3>1. q \in Above(aside) /\ Here(held, q) = {NewDirectory}
      BY <1>10, <2>1, <2>4
    <3>2. IsDirectory(quarantine', q)
      BY <2>1, <3>1, TreesAssumption DEF Here, IsDirectory
    <3>3. Made(side, q)
      BY <1>1, <1>2, <3>1 DEF Made, Way, Shape
    <3> QED BY <3>2, <3>3
  <2>5. ~put => held = quarantine
    BY DEF held
  <2> QED BY <2>2, <2>3, <2>4, <2>5
<1> HIDE DEF r
<1> QED BY <1>13, <1>14, <1>15, <1>19, <1>20, <1>21

\* Without a root of its name the directory set aside in is nobody's.
LEMMA SideInside ==
    ASSUME NEW side \in Name, NEW p \in Path, NEW q \in Path
    PROVE  Inside(<<side>> \o p, <<side>> \o q) => Inside(p, q)
<1>1. ASSUME Inside(<<side>> \o p, <<side>> \o q) PROVE Inside(p, q)
  <2> DEFINE a == <<side>> \o p
             b == <<side>> \o q
  <2>1. /\ a \in Path /\ b \in Path
        /\ Len(a) = Len(p) + 1 /\ Len(b) = Len(q) + 1
        /\ Len(p) \in Nat /\ Len(q) \in Nat
        /\ \A i \in 1 .. Len(p) : a[i + 1] = p[i]
        /\ \A i \in 1 .. Len(q) : b[i + 1] = q[i]
    BY DEF Path
  <2>2. Len(a) <= Len(b) /\ \A i \in 1 .. Len(a) : a[i] = b[i]
    <3> HIDE DEF a, b
    <3>1. Inside(a, b)
      BY <1>1 DEF a, b
    <3> QED BY <2>1, <3>1, InsideIndex
  <2> HIDE DEF a, b
  <2>3. Len(p) <= Len(q)
    BY <2>1, <2>2
  <2>4. \A i \in 1 .. Len(p) : p[i] = q[i]
    <3> SUFFICES ASSUME NEW i \in 1 .. Len(p) PROVE p[i] = q[i]
      OBVIOUS
    <3>1. i + 1 \in 1 .. Len(a) /\ i \in 1 .. Len(q)
      BY <2>1, <2>3
    <3> QED BY <2>1, <2>2, <3>1
  <2> QED BY <2>3, <2>4, InsideIndex
<1> QED BY <1>1

\* Different roots are set aside at different paths.
LEMMA SideSame ==
    ASSUME NEW side \in Name, NEW p \in Path, NEW q \in Path
    PROVE  /\ <<side>> \o p = <<side>> \o q => p = q
           /\ <<side>> \o p # <<side>>
<1> DEFINE a == <<side>> \o p
           b == <<side>> \o q
<1>1. Inside(a, b) => Inside(p, q)
  BY SideInside
<1>2. Inside(b, a) => Inside(q, p)
  BY SideInside
<1>3. Inside(a, a)
  BY SidePath, InsideOrder
<1>4. a # <<side>>
  <2>1. p # <<>> /\ p \in Seq(Name)
    BY DEF Path
  <2>2. Len(p) # 0 /\ Len(p) \in Nat
    BY <2>1
  <2>3. Len(a) = Len(p) + 1
    BY <2>1
  <2>4. Len(<<side>>) = 1
    OBVIOUS
  <2> HIDE DEF a
  <2> QED BY <2>2, <2>3, <2>4
<1>5. Inside(p, q) /\ Inside(q, p) => p = q
  BY InsideOrder
<1> HIDE DEF a, b
<1>6. a = b => p = q
  BY <1>1, <1>2, <1>3, <1>5
<1> QED BY <1>4, <1>6 DEF a, b

\* The directory set aside in has a name.
LEMMA SideName == Side \in Name
BY TreesAssumption DEF Side

\* Without such a root nothing is in the way of an entry set aside: backups are
\* elsewhere, and what is below that directory was made for other roots.
LEMMA NeverBlocked ==
    ASSUME IInv, pc \in Backward, ~Collision(Side)
    PROVE  ~Blocked(Side)
<1> USE DEF IInv
<1> DEFINE r == roots[at]
           aside == <<Side>> \o r
<1>1. /\ at \in DOMAIN roots /\ at \in Nat /\ ~Back(at) /\ Shape
      /\ r \in Path /\ \A i \in DOMAIN roots : roots[i] \in Path
  <2>1. pc \notin Unplanned
    BY DEF Backward, Unplanned
  <2>2. Shape /\ at \in DOMAIN roots
    BY <2>1, PlanShape DEF FlagsInv
  <2>3. ~Back(at)
    BY <2>2 DEF Back, Backward, Returned, Shape
  <2> QED BY <2>2, <2>3 DEF Shape
<1>2. /\ aside \in Path /\ Head(aside) = Side
      /\ \A q \in Above(aside) : Head(q) = Side /\ Inside(q, aside)
  <2>1. aside \in Path /\ \A q \in Above(aside) : Head(q) = Side
    BY <1>1, SidePath, SideName
  <2> HIDE DEF aside
  <2>2. Inside(aside, aside)
    BY <2>1, InsideOrder
  <2>3. \A q \in Above(aside) : Inside(q, aside)
    BY <2>1, AbovePath
  <2>4. Head(aside) = Side
    BY <1>1, <2>1, <2>2, SidePath, SideName DEF aside
  <2> QED BY <2>1, <2>3, <2>4
<1>3. \A i \in DOMAIN roots : \A q \in Path :
          Inside(roots[i], q) \/ Inside(q, roots[i]) => Head(q) # Side
  BY <1>1, InsideOrder DEF Collision
<1>4. /\ IsTree(quarantine) /\ DOMAIN quarantine \subseteq Path
      /\ \A q \in DOMAIN quarantine :
             \/ \E i \in moved : Pending(i) /\ Covers(i, q)
             \/ Way(q) /\ IsDirectory(quarantine, q)
             \/ Aside(q)
  BY TreeType DEF QuarantineInv
<1>5. ASSUME NEW q \in Path, Inside(q, aside), NEW i \in DOMAIN roots, Back(i),
             Inside(<<Side>> \o roots[i], q)
      PROVE  FALSE
  <2>1. <<Side>> \o roots[i] \in Path
    BY <1>1, SidePath, SideName
  <2>2. Inside(<<Side>> \o roots[i], aside)
    <3> HIDE DEF aside
    <3> QED BY <1>2, <1>5, <2>1, InsideOrder
  <2>3. Inside(roots[i], r)
    BY <1>1, <2>2, SideInside, SideName
  <2>4. i = at
    BY <1>1, <2>3, InsideOrder DEF Shape, Covers
  <2> QED BY <1>1, <1>5, <2>4
<1>6. ASSUME NEW q \in DOMAIN quarantine, Head(q) = Side, Inside(q, aside)
      PROVE  Made(Side, q) /\ IsDirectory(quarantine, q)
  <2>1. q \in Path
    BY <1>4
  <2>2. ~\E i \in moved : Covers(i, q)
    BY <1>3, <1>6, <2>1 DEF Covers, FlagsInv
  <2>3. ~Way(q)
    BY <1>1, <1>3, <1>6, <2>1, AbovePath DEF Way
  <2>4. Aside(q)
    BY <1>4, <2>2, <2>3
  <2> HIDE DEF aside
  <2> QED BY <1>5, <1>6, <2>1, <2>4 DEF Aside
<1>7. Fits(quarantine, aside)
  <2> HIDE DEF aside
  <2> QED BY <1>2, <1>6 DEF Fits, IsDirectory
<1>8. aside \notin DOMAIN quarantine
  <2> SUFFICES ASSUME aside \in DOMAIN quarantine PROVE FALSE
    OBVIOUS
  <2>1. Made(Side, aside)
    <3> HIDE DEF aside
    <3> QED BY <1>2, <1>6, InsideOrder
  <2>2. PICK p \in Path : Way(p) /\ aside = <<Side>> \o p
    BY <1>1, <2>1, SideSame, SideName DEF Made
  <2>3. Way(r)
    BY <1>1, <2>2, SideSame, SideName
  <2>4. Free(r)
    BY <1>1, <2>3 DEF Way, Shape
  <2> QED BY <1>1, <2>4, InsideOrder DEF Free, Covers
<1> QED BY <1>7, <1>8 DEF Blocked, Replaces, Root

\* What taking one operation back makes of the two trees.
LEMMA Retreat ==
    ASSUME IInv, pc \in Backward, UNCHANGED <<origin, plan, flags>>,
           ~Blocked(Side), TakeBack(Side), Side' = Side,
           pc' \notin Forward \cup Unplanned,
           \A i \in DOMAIN roots : /\ Pending(i)' => Pending(i) /\ i # at
                                   /\ Back(i)' => Back(i) \/ i = at,
           pc' \in Backward => \A i \in DOMAIN roots :
               /\ Pending(i) /\ i # at => Pending(i)'
               /\ Back(i) \/ i = at => Back(i)'
    PROVE  LiveInv' /\ QuarantineInv'
<1> USE DEF IInv
<1>1. /\ IsTree(live') /\ IsTree(quarantine')
      /\ \A p \in Path : ~Covers(at, p) => Here(live', p) = Here(live, p)
      /\ ~Collision(Side) =>
             /\ \A p \in Path :
                    Covers(at, p) => Here(live', p) = Here(origin, p)
             /\ \A i \in moved \ {at} : \A p \in Path : Covers(i, p) =>
                    Here(quarantine', p) = Here(quarantine, p)
             /\ \A q \in DOMAIN quarantine' :
                    \/ \E i \in moved \ {at} : Pending(i) /\ Covers(i, q)
                    \/ /\ Way(q) \/ Made(Side, q)
                       /\ IsDirectory(quarantine', q)
                    \/ \E i \in DOMAIN roots :
                           /\ Back(i) \/ i = at
                           /\ Inside(<<Side>> \o roots[i], q)
  BY TakeBackResult, SideName
<1>2. /\ origin' = origin /\ roots' = roots /\ Staged' = Staged
      /\ moved' = moved /\ installed' = installed
      /\ Collision(Side)' = Collision(Side)
  BY DEF plan, flags, Staged, Collision
<1>3. Shape /\ at \in DOMAIN roots /\ moved \subseteq DOMAIN roots
  BY PlanShape DEF Backward, Unplanned, FlagsInv
<1>4. LiveInv'
  <2>1. \A p \in Path : Free(p) => Here(live', p) = Here(origin, p)
    BY <1>1, <1>3 DEF LiveInv, Free
  <2>2. ASSUME NEW i \in DOMAIN roots, NEW p \in Path, Covers(i, p),
               Pending(i)'
        PROVE  Here(live', p) = IF i \in installed THEN Here(Staged, p)
                                ELSE IF i \in moved THEN {}
                                ELSE Here(origin, p)
    <3>1. Pending(i) /\ ~Covers(at, p)
      BY <1>3, <2>2 DEF Shape
    <3> QED BY <1>1, <2>2, <3>1 DEF LiveInv, RootInv
  <2>3. ASSUME NEW i \in DOMAIN roots, NEW p \in Path, Covers(i, p), Back(i)',
               ~Collision(Side)
        PROVE  Here(live', p) = Here(origin, p)
    <3>1. CASE i = at
      BY <1>1, <2>3, <3>1
    <3>2. CASE i # at
      <4>1. Back(i) /\ ~Covers(at, p)
        BY <1>3, <2>3, <3>2 DEF Shape
      <4> QED BY <1>1, <2>3, <4>1 DEF LiveInv, RootInv
    <3> QED BY <3>1, <3>2
  <2> QED BY <1>1, <1>2, <2>1, <2>2, <2>3 DEF LiveInv, RootInv, Free, Covers
<1>5. QuarantineInv'
  <2> SUFFICES ASSUME pc' \in Backward, ~Collision(Side)
               PROVE  /\ Backups'
                      /\ \A q \in DOMAIN quarantine' :
                             \/ \E i \in moved : Pending(i)' /\ Covers(i, q)
                             \/ Way(q) /\ IsDirectory(quarantine', q)
                             \/ Aside(q)'
    BY <1>1, <1>2 DEF QuarantineInv, Way, Covers
  <2>1. Backups'
    <3> SUFFICES ASSUME NEW i \in moved, Pending(i)', NEW p \in Path,
                        Covers(i, p)
                 PROVE  Here(quarantine', p) = Here(origin, p)
      BY <1>2 DEF Backups, Covers
    <3>1. Pending(i) /\ i # at
      BY <1>3
    <3> QED BY <1>1, <3>1 DEF QuarantineInv, Backups
  <2>2. ASSUME NEW q \in DOMAIN quarantine'
        PROVE  \/ \E i \in moved : Pending(i)' /\ Covers(i, q)
               \/ Way(q) /\ IsDirectory(quarantine', q)
               \/ Aside(q)'
    <3>1. CASE \E i \in moved \ {at} : Pending(i) /\ Covers(i, q)
      BY <1>3, <3>1
    <3>2. CASE Way(q) /\ IsDirectory(quarantine', q)
      BY <3>2
    <3>3. CASE Made(Side, q) /\ IsDirectory(quarantine', q)
      BY <1>2, <3>3 DEF Aside, Made, Way
    <3>4. CASE \E i \in DOMAIN roots : /\ Back(i) \/ i = at
                                       /\ Inside(<<Side>> \o roots[i], q)
      BY <1>2, <3>4 DEF Aside
    <3> QED BY <1>1, <3>1, <3>2, <3>3, <3>4
  <2> QED BY <2>1, <2>2
<1> QED BY <1>4, <1>5

----------------------------------------------------------------------------
(* The ends.                                                                 *)

\* When all operations are done the workspace has the planned manifest.
LEMMA AllDone ==
    IInv /\ pc = "verify" => Scan(live) = Staged
<1> SUFFICES ASSUME IInv, pc = "verify" PROVE Scan(live) = Staged
  OBVIOUS
<1> USE DEF IInv
<1>1. Shape /\ IsTree(live)
  BY PlanShape DEF Unplanned, LiveInv
<1>2. IsTree(Scan(live)) /\ IsTree(Staged)
  BY <1>1, TreeScan DEF Shape
<1>3. ASSUME NEW p \in Path, Head(p) \notin Excluded
      PROVE  Here(live, p) = Here(Staged, p)
  <2>1. CASE Free(p)
    BY <1>1, <1>3, <2>1 DEF LiveInv, Shape
  <2>2. ASSUME NEW i \in DOMAIN roots, Covers(i, p)
        PROVE  Here(live, p) = Here(Staged, p)
    <3>1. Here(live, p) = IF i \in installed THEN Here(Staged, p)
                          ELSE IF i \in moved THEN {} ELSE Here(origin, p)
      BY <2>2 DEF LiveInv, RootInv, Pending, Forward
    <3>2. Done(i)
      BY DEF FlagsInv
    <3> QED BY <1>1, <2>2, <3>1, <3>2 DEF Shape, Done
  <2> QED BY <2>1, <2>2 DEF Free
<1>4. \A p : Here(Scan(live), p) =
                 IF Head(p) \in Excluded THEN {} ELSE Here(live, p)
  BY HereOf
<1>5. \A p : Here(Staged, p) =
                 IF Head(p) \in Excluded THEN {} ELSE Here(worktree, p)
  BY HereOf DEF Staged
<1>6. \A p \in Path : Here(Scan(live), p) = Here(Staged, p)
  BY <1>3, <1>4, <1>5
<1> QED BY <1>2, <1>6, HereSame, TreeType

\* A step that renames nothing and ends or turns the commit.
LEMMA Steady ==
    ASSUME IInv, pc \notin Unplanned,
           UNCHANGED <<origin, live, plan, stores, flags>>,
           pc' \in {"committed", "undo", "restore", "restored"},
           pc \in Forward, pc = "committed" => at = Len(roots),
           at' = Len(roots), pc' = "restored" => roots = <<>>, Shape
    PROVE  LiveInv' /\ ApplyInv' /\ QuarantineInv'
<1> USE DEF IInv
<1>1. /\ origin' = origin /\ live' = live /\ roots' = roots /\ Staged' = Staged
      /\ moved' = moved /\ installed' = installed /\ quarantine' = quarantine
  BY DEF plan, stores, flags, Staged
<1>2. pc \in Forward /\ pc \notin Backward
  BY DEF Forward, Backward
<1>3. \A i \in DOMAIN roots : Pending(i) /\ Pending(i)' /\ ~Back(i)'
  BY <1>2 DEF Pending, Back, Forward, Backward, Returned, Shape
<1>4. LiveInv'
  BY <1>1, <1>3 DEF LiveInv, RootInv, Free, Covers
<1>5. ApplyInv'
  BY DEF ApplyInv
<1>6. QuarantineInv'
  <2>1. moved \subseteq DOMAIN roots
    BY DEF FlagsInv
  <2> QED BY <1>1, <1>2, <1>3, <2>1
          DEF QuarantineInv, Backups, Way, Covers
<1> QED BY <1>4, <1>5, <1>6

\* Verification, an exception and the start of a restore.
LEMMA StopStep ==
    ASSUME IInv, Verify \/ Raise \/ RestoreBegin
    PROVE  IInv'
<1> USE DEF IInv
<1>1. /\ pc \in {"move", "install", "verify", "committed"} /\ decision # "deny"
      /\ pc' \in {"committed", "undo", "restore", "restored"}
      /\ UNCHANGED <<origin, live, plan, stores, flags>>
      /\ faulted' \in BOOLEAN
  BY DEF Verify, Raise, RestoreBegin, PlanInv, Unplanned
<1>2. /\ PlanInv' /\ Shape
      /\ origin' = origin /\ roots' = roots /\ base' = base
      /\ Staged' = Staged
      /\ \A p : Remains(p)' = Remains(p) /\ Existed(p)' = Existed(p)
  BY <1>1, PlanKept DEF Unplanned, Label, PlanInv
<1>3. /\ Len(roots) \in Nat /\ DOMAIN roots = 1 .. Len(roots)
      /\ roots = <<>> <=> Len(roots) = 0
  BY <1>2 DEF Shape
<1>4. /\ at' = Len(roots)
      /\ pc = "committed" => at = Len(roots)
      /\ pc' = "restored" => roots = <<>>
      /\ pc' \in {"undo", "restore"} => roots # <<>>
      /\ pc' = "committed" => pc = "verify"
  <2>1. CASE Verify
    BY <2>1, AllDone DEF Verify, Staged
  <2>2. CASE Raise
    BY <2>2 DEF Raise
  <2>3. CASE RestoreBegin
    BY <2>3 DEF RestoreBegin, FlagsInv
  <2> QED BY <2>1, <2>2, <2>3
<1>5. LiveInv' /\ ApplyInv' /\ QuarantineInv'
  <2>1. /\ pc \notin Unplanned
        /\ pc \in Forward /\ (pc = "committed" => at = Len(roots))
    <3>1. pc # "committed" \/ at = Len(roots)
      BY <1>4
    <3>2. pc \in {"move", "install", "verify", "committed"}
      BY <1>1
    <3> HIDE DEF IInv
    <3> QED BY <3>1, <3>2 DEF Forward, Unplanned
  <2>2. UNCHANGED <<origin, live, plan, stores, flags>>
    BY <1>1
  <2> QED BY <1>1, <1>2, <1>4, <2>1, <2>2, Steady
<1>6. FlagsInv'
  <2>1. /\ live' = live /\ moved' = moved /\ installed' = installed
    BY <1>1 DEF flags
  <2>2. pc' = "committed" =>
            Scan(live') = Staged' /\ \A i \in DOMAIN roots : Done(i)
    BY <1>2, <1>4, <2>1, AllDone DEF FlagsInv
  <2>3. \A i : Done(i)' = Done(i)
    BY <1>2, <2>1 DEF Done
  <2>4. pc' \in Backward => at' \in DOMAIN roots'
    BY <1>1, <1>2, <1>3, <1>4 DEF Backward
  <2>5. at' \in (0 .. Len(roots')) \cup {1}
    BY <1>2, <1>3, <1>4
  <2>6. pc' \notin Unplanned \cup {"planned", "move", "install", "verify"}
    BY <1>1 DEF Unplanned
  <2> QED BY <1>1, <1>2, <1>4, <2>1, <2>2, <2>3, <2>4, <2>5, <2>6 DEF FlagsInv
<1>7. FailureInv'
  <2>1. ASSUME roots = <<>> PROVE live' = origin'
    <3>1. \A p \in Path : Here(live, p) = Here(origin, p)
      BY <2>1 DEF LiveInv, Free
    <3>2. live = origin
      BY <1>2, <3>1, HereSame, TreeType DEF LiveInv, Shape
    <3> QED BY <1>1, <3>2
  <2> QED BY <1>1, <1>4, <2>1 DEF FailureInv
<1> QED BY <1>2, <1>5, <1>6, <1>7

\* What one step backwards preserves.
LEMMA BackStep ==
    ASSUME IInv, pc \in Backward,
           UNCHANGED <<origin, plan, apply, flags, faulted>>,
           pc' \in Backward \cup Returned \cup {"restore_failed"},
           Side' = Side,
           \/ ~Blocked(Side) /\ TakeBack(Side)
           \/ Blocked(Side) /\ UNCHANGED <<live, quarantine>>,
           \/ pc' \in Backward /\ at # 1 /\ at' = at - 1
           \/ pc' \notin Backward /\ at = 1 /\ at' = at
           \/ pc' = "restore_failed" /\ Blocked(Side) /\ at' = at
    PROVE  /\ PlanInv' /\ FlagsInv' /\ LiveInv' /\ ApplyInv' /\ QuarantineInv'
           /\ Shape /\ origin' = origin /\ roots' = roots /\ base' = base
           /\ Collision(Side)' = Collision(Side)
           /\ Blocked(Side) => Collision(Side)
<1> USE DEF IInv
<1>1. /\ pc \in {"undo", "undo_failed", "restore"}
      /\ pc' \in {"undo", "undo_failed", "restore", "rolled_back",
                  "rollback_failed", "restored", "restore_failed"}
  BY DEF Backward, Returned
<1>2. /\ UNCHANGED <<origin, plan>> /\ faulted' \in BOOLEAN
      /\ pc \notin Unplanned /\ pc' \notin Unplanned /\ pc' \in Label
      /\ pc' \notin Forward /\ decision # "deny" /\ pc' # "planned"
  BY <1>1 DEF Unplanned, Label, Forward, PlanInv
<1>3. /\ PlanInv' /\ Shape
      /\ origin' = origin /\ roots' = roots /\ base' = base
      /\ Staged' = Staged
      /\ \A p : Remains(p)' = Remains(p) /\ Existed(p)' = Existed(p)
  BY <1>2, PlanKept
<1>4. /\ moved' = moved /\ installed' = installed
      /\ at \in DOMAIN roots /\ DOMAIN roots = 1 .. Len(roots)
      /\ Len(roots) \in Nat
  BY <1>3 DEF flags, FlagsInv, Shape
<1>5. Collision(Side)' = Collision(Side)
  BY <1>3 DEF Collision
<1>6. Blocked(Side) => Collision(Side)
  BY NeverBlocked
<1>7. /\ at' \in DOMAIN roots
      /\ \A i \in DOMAIN roots : /\ Pending(i)' => Pending(i) /\ i # at
                                 /\ Back(i)' => Back(i) \/ i = at
      /\ pc' \in Backward => \A i \in DOMAIN roots :
             /\ Pending(i) /\ i # at => Pending(i)'
             /\ Back(i) \/ i = at => Back(i)'
  <2>1. /\ at' \in DOMAIN roots
        /\ pc' \in Backward => at' = at - 1
        /\ pc' \in Returned => at = 1
    <3>1. "restore_failed" \notin Backward \cup Returned
      BY DEF Backward, Returned
    <3>2. \A l \in Returned : l \notin Backward
      BY DEF Backward, Returned
    <3> QED BY <1>4, <3>1, <3>2
  <2>2. /\ \A i : Pending(i) <=> i <= at
        /\ \A i : Back(i) <=> i > at
    BY <1>1 DEF Pending, Back, Forward, Backward, Returned
  <2>3. /\ \A i : Pending(i)' <=> pc' \in Backward /\ i <= at'
        /\ \A i : Back(i)' <=>
               pc' \in Returned \/ (pc' \in Backward /\ i > at')
    BY <1>2 DEF Pending, Back
  <2> QED BY <1>4, <2>1, <2>2, <2>3
<1>8. FlagsInv'
  <2>1. pc' \notin {"planned", "move", "install", "verify", "committed"}
    BY <1>2 DEF Forward
  <2> QED BY <1>2, <1>3, <1>4, <1>7, <2>1 DEF FlagsInv
<1>9. ApplyInv'
  BY <1>1 DEF ApplyInv
<1>10. LiveInv' /\ QuarantineInv'
  <2>1. CASE ~Blocked(Side) /\ TakeBack(Side)
    <3>1. /\ pc' \notin Forward \cup Unplanned
          /\ UNCHANGED <<origin, plan, flags>>
      BY <1>2
    <3> QED BY <1>7, <2>1, <3>1, Retreat
  <2>2. CASE Blocked(Side) /\ UNCHANGED <<live, quarantine>>
    <3>1. live' = live /\ quarantine' = quarantine /\ Collision(Side)'
      BY <1>5, <1>6, <2>2
    <3>2. LiveInv'
      BY <1>3, <1>4, <1>7, <3>1 DEF LiveInv, RootInv, Free, Covers
    <3> QED BY <1>2, <3>1, <3>2 DEF QuarantineInv
  <2> QED BY <2>1, <2>2
<1> QED BY <1>3, <1>5, <1>6, <1>8, <1>9, <1>10

\* Rollback goes on after an error.
LEMMA UndoStep ==
    ASSUME IInv, Undo
    PROVE  IInv'
<1>1. /\ pc \in {"undo", "undo_failed"}
      /\ pc' \in {"undo", "undo_failed", "rolled_back", "rollback_failed"}
      /\ UNCHANGED <<origin, plan, apply, flags, faulted>>
      /\ \/ ~Blocked(FailedNew) /\ TakeBack(FailedNew)
         \/ Blocked(FailedNew) /\ UNCHANGED <<live, quarantine>>
      /\ \/ at # 1 /\ at' = at - 1 /\ pc' \in {"undo", "undo_failed"}
         \/ at = 1 /\ at' = at /\ pc' \in {"rolled_back", "rollback_failed"}
      /\ pc' \in {"undo_failed", "rollback_failed"} =>
             pc = "undo_failed" \/ Blocked(FailedNew)
  BY DEF Undo, Previous
<1>2. Side = FailedNew /\ Side' = Side
  BY <1>1 DEF Side
<1>3. /\ pc \in Backward
      /\ pc' \in Backward \cup Returned \cup {"restore_failed"}
      /\ \/ pc' \in Backward /\ at # 1 /\ at' = at - 1
         \/ pc' \notin Backward /\ at = 1 /\ at' = at
  BY <1>1 DEF Backward, Returned
<1>4. /\ PlanInv' /\ FlagsInv' /\ LiveInv' /\ ApplyInv' /\ QuarantineInv'
      /\ Collision(Side)' = Collision(Side)
      /\ Blocked(Side) => Collision(Side)
  BY <1>1, <1>2, <1>3, BackStep
<1>5. FailureInv'
  BY <1>1, <1>2, <1>4 DEF FailureInv, IInv
<1> QED BY <1>4, <1>5 DEF IInv

\* Restore stops at an error, and checks the manifest in the end.
LEMMA RestoreStep ==
    ASSUME IInv, Restore
    PROVE  IInv'
<1>1. /\ pc = "restore"
      /\ pc' \in {"restore", "restored", "restore_failed"}
      /\ UNCHANGED <<origin, plan, apply, flags, faulted>>
      /\ \/ ~Blocked(RestoreCurrent) /\ TakeBack(RestoreCurrent)
         \/ Blocked(RestoreCurrent) /\ UNCHANGED <<live, quarantine>>
      /\ \/ at # 1 /\ at' = at - 1 /\ pc' = "restore"
         \/ /\ at = 1 /\ at' = at /\ TakeBack(RestoreCurrent)
            /\ ~Blocked(RestoreCurrent)
            /\ pc' = IF Scan(live') = base THEN "restored"
                     ELSE "restore_failed"
         \/ /\ pc' = "restore_failed" /\ Blocked(RestoreCurrent)
            /\ at' = at
  BY DEF Restore, Previous
<1>2. Side = RestoreCurrent /\ Side' = Side
  BY <1>1 DEF Side
<1>3. /\ pc \in Backward
      /\ pc' \in Backward \cup Returned \cup {"restore_failed"}
      /\ \/ pc' \in Backward /\ at # 1 /\ at' = at - 1
         \/ pc' \notin Backward /\ at = 1 /\ at' = at
         \/ pc' = "restore_failed" /\ Blocked(Side) /\ at' = at
  BY <1>1, <1>2 DEF Backward, Returned
<1>4. /\ PlanInv' /\ FlagsInv' /\ LiveInv' /\ ApplyInv' /\ QuarantineInv'
      /\ Shape /\ origin' = origin /\ roots' = roots /\ base' = base
      /\ Collision(Side)' = Collision(Side)
      /\ Blocked(Side) => Collision(Side)
  BY <1>1, <1>2, <1>3, BackStep
<1>5. base = Scan(origin) /\ IsTree(origin) /\ IsTree(live')
  <2>1. pc \notin Begun
    BY <1>1 DEF Begun
  <2> QED BY <1>4, <2>1 DEF IInv, PlanInv, LiveInv, Shape
\* Where the manifest is as it was, the tree is.
<1>6. ASSUME Scan(live') = base PROVE live' = origin
  <2>1. ASSUME NEW p \in Path PROVE Here(live', p) = Here(origin, p)
    <3>1. CASE Head(p) \in Excluded
      <4>1. Free(p)
        <5> SUFFICES ASSUME NEW i \in DOMAIN roots, Covers(i, p) PROVE FALSE
          BY DEF Free
        <5>1. roots[i] \in Path /\ Head(roots[i]) \notin Excluded
          BY <1>4 DEF Shape
        <5>2. Head(roots[i]) = Head(p)
          BY <5>1, InsideOrder DEF Covers
        <5> QED BY <3>1, <5>1, <5>2
      <4> QED BY <1>4, <4>1 DEF LiveInv, Free, Covers
    <3>2. CASE Head(p) \notin Excluded
      <4>1. Here(Scan(live'), p) = Here(live', p)
        BY <3>2, HereOf
      <4>2. Here(Scan(origin), p) = Here(origin, p)
        BY <3>2, HereOf
      <4> QED BY <1>5, <1>6, <4>1, <4>2
    <3> QED BY <3>1, <3>2
  <2> QED BY <1>5, <2>1, HereSame, TreeType
<1>7. ASSUME pc' = "restore_failed" PROVE Collision(Side)
  <2> SUFFICES ASSUME ~Collision(Side) PROVE FALSE
    OBVIOUS
  <2>1. /\ at = 1 /\ TakeBack(Side) /\ ~Blocked(Side) /\ Scan(live') # base
    BY <1>1, <1>2, <1>4, <1>7
  <2>2. /\ \A p \in Path : ~Covers(at, p) => Here(live', p) = Here(live, p)
        /\ \A p \in Path : Covers(at, p) => Here(live', p) = Here(origin, p)
    BY <1>2, <1>3, <2>1, TakeBackResult, SideName
  <2>3. \A i \in DOMAIN roots : i # at => Back(i)
    BY <1>1, <1>4, <2>1 DEF Back, Backward, Shape
  <2>4. \A p \in Path : Here(live', p) = Here(origin, p)
    BY <2>2, <2>3 DEF IInv, LiveInv, RootInv, Free
  <2>5. live' = origin
    BY <1>5, <2>4, HereSame, TreeType
  <2> QED BY <1>5, <2>1, <2>5
<1>8. FailureInv'
  <2>1. pc' = "restored" => Scan(live') = base
    BY <1>1
  <2> QED BY <1>1, <1>4, <1>6, <1>7, <2>1 DEF FailureInv
<1> QED BY <1>4, <1>8 DEF IInv

\* The invariant is about the variables of vars.
LEMMA Stutter ==
    ASSUME IInv, UNCHANGED vars
    PROVE  IInv'
<1>1. /\ origin' = origin /\ live' = live /\ worktree' = worktree
      /\ base' = base /\ decision' = decision /\ roots' = roots
      /\ apply' = apply /\ quarantine' = quarantine /\ at' = at
      /\ moved' = moved /\ installed' = installed /\ pc' = pc
      /\ faulted' = faulted
  BY DEF vars, plan, flags, stores
<1> USE DEF IInv
<1>2. PlanInv' /\ Staged' = Staged
  BY <1>1 DEF PlanInv, Staged
<1>3. \A p : /\ Existed(p)' = Existed(p) /\ Remains(p)' = Remains(p)
             /\ Free(p)' = Free(p)
  BY <1>1 DEF Existed, Remains, Free, Covers
<1>4. /\ \A i : /\ Pending(i)' = Pending(i) /\ Back(i)' = Back(i)
               /\ Done(i)' = Done(i) /\ Untouched(i)' = Untouched(i)
      /\ \A i, p : Covers(i, p)' = Covers(i, p)
      /\ Side' = Side /\ Collision(Side)' = Collision(Side)
  BY <1>1, <1>3 DEF Pending, Back, Done, Untouched, Covers, Side, Collision
<1>5. FlagsInv'
  BY <1>1, <1>2, <1>3, <1>4 DEF FlagsInv, Done, Untouched
<1>6. LiveInv' /\ ApplyInv'
  BY <1>1, <1>2, <1>3, <1>4
     DEF LiveInv, RootInv, ApplyInv, Covers, Pending, Back
<1>7. QuarantineInv'
  BY <1>1, <1>4 DEF QuarantineInv, Backups, Aside, Made, Way, Pending, Back,
                    Covers
<1>8. FailureInv'
  BY <1>1, <1>4 DEF FailureInv
<1> QED BY <1>2, <1>5, <1>6, <1>7, <1>8

\* Every reachable state satisfies the invariant.
THEOREM Inductive == Spec => []IInv
<1>1. ASSUME IInv, [Next]_vars PROVE IInv'
  <2>1. CASE Next
    BY <1>1, <2>1, EarlyStep, PlanStep, CommitStep, MoveBackupStep,
       InstallStep, StopStep, UndoStep, RestoreStep DEF Next
  <2> QED BY <1>1, <2>1, Stutter
<1> QED BY <1>1, InitInv, PTL DEF Spec

----------------------------------------------------------------------------
(* The properties.                                                           *)

\* Every variable has its type; the workspace is a tree after every step.
THEOREM TypeCorrect == Spec => []TypeOK
<1>1. ASSUME IInv PROVE TypeOK
  <2> USE <1>1 DEF IInv
  <2>1. IsTree(live) /\ IsTree(worktree) /\ IsTree(quarantine)
    BY DEF PlanInv, LiveInv, QuarantineInv
  <2>2. IsTree(base)
    BY EmptyTree, TreesFinite, TreeScan DEF PlanInv
  <2>3. decision \in {"none", "allow", "require_approval", "deny"}
    BY DEF PlanInv, Evaluate
  <2> QED BY <2>1, <2>2, <2>3 DEF TypeOK, PlanInv, FlagsInv
<1> QED BY <1>1, Inductive, PTL

\* Each rename of a commit finds its source, and its destination free in an
\* existing directory.
THEOREM RenamesAlwaysLand == Spec => []RenamesLand
<1>1. ASSUME IInv, pc \in {"move", "install"} PROVE RenamesLand
  <2> USE <1>1 DEF IInv
  <2>1. Shape /\ at \in DOMAIN roots /\ base = Scan(origin)
    BY PlanShape DEF Unplanned, Begun, FlagsInv, PlanInv
  <2>2. Root \in Path /\ Covers(at, Root)
    BY <2>1, InsideOrder DEF Shape, Root, Covers
  <2>3. Here(live, Root) = IF at \in installed THEN Here(Staged, Root)
                           ELSE IF at \in moved THEN {} ELSE Here(origin, Root)
    BY <2>1, <2>2 DEF LiveInv, RootInv, Pending, Forward
  <2>4. CASE pc = "move"
    <3>1. Here(live, Root) = Here(origin, Root)
      BY <2>3, <2>4 DEF FlagsInv, Untouched
    <3>2. Existed(Root) => Root \in DOMAIN origin
      BY <2>1 DEF Existed, Scan, Restrict
    <3> QED BY <2>4, <3>1, <3>2 DEF RenamesLand, Here
  <2>5. CASE pc = "install"
    <3>1. at \notin installed /\ (Existed(Root) <=> at \in moved)
      BY <2>5 DEF FlagsInv, Root
    <3>2. ~Existed(Root) => Here(origin, Root) = {}
      BY <2>1, <2>2 DEF Shape, Root
    <3>3. Root \notin DOMAIN live
      BY <2>3, <3>1, <3>2 DEF Here
    <3>4. Here(apply, Root) = Here(Staged, Root)
      BY <2>1, <2>2, <3>1 DEF ApplyInv
    <3>5. Remains(Root) => Root \in DOMAIN apply
      BY <3>4 DEF Here, Remains, Staged
    <3>6. ASSUME NEW q \in Above(Root) PROVE IsDirectory(live, q)
      <4>1. q \in Path /\ Free(q) /\ IsDirectory(origin, q)
        BY <2>1, <3>6 DEF Shape, Root
      <4>2. Here(live, q) = Here(origin, q)
        BY <4>1 DEF LiveInv
      <4> QED BY <4>1, <4>2 DEF IsDirectory, Here
    <3> QED BY <2>5, <3>3, <3>5, <3>6 DEF RenamesLand
  <2> QED BY <2>4, <2>5
<1>2. ASSUME IInv PROVE RenamesLand
  <2>1. pc \notin {"move", "install"} => RenamesLand
    BY DEF RenamesLand
  <2> QED BY <1>1, <1>2, <2>1
<1> QED BY <1>2, Inductive, PTL

\* Outside the roots an entry of the workspace stays as it was.
LEMMA Outside ==
    ASSUME IInv, NEW p \in DOMAIN origin,
           pc \in Unplanned \/ Free(p)
    PROVE  p \in DOMAIN live /\ live[p] = origin[p]
<1>1. CASE pc \in Unplanned
  BY <1>1 DEF IInv, PlanInv
<1>2. CASE Free(p)
  <2>1. p \in Path
    BY TreesFinite DEF IInv, PlanInv, IsTree
  <2>2. Here(live, p) = Here(origin, p)
    BY <1>2, <2>1 DEF IInv, LiveInv
  <2> QED BY <2>2 DEF Here
<1> QED BY <1>1, <1>2

\* No root covers an excluded name.
LEMMA ExcludedFree ==
    ASSUME IInv, pc \notin Unplanned, NEW p \in Path, Head(p) \in Excluded
    PROVE  Free(p)
<1> SUFFICES ASSUME NEW i \in DOMAIN roots, Covers(i, p) PROVE FALSE
  BY DEF Free
<1>1. roots[i] \in Path /\ Head(roots[i]) \notin Excluded
  BY PlanShape DEF IInv, Shape
<1>2. Head(roots[i]) = Head(p)
  BY <1>1, InsideOrder DEF Covers
<1> QED BY <1>1, <1>2

\* When all roots are renamed the workspace has the planned manifest, and
\* excluded entries are never touched.
THEOREM RootsAlwaysSuffice == Spec => []RootsSuffice
<1>1. ASSUME IInv PROVE RootsSuffice
  <2>1. ASSUME NEW p \in DOMAIN origin, Head(p) \in Excluded
        PROVE  p \in DOMAIN live /\ live[p] = origin[p]
    <3>1. p \in Path
      BY <1>1, TreesFinite DEF IInv, PlanInv, IsTree
    <3> QED BY <1>1, <2>1, <3>1, Outside, ExcludedFree
  <2>2. pc = "verify" => Scan(live) = Scan(worktree)
    BY <1>1, AllDone DEF Staged
  <2> QED BY <2>1, <2>2 DEF RootsSuffice
<1> QED BY <1>1, Inductive, PTL

\* Rollback and restore bring back the whole tree, unless a root has the name
\* of their own directory.
THEOREM ReturnsWhole == Spec => []Reversible
<1>1. ASSUME IInv PROVE Reversible
  <2> USE <1>1 DEF IInv
  <2>1. ASSUME pc = "rolled_back", ~Collision(FailedNew) PROVE live = origin
    <3>1. Shape /\ Side = FailedNew
      BY <2>1, PlanShape DEF Unplanned, Side
    <3>2. ASSUME NEW p \in Path PROVE Here(live, p) = Here(origin, p)
      <4>1. \A i \in DOMAIN roots : Back(i)
        BY <2>1 DEF Back, Returned
      <4> QED BY <2>1, <3>1, <4>1 DEF LiveInv, RootInv, Free
    <3> QED BY <3>1, <3>2, HereSame, TreeType DEF LiveInv, Shape
  <2>2. /\ pc \in {"undo_failed", "rollback_failed"} => Collision(FailedNew)
        /\ pc = "restore_failed" => Collision(RestoreCurrent)
    BY DEF FailureInv, Side
  <2> QED BY <2>1, <2>2 DEF Reversible, FailureInv
<1> QED BY <1>1, Inductive, PTL

\* What is committed without approval takes nothing from the workspace: all its
\* changes are additions, so no root covers an entry.
THEOREM AllowedKeepsAll == Spec => []AutomaticKeepsAll
<1>1. ASSUME IInv, decision = "allow", NEW p \in DOMAIN origin
      PROVE  p \in DOMAIN live /\ live[p] = origin[p]
  <2> USE <1>1 DEF IInv
  <2>1. pc \notin Unplanned
    BY DEF PlanInv
  <2>2. /\ IsTree(origin) /\ IsFiniteSet(DOMAIN origin)
        /\ IsTree(worktree) /\ IsFiniteSet(DOMAIN worktree)
        /\ base = Scan(origin) /\ roots = OperationRoots(base, Staged)
        /\ Evaluate(base, Staged) = "allow"
    BY <2>1, TreesFinite DEF PlanInv, Unplanned, Begun
  <2>3. /\ IsTree(base) /\ IsFiniteSet(DOMAIN base)
        /\ IsTree(Staged) /\ IsFiniteSet(DOMAIN Staged)
    BY <2>2, TreeScan, ScanFinite DEF Staged
  <2>4. roots \in Seq(Diff(base, Staged))
    BY <2>2, <2>3, RootsOfTrees
  <2>5. \A q \in Diff(base, Staged) : q \notin DOMAIN base
    <3>1. ~Destructive(base, Staged)
      BY <2>2 DEF Evaluate
    <3> QED BY <3>1 DEF Destructive, ChangeKind
  <2>6. p \in Path /\ Shape
    BY <2>1, <2>2, PlanShape DEF IsTree
  <2>7. Free(p)
    <3> SUFFICES ASSUME NEW i \in DOMAIN roots, Covers(i, p) PROVE FALSE
      BY DEF Free
    <3>1. ~Existed(roots[i])
      BY <2>4, <2>5 DEF Existed
    <3>2. Here(origin, p) = {}
      BY <2>6, <3>1 DEF Shape
    <3> QED BY <3>2 DEF Here
  <2> QED BY <2>7, Outside
<1>2. IInv => AutomaticKeepsAll
  BY <1>1 DEF AutomaticKeepsAll
<1> QED BY <1>2, Inductive, PTL

\* No commit ends with the limit's share of the baseline entries gone.
THEOREM DeniesMassLoss == Spec => []NoMassLoss
<1>1. ASSUME IInv, pc = "committed" PROVE NoMassLoss
  <2> USE <1>1 DEF IInv
  <2>1. /\ base = Scan(origin) /\ decision # "deny"
        /\ decision = Evaluate(base, Staged) /\ Scan(live) = Staged
    BY DEF PlanInv, FlagsInv, Unplanned, Begun
  <2>2. ~MassDelete(base, Staged)
    BY <2>1 DEF Evaluate, HardDeny
  <2> DEFINE gone == DOMAIN Scan(origin) \ DOMAIN live
             g == Cardinality(gone)
             b == Cardinality(DOMAIN Scan(origin))
  <2>3. DOMAIN base \ DOMAIN Staged = gone
    BY <2>1 DEF Scan, Restrict
  <2>4. IsFiniteSet(DOMAIN base) /\ IsFiniteSet(gone)
    <3>1. IsFiniteSet(DOMAIN base)
      BY <2>1, TreesFinite, ScanFinite DEF PlanInv
    <3>2. gone \in SUBSET DOMAIN base
      BY <2>1
    <3> QED BY <3>1, <3>2, FS_Subset
  <2>5. g \in Nat /\ b \in Nat /\ (gone # {} => g > 0)
    BY <2>1, <2>4, FS_CardinalityType, FS_EmptySet
  <2>6. ~(/\ b >= Limits.baseline /\ g > 0
          /\ \/ g >= Limits.deletes
             \/ g * Limits.den >= Limits.num * b)
    BY <2>1, <2>2, <2>3 DEF MassDelete
  <2>7. /\ Limits.deletes \in Nat /\ Limits.baseline \in Nat
        /\ g * Limits.den \in Nat /\ Limits.num * b \in Nat
    BY <2>5, LimitsAssumption
  <2> HIDE DEF g, b, gone
  <2>8. gone # {} /\ b >= Limits.baseline =>
            g < Limits.deletes /\ g * Limits.den < Limits.num * b
    BY <2>5, <2>6, <2>7
  <2> QED BY <2>8 DEF NoMassLoss, g, b, gone
<1>2. IInv => NoMassLoss
  BY <1>1 DEF NoMassLoss
<1> QED BY <1>2, Inductive, PTL

\* The workspace has what a copy cannot have.
Uncopied(t) == \E p \in DOMAIN t :
                   /\ Head(p) \notin Excluded
                   /\ \/ \E i \in DOMAIN p : p[i] \in Excluded
                      \/ t[p].kind = "special"

\* Only then is the copy not made or has another manifest.
LEMMA CopyDiffers ==
    ASSUME NEW t, IsTree(t)
    PROVE  Copyable(t) /\ Scan(Copy(t)) = Scan(t) <=> ~Uncopied(t)
<1> DEFINE Deep(p) == \E i \in DOMAIN p : p[i] \in Excluded
<1>1. /\ DOMAIN Scan(Copy(t)) =
             {p \in DOMAIN t : Head(p) \notin Excluded /\ ~Deep(p)}
      /\ DOMAIN Scan(t) = {p \in DOMAIN t : Head(p) \notin Excluded}
      /\ DOMAIN Copy(t) = {p \in DOMAIN t : ~Deep(p)}
      /\ \A p \in DOMAIN Scan(Copy(t)) : Scan(Copy(t))[p] = t[p]
      /\ \A p \in DOMAIN Scan(t) : Scan(t)[p] = t[p]
  BY DEF Scan, Copy, Restrict
<1>2. /\ Scan(t) = [p \in DOMAIN Scan(t) |-> Scan(t)[p]]
      /\ Scan(Copy(t)) = [p \in DOMAIN Scan(Copy(t)) |-> Scan(Copy(t))[p]]
  BY DEF Scan, Restrict
<1>3. DOMAIN Scan(Copy(t)) = DOMAIN Scan(t) <=> Scan(Copy(t)) = Scan(t)
  BY <1>1, <1>2
<1>4. \A p \in DOMAIN t : Head(p) \in Excluded => Deep(p)
  <2> SUFFICES ASSUME NEW p \in DOMAIN t, Head(p) \in Excluded PROVE Deep(p)
    OBVIOUS
  <2>1. p \in Seq(Name) /\ p # <<>>
    BY DEF IsTree, Path
  <2>2. 1 \in DOMAIN p /\ Head(p) = p[1]
    BY <2>1
  <2> QED BY <2>2
<1>5. Uncopied(t) <=> \E p \in DOMAIN t : /\ Head(p) \notin Excluded
                                          /\ Deep(p) \/ t[p].kind = "special"
  BY <1>1 DEF Uncopied
<1>6. Copyable(t) <=> \A p \in DOMAIN t : ~Deep(p) => t[p].kind # "special"
  BY <1>1 DEF Copyable
<1> HIDE DEF Deep
<1> QED BY <1>1, <1>3, <1>4, <1>5, <1>6

\* As far as names and kinds go, begin refuses a workspace that holds still if
\* and only if it has an excluded name below its top or a special file.
THEOREM RefusalsAreUncopied == Spec => []RefusesUncopied
<1> DEFINE R == pc # "begin" => (pc = "refused" <=> Uncopied(origin))
<1>1. Init => R
  BY DEF Init
<1>2. ASSUME IInv, R, [Next]_vars PROVE R'
  <2>1. CASE Begin
    <3>1. live = origin /\ origin' = origin /\ IsTree(live)
      BY <1>2, <2>1 DEF Begin, IInv, PlanInv, LiveInv, Begun, Unplanned
    <3>2. Copyable(live) /\ Scan(Copy(live)) = Scan(live) <=> ~Uncopied(origin)
      BY <3>1, CopyDiffers
    <3>3. \/ pc' = "open" /\ ~Uncopied(origin)
          \/ pc' = "refused" /\ Uncopied(origin)
      BY <2>1, <3>2 DEF Begin
    <3> QED BY <3>1, <3>3
  <2>2. CASE ~Begin
    <3>1. origin' = origin
      BY <1>2, <2>2 DEF Next, vars, Work, Plan, Commit, MoveBackup, Install,
           Verify, Raise, Undo, RestoreBegin, Restore
    <3>2. pc' = "begin" => pc = "begin"
      BY <1>2, <2>2 DEF Next, vars, Work, Plan, Commit, MoveBackup, Install,
           Verify, Raise, Undo, RestoreBegin, Restore, Previous
    <3>3. pc # "begin" => (pc' = "refused" <=> pc = "refused")
      BY <1>2, <2>2 DEF Next, vars, Work, Plan, Commit, MoveBackup, Install,
           Verify, Raise, Undo, RestoreBegin, Restore, Previous
    <3>4. pc = "begin" => pc' = "begin"
      BY <1>2, <2>2 DEF Next, vars, Work, Plan, Commit, MoveBackup, Install,
           Verify, Raise, Undo, RestoreBegin, Restore, Previous
    <3> QED BY <1>2, <3>1, <3>2, <3>3, <3>4
  <2> QED BY <2>1, <2>2
<1>3. R => RefusesUncopied
  BY DEF RefusesUncopied, Uncopied
<1> QED BY <1>1, <1>2, <1>3, Inductive, PTL DEF Spec

----------------------------------------------------------------------------
(* Links.                                                                    *)

\* The stops of Walk exist, by induction on their number.
LEMMA WalkStops ==
    ASSUME NEW from, NEW target, Len(target) \in Nat
    PROVE  \E stop :
               /\ Walk(from, target) = stop[Len(target)]
               /\ stop[0] = [inside |-> TRUE, path |-> from]
               /\ \A n \in 1 .. Len(target) :
                      stop[n] = Follow(stop[n - 1], target[n])
<1> DEFINE L == Len(target)
           start == [inside |-> TRUE, path |-> from]
           Is(f, m) == f = [n \in 0 .. m |-> IF n = 0 THEN start
                                ELSE Follow(f[n - 1], target[n])]
           T == {m \in 0 .. L : ~\E f : Is(f, m)}
<1> HIDE DEF start
<1>1. T = {}
  <2> SUFFICES ASSUME T # {} PROVE FALSE
    OBVIOUS
  <2>1. PICK m \in T : \A k \in T : m <= k
    <3>1. T \subseteq Nat
      OBVIOUS
    <3> HIDE DEF T
    <3> QED BY <3>1, NatMin
  <2>2. CASE m = 0
    <3>1. Is([n \in 0 .. 0 |-> start], 0)
      OBVIOUS
    <3> QED BY <2>1, <2>2, <3>1
  <2>3. CASE m # 0
    <3>1. m - 1 \in 0 .. L /\ m \in 0 .. L /\ m - 1 \notin T
      BY <2>1, <2>3
    <3>2. PICK f : Is(f, m - 1)
      BY <3>1
    <3> DEFINE h == [n \in 0 .. m |-> IF n < m THEN f[n]
                                      ELSE Follow(f[m - 1], target[m])]
    <3>3. \A n \in 0 .. m - 1 : f[n] = IF n = 0 THEN start
                                       ELSE Follow(f[n - 1], target[n])
      BY <3>2
    <3>4. h = [n \in 0 .. m |-> IF n = 0 THEN start
                                ELSE Follow(h[n - 1], target[n])]
      BY <2>3, <3>1, <3>3
    <3> HIDE DEF h
    <3> QED BY <2>1, <3>4
  <2> QED BY <2>2, <2>3
<1>2. PICK g : Is(g, L)
  BY <1>1
<1> DEFINE stop == CHOOSE f : Is(f, L)
<1>3. Is(stop, L)
  BY <1>2
<1>4. Walk(from, target) = stop[L]
  BY DEF Walk, start
<1> HIDE DEF stop
<1>5. /\ stop[0] = start
      /\ \A n \in 1 .. L : stop[n] = Follow(stop[n - 1], target[n])
  BY <1>3
<1> QED BY <1>4, <1>5 DEF start

\* The steps up among the first n.
Ups(target, n) == {i \in 1 .. n : target[i] = Up}

\* Counting them.
LEMMA UpsNext ==
    ASSUME NEW target, NEW n \in Nat
    PROVE  /\ Cardinality(Ups(target, n)) \in Nat
           /\ Cardinality(Ups(target, 0)) = 0
           /\ Cardinality(Ups(target, n + 1)) =
                  IF target[n + 1] = Up THEN Cardinality(Ups(target, n)) + 1
                  ELSE Cardinality(Ups(target, n))
<1>1. IsFiniteSet(Ups(target, n))
  <2>1. IsFiniteSet(1 .. n) /\ Ups(target, n) \in SUBSET (1 .. n)
    BY FS_Interval DEF Ups
  <2> QED BY <2>1, FS_Subset
<1>2. Ups(target, 0) = {}
  BY DEF Ups
<1>3. Ups(target, n + 1) = IF target[n + 1] = Up
                           THEN Ups(target, n) \cup {n + 1}
                           ELSE Ups(target, n)
  BY DEF Ups
<1>4. n + 1 \notin Ups(target, n)
  BY DEF Ups
<1>5. Cardinality(Ups(target, n) \cup {n + 1}) =
          Cardinality(Ups(target, n)) + 1
  BY <1>1, <1>4, FS_AddElement
<1>6. Cardinality(Ups(target, n)) \in Nat
  BY <1>1, FS_CardinalityType
<1> QED BY <1>2, <1>3, <1>5, <1>6, FS_EmptySet

\* A sequence without its last element.
LEMMA FrontSeq ==
    ASSUME NEW S, NEW s \in Seq(S), s # <<>>
    PROVE  Front(s) \in Seq(S) /\ Len(Front(s)) = Len(s) - 1
<1>1. Len(s) \in Nat /\ Len(s) # 0
  OBVIOUS
<1>2. Len(s) - 1 \in Nat /\ Len(s) - 1 <= Len(s)
  BY <1>1
<1>3. \A i \in 1 .. Len(s) - 1 : s[i] \in S
  BY <1>1
<1>4. SubSeq(s, 1, Len(s) - 1) = [i \in 1 .. Len(s) - 1 |-> s[i]]
  BY <1>1
<1>5. SubSeq(s, 1, Len(s) - 1) \in [1 .. Len(s) - 1 -> S]
  BY <1>3, <1>4
<1>6. \A n \in Nat : \A f \in [1 .. n -> S] : f \in Seq(S) /\ Len(f) = n
  OBVIOUS
<1> QED BY <1>2, <1>5, <1>6 DEF Front

\* A step changes the depth by one, or leaves the workspace for good.
LEMMA FollowStep ==
    ASSUME NEW here \in [inside : BOOLEAN, path : Seq(Name)],
           NEW name \in Name \cup {Up}
    PROVE  /\ Follow(here, name) \in [inside : BOOLEAN, path : Seq(Name)]
           /\ Follow(here, name).inside =>
                  /\ here.inside
                  /\ Len(Follow(here, name).path) =
                         IF name = Up THEN Len(here.path) - 1
                         ELSE Len(here.path) + 1
<1>1. here.path \in Seq(Name) /\ Len(here.path) \in Nat
  OBVIOUS
<1>2. CASE ~here.inside
  BY <1>2 DEF Follow
<1>3. CASE here.inside /\ name # Up
  <2>1. Append(here.path, name) \in Seq(Name)
           /\ Len(Append(here.path, name)) = Len(here.path) + 1
    BY <1>3
  <2>2. Follow(here, name) = [here EXCEPT !.path = Append(here.path, name)]
    BY <1>3 DEF Follow
  <2> QED BY <1>3, <2>1, <2>2
<1>4. CASE here.inside /\ name = Up /\ here.path = <<>>
  <2>1. Follow(here, name) = [here EXCEPT !.inside = FALSE]
    BY <1>4 DEF Follow
  <2> QED BY <2>1
<1>5. CASE here.inside /\ name = Up /\ here.path # <<>>
  <2>1. /\ Front(here.path) \in Seq(Name)
        /\ Len(Front(here.path)) = Len(here.path) - 1
    BY <1>5, FrontSeq
  <2>2. Follow(here, name) = [here EXCEPT !.path = Front(here.path)]
    BY <1>5 DEF Follow
  <2> QED BY <1>5, <2>1, <2>2
<1> QED BY <1>2, <1>3, <1>4, <1>5

\* Every prefix of the target goes up at most as far as it, and the directory
\* of the link, go down.
StaysInside(p, target) ==
    /\ target # <<>>
    /\ \A n \in DOMAIN target : 2 * Cardinality(Ups(target, n)) <= Len(p) - 1 + n

\* A link that the policy does not call unsafe stays inside by its names: the
\* depth after n names is what StaysInside counts.
LEMMA SafeLink ==
    ASSUME NEW p \in Path, NEW target \in Seq(Name \cup {Up}),
           ~UnsafeLink(p, target)
    PROVE  StaysInside(p, target)
<1> DEFINE L == Len(target)
           u(n) == Cardinality(Ups(target, n))
           K == Len(p) - 1
           States == [inside : BOOLEAN, path : Seq(Name)]
<1>1. /\ L \in Nat /\ target # <<>> /\ DOMAIN target = 1 .. L
      /\ K \in Nat /\ Parent(p) \in Seq(Name) /\ Len(Parent(p)) = K
      /\ \A n \in 1 .. L : target[n] \in Name \cup {Up}
  <2>1. target # <<>>
    BY DEF UnsafeLink
  <2>2. p \in Seq(Name) /\ p # <<>> /\ Len(p) \in Nat
    BY DEF Path
  <2>3. Parent(p) \in Seq(Name) /\ Len(Parent(p)) = Len(p) - 1
    BY <2>2, FrontSeq DEF Parent
  <2>4. K \in Nat
    BY <2>2, <2>3
  <2>5. /\ L \in Nat /\ DOMAIN target = 1 .. L
        /\ \A n \in 1 .. L : target[n] \in Name \cup {Up}
    OBVIOUS
  <2> QED BY <2>1, <2>3, <2>4, <2>5
<1>2. PICK stop : /\ Walk(Parent(p), target) = stop[L]
                  /\ stop[0] = [inside |-> TRUE, path |-> Parent(p)]
                  /\ \A n \in 1 .. L :
                         stop[n] = Follow(stop[n - 1], target[n])
  <2>1. Len(target) \in Nat
    OBVIOUS
  <2> HIDE DEF L
  <2> QED BY <2>1, WalkStops DEF L
<1>3. stop[L].inside
  BY <1>2 DEF UnsafeLink, Resolve
<1> DEFINE Good(n) ==
        /\ stop[n] \in States
        /\ stop[n].inside => /\ Len(stop[n].path) = K + n - 2 * u(n)
                             /\ \A k \in 1 .. n : 2 * u(k) <= K + k
           T == {n \in 0 .. L : ~Good(n)}
<1> HIDE DEF u
<1>4. ASSUME NEW n \in Nat
      PROVE  /\ u(n) \in Nat /\ u(0) = 0
             /\ u(n + 1) = IF target[n + 1] = Up THEN u(n) + 1 ELSE u(n)
  BY UpsNext DEF u
<1> HIDE DEF L, K
<1>5. Good(0)
  <2>1. stop[0] \in States /\ Len(stop[0].path) = K
    BY <1>1, <1>2
  <2>2. u(0) = 0
    BY <1>4
  <2> QED BY <1>1, <2>1, <2>2
<1>6. ASSUME NEW n \in 0 .. L - 1, Good(n) PROVE Good(n + 1)
  <2>1. /\ n \in Nat /\ n + 1 \in 1 .. L /\ target[n + 1] \in Name \cup {Up}
        /\ stop[n + 1] = Follow(stop[n], target[n + 1])
    BY <1>1, <1>2
  <2>2. stop[n] \in States
    BY <1>6
  <2>3. /\ stop[n + 1] \in States
        /\ stop[n + 1].inside =>
               /\ stop[n].inside
               /\ Len(stop[n + 1].path) =
                      IF target[n + 1] = Up THEN Len(stop[n].path) - 1
                      ELSE Len(stop[n].path) + 1
    BY <2>1, <2>2, FollowStep
  <2>4. ASSUME stop[n + 1].inside
        PROVE  /\ Len(stop[n + 1].path) = K + (n + 1) - 2 * u(n + 1)
               /\ \A k \in 1 .. n + 1 : 2 * u(k) <= K + k
    <3>1. /\ Len(stop[n].path) = K + n - 2 * u(n)
          /\ \A k \in 1 .. n : 2 * u(k) <= K + k
      BY <1>6, <2>3, <2>4
    <3>2. Len(stop[n + 1].path) \in Nat
      BY <2>3
    <3>3. /\ K \in Nat /\ u(n) \in Nat /\ u(n + 1) \in Nat
          /\ u(n + 1) = IF target[n + 1] = Up THEN u(n) + 1 ELSE u(n)
      <4>1. n \in Nat /\ n + 1 \in Nat
        BY <2>1
      <4> QED BY <1>1, <1>4, <4>1
    <3>4. /\ Len(stop[n].path) \in Nat
          /\ Len(stop[n + 1].path) =
                 IF target[n + 1] = Up THEN Len(stop[n].path) - 1
                 ELSE Len(stop[n].path) + 1
      BY <2>2, <2>3, <2>4
    <3>5. Len(stop[n + 1].path) = K + (n + 1) - 2 * u(n + 1)
      <4> DEFINE a == Len(stop[n].path)
                 b == Len(stop[n + 1].path)
                 v == u(n)
                 w == u(n + 1)
      <4>1. n \in Nat /\ K \in Nat /\ v \in Nat
        BY <2>1, <3>3
      <4>2. a = K + n - 2 * v
        BY <3>1
      <4>3. \/ w = v + 1 /\ b = a - 1
            \/ w = v /\ b = a + 1
        BY <3>3, <3>4
      <4>4. b = K + (n + 1) - 2 * w
        <5> HIDE DEF a, b, v, w, Good, States
        <5>1. CASE w = v + 1 /\ b = a - 1
          BY <4>1, <4>2, <5>1
        <5>2. CASE w = v /\ b = a + 1
          BY <4>1, <4>2, <5>2
        <5> QED BY <4>3, <5>1, <5>2
      <4> QED BY <4>4
    <3>6. 2 * u(n + 1) <= K + (n + 1)
      BY <2>1, <3>2, <3>3, <3>5
    <3> QED BY <2>1, <3>1, <3>5, <3>6
  <2> QED BY <2>3, <2>4
<1>7. T = {}
  <2> SUFFICES ASSUME T # {} PROVE FALSE
    OBVIOUS
  <2> HIDE DEF Good
  <2>1. PICK m \in T : \A k \in T : m <= k
    <3>1. T \subseteq Nat
      OBVIOUS
    <3> HIDE DEF T
    <3> QED BY <3>1, NatMin
  <2>2. m # 0 /\ m \in 0 .. L /\ L \in Nat /\ ~Good(m)
    BY <1>1, <1>5, <2>1
  <2>3. m - 1 \in 0 .. L - 1 /\ m - 1 \notin T /\ (m - 1) + 1 = m
    BY <2>1, <2>2
  <2>4. Good(m - 1)
    BY <2>2, <2>3
  <2> QED BY <1>6, <2>2, <2>3, <2>4
<1>8. Good(L)
  BY <1>1, <1>7
<1>9. \A k \in 1 .. L : 2 * u(k) <= K + k
  BY <1>3, <1>8
<1> QED BY <1>1, <1>9 DEF StaysInside, u, K

\* The target of the link at p goes up no further than to the top, at least as
\* far as the system can follow.
Tame(p, target) ==
    /\ target # <<>>
    /\ \A i \in DOMAIN target :
           target[i] = Up => i < Len(p) \/ Len(p) > Hops

\* So does a link the policy does not call unsafe, if it goes up first.
LEMMA SafeIsTame ==
    ASSUME NEW p \in Path, NEW target \in Seq(Name \cup {Up}),
           ~UnsafeLink(p, target), UpFirst(target)
    PROVE  Tame(p, target)
<1>1. /\ target # <<>>
      /\ \A n \in DOMAIN target :
             2 * Cardinality(Ups(target, n)) <= Len(p) - 1 + n
  BY SafeLink DEF StaysInside
<1>2. ASSUME NEW i \in DOMAIN target, target[i] = Up PROVE i < Len(p)
  <2>1. i \in Nat /\ DOMAIN target = 1 .. Len(target) /\ Len(p) \in Nat
           /\ Len(target) \in Nat
    BY DEF Path
  <2>2. ASSUME NEW j \in 1 .. i PROVE target[j] = Up
    <3>1. j \in DOMAIN target /\ (j = i \/ j < i)
      BY <1>2, <2>1
    <3> QED BY <1>2, <3>1 DEF UpFirst
  <2>3. Ups(target, i) = 1 .. i
    BY <2>2 DEF Ups
  <2>4. Cardinality(Ups(target, i)) = i
    BY <2>1, <2>3, FS_Interval
  <2> QED BY <1>1, <2>1, <2>4
<1> QED BY <1>1, <1>2 DEF Tame

Ways == [at : Seq(Name), rest : Seq(Name \cup {Up}), out : BOOLEAN]

\* A hop that goes on from the same directory, inside.
LEMMA WayRest ==
    ASSUME NEW way \in Ways, ~way.out, NEW r
    PROVE  [way EXCEPT !.rest = r] = [at |-> way.at, rest |-> r, out |-> FALSE]
<1> DEFINE hop == [way EXCEPT !.rest = r]
<1>1. /\ way = [at |-> way.at, rest |-> way.rest, out |-> way.out]
      /\ way.out = FALSE
  BY DEF Ways
<1>2. hop.at = way.at /\ hop.rest = r /\ hop.out = FALSE
  BY <1>1
<1>3. hop = [at |-> hop.at, rest |-> hop.rest, out |-> hop.out]
  BY DEF Ways
<1> QED BY <1>2, <1>3

\* What one hop does, case by case.
LEMMA HopCases ==
    ASSUME NEW t, IsTree(t), NEW way \in Ways
    PROVE  LET hop == Hop(t, way)
               name == Head(way.rest)
               next == Append(way.at, name)
           IN
           /\ way.out \/ way.rest = <<>> => hop = way
           /\ ~way.out /\ way.rest # <<>> =>
              /\ name = Up /\ way.at = <<>> => hop.out
              /\ name = Up /\ way.at # <<>> =>
                     hop = [at |-> Front(way.at), rest |-> Tail(way.rest),
                            out |-> FALSE]
              /\ name # Up =>
                 \/ hop = [at |-> next, rest |-> Tail(way.rest), out |-> FALSE]
                 \/ /\ next \in Links(t) /\ t[next].target # <<>>
                    /\ hop = [at |-> way.at, out |-> FALSE,
                              rest |-> t[next].target \o Tail(way.rest)]
                 \/ next \in Links(t) /\ t[next].target = <<>>
                 \/ hop = [at |-> way.at, rest |-> <<>>, out |-> FALSE]
<1> DEFINE rest == Tail(way.rest)
           name == Head(way.rest)
           next == Append(way.at, name)
           met == next \in DOMAIN t /\ t[next].kind = "symlink"
<1>2. way.out \/ way.rest = <<>> => Hop(t, way) = way
  BY DEF Hop
<1>3. ASSUME ~way.out, way.rest # <<>>, name = Up
      PROVE  /\ way.at = <<>> => Hop(t, way).out
             /\ way.at # <<>> =>
                    Hop(t, way) = [at |-> Front(way.at), rest |-> rest,
                                   out |-> FALSE]
  <2>1. way.at = <<>> => Hop(t, way) = [way EXCEPT !.out = TRUE]
    BY <1>3 DEF Hop
  <2>2. way.at # <<>> =>
            Hop(t, way) = [at |-> Front(way.at), rest |-> rest, out |-> FALSE]
    BY <1>3 DEF Hop
  <2>3. [way EXCEPT !.out = TRUE].out
    BY DEF Ways
  <2> HIDE DEF rest, name, next
  <2> QED BY <2>1, <2>2, <2>3
<1>4. ASSUME ~way.out, way.rest # <<>>, name # Up
      PROVE  \/ Hop(t, way) = [at |-> next, rest |-> rest, out |-> FALSE]
             \/ /\ met /\ t[next].target # <<>>
                /\ Hop(t, way) = [at |-> way.at, out |-> FALSE,
                                  rest |-> t[next].target \o rest]
             \/ met /\ t[next].target = <<>>
             \/ Hop(t, way) = [at |-> way.at, rest |-> <<>>, out |-> FALSE]
  <2>1. CASE IsDirectory(t, next)
    <3>1. Hop(t, way) = [at |-> next, rest |-> rest, out |-> FALSE]
      BY <1>4, <2>1 DEF Hop
    <3> QED BY <3>1
  <2>2. CASE ~IsDirectory(t, next) /\ met /\ t[next].target # <<>>
    <3>1. Hop(t, way) = [way EXCEPT !.rest = t[next].target \o rest]
      BY <1>4, <2>2 DEF Hop
    <3> HIDE DEF rest, name, next
    <3>2. Hop(t, way) = [at |-> way.at, out |-> FALSE,
                         rest |-> t[next].target \o rest]
      BY <1>4, <3>1, WayRest
    <3> QED BY <2>2, <3>2
  <2>3. CASE ~IsDirectory(t, next) /\ ~met
    <3>1. Hop(t, way) = [at |-> way.at, rest |-> <<>>, out |-> met]
      BY <1>4, <2>3 DEF Hop
    <3>2. met = FALSE
      BY <2>3
    <3> HIDE DEF met
    <3> QED BY <3>1, <3>2
  <2> QED BY <2>1, <2>2, <2>3
<1> QED BY <1>2, <1>3, <1>4 DEF Links

\* The stops of a way exist, by induction on their number.
LEMMA WayStops ==
    ASSUME NEW t, NEW p
    PROVE  \E way :
               /\ Escapes(t, p) = way[Hops].out
               /\ way[0] = [at |-> Parent(p), rest |-> t[p].target,
                            out |-> t[p].target = <<>>]
               /\ \A n \in 1 .. Hops : way[n] = Hop(t, way[n - 1])
<1> DEFINE start == [at |-> Parent(p), rest |-> t[p].target,
                     out |-> t[p].target = <<>>]
           Is(f, m) == f = [n \in 0 .. m |-> IF n = 0 THEN start
                                ELSE Hop(t, f[n - 1])]
           T == {m \in 0 .. Hops : ~\E f : Is(f, m)}
<1> HIDE DEF start
<1>0. Hops \in Nat
  BY TreesAssumption
<1>1. T = {}
  <2> SUFFICES ASSUME T # {} PROVE FALSE
    OBVIOUS
  <2>1. PICK m \in T : \A k \in T : m <= k
    <3>1. T \subseteq Nat
      BY <1>0
    <3> HIDE DEF T
    <3> QED BY <3>1, NatMin
  <2>2. CASE m = 0
    <3>1. Is([n \in 0 .. 0 |-> start], 0)
      OBVIOUS
    <3> QED BY <2>1, <2>2, <3>1
  <2>3. CASE m # 0
    <3>1. m - 1 \in 0 .. Hops /\ m \in 0 .. Hops /\ m - 1 \notin T
      BY <1>0, <2>1, <2>3
    <3>2. PICK f : Is(f, m - 1)
      BY <3>1
    <3> DEFINE h == [n \in 0 .. m |-> IF n < m THEN f[n]
                                      ELSE Hop(t, f[m - 1])]
    <3>3. \A n \in 0 .. m - 1 : f[n] = IF n = 0 THEN start
                                       ELSE Hop(t, f[n - 1])
      BY <3>2
    <3>4. h = [n \in 0 .. m |-> IF n = 0 THEN start
                                ELSE Hop(t, h[n - 1])]
      BY <2>3, <3>1, <3>3
    <3> HIDE DEF h
    <3> QED BY <2>1, <3>4
  <2> QED BY <2>2, <2>3
<1>2. PICK g : Is(g, Hops)
  BY <1>0, <1>1
<1> DEFINE way == CHOOSE f : Is(f, Hops)
<1>3. Is(way, Hops)
  BY <1>2
<1>4. Escapes(t, p) = way[Hops].out
  BY DEF Escapes, start
<1> HIDE DEF way
<1>5. /\ way[0] = start
      /\ \A n \in 1 .. Hops : way[n] = Hop(t, way[n - 1])
  BY <1>0, <1>3
<1> QED BY <1>4, <1>5 DEF start

\* A way that has left the workspace stays outside.
LEMMA OutStays ==
    ASSUME NEW t, NEW way, \A n \in 1 .. Hops : way[n] = Hop(t, way[n - 1]),
           NEW m \in 0 .. Hops, way[m].out
    PROVE  way[Hops].out
<1>0. Hops \in Nat
  BY TreesAssumption
<1> DEFINE T == {n \in m .. Hops : ~way[n].out}
<1>1. CASE T = {}
  BY <1>0, <1>1
<1>2. CASE T # {}
  <2>1. PICK n \in T : \A k \in T : n <= k
    <3>1. T \subseteq Nat
      BY <1>0
    <3> HIDE DEF T
    <3> QED BY <1>2, <3>1, NatMin
  <2>2. n \in m .. Hops /\ ~way[n].out /\ n # m
    BY <2>1
  <2>3. n - 1 \in m .. Hops /\ n - 1 \notin T /\ n \in 1 .. Hops
    BY <1>0, <2>1, <2>2
  <2>4. way[n - 1].out /\ way[n] = Hop(t, way[n - 1])
    BY <2>3
  <2> QED BY <2>2, <2>4 DEF Hop
<1> QED BY <1>1, <1>2

\* The tail of a sequence that is not empty.
LEMMA TailSeq ==
    ASSUME NEW S, NEW s \in Seq(S), s # <<>>
    PROVE  /\ Tail(s) \in Seq(S) /\ Len(Tail(s)) = Len(s) - 1
           /\ Len(s) \in Nat \ {0} /\ Head(s) = s[1] /\ Head(s) \in S
           /\ \A i \in 1 .. Len(s) - 1 : Tail(s)[i] = s[i + 1]
OBVIOUS

\* Two sequences, one after the other.
LEMMA ConcatSeq ==
    ASSUME NEW S, NEW s \in Seq(S), NEW r \in Seq(S)
    PROVE  /\ s \o r \in Seq(S) /\ Len(r) \in Nat
           /\ DOMAIN (s \o r) = 1 .. Len(s) + Len(r)
           /\ \A i \in 1 .. Len(s) + Len(r) :
                  (s \o r)[i] = IF i <= Len(s) THEN s[i] ELSE r[i - Len(s)]
OBVIOUS

\* A link that goes up first and does not lead out of the tree is tame.
LEMMA StayingIsTame ==
    ASSUME NEW t, IsTree(t), NEW p \in Links(t), ~Escapes(t, p),
           UpFirst(t[p].target)
    PROVE  Tame(p, t[p].target)
<1> DEFINE target == t[p].target
           L == Len(target)
           K == Len(p) - 1
<1>0. /\ Hops \in Nat /\ p \in Path /\ target \in Seq(Name \cup {Up})
      /\ L \in Nat /\ K \in Nat /\ DOMAIN target = 1 .. L
      /\ Parent(p) \in Seq(Name) /\ Len(Parent(p)) = K
  <2>1. Hops \in Nat /\ p \in DOMAIN t /\ p \in Path /\ t[p] \in Entry
    BY TreesAssumption DEF Links, IsTree
  <2>2. target \in Seq(Name \cup {Up}) /\ p \in Seq(Name) /\ p # <<>>
    BY <2>1 DEF Entry, Path
  <2>3. Len(p) \in Nat \ {0}
    BY <2>2
  <2>4. Parent(p) \in Seq(Name) /\ Len(Parent(p)) = Len(p) - 1
    BY <2>2, FrontSeq DEF Parent
  <2>5. L \in Nat /\ DOMAIN target = 1 .. L
    BY <2>2
  <2> QED BY <2>1, <2>2, <2>3, <2>4, <2>5
<1>1. PICK way : /\ Escapes(t, p) = way[Hops].out
                 /\ way[0] = [at |-> Parent(p), rest |-> target,
                              out |-> target = <<>>]
                 /\ \A n \in 1 .. Hops : way[n] = Hop(t, way[n - 1])
  BY WayStops
<1>2. \A m \in 0 .. Hops : ~way[m].out
  BY <1>1, OutStays
<1> HIDE DEF target, L, K
<1>3. target # <<>>
  <2>1. way[0].out = (target = <<>>)
    BY <1>1
  <2>2. ~way[0].out
    BY <1>0, <1>2
  <2> QED BY <2>1, <2>2
<1>4. ASSUME NEW i \in 1 .. L, target[i] = Up, ~(i < Len(p)),
             ~(Len(p) > Hops)
      PROVE  FALSE
  <2>0. i \in Nat /\ K < i /\ i <= L /\ K + 1 <= Hops
    BY <1>0, <1>4 DEF K
  <2>1. \A j \in 1 .. i : target[j] = Up
    <3>1. \A j \in 1 .. i : j \in 1 .. L /\ (j = i \/ j < i)
      BY <1>0, <2>0
    <3> QED BY <1>0, <1>4, <3>1 DEF UpFirst, target
  <2> DEFINE Rising(n) ==
          /\ way[n] \in Ways
          /\ Len(way[n].at) = K - n /\ Len(way[n].rest) = L - n
          /\ \A j \in 1 .. L - n : way[n].rest[j] = target[j + n]
             T == {n \in 0 .. K : ~Rising(n)}
  <2>2. Rising(0)
    <3>1. way[0] \in Ways
      BY <1>0, <1>1 DEF Ways
    <3>2. \A j \in 1 .. L - 0 : way[0].rest[j] = target[j + 0]
      BY <1>0, <1>1
    <3>3. Len(way[0].at) = K - 0 /\ Len(way[0].rest) = L - 0
      BY <1>0, <1>1 DEF L
    <3> QED BY <3>1, <3>2, <3>3
  <2>3. ASSUME NEW n \in 0 .. K - 1, Rising(n) PROVE Rising(n + 1)
    <3>1. /\ n \in Nat /\ n + 1 \in 1 .. Hops /\ n < K /\ n < L /\ n + 1 \in 1 .. i
      BY <1>0, <2>0
    <3>2. /\ way[n].at \in Seq(Name) /\ way[n].rest \in Seq(Name \cup {Up})
          /\ ~way[n].out /\ n \in 0 .. Hops
      BY <1>0, <1>2, <2>3, <3>1 DEF Ways
    <3>3. Len(way[n].at) = K - n /\ Len(way[n].rest) = L - n
             /\ \A j \in 1 .. L - n : way[n].rest[j] = target[j + n]
      BY <2>3
    <3>4. way[n].at # <<>> /\ way[n].rest # <<>> /\ 1 \in 1 .. L - n
      BY <1>0, <3>1, <3>3
    <3>5. /\ Tail(way[n].rest) \in Seq(Name \cup {Up})
          /\ Len(Tail(way[n].rest)) = Len(way[n].rest) - 1
          /\ Head(way[n].rest) = way[n].rest[1]
          /\ \A j \in 1 .. Len(way[n].rest) - 1 :
                 Tail(way[n].rest)[j] = way[n].rest[j + 1]
      BY <3>2, <3>4, TailSeq
    <3>6. Front(way[n].at) \in Seq(Name)
             /\ Len(Front(way[n].at)) = Len(way[n].at) - 1
      BY <3>2, <3>4, FrontSeq
    <3>7. way[n].rest[1] = Up
      <4>1. way[n].rest[1] = target[1 + n]
        BY <3>3, <3>4
      <4>2. 1 + n = n + 1
        BY <3>1
      <4> QED BY <2>1, <3>1, <4>1, <4>2
    <3>8. way[n + 1] = Hop(t, way[n])
      <4>1. (n + 1) - 1 = n
        BY <3>1
      <4> QED BY <1>1, <3>1, <4>1
    <3>9. way[n + 1] = [at |-> Front(way[n].at), rest |-> Tail(way[n].rest),
                        out |-> FALSE]
      BY <2>3, <3>2, <3>4, <3>5, <3>7, <3>8, HopCases
    <3>10. way[n + 1] \in Ways
      BY <3>5, <3>6, <3>9 DEF Ways
    <3>11. ASSUME NEW j \in 1 .. L - (n + 1)
           PROVE  way[n + 1].rest[j] = target[j + (n + 1)]
      <4>1. /\ j + 1 \in 1 .. L - n /\ j \in 1 .. (L - n) - 1
            /\ (j + 1) + n = j + (n + 1)
        BY <1>0, <3>1
      <4> QED BY <3>3, <3>5, <3>9, <4>1
    <3>12. Len(way[n + 1].at) = K - (n + 1) /\ Len(way[n + 1].rest) = L - (n + 1)
      <4>1. /\ Len(way[n + 1].at) = (K - n) - 1
            /\ Len(way[n + 1].rest) = (L - n) - 1
        BY <3>3, <3>5, <3>6, <3>9
      <4> QED BY <1>0, <3>1, <4>1
    <3> QED BY <3>10, <3>11, <3>12
  <2>4. Rising(K)
    <3> SUFFICES ASSUME ~Rising(K) PROVE FALSE
      OBVIOUS
    <3> HIDE DEF Rising
    <3>1. K \in T /\ T \subseteq Nat
      BY <1>0
    <3>2. PICK m \in T : \A k \in T : m <= k
      <4> HIDE DEF T
      <4> QED BY <3>1, NatMin
    <3>3. m \in 0 .. K /\ m # 0 /\ ~Rising(m)
      BY <2>2, <3>2
    <3>4. m - 1 \in 0 .. K - 1 /\ m - 1 \notin T /\ (m - 1) + 1 = m
      BY <1>0, <3>2, <3>3
    <3>5. Rising(m - 1)
      BY <1>0, <3>4
    <3> QED BY <2>3, <3>3, <3>4, <3>5
  <2>5. /\ way[K] \in Ways /\ way[K].at \in Seq(Name) /\ Len(way[K].at) = 0
        /\ way[K].rest \in Seq(Name \cup {Up}) /\ Len(way[K].rest) = L - K
        /\ way[K].rest[1] = target[1 + K]
    <3>1. 1 \in 1 .. L - K /\ K - K = 0
      BY <1>0, <2>0
    <3> QED BY <2>4, <3>1 DEF Ways
  <2>6. /\ way[K].at = <<>> /\ way[K].rest # <<>> /\ Head(way[K].rest) = Up
    <3>1. way[K].rest # <<>> /\ 1 + K \in 1 .. i
      BY <1>0, <2>0, <2>5
    <3>2. Head(way[K].rest) = way[K].rest[1]
      BY <2>5, <3>1, TailSeq
    <3> QED BY <2>1, <2>5, <3>1, <3>2
  <2>7. /\ K \in 0 .. Hops /\ K + 1 \in 1 .. Hops /\ K + 1 \in 0 .. Hops
        /\ (K + 1) - 1 = K
    BY <1>0, <2>0
  <2>8. way[K + 1] = Hop(t, way[K]) /\ ~way[K].out
    BY <1>1, <1>2, <2>7
  <2>9. way[K + 1].out
    BY <2>5, <2>6, <2>8, HopCases
  <2> QED BY <1>2, <2>7, <2>9
<1> QED BY <1>0, <1>3, <1>4 DEF Tame, target

\* After n hops the way is inside, what is left of it goes up first, and no
\* further than to the top, at least as far as the system can follow.
Calm(n, way) ==
    /\ way \in Ways /\ ~way.out /\ UpFirst(way.rest)
    /\ \A i \in DOMAIN way.rest :
           way.rest[i] = Up =>
               i <= Len(way.at) \/ n + Len(way.at) + 1 > Hops

\* Where every link is tame, a hop leaves it so.
LEMMA HopStaysCalm ==
    ASSUME NEW t, IsTree(t),
           \A q \in Links(t) : UpFirst(t[q].target) /\ Tame(q, t[q].target),
           NEW n \in 0 .. Hops - 1, NEW way, Calm(n, way)
    PROVE  Calm(n + 1, Hop(t, way))
<1> DEFINE here == way.at
           rest == way.rest
           hop == Hop(t, way)
           name == Head(rest)
           next == Append(here, name)
<1>1. /\ way \in Ways /\ ~way.out /\ UpFirst(rest) /\ n \in Nat
      /\ here \in Seq(Name) /\ rest \in Seq(Name \cup {Up})
      /\ Hops \in Nat /\ n + 1 <= Hops /\ Len(here) \in Nat
      /\ Len(rest) \in Nat /\ DOMAIN rest = 1 .. Len(rest)
  <2>1. /\ way \in Ways /\ ~way.out /\ UpFirst(rest)
        /\ here \in Seq(Name) /\ rest \in Seq(Name \cup {Up})
    BY DEF Calm, Ways
  <2>2. Hops \in Nat /\ n \in Nat /\ n + 1 <= Hops
    BY TreesAssumption
  <2>3. /\ Len(here) \in Nat /\ Len(rest) \in Nat
        /\ DOMAIN rest = 1 .. Len(rest)
    BY <2>1
  <2> QED BY <2>1, <2>2, <2>3
<1>2. \A i \in 1 .. Len(rest) :
          rest[i] = Up => i <= Len(here) \/ n + Len(here) + 1 > Hops
  BY <1>1 DEF Calm
<1>3. CASE rest = <<>>
  <2>1. hop = way
    BY <1>1, <1>3, HopCases
  <2>2. \A i \in DOMAIN hop.rest : FALSE
    BY <1>3, <2>1
  <2> QED BY <1>1, <2>1, <2>2 DEF Calm
<1>4. CASE rest # <<>>
  <2>1. /\ Tail(rest) \in Seq(Name \cup {Up})
        /\ Len(Tail(rest)) = Len(rest) - 1 /\ Len(rest) \in Nat \ {0}
        /\ name = rest[1] /\ name \in Name \cup {Up}
        /\ \A i \in 1 .. Len(rest) - 1 : Tail(rest)[i] = rest[i + 1]
        /\ DOMAIN Tail(rest) = 1 .. Len(rest) - 1
    BY <1>1, <1>4, TailSeq
  <2>2. CASE name = Up
    <3>1. here # <<>>
      <4>1. 1 <= Len(here) \/ n + Len(here) + 1 > Hops
        BY <1>2, <2>1, <2>2
      <4> QED BY <1>1, <4>1
    <3>2. hop = [at |-> Front(here), rest |-> Tail(rest), out |-> FALSE]
      BY <1>1, <1>4, <2>2, <3>1, HopCases
    <3>3. Front(here) \in Seq(Name) /\ Len(Front(here)) = Len(here) - 1
      BY <1>1, <3>1, FrontSeq
    <3>4. hop \in Ways /\ ~hop.out
      BY <2>1, <3>2, <3>3 DEF Ways
    <3>5. UpFirst(Tail(rest))
      <4> SUFFICES ASSUME NEW i \in DOMAIN Tail(rest),
                          NEW j \in DOMAIN Tail(rest),
                          i < j, Tail(rest)[j] = Up
                   PROVE  Tail(rest)[i] = Up
        BY DEF UpFirst
      <4>0. i \in 1 .. Len(rest) - 1 /\ j \in 1 .. Len(rest) - 1
        BY <2>1
      <4>1. /\ i + 1 \in 1 .. Len(rest) /\ j + 1 \in 1 .. Len(rest)
            /\ i + 1 < j + 1
        BY <1>1, <4>0
      <4>2. rest[j + 1] = Up
        BY <2>1, <4>0
      <4>3. rest[i + 1] = Up
        BY <1>1, <4>1, <4>2 DEF UpFirst
      <4> QED BY <2>1, <4>0, <4>3
    <3>6. ASSUME NEW i \in 1 .. Len(rest) - 1, Tail(rest)[i] = Up
          PROVE  \/ i <= Len(Front(here))
                 \/ (n + 1) + Len(Front(here)) + 1 > Hops
      <4>1. i + 1 \in 1 .. Len(rest) /\ rest[i + 1] = Up
        BY <1>1, <2>1, <3>6
      <4>2. i + 1 <= Len(here) \/ n + Len(here) + 1 > Hops
        BY <1>2, <4>1
      <4>3. i \in Nat
        BY <1>1
      <4> DEFINE deep == Len(here)
                 up == Len(Front(here))
      <4>4. deep \in Nat /\ up = deep - 1 /\ n \in Nat /\ Hops \in Nat
        BY <1>1, <3>3
      <4>5. i + 1 <= deep \/ n + deep + 1 > Hops
        BY <4>2
      <4> HIDE DEF deep, up
      <4>6. i <= up \/ (n + 1) + up + 1 > Hops
        BY <4>3, <4>4, <4>5
      <4> QED BY <4>6 DEF up
    <3>7. hop.at = Front(here) /\ hop.rest = Tail(rest)
      <4> HIDE DEF hop, here, rest
      <4> QED BY <3>2
    <3>8. Calm(n + 1, hop)
      <4> HIDE DEF hop
      <4> QED BY <2>1, <3>4, <3>5, <3>6, <3>7 DEF Calm
    <3> QED BY <3>8
  <2>3. CASE name # Up
    <3>1. \A i \in 1 .. Len(rest) - 1 : Tail(rest)[i] # Up
      <4> SUFFICES ASSUME NEW i \in 1 .. Len(rest) - 1, Tail(rest)[i] = Up
                   PROVE  FALSE
        OBVIOUS
      <4>1. /\ i + 1 \in 1 .. Len(rest) /\ 1 \in 1 .. Len(rest)
            /\ 1 < i + 1 /\ rest[i + 1] = Up
        BY <1>1, <2>1
      <4> QED BY <1>1, <2>1, <2>3, <4>1 DEF UpFirst
    <3>2. next \in Seq(Name) /\ Len(next) = Len(here) + 1
      BY <1>1, <2>1, <2>3
    <3>3. CASE hop = [at |-> next, rest |-> Tail(rest), out |-> FALSE]
      <4>1. hop \in Ways /\ ~hop.out
        BY <2>1, <3>2, <3>3 DEF Ways
      <4>2. \A i \in DOMAIN hop.rest : hop.rest[i] # Up
        BY <2>1, <3>1, <3>3
      <4> QED BY <4>1, <4>2 DEF Calm, UpFirst
    <3>4. CASE hop = [at |-> here, rest |-> <<>>, out |-> FALSE]
      <4>1. hop \in Ways /\ ~hop.out
        BY <1>1, <3>4 DEF Ways
      <4>2. \A i \in DOMAIN hop.rest : FALSE
        BY <3>4
      <4> QED BY <4>1, <4>2 DEF Calm, UpFirst
    <3>5. CASE /\ next \in Links(t)
               /\ hop = [at |-> here, out |-> FALSE,
                         rest |-> t[next].target \o Tail(rest)]
      <4> DEFINE target == t[next].target
                 after == Tail(rest)
      <4>1. /\ target \in Seq(Name \cup {Up}) /\ Len(target) \in Nat
            /\ DOMAIN target = 1 .. Len(target)
        <5>1. t[next] \in Entry
          BY <3>5 DEF Links, IsTree
        <5>2. target \in Seq(Name \cup {Up})
          BY <5>1 DEF Entry
        <5> QED BY <5>2
      <4>2. /\ target \o after \in Seq(Name \cup {Up})
            /\ Len(after) \in Nat
            /\ DOMAIN (target \o after) = 1 .. Len(target) + Len(after)
            /\ \A i \in 1 .. Len(target) + Len(after) :
                   (target \o after)[i] = IF i <= Len(target) THEN target[i]
                                          ELSE after[i - Len(target)]
        <5>1. after \in Seq(Name \cup {Up}) /\ target \in Seq(Name \cup {Up})
          BY <2>1, <4>1
        <5> HIDE DEF target, after
        <5> QED BY <5>1, ConcatSeq
      <4>3. ASSUME NEW i \in DOMAIN (target \o after),
                   (target \o after)[i] = Up
            PROVE  i \in DOMAIN target /\ target[i] = Up
        <5>1. CASE i <= Len(target)
          <6>1. i \in 1 .. Len(target) + Len(after)
            BY <4>2, <4>3
          <6>2. i \in 1 .. Len(target)
            BY <4>1, <5>1, <6>1
          <6> QED BY <4>1, <4>2, <4>3, <5>1, <6>1, <6>2
        <5>2. CASE ~(i <= Len(target))
          <6>1. i - Len(target) \in 1 .. Len(after)
            <7>1. i \in 1 .. Len(target) + Len(after)
              BY <4>2, <4>3
            <7>2. Len(target) \in Nat /\ Len(after) \in Nat
              BY <4>1, <4>2
            <7> HIDE DEF target, after
            <7> QED BY <5>2, <7>1, <7>2
          <6>2. after[i - Len(target)] = Up
            BY <4>2, <4>3, <5>2
          <6>3. i - Len(target) \in 1 .. Len(rest) - 1
            BY <2>1, <6>1
          <6> QED BY <3>1, <6>2, <6>3
        <5> QED BY <5>1, <5>2
      <4>4. UpFirst(target) /\ Tame(next, target)
        BY <3>5
      <4>5. hop \in Ways /\ ~hop.out
        BY <1>1, <3>5, <4>2 DEF Ways
      <4>6. UpFirst(target \o after)
        <5> SUFFICES ASSUME NEW i \in DOMAIN (target \o after),
                            NEW j \in DOMAIN (target \o after),
                            i < j, (target \o after)[j] = Up
                     PROVE  (target \o after)[i] = Up
          BY DEF UpFirst
        <5>1. j \in DOMAIN target /\ target[j] = Up
          BY <4>3
        <5>2. i \in DOMAIN target /\ i <= Len(target)
          BY <4>1, <4>2, <5>1
        <5>3. target[i] = Up
          BY <4>4, <5>1, <5>2 DEF UpFirst
        <5> QED BY <4>2, <5>2, <5>3
      <4>7. ASSUME NEW i \in DOMAIN (target \o after),
                   (target \o after)[i] = Up
            PROVE  i <= Len(here) \/ (n + 1) + Len(here) + 1 > Hops
        <5>1. i \in DOMAIN target /\ target[i] = Up
          BY <4>3, <4>7
        <5>2. i < Len(next) \/ Len(next) > Hops
          BY <4>4, <5>1 DEF Tame
        <5>3. i \in Nat
          BY <4>1, <5>1
        <5> DEFINE deep == Len(here)
                   far == Len(next)
        <5>4. /\ deep \in Nat /\ far = deep + 1 /\ n \in Nat /\ Hops \in Nat
              /\ i < far \/ far > Hops
          BY <1>1, <3>2, <5>2
        <5> HIDE DEF deep, far
        <5>5. i <= deep \/ (n + 1) + deep + 1 > Hops
          BY <5>3, <5>4
        <5> QED BY <5>5 DEF deep
      <4>8. hop.at = here /\ hop.rest = target \o after
        <5> HIDE DEF hop, here, rest, next
        <5> QED BY <3>5
      <4>9. Calm(n + 1, hop)
        <5> HIDE DEF hop, target, after
        <5> QED BY <4>5, <4>6, <4>7, <4>8 DEF Calm
      <4> QED BY <4>9
    <3>6. ASSUME next \in Links(t) PROVE t[next].target # <<>>
      BY <3>6 DEF Tame
    <3> QED BY <1>1, <1>4, <2>3, <3>3, <3>4, <3>5, <3>6, HopCases
  <2> QED BY <2>2, <2>3
<1> QED BY <1>3, <1>4

\* Where every link is tame, none leads out of the tree.
LEMMA NoEscape ==
    ASSUME NEW t, IsTree(t), NEW p \in Links(t),
           \A q \in Links(t) : UpFirst(t[q].target) /\ Tame(q, t[q].target)
    PROVE  ~Escapes(t, p)
<1> DEFINE target == t[p].target
<1>1. PICK way : /\ Escapes(t, p) = way[Hops].out
                 /\ way[0] = [at |-> Parent(p), rest |-> target,
                              out |-> target = <<>>]
                 /\ \A n \in 1 .. Hops : way[n] = Hop(t, way[n - 1])
  BY WayStops
<1> DEFINE T == {n \in 0 .. Hops : ~Calm(n, way[n])}
<1>2. Hops \in Nat
  BY TreesAssumption
<1>3. Calm(0, way[0])
  <2>1. p \in Path /\ t[p] \in Entry /\ UpFirst(target) /\ Tame(p, target)
    BY DEF Links, IsTree
  <2>2. /\ target \in Seq(Name \cup {Up}) /\ p \in Seq(Name) /\ p # <<>>
        /\ Len(p) \in Nat /\ target # <<>>
    BY <2>1 DEF Entry, Path, Tame
  <2>3. Parent(p) \in Seq(Name) /\ Len(Parent(p)) = Len(p) - 1
    BY <2>2, FrontSeq DEF Parent
  <2>4. way[0] \in Ways /\ ~way[0].out
    <3>1. (target = <<>>) = FALSE
      BY <2>2
    <3>2. way[0] = [at |-> Parent(p), rest |-> target, out |-> FALSE]
      <4> HIDE DEF target
      <4> QED BY <1>1, <3>1
    <3> QED BY <2>2, <2>3, <3>2 DEF Ways
  <2>5. ASSUME NEW i \in DOMAIN target, target[i] = Up
        PROVE  i <= Len(Parent(p)) \/ 0 + Len(Parent(p)) + 1 > Hops
    <3>1. i < Len(p) \/ Len(p) > Hops
      BY <2>1, <2>5 DEF Tame
    <3>2. i \in Nat
      BY <2>2
    <3> QED BY <1>2, <2>2, <2>3, <3>1, <3>2
  <2> QED BY <1>1, <2>1, <2>4, <2>5 DEF Calm
<1>4. T = {}
  <2> SUFFICES ASSUME T # {} PROVE FALSE
    OBVIOUS
  <2>1. PICK n \in T : \A k \in T : n <= k
    <3>1. T \subseteq Nat
      BY <1>2
    <3> HIDE DEF T
    <3> QED BY <3>1, NatMin
  <2>2. n \in 0 .. Hops /\ n # 0 /\ ~Calm(n, way[n])
    BY <1>3, <2>1
  <2>3. /\ n \in 1 .. Hops /\ n - 1 \in 0 .. Hops - 1 /\ n - 1 \in 0 .. Hops
        /\ n - 1 \notin T /\ (n - 1) + 1 = n
    BY <1>2, <2>1, <2>2
  <2>4. Calm(n - 1, way[n - 1]) /\ way[n] = Hop(t, way[n - 1])
    BY <1>1, <2>3
  <2> QED BY <2>2, <2>3, <2>4, HopStaysCalm
<1>5. Calm(Hops, way[Hops])
  BY <1>2, <1>4
<1> QED BY <1>1, <1>5 DEF Calm

\* If no link of a workspace leads out of it, through whatever other links, and
\* targets go up at their start only, no link leads out of what a commit leaves.
THEOREM CommitsKeepLinksInside == Spec => []LinksStayInside
<1>1. ASSUME IInv, pc = "committed", ~LinksEscape(Scan(origin)),
             \A q \in Links(Scan(live)) : UpFirst(Scan(live)[q].target)
      PROVE  ~LinksEscape(Scan(live))
  <2> USE <1>1 DEF IInv
  <2>1. /\ base = Scan(origin) /\ decision # "deny"
        /\ decision = Evaluate(base, Staged) /\ Scan(live) = Staged
    BY DEF PlanInv, FlagsInv, Unplanned, Begun
  <2>2. ~HardDeny(base, Staged)
    BY <2>1 DEF Evaluate
  <2>3. IsTree(Staged) /\ IsTree(base)
    <3>1. IsTree(origin) /\ IsTree(worktree)
      BY <1>1, TreesFinite DEF PlanInv
    <3> QED BY <2>1, <3>1, TreeScan DEF Staged
  <2>4. ASSUME NEW q \in Links(Staged)
        PROVE  UpFirst(Staged[q].target) /\ Tame(q, Staged[q].target)
    <3>1. /\ q \in Path /\ q \in DOMAIN Staged /\ Staged[q].kind = "symlink"
          /\ Staged[q].target \in Seq(Name \cup {Up})
          /\ UpFirst(Staged[q].target)
      BY <2>1, <2>3 DEF IsTree, Entry, Links
    <3>2. CASE q \in Diff(base, Staged)
      <4>1. ~UnsafeLink(q, Staged[q].target)
        BY <2>2, <3>1, <3>2 DEF HardDeny
      <4> QED BY <3>1, <4>1, SafeIsTame
    <3>3. CASE q \notin Diff(base, Staged)
      <4>1. q \in Links(base) /\ base[q].target = Staged[q].target
        BY <3>1, <3>3 DEF Diff, EntryChanged, Links
      <4>2. ~Escapes(base, q)
        BY <2>1, <4>1 DEF LinksEscape
      <4> QED BY <2>3, <3>1, <4>1, <4>2, StayingIsTame
    <3> QED BY <3>2, <3>3
  <2>5. \A p \in Links(Staged) : ~Escapes(Staged, p)
    BY <2>3, <2>4, NoEscape
  <2> QED BY <2>1, <2>5 DEF LinksEscape
<1>2. IInv => LinksStayInside
  BY <1>1 DEF LinksStayInside, LinksNeverLeave
<1> QED BY <1>2, Inductive, PTL

\* The loop of operation_roots finds the topmost changes, all and in order.
THEOREM RootsAlwaysTopmost == Spec => []RootsAreTopmost
<1>1. ASSUME IInv, pc = "planned"
      PROVE  roots = InOrder(Topmost(base, Scan(worktree)))
  <2>1. /\ IsTree(origin) /\ IsFiniteSet(DOMAIN origin)
        /\ IsTree(worktree) /\ IsFiniteSet(DOMAIN worktree)
        /\ base = Scan(origin) /\ roots = OperationRoots(base, Staged)
    BY <1>1, TreesFinite DEF IInv, PlanInv, Unplanned, Begun
  <2>2. /\ IsTree(base) /\ IsFiniteSet(DOMAIN base)
        /\ IsTree(Staged) /\ IsFiniteSet(DOMAIN Staged)
    BY <2>1, TreeScan, ScanFinite DEF Staged
  <2> QED BY <2>1, <2>2, LoopIsTopmost DEF Staged
<1>2. IInv => RootsAreTopmost
  BY <1>1 DEF RootsAreTopmost
<1> QED BY <1>2, Inductive, PTL
=============================================================================
