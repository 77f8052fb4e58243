---------------------------- MODULE DavTreeProofs ----------------------------
(***************************************************************************)
(* Proofs about DavTree, for every tree of paths, every set of operations, *)
(* every quota, any number of handlers and requests and all faults: an     *)
(* upload with If-Match replaces the version it names, uploads and copies  *)
(* do not take the user over the quota together, no file the rows list is  *)
(* missing from disk where no request works, no content a row commits to is*)
(* lost, also by a request that fails, undoes itself or is cut off by a    *)
(* crash.  DavRowsProofs goes on from here.                                *)
(*                                                                         *)
(* The first two need to know what a transaction leaves alone (rows apart  *)
(* from its paths) and what it does to the user's total.  The next two     *)
(* follow every request through its steps on disk: what each of them       *)
(* moves, where the content of a row is meanwhile, and why the names of    *)
(* backups and temporary files keep requests out of each other's way.      *)
(***************************************************************************)
EXTENDS DavTree, SequenceTheorems, FiniteSetTheorems, WellFoundedInduction, TLAPS

(***************************************************************************)
(* Sums over finite sets.  The library adds them up with a fold; the sums  *)
(* of all subsets are one function, Sums, of which there is exactly one.   *)
(***************************************************************************)

Pick(s) == CHOOSE x \in s : TRUE
Sums(w, g, S) == g = [s \in SUBSET S |-> IF s = {} THEN 0 ELSE w[Pick(s)] + g[s \ {Pick(s)}]]
Rest(s) == s \ {Pick(s)}
TheSums(w, S) == CHOOSE g : Sums(w, g, S)
SumOf(w, S) == TheSums(w, S)[S]

\* A set of finite sets has one with the fewest elements: what stands in for induction
\* on finite sets.
LEMMA SmallestSet ==
    ASSUME NEW D, D # {}, \A s \in D : IsFiniteSet(s)
    PROVE  \E s \in D : \A t \in D : ~ (Cardinality(t) < Cardinality(s))
<1> DEFINE T == {Cardinality(s) : s \in D}
<1>1. T \subseteq Nat /\ T # {}
  BY FS_CardinalityType
<1>2. PICK x \in T : \A y \in T : ~ (<<y, x>> \in OpToRel(<, Nat))
  BY <1>1, NatLessThanWellFounded, WFMin
<1>3. PICK s \in D : Cardinality(s) = x
  BY <1>2
<1>4. \A t \in D : Cardinality(t) \in Nat /\ ~ (Cardinality(t) < x)
  BY <1>1, <1>2 DEF OpToRel
<1>5. QED
  BY <1>3, <1>4

\* A set without one of its elements is smaller.
LEMMA RestSmaller ==
    ASSUME NEW s, IsFiniteSet(s), s # {}
    PROVE  /\ Pick(s) \in s /\ Rest(s) \subseteq s /\ Rest(s) # s /\ IsFiniteSet(Rest(s))
           /\ Cardinality(Rest(s)) < Cardinality(s)
<1>1. Pick(s) \in s
  BY DEF Pick
<1>2. /\ IsFiniteSet(Rest(s)) /\ Cardinality(Rest(s)) = Cardinality(s) - 1
      /\ Cardinality(s) \in Nat
  BY <1>1, FS_RemoveElement, FS_CardinalityType DEF Rest
<1>3. QED
  BY <1>1, <1>2 DEF Rest

\* Sums over the subsets of S are, cut down, the sums over the subsets of T.
LEMMA SumsRestricted ==
    ASSUME NEW w, NEW g, NEW S, Sums(w, g, S), NEW T \in SUBSET S
    PROVE  Sums(w, [s \in SUBSET T |-> g[s]], T)
<1> DEFINE h == [s \in SUBSET T |-> g[s]]
<1>1. \A s \in SUBSET T : Rest(s) \in SUBSET T /\ h[Rest(s)] = g[Rest(s)]
  BY DEF Rest
<1>2. \A s \in SUBSET T : g[s] = IF s = {} THEN 0 ELSE w[Pick(s)] + g[Rest(s)]
  BY DEF Sums, Rest
<1>3. h = [s \in SUBSET T |-> IF s = {} THEN 0 ELSE w[Pick(s)] + h[Rest(s)]]
  BY <1>1, <1>2
<1>4. QED
  BY <1>3 DEF Sums, Rest

\* Two functions that add up the same weights are equal: on a smallest set on which they
\* differ they would add the same.
LEMMA SumsUnique ==
    ASSUME NEW w, NEW S, IsFiniteSet(S), NEW g, NEW h, Sums(w, g, S), Sums(w, h, S)
    PROVE  g = h
<1> DEFINE D == {s \in SUBSET S : g[s] # h[s]}
<1>1. g = [s \in SUBSET S |-> g[s]] /\ h = [s \in SUBSET S |-> h[s]]
  BY DEF Sums
<1>2. ASSUME D # {} PROVE FALSE
  <2>1. PICK s \in D : \A t \in D : ~ (Cardinality(t) < Cardinality(s))
    BY <1>2, SmallestSet, FS_Subset
  <2>2. /\ g[s] = IF s = {} THEN 0 ELSE w[Pick(s)] + g[Rest(s)]
        /\ h[s] = IF s = {} THEN 0 ELSE w[Pick(s)] + h[Rest(s)]
    BY <2>1 DEF Sums, Rest
  <2>3. s # {} /\ IsFiniteSet(s)
    BY <2>1, <2>2, FS_Subset
  <2>4. Rest(s) \in SUBSET S /\ Cardinality(Rest(s)) < Cardinality(s)
    BY <2>1, <2>3, RestSmaller
  <2>5. g[Rest(s)] = h[Rest(s)]
    BY <2>1, <2>4
  <2>6. QED
    BY <2>1, <2>2, <2>5
<1>3. \A s \in SUBSET S : g[s] = h[s]
  BY <1>2
<1>4. QED
  BY <1>1, <1>3

\* Every finite set has its sums: a smallest set without would have them all the same.
LEMMA SumsExist ==
    ASSUME NEW w, NEW S, IsFiniteSet(S)
    PROVE  \E g : Sums(w, g, S)
<1> DEFINE D == {s \in SUBSET S : ~ \E g : Sums(w, g, s)}
<1>1. ASSUME D # {} PROVE FALSE
  <2>1. PICK T \in D : \A t \in D : ~ (Cardinality(t) < Cardinality(T))
    BY <1>1, SmallestSet, FS_Subset
  <2>2. IsFiniteSet(T) /\ T \subseteq S
    BY <2>1, FS_Subset
  <2> DEFINE f == [s \in SUBSET T |-> IF s = {} THEN 0 ELSE w[Pick(s)] + TheSums(w, Rest(s))[Rest(s)]]
  <2>3. ASSUME NEW U \in SUBSET T, U # T PROVE Sums(w, TheSums(w, U), U)
    <3>1. IsFiniteSet(U) /\ Cardinality(U) <= Cardinality(T) /\ Cardinality(U) # Cardinality(T)
      BY <2>2, <2>3, FS_Subset
    <3>0. Cardinality(U) < Cardinality(T)
      BY <2>2, <3>1, FS_CardinalityType
    <3>2. U \notin D
      BY <2>1, <3>0
    <3>3. QED
      BY <2>2, <3>2 DEF TheSums
  <2>4. ASSUME NEW U \in SUBSET T, U # T PROVE f[U] = TheSums(w, U)[U]
    <3>1. TheSums(w, U)[U] = IF U = {} THEN 0 ELSE w[Pick(U)] + TheSums(w, U)[Rest(U)]
      BY <2>3, <2>4 DEF Sums, Rest
    <3>2. CASE U = {}
      BY <3>1, <3>2
    <3>3. CASE U # {}
      <4>1. IsFiniteSet(U) /\ Rest(U) \subseteq U /\ Rest(U) # T /\ IsFiniteSet(Rest(U))
        BY <2>2, <2>4, <3>3, FS_Subset, RestSmaller
      <4>2. Sums(w, [s \in SUBSET Rest(U) |-> TheSums(w, U)[s]], Rest(U))
        BY <2>3, <2>4, <4>1, SumsRestricted
      <4>3. Sums(w, TheSums(w, Rest(U)), Rest(U))
        BY <2>3, <4>1
      <4>4. TheSums(w, Rest(U)) = [s \in SUBSET Rest(U) |-> TheSums(w, U)[s]]
        BY <4>1, <4>2, <4>3, SumsUnique
      <4>5. TheSums(w, Rest(U))[Rest(U)] = TheSums(w, U)[Rest(U)]
        BY <4>4
      <4>6. QED
        BY <3>1, <3>3, <4>5
    <3>4. QED
      BY <3>2, <3>3
  <2>5. \A s \in SUBSET T : s # {} => f[Rest(s)] = TheSums(w, Rest(s))[Rest(s)]
    <3> SUFFICES ASSUME NEW s \in SUBSET T, s # {} PROVE f[Rest(s)] = TheSums(w, Rest(s))[Rest(s)]
      OBVIOUS
    <3>1. IsFiniteSet(s)
      BY <2>2, FS_Subset
    <3>2. Rest(s) \in SUBSET T /\ Rest(s) # T
      BY <3>1, RestSmaller
    <3>3. QED
      BY <2>4, <3>2
  <2>6. f = [s \in SUBSET T |-> IF s = {} THEN 0 ELSE w[Pick(s)] + f[Rest(s)]]
    <3> DEFINE h == [s \in SUBSET T |-> IF s = {} THEN 0 ELSE w[Pick(s)] + f[Rest(s)]]
    <3>1. \A s \in SUBSET T : f[s] = h[s]
      BY <2>5
    <3>2. QED
      BY <3>1
  <2> HIDE DEF f
  <2>7. Sums(w, f, T)
    BY <2>6 DEF Sums, Rest
  <2>8. QED
    BY <2>1, <2>7
<1>2. QED
  BY <1>1

\* A finite sum of integers is an integer.
LEMMA SumInt ==
    ASSUME NEW w, NEW S, IsFiniteSet(S), \A x \in S : w[x] \in Int
    PROVE  SumOf(w, S) \in Int
<1> DEFINE g == TheSums(w, S)
           D == {s \in SUBSET S : g[s] \notin Int}
<1>1. Sums(w, g, S)
  BY SumsExist DEF TheSums
<1> HIDE DEF g
<1>2. ASSUME D # {} PROVE FALSE
  <2>1. PICK s \in D : \A t \in D : ~ (Cardinality(t) < Cardinality(s))
    BY <1>2, SmallestSet, FS_Subset
  <2>2. g[s] = IF s = {} THEN 0 ELSE w[Pick(s)] + g[Rest(s)]
    BY <1>1, <2>1 DEF Sums, Rest
  <2>3. s # {} /\ IsFiniteSet(s)
    BY <2>1, <2>2, FS_Subset
  <2>4. Pick(s) \in S /\ Rest(s) \in SUBSET S /\ Cardinality(Rest(s)) < Cardinality(s)
    BY <2>1, <2>3, RestSmaller
  <2>5. g[Rest(s)] \in Int /\ w[Pick(s)] \in Int
    BY <2>1, <2>4
  <2>6. QED
    BY <2>1, <2>2, <2>3, <2>5
<1>3. g[S] \in Int
  BY <1>2
<1>4. QED
  BY <1>3 DEF SumOf, g

\* What the model computes with the library's fold is such a sum: the bytes of the files
\* below a path (fileTreeSizeTx and collectSubtree in the code).
LEMMA BytesAreSum ==
    ASSUME NEW R, NEW S
    PROVE  MapThenSumSet(LAMBDA q : IF R[q].data = Dir THEN 0 ELSE R[q].size, S)
            = SumOf([q \in S |-> IF R[q].data = Dir THEN 0 ELSE R[q].size], S)
<1> DEFINE w == [q \in S |-> IF R[q].data = Dir THEN 0 ELSE R[q].size]
<1>1. \A s \in SUBSET S : s # {} => w[Pick(s)] = IF R[Pick(s)].data = Dir THEN 0 ELSE R[Pick(s)].size
  BY DEF Pick
<1>2. \A g : [s \in SUBSET S |-> IF s = {} THEN 0 ELSE w[Pick(s)] + g[s \ {Pick(s)}]]
           = [s \in SUBSET S |-> IF s = {} THEN 0 ELSE (IF R[Pick(s)].data = Dir THEN 0 ELSE R[Pick(s)].size) + g[s \ {Pick(s)}]]
  BY <1>1
<1>3. \A g : Sums(w, g, S) <=> g = [s \in SUBSET S |-> IF s = {} THEN 0 ELSE (IF R[Pick(s)].data = Dir THEN 0 ELSE R[Pick(s)].size) + g[s \ {Pick(s)}]]
  BY <1>2 DEF Sums
<1>4. (CHOOSE g : Sums(w, g, S)) = (CHOOSE g : g = [s \in SUBSET S |-> IF s = {} THEN 0 ELSE (IF R[Pick(s)].data = Dir THEN 0 ELSE R[Pick(s)].size) + g[s \ {Pick(s)}]])
  BY <1>3
<1>5. QED
  BY <1>4 DEF SumOf, TheSums, MapThenSumSet, MapThenFoldSet, Pick
\* The same for the sizes the rows start with.
LEMMA ContentsAreSum ==
    ASSUME NEW f, NEW S
    PROVE  MapThenSumSet(LAMBDA q : IF f[q] = Dir THEN 0 ELSE Size[f[q]], S)
            = SumOf([q \in S |-> IF f[q] = Dir THEN 0 ELSE Size[f[q]]], S)
<1> DEFINE w == [q \in S |-> IF f[q] = Dir THEN 0 ELSE Size[f[q]]]
<1>1. \A s \in SUBSET S : s # {} => w[Pick(s)] = IF f[Pick(s)] = Dir THEN 0 ELSE Size[f[Pick(s)]]
  BY DEF Pick
<1>2. \A g : [s \in SUBSET S |-> IF s = {} THEN 0 ELSE w[Pick(s)] + g[s \ {Pick(s)}]]
           = [s \in SUBSET S |-> IF s = {} THEN 0 ELSE (IF f[Pick(s)] = Dir THEN 0 ELSE Size[f[Pick(s)]]) + g[s \ {Pick(s)}]]
  BY <1>1
<1>3. \A g : Sums(w, g, S) <=> g = [s \in SUBSET S |-> IF s = {} THEN 0 ELSE (IF f[Pick(s)] = Dir THEN 0 ELSE Size[f[Pick(s)]]) + g[s \ {Pick(s)}]]
  BY <1>2 DEF Sums
<1>4. (CHOOSE g : Sums(w, g, S)) = (CHOOSE g : g = [s \in SUBSET S |-> IF s = {} THEN 0 ELSE (IF f[Pick(s)] = Dir THEN 0 ELSE Size[f[Pick(s)]]) + g[s \ {Pick(s)}]])
  BY <1>3
<1>5. QED
  BY <1>4 DEF SumOf, TheSums, MapThenSumSet, MapThenFoldSet, Pick
\* A path at or below s is s followed by what is left of it.
LEMMA BelowPath ==
    ASSUME NEW s \in Seq(Nat), NEW k \in Seq(Nat), k = s \/ Descendant(s, k)
    PROVE  Suffix(k, s) \in Seq(Nat) /\ s \o Suffix(k, s) = k
<1> DEFINE n == Len(s)
           m == Len(k)
           x == Suffix(k, s)
<1>1. n \in Nat /\ m \in Nat /\ n <= m /\ \A i \in 1..n : s[i] = k[i]
  BY DEF Descendant
<1>2. \A i \in n + 1 .. m : k[i] \in Nat
  BY <1>1
<1>3. /\ x \in Seq(Nat) /\ Len(x) = m - n
      /\ \A i \in 1..m - n : x[i] = k[n + i]
  <2>1. /\ SubSeq(k, n + 1, m) \in Seq(Nat)
        /\ Len(SubSeq(k, n + 1, m)) = IF n + 1 <= m THEN m - (n + 1) + 1 ELSE 0
        /\ \A i \in 1 .. m - (n + 1) + 1 : SubSeq(k, n + 1, m)[i] = k[n + 1 + i - 1]
    BY <1>1, <1>2, SubSeqProperties
  <2>2. QED
    BY <1>1, <2>1 DEF Suffix
<1> HIDE DEF x
<1>4. /\ s \o x \in Seq(Nat) /\ Len(s \o x) = m
      /\ \A i \in 1..m : (s \o x)[i] = IF i <= n THEN s[i] ELSE x[i - n]
  BY <1>1, <1>3, ConcatProperties
<1>5. ASSUME NEW i \in 1..m PROVE (s \o x)[i] = k[i]
  <2>1. CASE i <= n
    BY <1>1, <1>4, <2>1
  <2>2. CASE i > n
    <3>1. i - n \in 1..m - n /\ n + (i - n) = i
      BY <1>1, <2>2
    <3>2. x[i - n] = k[i]
      BY <1>3, <3>1
    <3>3. ~ (i <= n)
      BY <1>1, <2>2
    <3>4. (s \o x)[i] = x[i - n]
      BY <1>4, <3>3
    <3>5. QED
      BY <3>2, <3>4
  <2>3. i <= n \/ i > n
    BY <1>1
  <2>4. QED
    BY <2>1, <2>2, <2>3
<1>6. QED
  BY <1>3, <1>4, <1>5, SeqEqual DEF x

\* d followed by something is at or below d, and what is left of it is that something.
LEMMA CarriedPath ==
    ASSUME NEW d \in Seq(Nat), NEW x \in Seq(Nat)
    PROVE  /\ d \o x \in Seq(Nat) /\ Suffix(d \o x, d) = x
           /\ d \o x = d \/ Descendant(d, d \o x)
           /\ d # Root => d \o x # Root
<1> DEFINE n == Len(d)
           m == Len(x)
           k == d \o x
<1>1. /\ n \in Nat /\ m \in Nat
      /\ k \in Seq(Nat) /\ Len(k) = n + m
      /\ \A i \in 1..n + m : k[i] = IF i <= n THEN d[i] ELSE x[i - n]
  BY ConcatProperties
<1> HIDE DEF k
<1>2. \A i \in n + 1 .. n + m : k[i] \in Nat
  BY SMTT(40), <1>1
<1>3. /\ SubSeq(k, n + 1, n + m) \in Seq(Nat)
      /\ Len(SubSeq(k, n + 1, n + m)) = m
      /\ \A i \in 1 .. m : SubSeq(k, n + 1, n + m)[i] = x[i]
  <2> DEFINE a == n + 1
             b == n + m
  <2>4. a \in Int /\ b \in Int /\ \A i \in a..b : k[i] \in Nat
    BY <1>1, <1>2
  <2> HIDE DEF a, b
  <2>5. /\ SubSeq(k, a, b) \in Seq(Nat)
        /\ Len(SubSeq(k, a, b)) = IF a <= b THEN b - a + 1 ELSE 0
        /\ \A i \in 1 .. b - a + 1 : SubSeq(k, a, b)[i] = k[a + i - 1]
    BY SMTT(40), <2>4, SubSeqProperties
  <2>1. /\ SubSeq(k, n + 1, n + m) \in Seq(Nat)
        /\ Len(SubSeq(k, n + 1, n + m)) = IF n + 1 <= n + m THEN n + m - (n + 1) + 1 ELSE 0
        /\ \A i \in 1 .. n + m - (n + 1) + 1 : SubSeq(k, n + 1, n + m)[i] = k[n + 1 + i - 1]
    BY <2>5 DEF a, b
  <2>2. ASSUME NEW i \in 1..m PROVE k[n + 1 + i - 1] = x[i]
    <3> DEFINE j == n + i
    <3>1. j \in 1..n + m /\ ~ (j <= n) /\ j - n = i /\ n + 1 + i - 1 = j
      BY <1>1
    <3> HIDE DEF j
    <3>2. k[j] = IF j <= n THEN d[j] ELSE x[j - n]
      BY <1>1, <3>1
    <3>3. QED
      BY <3>1, <3>2
  <2>6. /\ n + m - (n + 1) + 1 = m
        /\ (IF n + 1 <= n + m THEN m ELSE 0) = m
    BY <1>1
  <2>3. QED
    BY <2>1, <2>2, <2>6
<1>4. SubSeq(k, n + 1, n + m) = x
  BY <1>3, SeqEqual
<1>5. /\ SubSeq(k, 1, n) \in Seq(Nat) /\ Len(SubSeq(k, 1, n)) = n
      /\ \A i \in 1..n : SubSeq(k, 1, n)[i] = d[i]
  <2>1. \A i \in 1..n : k[i] \in Nat
    BY <1>1
  <2>2. /\ SubSeq(k, 1, n) \in Seq(Nat)
        /\ Len(SubSeq(k, 1, n)) = IF 1 <= n THEN n - 1 + 1 ELSE 0
        /\ \A i \in 1 .. n - 1 + 1 : SubSeq(k, 1, n)[i] = k[1 + i - 1]
    BY <1>1, <2>1, SubSeqProperties
  <2>3. QED
    BY <1>1, <2>2
<1>6. SubSeq(k, 1, n) = d
  BY <1>5, SeqEqual
<1>7. m > 0 \/ x = << >>
  BY <1>1
<1>8. k = d \/ Descendant(d, k)
  <2>1. CASE m > 0
    BY <1>1, <1>6, <2>1 DEF Descendant
  <2>2. CASE x = << >>
    BY <2>2, ConcatEmptySeq DEF k
  <2>3. QED
    BY <1>7, <2>1, <2>2
<1>9. d # Root => k # Root
  BY <1>1 DEF Root
<1>10. QED
  BY <1>1, <1>4, <1>8, <1>9 DEF k, Suffix

\* Nothing is left of a path below itself.
LEMMA EmptySuffix ==
    ASSUME NEW s \in Seq(Nat), NEW d \in Seq(Nat)
    PROVE  d \o Suffix(d, d) = d /\ s \o Suffix(d, d) = s
<1>1. Suffix(d, d) = << >>
  BY DEF Suffix
<1>2. QED
  BY <1>1, ConcatEmptySeq

\* Every other path is below the root.
LEMMA RootAbove ==
    ASSUME NEW p \in Seq(Nat), p # Root
    PROVE  Descendant(Root, p) /\ ~ Descendant(p, Root)
BY DEF Descendant, Root

-----------------------------------------------------------------------------
(* Sets of paths that are carried or looked up.                            *)

\* The values of a function with a finite domain are finitely many.
LEMMA FiniteImage ==
    ASSUME NEW S, IsFiniteSet(S), NEW f, DOMAIN f = S
    PROVE  IsFiniteSet({f[x] : x \in S})
<1> DEFINE T == {f[x] : x \in S}
           g == [x \in S |-> f[x]]
<1>1. g \in Surjection(S, T)
  BY DEF Surjection
<1>2. QED
  BY <1>1, FS_Surjection

\* Finitely many paths, carried from below s to below d, are finitely many.
LEMMA CarriedFinite ==
    ASSUME NEW S, IsFiniteSet(S), NEW s, NEW d
    PROVE  IsFiniteSet({d \o Suffix(k, s) : k \in S})
<1> DEFINE f == [k \in S |-> d \o Suffix(k, s)]
<1>1. IsFiniteSet({f[k] : k \in S})
  BY FiniteImage, Zenon
<1>2. {f[k] : k \in S} = {d \o Suffix(k, s) : k \in S}
  OBVIOUS
<1>3. QED
  BY <1>1, <1>2

\* A path has finitely many ancestors: the paths it lies below.
LEMMA AncestorsFinite ==
    ASSUME NEW p \in Seq(Nat)
    PROVE  /\ IsFiniteSet(ParentPaths(p)) /\ ParentPaths(p) \subseteq Seq(Nat)
           /\ \A a \in Seq(Nat) : a \in ParentPaths(p) <=> Descendant(a, p)
<1> DEFINE f == [n \in 0..Len(p) |-> SubSeq(p, 1, n)]
<1>0. IsFiniteSet(0..Len(p)) /\ DOMAIN f = 0..Len(p)
  BY FS_Interval
<1>1. IsFiniteSet({f[n] : n \in 0..Len(p)})
  BY <1>0, FiniteImage, Zenon
<1>2. ParentPaths(p) \subseteq {f[n] : n \in 0..Len(p)}
  BY DEF ParentPaths
<1>3. \A n \in 0..Len(p) - 1 : SubSeq(p, 1, n) \in Seq(Nat) /\ Descendant(SubSeq(p, 1, n), p)
  <2> SUFFICES ASSUME NEW n \in 0..Len(p) - 1
               PROVE  SubSeq(p, 1, n) \in Seq(Nat) /\ Descendant(SubSeq(p, 1, n), p)
    OBVIOUS
  <2>1. n \in Int /\ 1 \in Int /\ \A i \in 1..n : p[i] \in Nat
    OBVIOUS
  <2>2. SubSeq(p, 1, n) \in Seq(Nat) /\ Len(SubSeq(p, 1, n)) = n
    BY SMTT(40), <2>1, SubSeqProperties
  <2>3. QED
    BY <2>2 DEF Descendant
<1>4. ASSUME NEW a, Descendant(a, p), a \in Seq(Nat) PROVE a \in ParentPaths(p)
  <2>1. Len(a) \in 0..Len(p) - 1 /\ a = SubSeq(p, 1, Len(a))
    BY <1>4 DEF Descendant
  <2>2. QED
    BY <2>1 DEF ParentPaths
<1>5. QED
  BY <1>1, <1>2, <1>3, <1>4, FS_Subset DEF ParentPaths

-----------------------------------------------------------------------------
(* What every state of table files is like, and what a statement leaves    *)
(* alone: rows at paths that overlap none of P.                            *)

IsRow(x) ==
    /\ DOMAIN x = {"data", "id", "ver", "size"}
    /\ x.data \in Content \cup {Dir} /\ x.ver \in Nat /\ x.size \in Int

RowsTyped(R) ==
    /\ IsFiniteSet(DOMAIN R) /\ DOMAIN R \subseteq Seq(Nat)
    /\ Root \in DOMAIN R /\ R[Root].data = Dir
    /\ \A p \in DOMAIN R : IsRow(R[p])

SameApart(R, S, P) ==
    \A k \in Seq(Nat) : (\A p \in P : ~ Overlap(k, p)) =>
        /\ k \in DOMAIN R <=> k \in DOMAIN S
        /\ k \in DOMAIN R => S[k] = R[k]

\* One change leaves alone what is apart from P, the next what is apart from Q: together
\* they leave alone what is apart from Q if P is part of it.
LEMMA SameChain ==
    ASSUME NEW R, NEW S, NEW T, NEW P, NEW Q, P \subseteq Q,
           SameApart(R, S, P), SameApart(S, T, Q)
    PROVE  SameApart(R, T, Q)
BY DEF SameApart

\* updateAncestorSizes changes sizes and versions of rows above p only, the user's total
\* among them.
LEMMA BumpedRows ==
    ASSUME NEW R, RowsTyped(R), NEW p \in Seq(Nat), p # Root, NEW delta \in Int
    PROVE  /\ RowsTyped(Bumped(R, p, delta)) /\ DOMAIN Bumped(R, p, delta) = DOMAIN R
           /\ SameApart(R, Bumped(R, p, delta), {p})
           /\ Bumped(R, p, delta)[Root].size = R[Root].size + delta
           /\ \A k \in DOMAIN R : Bumped(R, p, delta)[k].data = R[k].data
<1> DEFINE B == Bumped(R, p, delta)
<1>1. DOMAIN B = DOMAIN R
  BY DEF Bumped
<1>2. \A k \in DOMAIN R :
         /\ Descendant(k, p) /\ IsDirRow(R, k) => B[k] = [R[k] EXCEPT !.size = @ + delta, !.ver = @ + 1]
         /\ ~ (Descendant(k, p) /\ IsDirRow(R, k)) => B[k] = R[k]
  BY DEF Bumped
<1> HIDE DEF B
<1>3. ASSUME NEW k \in DOMAIN R, IsRow(R[k]) PROVE IsRow(B[k]) /\ B[k].data = R[k].data
  <2>1. CASE Descendant(k, p) /\ IsDirRow(R, k)
    <3>1. B[k] = [R[k] EXCEPT !.size = @ + delta, !.ver = @ + 1]
      BY <1>2, <2>1
    <3>2. /\ DOMAIN B[k] = DOMAIN R[k] /\ B[k].size = R[k].size + delta /\ B[k].ver = R[k].ver + 1
          /\ B[k].data = R[k].data
      BY <1>3, <3>1 DEF IsRow
    <3>3. QED
      BY <1>3, <3>2 DEF IsRow
  <2>2. CASE ~ (Descendant(k, p) /\ IsDirRow(R, k))
    BY <1>2, <1>3, <2>2
  <2>3. QED
    BY <2>1, <2>2
<1>4. B[Root].size = R[Root].size + delta
  BY <1>2, RootAbove DEF RowsTyped, IsRow, IsDirRow
<1>5. SameApart(R, B, {p})
  BY <1>1, <1>2 DEF SameApart, Overlap
<1>6. QED
  BY <1>1, <1>3, <1>4, <1>5 DEF RowsTyped, B

\* Deleting rows at and below p leaves the rows apart from p and the root's.
LEMMA RemovedRows ==
    ASSUME NEW R, RowsTyped(R), NEW p \in Seq(Nat), p # Root, NEW E, E \subseteq Entries(R, p)
    PROVE  LET S == [k \in DOMAIN R \ E |-> R[k]]
           IN RowsTyped(S) /\ SameApart(R, S, {p}) /\ S[Root] = R[Root]
<1> DEFINE S == [k \in DOMAIN R \ E |-> R[k]]
<1>1. Root \notin E
  BY RootAbove DEF Entries
<1>2. IsFiniteSet(DOMAIN S)
  BY FS_Subset DEF RowsTyped
<1>3. SameApart(R, S, {p})
  BY DEF SameApart, Overlap, Entries
<1>4. QED
  BY <1>1, <1>2, <1>3 DEF RowsTyped

\* So does inserting rows that overlap p.
LEMMA InsertedRows ==
    ASSUME NEW R, RowsTyped(R), NEW S, IsFiniteSet(DOMAIN S), DOMAIN S \subseteq Seq(Nat),
           \A k \in DOMAIN S : IsRow(S[k]),
           NEW p \in Seq(Nat), \A k \in DOMAIN S : Overlap(k, p)
    PROVE  /\ RowsTyped(Inserted(R, S)) /\ SameApart(R, Inserted(R, S), {p})
           /\ Inserted(R, S)[Root] = R[Root]
<1>1. IsFiniteSet(DOMAIN R \cup DOMAIN S)
  BY FS_Union DEF RowsTyped
<1>2. SameApart(R, Inserted(R, S), {p})
  BY DEF SameApart, Inserted
<1>3. QED
  BY <1>1, <1>2 DEF RowsTyped, Inserted

\* So does the UPDATE of the row of a replaced file.
LEMMA RewrittenRows ==
    ASSUME NEW R, RowsTyped(R), NEW p \in DOMAIN R, p # Root, NEW data \in Content \cup {Dir}, NEW size \in Int
    PROVE  /\ RowsTyped(Rewritten(R, p, data, size)) /\ SameApart(R, Rewritten(R, p, data, size), {p})
           /\ Rewritten(R, p, data, size)[Root] = R[Root]
<1> DEFINE S == Rewritten(R, p, data, size)
<1>1. DOMAIN S = DOMAIN R /\ \A k \in DOMAIN R : k # p => S[k] = R[k]
  BY DEF Rewritten
<1>2. IsRow(S[p])
  <2>1. IsRow(R[p])
    BY DEF RowsTyped
  <2>2. /\ DOMAIN S[p] = DOMAIN R[p] /\ S[p].data = data /\ S[p].size = size
        /\ S[p].ver = R[p].ver + 1
    BY <2>1 DEF Rewritten, IsRow
  <2> HIDE DEF S
  <2>3. QED
    BY <2>1, <2>2 DEF IsRow
<1> HIDE DEF S
<1>3. SameApart(R, S, {p})
  BY <1>1 DEF SameApart, Overlap
<1>4. QED
  BY <1>1, <1>2, <1>3 DEF RowsTyped, S

\* What INSERT makes is a row.
LEMMA NewRowIsRow ==
    ASSUME NEW p, NEW data \in Content \cup {Dir}, NEW size \in Int
    PROVE  IsRow(NewRow(p, data, size))
BY DEF NewRow, IsRow

\* Sizes read from a table are integers.
LEMMA SizesAreInt ==
    ASSUME NEW R, RowsTyped(R), NEW p
    PROVE  TreeSize(R, p) \in Int /\ FileBytes(R, p) \in Int
<1>1. TreeSize(R, p) \in Int
  BY DEF TreeSize, RowsTyped, IsRow
<1> DEFINE w == [q \in Entries(R, p) |-> IF R[q].data = Dir THEN 0 ELSE R[q].size]
<1>2. IsFiniteSet(Entries(R, p)) /\ Entries(R, p) \subseteq DOMAIN R
  BY FS_Subset DEF Entries, RowsTyped
<1>3. \A q \in Entries(R, p) : w[q] \in Int
  BY <1>2 DEF RowsTyped, IsRow
<1>4. SumOf(w, Entries(R, p)) \in Int
  BY <1>2, <1>3, SumInt
<1>5. QED
  BY <1>1, <1>4, BytesAreSum DEF FileBytes

-----------------------------------------------------------------------------
(* What a transaction does to the rows: sizes stay sizes, rows apart from  *)
(* its paths stay as they are, and a request that needs quota changes the  *)
(* user's total by the bytes it has been granted.                          *)

\* r's request is one of those modelled.
Requested(r) == Op(r) \in Ops /\ req[r].num \in 1..MaxOps

\* The paths of a request are sequences of names, and only PROPPATCH has the root.
LEMMA OpPaths ==
    ASSUME NEW r, Requested(r)
    PROVE  /\ Op(r).kind \in Kinds
           /\ Source(r) \in Seq(Nat) /\ Target(r) \in Seq(Nat)
           /\ Op(r).kind # "PROPPATCH" => Source(r) # Root /\ Target(r) # Root
           /\ Op(r).kind \notin Pairs => Source(r) = Target(r)
BY TreeAssumption, PathAssumption DEF Requested, ValidOp, Source, Target, Pairs

\* The requests enforceQuotaDeltaTx is asked about; whether the destination is replaced; and by
\* how much the user's total grows.
Growing(r) == Op(r).kind \in {"PUT", "COPY", "COPY0"}
Replaces(r) == req[r].saved \/ req[r].pc = "saving"
NetGrowth(r) ==
    IF Op(r).kind = "PUT" THEN Size[Body(r)] - TreeSize(rows, Source(r))
    ELSE (IF Op(r).kind = "COPY0" /\ req[r].isDir THEN 0 ELSE TreeSize(rows, Source(r)))
         - (IF Replaces(r) THEN TreeSize(rows, Target(r)) ELSE 0)

\* publishFile changes the row of its file and the rows above, and the user's total by the
\* difference of the sizes.
LEMMA PutEffect ==
    ASSUME RowsTyped(rows), NEW r, Requested(r), Op(r).kind = "PUT"
    PROVE  /\ RowsTyped(PutRows(r)) /\ SameApart(rows, PutRows(r), {Source(r)})
           /\ PutRows(r)[Root].size = rows[Root].size + (Size[Body(r)] - TreeSize(rows, Source(r)))
<1> DEFINE p == Source(r)
           delta == Size[Body(r)] - TreeSize(rows, p)
           New == [q \in {p} |-> NewRow(q, Body(r), Size[Body(r)])]
           R == IF p \in DOMAIN rows THEN Rewritten(rows, p, Body(r), Size[Body(r)])
                ELSE Inserted(rows, New)
<1>1. p \in Seq(Nat) /\ p # Root /\ Size[Body(r)] \in Int /\ Body(r) \in Content
  BY OpPaths, TreeAssumption DEF Requested, Body
<1> HIDE DEF p
<1>2. delta \in Int
  BY <1>1, SizesAreInt
<1>3. RowsTyped(R) /\ SameApart(rows, R, {p}) /\ R[Root] = rows[Root]
  <2>1. CASE p \in DOMAIN rows
    BY <1>1, <2>1, RewrittenRows
  <2>2. CASE p \notin DOMAIN rows
    <3>1. DOMAIN New = {p} /\ IsFiniteSet({p})
      BY FS_Singleton
    <3>2. \A k \in DOMAIN New : IsRow(New[k]) /\ Overlap(k, p)
      BY <1>1, NewRowIsRow DEF Overlap
    <3> HIDE DEF New
    <3>3. QED
      BY <1>1, <2>2, <3>1, <3>2, InsertedRows
  <2>3. QED
    BY <2>1, <2>2
<1>4. PutRows(r) = Bumped(R, p, delta)
  BY DEF PutRows, p
<1> HIDE DEF R, delta
<1>5. /\ RowsTyped(Bumped(R, p, delta)) /\ SameApart(R, Bumped(R, p, delta), {p})
      /\ Bumped(R, p, delta)[Root].size = R[Root].size + delta
  BY <1>1, <1>2, <1>3, BumpedRows
<1>6. SameApart(rows, Bumped(R, p, delta), {p})
  BY <1>3, <1>5, SameChain
<1>7. QED
  BY <1>3, <1>4, <1>5, <1>6 DEF delta, p

\* MKCOL changes no row that is apart from the new collection.
LEMMA MkcolEffect ==
    ASSUME RowsTyped(rows), NEW r, Requested(r), Op(r).kind = "MKCOL"
    PROVE  RowsTyped(MkcolRows(r)) /\ SameApart(rows, MkcolRows(r), {Source(r)})
<1> DEFINE p == Source(r)
           New == [q \in ParentPaths(p) \cup {p} |-> NewRow(q, Dir, 0)]
           R == Inserted(rows, New)
<1>1. p \in Seq(Nat) /\ p # Root
  BY OpPaths
<1> HIDE DEF p
<1>2. DOMAIN New = ParentPaths(p) \cup {p} /\ IsFiniteSet(DOMAIN New) /\ DOMAIN New \subseteq Seq(Nat)
  BY <1>1, AncestorsFinite, FS_AddElement
<1>3. \A k \in DOMAIN New : IsRow(New[k]) /\ Overlap(k, p)
  BY <1>1, <1>2, AncestorsFinite, NewRowIsRow DEF Overlap
<1> HIDE DEF New
<1>4. RowsTyped(R) /\ SameApart(rows, R, {p})
  BY <1>1, <1>2, <1>3, InsertedRows
<1>5. MkcolRows(r) = Bumped(R, p, 0)
  BY DEF MkcolRows, New, p
<1> HIDE DEF R
<1>9. 0 \in Int
  OBVIOUS
<1>6. RowsTyped(Bumped(R, p, 0)) /\ SameApart(R, Bumped(R, p, 0), {p})
  BY <1>1, <1>4, <1>9, BumpedRows
<1>7. SameApart(rows, Bumped(R, p, 0), {p})
  BY <1>4, <1>6, SameChain
<1>8. QED
  BY <1>5, <1>6, <1>7 DEF p

\* DELETE changes no row that is apart from what it deletes.
LEMMA DeleteEffect ==
    ASSUME RowsTyped(rows), NEW r, Requested(r), Op(r).kind = "DELETE", RowsThere(r)
    PROVE  RowsTyped(DeleteRows(r)) /\ SameApart(rows, DeleteRows(r), {Source(r)})
<1> DEFINE p == Source(r)
           E == IF req[r].isDir THEN Entries(rows, p) ELSE {p}
           R == [k \in DOMAIN rows \ E |-> rows[k]]
           delta == - rows[p].size
<1>1. p \in Seq(Nat) /\ p # Root /\ p \in DOMAIN rows
  BY OpPaths DEF RowsThere
<1>2. DeleteRows(r) = Bumped(R, p, delta)
  BY DEF DeleteRows, Removed
<1> HIDE DEF p
<1>3. delta \in Int
  BY <1>1 DEF RowsTyped, IsRow
<1>4. E \subseteq Entries(rows, p)
  BY <1>1 DEF Entries
<1>5. RowsTyped(R) /\ SameApart(rows, R, {p})
  BY <1>1, <1>4, RemovedRows
<1> HIDE DEF R, delta
<1>6. RowsTyped(Bumped(R, p, delta)) /\ SameApart(R, Bumped(R, p, delta), {p})
  BY <1>1, <1>3, <1>5, BumpedRows
<1>7. SameApart(rows, Bumped(R, p, delta), {p})
  BY <1>5, <1>6, SameChain
<1>8. QED
  BY <1>2, <1>6, <1>7 DEF p

\* What MOVE and COPY do about a destination they replace: its rows go and its bytes are
\* taken from the rows above.
LEMMA ClearedEffect ==
    ASSUME RowsTyped(rows), NEW r, Requested(r), Op(r).kind \in Pairs
    PROVE  /\ RowsTyped(Cleared(r)) /\ SameApart(rows, Cleared(r), {Target(r)})
           /\ Cleared(r)[Root].size
                = rows[Root].size - (IF req[r].saved THEN TreeSize(rows, Target(r)) ELSE 0)
<1> DEFINE d == Target(r)
           R == Removed(rows, d)
           delta == - TreeSize(rows, d)
<1>1. d \in Seq(Nat) /\ d # Root
  BY OpPaths DEF Pairs
<1> HIDE DEF d
<1>2. TreeSize(rows, d) \in Int
  BY SizesAreInt
<1>6. delta \in Int
  BY <1>2
<1>7. rows[Root].size \in Int
  BY DEF RowsTyped, IsRow
<1>3. CASE req[r].saved
  <2>1. RowsTyped(R) /\ SameApart(rows, R, {d}) /\ R[Root] = rows[Root]
    BY <1>1, RemovedRows DEF Removed
  <2>2. Cleared(r) = Bumped(R, d, delta)
    BY <1>3 DEF Cleared, d
  <2> HIDE DEF R, delta
  <2>3. /\ RowsTyped(Bumped(R, d, delta)) /\ SameApart(R, Bumped(R, d, delta), {d})
        /\ Bumped(R, d, delta)[Root].size = R[Root].size + delta
    BY <1>1, <1>6, <2>1, BumpedRows
  <2>4. SameApart(rows, Bumped(R, d, delta), {d})
    BY <2>1, <2>3, SameChain
  <2>5. Cleared(r)[Root].size = rows[Root].size + delta
    BY <2>1, <2>2, <2>3
  <2>6. rows[Root].size + delta = rows[Root].size - TreeSize(rows, d)
    BY <1>2, <1>7 DEF delta
  <2>7. QED
    BY <1>3, <2>2, <2>3, <2>4, <2>5, <2>6 DEF d
<1>4. CASE ~ req[r].saved
  <2>1. Cleared(r) = rows
    BY <1>4 DEF Cleared
  <2>2. SameApart(rows, rows, {d})
    BY DEF SameApart
  <2>3. rows[Root].size = rows[Root].size - 0
    BY <1>7
  <2>4. QED
    BY <1>4, <2>1, <2>2, <2>3 DEF d
<1>5. QED
  BY <1>3, <1>4

\* The UPDATE that renames rows from below s to below d leaves alone what is apart from both.
LEMMA CarriedRows ==
    ASSUME NEW R, RowsTyped(R), NEW s \in Seq(Nat), NEW d \in Seq(Nat), s # Root, d # Root,
           NEW E, \A k \in E : k \in Seq(Nat) /\ (k = s \/ Descendant(s, k))
    PROVE  /\ RowsTyped(Carried(R, E, s, d)) /\ SameApart(R, Carried(R, E, s, d), {s, d})
           /\ Carried(R, E, s, d)[Root] = R[Root]
<1> DEFINE new == {d \o Suffix(k, s) : k \in E \cap DOMAIN R}
           C == Carried(R, E, s, d)
<1>1. /\ DOMAIN C = (DOMAIN R \ E) \cup new
      /\ \A k \in DOMAIN C : C[k] = IF k \in new THEN R[s \o Suffix(k, d)] ELSE R[k]
  BY DEF Carried
<1> HIDE DEF C
<1>2. ASSUME NEW k \in E \cap DOMAIN R
      PROVE  LET c == d \o Suffix(k, s)
             IN /\ c \in Seq(Nat) /\ c # Root /\ (c = d \/ Descendant(d, c))
                /\ R[s \o Suffix(c, d)] = R[k]
  <2>1. Suffix(k, s) \in Seq(Nat) /\ s \o Suffix(k, s) = k
    BY BelowPath
  <2>2. QED
    BY <2>1, CarriedPath
<1>3. ASSUME NEW c \in new
      PROVE  /\ c \in Seq(Nat) /\ c # Root /\ (c = d \/ Descendant(d, c))
             /\ c \in DOMAIN C /\ IsRow(C[c])
  <2>1. PICK k \in E \cap DOMAIN R : c = d \o Suffix(k, s)
    OBVIOUS
  <2>2. C[c] = R[k]
    BY <1>1, <1>2, <2>1
  <2>3. QED
    BY <1>1, <1>2, <2>1, <2>2 DEF RowsTyped
<1>4. IsFiniteSet(DOMAIN C)
  <2> DEFINE S == E \cap DOMAIN R
  <2>1. IsFiniteSet(S) /\ IsFiniteSet(DOMAIN R \ E)
    BY FS_Subset DEF RowsTyped
  <2> HIDE DEF S, new
  <2>5. \A T : IsFiniteSet(T) => IsFiniteSet({d \o Suffix(k, s) : k \in T})
    BY CarriedFinite, Zenon
  <2>2. IsFiniteSet({d \o Suffix(k, s) : k \in S})
    BY <2>1, <2>5, Zenon
  <2>3. IsFiniteSet(new)
    BY <2>2 DEF S, new
  <2>4. QED
    BY <1>1, <2>1, <2>3, FS_Union
<1>5. Root \notin E /\ Root \notin new
  BY <1>3, RootAbove
<1> HIDE DEF new
<1>6. Root \in DOMAIN C /\ C[Root] = R[Root]
  BY <1>1, <1>5 DEF RowsTyped
<1>7. SameApart(R, C, {s, d})
  BY <1>1, <1>3 DEF SameApart, Overlap
<1>8. RowsTyped(C)
  BY <1>1, <1>3, <1>4, <1>6 DEF RowsTyped
<1>9. QED
  BY <1>6, <1>7, <1>8 DEF C

\* MOVE changes no row that is apart from its source and its destination.
LEMMA MoveEffect ==
    ASSUME RowsTyped(rows), NEW r, Requested(r), Op(r).kind = "MOVE", RowsThere(r)
    PROVE  RowsTyped(MoveRows(r)) /\ SameApart(rows, MoveRows(r), {Source(r), Target(r)})
<1> DEFINE s == Source(r)
           d == Target(r)
           bytes == IF req[r].isDir THEN FileBytes(rows, s) ELSE rows[s].size
           R == Carried(Cleared(r), Taken(r), s, d)
<1>1. s \in Seq(Nat) /\ s # Root /\ d \in Seq(Nat) /\ d # Root /\ s \in DOMAIN rows
  BY OpPaths DEF RowsThere
<1>2. MoveRows(r) = IF Parent(s) # Parent(d) THEN Bumped(Bumped(R, s, - bytes), d, bytes)
                    ELSE Bumped(R, s, 0)
  BY DEF MoveRows
<1>3. RowsTyped(Cleared(r)) /\ SameApart(rows, Cleared(r), {d})
  BY ClearedEffect DEF Pairs
<1>4. \A k \in Taken(r) : k \in Seq(Nat) /\ (k = s \/ Descendant(s, k))
  BY <1>1 DEF Taken, Entries, RowsTyped
<1> HIDE DEF s, d
<1>5. RowsTyped(R) /\ SameApart(Cleared(r), R, {s, d})
  BY <1>1, <1>3, <1>4, CarriedRows
<1> HIDE DEF R
<1>6. SameApart(rows, R, {s, d})
  BY <1>3, <1>5, SameChain
<1>7. rows[s].size \in Int /\ FileBytes(rows, s) \in Int
  BY <1>1, SizesAreInt DEF RowsTyped, IsRow
<1>8. bytes \in Int /\ 0 \in Int
  BY <1>7
<1> HIDE DEF bytes
<1>9. - bytes \in Int
  BY <1>8
<1>10. \A x \in Int : RowsTyped(Bumped(R, s, x)) /\ SameApart(R, Bumped(R, s, x), {s})
  BY <1>1, <1>5, BumpedRows
<1>11. \A x \in Int : SameApart(rows, Bumped(R, s, x), {s, d})
  BY <1>6, <1>10 DEF SameApart
<1> DEFINE Q == Bumped(R, s, - bytes)
<1>12. RowsTyped(Q) /\ SameApart(rows, Q, {s, d})
  BY <1>9, <1>10, <1>11
<1> HIDE DEF Q
<1>13. RowsTyped(Bumped(Q, d, bytes)) /\ SameApart(Q, Bumped(Q, d, bytes), {d})
  BY <1>1, <1>8, <1>12, BumpedRows
<1>14. SameApart(rows, Bumped(Q, d, bytes), {s, d})
  BY <1>12, <1>13 DEF SameApart
<1>15. CASE Parent(s) # Parent(d)
  BY <1>2, <1>13, <1>14, <1>15 DEF s, d, Q
<1>16. CASE Parent(s) = Parent(d)
  BY <1>2, <1>8, <1>10, <1>11, <1>16 DEF s, d
<1>17. QED
  BY <1>15, <1>16

\* COPY changes no row that is apart from its destination, and the user's total by what it
\* copies less what it replaces.
LEMMA CopyEffect ==
    ASSUME RowsTyped(rows), NEW r, Requested(r), Op(r).kind \in {"COPY", "COPY0"},
           RowsThere(r), req[r].pc = "committing"
    PROVE  /\ RowsTyped(CopyRows(r)) /\ SameApart(rows, CopyRows(r), {Target(r)})
           /\ CopyRows(r)[Root].size = rows[Root].size + NetGrowth(r)
<1> DEFINE s == Source(r)
           d == Target(r)
           R == Cleared(r)
           row(k) == rows[s \o Suffix(k, d)]
           copy(k) == NewRow(k, row(k).data, row(k).size)
           gone == IF req[r].saved THEN TreeSize(rows, d) ELSE 0
<1>1. s \in Seq(Nat) /\ s # Root /\ d \in Seq(Nat) /\ d # Root
  BY OpPaths
<1>2. RowsTyped(R) /\ SameApart(rows, R, {d}) /\ R[Root].size = rows[Root].size - gone
  BY ClearedEffect DEF Pairs
<1>3. TreeSize(rows, s) \in Int /\ TreeSize(rows, d) \in Int /\ rows[Root].size \in Int
  BY SizesAreInt DEF RowsTyped, IsRow
<1>4. gone \in Int
  BY <1>3
<1>5. NetGrowth(r) = (IF Op(r).kind = "COPY0" /\ req[r].isDir THEN 0 ELSE TreeSize(rows, s)) - gone
  BY DEF NetGrowth, Replaces
<1>6. ASSUME NEW T, RowsTyped(T), SameApart(R, T, {d}), T[Root] = R[Root], NEW x \in Int,
             CopyRows(r) = Bumped(T, d, x),
             x = IF Op(r).kind = "COPY0" /\ req[r].isDir THEN 0 ELSE TreeSize(rows, s)
      PROVE  /\ RowsTyped(CopyRows(r)) /\ SameApart(rows, CopyRows(r), {d})
             /\ CopyRows(r)[Root].size = rows[Root].size + NetGrowth(r)
  <2> HIDE DEF R, s, d, gone
  <2>1. /\ RowsTyped(Bumped(T, d, x)) /\ SameApart(T, Bumped(T, d, x), {d})
        /\ Bumped(T, d, x)[Root].size = T[Root].size + x
    BY <1>1, <1>6, BumpedRows
  <2>2. SameApart(rows, Bumped(T, d, x), {d})
    BY <1>2, <1>6, <2>1 DEF SameApart
  <2>3. CopyRows(r)[Root].size = rows[Root].size - gone + x /\ NetGrowth(r) = x - gone
    BY <1>2, <1>5, <1>6, <2>1
  <2>4. QED
    BY <1>3, <1>4, <1>6, <2>1, <2>2, <2>3
<1> HIDE DEF R, s, d, gone
<1>7. \A k \in {d} : IsFiniteSet({d}) /\ Overlap(k, d)
  BY FS_Singleton DEF Overlap
<1>8. CASE ~ req[r].isDir
  <2> DEFINE New == [k \in {d} |-> copy(k)]
             T == IF d \in DOMAIN R
                  THEN Rewritten(R, d, IF IsDirRow(R, d) THEN Dir ELSE rows[s].data, rows[s].size)
                  ELSE Inserted(R, New)
  <2>1. /\ s \in DOMAIN rows /\ rows[s].size \in Int /\ rows[s].size = TreeSize(rows, s)
        /\ rows[s].data \in Content \cup {Dir}
    BY <1>8 DEF RowsThere, TreeSize, RowsTyped, IsRow, s
  <2>2. CopyRows(r) = Bumped(T, d, rows[s].size)
    BY <1>8 DEF CopyRows, R, s, d
  <2>3. RowsTyped(T) /\ SameApart(R, T, {d}) /\ T[Root] = R[Root]
    <3>1. CASE d \in DOMAIN R
      <4>1. (IF IsDirRow(R, d) THEN Dir ELSE rows[s].data) \in Content \cup {Dir}
        BY <2>1
      <4>2. QED
        BY <1>1, <1>2, <2>1, <3>1, <4>1, RewrittenRows
    <3>2. CASE d \notin DOMAIN R
      <4>1. d \o Suffix(d, d) = d /\ s \o Suffix(d, d) = s
        BY <1>1, EmptySuffix
      <4>2. \A k \in DOMAIN New : IsRow(New[k])
        BY <2>1, <4>1, NewRowIsRow
      <4>3. DOMAIN New = {d}
        OBVIOUS
      <4> HIDE DEF New
      <4>4. QED
        BY <1>1, <1>2, <1>7, <3>2, <4>2, <4>3, InsertedRows
    <3>3. QED
      BY <3>1, <3>2
  <2> HIDE DEF T
  <2>4. QED
    BY <1>6, <1>8, <2>1, <2>2, <2>3 DEF d
<1>9. CASE req[r].isDir /\ Op(r).kind = "COPY0"
  <2> DEFINE New == [k \in {d} |-> NewRow(k, Dir, 0)]
             T == Inserted(R, New)
  <2>1. CopyRows(r) = Bumped(T, d, 0) /\ 0 \in Int
    BY <1>9 DEF CopyRows, R, d
  <2>2. DOMAIN New = {d} /\ \A k \in DOMAIN New : IsRow(New[k])
    BY NewRowIsRow
  <2> HIDE DEF New
  <2>3. RowsTyped(T) /\ SameApart(R, T, {d}) /\ T[Root] = R[Root]
    BY <1>1, <1>2, <1>7, <2>2, InsertedRows
  <2> HIDE DEF T
  <2>4. QED
    BY <1>6, <1>9, <2>1, <2>3 DEF d
<1>10. CASE req[r].isDir /\ Op(r).kind = "COPY"
  <2> DEFINE E == Entries(rows, s)
             New == [k \in {d \o Suffix(q, s) : q \in E} |-> copy(k)]
             T == Inserted(R, New)
  <2>1. CopyRows(r) = Bumped(T, d, TreeSize(rows, s))
    BY <1>10 DEF CopyRows, R, s, d
  <2>2. IsFiniteSet(E) /\ E \subseteq DOMAIN rows /\ \A q \in E : q \in Seq(Nat) /\ (q = s \/ Descendant(s, q))
    BY FS_Subset DEF Entries, RowsTyped
  <2>7. DOMAIN New = {d \o Suffix(q, s) : q \in E}
    OBVIOUS
  <2>8. IsFiniteSet({d \o Suffix(q, s) : q \in E})
    <3> HIDE DEF E
    <3>1. QED
      BY <2>2, CarriedFinite, Zenon
  <2>3. DOMAIN New = {d \o Suffix(q, s) : q \in E} /\ IsFiniteSet(DOMAIN New)
    BY <2>7, <2>8
  <2>4. ASSUME NEW k \in DOMAIN New
        PROVE  k \in Seq(Nat) /\ Overlap(k, d) /\ IsRow(New[k])
    <3>1. PICK q \in E : k = d \o Suffix(q, s)
      BY <2>3
    <3>2. Suffix(q, s) \in Seq(Nat) /\ s \o Suffix(q, s) = q
      BY <1>1, <2>2, BelowPath
    <3>3. k \in Seq(Nat) /\ Suffix(k, d) = Suffix(q, s) /\ (k = d \/ Descendant(d, k))
      BY <1>1, <3>1, <3>2, CarriedPath
    <3>4. row(k) = rows[q] /\ IsRow(rows[q])
      BY <2>2, <3>2, <3>3 DEF RowsTyped
    <3>5. New[k] = NewRow(k, rows[q].data, rows[q].size)
      BY <2>3, <3>4
    <3>6. rows[q].data \in Content \cup {Dir} /\ rows[q].size \in Int
      BY <3>4 DEF IsRow
    <3>7. QED
      BY <3>3, <3>5, <3>6, NewRowIsRow DEF Overlap
  <2> HIDE DEF New
  <2>5. RowsTyped(T) /\ SameApart(R, T, {d}) /\ T[Root] = R[Root]
    BY <1>1, <1>2, <2>3, <2>4, InsertedRows
  <2> HIDE DEF T
  <2>6. QED
    BY <1>3, <1>6, <1>10, <2>1, <2>5 DEF d
<1>11. QED
  BY <1>8, <1>9, <1>10

\* Every transaction leaves table files well-formed and the rows apart from its paths as they
\* are; PUT and COPY change the total by NetGrowth; whoever changes rows waits for the root's.
LEMMA ApplyEffect ==
    ASSUME RowsTyped(rows), NEW r, Requested(r), Apply(r)
    PROVE  /\ RowsTyped(rows') /\ SameApart(rows, rows', {Source(r), Target(r)})
           /\ Growing(r) => rows'[Root].size = rows[Root].size + NetGrowth(r)
           /\ rows' = rows \/ rootRow \subseteq {r}
<1>1. /\ rows' = NewRows(r) /\ RowsThere(r) /\ req[r].pc = "committing"
      /\ Op(r).kind # "PROPPATCH" => rootRow \subseteq {r}
  BY DEF Apply
<1>2. Op(r).kind \in Kinds
  BY OpPaths
<1>3. ASSUME NEW R, NEW P, P \subseteq {Source(r), Target(r)}, SameApart(rows, R, P)
      PROVE  SameApart(rows, R, {Source(r), Target(r)})
  BY <1>3 DEF SameApart
<1>4. CASE Op(r).kind = "PUT"
  <2>1. NewRows(r) = PutRows(r)
    BY <1>4 DEF NewRows
  <2>2. SameApart(rows, PutRows(r), {Source(r), Target(r)})
    BY <1>3, <1>4, PutEffect
  <2>3. QED
    BY <1>1, <1>4, <2>1, <2>2, PutEffect DEF NetGrowth
<1>5. CASE Op(r).kind = "MKCOL"
  <2>1. NewRows(r) = MkcolRows(r)
    BY <1>5 DEF NewRows
  <2>2. SameApart(rows, MkcolRows(r), {Source(r), Target(r)})
    BY <1>3, <1>5, MkcolEffect
  <2>3. QED
    BY <1>1, <1>5, <2>1, <2>2, MkcolEffect DEF Growing
<1>6. CASE Op(r).kind = "DELETE"
  <2>1. NewRows(r) = DeleteRows(r)
    BY <1>6 DEF NewRows
  <2>2. SameApart(rows, DeleteRows(r), {Source(r), Target(r)})
    BY <1>1, <1>3, <1>6, DeleteEffect
  <2>3. QED
    BY <1>1, <1>6, <2>1, <2>2, DeleteEffect DEF Growing
<1>7. CASE Op(r).kind = "MOVE"
  <2>1. NewRows(r) = MoveRows(r)
    BY <1>7 DEF NewRows
  <2>2. QED
    BY <1>1, <1>7, <2>1, MoveEffect DEF Growing
<1>8. CASE Op(r).kind \in {"COPY", "COPY0"}
  <2>1. NewRows(r) = CopyRows(r)
    BY <1>8 DEF NewRows
  <2>2. SameApart(rows, CopyRows(r), {Source(r), Target(r)})
    BY <1>1, <1>3, <1>8, CopyEffect
  <2>3. QED
    BY <1>1, <1>8, <2>1, <2>2, CopyEffect
<1>9. CASE Op(r).kind = "PROPPATCH"
  <2>1. NewRows(r) = rows
    BY <1>9 DEF NewRows
  <2>2. QED
    BY <1>1, <1>9, <2>1 DEF Growing, SameApart
<1>10. QED
  BY <1>2, <1>4, <1>5, <1>6, <1>7, <1>8, <1>9 DEF Kinds

-----------------------------------------------------------------------------
(* The inductive invariant.                                                *)

\* The fields and the states of a request; Checked: its checks are done and still count.
Fields == {"pc", "num", "op", "tag", "isDir", "saved", "placed", "alive"}
States == {"idle", "waiting", "checking", "saving", "placing", "committing", "cleaning", "undoing"}
Checked(r) == req[r].alive /\ req[r].pc \in {"saving", "placing", "committing"}

\* A handler's fields; what it replaces is not set aside before its checks.
Typed(r) ==
    /\ DOMAIN req[r] = Fields
    /\ req[r].pc \in States
    /\ req[r].isDir \in BOOLEAN /\ req[r].saved \in BOOLEAN /\ req[r].alive \in BOOLEAN
    /\ req[r].pc # "idle" => Requested(r)
    /\ req[r].pc \in {"waiting", "checking"} => ~ req[r].saved

\* Who works, and has its session, has locked its paths.
LockHeld(r) == Working(r) /\ req[r].alive => inside[r] = {Source(r), Target(r)}

\* A PUT that has passed If-Match: the row is still the version it names.
TagHeld(r) ==
    Checked(r) /\ Op(r).kind = "PUT" /\ req[r].tag # NoETag =>
        Source(r) \in DOMAIN rows /\ ETag(rows[Source(r)]) = req[r].tag

\* A request that has passed the quota check for growth holds the root row, and still fits.
QuotaHeld(r) ==
    Checked(r) /\ Growing(r) /\ NetGrowth(r) > 0 =>
        rootRow = {r} /\ NetGrowth(r) <= Quota - rows[Root].size

Good(r) == Typed(r) /\ LockHeld(r) /\ TagHeld(r) /\ QuotaHeld(r)

\* No two handlers hold locks on overlapping paths.
LocksApart == \A r \in Req : \A q \in Req \ {r} : ~ SetsOverlap(inside[r], inside[q])

IInv ==
    /\ DOMAIN req = Req /\ DOMAIN inside = Req /\ issued \in Nat
    /\ RowsTyped(rows)
    /\ LocksApart
    /\ \A r \in Req : Good(r)

\* The fields of a handler without a request.
LEMMA IdleTyped ==
    /\ DOMAIN Idle = Fields /\ Idle.pc = "idle"
    /\ Idle.isDir = FALSE /\ Idle.saved = FALSE /\ Idle.alive = TRUE
BY DEF Idle, Fields

\* A handler without a request has nothing to keep.
LEMMA IdleGood ==
    ASSUME NEW r, req[r] = Idle
    PROVE  Good(r)
<1>1. Typed(r)
  BY IdleTyped DEF Typed, States
<1>2. QED
  BY <1>1, IdleTyped DEF Good, LockHeld, TagHeld, QuotaHeld, Checked, Working

\* Every tree a run may start from satisfies the invariant.
LEMMA InitInv == Init => IInv
<1> SUFFICES ASSUME Init PROVE IInv
  OBVIOUS
<1>1. /\ IsFiniteSet(DOMAIN fs) /\ DOMAIN fs \subseteq Seq(Nat)
      /\ Root \in DOMAIN fs /\ fs[Root] = Dir
      /\ \A p \in DOMAIN fs : fs[p] \in Content \cup {Dir}
  BY TreeAssumption, PathAssumption DEF Init
<1>2. ASSUME NEW p \in DOMAIN fs
      PROVE  MapThenSumSet(LAMBDA q : IF fs[q] = Dir THEN 0 ELSE Size[fs[q]], Entries(fs, p)) \in Int
  <2> DEFINE w == [q \in Entries(fs, p) |-> IF fs[q] = Dir THEN 0 ELSE Size[fs[q]]]
  <2>1. IsFiniteSet(Entries(fs, p)) /\ Entries(fs, p) \subseteq DOMAIN fs
    BY <1>1, FS_Subset DEF Entries
  <2>2. \A q \in Entries(fs, p) : w[q] \in Int
    BY <1>1, <2>1, TreeAssumption
  <2>3. SumOf(w, Entries(fs, p)) \in Int
    BY <2>1, <2>2, SumInt
  <2>4. QED
    BY <2>1, <2>3, ContentsAreSum
<1>3. /\ DOMAIN rows = DOMAIN fs
      /\ \A p \in DOMAIN rows : rows[p].data = fs[p] /\ IsRow(rows[p])
  BY <1>1, <1>2 DEF Init, IsRow
<1>4. RowsTyped(rows)
  BY <1>1, <1>3 DEF RowsTyped
<1>5. DOMAIN req = Req /\ \A r \in Req : req[r] = Idle
  BY DEF Init
<1>6. DOMAIN inside = Req /\ \A r \in Req : inside[r] = {}
  BY DEF Init, Locks!Init, Locks!Outside
<1>7. \A r \in Req : Good(r)
  BY <1>5, IdleGood
<1>8. LocksApart
  BY <1>6 DEF LocksApart, SetsOverlap
<1>9. QED
  BY <1>4, <1>5, <1>6, <1>7, <1>8 DEF IInv, Init

\* A step of r that commits nothing leaves what the others rely on.
LEMMA OthersKept ==
    ASSUME IInv, NEW r \in Req, rows' = rows,
           \A q \in Req \ {r} : req'[q] = req[q] /\ inside'[q] = inside[q],
           \A q \in Req \ {r} : rootRow = {q} => rootRow' = {q}
    PROVE  \A q \in Req \ {r} : Good(q)'
<1> SUFFICES ASSUME NEW q \in Req \ {r} PROVE Good(q)'
  OBVIOUS
<1>1. Good(q) /\ req'[q] = req[q] /\ inside'[q] = inside[q]
  BY DEF IInv
<1>2. Typed(q)' /\ LockHeld(q)'
  BY <1>1 DEF Good, Typed, LockHeld, Requested, Working, Op, Source, Target
<1>3. TagHeld(q)'
  BY <1>1 DEF Good, TagHeld, Checked, Op, Source
<1>4. NetGrowth(q)' = NetGrowth(q) /\ Checked(q)' = Checked(q) /\ Growing(q)' = Growing(q)
  BY <1>1 DEF NetGrowth, Checked, Growing, Replaces, Op, Source, Target, Body, TreeSize
<1>5. QuotaHeld(q)'
  BY <1>1, <1>4 DEF Good, QuotaHeld
<1>6. QED
  BY <1>2, <1>3, <1>5 DEF Good

\* So does the commit of r: whoever has passed its checks works on paths apart from r's, and
\* whoever needs quota holds the root row, without which r cannot commit.
LEMMA OthersNotTouched ==
    ASSUME IInv, NEW r \in Req, Apply(r),
           \A q \in Req \ {r} : req'[q] = req[q] /\ inside'[q] = inside[q]
    PROVE  RowsTyped(rows') /\ \A q \in Req \ {r} : Good(q)'
<1>1. Good(r) /\ RowsTyped(rows) /\ req[r].pc = "committing" /\ req[r].alive
      /\ rootRow' = rootRow \ {r}
  BY DEF IInv, Apply
<1>2. Requested(r) /\ inside[r] = {Source(r), Target(r)}
  BY <1>1 DEF Good, Typed, LockHeld, Working
<1>3. /\ RowsTyped(rows') /\ SameApart(rows, rows', {Source(r), Target(r)})
      /\ rows' = rows \/ rootRow \subseteq {r}
  BY <1>1, <1>2, ApplyEffect
<1>4. CASE rows' = rows
  BY <1>1, <1>3, <1>4, OthersKept
<1>5. CASE rootRow \subseteq {r}
  <2> SUFFICES ASSUME NEW q \in Req \ {r} PROVE Good(q)'
    BY <1>3
  <2>1. Good(q) /\ req'[q] = req[q] /\ inside'[q] = inside[q]
    BY DEF IInv
  <2>2. Typed(q)' /\ LockHeld(q)'
    BY <2>1 DEF Good, Typed, LockHeld, Requested, Working, Op, Source, Target
  <2>3. ASSUME Checked(q), NEW p \in {Source(q), Target(q)}
        PROVE  (p \in DOMAIN rows <=> p \in DOMAIN rows') /\ (p \in DOMAIN rows => rows'[p] = rows[p])
    <3>1. inside[q] = {Source(q), Target(q)} /\ Requested(q)
      BY <2>1, <2>3 DEF Good, Typed, LockHeld, Checked, Working
    <3>2. p \in Seq(Nat)
      BY <3>1, OpPaths
    <3>3. ~ SetsOverlap(inside[q], inside[r])
      BY DEF IInv, LocksApart
    <3>4. \A k \in {Source(r), Target(r)} : ~ Overlap(p, k)
      BY <1>2, <3>1, <3>3 DEF SetsOverlap
    <3>5. QED
      BY <1>3, <3>2, <3>4 DEF SameApart
  <2>4. Checked(q)' = Checked(q) /\ Growing(q)' = Growing(q)
    BY <2>1 DEF Checked, Growing, Op
  <2>5. TagHeld(q)'
    BY <2>1, <2>3, <2>4 DEF Good, TagHeld, Op, Source
  <2>6. Checked(q) => NetGrowth(q)' = NetGrowth(q)
    BY <2>1, <2>3 DEF NetGrowth, Replaces, Op, Source, Target, Body, TreeSize
  <2>7. QuotaHeld(q)'
    <3>1. ~ (Checked(q) /\ Growing(q) /\ NetGrowth(q) > 0)
      BY <1>5, <2>1 DEF Good, QuotaHeld
    <3>2. QED
      BY <2>4, <2>6, <3>1 DEF QuotaHeld
  <2>8. QED
    BY <2>2, <2>5, <2>7 DEF Good
<1>6. QED
  BY <1>3, <1>4, <1>5

\* A step changes nothing of the other handlers and leaves r well.
ActsAlone(r) ==
    /\ DOMAIN req' = Req /\ DOMAIN inside' = Req /\ issued' \in Nat
    /\ \A q \in Req \ {r} : req'[q] = req[q] /\ inside'[q] = inside[q]
    /\ \A q \in Req \ {r} : ~ SetsOverlap(inside'[r], inside[q])
    /\ Good(r)'

\* Being apart is symmetric.
LEMMA ApartSymmetric ==
    ASSUME NEW T, NEW U, ~ SetsOverlap(T, U)
    PROVE  ~ SetsOverlap(U, T)
BY DEF SetsOverlap, Overlap

\* A step of r alone preserves the invariant if what r relies on holds after it.
LEMMA AloneKeepsInv ==
    ASSUME IInv, NEW r \in Req, ActsAlone(r),
           \/ rows' = rows /\ \A q \in Req \ {r} : rootRow = {q} => rootRow' = {q}
           \/ Apply(r)
    PROVE  IInv'
<1>1. RowsTyped(rows') /\ \A q \in Req \ {r} : Good(q)'
  BY OthersKept, OthersNotTouched DEF IInv, ActsAlone
<1>2. ASSUME NEW p \in Req, NEW q \in Req \ {p}
      PROVE  ~ SetsOverlap(inside'[p], inside'[q])
  <2>1. CASE p = r
    BY <2>1 DEF ActsAlone
  <2>2. CASE q = r
    BY <2>2, ApartSymmetric DEF ActsAlone
  <2>3. CASE p # r /\ q # r
    BY <2>3 DEF ActsAlone, IInv, LocksApart
  <2>4. QED
    BY <2>1, <2>2, <2>3
<1>3. LocksApart'
  BY <1>2 DEF LocksApart
<1>4. QED
  BY <1>1, <1>3 DEF IInv, ActsAlone

\* A handler that has no path locks is apart from all.
LEMMA OutsideApart ==
    ASSUME NEW T
    PROVE  ~ SetsOverlap({}, T)
BY DEF SetsOverlap

\* A request that arrives has no locks yet.
LEMMA BeginKeepsInv ==
    ASSUME IInv, NEW r \in Req, NEW o \in Ops, Begin(r, o)
    PROVE  IInv'
<1>1. PICK tag : req' = [req EXCEPT ![r] = [Idle EXCEPT !.pc = "waiting", !.num = issued',
                                                       !.op = o, !.tag = tag]]
  BY DEF Begin
<1>2. issued' = issued + 1 /\ issued' \in Nat /\ issued' \in 1..MaxOps
  BY TreeAssumption DEF Begin, IInv
<1>3. /\ DOMAIN req' = Req /\ \A q \in Req \ {r} : req'[q] = req[q]
      /\ req'[r] = [Idle EXCEPT !.pc = "waiting", !.num = issued', !.op = o, !.tag = tag]
  BY <1>1 DEF IInv
<1>4. /\ DOMAIN req'[r] = Fields /\ req'[r].pc = "waiting" /\ req'[r].num = issued' /\ req'[r].op = o
      /\ req'[r].isDir = FALSE /\ req'[r].saved = FALSE /\ req'[r].alive = TRUE
  BY <1>3 DEF Idle, Fields
<1>5. Typed(r)'
  BY <1>2, <1>4 DEF Typed, States, Requested, Op
<1>6. Good(r)'
  BY <1>4, <1>5 DEF Good, LockHeld, TagHeld, QuotaHeld, Checked, Working
<1>7. inside' = inside /\ rows' = rows /\ rootRow' = rootRow
  BY DEF Begin
<1>8. ActsAlone(r)
  BY <1>2, <1>3, <1>6, <1>7 DEF ActsAlone, IInv, LocksApart
<1>9. QED
  BY <1>7, <1>8, AloneKeepsInv

\* The path locks are granted only apart from everybody else's.
LEMMA EnterKeepsInv ==
    ASSUME IInv, NEW r \in Req, Enter(r)
    PROVE  IInv'
<1> DEFINE T == {Source(r), Target(r)}
<1>1. /\ req[r].pc = "waiting" /\ req' = [req EXCEPT ![r].pc = "checking"]
      /\ rows' = rows /\ rootRow' = rootRow /\ issued' = issued
      /\ inside' = [inside EXCEPT ![r] = T]
      /\ \A q \in Req \ {r} : ~ SetsOverlap(T, inside[q])
  BY DEF Enter, Goto, Locks!Enter, Locks!MayEnter, Locks!SetsOverlap, SetsOverlap,
         Locks!Overlap, Overlap, Locks!Descendant, Descendant
<1>2. Good(r)
  BY DEF IInv
<1>3. /\ DOMAIN req' = Req /\ DOMAIN inside' = Req
      /\ \A q \in Req \ {r} : req'[q] = req[q] /\ inside'[q] = inside[q]
      /\ req'[r] = [req[r] EXCEPT !.pc = "checking"] /\ inside'[r] = T
  BY <1>1 DEF IInv
<1>4. /\ DOMAIN req'[r] = Fields /\ req'[r].pc = "checking" /\ req'[r].num = req[r].num
      /\ req'[r].op = req[r].op /\ req'[r].isDir = req[r].isDir
      /\ req'[r].saved = req[r].saved /\ req'[r].alive = req[r].alive
  BY <1>2, <1>3 DEF Good, Typed, Fields
<1>5. Typed(r)' /\ LockHeld(r)'
  BY <1>1, <1>2, <1>3, <1>4 DEF Good, Typed, LockHeld, States, Requested, Op, Source, Target
<1>6. Good(r)'
  BY <1>4, <1>5 DEF Good, TagHeld, QuotaHeld, Checked
<1>7. ActsAlone(r)
  BY <1>1, <1>3, <1>6 DEF ActsAlone, IInv
<1>8. QED
  BY <1>1, <1>7, AloneKeepsInv

\* What a handler has checked under its locks holds when it goes on: If-Match names the row,
\* and the root row is locked when there is growth.
LEMMA CheckKeepsInv ==
    ASSUME IInv, NEW r \in Req, Check(r)
    PROVE  IInv'
<1> DEFINE next == CASE Op(r).kind = "PROPPATCH" -> "committing"
                     [] Op(r).kind # "PROPPATCH" /\ Exists(r) -> "saving"
                     [] OTHER -> "placing"
<1>1. /\ req[r].pc = "checking" /\ req[r].alive /\ Acceptable(r)
      /\ req' = [req EXCEPT ![r].pc = next, ![r].isDir = IsDir(fs, Source(r))]
      /\ rows' = rows /\ inside' = inside /\ issued' = issued
  BY DEF Check, Proceed
<1>2. /\ Growth(r) > 0 => rootRow = {} /\ Growth(r) <= Quota - rows[Root].size /\ rootRow' = {r}
      /\ ~ (Growth(r) > 0) => rootRow' = rootRow
  BY DEF Check
<1>3. Good(r) /\ Requested(r) /\ inside[r] = {Source(r), Target(r)}
  BY <1>1 DEF IInv, Good, Typed, LockHeld, Working
<1>4. next \in {"saving", "placing", "committing"}
  OBVIOUS
<1>5. Op(r).kind # "PROPPATCH" => (next = "saving" <=> Exists(r)) /\ next # "committing"
  OBVIOUS
<1>16. IsDir(fs, Source(r)) \in BOOLEAN
  BY DEF IsDir
<1> HIDE DEF next
<1>6. /\ DOMAIN req' = Req /\ \A q \in Req \ {r} : req'[q] = req[q]
      /\ req'[r] = [req[r] EXCEPT !.pc = next, !.isDir = IsDir(fs, Source(r))]
  BY <1>1 DEF IInv
<1>7. /\ DOMAIN req'[r] = Fields /\ req'[r].pc = next /\ req'[r].num = req[r].num
      /\ req'[r].op = req[r].op /\ req'[r].tag = req[r].tag
      /\ req'[r].isDir = IsDir(fs, Source(r))
      /\ req'[r].saved = req[r].saved /\ req'[r].alive = req[r].alive
  BY <1>3, <1>6 DEF Good, Typed, Fields
<1>8. ~ req[r].saved
  BY <1>1, <1>3 DEF Good, Typed
<1>9. Typed(r)'
  BY <1>3, <1>4, <1>7, <1>16 DEF Good, Typed, States, Requested, Op
<1>10. LockHeld(r)'
  BY <1>1, <1>3, <1>7 DEF LockHeld, Op, Source, Target
<1>11. TagHeld(r)'
  <2>1. Op(r).kind = "PUT" /\ req[r].tag # NoETag =>
           Source(r) \in DOMAIN rows /\ ETag(rows[Source(r)]) = req[r].tag
    BY <1>1 DEF Acceptable, Pairs
  <2>2. Op(r)' = Op(r) /\ Source(r)' = Source(r) /\ rows[Source(r)]' = rows[Source(r)]
    BY <1>1, <1>7 DEF Op, Source
  <2>3. QED
    BY <1>1, <1>7, <2>1, <2>2 DEF TagHeld, ETag
<1>12. Growing(r) => NetGrowth(r)' = Growth(r) /\ Op(r).kind # "PROPPATCH"
  <2>1. CASE Op(r).kind = "PUT"
    BY <1>1, <1>7, <2>1 DEF NetGrowth, Growth, Op, Source, Body, TreeSize
  <2>2. CASE Op(r).kind \in {"COPY", "COPY0"}
    <3>1. /\ Replaces(r)' <=> Exists(r)
          /\ Op(r)' = Op(r) /\ Source(r)' = Source(r) /\ Target(r)' = Target(r)
          /\ \A p : TreeSize(rows, p)' = TreeSize(rows, p)
      BY <1>1, <1>5, <1>7, <1>8, <2>2 DEF Replaces, Op, Source, Target, TreeSize
    <3>2. Growth(r) = CopiedSize(r) - (IF Exists(r) THEN TreeSize(rows, Target(r)) ELSE 0)
      BY <2>2 DEF Growth
    <3>3. NetGrowth(r)' = (IF Op(r).kind = "COPY0" /\ IsDir(fs, Source(r)) THEN 0 ELSE TreeSize(rows, Source(r)))
                          - (IF Exists(r) THEN TreeSize(rows, Target(r)) ELSE 0)
      BY <1>1, <1>7, <2>2, <3>1 DEF NetGrowth, TreeSize
    <3>4. QED
      BY <2>2, <3>2, <3>3 DEF CopiedSize
  <2>3. QED
    BY <2>1, <2>2 DEF Growing
<1>13. QuotaHeld(r)'
  BY <1>1, <1>2, <1>7, <1>12 DEF QuotaHeld, Growing, Op
<1>14. ActsAlone(r)
  BY <1>1, <1>6, <1>9, <1>10, <1>11, <1>13 DEF ActsAlone, IInv, LocksApart, Good
<1>15. QED
  BY <1>1, <1>2, <1>14, AloneKeepsInv

\* A request that ends, refused, done or undone, gives back what it holds.
LEMMA EndKeepsInv ==
    ASSUME IInv, NEW r \in Req, Refuse(r) \/ Clean(r) \/ Undo(r)
    PROVE  IInv'
<1>1. /\ req' = [req EXCEPT ![r] = Idle] /\ inside' = [inside EXCEPT ![r] = {}]
      /\ rootRow' = rootRow \ {r} /\ rows' = rows /\ issued' = issued
  BY DEF Refuse, Clean, Undo, Finish, Locks!Outside
<1>2. /\ DOMAIN req' = Req /\ DOMAIN inside' = Req /\ req'[r] = Idle /\ inside'[r] = {}
      /\ \A q \in Req \ {r} : req'[q] = req[q] /\ inside'[q] = inside[q]
  BY <1>1 DEF IInv
<1>3. Good(r)'
  <2>1. Typed(r)'
    BY <1>2, IdleTyped DEF Typed, States
  <2>2. QED
    BY <1>2, <2>1, IdleTyped DEF Good, LockHeld, TagHeld, QuotaHeld, Checked, Working
<1>4. ActsAlone(r)
  BY <1>1, <1>2, <1>3, OutsideApart DEF ActsAlone, IInv
<1>5. QED
  BY <1>1, <1>4, AloneKeepsInv

\* A step on the disk, or the failure of one, changes nothing the checks were about.
LEMMA DiskStepKeepsInv ==
    ASSUME IInv, NEW r \in Req, Save(r) \/ Place(r) \/ Fail(r)
    PROVE  IInv'
<1>1. /\ rows' = rows /\ rootRow' = rootRow /\ inside' = inside /\ issued' = issued
      /\ req[r].pc \in {"saving", "placing", "committing"}
  BY DEF Save, Place, Fail, Fails, Breaks
<1>2. Good(r) /\ Requested(r)
  BY <1>1 DEF IInv, Good, Typed
<1>3. /\ DOMAIN req' = Req /\ \A q \in Req \ {r} : req'[q] = req[q]
      /\ DOMAIN req'[r] = Fields
      /\ req'[r].num = req[r].num /\ req'[r].op = req[r].op /\ req'[r].tag = req[r].tag
      /\ req'[r].isDir = req[r].isDir /\ req'[r].alive = req[r].alive
      /\ \/ /\ Save(r) /\ req[r].pc = "saving" /\ req'[r].pc \in {"placing", "committing"} /\ req'[r].saved = TRUE
         \/ /\ Place(r) /\ req[r].pc = "placing" /\ req'[r].pc = "committing" /\ req'[r].saved = req[r].saved
         \/ /\ Fail(r) /\ req'[r].pc = "undoing" /\ req'[r].saved = req[r].saved
  <2>1. CASE Save(r)
    <3> DEFINE next == IF Op(r).kind = "DELETE" THEN "committing" ELSE "placing"
    <3>1. req' = [req EXCEPT ![r].saved = TRUE, ![r].pc = next] /\ req[r].pc = "saving"
      BY <2>1 DEF Save
    <3>2. next \in {"placing", "committing"}
      OBVIOUS
    <3> HIDE DEF next
    <3>3. req'[r] = [req[r] EXCEPT !.saved = TRUE, !.pc = next]
      BY <3>1 DEF IInv
    <3>4. QED
      BY <1>2, <2>1, <3>1, <3>2, <3>3 DEF IInv, Good, Typed, Fields
  <2>2. CASE Place(r)
    <3>1. req' = [req EXCEPT ![r].placed = TRUE, ![r].pc = "committing"] /\ req[r].pc = "placing"
      BY <2>2 DEF Place
    <3>2. req'[r] = [req[r] EXCEPT !.placed = TRUE, !.pc = "committing"]
      BY <3>1 DEF IInv
    <3>3. QED
      BY <1>2, <2>2, <3>1, <3>2 DEF IInv, Good, Typed, Fields
  <2>3. CASE Fail(r)
    <3>1. req' = [req EXCEPT ![r].pc = "undoing"]
      BY <2>3 DEF Fail, Goto
    <3>2. req'[r] = [req[r] EXCEPT !.pc = "undoing"]
      BY <3>1 DEF IInv
    <3>3. QED
      BY <1>2, <2>3, <3>1, <3>2 DEF IInv, Good, Typed, Fields
  <2>4. QED
    BY <2>1, <2>2, <2>3
<1>4. Typed(r)' /\ LockHeld(r)'
  BY <1>1, <1>2, <1>3 DEF Good, Typed, LockHeld, States, Working, Requested, Op, Source, Target
<1>5. TagHeld(r)'
  BY <1>1, <1>2, <1>3 DEF Good, TagHeld, Checked, Op, Source
<1>6. QuotaHeld(r)'
  <2>1. Checked(r)' => Replaces(r)' = Replaces(r)
    BY <1>1, <1>2, <1>3 DEF Replaces, Checked, Good, Typed
  <2>2. Checked(r)' => NetGrowth(r)' = NetGrowth(r)
    BY <1>1, <1>3, <2>1 DEF NetGrowth, Op, Source, Target, Body, TreeSize
  <2>3. QED
    BY <1>1, <1>2, <1>3, <2>2 DEF Good, QuotaHeld, Checked, Growing, Op
<1>7. ActsAlone(r)
  BY <1>1, <1>3, <1>4, <1>5, <1>6 DEF ActsAlone, IInv, LocksApart, Good
<1>8. QED
  BY <1>1, <1>7, AloneKeepsInv

\* A commit preserves the invariant.
LEMMA CommitKeepsInv ==
    ASSUME IInv, NEW r \in Req, Commit(r)
    PROVE  IInv'
<1>1. /\ Apply(r) /\ inside' = inside /\ issued' = issued
      /\ req' = [req EXCEPT ![r].pc = "cleaning"]
      /\ req[r].pc = "committing"
  BY DEF Commit, Apply, Goto
<1>2. Good(r) /\ Requested(r)
  BY <1>1 DEF IInv, Good, Typed
<1>3. /\ DOMAIN req' = Req /\ \A q \in Req \ {r} : req'[q] = req[q]
      /\ req'[r] = [req[r] EXCEPT !.pc = "cleaning"]
  BY <1>1 DEF IInv
<1>4. /\ DOMAIN req'[r] = Fields /\ req'[r].pc = "cleaning" /\ req'[r].num = req[r].num
      /\ req'[r].op = req[r].op /\ req'[r].isDir = req[r].isDir
      /\ req'[r].saved = req[r].saved /\ req'[r].alive = req[r].alive
  BY <1>2, <1>3 DEF Good, Typed, Fields
<1>5. Typed(r)' /\ LockHeld(r)'
  BY <1>1, <1>2, <1>4 DEF Good, Typed, LockHeld, States, Working, Requested, Op, Source, Target
<1>6. Good(r)'
  BY <1>4, <1>5 DEF Good, TagHeld, QuotaHeld, Checked
<1>7. ActsAlone(r)
  BY <1>1, <1>3, <1>6 DEF ActsAlone, IInv, LocksApart
<1>8. QED
  BY <1>1, <1>7, AloneKeepsInv

\* Losing the session, or the reply to the commit, takes the locks and the transaction away.
LEMMA LossKeepsInv ==
    ASSUME IInv, NEW r \in Req, LoseReply(r) \/ LoseSession(r)
    PROVE  IInv'
<1>1. /\ inside' = [inside EXCEPT ![r] = {}] /\ issued' = issued
      /\ req[r].pc # "idle" /\ req[r].pc # "waiting"
      /\ Apply(r) \/ (rows' = rows /\ rootRow' = rootRow \ {r})
  BY DEF LoseReply, LoseSession, Apply, Locks!Leave, Locks!Outside
<1>2. Good(r) /\ Requested(r)
  BY <1>1 DEF IInv, Good, Typed
<1>3. /\ DOMAIN req' = Req /\ \A q \in Req \ {r} : req'[q] = req[q]
      /\ DOMAIN req'[r] = Fields /\ req'[r].alive = FALSE
      /\ req'[r].num = req[r].num /\ req'[r].op = req[r].op
      /\ req'[r].isDir = req[r].isDir /\ req'[r].saved = req[r].saved
      /\ req'[r].pc \in {req[r].pc, "undoing"}
  <2>1. CASE LoseReply(r)
    <3>1. req' = [req EXCEPT ![r].pc = "undoing", ![r].alive = FALSE]
      BY <2>1 DEF LoseReply
    <3>2. req'[r] = [req[r] EXCEPT !.pc = "undoing", !.alive = FALSE]
      BY <3>1 DEF IInv
    <3>3. QED
      BY <1>2, <3>1, <3>2 DEF IInv, Good, Typed, Fields
  <2>2. CASE LoseSession(r)
    <3>1. req' = [req EXCEPT ![r].alive = FALSE]
      BY <2>2 DEF LoseSession
    <3>2. req'[r] = [req[r] EXCEPT !.alive = FALSE]
      BY <3>1 DEF IInv
    <3>3. QED
      BY <1>2, <3>1, <3>2 DEF IInv, Good, Typed, Fields
  <2>3. QED
    BY <2>1, <2>2
<1>4. /\ DOMAIN inside' = Req /\ inside'[r] = {}
      /\ \A q \in Req \ {r} : inside'[q] = inside[q]
  BY <1>1 DEF IInv
<1>5. Typed(r)'
  BY <1>1, <1>2, <1>3 DEF Good, Typed, States, Requested, Op
<1>6. Good(r)'
  BY <1>3, <1>5 DEF Good, LockHeld, TagHeld, QuotaHeld, Checked
<1>7. ActsAlone(r)
  BY <1>1, <1>3, <1>4, <1>6, OutsideApart DEF ActsAlone, IInv
<1>8. QED
  BY <1>1, <1>7, AloneKeepsInv

\* A crash leaves no request behind.
LEMMA CrashKeepsInv ==
    ASSUME IInv, Crash
    PROVE  IInv'
<1>1. /\ DOMAIN req' = Req /\ \A r \in Req : req'[r] = Idle
      /\ DOMAIN inside' = Req /\ \A r \in Req : inside'[r] = {}
      /\ rows' = rows /\ issued' = issued
  BY DEF Crash, Locks!Outside
<1>2. ASSUME NEW r \in Req PROVE Good(r)'
  <2>1. Typed(r)'
    BY <1>1, IdleTyped DEF Typed, States
  <2>2. QED
    BY <1>1, <2>1, IdleTyped DEF Good, LockHeld, TagHeld, QuotaHeld, Checked, Working
<1>3. LocksApart'
  BY <1>1, OutsideApart DEF LocksApart
<1>4. QED
  BY <1>1, <1>2, <1>3 DEF IInv

\* A step that changes nothing preserves the invariant.
LEMMA StutterKeepsInv ==
    ASSUME IInv, UNCHANGED vars
    PROVE  IInv'
<1>1. UNCHANGED <<rows, req, inside, rootRow, issued>>
  BY DEF vars
<1>2. \A r \in Req : Good(r)'
  <2> SUFFICES ASSUME NEW r \in Req PROVE Good(r)'
    OBVIOUS
  <2>1. Good(r)
    BY DEF IInv
  <2>2. Typed(r)' /\ LockHeld(r)' /\ TagHeld(r)'
    BY <1>1, <2>1 DEF Good, Typed, LockHeld, TagHeld, Requested, Working, Checked, Op, Source, Target
  <2>3. NetGrowth(r)' = NetGrowth(r)
    BY <1>1 DEF NetGrowth, Replaces, Op, Source, Target, Body, TreeSize
  <2>4. QuotaHeld(r)'
    BY <1>1, <2>1, <2>3 DEF Good, QuotaHeld, Checked, Growing, Op
  <2>5. QED
    BY <2>2, <2>4 DEF Good
<1>3. QED
  BY <1>1, <1>2 DEF IInv, LocksApart

\* Every step preserves the invariant.
LEMMA NextKeepsInv ==
    ASSUME IInv, [Next]_vars
    PROVE  IInv'
<1>1. CASE Step
  <2>1. ASSUME NEW r \in Req, NEW o \in Ops, Begin(r, o) PROVE IInv'
    BY <2>1, BeginKeepsInv
  <2>2. ASSUME NEW r \in Req, Enter(r) PROVE IInv'
    BY <2>2, EnterKeepsInv
  <2>3. ASSUME NEW r \in Req, Check(r) PROVE IInv'
    BY <2>3, CheckKeepsInv
  <2>4. ASSUME NEW r \in Req, Refuse(r) \/ Clean(r) \/ Undo(r) PROVE IInv'
    BY <2>4, EndKeepsInv
  <2>5. ASSUME NEW r \in Req, Save(r) \/ Place(r) \/ Fail(r) PROVE IInv'
    BY <2>5, DiskStepKeepsInv
  <2>6. ASSUME NEW r \in Req, Commit(r) PROVE IInv'
    BY <2>6, CommitKeepsInv
  <2>7. ASSUME NEW r \in Req, LoseReply(r) \/ LoseSession(r) PROVE IInv'
    BY <2>7, LossKeepsInv
  <2>8. QED
    BY <1>1, <2>1, <2>2, <2>3, <2>4, <2>5, <2>6, <2>7, CrashKeepsInv DEF Step
<1>2. CASE UNCHANGED vars
  BY <1>2, StutterKeepsInv
<1>3. QED
  BY <1>1, <1>2 DEF Next, Done

\* The inductive invariant holds in every reachable state: path locks are apart, and what a
\* handler has checked under them stays true until it commits.
THEOREM Invariant == Spec => []IInv
<1>1. IInv /\ [Next]_vars => IInv'
  BY NextKeepsInv
<1>2. QED
  BY InitInv, <1>1, PTL DEF Spec

-----------------------------------------------------------------------------
(* What a committing request leaves.                                       *)

\* A request that is past its commit has committed, with its session, or has changed no row.
LEMMA Committing ==
    ASSUME IInv, NEW r \in Req, Next, req[r].pc = "committing", req'[r].pc # "committing"
    PROVE  \/ req[r].alive /\ Apply(r)
           \/ rows' = rows /\ req'[r].pc # "cleaning"
<1>1. \A q \in Req \ {r} :
         ~ \/ \E o \in Ops : Begin(q, o)
           \/ Enter(q) \/ Check(q) \/ Refuse(q) \/ Save(q) \/ Place(q) \/ Commit(q) \/ Clean(q)
           \/ Fail(q) \/ LoseReply(q) \/ Undo(q) \/ LoseSession(q)
  BY ZenonT(60) DEF IInv, Begin, Enter, Check, Proceed, Refuse, Save, Place, Commit, Clean, Fail,
         LoseReply, Undo, LoseSession, Goto, Finish
<1>2. ASSUME Commit(r) \/ LoseReply(r) PROVE Apply(r) /\ req[r].alive
  BY <1>2 DEF Commit, LoseReply, Apply
<1>3. ASSUME Fail(r) PROVE rows' = rows /\ req'[r].pc # "cleaning"
  BY <1>3 DEF Fail, Goto, IInv, Good, Typed, Fields
<1>4. ASSUME Crash PROVE rows' = rows /\ req'[r].pc # "cleaning"
  BY <1>4, IdleTyped DEF Crash
<1>5. /\ \A o \in Ops : ~ Begin(r, o)
      /\ ~ Enter(r) /\ ~ Check(r) /\ ~ Refuse(r) /\ ~ Save(r) /\ ~ Place(r) /\ ~ Clean(r) /\ ~ Undo(r)
  BY DEF Begin, Enter, Check, Refuse, Save, Place, Clean, Undo
<1>6. ~ LoseSession(r)
  BY DEF LoseSession, IInv, Good, Typed, Fields
<1>7. ~ UNCHANGED vars
  BY DEF vars
<1>8. QED
  BY <1>1, <1>2, <1>3, <1>4, <1>5, <1>6, <1>7 DEF Next, Step, Done

\* A step that commits an upload with If-Match finds the version it names.
UpdatesKept ==
    \A r \in Req :
       Op(r).kind = "PUT" /\ req[r].tag # NoETag /\ req'[r].pc = "cleaning" /\ req[r].pc = "committing"
           => Source(r) \in DOMAIN rows /\ ETag(rows[Source(r)]) = req[r].tag

\* Every step does.
LEMMA NextKeepsUpdates ==
    ASSUME IInv, Next
    PROVE  UpdatesKept
<1> SUFFICES ASSUME NEW r \in Req, Op(r).kind = "PUT", req[r].tag # NoETag,
                    req'[r].pc = "cleaning", req[r].pc = "committing"
             PROVE  Source(r) \in DOMAIN rows /\ ETag(rows[Source(r)]) = req[r].tag
  BY DEF UpdatesKept
<1>1. req[r].alive
  BY Committing
<1>2. QED
  BY <1>1 DEF IInv, Good, TagHeld, Checked

\* handleDAVPut compares If-Match with the row before it moves anything; the row is still that
\* version when its transaction commits, whatever other requests, faults and crashes do.
THEOREM NoLostUpdateHolds == Spec => NoLostUpdate
<1>1. IInv /\ [Next]_vars => [UpdatesKept]_vars
  BY NextKeepsUpdates
<1>2. [][UpdatesKept]_vars <=> NoLostUpdate
  BY DEF UpdatesKept, NoLostUpdate
<1>3. QED
  BY Invariant, <1>1, <1>2, PTL DEF Spec

\* A step that commits a PUT or COPY leaves the total within the quota, or no larger.
QuotaKept ==
    \A r \in Req :
       Op(r).kind \in {"PUT", "COPY", "COPY0"} /\ req[r].pc = "committing" /\ req'[r].pc # "committing"
           => rows'[Root].size <= Quota \/ rows'[Root].size <= rows[Root].size

\* Every step does.
LEMMA NextKeepsQuota ==
    ASSUME IInv, Next
    PROVE  QuotaKept
<1> SUFFICES ASSUME NEW r \in Req, Growing(r),
                    req[r].pc = "committing", req'[r].pc # "committing"
             PROVE  rows'[Root].size <= Quota \/ rows'[Root].size <= rows[Root].size
  BY DEF Growing, QuotaKept
<1>1. RowsTyped(rows) /\ Good(r) /\ Requested(r) /\ rows[Root].size \in Int /\ Quota \in Int
  BY TreeAssumption DEF IInv, Good, Typed, RowsTyped, IsRow
<1>2. CASE rows' = rows
  BY <1>1, <1>2
<1>3. CASE req[r].alive /\ Apply(r)
  <2>1. rows'[Root].size = rows[Root].size + NetGrowth(r)
    BY <1>1, <1>3, ApplyEffect
  <2>2. NetGrowth(r) > 0 => NetGrowth(r) <= Quota - rows[Root].size
    BY <1>1, <1>3 DEF Good, QuotaHeld, Checked
  <2>3. NetGrowth(r) \in Int
    <3>1. TreeSize(rows, Source(r)) \in Int /\ TreeSize(rows, Target(r)) \in Int
      BY <1>1, SizesAreInt
    <3>2. Op(r).kind = "PUT" => Size[Body(r)] \in Int
      BY <1>1, TreeAssumption DEF Requested, Body
    <3>3. QED
      BY <3>1, <3>2 DEF NetGrowth
  <2>4. QED
    BY <1>1, <2>1, <2>2, <2>3
<1>4. QED
  BY <1>2, <1>3, Committing

\* enforceQuotaDeltaTx locks the user's root row when it checks; what a PUT or COPY commits
\* leaves the total within the quota or no larger than it was.
THEOREM QuotaHolds == Spec => QuotaRespected
<1>1. IInv /\ [Next]_vars => [QuotaKept]_vars
  BY NextKeepsQuota
<1>2. [][QuotaKept]_vars <=> QuotaRespected
  BY DEF QuotaKept, QuotaRespected
<1>3. QED
  BY Invariant, <1>1, <1>2, PTL DEF Spec

-----------------------------------------------------------------------------
(* Paths at and below a path.                                              *)

Within(p, k) == k = p \/ Descendant(p, k)

\* k is at or below p when it starts with the names of p.
LEMMA WithinNames ==
    ASSUME NEW p \in Seq(Nat), NEW k \in Seq(Nat)
    PROVE  Within(p, k) <=> Len(p) <= Len(k) /\ \A i \in 1..Len(p) : p[i] = k[i]
<1>0. Len(p) \in Nat /\ Len(k) \in Nat
  OBVIOUS
<1>1. ASSUME Len(p) <= Len(k)
      PROVE  /\ SubSeq(k, 1, Len(p)) \in Seq(Nat) /\ Len(SubSeq(k, 1, Len(p))) = Len(p)
             /\ \A i \in 1..Len(p) : SubSeq(k, 1, Len(p))[i] = k[i]
  <2> DEFINE n == Len(p)
  <2>1. n \in Int /\ 1 \in Int /\ \A i \in 1..n : k[i] \in Nat
    BY <1>1
  <2> HIDE DEF n
  <2>2. /\ SubSeq(k, 1, n) \in Seq(Nat)
        /\ Len(SubSeq(k, 1, n)) = IF 1 <= n THEN n - 1 + 1 ELSE 0
        /\ \A i \in 1 .. n - 1 + 1 : SubSeq(k, 1, n)[i] = k[1 + i - 1]
    BY <2>1, SubSeqProperties
  <2>3. n \in Nat
    BY DEF n
  <2>4. QED
    BY <2>2, <2>3 DEF n
<1>2. ASSUME Within(p, k) PROVE Len(p) <= Len(k) /\ \A i \in 1..Len(p) : p[i] = k[i]
  BY <1>0, <1>1, <1>2 DEF Within, Descendant
<1>3. ASSUME Len(p) <= Len(k), \A i \in 1..Len(p) : p[i] = k[i] PROVE Within(p, k)
  <2>1. SubSeq(k, 1, Len(p)) = p
    BY <1>1, <1>3, SeqEqual
  <2>2. CASE Len(p) = Len(k)
    BY <1>3, <2>2, SeqEqual DEF Within
  <2>3. CASE Len(p) < Len(k)
    BY <2>1, <2>3 DEF Within, Descendant
  <2>4. QED
    BY <1>0, <1>3, <2>2, <2>3
<1>4. QED
  BY <1>2, <1>3

\* Being at or below is an order, and of two paths above a third one is above the other.
LEMMA WithinOrder ==
    ASSUME NEW p \in Seq(Nat), NEW q \in Seq(Nat), NEW k \in Seq(Nat)
    PROVE  /\ Within(p, p)
           /\ Within(p, q) /\ Within(q, k) => Within(p, k)
           /\ Within(p, q) /\ Within(q, p) => p = q
           /\ Within(p, k) /\ Within(q, k) => Within(p, q) \/ Within(q, p)
           /\ Overlap(p, q) <=> Within(p, q) \/ Within(q, p)
<1>1. Len(p) \in Nat /\ Len(q) \in Nat /\ Len(k) \in Nat
  OBVIOUS
<1>2. Within(p, q) /\ Within(q, k) => Within(p, k)
  BY <1>1, WithinNames
<1>3. Within(p, q) /\ Within(q, p) => p = q
  BY <1>1, WithinNames, SeqEqual
<1>4. Within(p, k) /\ Within(q, k) => Within(p, q) \/ Within(q, p)
  BY <1>1, WithinNames
<1>5. QED
  BY <1>2, <1>3, <1>4 DEF Within, Overlap

\* The parent of a path has all its names but the last one.
LEMMA ParentNames ==
    ASSUME NEW p \in Seq(Nat), p # Root
    PROVE  /\ Parent(p) \in Seq(Nat) /\ Len(Parent(p)) = Len(p) - 1 /\ Len(p) \in Nat \ {0}
           /\ \A i \in 1..Len(p) - 1 : Parent(p)[i] = p[i]
<1>1. Len(p) \in Nat \ {0}
  BY EmptySeq DEF Root
<1> DEFINE n == Len(p) - 1
<1>2. n \in Nat /\ 1 \in Int /\ \A i \in 1..n : p[i] \in Nat
  BY <1>1
<1> HIDE DEF n
<1>3. /\ SubSeq(p, 1, n) \in Seq(Nat)
      /\ Len(SubSeq(p, 1, n)) = IF 1 <= n THEN n - 1 + 1 ELSE 0
      /\ \A i \in 1 .. n - 1 + 1 : SubSeq(p, 1, n)[i] = p[1 + i - 1]
  BY <1>2, SubSeqProperties
<1>4. /\ SubSeq(p, 1, n) \in Seq(Nat) /\ Len(SubSeq(p, 1, n)) = n
      /\ \A i \in 1..n : SubSeq(p, 1, n)[i] = p[i]
  BY <1>2, <1>3
<1>5. QED
  BY <1>1, <1>4 DEF Parent, n

\* A path is strictly below p when its parent is at or below p.
LEMMA WithinParent ==
    ASSUME NEW p \in Seq(Nat), NEW k \in Seq(Nat), k # Root
    PROVE  /\ Parent(k) \in Seq(Nat) /\ Within(Parent(k), k) /\ Parent(k) # k
           /\ Descendant(p, k) <=> Within(p, Parent(k))
           /\ Within(p, k) <=> k = p \/ Within(p, Parent(k))
<1>1. /\ Parent(k) \in Seq(Nat) /\ Len(Parent(k)) = Len(k) - 1 /\ Len(k) \in Nat \ {0}
      /\ \A i \in 1..Len(k) - 1 : Parent(k)[i] = k[i]
  BY ParentNames
<1>2. Len(p) \in Nat /\ Len(k) \in Nat
  BY <1>1
<1>3. Descendant(p, k) <=> Within(p, k) /\ Len(p) < Len(k)
  BY <1>2 DEF Within, Descendant
<1>4. Within(p, Parent(k)) <=> Len(p) <= Len(k) - 1 /\ \A i \in 1..Len(p) : p[i] = Parent(k)[i]
  BY <1>1, WithinNames
<1>5. Within(p, k) <=> Len(p) <= Len(k) /\ \A i \in 1..Len(p) : p[i] = k[i]
  BY WithinNames
<1>6. Within(p, Parent(k)) <=> Within(p, k) /\ Len(p) < Len(k)
  BY <1>1, <1>2, <1>4, <1>5
<1>7. Within(Parent(k), k)
  <2>1. PICK a \in Seq(Nat) : a = Parent(k)
    BY <1>1
  <2>2. Len(a) = Len(k) - 1 /\ \A i \in 1..Len(k) - 1 : a[i] = k[i]
    BY <1>1, <2>1
  <2>3. Len(a) <= Len(k) /\ \A i \in 1..Len(a) : a[i] = k[i]
    BY <1>2, <2>2
  <2>4. QED
    BY <2>1, <2>3, WithinNames
<1>8. QED
  BY <1>1, <1>3, <1>6, <1>7 DEF Within

\* What is at or below d followed by x, and the parent of it.
LEMMA Followed ==
    ASSUME NEW d \in Seq(Nat), NEW x \in Seq(Nat)
    PROVE  /\ d \o x \in Seq(Nat) /\ Within(d, d \o x) /\ Suffix(d \o x, d) = x
           /\ x # Root => d \o x # Root /\ Parent(x) \in Seq(Nat) /\ Parent(d \o x) = d \o Parent(x)
           /\ d \o x = d <=> x = Root
<1>1. d \o x \in Seq(Nat) /\ Within(d, d \o x) /\ Suffix(d \o x, d) = x
  BY CarriedPath DEF Within
<1>2. /\ Len(d) \in Nat /\ Len(x) \in Nat /\ Len(d \o x) = Len(d) + Len(x)
      /\ \A i \in 1..Len(d) + Len(x) : (d \o x)[i] = IF i <= Len(d) THEN d[i] ELSE x[i - Len(d)]
  BY ConcatProperties
<1>3. d \o x = d <=> x = Root
  BY ConcatEqualIffEmpty DEF Root
<1>4. ASSUME x # Root PROVE d \o x # Root /\ Parent(x) \in Seq(Nat) /\ Parent(d \o x) = d \o Parent(x)
  <2>1. /\ Parent(x) \in Seq(Nat) /\ Len(Parent(x)) = Len(x) - 1 /\ Len(x) \in Nat \ {0}
        /\ \A i \in 1..Len(x) - 1 : Parent(x)[i] = x[i]
    BY <1>4, ParentNames
  <2>2. d \o x # Root
    BY <1>2, <2>1 DEF Root
  <2> DEFINE a == d \o x
             b == d \o Parent(x)
             n == Len(d)
             m == Len(x)
  <2>3. /\ Parent(a) \in Seq(Nat) /\ Len(Parent(a)) = Len(a) - 1
        /\ \A i \in 1..Len(a) - 1 : Parent(a)[i] = a[i]
    BY <1>1, <2>2, ParentNames
  <2>4. /\ b \in Seq(Nat) /\ Len(b) = n + Len(Parent(x))
        /\ \A i \in 1..n + Len(Parent(x)) : b[i] = IF i <= n THEN d[i] ELSE Parent(x)[i - n]
    BY <2>1, ConcatProperties
  <2>5. n \in Nat /\ m \in Nat \ {0} /\ Len(a) = n + m /\ Len(Parent(x)) = m - 1
        /\ \A i \in 1..n + m : a[i] = IF i <= n THEN d[i] ELSE x[i - n]
    BY <1>2, <2>1
  <2> HIDE DEF a, b, n, m
  <2>6. Len(Parent(a)) = Len(b) /\ Len(b) = n + m - 1
    BY <2>3, <2>4, <2>5
  <2>7. ASSUME NEW i \in 1..Len(b) PROVE Parent(a)[i] = b[i]
    <3>1. i \in 1..n + m /\ i \in 1..Len(a) - 1 /\ i \in 1..n + Len(Parent(x))
      BY <2>5, <2>6, <2>7
    <3>2. CASE i <= n
      BY <2>3, <2>4, <2>5, <3>1, <3>2
    <3>3. CASE ~ (i <= n)
      <4>1. i - n \in 1..Len(x) - 1
        BY <2>5, <3>1, <3>3 DEF m
      <4>2. Parent(x)[i - n] = x[i - n]
        BY <2>1, <4>1
      <4>3. QED
        BY <2>3, <2>4, <2>5, <3>1, <3>3, <4>2
    <3>4. QED
      BY <3>2, <3>3
  <2>8. Parent(a) = b
    BY <2>3, <2>4, <2>6, <2>7, SeqEqual
  <2>9. QED
    BY <2>1, <2>2, <2>8 DEF a, b
<1>5. QED
  BY <1>1, <1>3, <1>4

\* A path at or below p is p followed by something.
LEMMA WhatIsLeft ==
    ASSUME NEW p \in Seq(Nat), NEW k \in Seq(Nat), Within(p, k)
    PROVE  Suffix(k, p) \in Seq(Nat) /\ p \o Suffix(k, p) = k
<1>1. k = p \/ Descendant(p, k)
  BY DEF Within
<1>2. QED
  BY <1>1, BelowPath

\* A name next to p is in the same collection.
LEMMA BesideNames ==
    ASSUME NEW p \in Seq(Nat), p # Root, NEW t \in Nat
    PROVE  /\ Beside(p, t) \in Seq(Nat) /\ Len(Beside(p, t)) = Len(p) /\ Beside(p, t) # Root
           /\ Parent(Beside(p, t)) = Parent(p)
           /\ Beside(p, t)[Len(p)] = t + p[Len(p)]
           /\ \A i \in 1..Len(p) - 1 : Beside(p, t)[i] = p[i]
<1> DEFINE a == Parent(p)
           x == <<t + p[Len(p)]>>
<1>1. /\ a \in Seq(Nat) /\ Len(a) = Len(p) - 1 /\ Len(p) \in Nat \ {0}
      /\ \A i \in 1..Len(p) - 1 : a[i] = p[i]
  BY ParentNames
<1>2. t + p[Len(p)] \in Nat
  BY <1>1
<1>3. x \in Seq(Nat) /\ Len(x) = 1 /\ x[1] = t + p[Len(p)] /\ x # Root
  BY <1>2 DEF Root
<1>4. Beside(p, t) = a \o x
  BY DEF Beside
<1> HIDE DEF a, x
<1>5. /\ a \o x \in Seq(Nat) /\ Len(a \o x) = Len(a) + Len(x)
      /\ \A i \in 1..Len(a) + Len(x) : (a \o x)[i] = IF i <= Len(a) THEN a[i] ELSE x[i - Len(a)]
  BY <1>1, <1>3, ConcatProperties
<1>6. a \o x # Root /\ Parent(a \o x) = a \o Parent(x) /\ Parent(x) \in Seq(Nat)
  BY <1>1, <1>3, Followed
<1>7. Parent(x) = << >>
  <2>3. Len(Parent(x)) = Len(x) - 1
    BY <1>3, ParentNames
  <2>1. Len(Parent(x)) = 0
    BY <1>3, <2>3
  <2>2. QED
    BY <1>6, <2>1, EmptySeq
<1>8. a \o << >> = a
  BY <1>1, ConcatEmptySeq
<1>9. Len(p) \in 1..Len(a) + Len(x) /\ ~ (Len(p) <= Len(a)) /\ Len(p) - Len(a) = 1
  BY <1>1, <1>3
<1>10. (a \o x)[Len(p)] = t + p[Len(p)]
  BY <1>3, <1>5, <1>9
<1>11. \A i \in 1..Len(p) - 1 : (a \o x)[i] = p[i]
  BY <1>1, <1>3, <1>5
<1> DEFINE b == Beside(p, t)
<1> DEFINE c == a \o x
<1>14. c \in Seq(Nat) /\ Len(c) = Len(p) /\ c # Root /\ Parent(c) = a
  BY <1>1, <1>3, <1>5, <1>6, <1>7, <1>8
<1>15. c[Len(p)] = t + p[Len(p)] /\ \A i \in 1..Len(p) - 1 : c[i] = p[i]
  BY <1>10, <1>11
<1> HIDE DEF c
<1>12. /\ b \in Seq(Nat) /\ Len(b) = Len(p) /\ b # Root /\ Parent(b) = a
       /\ b[Len(p)] = t + p[Len(p)] /\ \A i \in 1..Len(p) - 1 : b[i] = p[i]
  BY <1>4, <1>14, <1>15 DEF c
<1>13. QED
  BY <1>12 DEF a

-----------------------------------------------------------------------------
(* The tree on disk.                                                       *)

IsTree(f) ==
    /\ DOMAIN f \subseteq Seq(Nat) /\ Root \in DOMAIN f /\ f[Root] = Dir
    /\ \A p \in DOMAIN f : f[p] \in Content \cup {Dir}
    /\ \A p \in DOMAIN f \ {Root} : IsDir(f, Parent(p))

\* What an existing entry lies below is a directory.
LEMMA AboveIsDir ==
    ASSUME NEW f, IsTree(f), NEW k \in DOMAIN f, NEW p \in Seq(Nat), Descendant(p, k)
    PROVE  IsDir(f, p)
<1> DEFINE T == {n \in Nat : \E l \in DOMAIN f : n = Len(l) /\ Descendant(p, l)}
<1>1. DOMAIN f \subseteq Seq(Nat)
  BY DEF IsTree
<1>2. Len(k) \in T
  BY <1>1
<1>3. PICK n \in T : \A m \in T : ~ (<<m, n>> \in OpToRel(<, Nat))
  <2>1. T \subseteq Nat /\ T # {}
    BY <1>2
  <2> HIDE DEF T
  <2>2. QED
    BY <2>1, NatLessThanWellFounded, WFMin
<1>4. \A m \in T : ~ (m < n)
  BY <1>3 DEF OpToRel
<1>5. PICK l \in DOMAIN f : n = Len(l) /\ Descendant(p, l)
  OBVIOUS
<1>6. l \in Seq(Nat) /\ l # Root
  BY <1>1, <1>5 DEF Root, Descendant
<1>7. IsDir(f, Parent(l)) /\ Within(p, Parent(l)) /\ Parent(l) \in Seq(Nat)
  BY <1>5, <1>6, WithinParent DEF IsTree
<1>8. Len(Parent(l)) = Len(l) - 1
  BY <1>6, ParentNames
<1>9. ~ Descendant(p, Parent(l))
  <2>1. Len(Parent(l)) \in Nat /\ Len(Parent(l)) < n
    BY <1>5, <1>7, <1>8
  <2>2. Parent(l) \in DOMAIN f
    BY <1>7 DEF IsDir
  <2>3. QED
    BY <1>4, <2>1, <2>2
<1>10. QED
  BY <1>7, <1>9 DEF Within

\* Below a file, and below what does not exist, there is nothing.
LEMMA NothingBelow ==
    ASSUME NEW f, IsTree(f), NEW p \in Seq(Nat), ~ IsDir(f, p), NEW k \in DOMAIN f
    PROVE  ~ Descendant(p, k) /\ (p \notin DOMAIN f => ~ Within(p, k))
BY AboveIsDir DEF Within

\* Entries(f, p) is what f has at and below p.
LEMMA EntriesAt ==
    ASSUME NEW f, NEW p, NEW k
    PROVE  k \in Entries(f, p) <=> k \in DOMAIN f /\ Within(p, k)
BY DEF Entries, Within

\* os.RemoveAll.
LEMMA RemovedAt ==
    ASSUME NEW f, NEW p
    PROVE  /\ \A k : k \in DOMAIN Removed(f, p) <=> k \in DOMAIN f /\ ~ Within(p, k)
           /\ \A k \in DOMAIN Removed(f, p) : Removed(f, p)[k] = f[k]
BY EntriesAt DEF Removed

\* os.Rename, entry by entry.
LEMMA MovedAt ==
    ASSUME NEW f, DOMAIN f \subseteq Seq(Nat), NEW s \in Seq(Nat), NEW d \in Seq(Nat)
    PROVE  /\ DOMAIN Moved(f, s, d) \subseteq Seq(Nat)
           /\ \A k \in Seq(Nat) : ~ Within(d, k) =>
                 /\ k \in DOMAIN Moved(f, s, d) <=> k \in DOMAIN f /\ ~ Within(s, k)
                 /\ k \in DOMAIN Moved(f, s, d) => Moved(f, s, d)[k] = f[k]
           /\ \A x \in Seq(Nat) :
                 /\ d \o x \in DOMAIN Moved(f, s, d) <=> s \o x \in DOMAIN f
                 /\ s \o x \in DOMAIN f => Moved(f, s, d)[d \o x] = f[s \o x]
<1> DEFINE new == {d \o Suffix(k, s) : k \in Entries(f, s)}
           M == Moved(f, s, d)
<1>1. /\ DOMAIN M = (DOMAIN Removed(f, s) \ Entries(f, d)) \cup new
      /\ \A k \in DOMAIN M : M[k] = IF k \in new THEN f[s \o Suffix(k, d)] ELSE f[k]
  BY DEF Moved
<1> HIDE DEF M
<1>2. ASSUME NEW k \in new
      PROVE  \E x \in Seq(Nat) : k = d \o x /\ s \o x \in DOMAIN f
  <2>1. PICK l \in Entries(f, s) : k = d \o Suffix(l, s)
    OBVIOUS
  <2>2. l \in DOMAIN f /\ l \in Seq(Nat) /\ Within(s, l)
    BY <2>1, EntriesAt
  <2>3. Suffix(l, s) \in Seq(Nat) /\ s \o Suffix(l, s) = l
    BY <2>2, WhatIsLeft
  <2>4. QED
    BY <2>1, <2>2, <2>3
<1>3. ASSUME NEW x \in Seq(Nat), s \o x \in DOMAIN f PROVE d \o x \in new
  <2>1. Within(s, s \o x) /\ Suffix(s \o x, s) = x
    BY Followed
  <2>2. s \o x \in Entries(f, s)
    BY <1>3, <2>1, EntriesAt
  <2>3. QED
    BY <2>1, <2>2
<1> HIDE DEF new
<1>4. \A x \in Seq(Nat) : d \o x \in Seq(Nat) /\ Within(d, d \o x) /\ Suffix(d \o x, d) = x
  BY Followed
<1>5. \A k : k \in DOMAIN Removed(f, s) \ Entries(f, d) <=> k \in DOMAIN f /\ ~ Within(s, k) /\ ~ Within(d, k)
  BY RemovedAt, EntriesAt
<1>6. \A k \in new : k \in Seq(Nat) /\ Within(d, k)
  BY <1>2, <1>4
<1>7. ASSUME NEW x \in Seq(Nat)
      PROVE  /\ d \o x \in DOMAIN M <=> s \o x \in DOMAIN f
             /\ s \o x \in DOMAIN f => M[d \o x] = f[s \o x]
  <2>1. d \o x \in DOMAIN M <=> d \o x \in new
    BY <1>1, <1>4, <1>5
  <2>2. ASSUME d \o x \in new PROVE s \o x \in DOMAIN f
    <3>1. PICK y \in Seq(Nat) : d \o x = d \o y /\ s \o y \in DOMAIN f
      BY <1>2, <2>2
    <3>2. x = y
      BY <1>4, <3>1
    <3>3. QED
      BY <3>1, <3>2
  <2>3. QED
    BY <1>1, <1>3, <1>4, <2>1, <2>2
<1>8. DOMAIN M \subseteq Seq(Nat)
  BY <1>1, <1>5, <1>6
<1>9. ASSUME NEW k \in Seq(Nat), ~ Within(d, k)
      PROVE  /\ k \in DOMAIN M <=> k \in DOMAIN f /\ ~ Within(s, k)
             /\ k \in DOMAIN M => M[k] = f[k]
  BY <1>1, <1>5, <1>6, <1>9
<1>10. QED
  BY <1>7, <1>8, <1>9 DEF M

\* Deleting keeps the tree.
LEMMA RemovedTree ==
    ASSUME NEW f, IsTree(f), NEW p \in Seq(Nat), p # Root
    PROVE  IsTree(Removed(f, p))
<1> DEFINE g == Removed(f, p)
<1>1. /\ \A k : k \in DOMAIN g <=> k \in DOMAIN f /\ ~ Within(p, k)
      /\ \A k \in DOMAIN g : g[k] = f[k]
  BY RemovedAt
<1> HIDE DEF g
<1>2. DOMAIN g \subseteq Seq(Nat)
  BY <1>1 DEF IsTree
<1>3. ~ Within(p, Root)
  BY RootAbove DEF Within
<1>4. ASSUME NEW k \in DOMAIN g \ {Root} PROVE IsDir(g, Parent(k))
  <2>1. k \in Seq(Nat) /\ k # Root /\ ~ Within(p, k)
    BY <1>1, <1>2
  <2>2. ~ Within(p, Parent(k))
    BY <2>1, WithinParent
  <2>3. IsDir(f, Parent(k))
    BY <1>1, <1>4 DEF IsTree
  <2>4. QED
    BY <1>1, <2>2, <2>3 DEF IsDir
<1>5. QED
  BY <1>1, <1>2, <1>3, <1>4 DEF IsTree, g

\* So does a rename into an existing directory that is not below what is renamed.
LEMMA MovedTree ==
    ASSUME NEW f, IsTree(f), NEW s \in Seq(Nat), NEW d \in Seq(Nat), s # Root, d # Root,
           ~ Within(s, d), CanRename(f, s, d)
    PROVE  IsTree(Moved(f, s, d))
<1> DEFINE M == Moved(f, s, d)
<1>1. /\ DOMAIN M \subseteq Seq(Nat)
      /\ \A k \in Seq(Nat) : ~ Within(d, k) =>
            /\ k \in DOMAIN M <=> k \in DOMAIN f /\ ~ Within(s, k)
            /\ k \in DOMAIN M => M[k] = f[k]
      /\ \A x \in Seq(Nat) :
            /\ d \o x \in DOMAIN M <=> s \o x \in DOMAIN f
            /\ s \o x \in DOMAIN f => M[d \o x] = f[s \o x]
  BY SMTT(40), MovedAt DEF IsTree
<1> HIDE DEF M
<1>2. ~ Within(s, Root) /\ ~ Within(d, Root) /\ Root \in Seq(Nat)
  BY RootAbove, EmptySeq DEF Within, Root
<1>3. ASSUME NEW k \in DOMAIN M \ {Root} PROVE M[k] \in Content \cup {Dir} /\ IsDir(M, Parent(k))
  <2>1. k \in Seq(Nat) /\ k # Root
    BY <1>1
  <2>2. CASE ~ Within(d, k)
    <3>1. k \in DOMAIN f /\ ~ Within(s, k) /\ M[k] = f[k]
      BY <1>1, <2>1, <2>2
    <3>2. Parent(k) \in Seq(Nat) /\ ~ Within(s, Parent(k)) /\ ~ Within(d, Parent(k))
      BY <2>1, <2>2, <3>1, WithinParent
    <3>3. IsDir(f, Parent(k)) /\ f[k] \in Content \cup {Dir}
      BY <2>1, <3>1 DEF IsTree
    <3>4. QED
      BY <1>1, <3>1, <3>2, <3>3 DEF IsDir
  <2>3. CASE k = d
    <3>1. d \o Root = d /\ s \o Root = s /\ Root \in Seq(Nat)
      BY <1>2, ConcatEmptySeq DEF Root
    <3>2. M[d] = f[s] /\ f[s] \in Content \cup {Dir}
      BY <1>1, <3>1 DEF CanRename, IsTree
    <3>3. Parent(d) \in Seq(Nat) /\ ~ Within(s, Parent(d)) /\ ~ Within(d, Parent(d))
      BY WithinParent, WithinOrder
    <3>4. IsDir(f, Parent(d))
      BY DEF CanRename
    <3>5. QED
      BY <1>1, <2>3, <3>2, <3>3, <3>4 DEF IsDir
  <2>4. CASE Within(d, k) /\ k # d
    <3> DEFINE x == Suffix(k, d)
    <3>1. x \in Seq(Nat) /\ d \o x = k
      BY <2>1, <2>4, WhatIsLeft
    <3> HIDE DEF x
    <3>2. x # Root
      BY <2>4, <3>1, Followed
    <3>3. Parent(x) \in Seq(Nat) /\ Parent(k) = d \o Parent(x) /\ Parent(s \o x) = s \o Parent(x) /\ s \o x # Root
      BY ZenonT(60), <3>1, <3>2, Followed
    <3>4. s \o x \in DOMAIN f /\ M[k] = f[s \o x]
      BY <1>1, <1>3, <3>1
    <3>5. f[s \o x] \in Content \cup {Dir} /\ IsDir(f, s \o Parent(x))
      BY <3>3, <3>4 DEF IsTree
    <3>6. QED
      BY <1>1, <3>3, <3>4, <3>5 DEF IsDir
  <2>5. QED
    BY <2>2, <2>3, <2>4
<1>4. Root \in DOMAIN M /\ M[Root] = Dir
  BY <1>1, <1>2 DEF IsTree
<1>5. QED
  BY <1>1, <1>3, <1>4 DEF IsTree, M

\* So does adding entries whose directories are there.
LEMMA AddedTree ==
    ASSUME NEW f, IsTree(f), NEW g, NEW h, DOMAIN h = DOMAIN f \cup DOMAIN g,
           \A k \in DOMAIN h : h[k] = IF k \in DOMAIN g THEN g[k] ELSE f[k],
           \A k \in DOMAIN g :
              /\ k \in Seq(Nat) /\ k # Root /\ g[k] \in Content \cup {Dir}
              /\ IsDir(g, Parent(k)) \/ (Parent(k) \notin DOMAIN g /\ IsDir(f, Parent(k)))
              /\ IsDir(f, k) => g[k] = Dir
    PROVE  IsTree(h)
<1>1. ASSUME NEW k \in DOMAIN h \ {Root} PROVE IsDir(h, Parent(k))
  <2>1. CASE k \in DOMAIN g
    BY <2>1 DEF IsDir
  <2>2. CASE k \notin DOMAIN g
    <3>1. IsDir(f, Parent(k))
      BY <1>1, <2>2 DEF IsTree
    <3>2. QED
      BY <3>1 DEF IsDir
  <2>3. QED
    BY <2>1, <2>2
<1>2. QED
  BY <1>1 DEF IsTree

-----------------------------------------------------------------------------
(* Names and contents as the rows list them, after the statements of each  *)
(* kind of request.                                                        *)

HasData(R) == \A k \in DOMAIN R : "data" \in DOMAIN R[k]

\* What is listed is the same in R and in S, except at the paths X.
SameListed(R, S, X) ==
    \A k : k \notin X => /\ k \in DOMAIN S <=> k \in DOMAIN R
                         /\ k \in DOMAIN R => S[k].data = R[k].data

\* Sizes and versions change, names and contents do not.
LEMMA BumpedListed ==
    ASSUME NEW R, HasData(R), NEW p, NEW delta
    PROVE  /\ HasData(Bumped(R, p, delta)) /\ DOMAIN Bumped(R, p, delta) = DOMAIN R
           /\ \A k \in DOMAIN R : Bumped(R, p, delta)[k].data = R[k].data
<1> DEFINE B == Bumped(R, p, delta)
<1>1. DOMAIN B = DOMAIN R
  BY DEF Bumped
<1>2. \A k \in DOMAIN R : B[k] = IF Descendant(k, p) /\ IsDirRow(R, k)
                                THEN [R[k] EXCEPT !.size = @ + delta, !.ver = @ + 1] ELSE R[k]
  BY DEF Bumped
<1> HIDE DEF B
<1>3. ASSUME NEW k \in DOMAIN R PROVE "data" \in DOMAIN B[k] /\ B[k].data = R[k].data
  <2>1. "data" \in DOMAIN R[k]
    BY DEF HasData
  <2>2. CASE Descendant(k, p) /\ IsDirRow(R, k)
    <3>1. B[k] = [R[k] EXCEPT !.size = @ + delta, !.ver = @ + 1]
      BY <1>2, <2>2
    <3>2. QED
      BY <2>1, <3>1
  <2>3. CASE ~ (Descendant(k, p) /\ IsDirRow(R, k))
    BY <1>2, <2>1, <2>3
  <2>4. QED
    BY <2>2, <2>3
<1>4. QED
  BY <1>1, <1>3 DEF HasData, B

\* Well-formed rows have contents.
LEMMA TypedHasData ==
    ASSUME NEW R, RowsTyped(R)
    PROVE  HasData(R)
BY DEF RowsTyped, IsRow, HasData

\* A PUT lists its file with the content it uploaded.
LEMMA PutListed ==
    ASSUME RowsTyped(rows), NEW r
    PROVE  /\ SameListed(rows, PutRows(r), {Source(r)})
           /\ Source(r) \in DOMAIN PutRows(r) /\ PutRows(r)[Source(r)].data = Body(r)
<1> DEFINE p == Source(r)
           size == Size[Body(r)]
           R == IF p \in DOMAIN rows THEN Rewritten(rows, p, Body(r), size)
                ELSE Inserted(rows, [q \in {p} |-> NewRow(q, Body(r), size)])
<1>1. HasData(rows)
  BY TypedHasData
<1>2. SameListed(rows, R, {p}) /\ p \in DOMAIN R /\ R[p].data = Body(r) /\ HasData(R)
  <2>1. CASE p \in DOMAIN rows
    <3> DEFINE S == Rewritten(rows, p, Body(r), size)
    <3>1. DOMAIN S = DOMAIN rows /\ \A k \in DOMAIN rows : k # p => S[k] = rows[k]
      BY DEF Rewritten
    <3>2. "data" \in DOMAIN S[p] /\ S[p].data = Body(r)
      BY <1>1, <2>1 DEF Rewritten, HasData
    <3> HIDE DEF S
    <3>3. SameListed(rows, S, {p}) /\ p \in DOMAIN S /\ S[p].data = Body(r) /\ HasData(S)
      BY <1>1, <2>1, <3>1, <3>2 DEF SameListed, HasData
    <3>4. R = S
      BY <2>1 DEF S
    <3>5. QED
      BY <3>3, <3>4
  <2>2. CASE p \notin DOMAIN rows
    <3> DEFINE S == Inserted(rows, [q \in {p} |-> NewRow(q, Body(r), size)])
    <3>1. DOMAIN S = DOMAIN rows \cup {p} /\ \A k \in DOMAIN rows : S[k] = rows[k]
      BY DEF Inserted
    <3>2. S[p] = NewRow(p, Body(r), size)
      BY <2>2 DEF Inserted
    <3> HIDE DEF S
    <3>3. "data" \in DOMAIN S[p] /\ S[p].data = Body(r)
      BY <3>2 DEF NewRow
    <3>4. SameListed(rows, S, {p}) /\ p \in DOMAIN S /\ HasData(S)
      BY <1>1, <3>1, <3>3 DEF SameListed, HasData
    <3>5. R = S
      BY <2>2 DEF S
    <3>6. QED
      BY <3>3, <3>4, <3>5
  <2>3. QED
    BY <2>1, <2>2
<1>3. PutRows(r) = Bumped(R, p, size - TreeSize(rows, p))
  BY DEF PutRows
<1> HIDE DEF p, R
<1>4. SameListed(rows, PutRows(r), {p}) /\ p \in DOMAIN PutRows(r) /\ PutRows(r)[p].data = Body(r)
  BY <1>2, <1>3, BumpedListed DEF SameListed
<1>5. QED
  BY <1>4 DEF p

\* A MKCOL lists its collection and those above it that had no row.
LEMMA MkcolListed ==
    ASSUME RowsTyped(rows), NEW r
    PROVE  LET X == ParentPaths(Source(r)) \cup {Source(r)}
           IN /\ DOMAIN MkcolRows(r) = DOMAIN rows \cup X
              /\ \A k \in DOMAIN MkcolRows(r) :
                    MkcolRows(r)[k].data = IF k \in DOMAIN rows THEN rows[k].data ELSE Dir
<1> DEFINE p == Source(r)
           X == ParentPaths(p) \cup {p}
           R == Inserted(rows, [q \in X |-> NewRow(q, Dir, 0)])
<1>1. HasData(rows)
  BY TypedHasData
<1>2. DOMAIN R = DOMAIN rows \cup X
  BY DEF Inserted
<1>3. \A k \in DOMAIN R : R[k] = IF k \in DOMAIN rows THEN rows[k] ELSE NewRow(k, Dir, 0)
  BY DEF Inserted
<1> HIDE DEF X, R
<1>4. \A k : "data" \in DOMAIN NewRow(k, Dir, 0) /\ NewRow(k, Dir, 0).data = Dir
  BY DEF NewRow
<1>5. \A k \in DOMAIN R : R[k].data = IF k \in DOMAIN rows THEN rows[k].data ELSE Dir
  BY <1>3, <1>4
<1>6. HasData(R)
  BY <1>1, <1>3, <1>4 DEF HasData
<1>7. MkcolRows(r) = Bumped(R, p, 0)
  BY DEF MkcolRows, R, X
<1> HIDE DEF p
<1>8. /\ DOMAIN MkcolRows(r) = DOMAIN rows \cup X
      /\ \A k \in DOMAIN MkcolRows(r) : MkcolRows(r)[k].data = IF k \in DOMAIN rows THEN rows[k].data ELSE Dir
  BY <1>2, <1>5, <1>6, <1>7, BumpedListed
<1>9. QED
  BY <1>8 DEF X, p

\* A DELETE of a collection takes all its rows, of a file one.
LEMMA DeleteListed ==
    ASSUME RowsTyped(rows), NEW r
    PROVE  LET X == IF req[r].isDir THEN Entries(rows, Source(r)) ELSE {Source(r)}
           IN /\ DOMAIN DeleteRows(r) = DOMAIN rows \ X
              /\ \A k \in DOMAIN DeleteRows(r) : DeleteRows(r)[k].data = rows[k].data
<1> DEFINE p == Source(r)
           X == IF req[r].isDir THEN Entries(rows, p) ELSE {p}
           R == [k \in DOMAIN rows \ X |-> rows[k]]
<1>1. HasData(R) /\ DOMAIN R = DOMAIN rows \ X /\ \A k \in DOMAIN R : R[k] = rows[k]
  BY TypedHasData DEF HasData
<1>2. DeleteRows(r) = Bumped(R, p, - rows[p].size)
  BY DEF DeleteRows, Removed
<1> HIDE DEF R
<1>3. QED
  BY <1>1, <1>2, BumpedListed

\* A replaced destination is listed no more.
LEMMA ClearedListed ==
    ASSUME RowsTyped(rows), NEW r
    PROVE  /\ HasData(Cleared(r))
           /\ DOMAIN Cleared(r) = IF req[r].saved THEN DOMAIN rows \ Entries(rows, Target(r)) ELSE DOMAIN rows
           /\ \A k \in DOMAIN Cleared(r) : Cleared(r)[k].data = rows[k].data
<1> DEFINE d == Target(r)
           R == Removed(rows, d)
<1>1. HasData(rows)
  BY TypedHasData
<1>2. CASE req[r].saved
  <2>1. DOMAIN R = DOMAIN rows \ Entries(rows, d) /\ \A k \in DOMAIN R : R[k] = rows[k]
    BY DEF Removed
  <2>2. Cleared(r) = Bumped(R, d, - TreeSize(rows, d))
    BY <1>2 DEF Cleared
  <2> HIDE DEF R, d
  <2>3. HasData(R)
    BY <1>1, <2>1 DEF HasData
  <2>4. QED
    BY <1>2, <2>1, <2>2, <2>3, BumpedListed DEF d
<1>3. CASE ~ req[r].saved
  BY <1>1, <1>3 DEF Cleared
<1>4. QED
  BY <1>2, <1>3

\* The paths a request names and the rows it takes along.
LEMMA TakenRows ==
    ASSUME RowsTyped(rows), NEW r, Requested(r), NEW q \in Taken(r)
    PROVE  LET s == Source(r)
               d == Target(r)
               k == d \o Suffix(q, s)
           IN /\ q \in Seq(Nat) /\ Within(s, q)
              /\ k \in Seq(Nat) /\ Within(d, k) /\ s \o Suffix(k, d) = q
              /\ Suffix(q, s) \in Seq(Nat) /\ s \o Suffix(q, s) = q
<1>1. Source(r) \in Seq(Nat) /\ Target(r) \in Seq(Nat)
  BY OpPaths
<1>2. q \in Seq(Nat) /\ Within(Source(r), q)
  BY <1>1, EntriesAt DEF Taken, RowsTyped, Within
<1>3. Suffix(q, Source(r)) \in Seq(Nat) /\ Source(r) \o Suffix(q, Source(r)) = q
  BY <1>1, <1>2, WhatIsLeft
<1>4. QED
  BY ZenonT(60), <1>1, <1>2, <1>3, Followed

\* A MOVE lists the rows it takes along at their new paths.
LEMMA MoveListed ==
    ASSUME RowsTyped(rows), NEW r, Requested(r)
    PROVE  LET R == Cleared(r)
               new == {Target(r) \o Suffix(q, Source(r)) : q \in Taken(r) \cap DOMAIN R}
           IN /\ DOMAIN MoveRows(r) = (DOMAIN R \ Taken(r)) \cup new
              /\ \A k \in DOMAIN MoveRows(r) :
                    MoveRows(r)[k].data = IF k \in new THEN rows[Source(r) \o Suffix(k, Target(r))].data
                                          ELSE rows[k].data
<1> DEFINE s == Source(r)
           d == Target(r)
           R == Cleared(r)
           E == Taken(r)
           new == {d \o Suffix(q, s) : q \in E \cap DOMAIN R}
           C == Carried(R, E, s, d)
           bytes == IF req[r].isDir THEN FileBytes(rows, s) ELSE rows[s].size
<1>1. HasData(R) /\ \A k \in DOMAIN R : R[k].data = rows[k].data
  BY ClearedListed
<1>2. /\ DOMAIN C = (DOMAIN R \ E) \cup new
      /\ \A k \in DOMAIN C : C[k] = IF k \in new THEN R[s \o Suffix(k, d)] ELSE R[k]
  BY DEF Carried
<1>3. MoveRows(r) = IF Parent(s) # Parent(d) THEN Bumped(Bumped(C, s, - bytes), d, bytes)
                    ELSE Bumped(C, s, 0)
  BY DEF MoveRows
<1>4. ASSUME NEW k \in new PROVE s \o Suffix(k, d) \in DOMAIN R
  <2>1. PICK q \in E \cap DOMAIN R : k = d \o Suffix(q, s)
    OBVIOUS
  <2>2. s \o Suffix(k, d) = q
    BY <2>1, TakenRows
  <2>3. QED
    BY <2>1, <2>2
<1> HIDE DEF C, new, R, E, bytes
<1>5. HasData(C) /\ \A k \in DOMAIN C : C[k].data = IF k \in new THEN rows[s \o Suffix(k, d)].data ELSE rows[k].data
  BY <1>1, <1>2, <1>4 DEF HasData
<1> HIDE DEF s, d
<1>6. /\ DOMAIN MoveRows(r) = DOMAIN C
      /\ \A k \in DOMAIN C : MoveRows(r)[k].data = C[k].data
  <2>1. CASE Parent(s) # Parent(d)
    <3> DEFINE Q == Bumped(C, s, - bytes)
    <3>1. HasData(Q) /\ DOMAIN Q = DOMAIN C /\ \A k \in DOMAIN C : Q[k].data = C[k].data
      BY <1>5, BumpedListed
    <3>2. MoveRows(r) = Bumped(Q, d, bytes)
      BY <1>3, <2>1
    <3> HIDE DEF Q
    <3>3. QED
      BY <3>1, <3>2, BumpedListed
  <2>2. CASE Parent(s) = Parent(d)
    BY <1>3, <1>5, <2>2, BumpedListed
  <2>3. QED
    BY <2>1, <2>2
<1>7. QED
  BY <1>2, <1>5, <1>6 DEF new, R, E, s, d

\* A COPY lists its copies; a row that is still in the way is filled by the copy of a file and
\* kept otherwise.
LEMMA CopyListed ==
    ASSUME RowsTyped(rows), NEW r, Requested(r), Op(r).kind \in {"COPY", "COPY0"}
    PROVE  LET R == Cleared(r)
               s == Source(r)
               d == Target(r)
               flat == req[r].isDir /\ Op(r).kind = "COPY0"
               new == {d \o Suffix(q, s) : q \in IF flat THEN {s} ELSE IF req[r].isDir THEN Entries(rows, s) ELSE {s}}
           IN /\ DOMAIN CopyRows(r) = DOMAIN R \cup new
              /\ \A k \in DOMAIN R \ {d} : CopyRows(r)[k].data = rows[k].data
              /\ \A k \in new : k \notin DOMAIN R =>
                    CopyRows(r)[k].data = IF flat THEN Dir ELSE rows[s \o Suffix(k, d)].data
<1> DEFINE s == Source(r)
           d == Target(r)
           R == Cleared(r)
           flat == req[r].isDir /\ Op(r).kind = "COPY0"
           E == IF flat THEN {s} ELSE IF req[r].isDir THEN Entries(rows, s) ELSE {s}
           new == {d \o Suffix(q, s) : q \in E}
           copy(k) == LET row == rows[s \o Suffix(k, d)] IN NewRow(k, row.data, row.size)
<1> SUFFICES /\ DOMAIN CopyRows(r) = DOMAIN R \cup new
             /\ \A k \in DOMAIN R \ {d} : CopyRows(r)[k].data = rows[k].data
             /\ \A k \in new : k \notin DOMAIN R =>
                   CopyRows(r)[k].data = IF flat THEN Dir ELSE rows[s \o Suffix(k, d)].data
  OBVIOUS
<1>1. HasData(R) /\ \A k \in DOMAIN R : R[k].data = rows[k].data
  BY ClearedListed
<1>2. s \in Seq(Nat) /\ d \in Seq(Nat)
  BY OpPaths
<1>3. d \o Suffix(s, s) = d /\ s \o Suffix(d, d) = s
  BY <1>2, EmptySuffix
<1>4. \A k, x, y : "data" \in DOMAIN NewRow(k, x, y) /\ NewRow(k, x, y).data = x
  BY DEF NewRow
<1>5. ASSUME NEW T, NEW x, CopyRows(r) = Bumped(T, d, x), HasData(T),
             DOMAIN T = DOMAIN R \cup new,
             \A k \in DOMAIN R \ {d} : T[k].data = R[k].data,
             \A k \in new : k \notin DOMAIN R => T[k].data = IF flat THEN Dir ELSE rows[s \o Suffix(k, d)].data
      PROVE  /\ DOMAIN CopyRows(r) = DOMAIN R \cup new
             /\ \A k \in DOMAIN R \ {d} : CopyRows(r)[k].data = rows[k].data
             /\ \A k \in new : k \notin DOMAIN R =>
                   CopyRows(r)[k].data = IF flat THEN Dir ELSE rows[s \o Suffix(k, d)].data
  <2> HIDE DEF R, new, s, d, flat
  <2>1. QED
    BY <1>1, <1>5, BumpedListed
<1>6. CASE ~ req[r].isDir
  <2>1. new = {d} /\ ~ flat
    BY <1>3, <1>6
  <2> HIDE DEF R, new, s, d, flat
  <2>2. CASE d \in DOMAIN R
    <3> DEFINE T == Rewritten(R, d, IF IsDirRow(R, d) THEN Dir ELSE rows[s].data, rows[s].size)
    <3>1. CopyRows(r) = Bumped(T, d, rows[s].size)
      BY <1>6, <2>2 DEF CopyRows, R, s, d
    <3>2. DOMAIN T = DOMAIN R /\ \A k \in DOMAIN R \ {d} : T[k] = R[k]
      BY DEF Rewritten
    <3>3. "data" \in DOMAIN T[d]
      BY <1>1, <2>2 DEF Rewritten, HasData
    <3> HIDE DEF T
    <3>4. HasData(T) /\ DOMAIN T = DOMAIN R \cup new
      BY <1>1, <2>1, <2>2, <3>2, <3>3 DEF HasData
    <3>5. /\ \A k \in DOMAIN R \ {d} : T[k].data = R[k].data
          /\ \A k \in new : k \notin DOMAIN R => T[k].data = IF flat THEN Dir ELSE rows[s \o Suffix(k, d)].data
      BY <2>1, <2>2, <3>2
    <3> DEFINE x == rows[s].size
    <3>6. CopyRows(r) = Bumped(T, d, x)
      BY <3>1
    <3> HIDE DEF x
    <3>7. QED
      BY <1>5, <3>4, <3>5, <3>6
  <2>3. CASE d \notin DOMAIN R
    <3> DEFINE T == Inserted(R, [k \in {d} |-> copy(k)])
    <3>1. CopyRows(r) = Bumped(T, d, rows[s].size)
      BY <1>6, <2>3 DEF CopyRows, R, s, d
    <3>2. DOMAIN T = DOMAIN R \cup {d} /\ \A k \in DOMAIN R : T[k] = R[k]
      BY DEF Inserted
    <3>3. T[d] = NewRow(d, rows[s].data, rows[s].size)
      BY <1>3, <2>3 DEF Inserted, s, d
    <3> HIDE DEF T
    <3>4. HasData(T) /\ T[d].data = rows[s].data /\ rows[s \o Suffix(d, d)].data = rows[s].data
      BY <1>1, <1>3, <1>4, <3>2, <3>3 DEF HasData
    <3>5. /\ \A k \in DOMAIN R \ {d} : T[k].data = R[k].data
          /\ \A k \in new : k \notin DOMAIN R => T[k].data = IF flat THEN Dir ELSE rows[s \o Suffix(k, d)].data
      BY <2>1, <2>3, <3>2, <3>4
    <3>6. DOMAIN T = DOMAIN R \cup new
      BY <2>1, <3>2
    <3> DEFINE x == rows[s].size
    <3>7. CopyRows(r) = Bumped(T, d, x)
      BY <3>1
    <3> HIDE DEF x
    <3>8. QED
      BY <1>5, <3>4, <3>5, <3>6, <3>7
  <2>4. QED
    BY <2>2, <2>3
<1>7. CASE flat
  <2>1. new = {d}
    BY <1>3, <1>7
  <2> DEFINE T == Inserted(R, [k \in {d} |-> NewRow(k, Dir, 0)])
  <2>2. CopyRows(r) = Bumped(T, d, 0)
    BY <1>7 DEF CopyRows
  <2>3. /\ DOMAIN T = DOMAIN R \cup {d}
        /\ \A k \in DOMAIN T : T[k] = IF k \in DOMAIN R THEN R[k] ELSE NewRow(k, Dir, 0)
    BY DEF Inserted
  <2> HIDE DEF T, R
  <2>4. HasData(T)
    BY <1>1, <1>4, <2>3 DEF HasData
  <2> HIDE DEF d, new, flat, s
  <2>5. /\ DOMAIN T = DOMAIN R \cup new /\ \A k \in DOMAIN R \ {d} : T[k].data = R[k].data
        /\ \A k \in new : k \notin DOMAIN R => T[k].data = IF flat THEN Dir ELSE rows[s \o Suffix(k, d)].data
    BY <1>4, <1>7, <2>1, <2>3
  <2>6. QED
    BY <1>5, <2>2, <2>4, <2>5
<1>8. CASE req[r].isDir /\ Op(r).kind # "COPY0"
  <2>1. E = Entries(rows, s) /\ ~ flat
    BY <1>8
  <2> DEFINE T == Inserted(R, [k \in {d \o Suffix(q, s) : q \in Entries(rows, s)} |-> copy(k)])
  <2>2. CopyRows(r) = Bumped(T, d, TreeSize(rows, s))
    BY <1>8 DEF CopyRows
  <2>3. new = {d \o Suffix(q, s) : q \in Entries(rows, s)}
    BY <2>1
  <2>4. /\ DOMAIN T = DOMAIN R \cup new
        /\ \A k \in DOMAIN T : T[k] = IF k \in DOMAIN R THEN R[k]
              ELSE NewRow(k, rows[s \o Suffix(k, d)].data, rows[s \o Suffix(k, d)].size)
    BY <2>3 DEF Inserted
  <2> HIDE DEF T, R, new
  <2>5. HasData(T)
    BY <1>1, <1>4, <2>4 DEF HasData
  <2> DEFINE x == TreeSize(rows, s)
  <2>6. CopyRows(r) = Bumped(T, d, x)
    BY <2>2
  <2>7. ~ flat
    BY <2>1
  <2> HIDE DEF x, s, d, flat
  <2>8. /\ DOMAIN T = DOMAIN R \cup new /\ \A k \in DOMAIN R \ {d} : T[k].data = R[k].data
        /\ \A k \in new : k \notin DOMAIN R => T[k].data = IF flat THEN Dir ELSE rows[s \o Suffix(k, d)].data
    BY <1>4, <2>4, <2>7
  <2>9. QED
    BY <1>5, <2>5, <2>6, <2>8
<1>9. QED
  BY <1>6, <1>7, <1>8

-----------------------------------------------------------------------------
(* What every variable holds.                                              *)

\* Renaming beside a path, or elsewhere, keeps the tree on disk.
LEMMA RenamedTree ==
    ASSUME NEW f, IsTree(f), NEW s \in Seq(Nat), NEW d \in Seq(Nat), s # Root, d # Root, ~ Within(s, d)
    PROVE  IsTree(Renamed(f, s, d))
BY MovedTree DEF Renamed

\* So does adding one entry, to an existing directory, where there is none.
LEMMA InsertedTree ==
    ASSUME NEW f, IsTree(f), NEW p \in Seq(Nat), p # Root, IsDir(f, Parent(p)),
           NEW x \in Content \cup {Dir}
    PROVE  IsTree(Inserted(f, [k \in {p} |-> x]))
<1> DEFINE h == Inserted(f, [k \in {p} |-> x])
<1>1. /\ DOMAIN h = DOMAIN f \cup {p}
      /\ \A k \in DOMAIN f : h[k] = f[k]
      /\ p \notin DOMAIN f => h[p] = x
  BY DEF Inserted
<1> HIDE DEF h
<1>2. ASSUME NEW k \in DOMAIN h \ {Root} PROVE IsDir(h, Parent(k)) /\ h[k] \in Content \cup {Dir}
  <2>1. IsDir(f, Parent(k)) /\ h[k] \in Content \cup {Dir}
    BY <1>1, <1>2 DEF IsTree
  <2>2. QED
    BY <1>1, <2>1 DEF IsDir
<1>3. QED
  BY <1>1, <1>2 DEF IsTree, h

\* Names beside a path are other names, in the same collection.
LEMMA NotUnder ==
    ASSUME NEW p \in Seq(Nat), p # Root, NEW t \in Nat \ {0}
    PROVE  /\ Beside(p, t) \in Seq(Nat) /\ Beside(p, t) # Root
           /\ ~ Within(p, Beside(p, t)) /\ ~ Within(Beside(p, t), p)
<1> DEFINE b == Beside(p, t)
<1>1. /\ b \in Seq(Nat) /\ Len(b) = Len(p) /\ b # Root /\ b[Len(p)] = t + p[Len(p)]
  BY BesideNames
<1> HIDE DEF b
<1>2. Len(p) \in Nat \ {0}
  BY EmptySeq DEF Root
<1>3. p[Len(p)] \in Nat /\ b[Len(p)] # p[Len(p)] /\ Len(p) \in 1..Len(p)
  BY <1>1, <1>2
<1>4. ~ Within(p, b)
  BY <1>1, <1>3, WithinNames
<1>5. ~ Within(b, p)
  BY <1>1, <1>3, WithinNames
<1>6. QED
  BY <1>1, <1>4, <1>5 DEF b

\* The names of backups and temporary files are not the names they stand for.
LEMMA OwnNames ==
    ASSUME NEW r, Requested(r), Op(r).kind # "PROPPATCH"
    PROVE  /\ Backup(r) \in Seq(Nat) /\ Backup(r) # Root
           /\ ~ Within(Target(r), Backup(r)) /\ ~ Within(Backup(r), Target(r))
           /\ Tmp(r) \in Seq(Nat) /\ Tmp(r) # Root
           /\ ~ Within(Source(r), Tmp(r)) /\ ~ Within(Tmp(r), Source(r))
           /\ Parent(Backup(r)) = Parent(Target(r)) /\ Parent(Tmp(r)) = Parent(Source(r))
<1>1. /\ Source(r) \in Seq(Nat) /\ Target(r) \in Seq(Nat) /\ Source(r) # Root /\ Target(r) # Root
  BY OpPaths
<1> DEFINE n == req[r].num
           a == 20 * n
           b == 20 * n + 10
<1>2. a \in Nat \ {0} /\ b \in Nat \ {0}
  BY TreeAssumption DEF Requested
<1>3. Backup(r) = Beside(Target(r), a) /\ Tmp(r) = Beside(Source(r), b)
  BY DEF Backup, Tmp, BackupName, TmpName
<1> HIDE DEF a, b
<1>4. QED
  BY <1>1, <1>2, <1>3, NotUnder, BesideNames

\* Paths made of plain names.
LEMMA PlainPaths ==
    /\ Plain \subseteq Seq(Nat) /\ Path \subseteq Plain
    /\ \A s \in Plain, d \in Plain, q \in Plain : Within(s, q) => d \o Suffix(q, s) \in Plain
    /\ \A p \in Plain : ParentPaths(p) \subseteq Plain
<1>1. ASSUME NEW p \in Plain, NEW m \in Int, NEW n \in Int, \A i \in m..n : i \in 1..Len(p)
      PROVE  SubSeq(p, m, n) \in Plain
  <2>1. \A i \in m..n : p[i] \in 0..9
    BY <1>1 DEF Plain
  <2>2. SubSeq(p, m, n) \in Seq(0..9)
    BY <2>1, SubSeqProperties
  <2>3. QED
    BY <2>2 DEF Plain
<1>2. ASSUME NEW s \in Plain, NEW d \in Plain, NEW q \in Plain, Within(s, q)
      PROVE  d \o Suffix(q, s) \in Plain
  <2>1. Len(s) \in Nat /\ Len(q) \in Nat
    BY DEF Plain
  <2> DEFINE m == Len(s) + 1
             n == Len(q)
  <2>2. m \in Int /\ n \in Int /\ \A i \in m..n : i \in 1..Len(q)
    BY <2>1
  <2> HIDE DEF m, n
  <2>3. SubSeq(q, m, n) \in Plain
    BY <1>1, <2>2
  <2>4. Suffix(q, s) \in Plain
    BY <2>3 DEF Suffix, m, n
  <2>5. QED
    BY <2>4, ConcatProperties DEF Plain
<1>3. ASSUME NEW p \in Plain, NEW a \in ParentPaths(p) PROVE a \in Plain
  <2>1. PICK n \in 0..Len(p) - 1 : a = SubSeq(p, 1, n)
    BY <1>3 DEF ParentPaths
  <2>2. Len(p) \in Nat
    BY DEF Plain
  <2>3. n \in Int /\ 1 \in Int /\ \A i \in 1..n : i \in 1..Len(p)
    BY <2>2
  <2>4. QED
    BY <1>1, <2>1, <2>3
<1>4. Plain \subseteq Seq(Nat)
  BY DEF Plain
<1>5. QED
  BY <1>2, <1>3, <1>4, TreeAssumption

\* What a step of r does to its own fields and to those of others.
Others(r) == \A q \in Req \ {r} : req'[q] = req[q]
Kept(r) == req'[r].num = req[r].num /\ req'[r].op = req[r].op
Marks(r) ==
    /\ req'[r].isDir = req[r].isDir /\ req'[r].saved = req[r].saved
    /\ req'[r].placed = req[r].placed /\ req'[r].alive = req[r].alive

\* The same of a request that starts: it waits for its locks, with a new number.
LEMMA BeginFields ==
    ASSUME IInv, NEW r \in Req, NEW o \in Ops, Begin(r, o)
    PROVE  /\ Others(r) /\ req'[r].pc = "waiting" /\ req'[r].num = issued + 1 /\ req'[r].op = o
           /\ req'[r].isDir = FALSE /\ req'[r].saved = FALSE /\ req'[r].placed = FALSE /\ req'[r].alive = TRUE
<1>1. PICK tag : req' = [req EXCEPT ![r] = [Idle EXCEPT !.pc = "waiting", !.num = issued',
                                                       !.op = o, !.tag = tag]]
  BY DEF Begin
<1>2. issued' = issued + 1
  BY DEF Begin
<1>3. /\ \A q \in Req \ {r} : req'[q] = req[q]
      /\ req'[r] = [Idle EXCEPT !.pc = "waiting", !.num = issued', !.op = o, !.tag = tag]
  BY <1>1 DEF IInv
<1>4. QED
  BY <1>2, <1>3 DEF Idle, Others

\* A request that ends leaves its handler idle.
LEMMA EndFields ==
    ASSUME IInv, NEW r \in Req, Refuse(r) \/ Clean(r) \/ Undo(r)
    PROVE  /\ Others(r) /\ req'[r].pc = "idle" /\ req'[r].saved = FALSE
           /\ req'[r].placed = FALSE /\ req'[r].alive = TRUE
<1>1. req' = [req EXCEPT ![r] = Idle]
  BY DEF Refuse, Clean, Undo, Finish
<1>2. Others(r) /\ req'[r] = Idle
  BY <1>1 DEF IInv, Others
<1>3. QED
  BY <1>2 DEF Idle

\* Every other step of r keeps its number and its operation.
LEMMA StepFields ==
    ASSUME IInv, NEW r \in Req
    PROVE  /\ Enter(r) => Others(r) /\ Kept(r) /\ Marks(r) /\ req'[r].pc = "checking"
           /\ Check(r) => /\ Others(r) /\ Kept(r) /\ req'[r].isDir = IsDir(fs, Source(r))
                          /\ req'[r].saved = req[r].saved /\ req'[r].placed = req[r].placed
                          /\ req'[r].alive = req[r].alive
                          /\ req'[r].pc = IF Op(r).kind = "PROPPATCH" THEN "committing"
                                          ELSE IF Exists(r) THEN "saving" ELSE "placing"
           /\ Save(r) => /\ Others(r) /\ Kept(r) /\ req'[r].isDir = req[r].isDir
                         /\ req'[r].saved = TRUE /\ req'[r].placed = req[r].placed
                         /\ req'[r].alive = req[r].alive
                         /\ req'[r].pc = IF Op(r).kind = "DELETE" THEN "committing" ELSE "placing"
           /\ Place(r) => /\ Others(r) /\ Kept(r) /\ req'[r].isDir = req[r].isDir
                          /\ req'[r].saved = req[r].saved /\ req'[r].placed = TRUE
                          /\ req'[r].alive = req[r].alive /\ req'[r].pc = "committing"
           /\ Commit(r) => Others(r) /\ Kept(r) /\ Marks(r) /\ req'[r].pc = "cleaning"
           /\ Fail(r) => Others(r) /\ Kept(r) /\ Marks(r) /\ req'[r].pc = "undoing"
           /\ LoseReply(r) => /\ Others(r) /\ Kept(r) /\ req'[r].isDir = req[r].isDir
                              /\ req'[r].saved = req[r].saved /\ req'[r].placed = req[r].placed
                              /\ req'[r].alive = FALSE /\ req'[r].pc = "undoing"
           /\ LoseSession(r) => /\ Others(r) /\ Kept(r) /\ req'[r].isDir = req[r].isDir
                                /\ req'[r].saved = req[r].saved /\ req'[r].placed = req[r].placed
                                /\ req'[r].alive = FALSE /\ req'[r].pc = req[r].pc
<1>0. DOMAIN req[r] = Fields /\ r \in DOMAIN req /\ DOMAIN req = Req
  BY DEF IInv, Good, Typed
<1>1. ASSUME NEW x, req' = [req EXCEPT ![r].pc = x]
      PROVE  Others(r) /\ Kept(r) /\ Marks(r) /\ req'[r].pc = x
  <2>1. req'[r] = [req[r] EXCEPT !.pc = x] /\ Others(r)
    BY <1>0, <1>1 DEF Others
  <2>2. QED
    BY <1>0, <2>1 DEF Kept, Marks, Fields
<1>2. Enter(r) => Others(r) /\ Kept(r) /\ Marks(r) /\ req'[r].pc = "checking"
  BY <1>1 DEF Enter, Goto
<1>3. ASSUME Check(r)
      PROVE  /\ Others(r) /\ Kept(r) /\ req'[r].isDir = IsDir(fs, Source(r))
             /\ req'[r].saved = req[r].saved /\ req'[r].placed = req[r].placed
             /\ req'[r].alive = req[r].alive
             /\ req'[r].pc = IF Op(r).kind = "PROPPATCH" THEN "committing"
                             ELSE IF Exists(r) THEN "saving" ELSE "placing"
  <2> DEFINE x == CASE Op(r).kind = "PROPPATCH" -> "committing"
                    [] Op(r).kind # "PROPPATCH" /\ Exists(r) -> "saving"
                    [] OTHER -> "placing"
             y == IsDir(fs, Source(r))
  <2>1. req' = [req EXCEPT ![r].pc = x, ![r].isDir = y]
    BY <1>3 DEF Check, Proceed
  <2>2. x = IF Op(r).kind = "PROPPATCH" THEN "committing" ELSE IF Exists(r) THEN "saving" ELSE "placing"
    OBVIOUS
  <2> HIDE DEF x, y
  <2>3. req'[r] = [req[r] EXCEPT !.pc = x, !.isDir = y] /\ Others(r)
    BY <1>0, <2>1 DEF Others
  <2>4. /\ Kept(r) /\ req'[r].isDir = y /\ req'[r].saved = req[r].saved
        /\ req'[r].placed = req[r].placed /\ req'[r].alive = req[r].alive /\ req'[r].pc = x
    BY <1>0, <2>3 DEF Kept, Fields
  <2>5. QED
    BY <2>2, <2>3, <2>4 DEF y
<1>4. ASSUME Save(r)
      PROVE  /\ Others(r) /\ Kept(r) /\ req'[r].isDir = req[r].isDir
             /\ req'[r].saved = TRUE /\ req'[r].placed = req[r].placed /\ req'[r].alive = req[r].alive
             /\ req'[r].pc = IF Op(r).kind = "DELETE" THEN "committing" ELSE "placing"
  <2> DEFINE x == IF Op(r).kind = "DELETE" THEN "committing" ELSE "placing"
  <2>1. req' = [req EXCEPT ![r].saved = TRUE, ![r].pc = x]
    BY <1>4 DEF Save
  <2> HIDE DEF x
  <2>2. req'[r] = [req[r] EXCEPT !.saved = TRUE, !.pc = x] /\ Others(r)
    BY <1>0, <2>1 DEF Others
  <2>3. /\ Kept(r) /\ req'[r].isDir = req[r].isDir /\ req'[r].saved = TRUE
        /\ req'[r].placed = req[r].placed /\ req'[r].alive = req[r].alive /\ req'[r].pc = x
    BY <1>0, <2>2 DEF Kept, Fields
  <2>4. QED
    BY <2>2, <2>3 DEF x
<1>5. ASSUME Place(r)
      PROVE  /\ Others(r) /\ Kept(r) /\ req'[r].isDir = req[r].isDir
             /\ req'[r].saved = req[r].saved /\ req'[r].placed = TRUE
             /\ req'[r].alive = req[r].alive /\ req'[r].pc = "committing"
  <2>1. req' = [req EXCEPT ![r].placed = TRUE, ![r].pc = "committing"]
    BY <1>5 DEF Place
  <2>2. req'[r] = [req[r] EXCEPT !.placed = TRUE, !.pc = "committing"] /\ Others(r)
    BY <1>0, <2>1 DEF Others
  <2>3. QED
    BY <1>0, <2>2 DEF Kept, Fields
<1>6. Commit(r) => Others(r) /\ Kept(r) /\ Marks(r) /\ req'[r].pc = "cleaning"
  BY <1>1 DEF Commit, Goto
<1>7. Fail(r) => Others(r) /\ Kept(r) /\ Marks(r) /\ req'[r].pc = "undoing"
  BY <1>1 DEF Fail, Goto
<1>8. ASSUME NEW x, req' = [req EXCEPT ![r].pc = x, ![r].alive = FALSE]
      PROVE  /\ Others(r) /\ Kept(r) /\ req'[r].isDir = req[r].isDir
             /\ req'[r].saved = req[r].saved /\ req'[r].placed = req[r].placed
             /\ req'[r].alive = FALSE /\ req'[r].pc = x
  <2>1. req'[r] = [req[r] EXCEPT !.pc = x, !.alive = FALSE] /\ Others(r)
    BY <1>0, <1>8 DEF Others
  <2>2. QED
    BY <1>0, <2>1 DEF Kept, Fields
<1>9. ASSUME LoseSession(r)
      PROVE  /\ Others(r) /\ Kept(r) /\ req'[r].isDir = req[r].isDir
             /\ req'[r].saved = req[r].saved /\ req'[r].placed = req[r].placed
             /\ req'[r].alive = FALSE /\ req'[r].pc = req[r].pc
  <2>1. req' = [req EXCEPT ![r].alive = FALSE]
    BY <1>9 DEF LoseSession
  <2>2. req'[r] = [req[r] EXCEPT !.alive = FALSE] /\ Others(r)
    BY <1>0, <2>1 DEF Others
  <2>3. QED
    BY <1>0, <2>2 DEF Kept, Fields
<1>10. LoseReply(r) => req' = [req EXCEPT ![r].pc = "undoing", ![r].alive = FALSE]
  BY DEF LoseReply
<1>11. LoseReply(r) => /\ Others(r) /\ Kept(r) /\ req'[r].isDir = req[r].isDir
                       /\ req'[r].saved = req[r].saved /\ req'[r].placed = req[r].placed
                       /\ req'[r].alive = FALSE /\ req'[r].pc = "undoing"
  BY <1>8, <1>10
<1>12. QED
  BY <1>2, <1>3, <1>4, <1>5, <1>6, <1>7, <1>9, <1>11

\* Past its checks a request has source and destination apart; it sets aside and puts in
\* place only what its kind of request does.
Past(r) == req[r].pc \in {"saving", "placing", "committing", "cleaning", "undoing"}
Sorted(r) ==
    /\ req[r].placed \in BOOLEAN
    /\ req[r].pc \in {"waiting", "checking"} => ~ req[r].placed
    /\ (req[r].pc \in {"saving", "placing"} \/ req[r].saved) => Op(r).kind # "PROPPATCH"
    /\ req[r].pc = "placing" => Op(r).kind # "DELETE"
    /\ Past(r) /\ Op(r).kind \in Pairs => ~ Overlap(Source(r), Target(r))

Types ==
    /\ IsTree(fs)
    /\ DOMAIN rows \subseteq Plain /\ DOMAIN props \subseteq DOMAIN rows
    /\ rootRow \subseteq Req /\ \A a, b \in rootRow : a = b
    /\ \A r \in rootRow : Working(r) /\ req[r].alive
    /\ issued \in 0..MaxOps /\ serial \in Nat
    /\ \A r \in Req : Sorted(r)

\* An idle handler has nothing set aside or in place.
LEMMA IdleSorted ==
    ASSUME NEW r, req[r] = Idle
    PROVE  Sorted(r)
BY DEF Sorted, Past, Idle, Op, NoOp

\* A run starts from a tree.
LEMMA InitTypes == Init => Types
<1> SUFFICES ASSUME Init PROVE Types
  OBVIOUS
<1>1. /\ DOMAIN fs \subseteq Path /\ Root \in DOMAIN fs /\ fs[Root] = Dir
      /\ \A p \in DOMAIN fs \ {Root} :
            fs[p] \in Content \cup {Dir} /\ Parent(p) \in DOMAIN fs /\ fs[Parent(p)] = Dir
  BY TreeAssumption DEF Init
<1>2. IsTree(fs)
  BY <1>1, PathAssumption DEF IsTree, IsDir
<1>3. DOMAIN rows = DOMAIN fs /\ DOMAIN props = DOMAIN fs \ {Root}
  BY DEF Init
<1>7. \A r \in Req : req[r] = Idle
  BY DEF Init
<1>4. \A r \in Req : Sorted(r)
  BY <1>7, IdleSorted
<1>5. rootRow = {} /\ issued = 0 /\ serial = 0
  BY DEF Init
<1>8. DOMAIN rows \subseteq Plain /\ DOMAIN props \subseteq DOMAIN rows
  BY <1>1, <1>3, TreeAssumption
<1>9. rootRow \subseteq Req /\ \A a, b \in rootRow : a = b
  BY <1>5
<1>10. \A r \in rootRow : Working(r) /\ req[r].alive
  BY <1>5
<1>11. issued \in 0..MaxOps /\ serial \in Nat
  BY <1>5, TreeAssumption
<1>6. QED
  BY <1>2, <1>4, <1>8, <1>9, <1>10, <1>11 DEF Types

\* What COPY makes fits below its destination.
LEMMA CopiedTree ==
    ASSUME IInv, Types, NEW r, Requested(r), Op(r).kind \in {"COPY", "COPY0"}, Placeable(r),
           ~ Overlap(Source(r), Target(r))
    PROVE  IsTree(Inserted(Copied(r), fs))
<1> DEFINE s == Source(r)
           d == Target(r)
           g == Copied(r)
           h == Inserted(g, fs)
           flat == req[r].isDir /\ Op(r).kind = "COPY0"
           listed == {d \o Suffix(q, s) : q \in Entries(rows, s)}
           all == listed \cup {q \in UNION {ParentPaths(k) : k \in listed} : Descendant(d, q) \/ q = d}
           from(k) == s \o Suffix(k, d)
<1> SUFFICES IsTree(h)
  OBVIOUS
<1>1. s \in Seq(Nat) /\ d \in Seq(Nat) /\ d # Root
  BY OpPaths
<1>2. IsDir(fs, Parent(d)) /\ Parent(d) \in Seq(Nat) /\ ~ Within(d, Parent(d)) /\ IsTree(fs)
  BY <1>1, WithinParent, WithinOrder DEF Placeable, Types
<1>3. ASSUME \A k \in DOMAIN g :
                /\ k \in Seq(Nat) /\ Within(d, k) /\ g[k] \in Content \cup {Dir}
                /\ k = d \/ IsDir(g, Parent(k))
                /\ IsDir(fs, k) => g[k] = Dir
      PROVE  IsTree(h)
  <2>1. /\ DOMAIN h = DOMAIN fs \cup DOMAIN g
        /\ \A k \in DOMAIN h : h[k] = IF k \in DOMAIN g THEN g[k] ELSE fs[k]
    BY DEF Inserted
  <2>2. ~ Within(d, Root)
    BY <1>1, RootAbove DEF Within
  <2> HIDE DEF g, h, d
  <2>3. \A k \in DOMAIN g :
           /\ k \in Seq(Nat) /\ k # Root /\ g[k] \in Content \cup {Dir}
           /\ IsDir(g, Parent(k)) \/ (Parent(k) \notin DOMAIN g /\ IsDir(fs, Parent(k)))
           /\ IsDir(fs, k) => g[k] = Dir
    BY <1>2, <1>3, <2>2
  <2>4. QED
    BY <1>2, <2>1, <2>3, AddedTree
<1>4. Within(d, d)
  BY DEF Within
<1>5. CASE ~ req[r].isDir
  <2>1. DOMAIN g = {d} /\ g[d] = fs[s]
    BY <1>5 DEF Copied
  <2>2. /\ s \in DOMAIN fs
        /\ \A k \in DOMAIN g \cap DOMAIN fs : IsDir(fs, k) = IsDir(g, k)
    BY <1>5 DEF Placeable, Pairs
  <2> HIDE DEF g, d, s, h
  <2>3. \A k \in DOMAIN g :
              /\ k \in Seq(Nat) /\ Within(d, k) /\ g[k] \in Content \cup {Dir}
              /\ k = d \/ IsDir(g, Parent(k))
              /\ IsDir(fs, k) => g[k] = Dir
    BY <1>1, <1>2, <1>4, <2>1, <2>2 DEF IsTree, IsDir
  <2>4. QED
    BY <1>3, <2>3
<1>6. CASE flat
  <2>1. DOMAIN g = {d} /\ g[d] = Dir
    BY <1>6 DEF Copied
  <2> HIDE DEF g, d, s, h
  <2>3. \A k \in DOMAIN g :
              /\ k \in Seq(Nat) /\ Within(d, k) /\ g[k] \in Content \cup {Dir}
              /\ k = d \/ IsDir(g, Parent(k))
              /\ IsDir(fs, k) => g[k] = Dir
    BY <1>1, <1>4, <2>1
  <2>4. QED
    BY <1>3, <2>3
<1>7. CASE req[r].isDir /\ ~ flat
  <2>1. DOMAIN g = all /\ \A k \in all : g[k] = IF k \in listed /\ rows[from(k)].data # Dir
                                               THEN fs[from(k)] ELSE Dir
    BY <1>7 DEF Copied
  <2>2. /\ \A q \in Entries(rows, s) : rows[q].data # Dir => q \in DOMAIN fs
        /\ \A k \in DOMAIN g \ {d} : IsDir(g, Parent(k))
        /\ \A k \in DOMAIN g \cap DOMAIN fs : IsDir(fs, k) = IsDir(g, k)
    BY <1>7 DEF Placeable, Pairs
  <2>3. ASSUME NEW k \in listed
        PROVE  k \in Seq(Nat) /\ Within(d, k) /\ from(k) \in Entries(rows, s)
    <3>1. PICK q \in Entries(rows, s) : k = d \o Suffix(q, s)
      OBVIOUS
    <3>2. q \in Taken(r)
      BY <1>7, <3>1 DEF Taken
    <3>3. k \in Seq(Nat) /\ Within(d, k) /\ from(k) = q
      BY <3>1, <3>2, TakenRows DEF IInv
    <3>4. QED
      BY <3>1, <3>3
  <2>4. ASSUME NEW k \in all PROVE k \in Seq(Nat) /\ Within(d, k)
    <3>1. CASE k \in listed
      BY <2>3, <3>1
    <3>2. CASE k \notin listed
      <4>1. PICK l \in listed : k \in ParentPaths(l) /\ (Descendant(d, k) \/ k = d)
        BY <3>2
      <4>2. l \in Seq(Nat)
        BY <2>3
      <4>3. QED
        BY <4>1, <4>2, AncestorsFinite DEF Within
    <3>3. QED
      BY <3>1, <3>2
  <2>5. ASSUME NEW k \in all PROVE g[k] \in Content \cup {Dir}
    BY <1>2, <2>1, <2>2, <2>3 DEF IsTree
  <2> HIDE DEF g, d, s, h, all
  <2>6. \A k \in DOMAIN g :
              /\ k \in Seq(Nat) /\ Within(d, k) /\ g[k] \in Content \cup {Dir}
              /\ k = d \/ IsDir(g, Parent(k))
              /\ IsDir(fs, k) => g[k] = Dir
    BY <2>1, <2>2, <2>4, <2>5 DEF IsDir
  <2>7. QED
    BY <1>3, <2>6
<1>8. QED
  BY <1>5, <1>6, <1>7

\* What is known of a request past its checks.
LEMMA PastOp ==
    ASSUME IInv, Types, NEW r \in Req, Past(r)
    PROVE  /\ Requested(r) /\ Op(r).kind \in Kinds /\ Sorted(r)
           /\ Source(r) \in Seq(Nat) /\ Target(r) \in Seq(Nat)
           /\ Op(r).kind # "PROPPATCH" => Source(r) # Root /\ Target(r) # Root
           /\ Op(r).kind \notin Pairs => Source(r) = Target(r)
           /\ Op(r).kind \in Pairs => /\ ~ Within(Source(r), Target(r))
                                      /\ ~ Within(Target(r), Source(r))
<1>1. Requested(r) /\ Sorted(r)
  BY DEF IInv, Types, Good, Typed, Past
<1>2. /\ Source(r) \in Seq(Nat) /\ Target(r) \in Seq(Nat) /\ Op(r).kind \in Kinds
      /\ Op(r).kind # "PROPPATCH" => Source(r) # Root /\ Target(r) # Root
      /\ Op(r).kind \notin Pairs => Source(r) = Target(r)
  BY <1>1, OpPaths
<1>3. Op(r).kind \in Pairs => ~ Overlap(Source(r), Target(r))
  BY <1>1 DEF Sorted
<1>4. QED
  BY <1>1, <1>2, <1>3, WithinOrder

\* The temporary file of an upload lies in an existing collection.
LEMMA BeginTree ==
    ASSUME IInv, Types, NEW r \in Req, NEW o \in Ops, Begin(r, o)
    PROVE  IsTree(fs')
<1>1. CASE o.kind = "PUT"
  <2> DEFINE n == issued + 1
             p == TmpName(o.path, n)
  <2>6. issued' = n /\ issued < MaxOps /\ issued \in 0..MaxOps
    BY DEF Begin, Types
  <2>7. fs' = Inserted(fs, [k \in {TmpName(o.path, issued')} |-> issued']) /\ IsDir(fs, Parent(o.path))
    BY <1>1 DEF Begin
  <2>8. n \in 1..MaxOps
    BY <2>6, TreeAssumption
  <2>1. fs' = Inserted(fs, [k \in {p} |-> n]) /\ IsDir(fs, Parent(o.path)) /\ n \in 1..MaxOps
    BY <2>6, <2>7, <2>8
  <2>2. o.path \in Seq(Nat) /\ o.path # Root
    BY <1>1, TreeAssumption, PathAssumption DEF ValidOp
  <2>3. p \in Seq(Nat) /\ p # Root /\ Parent(p) = Parent(o.path)
    <3> DEFINE t == 20 * n + 10
    <3>1. t \in Nat
      BY <2>1
    <3>2. p = Beside(o.path, t)
      BY DEF TmpName
    <3> HIDE DEF t, p
    <3>3. QED
      BY <2>2, <3>1, <3>2, BesideNames
  <2>4. n \in Content
    BY <2>1, TreeAssumption
  <2> HIDE DEF n, p
  <2>5. QED
    BY <2>1, <2>3, <2>4, InsertedTree DEF Types
<1>2. CASE o.kind # "PUT"
  BY <1>2 DEF Begin, Types
<1>3. QED
  BY <1>1, <1>2

\* A backup is a rename within one collection.
LEMMA SaveTree ==
    ASSUME IInv, Types, NEW r \in Req, Save(r)
    PROVE  IsTree(fs')
<1>1. /\ req[r].pc = "saving" /\ CanRename(fs, Target(r), Backup(r))
      /\ fs' = Moved(fs, Target(r), Backup(r))
  BY DEF Save, CanSave
<1>2. Requested(r) /\ Target(r) \in Seq(Nat) /\ Target(r) # Root /\ Op(r).kind # "PROPPATCH"
  BY <1>1, PastOp DEF Past, Sorted
<1>3. Backup(r) \in Seq(Nat) /\ Backup(r) # Root /\ ~ Within(Target(r), Backup(r))
  BY <1>2, OwnNames
<1>4. QED
  BY <1>1, <1>2, <1>3, MovedTree DEF Types

\* What is put in place has its collection.
LEMMA PlaceTree ==
    ASSUME IInv, Types, NEW r \in Req, Place(r)
    PROVE  IsTree(fs')
<1> DEFINE s == Source(r)
           d == Target(r)
           t == Tmp(r)
<1>1. req[r].pc = "placing" /\ Placeable(r) /\ Past(r)
  BY DEF Place, CanPlace, Past
<1>2. /\ Requested(r) /\ Op(r).kind \in Kinds \ {"PROPPATCH", "DELETE"}
      /\ s \in Seq(Nat) /\ d \in Seq(Nat) /\ s # Root /\ d # Root
      /\ Op(r).kind \in Pairs => ~ Overlap(s, d) /\ ~ Within(s, d)
  BY <1>1, PastOp DEF Sorted
<1>3. t \in Seq(Nat) /\ t # Root /\ ~ Within(t, s)
  BY <1>2, OwnNames
<1>4. CASE Op(r).kind = "PUT"
  <2>1. CanRename(fs, t, s) /\ fs' = Moved(fs, t, s)
    BY <1>1, <1>4 DEF Placeable, Place
  <2> HIDE DEF t, s
  <2>2. QED
    BY <1>2, <1>3, <2>1, MovedTree DEF Types
<1>5. CASE Op(r).kind = "MKCOL"
  <2>1. fs' = Inserted(fs, [k \in {s} |-> Dir]) /\ IsDir(fs, Parent(s))
    BY <1>1, <1>5 DEF Placeable, Place
  <2> HIDE DEF s
  <2>2. QED
    BY <1>2, <2>1, InsertedTree DEF Types
<1>6. CASE Op(r).kind = "MOVE"
  <2>1. CanRename(fs, s, d) /\ fs' = Moved(fs, s, d)
    BY <1>1, <1>6 DEF Placeable, Place
  <2> HIDE DEF s, d
  <2>2. QED
    BY <1>2, <1>6, <2>1, MovedTree DEF Types, Pairs
<1>7. CASE Op(r).kind \in {"COPY", "COPY0"}
  <2>1. fs' = Inserted(Copied(r), fs)
    BY <1>7 DEF Place
  <2>2. QED
    BY <1>1, <1>2, <1>7, <2>1, CopiedTree DEF Pairs
<1>8. QED
  BY <1>2, <1>4, <1>5, <1>6, <1>7 DEF Kinds

\* Undoing and cleaning only delete and rename back.
LEMMA EndTree ==
    ASSUME IInv, Types, NEW r \in Req, Refuse(r) \/ Clean(r) \/ Undo(r)
    PROVE  IsTree(fs')
<1> DEFINE s == Source(r)
           d == Target(r)
           b == Backup(r)
           t == Tmp(r)
<1>1. req[r].pc # "idle"
  BY DEF Refuse, Clean, Undo
<1>2. Requested(r) /\ Sorted(r) /\ IsTree(fs)
  BY <1>1 DEF IInv, Types, Good, Typed
<1>3. /\ s \in Seq(Nat) /\ d \in Seq(Nat) /\ Op(r).kind \in Kinds
      /\ Op(r).kind # "PROPPATCH" => s # Root /\ d # Root
  BY <1>2, OpPaths
<1>4. Op(r).kind # "PROPPATCH" =>
         b \in Seq(Nat) /\ b # Root /\ ~ Within(b, d) /\ t \in Seq(Nat) /\ t # Root
  BY <1>2, OwnNames
<1>5. CASE Refuse(r)
  <2>1. fs' = fs \/ (Op(r).kind = "PUT" /\ fs' = Removed(fs, t))
    BY <1>5 DEF Refuse, WithoutTmp
  <2> HIDE DEF t
  <2>2. QED
    BY <1>2, <1>4, <2>1, RemovedTree
<1>6. CASE Clean(r)
  <2>1. fs' = IF req[r].saved THEN Removed(fs, b) ELSE fs
    BY <1>6 DEF Clean
  <2>2. req[r].saved => Op(r).kind # "PROPPATCH"
    BY <1>2 DEF Sorted
  <2> HIDE DEF b
  <2>3. QED
    BY <1>2, <1>4, <2>1, <2>2, RemovedTree
<1>7. CASE Undo(r) /\ Op(r).kind # "PROPPATCH"
  <2>1. s # Root /\ d # Root /\ b \in Seq(Nat) /\ b # Root /\ ~ Within(b, d)
        /\ t \in Seq(Nat) /\ t # Root
    BY <1>3, <1>4, <1>7
  <2>2. req[r].pc = "undoing" /\ Past(r)
    BY <1>7 DEF Undo, Past
  <2>3. Op(r).kind \in Pairs => ~ Within(d, s)
    BY <2>2, PastOp
  <2> DEFINE emptied == IF req[r].placed /\ Entries(fs, d) = {d} THEN Removed(fs, d) ELSE fs
             movedBack == IF req[r].placed THEN Renamed(fs, d, s) ELSE fs
             put == IF req[r].saved THEN Renamed(emptied, b, d) ELSE emptied
             back(f) == Renamed(Removed(f, d), b, d)
  <2>4. fs' = CASE Op(r).kind = "PUT" -> Removed(put, t)
                [] Op(r).kind \in {"MKCOL", "PROPPATCH"} -> fs
                [] Op(r).kind = "DELETE" -> IF req[r].saved THEN back(fs) ELSE fs
                [] Op(r).kind = "MOVE" -> IF req[r].saved THEN back(movedBack) ELSE movedBack
                [] OTHER -> IF req[r].saved THEN back(fs) ELSE Removed(fs, d)
    BY <1>7 DEF Undo, Restored
  <2> HIDE DEF s, d, b, t
  <2>5. ASSUME NEW f, IsTree(f) PROVE IsTree(Removed(f, d)) /\ IsTree(Removed(f, t)) /\ IsTree(back(f))
    <3>1. IsTree(Removed(f, d)) /\ IsTree(Removed(f, t))
      BY <1>3, <2>1, <2>5, RemovedTree
    <3> DEFINE g == Removed(f, d)
    <3>2. IsTree(g)
      BY <3>1
    <3> HIDE DEF g
    <3>3. IsTree(Renamed(g, b, d))
      BY <1>3, <2>1, <3>2, RenamedTree
    <3>4. QED
      BY <3>1, <3>3 DEF g
  <2>6. IsTree(emptied) /\ IsTree(put)
    <3>1. IsTree(emptied)
      BY <1>2, <2>5
    <3> HIDE DEF emptied
    <3>2. QED
      BY <1>3, <2>1, <3>1, RenamedTree
  <2>7. Op(r).kind \in Pairs => IsTree(movedBack)
    BY <1>2, <1>3, <2>1, <2>3, RenamedTree
  <2>8. IsTree(fs)
    BY <1>2
  <2> HIDE DEF put, movedBack, back
  <2>9. QED
    BY <1>3, <1>7, <2>4, <2>5, <2>6, <2>7, <2>8 DEF Kinds, Pairs
<1>8. CASE Undo(r) /\ Op(r).kind = "PROPPATCH"
  <2>1. fs' = fs
    BY <1>8 DEF Undo
  <2>2. QED
    BY <1>2, <2>1
<1>9. QED
  BY <1>5, <1>6, <1>7, <1>8

\* No step leaves an entry without its collection.
LEMMA DiskStaysTree ==
    ASSUME IInv, Types, [Next]_vars
    PROVE  IsTree(fs')
<1>1. CASE fs' = fs
  BY <1>1 DEF Types
<1>2. CASE fs' # fs
  <2>1. \E r \in Req : \/ \E o \in Ops : Begin(r, o)
                       \/ Refuse(r) \/ Clean(r) \/ Undo(r) \/ Save(r) \/ Place(r)
    BY <1>2 DEF Next, Step, Done, vars, Enter, Check, Commit, Fail, LoseReply, LoseSession, Crash
  <2>2. QED
    BY <2>1, BeginTree, EndTree, SaveTree, PlaceTree
<1>3. QED
  BY <1>1, <1>2

\* The names the rows of a transaction have are plain ones, and what has a property has a row.
LEMMA ApplyTypes ==
    ASSUME IInv, Types, NEW r \in Req, Apply(r)
    PROVE  DOMAIN rows' \subseteq Plain /\ DOMAIN props' \subseteq DOMAIN rows'
<1> DEFINE s == Source(r)
           d == Target(r)
           R == Cleared(r)
           E == Taken(r)
           P == Surviving(R)
           moved == {d \o Suffix(q, s) : q \in E \cap DOMAIN R}
           carried == {d \o Suffix(q, s) : q \in E \cap DOMAIN P}
           copies == {d \o Suffix(q, s) : q \in E}
           copied == {d \o Suffix(q, s) : q \in E \cap DOMAIN props}
<1>1. /\ req[r].pc = "committing" /\ Past(r) /\ RowsThere(r)
      /\ rows' = NewRows(r) /\ props' \in NewProps(r)
  BY DEF Apply, Past
<1>2. /\ Requested(r) /\ Op(r).kind \in Kinds /\ RowsTyped(rows)
      /\ DOMAIN rows \subseteq Plain /\ DOMAIN props \subseteq DOMAIN rows
  BY <1>1, PastOp DEF IInv, Types
<1>3. s \in Plain /\ d \in Plain
  BY <1>2, TreeAssumption DEF Requested, ValidOp, Source, Target
<1>4. DOMAIN R \subseteq DOMAIN rows /\ DOMAIN P = DOMAIN props \cap DOMAIN R
  BY <1>2, ClearedListed DEF Surviving
<1>5. E \subseteq Plain /\ \A q \in E : Within(s, q)
  BY <1>2, <1>3, EntriesAt DEF Taken, Within
<1>6. copies \subseteq Plain
  <2> HIDE DEF s, d, E
  <2>1. QED
    BY <1>3, <1>5, PlainPaths
<1>7. CASE Op(r).kind = "PUT"
  <2>1. rows' = PutRows(r) /\ NewProps(r) = {Surviving(NewRows(r))}
    BY <1>1, <1>7 DEF NewRows, NewProps
  <2>2. DOMAIN PutRows(r) \subseteq DOMAIN rows \cup {s}
    BY <1>2, PutListed DEF SameListed
  <2>3. QED
    BY <1>1, <1>2, <1>3, <2>1, <2>2 DEF Surviving
<1>8. CASE Op(r).kind = "MKCOL"
  <2>1. rows' = MkcolRows(r) /\ NewProps(r) = {Surviving(NewRows(r))}
    BY <1>1, <1>8 DEF NewRows, NewProps
  <2>2. DOMAIN MkcolRows(r) = DOMAIN rows \cup ParentPaths(s) \cup {s}
    BY <1>2, MkcolListed
  <2>3. QED
    BY <1>1, <1>2, <1>3, <2>1, <2>2, PlainPaths DEF Surviving
<1>9. CASE Op(r).kind = "DELETE"
  <2>1. rows' = DeleteRows(r) /\ NewProps(r) = {Surviving(NewRows(r))}
    BY <1>1, <1>9 DEF NewRows, NewProps
  <2>2. DOMAIN DeleteRows(r) \subseteq DOMAIN rows
    BY <1>2, DeleteListed
  <2>3. QED
    BY <1>1, <1>2, <2>1, <2>2 DEF Surviving
<1>10. CASE Op(r).kind = "PROPPATCH"
  <2>1. rows' = rows /\ props' \in Patched(r)
    BY <1>1, <1>10 DEF NewRows, NewProps
  <2>2. DOMAIN props' \subseteq DOMAIN props \cup (DOMAIN rows \cap {s})
    BY <2>1 DEF Patched
  <2>3. QED
    BY <1>2, <2>1, <2>2
<1>11. CASE Op(r).kind = "MOVE"
  <2>1. rows' = MoveRows(r) /\ props' = Carried(P, E, s, d)
    BY <1>1, <1>11 DEF NewRows, NewProps
  <2>2. DOMAIN rows' = (DOMAIN R \ E) \cup moved
    BY <1>2, <2>1, MoveListed
  <2>3. DOMAIN Carried(P, E, s, d) = (DOMAIN P \ E) \cup carried
    BY DEF Carried
  <2>4. carried \subseteq moved /\ moved \subseteq copies
    BY <1>4
  <2> HIDE DEF carried, moved, copies, E, P, R, s, d
  <2>5. QED
    BY <1>2, <1>4, <1>6, <2>1, <2>2, <2>3, <2>4
<1>12. CASE Op(r).kind \in {"COPY", "COPY0"}
  <2>1. rows' = CopyRows(r)
    BY <1>1, <1>12 DEF NewRows
  <2>2. props' = Inserted(P, [k \in copied |-> props[s \o Suffix(k, d)]])
    BY <1>1, <1>12 DEF NewProps
  <2>3. DOMAIN props' = DOMAIN P \cup copied
    BY <2>2 DEF Inserted
  <2>4. copies = {d \o Suffix(q, s) : q \in IF req[r].isDir /\ Op(r).kind = "COPY0" THEN {s}
                                           ELSE IF req[r].isDir THEN Entries(rows, s) ELSE {s}}
    BY <1>12 DEF Taken
  <2>5. DOMAIN rows' = DOMAIN R \cup copies
    BY <1>2, <1>12, <2>1, <2>4, CopyListed
  <2>6. copied \subseteq copies
    OBVIOUS
  <2> HIDE DEF copied, copies, E, P, R, s, d
  <2>7. QED
    BY <1>2, <1>4, <1>6, <2>3, <2>5, <2>6
<1>13. QED
  BY <1>2, <1>7, <1>8, <1>9, <1>10, <1>11, <1>12 DEF Kinds

\* Rows and properties change when a transaction commits, and only then.
LEMMA RowsChange ==
    ASSUME [Next]_vars
    PROVE  \/ rows' = rows /\ props' = props /\ serial' = serial
           \/ \E r \in Req : Apply(r) /\ (Commit(r) \/ LoseReply(r))
BY ZenonT(60) DEF Next, Step, Done, vars, Begin, Enter, Check, Refuse, Save, Place, Commit, Clean, Fail,
       LoseReply, Undo, LoseSession, Crash

\* Every step leaves a request sorted.
LEMMA StaysSorted ==
    ASSUME IInv, Types, [Next]_vars
    PROVE  \A r \in Req : Sorted(r)'
<1> SUFFICES ASSUME NEW r \in Req PROVE Sorted(r)'
  OBVIOUS
<1>1. Sorted(r) /\ Typed(r)
  BY DEF Types, IInv, Good
<1>2. CASE req'[r] = req[r]
  BY <1>1, <1>2 DEF Sorted, Past, Op, Source, Target
<1>3. ASSUME NEW q \in Req, Others(q), req'[r] # req[r] PROVE q = r
  BY <1>3 DEF Others
<1>4. ASSUME NEW o \in Ops, Begin(r, o) PROVE Sorted(r)'
  BY <1>4, BeginFields DEF Sorted, Past
<1>5. ASSUME Refuse(r) \/ Clean(r) \/ Undo(r) PROVE Sorted(r)'
  BY <1>5, EndFields DEF Sorted, Past
<1>6. ASSUME Kept(r) PROVE Op(r)' = Op(r) /\ Source(r)' = Source(r) /\ Target(r)' = Target(r)
  BY <1>6 DEF Kept, Op, Source, Target
<1>7. ASSUME Enter(r) PROVE Sorted(r)'
  BY <1>1, <1>6, <1>7, StepFields DEF Sorted, Past, Marks, Enter, Typed
<1>8. ASSUME Check(r) PROVE Sorted(r)'
  <2>1. /\ Kept(r) /\ req'[r].saved = req[r].saved /\ req'[r].placed = req[r].placed
        /\ req'[r].pc = IF Op(r).kind = "PROPPATCH" THEN "committing"
                        ELSE IF Exists(r) THEN "saving" ELSE "placing"
        /\ req[r].pc = "checking" /\ Acceptable(r)
    BY <1>8, StepFields DEF Check
  <2>2. Requested(r) /\ ~ req[r].saved /\ ~ req[r].placed
    BY <1>1, <2>1 DEF Typed, Sorted
  <2>3. Op(r).kind = "DELETE" => req'[r].pc # "placing"
    BY <2>1 DEF Acceptable, Pairs
  <2>4. ASSUME Op(r).kind \in Pairs PROVE ~ Overlap(Source(r), Target(r))
    <3>5. Source(r) \in DOMAIN fs /\ ~ (Exists(r) /\ Descendant(Target(r), Source(r)))
      BY <2>1, <2>4 DEF Acceptable, Pairs
    <3>6. Source(r) # Target(r) /\ ~ Descendant(Source(r), Target(r))
      BY <2>2, <2>4, TreeAssumption DEF Requested, ValidOp, Source, Target
    <3>1. /\ Source(r) \in DOMAIN fs /\ Source(r) # Target(r) /\ ~ Descendant(Source(r), Target(r))
          /\ ~ (Exists(r) /\ Descendant(Target(r), Source(r)))
      BY <3>5, <3>6
    <3>2. Target(r) \in Seq(Nat)
      BY <2>2, OpPaths
    <3>3. ~ Exists(r) => ~ Descendant(Target(r), Source(r))
      BY <3>1, <3>2, NothingBelow DEF Exists, Types, IsDir
    <3>4. QED
      BY <3>1, <3>3 DEF Overlap
  <2>5. QED
    BY <1>1, <1>6, <2>1, <2>2, <2>3, <2>4 DEF Sorted
<1>9. ASSUME Save(r) PROVE Sorted(r)'
  <2>1. /\ Kept(r) /\ req'[r].placed = req[r].placed
        /\ req'[r].pc = IF Op(r).kind = "DELETE" THEN "committing" ELSE "placing"
        /\ req[r].pc = "saving" /\ Past(r)
    BY <1>9, StepFields DEF Save, Past
  <2>2. Op(r).kind # "PROPPATCH" /\ (Op(r).kind \in Pairs => ~ Overlap(Source(r), Target(r)))
    BY <1>1, <2>1 DEF Sorted
  <2>3. req'[r].pc \notin {"waiting", "checking"} /\ (req'[r].pc = "placing" => Op(r).kind # "DELETE")
    BY <2>1
  <2>4. QED
    BY <1>1, <1>6, <2>1, <2>2, <2>3 DEF Sorted
<1>10. ASSUME Place(r) PROVE Sorted(r)'
  BY <1>1, <1>6, <1>10, StepFields DEF Sorted, Past, Place
<1>11. ASSUME Commit(r) \/ Fail(r) \/ LoseReply(r) PROVE Sorted(r)'
  <2>1. Past(r)
    BY <1>11 DEF Commit, Fail, LoseReply, Apply, Past, Fails, Breaks
  <2>2. Kept(r) /\ req'[r].saved = req[r].saved /\ req'[r].placed = req[r].placed
        /\ req'[r].pc \in {"cleaning", "undoing"}
    BY <1>11, StepFields DEF Marks
  <2>3. QED
    BY <1>1, <1>6, <2>1, <2>2 DEF Sorted
<1>12. ASSUME LoseSession(r) PROVE Sorted(r)'
  BY <1>1, <1>6, <1>12, StepFields DEF Sorted, Past
<1>13. CASE Crash
  BY <1>13, IdleTyped DEF Crash, Sorted, Past, Idle
<1>14. CASE UNCHANGED vars
  BY <1>2, <1>14 DEF vars
<1>15. ASSUME NEW q \in Req,
              \/ \E o \in Ops : Begin(q, o)
              \/ Enter(q) \/ Check(q) \/ Refuse(q) \/ Save(q) \/ Place(q) \/ Commit(q) \/ Clean(q)
              \/ Fail(q) \/ LoseReply(q) \/ Undo(q) \/ LoseSession(q)
       PROVE  Sorted(r)'
  <2>1. Others(q)
    BY <1>15, BeginFields, EndFields, StepFields
  <2>2. CASE q = r
    BY <1>4, <1>5, <1>7, <1>8, <1>9, <1>10, <1>11, <1>12, <1>15, <2>2
  <2>3. QED
    BY <1>2, <1>3, <2>1, <2>2
<1>16. QED
  BY <1>13, <1>14, <1>15 DEF Next, Step, Done

\* Who holds the root row works and has its session; there is at most one.
LEMMA RootRowKept ==
    ASSUME IInv, Types, [Next]_vars
    PROVE  /\ rootRow' \subseteq Req /\ \A a, b \in rootRow' : a = b
           /\ \A r \in rootRow' : Working(r)' /\ req'[r].alive
<1> USE DEF Types
<1>1. ASSUME NEW r \in Req, rootRow' \subseteq rootRow \ {r}, Others(r)
      PROVE  /\ rootRow' \subseteq Req /\ \A a, b \in rootRow' : a = b
             /\ \A q \in rootRow' : Working(q)' /\ req'[q].alive
  BY <1>1 DEF Others, Working
<1>2. ASSUME NEW r \in Req, rootRow' \subseteq rootRow, Others(r),
             r \in rootRow => Working(r)' /\ req'[r].alive
      PROVE  /\ rootRow' \subseteq Req /\ \A a, b \in rootRow' : a = b
             /\ \A q \in rootRow' : Working(q)' /\ req'[q].alive
  BY <1>2 DEF Others, Working
<1>3. ASSUME NEW r \in Req, NEW o \in Ops, Begin(r, o)
      PROVE  Others(r) /\ rootRow' \subseteq rootRow \ {r}
  <2>1. r \notin rootRow /\ rootRow' = rootRow
    BY <1>3 DEF Begin, Working
  <2>2. QED
    BY <1>3, <2>1, BeginFields
<1>4. ASSUME NEW r \in Req, Refuse(r) \/ Clean(r) \/ Undo(r)
      PROVE  Others(r) /\ rootRow' \subseteq rootRow \ {r}
  BY <1>4, EndFields DEF Refuse, Clean, Undo, Finish
<1>5. ASSUME NEW r \in Req, Commit(r) \/ LoseReply(r) \/ LoseSession(r)
      PROVE  Others(r) /\ rootRow' \subseteq rootRow \ {r}
  <2>1. rootRow' = rootRow \ {r}
    BY <1>5 DEF Commit, LoseReply, LoseSession, Apply
  <2>2. Others(r)
    BY <1>5, StepFields
  <2>3. QED
    BY <2>1, <2>2
<1>6. ASSUME NEW r \in Req, Enter(r) \/ Save(r) \/ Place(r) \/ Fail(r)
      PROVE  /\ Others(r) /\ rootRow' = rootRow
             /\ r \in rootRow => Working(r)' /\ req'[r].alive
  <2>1. rootRow' = rootRow
    BY <1>6 DEF Enter, Save, Place, Fail
  <2>2. /\ Others(r) /\ req'[r].alive = req[r].alive
        /\ req'[r].pc \in {"checking", "placing", "committing", "undoing"}
    <3>1. Enter(r) => Others(r) /\ req'[r].alive = req[r].alive /\ req'[r].pc = "checking"
      BY StepFields DEF Marks
    <3>2. Save(r) => /\ Others(r) /\ req'[r].alive = req[r].alive
                     /\ req'[r].pc \in {"placing", "committing"}
      BY StepFields
    <3>3. Place(r) => Others(r) /\ req'[r].alive = req[r].alive /\ req'[r].pc = "committing"
      BY StepFields
    <3>4. Fail(r) => Others(r) /\ req'[r].alive = req[r].alive /\ req'[r].pc = "undoing"
      BY StepFields DEF Marks
    <3>5. QED
      BY <1>6, <3>1, <3>2, <3>3, <3>4
  <2>3. QED
    BY <2>1, <2>2 DEF Working
<1>7. ASSUME NEW r \in Req, Check(r)
      PROVE  /\ rootRow' \subseteq Req /\ \A a, b \in rootRow' : a = b
             /\ \A q \in rootRow' : Working(q)' /\ req'[q].alive
  <2>1. /\ Others(r) /\ req'[r].alive = req[r].alive
        /\ req'[r].pc \in {"saving", "placing", "committing"}
    BY <1>7, StepFields
  <2>2. req[r].alive /\ (rootRow' = rootRow \/ rootRow' = {r})
    BY <1>7 DEF Check
  <2>3. Working(r)' /\ req'[r].alive
    BY <2>1, <2>2 DEF Working
  <2>4. CASE rootRow' = rootRow
    BY <1>2, <2>1, <2>3, <2>4
  <2>5. CASE rootRow' = {r}
    BY <2>3, <2>5
  <2>6. QED
    BY <2>2, <2>4, <2>5
<1>8. CASE Crash
  BY <1>8 DEF Crash
<1>9. CASE UNCHANGED vars
  BY <1>9 DEF vars, Working
<1>10. QED
  BY <1>1, <1>2, <1>3, <1>4, <1>5, <1>6, <1>7, <1>8, <1>9 DEF Next, Step, Done

\* Every step leaves the variables well-typed.
LEMMA NextKeepsTypes ==
    ASSUME IInv, Types, [Next]_vars
    PROVE  Types'
<1>1. IsTree(fs')
  BY DiskStaysTree
<1>2. DOMAIN rows' \subseteq Plain /\ DOMAIN props' \subseteq DOMAIN rows' /\ serial' \in Nat
  <2>1. CASE rows' = rows /\ props' = props /\ serial' = serial
    BY <2>1 DEF Types
  <2>2. CASE \E r \in Req : Apply(r)
    <3>1. serial' = serial + 1
      BY <2>2 DEF Apply
    <3>2. QED
      BY <2>2, <3>1, ApplyTypes DEF Types
  <2>3. QED
    BY <2>1, <2>2, RowsChange
<1>3. issued' \in 0..MaxOps
  <2>1. issued' = issued \/ (issued' = issued + 1 /\ issued < MaxOps)
    BY ZenonT(60) DEF Next, Step, Done, vars, Begin, Enter, Check, Refuse, Save, Place, Commit, Clean, Fail,
           LoseReply, Undo, LoseSession, Crash
  <2>2. issued \in 0..MaxOps /\ MaxOps \in Nat
    BY TreeAssumption DEF Types
  <2>3. QED
    BY <2>1, <2>2
<1>4. IsTree(fs)'
  BY <1>1 DEF IsTree, IsDir
<1>5. QED
  BY <1>2, <1>3, <1>4, RootRowKept, StaysSorted DEF Types

\* One transaction at a time holds the root row.
LEMMA AtMostOne ==
    ASSUME NEW S, \A a, b \in S : a = b
    PROVE  Cardinality(S) <= 1
<1>1. CASE S = {}
  BY <1>1, FS_EmptySet
<1>2. CASE S # {}
  <2>1. PICK a \in S : S = {a}
    BY <1>2
  <2>2. QED
    BY <2>1, FS_Singleton
<1>3. QED
  BY <1>1, <1>2

\* The variables are well-typed in every reachable state.
LEMMA TypesHold == Spec => []Types
<1>1. IInv /\ Types /\ [Next]_vars => Types'
  BY NextKeepsTypes
<1>2. Init => Types
  BY InitTypes
<1>3. QED
  BY Invariant, <1>1, <1>2, PTL DEF Spec

\* That is what the type invariant says.
LEMMA TypesSay ==
    ASSUME IInv, Types
    PROVE  TypeOK
<1>1. Cardinality(rootRow) <= 1
  BY AtMostOne DEF Types
<1>2. \A p \in DOMAIN rows : /\ p \in Plain
        /\ rows[p].data \in Content \cup {Dir}
        /\ rows[p].ver \in Nat /\ rows[p].size \in Int
  BY DEF Types, IInv, RowsTyped, IsRow
<1>3. /\ IsDir(fs, Root) /\ DOMAIN fs \subseteq Seq(Nat)
      /\ \A p \in DOMAIN fs : fs[p] \in Content \cup {Dir}
      /\ \A p \in DOMAIN fs \ {Root} : IsDir(fs, Parent(p))
  BY DEF Types, IsTree, IsDir
<1>4. QED
  BY <1>1, <1>2, <1>3 DEF TypeOK, Types, IInv

\* The disk is a tree in every state the handlers leave it in, whatever fails or crashes: every
\* entry, backups and temporary files included, lies in a directory (os.MkdirAll, os.Rename and
\* os.RemoveAll never leave one hanging), a property has its row, and one transaction at most
\* holds the root row.
THEOREM TypeCorrect == Spec => []TypeOK
<1>1. IInv /\ Types => TypeOK
  BY TypesSay
<1>2. QED
  BY Invariant, TypesHold, <1>1, PTL

-----------------------------------------------------------------------------
(* Where the content of every row is while requests work, as long as       *)
(* sessions are kept.                                                      *)

At(k, v) == k \in DOMAIN fs /\ fs[k] = v

\* r has to do with p; what it replaces has been set aside; what it moves has been moved.
Concerns(r, p) == Within(Source(r), p) \/ Within(Target(r), p)
Aside(r) == req[r].saved /\ req[r].pc \in {"placing", "committing", "undoing"}
MovedOver(r) == Op(r).kind = "MOVE" /\ req[r].placed /\ req[r].pc \in {"committing", "undoing"}

\* Where r keeps what belongs at p.
Spot(r, p) ==
    IF Aside(r) /\ Within(Target(r), p) THEN Backup(r) \o Suffix(p, Target(r))
    ELSE IF MovedOver(r) /\ Within(Source(r), p) THEN Target(r) \o Suffix(p, Source(r))
    ELSE p

\* The content of every row is there: at its path, or where the request at work keeps it.
Backed ==
    \A p \in DOMAIN rows :
       /\ \A r \in Req : Working(r) /\ Concerns(r, p) => At(Spot(r, p), rows[p].data)
       /\ (\A r \in Req : ~ (Working(r) /\ Concerns(r, p))) => At(p, rows[p].data)

\* What r has put in place is what its statements list.
Made(r) ==
    /\ Op(r).kind = "PUT" => At(Target(r), Body(r))
    /\ Op(r).kind = "MKCOL" => At(Target(r), Dir)
    /\ Op(r).kind = "MOVE" => Target(r) \in DOMAIN fs /\ Source(r) \notin DOMAIN fs
    /\ Op(r).kind \in {"COPY", "COPY0"} =>
          IF Op(r).kind = "COPY0" /\ req[r].isDir THEN At(Target(r), Dir)
          ELSE \A q \in Taken(r) \cap DOMAIN rows : At(Target(r) \o Suffix(q, Source(r)), rows[q].data)

\* The disk fits r's progress; the rows it will not change are not in its way.
DiskFits(r) ==
    /\ IsDir(fs, Parent(Source(r))) /\ IsDir(fs, Parent(Target(r)))
    /\ req[r].pc \in {"saving", "placing"} => ~ req[r].placed
    /\ req[r].pc = "committing" => IF Op(r).kind = "DELETE" THEN req[r].saved /\ ~ req[r].placed
                                   ELSE req[r].placed
    /\ req[r].pc \in {"committing", "undoing"} /\ req[r].placed => Made(r)
    /\ req[r].pc \in {"placing", "committing", "undoing"} /\ ~ req[r].placed => Target(r) \notin DOMAIN fs
    /\ Aside(r) => Backup(r) \in DOMAIN fs
RowsFit(r) ==
    /\ req[r].pc \in {"placing", "committing", "undoing"} /\ ~ req[r].saved =>
          \A p \in DOMAIN rows : ~ Within(Target(r), p)
    /\ req[r].pc # "cleaning" /\ ~ req[r].isDir => \A p \in DOMAIN rows : ~ Descendant(Source(r), p)
    /\ Op(r).kind = "PUT" => ~ req[r].isDir
    /\ Op(r).kind = "MKCOL" => ~ req[r].saved /\ req[r].pc # "saving"
Fit(r) == Past(r) /\ Op(r).kind # "PROPPATCH" => DiskFits(r) /\ RowsFit(r)

\* Requests at work have different numbers, and a temporary file holds the content its name says.
Numbers ==
    /\ \A r \in Req : req[r].pc # "idle" => req[r].num <= issued
    /\ \A r \in Req : \A q \in Req \ {r} :
          req[r].pc # "idle" /\ req[q].pc # "idle" => req[r].num # req[q].num
TmpTrue ==
    \A k \in DOMAIN fs : \A n \in 1..MaxOps :
        k # Root /\ k[Len(k)] \in 20 * n + 10 .. 20 * n + 19 => fs[k] = n

Safe ==
    /\ \A r \in Req : req[r].alive
    /\ Numbers /\ TmpTrue
    /\ Backed /\ \A r \in Req : Fit(r)
Stopped ==
    /\ \A r \in Req : req[r].pc = "idle"
    /\ \A p \in DOMAIN rows : rows[p].data # Dir => \E k \in DOMAIN fs : fs[k] = rows[p].data
SInv == SessionsKept => IF crashed THEN Stopped ELSE Safe

-----------------------------------------------------------------------------
(* The names of backups and temporary files.                               *)

\* A name beside a plain one, far enough from it, is no plain name; nothing plain is below it.
LEMMA OddName ==
    ASSUME NEW p \in Plain, p # Root, NEW t \in Nat, t >= 10
    PROVE  LET b == Beside(p, t)
           IN /\ b \in Seq(Nat) /\ b # Root /\ Len(b) = Len(p) /\ Parent(b) = Parent(p)
              /\ Len(p) \in Nat \ {0} /\ p[Len(p)] \in 0..9 /\ b[Len(p)] = t + p[Len(p)]
              /\ \A i \in 1..Len(p) - 1 : b[i] \in 0..9
              /\ \A k \in Plain : ~ Within(b, k) /\ (Within(k, b) => Within(k, Parent(p)))
<1> DEFINE b == Beside(p, t)
<1>1. p \in Seq(Nat)
  BY PlainPaths
<1>2. /\ b \in Seq(Nat) /\ b # Root /\ Len(b) = Len(p) /\ Parent(b) = Parent(p)
      /\ b[Len(p)] = t + p[Len(p)]
      /\ \A i \in 1..Len(p) - 1 : b[i] = p[i]
  BY <1>1, BesideNames
<1>3. Len(p) \in Nat \ {0}
  BY <1>1, EmptySeq DEF Root
<1>4. p[Len(p)] \in 0..9 /\ \A i \in 1..Len(p) - 1 : p[i] \in 0..9
  BY <1>3 DEF Plain
<1> HIDE DEF b
<1>5. ASSUME NEW k \in Plain PROVE ~ Within(b, k) /\ (Within(k, b) => Within(k, Parent(p)))
  <2>1. k \in Seq(Nat) /\ Len(k) \in Nat /\ \A i \in 1..Len(k) : k[i] \in 0..9
    BY <1>5, PlainPaths DEF Plain
  <2>2. ~ Within(b, k)
    <3>1. SUFFICES ASSUME Within(b, k) PROVE FALSE
      OBVIOUS
    <3>2. Len(b) <= Len(k) /\ \A i \in 1..Len(b) : b[i] = k[i]
      BY <1>2, <2>1, <3>1, WithinNames
    <3>3. Len(p) \in 1..Len(b) /\ Len(p) \in 1..Len(k)
      BY <1>2, <1>3, <2>1, <3>2
    <3>4. k[Len(p)] = t + p[Len(p)] /\ k[Len(p)] \in 0..9
      BY <1>2, <2>1, <3>2, <3>3
    <3>5. QED
      BY SMTT(40), <1>4, <3>4
  <2>3. k # b
    BY <1>2, <2>2 DEF Within
  <2>4. Within(k, b) <=> k = b \/ Within(k, Parent(b))
    BY <1>2, <2>1, WithinParent
  <2>5. QED
    BY <1>2, <2>2, <2>3, <2>4
<1>6. QED
  BY <1>2, <1>3, <1>4, <1>5 DEF b

\* Of two such names one is below the other only when they are the same.
LEMMA OddNamesApart ==
    ASSUME NEW p \in Plain, p # Root, NEW t \in Nat, t >= 10,
           NEW q \in Plain, q # Root, NEW u \in Nat, u >= 10,
           NEW k \in Seq(Nat), Within(Beside(p, t), k), Within(Beside(q, u), k)
    PROVE  t + p[Len(p)] = u + q[Len(q)]
<1> DEFINE b == Beside(p, t)
           c == Beside(q, u)
<1>1. /\ b \in Seq(Nat) /\ Len(b) = Len(p) /\ Len(p) \in Nat \ {0}
      /\ p[Len(p)] \in 0..9 /\ b[Len(p)] = t + p[Len(p)]
      /\ \A i \in 1..Len(p) - 1 : b[i] \in 0..9
  BY OddName
<1>2. /\ c \in Seq(Nat) /\ Len(c) = Len(q) /\ Len(q) \in Nat \ {0}
      /\ q[Len(q)] \in 0..9 /\ c[Len(q)] = u + q[Len(q)]
      /\ \A i \in 1..Len(q) - 1 : c[i] \in 0..9
  BY OddName
<1> HIDE DEF b, c
<1>3. Within(b, k) /\ Within(c, k)
  BY DEF b, c
<1>4. /\ Len(b) <= Len(k) /\ \A i \in 1..Len(b) : b[i] = k[i]
      /\ Len(c) <= Len(k) /\ \A i \in 1..Len(c) : c[i] = k[i]
  BY <1>1, <1>2, <1>3, WithinNames
<1>5. CASE Len(p) < Len(q)
  <2>1. Len(p) \in 1..Len(b) /\ Len(p) \in 1..Len(c) /\ Len(p) \in 1..Len(q) - 1
    BY <1>1, <1>2, <1>5
  <2>2. b[Len(p)] = c[Len(p)] /\ c[Len(p)] \in 0..9
    BY <1>2, <1>4, <2>1
  <2>3. b[Len(p)] \in 0..9 /\ b[Len(p)] = t + p[Len(p)] /\ p[Len(p)] \in 0..9
    BY <1>1, <2>2
  <2> DEFINE x == b[Len(p)]
             y == p[Len(p)]
  <2>4. x \in 0..9 /\ x = t + y /\ y \in 0..9
    BY <2>3
  <2> HIDE DEF x, y
  <2>5. FALSE
    BY <2>4
  <2>6. QED
    BY <2>5
<1>6. CASE Len(q) < Len(p)
  <2>1. Len(q) \in 1..Len(b) /\ Len(q) \in 1..Len(c) /\ Len(q) \in 1..Len(p) - 1
    BY <1>1, <1>2, <1>6
  <2>2. b[Len(q)] = c[Len(q)] /\ b[Len(q)] \in 0..9
    BY <1>1, <1>4, <2>1
  <2>3. c[Len(q)] \in 0..9 /\ c[Len(q)] = u + q[Len(q)] /\ q[Len(q)] \in 0..9
    BY <1>2, <2>2
  <2> DEFINE x == c[Len(q)]
             y == q[Len(q)]
  <2>4. x \in 0..9 /\ x = u + y /\ y \in 0..9
    BY <2>3
  <2> HIDE DEF x, y
  <2>5. FALSE
    BY <2>4
  <2>6. QED
    BY <2>5
<1>7. CASE Len(p) = Len(q)
  <2>1. Len(p) \in 1..Len(b) /\ Len(p) \in 1..Len(c)
    BY <1>1, <1>2, <1>7
  <2>2. b[Len(p)] = c[Len(p)]
    BY <1>4, <2>1
  <2>3. QED
    BY <1>1, <1>2, <1>7, <2>2
<1>8. QED
  BY <1>1, <1>2, <1>5, <1>6, <1>7

\* Nothing of Z is at or above k; a step changes the disk at and below Z only; none of what q
\* relies on is there.
Free(Z, k) == \A z \in Z : ~ Within(z, k)
Untouched(Z) ==
    \A k \in Seq(Nat) : Free(Z, k) => /\ k \in DOMAIN fs' <=> k \in DOMAIN fs
                                      /\ k \in DOMAIN fs => fs'[k] = fs[k]
Foreign(q, Z) ==
    /\ \A k \in Plain : Concerns(q, k) => Free(Z, k)
    /\ Op(q).kind # "PROPPATCH" =>
          /\ Free(Z, Parent(Source(q))) /\ Free(Z, Parent(Target(q)))
          /\ \A k \in Seq(Nat) : Within(Backup(q), k) => Free(Z, k)
Region(r) ==
    IF Op(r).kind = "PROPPATCH" THEN {} ELSE {Source(r), Target(r), Backup(r), Tmp(r)}

\* The paths of a request are plain.
LEMMA PlainOp ==
    ASSUME NEW r, Requested(r)
    PROVE  /\ Source(r) \in Plain /\ Target(r) \in Plain
           /\ req[r].num \in Nat \ {0}
           /\ Op(r).kind # "PROPPATCH" => /\ Source(r) # Root /\ Target(r) # Root
                                          /\ Parent(Source(r)) \in Plain /\ Parent(Target(r)) \in Plain
<1>1. Source(r) \in Path /\ Target(r) \in Path /\ req[r].num \in Nat \ {0}
  BY TreeAssumption DEF Requested, ValidOp, Source, Target
<1>2. ASSUME NEW p \in Path, p # Root PROVE Parent(p) \in Plain
  <2>1. p \in Seq(Nat)
    BY PathAssumption
  <2>2. Len(p) \in Nat \ {0}
    BY <1>2, <2>1, EmptySeq DEF Root
  <2>3. Len(p) - 1 \in 0..Len(p)
    BY <2>2
  <2>4. Parent(p) \in Path
    BY <2>3, PathAssumption DEF Parent
  <2>5. QED
    BY <2>4, PlainPaths
<1>3. QED
  BY <1>1, <1>2, OpPaths, PlainPaths

\* Every request's backup and temporary file have names that are not plain, with its number.
LEMMA OwnOddNames ==
    ASSUME NEW r, Requested(r), Op(r).kind # "PROPPATCH"
    PROVE  LET a == 20 * req[r].num
               b == 20 * req[r].num + 10
           IN /\ a \in Nat /\ a >= 10 /\ b \in Nat /\ b >= 10
              /\ Backup(r) = Beside(Target(r), a) /\ Tmp(r) = Beside(Source(r), b)
BY PlainOp DEF Backup, Tmp, BackupName, TmpName

\* A temporary file lies in nobody's way.
LEMMA TmpForeign ==
    ASSUME NEW p \in Plain, p # Root, NEW n \in Nat \ {0}
    PROVE  /\ \A k \in Plain : Free({TmpName(p, n)}, k)
           /\ \A q : Requested(q) => Foreign(q, {TmpName(p, n)})
<1> DEFINE u == 20 * n + 10
           z == TmpName(p, n)
<1>1. u \in Nat /\ u >= 10 /\ z = Beside(p, u)
  BY DEF TmpName
<1>2. \A k \in Plain : ~ Within(z, k)
  BY <1>1, OddName
<1>3. ASSUME NEW q, Requested(q), Op(q).kind # "PROPPATCH",
             NEW k \in Seq(Nat), Within(Backup(q), k), Within(z, k)
      PROVE  FALSE
  <2> DEFINE a == 20 * req[q].num
             d == Target(q)
  <2>1. a \in Nat /\ a >= 10 /\ Backup(q) = Beside(d, a)
    BY <1>3, OwnOddNames
  <2>2. d \in Plain /\ d # Root /\ req[q].num \in Nat
    BY <1>3, PlainOp
  <2>3. d[Len(d)] \in 0..9 /\ p[Len(p)] \in 0..9
    <3> HIDE DEF a, d, u
    <3>1. QED
      BY <1>1, <2>1, <2>2, OddName
  <2>4. a + d[Len(d)] = u + p[Len(p)]
    <3> HIDE DEF a, d, u, z
    <3>1. QED
      BY <1>1, <1>3, <2>1, <2>2, OddNamesApart
  <2> DEFINE x == d[Len(d)]
             y == p[Len(p)]
             m == req[q].num
  <2>5. x \in 0..9 /\ y \in 0..9 /\ m \in Nat /\ 20 * m + x = 20 * n + 10 + y
    BY <2>2, <2>3, <2>4
  <2> HIDE DEF x, y, m
  <2>6. QED
    BY <2>5
<1> HIDE DEF z, u
<1>4. ASSUME NEW q, Requested(q) PROVE Foreign(q, {z})
  <2>1. Op(q).kind # "PROPPATCH" => Parent(Source(q)) \in Plain /\ Parent(Target(q)) \in Plain
    BY <1>4, PlainOp
  <2>2. QED
    BY <1>2, <1>3, <1>4, <2>1 DEF Foreign, Free
<1>5. QED
  BY <1>2, <1>4 DEF Free, z

\* What one request at work changes on disk is nothing another relies on, and nothing it has
\* not to do with.
LEMMA RegionForeign ==
    ASSUME IInv, Types, Numbers, NEW r \in Req, Working(r), req[r].alive
    PROVE  /\ \A k \in Plain : ~ Concerns(r, k) => Free(Region(r), k)
           /\ \A q \in Req \ {r} : Working(q) /\ req[q].alive => Foreign(q, Region(r))
<1>1. Requested(r) /\ inside[r] = {Source(r), Target(r)} /\ req[r].pc # "idle"
  BY DEF IInv, Good, Typed, LockHeld, Working
<1>2. CASE Op(r).kind = "PROPPATCH"
  BY <1>2 DEF Region, Free, Foreign
<1>3. CASE Op(r).kind # "PROPPATCH"
  <2> DEFINE s == Source(r)
             d == Target(r)
             a == 20 * req[r].num
             b == 20 * req[r].num + 10
             m == req[r].num
  <2>1. /\ s \in Plain /\ d \in Plain /\ s # Root /\ d # Root /\ m \in Nat \ {0}
        /\ s \in Seq(Nat) /\ d \in Seq(Nat)
    BY <1>1, <1>3, PlainOp, PlainPaths
  <2>2. /\ a \in Nat /\ a >= 10 /\ b \in Nat /\ b >= 10
        /\ Backup(r) = Beside(d, a) /\ Tmp(r) = Beside(s, b)
    BY <1>1, <1>3, OwnOddNames
  <2>3. \A k \in Plain : ~ Within(Backup(r), k) /\ ~ Within(Tmp(r), k)
    <3> HIDE DEF s, d, a, b
    <3>1. QED
      BY <2>1, <2>2, OddName
  <2>4. ASSUME NEW k \in Plain, ~ Concerns(r, k) PROVE Free(Region(r), k)
    BY <1>3, <2>3, <2>4 DEF Free, Region, Concerns
  <2>5. ASSUME NEW q \in Req \ {r}, Working(q), req[q].alive PROVE Foreign(q, Region(r))
    <3>1. Requested(q) /\ inside[q] = {Source(q), Target(q)} /\ req[q].pc # "idle"
      BY <2>5 DEF IInv, Good, Typed, LockHeld, Working
    <3>2. ~ SetsOverlap(inside[r], inside[q]) /\ req[r].num # req[q].num
      BY <1>1, <3>1 DEF IInv, LocksApart, Numbers
    <3>3. Source(q) \in Plain /\ Target(q) \in Plain /\ Source(q) \in Seq(Nat) /\ Target(q) \in Seq(Nat)
      BY <3>1, PlainOp, PlainPaths
    <3>4. ASSUME NEW x \in {s, d}, NEW y \in {Source(q), Target(q)}
          PROVE  ~ Within(x, y) /\ ~ Within(y, x)
      <4>1. ~ Overlap(x, y) /\ x \in Seq(Nat) /\ y \in Seq(Nat)
        BY <1>1, <2>1, <3>1, <3>2, <3>3, <3>4 DEF SetsOverlap
      <4>2. QED
        BY <4>1, WithinOrder
    <3>5. ASSUME NEW k \in Plain, Concerns(q, k) PROVE Free(Region(r), k)
      <4>1. ~ Concerns(r, k)
        BY <2>1, <3>3, <3>4, <3>5, WithinOrder, PlainPaths DEF Concerns
      <4>2. QED
        BY <2>4, <4>1
    <3>6. ASSUME Op(q).kind # "PROPPATCH", NEW y \in {Source(q), Target(q)}
          PROVE  Free(Region(r), Parent(y))
      <4>1. Parent(y) \in Plain /\ y # Root /\ y \in Seq(Nat)
        BY <3>1, <3>3, <3>6, PlainOp
      <4>2. ASSUME NEW x \in {s, d} PROVE ~ Within(x, Parent(y))
        BY <2>1, <3>4, <4>1, WithinParent
      <4>3. ~ Concerns(r, Parent(y))
        BY <4>2 DEF Concerns
      <4>4. QED
        BY <2>4, <4>1, <4>3
    <3>7. ASSUME Op(q).kind # "PROPPATCH", NEW k \in Seq(Nat), Within(Backup(q), k)
          PROVE  Free(Region(r), k)
      <4> DEFINE e == 20 * req[q].num
                 t == Target(q)
                 n == req[q].num
      <4>1. e \in Nat /\ e >= 10 /\ Backup(q) = Beside(t, e)
        BY <3>1, <3>7, OwnOddNames
      <4>2. t \in Plain /\ t # Root /\ n \in Nat /\ Parent(t) \in Plain
        BY <3>1, <3>7, PlainOp
      <4>3. /\ Backup(q) \in Seq(Nat) /\ t[Len(t)] \in 0..9
            /\ \A l \in Plain : ~ Within(Backup(q), l) /\ (Within(l, Backup(q)) => Within(l, Parent(t)))
        <5> HIDE DEF t, e, n
        <5>1. QED
          BY <4>1, <4>2, OddName
      <4>4. ASSUME NEW x \in {s, d}, Within(x, k) PROVE FALSE
        <5>1. x \in Seq(Nat) /\ x \in Plain
          BY <2>1
        <5>2. Within(x, Backup(q)) \/ Within(Backup(q), x)
          BY <3>7, <4>3, <4>4, <5>1, WithinOrder
        <5>3. Within(x, Parent(t))
          BY <4>3, <5>1, <5>2
        <5>4. Within(x, t)
          BY <3>3, <4>2, <5>1, <5>3, WithinParent
        <5>5. QED
          BY <3>4, <5>4
      <4>5. s[Len(s)] \in 0..9 /\ d[Len(d)] \in 0..9
        <5> HIDE DEF s, d, a, b
        <5>1. QED
          BY <2>1, <2>2, OddName
      <4> DEFINE xs == s[Len(s)]
                 xd == d[Len(d)]
                 xt == t[Len(t)]
      <4>6. ASSUME Within(Backup(r), k) PROVE FALSE
        <5>1. a + xd = e + xt
          <6> HIDE DEF s, d, a, b, e, t
          <6>1. QED
            BY <2>1, <2>2, <3>7, <4>1, <4>2, <4>6, OddNamesApart
        <5>2. 20 * m + xd = 20 * n + xt /\ m # n
          BY <3>2, <5>1
        <5>3. m \in Nat /\ n \in Nat /\ xd \in 0..9 /\ xt \in 0..9
          BY <2>1, <4>2, <4>3, <4>5
        <5> HIDE DEF m, n, xd, xt
        <5>4. QED
          BY <5>2, <5>3
      <4>7. ASSUME Within(Tmp(r), k) PROVE FALSE
        <5>1. b + xs = e + xt
          <6> HIDE DEF s, d, a, b, e, t
          <6>1. QED
            BY <2>1, <2>2, <3>7, <4>1, <4>2, <4>7, OddNamesApart
        <5>2. 20 * m + 10 + xs = 20 * n + xt
          BY <5>1
        <5>3. m \in Nat /\ n \in Nat /\ xs \in 0..9 /\ xt \in 0..9
          BY <2>1, <4>2, <4>3, <4>5
        <5> HIDE DEF m, n, xs, xt
        <5>4. QED
          BY <5>2, <5>3
      <4>8. QED
        BY <1>3, <4>4, <4>6, <4>7 DEF Free, Region
    <3>8. QED
      BY <3>5, <3>6, <3>7 DEF Foreign
  <2>6. QED
    BY <2>4, <2>5
<1>4. QED
  BY <1>2, <1>3

\* What q relies on is where no step outside its paths changes anything.
LEMMA SpotFree ==
    ASSUME IInv, Types, NEW q \in Req, Working(q), NEW Z, Foreign(q, Z), NEW p \in Plain, Concerns(q, p)
    PROVE  Spot(q, p) \in Seq(Nat) /\ Free(Z, Spot(q, p))
<1> DEFINE s == Source(q)
           d == Target(q)
           b == Backup(q)
<1>1. Requested(q) /\ s \in Plain /\ d \in Plain /\ s \in Seq(Nat) /\ d \in Seq(Nat) /\ p \in Seq(Nat)
  <2>1. Requested(q)
    BY DEF IInv, Good, Typed, Working
  <2>2. QED
    BY <2>1, PlainOp, PlainPaths
<1>2. CASE Aside(q) /\ Within(d, p)
  <2>1. Op(q).kind # "PROPPATCH"
    BY <1>2 DEF Aside, Types, Sorted
  <2>2. b \in Seq(Nat)
    BY <1>1, <2>1, OwnNames
  <2> DEFINE x == Suffix(p, d)
  <2>3. x \in Seq(Nat)
    BY <1>1, <1>2, WhatIsLeft
  <2>4. Spot(q, p) = b \o x
    BY <1>2 DEF Spot
  <2> HIDE DEF x, b
  <2>5. b \o x \in Seq(Nat) /\ Within(b, b \o x)
    BY <2>2, <2>3, Followed
  <2>6. QED
    BY <2>1, <2>4, <2>5 DEF Foreign, b
<1>3. CASE ~ (Aside(q) /\ Within(d, p)) /\ MovedOver(q) /\ Within(s, p)
  <2> DEFINE x == Suffix(p, s)
  <2>1. Spot(q, p) = d \o x
    BY <1>3 DEF Spot
  <2>2. x \in Seq(Nat)
    BY <1>1, <1>3, WhatIsLeft
  <2>3. d \o x \in Plain
    <3> HIDE DEF s, d
    <3>1. QED
      BY <1>1, <1>3, PlainPaths
  <2>4. d \o x \in Seq(Nat) /\ Within(d, d \o x)
    <3> HIDE DEF d, x
    <3>1. QED
      BY <1>1, <2>2, Followed
  <2>5. QED
    BY <2>1, <2>3, <2>4 DEF Foreign, Concerns
<1>4. CASE ~ (Aside(q) /\ Within(d, p)) /\ ~ (MovedOver(q) /\ Within(s, p))
  <2>1. Spot(q, p) = p
    BY <1>4 DEF Spot
  <2>2. QED
    BY <1>1, <2>1 DEF Foreign
<1>5. QED
  BY <1>2, <1>3, <1>4

\* Outside Z the disk is what it was.
LEMMA UntouchedAt ==
    ASSUME NEW Z, Untouched(Z), NEW k \in Seq(Nat), Free(Z, k)
    PROVE  /\ k \in DOMAIN fs' <=> k \in DOMAIN fs
           /\ \A v : (k \in DOMAIN fs' /\ fs'[k] = v) <=> At(k, v)
           /\ IsDir(fs', k) <=> IsDir(fs, k)
BY DEF Untouched, At, IsDir

\* What q relies on stays, when others change the disk and the rows elsewhere.
LEMMA FitKept ==
    ASSUME IInv, Types, NEW q \in Req, Working(q), Fit(q), NEW Z, Foreign(q, Z), Untouched(Z),
           req'[q] = req[q],
           \A p \in Plain : Concerns(q, p) =>
              /\ p \in DOMAIN rows' <=> p \in DOMAIN rows
              /\ p \in DOMAIN rows => rows'[p].data = rows[p].data,
           DOMAIN rows' \subseteq Plain
    PROVE  /\ Fit(q)'
           /\ \A p \in DOMAIN rows' : Concerns(q, p) /\ At(Spot(q, p), rows[p].data) =>
                 At(Spot(q, p), rows[p].data)'
<1> DEFINE s == Source(q)
           d == Target(q)
           b == Backup(q)
<1>1. Requested(q) /\ s \in Plain /\ d \in Plain /\ s \in Seq(Nat) /\ d \in Seq(Nat)
      /\ RowsTyped(rows) /\ DOMAIN rows \subseteq Plain
  <2>1. Requested(q) /\ RowsTyped(rows) /\ DOMAIN rows \subseteq Plain
    BY DEF IInv, Types, Good, Typed, Working
  <2>2. QED
    BY <2>1, PlainOp, PlainPaths
<1>2. /\ Op(q)' = Op(q) /\ Source(q)' = s /\ Target(q)' = d /\ Backup(q)' = b /\ Body(q)' = Body(q)
      /\ Past(q)' = Past(q) /\ Aside(q)' = Aside(q) /\ MovedOver(q)' = MovedOver(q)
      /\ \A p : Concerns(q, p)' = Concerns(q, p) /\ Spot(q, p)' = Spot(q, p)
  BY DEF Op, Source, Target, Backup, Body, Past, Aside, MovedOver, Concerns, Spot
<1>3. ASSUME NEW p \in DOMAIN rows', Concerns(q, p), At(Spot(q, p), rows[p].data)
      PROVE  At(Spot(q, p), rows[p].data)'
  <2> DEFINE k == Spot(q, p)
  <2>1. p \in Plain
    BY <1>3
  <2>2. k \in Seq(Nat) /\ Free(Z, k)
    BY <1>3, <2>1, SpotFree
  <2>3. k' = k /\ rows'[p].data = rows[p].data
    BY <1>2, <1>3, <2>1
  <2> HIDE DEF k
  <2>4. k \in DOMAIN fs' /\ fs'[k] = rows[p].data
    BY <1>3, <2>2, UntouchedAt DEF k
  <2>5. QED
    BY <2>3, <2>4 DEF At, k
<1>4. ASSUME Past(q), Op(q).kind # "PROPPATCH" PROVE DiskFits(q)' /\ RowsFit(q)'
  <2>1. DiskFits(q) /\ RowsFit(q)
    BY <1>4 DEF Fit
  <2>2. s # Root /\ d # Root /\ b \in Seq(Nat) /\ Parent(s) \in Seq(Nat) /\ Parent(d) \in Seq(Nat)
    BY <1>1, <1>4, PlainOp, OwnNames, PlainPaths
  <2>3. Free(Z, s) /\ Free(Z, d) /\ Free(Z, Parent(s)) /\ Free(Z, Parent(d)) /\ Free(Z, b)
    BY <1>1, <1>4, <2>2 DEF Foreign, Concerns, Within
  <2>4. /\ IsDir(fs', Parent(s)) <=> IsDir(fs, Parent(s))
        /\ IsDir(fs', Parent(d)) <=> IsDir(fs, Parent(d))
        /\ d \in DOMAIN fs' <=> d \in DOMAIN fs
        /\ s \in DOMAIN fs' <=> s \in DOMAIN fs
        /\ b \in DOMAIN fs' <=> b \in DOMAIN fs
        /\ \A v : At(d, v)' <=> At(d, v)
    <3> HIDE DEF s, d, b
    <3>1. \A v : (d \in DOMAIN fs' /\ fs'[d] = v) <=> At(d, v)
      BY <1>1, <2>3, UntouchedAt
    <3>2. d' = d
      BY <1>2 DEF d
    <3>3. QED
      BY <1>1, <2>2, <2>3, <3>1, <3>2, UntouchedAt DEF At
  <2>5. ASSUME Made(q) PROVE Made(q)'
    <3>1. Op(q).kind = "PUT" => At(d, Body(q))'
      BY <1>2, <2>4, <2>5 DEF Made
    <3>2. Op(q).kind = "MKCOL" => At(d, Dir)'
      BY <1>2, <2>4, <2>5 DEF Made
    <3>3. Op(q).kind = "MOVE" => d \in DOMAIN fs' /\ s \notin DOMAIN fs'
      BY <2>4, <2>5 DEF Made
    <3>4. Op(q).kind = "COPY0" /\ req[q].isDir => At(d, Dir)'
      BY <1>2, <2>4, <2>5 DEF Made
    <3>5. ASSUME Op(q).kind \in {"COPY", "COPY0"}, ~ (Op(q).kind = "COPY0" /\ req[q].isDir),
                 NEW x \in (Taken(q) \cap DOMAIN rows)'
          PROVE  At(d \o Suffix(x, s), rows[x].data)'
      <4>1. x \in DOMAIN rows' /\ x \in Plain
        BY <3>5
      <4>2. Within(s, x) /\ (x = s \/ req[q].isDir)
        <5>1. x \in (IF req[q].isDir /\ Op(q).kind # "COPY0" THEN Entries(rows', s) ELSE {s})
          BY <1>2, <3>5 DEF Taken
        <5>2. QED
          BY <3>5, <5>1, EntriesAt DEF Within
      <4>3. x \in DOMAIN rows /\ rows'[x].data = rows[x].data
        BY <4>1, <4>2 DEF Concerns
      <4>4. x \in Taken(q)
        BY <3>5, <4>2, <4>3, EntriesAt DEF Taken
      <4> DEFINE k == d \o Suffix(x, s)
      <4>5. At(k, rows[x].data)
        BY <2>5, <3>5, <4>3, <4>4 DEF Made
      <4>6. k \in Plain /\ Within(d, k)
        <5>1. k \in Plain
          <6> HIDE DEF s, d
          <6>1. QED
            BY <1>1, <4>1, <4>2, PlainPaths
        <5>2. Within(d, k)
          BY <1>1, <4>4, TakenRows
        <5>3. QED
          BY <5>1, <5>2
      <4>7. k \in Seq(Nat) /\ Free(Z, k)
        BY <4>6, PlainPaths DEF Foreign, Concerns
      <4>8. k' = k
        BY <1>2
      <4> HIDE DEF k
      <4>9. k \in DOMAIN fs' /\ fs'[k] = rows[x].data
        BY <4>5, <4>7, UntouchedAt
      <4>10. QED
        BY <4>3, <4>8, <4>9 DEF At, k
    <3>6. Op(q).kind \in {"COPY", "COPY0"} /\ ~ (Op(q).kind = "COPY0" /\ req[q].isDir) =>
             \A x \in (Taken(q) \cap DOMAIN rows)' : At(d \o Suffix(x, s), rows[x].data)'
      BY <3>5
    <3>7. /\ (Op(q).kind = "PUT")' => At(Target(q), Body(q))'
          /\ (Op(q).kind = "MKCOL")' => At(Target(q), Dir)'
          /\ (Op(q).kind = "MOVE")' => Target(q)' \in DOMAIN fs' /\ Source(q)' \notin DOMAIN fs'
      BY <1>2, <3>1, <3>2, <3>3
    <3>8. (Op(q).kind \in {"COPY", "COPY0"})' =>
             IF (Op(q).kind = "COPY0" /\ req[q].isDir)' THEN At(Target(q), Dir)'
             ELSE \A x \in (Taken(q) \cap DOMAIN rows)' :
                     At(Target(q) \o Suffix(x, Source(q)), rows[x].data)'
      BY <1>2, <3>4, <3>6
    <3>9. QED
      BY <3>7, <3>8 DEF Made
  <2>6. DiskFits(q)'
    BY <1>2, <2>1, <2>4, <2>5 DEF DiskFits
  <2>7. RowsFit(q)'
    BY <1>1, <1>2, <2>1 DEF RowsFit, Concerns, Within
  <2>8. QED
    BY <2>6, <2>7
<1>5. Fit(q)'
  BY <1>2, <1>4 DEF Fit
<1>6. QED
  BY <1>3, <1>5

\* No two requests at work have to do with the same path.
LEMMA OneConcern ==
    ASSUME IInv, NEW r \in Req, NEW q \in Req \ {r}, Working(r), req[r].alive, Working(q), req[q].alive,
           NEW p \in Plain, Concerns(q, p)
    PROVE  ~ Concerns(r, p)
<1>1. /\ Requested(r) /\ inside[r] = {Source(r), Target(r)}
      /\ Requested(q) /\ inside[q] = {Source(q), Target(q)}
  BY DEF IInv, Good, Typed, LockHeld, Working
<1>2. ~ SetsOverlap(inside[r], inside[q])
  BY DEF IInv, LocksApart
<1>3. /\ Source(r) \in Seq(Nat) /\ Target(r) \in Seq(Nat) /\ p \in Seq(Nat)
      /\ Source(q) \in Seq(Nat) /\ Target(q) \in Seq(Nat)
  BY <1>1, PlainOp, PlainPaths
<1>4. \A x \in {Source(r), Target(r)}, y \in {Source(q), Target(q)} : ~ Overlap(x, y)
  BY <1>1, <1>2 DEF SetsOverlap
<1>5. ASSUME NEW x \in {Source(r), Target(r)}, NEW y \in {Source(q), Target(q)}
      PROVE  ~ (Within(x, p) /\ Within(y, p))
  <2>1. x \in Seq(Nat) /\ y \in Seq(Nat) /\ ~ Overlap(x, y)
    BY <1>3, <1>4, <1>5
  <2>2. QED
    BY <1>3, <2>1, WithinOrder
<1>6. QED
  BY <1>5 DEF Concerns

\* A step of r that changes the disk and the rows only where r works, and keeps what r itself
\* relies on, keeps everything backed.
LEMMA Assemble ==
    ASSUME IInv, Types, Types', NEW r \in Req, Others(r), Safe,
           NEW Z, Untouched(Z),
           \A k \in Plain : ~ (Working(r) /\ Concerns(r, k)) => Free(Z, k),
           \A q \in Req \ {r} : Working(q) => Foreign(q, Z),
           Working(r)' => Working(r) /\ Kept(r),
           \A p \in Plain : ~ (Working(r) /\ Concerns(r, p)) =>
              /\ p \in DOMAIN rows => p \in DOMAIN rows' /\ rows'[p].data = rows[p].data
              /\ p \in DOMAIN rows' \ DOMAIN rows =>
                    /\ At(p, rows[p].data)'
                    /\ \A q \in Req \ {r} : ~ (Working(q) /\ Concerns(q, p)),
           \A p \in DOMAIN rows' : Working(r) /\ Concerns(r, p) =>
              IF Working(r)' THEN At(Spot(r, p), rows[p].data)' ELSE At(p, rows[p].data)',
           Fit(r)'
    PROVE  Backed' /\ \A q \in Req : Fit(q)'
<1>1. DOMAIN rows' \subseteq Plain /\ DOMAIN rows \subseteq Plain
  BY DEF Types
<1>2. ASSUME NEW q \in Req \ {r}
      PROVE  /\ req'[q] = req[q] /\ Working(q)' = Working(q)
             /\ \A p : Concerns(q, p)' = Concerns(q, p)
             /\ Working(q) => ~ Working(r) \/ \A p \in Plain : Concerns(q, p) => ~ Concerns(r, p)
  <2>1. req'[q] = req[q] /\ req[q].alive /\ req[r].alive
    BY DEF Others, Safe
  <2>2. Working(q)' = Working(q) /\ \A p : Concerns(q, p)' = Concerns(q, p)
    BY <2>1 DEF Working, Concerns, Source, Target, Op
  <2>3. QED
    BY <2>1, <2>2, OneConcern
<1>3. ASSUME NEW q \in Req \ {r}, Working(q)
      PROVE  /\ Fit(q)'
             /\ \A p \in DOMAIN rows' : Concerns(q, p) => At(Spot(q, p), rows[p].data)'
  <2>1. \A p \in Plain : Concerns(q, p) => /\ p \in DOMAIN rows' <=> p \in DOMAIN rows
                                           /\ p \in DOMAIN rows => rows'[p].data = rows[p].data
    BY <1>2, <1>3
  <2>2. /\ Fit(q)'
        /\ \A p \in DOMAIN rows' : Concerns(q, p) /\ At(Spot(q, p), rows[p].data) =>
              At(Spot(q, p), rows[p].data)'
    BY <1>1, <1>2, <1>3, <2>1, FitKept DEF Safe
  <2>3. ASSUME NEW p \in DOMAIN rows', Concerns(q, p) PROVE At(Spot(q, p), rows[p].data)
    <3>1. p \in DOMAIN rows
      BY <1>1, <2>1, <2>3
    <3>2. QED
      BY <1>3, <2>3, <3>1 DEF Safe, Backed
  <2>4. QED
    BY <2>2, <2>3
<1>4. ASSUME NEW q \in Req \ {r} PROVE Fit(q)'
  <2>1. CASE Working(q)
    BY <1>3, <2>1
  <2>2. CASE ~ Working(q)
    BY <1>2, <2>2 DEF Fit, Past, Working
  <2>3. QED
    BY <2>1, <2>2
<1>5. Working(r)' => \A p : Concerns(r, p)' = Concerns(r, p)
  BY DEF Kept, Concerns, Source, Target, Op
<1>6. ASSUME NEW p \in DOMAIN rows', NEW x \in Req, Working(x)', Concerns(x, p)'
      PROVE  At(Spot(x, p), rows[p].data)'
  <2>1. CASE x = r
    BY <1>5, <1>6, <2>1
  <2>2. CASE x # r
    BY <1>2, <1>3, <1>6, <2>2
  <2>3. QED
    BY <2>1, <2>2
<1>7. ASSUME NEW p \in DOMAIN rows', \A x \in Req : ~ (Working(x)' /\ Concerns(x, p)')
      PROVE  At(p, rows[p].data)'
  <2>1. CASE Working(r) /\ Concerns(r, p)
    <3>1. ~ Working(r)'
      BY <1>5, <1>7, <2>1
    <3>2. QED
      BY <2>1, <3>1
  <2>2. CASE ~ (Working(r) /\ Concerns(r, p)) /\ p \notin DOMAIN rows
    BY <1>1, <2>2
  <2>3. CASE ~ (Working(r) /\ Concerns(r, p)) /\ p \in DOMAIN rows
    <3>1. \A x \in Req : ~ (Working(x) /\ Concerns(x, p))
      BY <1>2, <1>7, <2>3
    <3>2. At(p, rows[p].data)
      BY <2>3, <3>1 DEF Safe, Backed
    <3>3. Free(Z, p) /\ p \in Seq(Nat) /\ rows'[p].data = rows[p].data
      BY <1>1, <2>3, PlainPaths
    <3>4. p \in DOMAIN fs' /\ fs'[p] = rows[p].data
      BY <3>2, <3>3, UntouchedAt
    <3>5. QED
      BY <3>3, <3>4 DEF At
  <2>4. QED
    BY <2>1, <2>2, <2>3
<1>8. Backed'
  BY <1>6, <1>7 DEF Backed
<1>9. QED
  BY <1>4, <1>8

\* A request's own paths, its backup's name and its temporary file's: what lies below one of them
\* is below no other, unless it must be.
LEMMA OwnApart ==
    ASSUME IInv, Types, NEW r \in Req, Past(r), Op(r).kind # "PROPPATCH"
    PROVE  /\ Requested(r)
           /\ Source(r) \in Plain /\ Target(r) \in Plain /\ Source(r) \in Seq(Nat) /\ Target(r) \in Seq(Nat)
           /\ Source(r) # Root /\ Target(r) # Root
           /\ Backup(r) \in Seq(Nat) /\ Tmp(r) \in Seq(Nat) /\ Backup(r) # Root /\ Tmp(r) # Root
           /\ Parent(Source(r)) \in Seq(Nat) /\ Parent(Target(r)) \in Seq(Nat)
           /\ Parent(Backup(r)) = Parent(Target(r)) /\ Parent(Tmp(r)) = Parent(Source(r))
           /\ Free({Source(r), Target(r), Backup(r), Tmp(r)}, Parent(Source(r)))
           /\ Free({Source(r), Target(r), Backup(r), Tmp(r)}, Parent(Target(r)))
           /\ \A k \in Plain : Free({Backup(r), Tmp(r)}, k)
           /\ \A k \in Seq(Nat) : Within(Backup(r), k) => Free({Source(r), Target(r), Tmp(r)}, k)
           /\ Source(r) # Target(r) =>
                /\ ~ Within(Source(r), Target(r)) /\ ~ Within(Target(r), Source(r))
                /\ \A k \in Seq(Nat) : ~ (Within(Source(r), k) /\ Within(Target(r), k))
<1> DEFINE s == Source(r)
           d == Target(r)
           m == req[r].num
           a == 20 * m
           u == 20 * m + 10
           b == Backup(r)
           t == Tmp(r)
<1>1. Requested(r) /\ Sorted(r) /\ (Op(r).kind \notin Pairs => s = d)
  BY PastOp
<1>2. /\ s \in Plain /\ d \in Plain /\ s # Root /\ d # Root /\ m \in Nat \ {0}
      /\ Parent(s) \in Plain /\ Parent(d) \in Plain /\ s \in Seq(Nat) /\ d \in Seq(Nat)
      /\ Parent(s) \in Seq(Nat) /\ Parent(d) \in Seq(Nat)
  BY <1>1, PlainOp, PlainPaths
<1>3. s # d => ~ Within(s, d) /\ ~ Within(d, s)
  BY <1>1, <1>2, WithinOrder DEF Sorted
<1>4. /\ a \in Nat /\ a >= 10 /\ b = Beside(d, a) /\ u \in Nat /\ u >= 10 /\ t = Beside(s, u)
  BY <1>1, OwnOddNames
<1>5. /\ b \in Seq(Nat) /\ b # Root /\ Parent(b) = Parent(d) /\ d[Len(d)] \in 0..9
      /\ \A k \in Plain : ~ Within(b, k) /\ (Within(k, b) => Within(k, Parent(d)))
  <2> HIDE DEF s, d, a, b
  <2>1. QED
    BY <1>2, <1>4, OddName
<1>6. /\ t \in Seq(Nat) /\ t # Root /\ Parent(t) = Parent(s) /\ s[Len(s)] \in 0..9
      /\ \A k \in Plain : ~ Within(t, k)
  <2> HIDE DEF s, u, t
  <2>1. QED
    BY <1>2, <1>4, OddName
<1>7. ASSUME NEW x \in {s, d}, NEW y \in {s, d} PROVE ~ Within(x, Parent(y))
  <2> HIDE DEF s, d
  <2>1. ~ Within(y, Parent(y)) /\ Within(Parent(y), y) /\ x \in Seq(Nat) /\ y \in Seq(Nat) /\ Parent(y) \in Seq(Nat)
    BY <1>2, WithinParent, WithinOrder
  <2>2. QED
    BY <1>3, <2>1, WithinOrder
<1>8. ASSUME NEW k \in Seq(Nat), Within(b, k), NEW x \in {s, d} PROVE ~ Within(x, k)
  <2> HIDE DEF s, d, b
  <2>1. SUFFICES ASSUME Within(x, k) PROVE FALSE
    OBVIOUS
  <2>2. x \in Seq(Nat) /\ x \in Plain
    BY <1>2
  <2>3. Within(x, b)
    BY <1>5, <1>8, <2>1, <2>2, WithinOrder
  <2>4. QED
    BY <1>5, <1>7, <2>2, <2>3
<1>9. ASSUME NEW k \in Seq(Nat), Within(b, k), Within(t, k) PROVE FALSE
  <2>1. a + d[Len(d)] = u + s[Len(s)]
    <3> HIDE DEF s, d, a, u, b, t
    <3>1. QED
      BY <1>2, <1>4, <1>9, OddNamesApart
  <2> DEFINE x == d[Len(d)]
             y == s[Len(s)]
  <2>2. 20 * m + x = 20 * m + 10 + y /\ x \in 0..9 /\ y \in 0..9 /\ m \in Nat
    BY <1>2, <1>5, <1>6, <2>1
  <2> HIDE DEF x, y, m
  <2>3. QED
    BY <2>2
<1>10. ASSUME s # d, NEW k \in Seq(Nat), Within(s, k), Within(d, k) PROVE FALSE
  BY <1>2, <1>3, <1>10, WithinOrder
<1> HIDE DEF s, d, b, t, m, a, u
<1>11. /\ Free({s, d, b, t}, Parent(s)) /\ Free({s, d, b, t}, Parent(d))
       /\ \A k \in Plain : Free({b, t}, k)
  BY <1>2, <1>5, <1>6, <1>7 DEF Free
<1>12. \A k \in Seq(Nat) : Within(b, k) => Free({s, d, t}, k)
  BY <1>8, <1>9 DEF Free
<1>13. QED
  BY <1>1, <1>2, <1>3, <1>5, <1>6, <1>10, <1>11, <1>12 DEF s, d, b, t

\* g is f except at and below the paths Z.
SameDisk(Z, f, g) ==
    \A k \in Seq(Nat) : Free(Z, k) => /\ k \in DOMAIN g <=> k \in DOMAIN f
                                      /\ k \in DOMAIN f => g[k] = f[k]

\* A rename changes nothing but its two paths, os.RemoveAll nothing but one.
LEMMA MovedSame ==
    ASSUME NEW f, DOMAIN f \subseteq Seq(Nat), NEW s \in Seq(Nat), NEW d \in Seq(Nat)
    PROVE  SameDisk({s, d}, f, Moved(f, s, d)) /\ SameDisk({s, d}, f, Renamed(f, s, d))
<1> DEFINE M == Moved(f, s, d)
<1>1. \A k \in Seq(Nat) : ~ Within(d, k) => /\ k \in DOMAIN M <=> k \in DOMAIN f /\ ~ Within(s, k)
                                            /\ k \in DOMAIN M => M[k] = f[k]
  BY MovedAt
<1> HIDE DEF M
<1>2. SameDisk({s, d}, f, M)
  BY <1>1 DEF SameDisk, Free
<1>3. SameDisk({s, d}, f, f)
  BY DEF SameDisk
<1>4. QED
  BY <1>2, <1>3 DEF M, Renamed

\* Removing a path changes nothing away from it.
LEMMA RemovedSame ==
    ASSUME NEW f, NEW p
    PROVE  SameDisk({p}, f, Removed(f, p))
BY RemovedAt DEF SameDisk, Free

\* What changes little, and then little again, changes little.
LEMMA SameDiskChain ==
    ASSUME NEW f, NEW g, NEW h, NEW X, NEW Y, NEW Z, X \subseteq Z, Y \subseteq Z,
           SameDisk(X, f, g), SameDisk(Y, g, h)
    PROVE  SameDisk(Z, f, h)
<1>1. \A k : Free(Z, k) => Free(X, k) /\ Free(Y, k)
  BY DEF Free
<1>2. QED
  BY <1>1 DEF SameDisk

\* In f every temporary file holds the content its name says.
TrueNames(f) ==
    \A k \in DOMAIN f : \A n \in 1..MaxOps :
        k # Root /\ k[Len(k)] \in 20 * n + 10 .. 20 * n + 19 => f[k] = n

\* k is no temporary file's name.
NoTmp(k) == \A n \in 1..MaxOps : k[Len(k)] \notin 20 * n + 10 .. 20 * n + 19

\* A plain name is no temporary file's.
LEMMA PlainNoTmp ==
    ASSUME NEW k \in Plain, k # Root
    PROVE  NoTmp(k)
<1>1. k \in Seq(Nat)
  BY PlainPaths
<1>2. Len(k) \in 1..Len(k)
  BY <1>1, EmptySeq DEF Root
<1> DEFINE x == k[Len(k)]
<1>3. x \in 0..9
  BY <1>2 DEF Plain
<1> HIDE DEF x
<1>4. MaxOps \in Nat /\ \A n \in 1..MaxOps : x \notin 20 * n + 10 .. 20 * n + 19
  BY <1>3, TreeAssumption
<1>5. QED
  BY <1>4 DEF NoTmp, x

\* Nor is a backup's.
LEMMA BackupNoTmp ==
    ASSUME NEW r, Requested(r), Op(r).kind # "PROPPATCH"
    PROVE  NoTmp(Backup(r))
<1> DEFINE d == Target(r)
           m == req[r].num
           a == 20 * m
           b == Backup(r)
           x == d[Len(d)]
           y == b[Len(b)]
<1>1. a \in Nat /\ a >= 10 /\ b = Beside(d, a) /\ d \in Plain /\ d # Root /\ m \in Nat
  BY OwnOddNames, PlainOp
<1>2. Len(b) = Len(d) /\ x \in 0..9 /\ y = a + x
  <2> HIDE DEF d, a, b
  <2>1. QED
    BY <1>1, OddName
<1>3. y = 20 * m + x
  BY <1>2
<1> HIDE DEF x, y, m
<1>4. MaxOps \in Nat /\ \A n \in 1..MaxOps : y \notin 20 * n + 10 .. 20 * n + 19
  BY <1>1, <1>2, <1>3, TreeAssumption
<1>5. QED
  BY <1>4 DEF NoTmp, y

\* The last name of a followed path is the last name of what follows.
LEMMA LastFollowed ==
    ASSUME NEW a \in Seq(Nat), NEW x \in Seq(Nat), x # Root
    PROVE  (a \o x)[Len(a \o x)] = x[Len(x)] /\ a \o x # Root /\ a \o x \in Seq(Nat)
<1>1. Len(x) \in Nat /\ Len(x) # 0 /\ Len(a) \in Nat
  BY EmptySeq DEF Root
<1>2. Len(a \o x) = Len(a) + Len(x)
  OBVIOUS
<1>3. Len(a) + Len(x) \in 1..Len(a) + Len(x)
  BY <1>1
<1>4. (a \o x)[Len(a) + Len(x)] = IF Len(a) + Len(x) <= Len(a) THEN a[Len(a) + Len(x)] ELSE x[Len(a) + Len(x) - Len(a)]
  BY <1>3
<1>5. Len(a) + Len(x) - Len(a) = Len(x) /\ ~ (Len(a) + Len(x) <= Len(a))
  BY <1>1
<1>6. QED
  BY <1>2, <1>4, <1>5, Followed

\* Removing and moving keep the contents under the names they were written under.
LEMMA RemovedTrue ==
    ASSUME NEW f, TrueNames(f), NEW p
    PROVE  TrueNames(Removed(f, p))
BY RemovedAt DEF TrueNames

\* Moving to a path that is not a temporary name keeps every name in place true to its directory.
LEMMA MovedTrue ==
    ASSUME NEW f, DOMAIN f \subseteq Seq(Nat), TrueNames(f), NEW s \in Seq(Nat), NEW d \in Seq(Nat), NoTmp(d)
    PROVE  TrueNames(Moved(f, s, d)) /\ TrueNames(Renamed(f, s, d))
<1> DEFINE M == Moved(f, s, d)
<1>1. /\ DOMAIN M \subseteq Seq(Nat)
      /\ \A k \in Seq(Nat) : ~ Within(d, k) =>
                 /\ k \in DOMAIN M <=> k \in DOMAIN f /\ ~ Within(s, k)
                 /\ k \in DOMAIN M => M[k] = f[k]
      /\ \A x \in Seq(Nat) : /\ d \o x \in DOMAIN M <=> s \o x \in DOMAIN f
                             /\ s \o x \in DOMAIN f => M[d \o x] = f[s \o x]
  BY ZenonT(60), MovedAt
<1> HIDE DEF M
<1>2. ASSUME NEW k \in DOMAIN M, NEW n \in 1..MaxOps, k # Root, k[Len(k)] \in 20 * n + 10 .. 20 * n + 19
      PROVE  M[k] = n
  <2>1. k \in Seq(Nat)
    BY <1>1, <1>2
  <2>2. CASE ~ Within(d, k)
    BY <1>1, <1>2, <2>1, <2>2 DEF TrueNames
  <2>3. CASE Within(d, k)
    <3> DEFINE x == Suffix(k, d)
    <3>1. x \in Seq(Nat) /\ d \o x = k
      BY <2>1, <2>3, WhatIsLeft
    <3> HIDE DEF x
    <3>2. x # Root
      <4>1. x = Root => k = d
        BY <3>1, Followed
      <4>2. QED
        BY <1>2, <4>1 DEF NoTmp
    <3>4. k[Len(k)] = x[Len(x)]
      BY <3>1, <3>2, LastFollowed
    <3>5. s \o x \in Seq(Nat) /\ (s \o x)[Len(s \o x)] = x[Len(x)] /\ s \o x # Root
      BY <3>1, <3>2, LastFollowed
    <3>6. s \o x \in DOMAIN f /\ M[k] = f[s \o x]
      BY <1>1, <1>2, <3>1
    <3>7. QED
      BY <1>2, <3>4, <3>5, <3>6 DEF TrueNames
  <2>4. QED
    BY <2>2, <2>3
<1>3. TrueNames(M)
  BY <1>2 DEF TrueNames
<1>4. QED
  BY <1>3 DEF M, Renamed

\* Adding entries that are no temporary files, or hold what their names say, does too.
LEMMA AddedTrue ==
    ASSUME NEW f, TrueNames(f), NEW g, NEW h, DOMAIN h \subseteq DOMAIN f \cup DOMAIN g,
           \A k \in DOMAIN h : h[k] = IF k \in DOMAIN g THEN g[k] ELSE f[k],
           \A k \in DOMAIN g : k = Root \/ NoTmp(k)
    PROVE  TrueNames(h)
BY DEF TrueNames, NoTmp

\* What COPY creates has plain names at and below its target.
LEMMA CopiedPlain ==
    ASSUME IInv, Types, NEW r, Requested(r), Op(r).kind # "PROPPATCH"
    PROVE  \A k \in DOMAIN Copied(r) : k \in Plain /\ Within(Target(r), k)
<1> DEFINE s == Source(r)
           d == Target(r)
           listed == {d \o Suffix(q, s) : q \in Entries(rows, s)}
           all == listed \cup {q \in UNION {ParentPaths(k) : k \in listed} : Descendant(d, q) \/ q = d}
<1>1. s \in Plain /\ d \in Plain /\ s \in Seq(Nat) /\ d \in Seq(Nat) /\ DOMAIN rows \subseteq Plain
  BY PlainOp, PlainPaths DEF Types
<1>2. DOMAIN Copied(r) \subseteq all \cup {d}
  BY DEF Copied
<1>3. ASSUME NEW k \in listed PROVE k \in Plain /\ Within(d, k)
  <2>1. PICK q \in Entries(rows, s) : k = d \o Suffix(q, s)
    BY <1>3
  <2>2. q \in Plain /\ Within(s, q) /\ q \in Seq(Nat)
    BY <1>1, <2>1, EntriesAt, PlainPaths
  <2> HIDE DEF s, d
  <2>3. k \in Plain
    BY <1>1, <2>1, <2>2, PlainPaths
  <2>4. Suffix(q, s) \in Seq(Nat)
    BY <1>1, <2>2, WhatIsLeft
  <2>5. Within(d, k)
    BY <1>1, <2>1, <2>4, Followed
  <2>6. QED
    BY <2>3, <2>5
<1>4. ASSUME NEW k \in all \cup {d} PROVE k \in Plain /\ Within(d, k)
  <2>1. CASE k \in listed
    BY <1>3, <2>1
  <2>2. CASE k = d
    BY <1>1, <2>2 DEF Within
  <2>3. CASE k \in {q \in UNION {ParentPaths(l) : l \in listed} : Descendant(d, q) \/ q = d}
    <3>1. PICK l \in listed : k \in ParentPaths(l)
      BY <2>3
    <3>2. k \in Plain
      BY <1>3, <3>1, PlainPaths
    <3>3. QED
      BY <2>3, <3>2 DEF Within
  <2>4. QED
    BY <1>4, <2>1, <2>2, <2>3
<1>5. QED
  BY <1>2, <1>4

\* The names of a request that none is a temporary file's, and its paths are sequences.
LEMMA OwnNoTmp ==
    ASSUME IInv, NEW r \in Req, req[r].pc # "idle", Op(r).kind # "PROPPATCH"
    PROVE  /\ Requested(r)
           /\ NoTmp(Source(r)) /\ NoTmp(Target(r)) /\ NoTmp(Backup(r))
           /\ Source(r) \in Seq(Nat) /\ Target(r) \in Seq(Nat)
           /\ Backup(r) \in Seq(Nat) /\ Tmp(r) \in Seq(Nat)
<1>1. Requested(r)
  BY DEF IInv, Good, Typed
<1>2. Source(r) \in Plain /\ Target(r) \in Plain /\ Source(r) # Root /\ Target(r) # Root
  BY <1>1, PlainOp
<1>3. QED
  BY <1>1, <1>2, PlainNoTmp, BackupNoTmp, OwnNames, PlainPaths

\* Only the content a temporary file's name says gets under that name.
LEMMA TmpBegun ==
    ASSUME IInv, Types, TmpTrue, NEW r \in Req, NEW o \in Ops, Begin(r, o)
    PROVE  TmpTrue'
<1>1. TrueNames(fs)
  BY DEF TmpTrue, TrueNames
<1>2. CASE o.kind # "PUT"
  BY <1>2 DEF Begin, TmpTrue
<1>3. CASE o.kind = "PUT"
  <2> DEFINE p == o.path
             n == issued + 1
             u == 20 * n + 10
             z == TmpName(p, n)
             S == [k \in {z} |-> n]
  <2>1. fs' = Inserted(fs, S) /\ n \in Nat \ {0}
    BY <1>3 DEF Begin, IInv
  <2>2. p \in Plain /\ p # Root
    BY <1>3, TreeAssumption, PlainPaths DEF ValidOp
  <2>3. u \in Nat /\ u >= 10 /\ z = Beside(p, u)
    BY <2>1 DEF TmpName
  <2> DEFINE x == p[Len(p)]
             y == z[Len(z)]
  <2>4. x \in 0..9 /\ y = u + x
    <3>1. Len(z) = Len(p) /\ x \in 0..9 /\ z[Len(p)] = u + x
      <4> HIDE DEF p, u, z
      <4>1. QED
        BY <2>2, <2>3, OddName
    <3>2. QED
      BY <3>1
  <2>5. ASSUME NEW m \in 1..MaxOps, y \in 20 * m + 10 .. 20 * m + 19
        PROVE  m = n
    <3>1. y = 20 * n + 10 + x /\ m \in Nat
      BY <2>4, TreeAssumption
    <3> HIDE DEF x, y, n
    <3>2. QED
      BY <2>1, <2>4, <2>5, <3>1
  <2>6. DOMAIN Inserted(fs, S) = DOMAIN fs \cup {z}
        /\ \A k \in DOMAIN Inserted(fs, S) : Inserted(fs, S)[k] = IF k \in DOMAIN fs THEN fs[k] ELSE n
    BY DEF Inserted
  <2>7. ASSUME NEW k \in DOMAIN fs', NEW m \in 1..MaxOps, k # Root, k[Len(k)] \in 20 * m + 10 .. 20 * m + 19
        PROVE  fs'[k] = m
    <3>1. CASE k \in DOMAIN fs
      <4>1. fs'[k] = fs[k]
        BY <2>1, <2>6, <2>7, <3>1
      <4>2. QED
        BY <1>1, <2>7, <3>1, <4>1 DEF TrueNames
    <3>2. CASE k \notin DOMAIN fs
      <4>1. k = z /\ fs'[k] = n
        BY <2>1, <2>6, <2>7, <3>2
      <4>2. QED
        BY <2>5, <2>7, <4>1
    <3>3. QED
      BY <3>1, <3>2
  <2>8. QED
    BY <2>7 DEF TmpTrue
<1>4. QED
  BY <1>2, <1>3

\* The steps of a request that works keep temporary files apart from the names of others.
LEMMA TmpStays ==
    ASSUME IInv, Types, TmpTrue, NEW r \in Req,
           Save(r) \/ Place(r) \/ Refuse(r) \/ Clean(r) \/ Undo(r)
    PROVE  TmpTrue'
<1> DEFINE s == Source(r)
           d == Target(r)
           b == Backup(r)
           t == Tmp(r)
<1>1. TrueNames(fs) /\ DOMAIN fs \subseteq Seq(Nat)
  BY DEF TmpTrue, TrueNames, Types, IsTree
<1>2. req[r].pc # "idle"
  BY DEF Save, Place, Refuse, Clean, Undo
<1>3. SUFFICES TrueNames(fs')
  BY DEF TmpTrue, TrueNames
<1>4. Op(r).kind # "PROPPATCH" =>
        /\ Requested(r) /\ NoTmp(s) /\ NoTmp(d) /\ NoTmp(b)
        /\ s \in Seq(Nat) /\ d \in Seq(Nat) /\ b \in Seq(Nat) /\ t \in Seq(Nat)
  BY <1>2, OwnNoTmp
<1>5. ASSUME NEW f, TrueNames(f), DOMAIN f \subseteq Seq(Nat), Op(r).kind # "PROPPATCH"
      PROVE  /\ \A p : TrueNames(Removed(f, p)) /\ DOMAIN Removed(f, p) \subseteq Seq(Nat)
             /\ \A x \in Seq(Nat), y \in {s, d, b} :
                   TrueNames(Moved(f, x, y)) /\ TrueNames(Renamed(f, x, y))
                   /\ DOMAIN Renamed(f, x, y) \subseteq Seq(Nat)
  <2>1. \A p : TrueNames(Removed(f, p)) /\ DOMAIN Removed(f, p) \subseteq Seq(Nat)
    BY <1>5, RemovedTrue, RemovedAt
  <2>2. ASSUME NEW x \in Seq(Nat), NEW y \in {s, d, b}
        PROVE  /\ TrueNames(Moved(f, x, y)) /\ TrueNames(Renamed(f, x, y))
               /\ DOMAIN Renamed(f, x, y) \subseteq Seq(Nat)
    <3>1. y \in Seq(Nat) /\ NoTmp(y)
      BY <1>4, <1>5
    <3>2. QED
      BY <1>5, <3>1, MovedTrue, MovedAt DEF Renamed
  <2>3. QED
    BY <2>1, <2>2
<1>6. CASE Op(r).kind = "PROPPATCH"
  <2>1. ~ Save(r) /\ ~ Place(r)
    BY <1>6 DEF Types, Sorted, Save, Place
  <2>2. ~ req[r].saved
    BY <1>6 DEF Types, Sorted
  <2>3. fs' = fs
    BY <1>6, <2>1, <2>2 DEF Refuse, WithoutTmp, Clean, Undo
  <2>4. QED
    BY <1>1, <2>3
<1>7. CASE Op(r).kind # "PROPPATCH" /\ Save(r)
  <2>1. fs' = Moved(fs, d, b)
    BY <1>7 DEF Save
  <2>2. QED
    BY <1>1, <1>4, <1>5, <1>7, <2>1
<1>8. CASE Op(r).kind # "PROPPATCH" /\ Place(r)
  <2>1. CASE Op(r).kind = "PUT"
    <3>1. fs' = Moved(fs, t, s)
      BY <1>8, <2>1 DEF Place
    <3>2. QED
      BY <1>1, <1>4, <1>5, <1>8, <3>1
  <2>2. CASE Op(r).kind = "MKCOL"
    <3> DEFINE S == [k \in {s} |-> Dir]
    <3>1. fs' = Inserted(fs, S)
      BY <1>8, <2>2 DEF Place
    <3>2. s # Root /\ IsDir(fs, Parent(s)) /\ s \notin DOMAIN fs
      <4>1. s # Root
        BY <1>4, <1>8, OpPaths
      <4>2. s = d
        BY <1>4, <1>8, <2>2, OpPaths DEF Pairs
      <4>3. QED
        BY <1>8, <2>2, <4>1, <4>2 DEF Place, CanPlace, Placeable, Exists
    <3>3. DOMAIN Inserted(fs, S) = DOMAIN fs \cup {s}
          /\ \A k \in DOMAIN Inserted(fs, S) : Inserted(fs, S)[k] = IF k \in DOMAIN S THEN S[k] ELSE fs[k]
      BY <3>2 DEF Inserted
    <3>4. \A k \in DOMAIN S : NoTmp(k)
      BY <1>4, <1>8
    <3> HIDE DEF S
    <3>5. QED
      BY <1>1, <3>1, <3>3, <3>4, AddedTrue DEF S
  <2>3. CASE Op(r).kind = "MOVE"
    <3>1. fs' = Moved(fs, s, d)
      BY <1>8, <2>3 DEF Place
    <3>2. QED
      BY <1>1, <1>4, <1>5, <1>8, <3>1
  <2>4. CASE Op(r).kind \in {"COPY", "COPY0"}
    <3> DEFINE C == Copied(r)
    <3>1. fs' = Inserted(C, fs)
      BY <1>8, <2>4 DEF Place
    <3>2. \A k \in DOMAIN C : k \in Plain
      BY <1>4, <1>8, CopiedPlain
    <3>3. \A k \in DOMAIN C : k = Root \/ NoTmp(k)
      BY <3>2, PlainNoTmp
    <3>4. DOMAIN Inserted(C, fs) = DOMAIN fs \cup DOMAIN C
          /\ \A k \in DOMAIN Inserted(C, fs) : Inserted(C, fs)[k] = IF k \in DOMAIN C THEN C[k] ELSE fs[k]
      BY DEF Inserted
    <3> HIDE DEF C
    <3>5. QED
      BY <1>1, <3>1, <3>3, <3>4, AddedTrue
  <2>5. Op(r).kind \in {"PUT", "MKCOL", "MOVE", "COPY", "COPY0"}
    <3>1. Op(r).kind \in Kinds /\ Op(r).kind # "DELETE"
      BY <1>4, <1>8, OpPaths DEF Types, Sorted, Place
    <3>2. QED
      BY <1>8, <3>1 DEF Kinds
  <2>6. QED
    BY <2>1, <2>2, <2>3, <2>4, <2>5
<1>9. CASE Op(r).kind # "PROPPATCH" /\ (Refuse(r) \/ Clean(r))
  <2>1. \/ fs' = fs
        \/ \E p : fs' = Removed(fs, p)
    BY <1>9 DEF Refuse, WithoutTmp, Clean
  <2>2. QED
    BY <1>1, <1>5, <1>9, <2>1
<1>10. CASE Op(r).kind # "PROPPATCH" /\ Undo(r)
  <2> DEFINE emptied == IF req[r].placed /\ Entries(fs, d) = {d} THEN Removed(fs, d) ELSE fs
             movedBack == IF req[r].placed THEN Renamed(fs, d, s) ELSE fs
  <2>1. fs' = CASE Op(r).kind = "PUT" -> Removed(IF req[r].saved THEN Renamed(emptied, b, d) ELSE emptied, t)
                [] Op(r).kind \in {"MKCOL", "PROPPATCH"} -> fs
                [] Op(r).kind = "DELETE" -> IF req[r].saved THEN Restored(fs, r) ELSE fs
                [] Op(r).kind = "MOVE" -> IF req[r].saved THEN Restored(movedBack, r) ELSE movedBack
                [] OTHER -> IF req[r].saved THEN Restored(fs, r) ELSE Removed(fs, d)
    BY <1>10 DEF Undo
  <2>2. TrueNames(emptied) /\ DOMAIN emptied \subseteq Seq(Nat)
    BY <1>1, <1>5, <1>10
  <2>3. TrueNames(movedBack) /\ DOMAIN movedBack \subseteq Seq(Nat)
    BY <1>1, <1>4, <1>5, <1>10
  <2> HIDE DEF emptied, movedBack
  <2>4. ASSUME NEW f, TrueNames(f), DOMAIN f \subseteq Seq(Nat) PROVE TrueNames(Restored(f, r))
    <3> DEFINE g == Removed(f, d)
    <3>1. TrueNames(g) /\ DOMAIN g \subseteq Seq(Nat)
      BY <1>5, <1>10, <2>4
    <3>2. Restored(f, r) = Renamed(g, b, d)
      BY DEF Restored
    <3> HIDE DEF g
    <3>3. QED
      BY <1>4, <1>5, <1>10, <3>1, <3>2
  <2>5. TrueNames(Restored(fs, r)) /\ TrueNames(Restored(movedBack, r)) /\ TrueNames(Removed(fs, d))
    BY <1>1, <1>5, <1>10, <2>3, <2>4
  <2>6. CASE Op(r).kind = "PUT"
    <3> DEFINE g == IF req[r].saved THEN Renamed(emptied, b, d) ELSE emptied
    <3>1. TrueNames(g) /\ DOMAIN g \subseteq Seq(Nat)
      BY <1>4, <1>5, <1>10, <2>2
    <3>2. fs' = Removed(g, t)
      BY <2>1, <2>6
    <3> HIDE DEF g
    <3>3. QED
      BY <3>1, <3>2, RemovedTrue
  <2>7. CASE Op(r).kind # "PUT"
    <3>1. fs' \in {fs, Restored(fs, r), Restored(movedBack, r), movedBack, Removed(fs, d)}
      BY <2>1, <2>7
    <3>2. QED
      BY <1>1, <2>3, <2>5, <3>1
  <2>8. QED
    BY <2>6, <2>7
<1>11. QED
  BY <1>6, <1>7, <1>8, <1>9, <1>10

\* Nobody loses a session, and numbers stay different, when one request goes on or ends.
LEMMA NumbersStay ==
    ASSUME IInv, Safe, NEW r \in Req, Others(r), req'[r].alive = TRUE, issued' = issued,
           req'[r].pc = "idle" \/ (req[r].pc # "idle" /\ req'[r].num = req[r].num)
    PROVE  (\A q \in Req : req'[q].alive) /\ Numbers'
<1>1. \A q \in Req : req'[q].pc # "idle" => req[q].pc # "idle" /\ req'[q].num = req[q].num
  BY DEF Others
<1>2. \A q \in Req : req'[q].alive
  BY DEF Others, Safe
<1>3. Numbers'
  BY <1>1 DEF Safe, Numbers
<1>4. QED
  BY <1>2, <1>3

\* A step of a request at work that leaves the rows alone: what has to be shown of it.
LEMMA OwnStep ==
    ASSUME IInv, Types, Types', NEW r \in Req, Safe, Others(r), Working(r), Working(r)' => Kept(r),
           SameDisk(Region(r), fs, fs'), rows' = rows,
           \A p \in DOMAIN rows : Concerns(r, p) =>
              IF Working(r)' THEN At(Spot(r, p), rows[p].data)' ELSE At(p, rows[p].data)',
           Fit(r)'
    PROVE  Backed' /\ \A q \in Req : Fit(q)'
<1> DEFINE Z == Region(r)
<1>1. \A q \in Req : req[q].alive
  BY DEF Safe
<1>2. /\ \A k \in Plain : ~ Concerns(r, k) => Free(Z, k)
      /\ \A q \in Req \ {r} : Working(q) => Foreign(q, Z)
  BY <1>1, RegionForeign DEF Safe
<1>3. Untouched(Z)
  BY DEF SameDisk, Untouched
<1> HIDE DEF Z
<1>4. QED
  BY <1>2, <1>3, Assemble

\* What r relies on at the paths it has to do with, before its step.
LEMMA Own ==
    ASSUME Safe, NEW r \in Req, Working(r)
    PROVE  /\ \A p \in DOMAIN rows : Concerns(r, p) => At(Spot(r, p), rows[p].data)
           /\ Past(r) /\ Op(r).kind # "PROPPATCH" => DiskFits(r) /\ RowsFit(r)
BY DEF Safe, Backed, Fit

\* A PROPPATCH has to do with properties only.
LEMMA PropStep ==
    ASSUME IInv, Types, Types', NEW r \in Req, Safe, Working(r), Op(r).kind = "PROPPATCH",
           Check(r) \/ Refuse(r) \/ Commit(r) \/ Clean(r) \/ Fail(r) \/ Undo(r)
    PROVE  Backed' /\ \A q \in Req : Fit(q)'
<1>1. Others(r) /\ (Working(r)' => Kept(r))
  BY StepFields, EndFields DEF Working
<1>2. ~ req[r].saved
  BY DEF Types, Sorted
<1>3. fs' = fs
  BY <1>2 DEF Check, Refuse, WithoutTmp, Commit, Clean, Fail, Undo
<1>4. rows' = rows
  BY DEF Check, Refuse, Commit, Apply, NewRows, Clean, Fail, Undo
<1>5. Working(r)' => (Op(r).kind = "PROPPATCH")' /\ ~ req'[r].saved
  BY <1>1 DEF Kept, Op, Types, Sorted
<1>6. /\ \A p : Spot(r, p) = p
      /\ Working(r)' => \A p : Spot(r, p)' = p
  BY <1>2, <1>5 DEF Spot, Aside, MovedOver
<1>7. \A p \in DOMAIN rows : Concerns(r, p) =>
         IF Working(r)' THEN At(Spot(r, p), rows[p].data)' ELSE At(p, rows[p].data)'
  BY <1>3, <1>4, <1>6, Own DEF At
<1>8. Fit(r)'
  BY <1>5 DEF Fit, Past, Working
<1>9. SameDisk(Region(r), fs, fs')
  BY <1>3 DEF SameDisk
<1>10. QED
  BY <1>1, <1>4, <1>7, <1>8, <1>9, OwnStep

\* Under its locks a request finds the disk as the rows say.
LEMMA CheckSafe ==
    ASSUME IInv, Types, Types', NEW r \in Req, Safe, Check(r), Op(r).kind # "PROPPATCH"
    PROVE  Backed' /\ \A q \in Req : Fit(q)'
<1> DEFINE s == Source(r)
           d == Target(r)
<1>1. /\ Working(r) /\ Others(r) /\ Kept(r) /\ req'[r].isDir = IsDir(fs, s)
      /\ req'[r].saved = req[r].saved /\ req'[r].placed = req[r].placed
      /\ req'[r].pc = IF Exists(r) THEN "saving" ELSE "placing"
  BY StepFields DEF Check, Working
<1>2. req[r].pc = "checking" /\ Acceptable(r) /\ fs' = fs /\ rows' = rows
  BY DEF Check
<1>3. Requested(r) /\ ~ req[r].saved /\ ~ req[r].placed /\ IsTree(fs)
      /\ DOMAIN rows \subseteq Plain
  BY <1>2 DEF IInv, Good, Typed, Types, Sorted
<1>4. /\ s \in Seq(Nat) /\ d \in Seq(Nat) /\ s # Root /\ d # Root
      /\ Op(r).kind \in Kinds /\ (Op(r).kind \notin Pairs => s = d)
      /\ Tmp(r) # Root /\ Parent(Tmp(r)) = Parent(s)
  BY <1>3, OpPaths, OwnNames
<1>5. \A p \in DOMAIN rows : Concerns(r, p) => p \in DOMAIN fs /\ fs[p] = rows[p].data
  <2>1. \A p : Spot(r, p) = p
    BY <1>2 DEF Spot, Aside, MovedOver
  <2>2. QED
    BY <1>1, <2>1, Own DEF At
<1>6. \A p : Spot(r, p)' = p
  BY <1>1, <1>3 DEF Spot, Aside, MovedOver
<1>7. IsDir(fs, Parent(s)) /\ IsDir(fs, Parent(d))
  <2>1. CASE Op(r).kind = "PUT"
    BY <1>2, <1>3, <1>4, <2>1 DEF Acceptable, IsTree, Pairs
  <2>2. CASE Op(r).kind = "MKCOL"
    BY <1>2, <1>4, <2>2 DEF Acceptable, Pairs
  <2>3. CASE Op(r).kind = "DELETE"
    BY <1>2, <1>3, <1>4, <2>3 DEF Acceptable, IsTree, Pairs, Exists
  <2>4. CASE Op(r).kind \in Pairs
    <3>1. s \in DOMAIN fs /\ IsDir(fs, Parent(d))
      BY <1>2, <2>4 DEF Acceptable, Pairs
    <3>2. QED
      BY <1>3, <1>4, <3>1 DEF IsTree
  <2>5. QED
    BY <1>4, <2>1, <2>2, <2>3, <2>4 DEF Kinds, Pairs
<1>8. Op(r)' = Op(r) /\ Source(r)' = s /\ Target(r)' = d
  BY <1>1 DEF Kept, Op, Source, Target
<1>9. DiskFits(r)'
  <2>1. IsDir(fs, Parent(Source(r)))' /\ IsDir(fs, Parent(Target(r)))'
    BY <1>2, <1>7, <1>8
  <2>2. /\ req'[r].pc \in {"saving", "placing"} /\ ~ req'[r].placed /\ ~ Aside(r)'
        /\ req'[r].pc = "placing" => d \notin DOMAIN fs'
    BY <1>1, <1>2, <1>3 DEF Exists, Aside
  <2>3. QED
    BY <1>8, <2>1, <2>2 DEF DiskFits
<1>10. RowsFit(r)'
  <2>1. ASSUME req'[r].pc = "placing", NEW p \in DOMAIN rows, Within(d, p) PROVE FALSE
    <3>1. d \notin DOMAIN fs /\ p \in DOMAIN fs
      BY <1>1, <1>5, <2>1 DEF Exists, Concerns
    <3>2. QED
      BY <1>3, <1>4, <2>1, <3>1, NothingBelow DEF IsDir
  <2>2. ASSUME ~ req'[r].isDir, NEW p \in DOMAIN rows, Descendant(s, p) PROVE FALSE
    <3>1. ~ IsDir(fs, s) /\ p \in DOMAIN fs
      BY <1>1, <1>5, <2>2 DEF Concerns, Within
    <3>2. QED
      BY <1>3, <1>4, <2>2, <3>1, NothingBelow
  <2>3. ASSUME Op(r).kind = "PUT" PROVE ~ req'[r].isDir
    <3>1. ~ IsDir(fs, s)
      BY <1>2, <2>3 DEF Acceptable, Pairs
    <3>2. QED
      BY <1>1, <3>1
  <2>4. Op(r).kind = "MKCOL" => ~ req'[r].saved /\ req'[r].pc # "saving"
    <3>1. ~ req'[r].saved
      BY <1>1, <1>3
    <3>2. ASSUME Op(r).kind = "MKCOL" PROVE ~ Exists(r)
      BY <1>2, <3>2 DEF Acceptable, Pairs
    <3>3. ASSUME Op(r).kind = "MKCOL" PROVE req'[r].pc # "saving"
      <4>1. ~ Exists(r)
        BY <3>2, <3>3
      <4>2. req'[r].pc = "placing"
        BY <1>1, <4>1
      <4>3. QED
        BY <4>2
    <3>4. QED
      BY <3>1, <3>3
  <2>5. QED
    BY <1>1, <1>2, <1>8, <2>1, <2>2, <2>3, <2>4 DEF RowsFit
<1>11. Fit(r)'
  BY <1>9, <1>10 DEF Fit
<1>12. \A p \in DOMAIN rows : Concerns(r, p) => At(Spot(r, p), rows[p].data)'
  BY <1>2, <1>5, <1>6 DEF At
<1>13. Working(r)'
  BY <1>1 DEF Working
<1>14. SameDisk(Region(r), fs, fs')
  BY <1>2 DEF SameDisk
<1>15. QED
  BY <1>1, <1>2, <1>11, <1>12, <1>13, <1>14, OwnStep

\* A request that gives up before it has changed anything, or ends after its commit, removes
\* its own temporary file or backup only.
LEMMA EndSafe ==
    ASSUME IInv, Types, Types', NEW r \in Req, Safe, Working(r), Op(r).kind # "PROPPATCH",
           Refuse(r) \/ Clean(r)
    PROVE  Backed' /\ \A q \in Req : Fit(q)'
<1>1. Others(r) /\ ~ Working(r)' /\ ~ Past(r)'
  BY EndFields DEF Working, Past
<1>2. rows' = rows /\ \E x \in {Backup(r), Tmp(r)} : fs' = Removed(fs, x) \/ fs' = fs
  BY DEF Refuse, WithoutTmp, Clean
<1>3. PICK x \in {Backup(r), Tmp(r)} : SameDisk({x}, fs, fs')
  <2>1. SameDisk({Backup(r)}, fs, fs)
    BY DEF SameDisk
  <2>2. QED
    BY <1>2, <2>1, RemovedSame
<1>4. req[r].pc \in {"checking", "saving", "cleaning"}
  BY DEF Refuse, Clean, Working
<1>5. \A p : Spot(r, p) = p
  BY <1>4 DEF Spot, Aside, MovedOver
<1>6. /\ Requested(r) /\ DOMAIN rows \subseteq Plain
      /\ \A k \in Plain : ~ Within(Backup(r), k) /\ ~ Within(Tmp(r), k)
  <2> DEFINE s == Source(r)
             d == Target(r)
             a == 20 * req[r].num
             b == 20 * req[r].num + 10
  <2>1. Requested(r) /\ DOMAIN rows \subseteq Plain
    BY <1>4 DEF IInv, Good, Typed, Types
  <2>2. /\ a \in Nat /\ a >= 10 /\ b \in Nat /\ b >= 10
        /\ Backup(r) = Beside(d, a) /\ Tmp(r) = Beside(s, b)
        /\ s \in Plain /\ d \in Plain /\ s # Root /\ d # Root
    BY <2>1, OwnOddNames, PlainOp
  <2> HIDE DEF s, d, a, b
  <2>3. QED
    BY <2>1, <2>2, OddName
<1>7. \A p \in DOMAIN rows : Concerns(r, p) => At(p, rows[p].data)'
  <2>1. ASSUME NEW p \in DOMAIN rows, Concerns(r, p) PROVE At(p, rows[p].data)'
    <3>1. At(p, rows[p].data)
      BY <1>5, <2>1, Own
    <3>2. p \in Seq(Nat) /\ Free({x}, p)
      BY <1>6, PlainPaths DEF Free
    <3>3. QED
      BY <1>2, <1>3, <3>1, <3>2 DEF SameDisk, At
  <2>2. QED
    BY <2>1
<1>8. SameDisk(Region(r), fs, fs')
  BY <1>3 DEF SameDisk, Free, Region
<1>9. Fit(r)'
  BY <1>1 DEF Fit
<1>10. QED
  BY <1>1, <1>2, <1>7, <1>8, <1>9, OwnStep

\* What is set aside is at the backup's name, as it was under its own.
LEMMA SaveSafe ==
    ASSUME IInv, Types, Types', NEW r \in Req, Safe, Save(r)
    PROVE  Backed' /\ \A q \in Req : Fit(q)'
<1> DEFINE s == Source(r)
           d == Target(r)
           b == Backup(r)
<1>1. /\ Working(r) /\ Past(r) /\ Others(r) /\ Kept(r) /\ req'[r].isDir = req[r].isDir
      /\ req'[r].saved = TRUE /\ req'[r].placed = req[r].placed
      /\ req'[r].pc = IF Op(r).kind = "DELETE" THEN "committing" ELSE "placing"
      /\ req[r].pc = "saving"
  BY StepFields DEF Save, Working, Past
<1>2. rows' = rows /\ fs' = Moved(fs, d, b) /\ CanSave(r)
  BY DEF Save
<1>3. Op(r).kind # "PROPPATCH" /\ DOMAIN fs \subseteq Seq(Nat) /\ DOMAIN rows \subseteq Plain
  BY <1>1 DEF Types, Sorted, IsTree
<1>4. DiskFits(r) /\ RowsFit(r)
  BY <1>1, <1>3, Own
<1>5. ~ req[r].placed /\ Op(r).kind # "MKCOL" /\ d \in DOMAIN fs
  BY <1>1, <1>2, <1>4 DEF DiskFits, RowsFit, CanSave, CanRename
<1>6. /\ s \in Seq(Nat) /\ d \in Seq(Nat) /\ b \in Seq(Nat)
      /\ Parent(s) \in Seq(Nat) /\ Parent(d) \in Seq(Nat)
      /\ Free({s, d, b, Tmp(r)}, Parent(s)) /\ Free({s, d, b, Tmp(r)}, Parent(d))
      /\ \A k \in Plain : Free({b, Tmp(r)}, k)
      /\ d \in Plain
  BY <1>1, <1>3, OwnApart
<1>7. Op(r)' = Op(r) /\ Source(r)' = s /\ Target(r)' = d /\ Backup(r)' = b
  BY <1>1 DEF Kept, Op, Source, Target, Backup
<1>8. SameDisk({d, b}, fs, fs')
  BY <1>2, <1>3, <1>6, MovedSame
<1>9. /\ \A k \in Seq(Nat) : ~ Within(b, k) => (k \in DOMAIN fs' <=> k \in DOMAIN fs /\ ~ Within(d, k))
      /\ \A x \in Seq(Nat) : /\ b \o x \in DOMAIN fs' <=> d \o x \in DOMAIN fs
                             /\ d \o x \in DOMAIN fs => fs'[b \o x] = fs[d \o x]
  <2> DEFINE M == Moved(fs, d, b)
  <2>1. /\ \A k \in Seq(Nat) : ~ Within(b, k) => (k \in DOMAIN M <=> k \in DOMAIN fs /\ ~ Within(d, k))
        /\ \A x \in Seq(Nat) : /\ b \o x \in DOMAIN M <=> d \o x \in DOMAIN fs
                               /\ d \o x \in DOMAIN fs => M[b \o x] = fs[d \o x]
    <3>1. DOMAIN fs \subseteq Seq(Nat) /\ d \in Seq(Nat) /\ b \in Seq(Nat)
      BY <1>3, <1>6
    <3> HIDE DEF d, b
    <3>2. QED
      BY ZenonT(60), <3>1, MovedAt
  <2>2. fs' = M
    BY <1>2
  <2> HIDE DEF M
  <2>3. QED
    BY <2>1, <2>2
<1>10. d \notin DOMAIN fs' /\ b \in DOMAIN fs'
  <2>1. ~ Within(b, d) /\ Within(d, d)
    BY <1>6 DEF Free, Within
  <2>2. Root \in Seq(Nat) /\ b \o Root = b /\ d \o Root = d
    BY <1>6, Followed, EmptySeq DEF Root
  <2>3. QED
    BY <1>5, <1>6, <1>9, <2>1, <2>2
<1>11. IsDir(fs', Parent(s)) /\ IsDir(fs', Parent(d))
  <2>1. Free({d, b}, Parent(s)) /\ Free({d, b}, Parent(d))
    BY <1>6 DEF Free
  <2>2. IsDir(fs, Parent(s)) /\ IsDir(fs, Parent(d))
    BY <1>4 DEF DiskFits
  <2>3. QED
    BY <1>6, <1>8, <2>1, <2>2 DEF SameDisk, IsDir
<1>12. DiskFits(r)'
  <2>1. (req'[r].pc = "committing" => Op(r).kind = "DELETE") /\ req'[r].pc \in {"placing", "committing"}
    BY <1>1
  <2>2. ~ req'[r].placed
    BY <1>1, <1>5
  <2>3. QED
    BY <1>1, <1>7, <1>10, <1>11, <2>1, <2>2 DEF DiskFits
<1>13. RowsFit(r)'
  BY <1>1, <1>2, <1>4, <1>5, <1>7 DEF RowsFit
<1>14. \A p : Spot(r, p) = p
  BY <1>1 DEF Spot, Aside, MovedOver
<1>15. ASSUME NEW p \in DOMAIN rows, Concerns(r, p) PROVE At(Spot(r, p), rows[p].data)'
  <2>1. p \in DOMAIN fs /\ fs[p] = rows[p].data
    BY <1>1, <1>14, <1>15, Own DEF At
  <2>2. Aside(r)' /\ ~ MovedOver(r)'
    BY <1>1, <1>5 DEF Aside, MovedOver
  <2>3. p \in Plain /\ p \in Seq(Nat)
    BY <1>3, PlainPaths
  <2>4. CASE Within(d, p)
    <3> DEFINE x == Suffix(p, d)
    <3>1. Spot(r, p)' = b \o x
      BY <1>7, <2>2, <2>4 DEF Spot
    <3>2. x \in Seq(Nat) /\ d \o x = p
      BY <1>6, <2>3, <2>4, WhatIsLeft
    <3> HIDE DEF x
    <3>3. b \o x \in DOMAIN fs' /\ fs'[b \o x] = rows[p].data
      BY <1>9, <2>1, <3>2
    <3>4. QED
      BY <1>2, <3>1, <3>3 DEF At
  <2>5. CASE ~ Within(d, p)
    <3>1. Spot(r, p)' = p
      BY <1>7, <2>2, <2>5 DEF Spot
    <3>2. Free({d, b}, p)
      BY <1>6, <2>3, <2>5 DEF Free
    <3>3. QED
      BY <1>2, <1>8, <2>1, <2>3, <3>1, <3>2 DEF At, SameDisk
  <2>6. QED
    BY <2>4, <2>5
<1>16. SameDisk(Region(r), fs, fs')
  BY <1>3, <1>8 DEF SameDisk, Free, Region
<1>17. Working(r)' /\ Fit(r)'
  BY <1>1, <1>12, <1>13 DEF Fit, Working
<1>18. QED
  BY <1>1, <1>2, <1>15, <1>16, <1>17, OwnStep

\* What is in place stays what it is while disk and rows are left alone.
LEMMA MadeSame ==
    ASSUME NEW r, Kept(r), req'[r].isDir = req[r].isDir, fs' = fs, rows' = rows
    PROVE  Made(r)' <=> Made(r)
<1>1. /\ Op(r)' = Op(r) /\ Source(r)' = Source(r) /\ Target(r)' = Target(r) /\ Body(r)' = Body(r)
      /\ Taken(r)' = Taken(r)
  BY DEF Kept, Op, Source, Target, Body, Taken
<1>2. QED
  BY <1>1 DEF Made, At

\* A request that cannot go on starts to undo what it has done.
LEMMA FailSafe ==
    ASSUME IInv, Types, Types', NEW r \in Req, Safe, Fail(r), Op(r).kind # "PROPPATCH"
    PROVE  Backed' /\ \A q \in Req : Fit(q)'
<1>1. /\ Others(r) /\ Kept(r) /\ Marks(r) /\ req'[r].pc = "undoing"
      /\ req[r].pc \in {"placing", "committing"} /\ fs' = fs /\ rows' = rows
  <2>1. Fails(r) \/ Breaks(r)
    BY DEF Fail
  <2>2. req[r].pc \in {"placing", "committing"}
    BY <2>1 DEF Fails, Breaks
  <2>3. QED
    BY <2>2, StepFields DEF Fail
<1>2. Working(r) /\ Past(r) /\ Working(r)'
  BY <1>1 DEF Working, Past
<1>3. DiskFits(r) /\ RowsFit(r)
  BY <1>2, Own
<1>4. /\ Op(r)' = Op(r) /\ Source(r)' = Source(r) /\ Target(r)' = Target(r)
      /\ Backup(r)' = Backup(r)
  BY <1>1 DEF Kept, Op, Source, Target, Backup
<1>5. Made(r)' <=> Made(r)
  BY <1>1, MadeSame DEF Marks
<1>6. DiskFits(r)'
  <2>1. (Aside(r)' <=> Aside(r)) /\ (req'[r].placed <=> req[r].placed)
    BY <1>1 DEF Aside, Marks
  <2>2. IsDir(fs, Parent(Source(r)))' /\ IsDir(fs, Parent(Target(r)))'
    BY <1>1, <1>3, <1>4 DEF DiskFits
  <2>3. req[r].placed => Made(r)
    BY <1>1, <1>3 DEF DiskFits
  <2>4. ~ req[r].placed => Target(r) \notin DOMAIN fs
    BY <1>1, <1>3 DEF DiskFits
  <2>5. Aside(r) => Backup(r) \in DOMAIN fs
    BY <1>3 DEF DiskFits
  <2>6. QED
    BY <1>1, <1>4, <1>5, <2>1, <2>2, <2>3, <2>4, <2>5 DEF DiskFits
<1>7. RowsFit(r)'
  BY <1>1, <1>3, <1>4 DEF RowsFit, Marks
<1>8. \A p : Spot(r, p)' = Spot(r, p)
  <2>1. Aside(r)' = Aside(r)
    BY <1>1 DEF Aside, Marks
  <2>2. MovedOver(r)' = MovedOver(r)
    <3>1. req[r].pc = "placing" => ~ req[r].placed
      BY <1>3 DEF DiskFits
    <3>2. QED
      BY <1>1, <1>4, <3>1 DEF MovedOver, Marks
  <2>3. QED
    BY <1>4, <2>1, <2>2 DEF Spot
<1>9. \A p \in DOMAIN rows : Concerns(r, p) => At(Spot(r, p), rows[p].data)'
  BY <1>1, <1>2, <1>8, Own DEF At
<1>10. SameDisk(Region(r), fs, fs') /\ Fit(r)'
  BY <1>1, <1>6, <1>7 DEF SameDisk, Fit
<1>11. QED
  BY <1>1, <1>2, <1>9, <1>10, OwnStep

\* A request that has its new entry in place has it there whole.
LEMMA PlaceMade ==
    ASSUME IInv, Types, NEW r \in Req, Safe, Place(r)
    PROVE  /\ SameDisk({Source(r), Target(r), Tmp(r)}, fs, fs')
           /\ Op(r).kind = "PUT" => Target(r) \in DOMAIN fs' /\ fs'[Target(r)] = Body(r)
           /\ Op(r).kind = "MKCOL" => Target(r) \in DOMAIN fs' /\ fs'[Target(r)] = Dir
           /\ Op(r).kind = "MOVE" => Target(r) \in DOMAIN fs' /\ Source(r) \notin DOMAIN fs'
           /\ Op(r).kind = "MOVE" => \A x \in Seq(Nat) : Source(r) \o x \in DOMAIN fs =>
                 Target(r) \o x \in DOMAIN fs' /\ fs'[Target(r) \o x] = fs[Source(r) \o x]
           /\ Op(r).kind \in {"COPY", "COPY0"} => SameDisk({Target(r)}, fs, fs')
           /\ Op(r).kind \in {"COPY", "COPY0"} =>
                 IF Op(r).kind = "COPY0" /\ req[r].isDir THEN Target(r) \in DOMAIN fs' /\ fs'[Target(r)] = Dir
                 ELSE \A q \in Taken(r) \cap DOMAIN rows :
                         /\ Target(r) \o Suffix(q, Source(r)) \in DOMAIN fs'
                         /\ fs'[Target(r) \o Suffix(q, Source(r))] = rows[q].data
<1> DEFINE s == Source(r)
           d == Target(r)
           t == Tmp(r)
           b == Backup(r)
<1>1. req[r].pc = "placing" /\ CanPlace(r) /\ Placeable(r) /\ Working(r) /\ Past(r)
  BY DEF Place, CanPlace, Working, Past
<1>2. Op(r).kind # "PROPPATCH" /\ Op(r).kind # "DELETE" /\ DOMAIN fs \subseteq Seq(Nat)
      /\ RowsTyped(rows) /\ DOMAIN rows \subseteq Plain
  BY <1>1 DEF Types, Sorted, IsTree, IInv
<1>3. DiskFits(r) /\ RowsFit(r)
  BY <1>1, <1>2, Own
<1>4. d \notin DOMAIN fs /\ ~ req[r].placed
  BY <1>1, <1>3 DEF DiskFits
<1>5. /\ Requested(r) /\ s \in Seq(Nat) /\ d \in Seq(Nat) /\ t \in Seq(Nat) /\ s # Root /\ d # Root
      /\ s \in Plain /\ d \in Plain
      /\ s # d => /\ ~ Within(s, d) /\ ~ Within(d, s)
                  /\ \A k \in Seq(Nat) : ~ (Within(s, k) /\ Within(d, k))
  BY <1>1, <1>2, OwnApart
<1>6. /\ Op(r).kind \in Kinds /\ (Op(r).kind \notin Pairs => s = d)
      /\ Op(r).kind \in Pairs => ~ Within(s, d) /\ ~ Within(d, s)
  BY <1>1, PastOp
<1>7. \A X, Y : X \subseteq Y => (SameDisk(X, fs, fs') => SameDisk(Y, fs, fs'))
  BY DEF SameDisk, Free
<1>8. CASE Op(r).kind = "PUT"
  <2>1. s = d /\ fs' = Moved(fs, t, s) /\ t \in DOMAIN fs
    <3>1. CanRename(fs, t, s)
      BY <1>1, <1>8 DEF Placeable
    <3>2. QED
      BY <1>6, <1>8, <3>1 DEF Place, CanRename, Pairs
  <2>2. SameDisk({t, s}, fs, fs')
    BY <1>2, <1>5, <2>1, MovedSame
  <2>3. s \in DOMAIN fs' /\ fs'[s] = fs[t]
    <3>1. Root \in Seq(Nat) /\ s \o Root = s /\ t \o Root = t
      BY <1>5, Followed, EmptySeq DEF Root
    <3> DEFINE M == Moved(fs, t, s)
    <3>2. \A x \in Seq(Nat) : /\ s \o x \in DOMAIN M <=> t \o x \in DOMAIN fs
                              /\ t \o x \in DOMAIN fs => M[s \o x] = fs[t \o x]
      <4>1. DOMAIN fs \subseteq Seq(Nat) /\ s \in Seq(Nat) /\ t \in Seq(Nat)
        BY <1>2, <1>5
      <4> HIDE DEF s, t
      <4>2. QED
        BY ZenonT(60), <4>1, MovedAt
    <3> HIDE DEF M
    <3>3. s \in DOMAIN M /\ M[s] = fs[t]
      BY <2>1, <3>1, <3>2
    <3>4. QED
      BY <2>1, <3>3 DEF M
  <2>4. fs[t] = Body(r)
    <3> DEFINE m == req[r].num
               u == 20 * m + 10
               x == s[Len(s)]
               y == t[Len(t)]
    <3>1. u \in Nat /\ u >= 10 /\ t = Beside(s, u) /\ m \in 1..MaxOps /\ MaxOps \in Nat
      BY <1>5, <1>8, OwnOddNames, TreeAssumption DEF Requested
    <3>2. x \in 0..9 /\ y = u + x /\ t # Root
      <4>1. Len(t) = Len(s) /\ t # Root /\ x \in 0..9 /\ t[Len(s)] = u + x
        <5> HIDE DEF s, t, u
        <5>1. QED
          BY <1>5, <3>1, OddName
      <4>2. QED
        BY <4>1
    <3>3. y = 20 * m + 10 + x
      BY <3>2
    <3>4. y \in 20 * m + 10 .. 20 * m + 19
      <4> HIDE DEF x, y, m
      <4>1. QED
        BY <3>1, <3>2, <3>3
    <3>5. QED
      BY <2>1, <3>1, <3>2, <3>4 DEF Safe, TmpTrue, Body
  <2>5. QED
    BY <1>7, <1>8, <2>1, <2>2, <2>3, <2>4
<1>9. CASE Op(r).kind = "MKCOL"
  <2> DEFINE S == [k \in {s} |-> Dir]
  <2>1. s = d /\ fs' = Inserted(fs, S)
    BY <1>6, <1>9 DEF Place, Pairs
  <2>2. DOMAIN fs' = DOMAIN fs \cup {s} /\ \A k \in DOMAIN fs' : fs'[k] = IF k \in DOMAIN fs THEN fs[k] ELSE Dir
    BY <2>1 DEF Inserted
  <2>3. SameDisk({s}, fs, fs')
    BY <1>5, <2>2 DEF SameDisk, Free, Within
  <2>4. QED
    BY <1>4, <1>7, <1>9, <2>1, <2>2, <2>3
<1>10. CASE Op(r).kind = "MOVE"
  <2>1. ~ Within(s, d) /\ ~ Within(d, s) /\ s \in DOMAIN fs
    BY <1>1, <1>6, <1>10 DEF Pairs, Placeable, CanRename
  <2>2. fs' = Moved(fs, s, d)
    BY <1>10 DEF Place
  <2> DEFINE M == Moved(fs, s, d)
  <2>3. SameDisk({s, d}, fs, fs')
    BY <1>2, <1>5, <2>2, MovedSame
  <2>4. /\ \A k \in Seq(Nat) : ~ Within(d, k) => (k \in DOMAIN M <=> k \in DOMAIN fs /\ ~ Within(s, k))
        /\ \A x \in Seq(Nat) : /\ d \o x \in DOMAIN M <=> s \o x \in DOMAIN fs
                               /\ s \o x \in DOMAIN fs => M[d \o x] = fs[s \o x]
    <3>1. DOMAIN fs \subseteq Seq(Nat) /\ d \in Seq(Nat) /\ s \in Seq(Nat)
      BY <1>2, <1>5
    <3> HIDE DEF d, s
    <3>2. QED
      BY <3>1, MovedAt
  <2>5. fs' = M
    BY <2>2
  <2> HIDE DEF M
  <2>6. s \notin DOMAIN fs'
    BY <1>5, <2>1, <2>4, <2>5 DEF Within
  <2>7. Root \in Seq(Nat) /\ s \o Root = s /\ d \o Root = d
    BY <1>5, Followed, EmptySeq DEF Root
  <2>8. d \in DOMAIN fs'
    BY <2>1, <2>4, <2>5, <2>7
  <2>9. QED
    BY <1>7, <1>10, <2>3, <2>4, <2>5, <2>6, <2>8
<1>11. CASE Op(r).kind \in {"COPY", "COPY0"}
  <2> DEFINE C == Copied(r)
  <2>1. fs' = Inserted(C, fs)
    BY <1>11 DEF Place
  <2>2. /\ DOMAIN fs' = DOMAIN C \cup DOMAIN fs
        /\ \A k \in DOMAIN fs' : fs'[k] = IF k \in DOMAIN C THEN C[k] ELSE fs[k]
    BY <2>1 DEF Inserted
  <2>3. \A k \in DOMAIN C : k \in Plain /\ Within(d, k)
    BY <1>2, <1>5, CopiedPlain
  <2>4. SameDisk({d}, fs, fs')
    <3> HIDE DEF C
    <3>1. QED
      BY <2>2, <2>3 DEF SameDisk, Free
  <2>5. ASSUME NEW q \in DOMAIN rows, Within(s, q) PROVE q \in DOMAIN fs /\ fs[q] = rows[q].data
    <3>1. q \in Plain /\ q \in Seq(Nat)
      BY <1>2, PlainPaths
    <3>2. ~ Within(d, q)
      BY <1>5, <1>6, <1>11, <2>5, <3>1 DEF Pairs, Within
    <3>3. Spot(r, q) = q
      BY <1>4, <3>2 DEF Spot, MovedOver
    <3>4. QED
      BY <1>1, <2>5, <3>3, Own DEF Concerns, At
  <2>6. CASE Op(r).kind = "COPY0" /\ req[r].isDir
    <3>1. C = [k \in {d} |-> Dir]
      BY <2>6 DEF Copied
    <3>2. d \in DOMAIN C /\ C[d] = Dir
      BY <3>1
    <3> HIDE DEF C
    <3>3. d \in DOMAIN fs' /\ fs'[d] = Dir
      BY <2>2, <3>2
    <3>4. QED
      BY <1>7, <1>11, <2>4, <2>6, <3>3
  <2>7. CASE ~ (Op(r).kind = "COPY0" /\ req[r].isDir)
    <3>1. ASSUME NEW q \in Taken(r) \cap DOMAIN rows
          PROVE  d \o Suffix(q, s) \in DOMAIN fs' /\ fs'[d \o Suffix(q, s)] = rows[q].data
      <4> DEFINE k == d \o Suffix(q, s)
      <4>1. Within(s, q) /\ s \o Suffix(k, d) = q /\ q \in DOMAIN rows
        BY <1>2, <1>5, <3>1, TakenRows
      <4>2. q \in DOMAIN fs /\ fs[q] = rows[q].data
        BY <2>5, <4>1
      <4>3. SUFFICES k \in DOMAIN C /\ C[k] = rows[q].data
        <5> HIDE DEF C, k
        <5>1. ASSUME k \in DOMAIN C /\ C[k] = rows[q].data PROVE k \in DOMAIN fs' /\ fs'[k] = rows[q].data
          BY <2>2, <5>1
        <5>2. QED
          BY <5>1 DEF k
      <4>4. CASE ~ req[r].isDir
        <5>1. q = s
          BY <3>1, <4>4 DEF Taken
        <5>2. k = d
          BY <1>5, <5>1, EmptySuffix
        <5>3. C = [x \in {d} |-> fs[s]]
          BY <4>4 DEF Copied
        <5> HIDE DEF k
        <5>4. QED
          BY <4>2, <5>1, <5>2, <5>3
      <4>5. CASE req[r].isDir
        <5> DEFINE listed == {d \o Suffix(x, s) : x \in Entries(rows, s)}
                   all == listed \cup {x \in UNION {ParentPaths(l) : l \in listed} : Descendant(d, x) \/ x = d}
        <5>1. C = [x \in all |-> IF x \in listed /\ rows[s \o Suffix(x, d)].data # Dir
                                 THEN fs[s \o Suffix(x, d)] ELSE Dir]
          BY <2>7, <4>5 DEF Copied
        <5>2. q \in Entries(rows, s)
          BY <2>7, <3>1, <4>5 DEF Taken
        <5>3. k \in listed /\ k \in all
          BY <5>2
        <5> HIDE DEF k, all, listed
        <5>4. k \in DOMAIN C /\ C[k] = IF k \in listed /\ rows[s \o Suffix(k, d)].data # Dir
                                       THEN fs[s \o Suffix(k, d)] ELSE Dir
          BY <5>1, <5>3
        <5>5. QED
          BY <4>1, <4>2, <5>3, <5>4
      <4>6. QED
        BY <4>4, <4>5
    <3>2. QED
      BY <1>7, <1>11, <2>4, <2>7, <3>1
  <2>8. QED
    BY <2>6, <2>7
<1>12. QED
  BY <1>2, <1>6, <1>8, <1>9, <1>10, <1>11 DEF Kinds

\* The new entry appears, and nothing that the rows still list is lost.
LEMMA PlaceSafe ==
    ASSUME IInv, Types, Types', NEW r \in Req, Safe, Place(r)
    PROVE  Backed' /\ \A q \in Req : Fit(q)'
<1> DEFINE s == Source(r)
           d == Target(r)
           t == Tmp(r)
           b == Backup(r)
<1>1. /\ Working(r) /\ Past(r) /\ Others(r) /\ Kept(r) /\ req'[r].isDir = req[r].isDir
      /\ req'[r].saved = req[r].saved /\ req'[r].placed = TRUE
      /\ req[r].pc = "placing" /\ req'[r].pc = "committing" /\ rows' = rows
  BY StepFields DEF Place, Working, Past
<1>2. Op(r).kind # "PROPPATCH" /\ Op(r).kind # "DELETE" /\ DOMAIN fs \subseteq Seq(Nat)
      /\ RowsTyped(rows) /\ DOMAIN rows \subseteq Plain
  BY <1>1 DEF Types, Sorted, IsTree, IInv
<1>3. DiskFits(r) /\ RowsFit(r) /\ ~ req[r].placed
  BY <1>1, <1>2, Own DEF DiskFits
<1>4. /\ Requested(r) /\ s \in Seq(Nat) /\ d \in Seq(Nat) /\ b \in Seq(Nat)
      /\ Parent(s) \in Seq(Nat) /\ Parent(d) \in Seq(Nat)
      /\ Free({s, d, b, t}, Parent(s)) /\ Free({s, d, b, t}, Parent(d))
      /\ \A k \in Plain : Free({b, t}, k)
      /\ \A k \in Seq(Nat) : Within(b, k) => Free({s, d, t}, k)
      /\ s # d => \A k \in Seq(Nat) : ~ (Within(s, k) /\ Within(d, k))
  BY <1>1, <1>2, OwnApart
<1>5. Op(r).kind \in Kinds /\ (Op(r).kind \notin Pairs => s = d)
  BY <1>1, PastOp
<1>6. /\ Op(r)' = Op(r) /\ Source(r)' = s /\ Target(r)' = d /\ Backup(r)' = b /\ Body(r)' = Body(r)
      /\ Taken(r)' = Taken(r)
  BY <1>1 DEF Kept, Op, Source, Target, Backup, Body, Taken
<1>7. SameDisk({s, d, t}, fs, fs')
  BY PlaceMade
<1>8. Made(r)'
  BY <1>1, <1>6, PlaceMade, ZenonT(60) DEF Made, At
<1>9. /\ IsDir(fs', Parent(s)) /\ IsDir(fs', Parent(d))
      /\ req[r].saved => b \in DOMAIN fs'
  <2>1. Free({s, d, t}, Parent(s)) /\ Free({s, d, t}, Parent(d)) /\ Free({s, d, t}, b)
    BY <1>4 DEF Free, Within
  <2>2. /\ IsDir(fs, Parent(s)) /\ IsDir(fs, Parent(d))
        /\ req[r].saved => b \in DOMAIN fs
    BY <1>1, <1>3 DEF DiskFits, Aside
  <2>3. QED
    BY <1>4, <1>7, <2>1, <2>2 DEF SameDisk, IsDir
<1>10. DiskFits(r)'
  BY <1>1, <1>2, <1>6, <1>8, <1>9 DEF DiskFits, Aside
<1>11. RowsFit(r)'
  BY <1>1, <1>3, <1>6 DEF RowsFit
<1>12. ASSUME NEW p \in DOMAIN rows, Concerns(r, p) PROVE At(Spot(r, p), rows[p].data)'
  <2>1. At(Spot(r, p), rows[p].data)
    BY <1>1, <1>12, Own
  <2>2. p \in Plain /\ p \in Seq(Nat)
    BY <1>2, PlainPaths
  <2>3. CASE Within(d, p)
    <3>1. req[r].saved
      BY <1>1, <1>3, <2>3 DEF RowsFit
    <3> DEFINE x == Suffix(p, d)
               k == b \o x
    <3>2. Spot(r, p) = k /\ Spot(r, p)' = k
      BY <1>1, <1>6, <2>3, <3>1 DEF Spot, Aside
    <3>3. x \in Seq(Nat)
      BY <1>4, <2>2, <2>3, WhatIsLeft
    <3> HIDE DEF x
    <3>4. k \in Seq(Nat) /\ Within(b, k)
      BY <1>4, <3>3, Followed
    <3> HIDE DEF k
    <3>5. Free({s, d, t}, k)
      BY <1>4, <3>4
    <3>6. QED
      BY <1>1, <1>7, <2>1, <3>2, <3>4, <3>5 DEF SameDisk, At
  <2>4. CASE ~ Within(d, p)
    <3>1. Within(s, p) /\ Op(r).kind \in Pairs
      BY <1>5, <1>12, <2>4 DEF Concerns
    <3>2. p \in DOMAIN fs /\ fs[p] = rows[p].data
      BY <1>3, <2>1, <2>4 DEF Spot, MovedOver, At
    <3>3. CASE Op(r).kind = "MOVE"
      <4> DEFINE x == Suffix(p, s)
      <4>1. Spot(r, p)' = d \o x
        BY <1>1, <1>6, <2>4, <3>1, <3>3 DEF Spot, MovedOver
      <4>2. x \in Seq(Nat) /\ s \o x = p
        BY <1>4, <2>2, <3>1, WhatIsLeft
      <4> HIDE DEF x
      <4>3. d \o x \in DOMAIN fs' /\ fs'[d \o x] = fs[p]
        BY <3>2, <3>3, <4>2, PlaceMade
      <4>4. QED
        BY <1>1, <3>2, <4>1, <4>3 DEF At
    <3>4. CASE Op(r).kind \in {"COPY", "COPY0"}
      <4>1. Spot(r, p)' = p
        BY <1>6, <2>4, <3>4 DEF Spot, MovedOver
      <4>2. SameDisk({d}, fs, fs')
        BY <3>4, PlaceMade
      <4>3. Free({d}, p)
        BY <2>4 DEF Free
      <4>4. QED
        BY <1>1, <2>2, <3>2, <4>1, <4>2, <4>3 DEF At, SameDisk
    <3>5. QED
      BY <3>1, <3>3, <3>4 DEF Pairs
  <2>5. QED
    BY <2>3, <2>4
<1>13. SameDisk(Region(r), fs, fs')
  BY <1>2, <1>7 DEF SameDisk, Free, Region
<1>14. Working(r)' /\ Fit(r)'
  BY <1>1, <1>10, <1>11 DEF Fit, Working
<1>15. QED
  BY <1>1, <1>12, <1>13, <1>14, OwnStep

\* r's statements list nothing that is not on disk: p is none of theirs, or r's own.
NotTheirs(r, R, p) ==
    /\ p \in DOMAIN rows => p \in DOMAIN R /\ R[p].data = rows[p].data
    /\ p \in DOMAIN R \ DOMAIN rows =>
          At(p, R[p].data) /\ \A q \in Req \ {r} : ~ (Working(q) /\ Concerns(q, p))
Lists(r, R) ==
    /\ \A p \in Plain : ~ Concerns(r, p) => NotTheirs(r, R, p)
    /\ \A p \in DOMAIN R : Concerns(r, p) => At(p, R[p].data)

\* What holds when a transaction commits.
LEMMA CommitReady ==
    ASSUME IInv, Types, NEW r \in Req, Safe, Commit(r), Op(r).kind # "PROPPATCH"
    PROVE  /\ Working(r) /\ Past(r) /\ req[r].pc = "committing" /\ RowsThere(r)
           /\ rows' = NewRows(r) /\ fs' = fs
           /\ IsTree(fs) /\ RowsTyped(rows) /\ DOMAIN rows \subseteq Plain
           /\ DiskFits(r) /\ RowsFit(r)
           /\ Requested(r) /\ Op(r).kind \in Kinds /\ (Op(r).kind \notin Pairs => Source(r) = Target(r))
           /\ Source(r) \in Plain /\ Target(r) \in Plain
           /\ Source(r) \in Seq(Nat) /\ Target(r) \in Seq(Nat)
           /\ Op(r).kind \in Pairs => \A k \in Seq(Nat) : ~ (Within(Source(r), k) /\ Within(Target(r), k))
           /\ Op(r).kind # "DELETE" => Made(r)
<1>1. Working(r) /\ Past(r) /\ req[r].pc = "committing" /\ RowsThere(r) /\ rows' = NewRows(r) /\ fs' = fs
  BY DEF Commit, Apply, Working, Past
<1>2. IsTree(fs) /\ RowsTyped(rows) /\ DOMAIN rows \subseteq Plain
  BY DEF IInv, Types
<1>3. DiskFits(r) /\ RowsFit(r)
  BY <1>1, Own
<1>4. Op(r).kind # "DELETE" => Made(r)
  BY <1>1, <1>3 DEF DiskFits
<1>5. /\ Requested(r) /\ Op(r).kind \in Kinds /\ (Op(r).kind \notin Pairs => Source(r) = Target(r))
      /\ Op(r).kind \in Pairs => Source(r) # Target(r)
  BY <1>1, PastOp DEF Within
<1>6. /\ Source(r) \in Plain /\ Target(r) \in Plain
      /\ Source(r) \in Seq(Nat) /\ Target(r) \in Seq(Nat)
      /\ Op(r).kind \in Pairs => \A k \in Seq(Nat) : ~ (Within(Source(r), k) /\ Within(Target(r), k))
  BY <1>1, <1>5, OwnApart
<1>7. QED
  BY <1>1, <1>2, <1>3, <1>4, <1>5, <1>6

\* An upload's rows list what the rename put at its path.
LEMMA PutLists ==
    ASSUME IInv, Types, NEW r \in Req, Safe, Commit(r), Op(r).kind = "PUT"
    PROVE  Lists(r, PutRows(r))
<1> DEFINE s == Source(r)
           R == PutRows(r)
<1>1. /\ RowsTyped(rows) /\ s = Target(r) /\ RowsFit(r) /\ Made(r) /\ s \in Seq(Nat)
      /\ req[r].pc = "committing"
  BY CommitReady DEF Pairs
<1>2. /\ \A k : k \notin {s} => /\ k \in DOMAIN R <=> k \in DOMAIN rows
                                /\ k \in DOMAIN rows => R[k].data = rows[k].data
      /\ s \in DOMAIN R /\ R[s].data = Body(r)
  BY <1>1, PutListed DEF SameListed
<1> HIDE DEF R
<1>3. ASSUME NEW p, ~ Concerns(r, p) PROVE NotTheirs(r, R, p)
  <2>1. p # s
    BY <1>3 DEF Concerns, Within
  <2>2. QED
    BY <1>2, <2>1 DEF NotTheirs
<1>4. ASSUME NEW p \in DOMAIN R, Concerns(r, p) PROVE At(p, R[p].data)
  <2>1. CASE p = s
    BY <1>1, <1>2, <2>1 DEF Made
  <2>2. CASE p # s
    <3>1. p \in DOMAIN rows /\ Descendant(s, p)
      BY <1>1, <1>2, <1>4, <2>2 DEF Concerns, Within
    <3>2. QED
      BY <1>1, <3>1 DEF RowsFit
  <2>3. QED
    BY <2>1, <2>2
<1>5. QED
  BY <1>3, <1>4 DEF Lists, R

\* A new collection's row lists the directory that was made.
LEMMA MkcolLists ==
    ASSUME IInv, Types, NEW r \in Req, Safe, Commit(r), Op(r).kind = "MKCOL"
    PROVE  Lists(r, MkcolRows(r))
<1> DEFINE s == Source(r)
           R == MkcolRows(r)
<1>1. /\ RowsTyped(rows) /\ s = Target(r) /\ RowsFit(r) /\ Made(r) /\ s \in Seq(Nat) /\ s \in Plain
      /\ req[r].pc = "committing" /\ IsTree(fs) /\ Working(r) /\ req[r].alive
  BY CommitReady DEF Pairs, Safe
<1>2. /\ DOMAIN R = DOMAIN rows \cup (ParentPaths(s) \cup {s})
      /\ \A k \in DOMAIN R : R[k].data = IF k \in DOMAIN rows THEN rows[k].data ELSE Dir
  BY <1>1, MkcolListed
<1> HIDE DEF R
<1>3. \A a \in ParentPaths(s) : a \in Seq(Nat) /\ Descendant(a, s) /\ a \in Plain
  BY <1>1, AncestorsFinite, PlainPaths
<1>4. At(s, Dir) /\ ~ req[r].saved
  BY <1>1 DEF Made, RowsFit
<1>5. \A p \in DOMAIN rows : ~ Within(s, p)
  BY <1>1, <1>4 DEF RowsFit
<1>6. ASSUME NEW p \in Plain, ~ Concerns(r, p) PROVE NotTheirs(r, R, p)
  <2>1. p # s
    BY <1>6 DEF Concerns, Within
  <2>2. ASSUME p \in DOMAIN R \ DOMAIN rows
        PROVE  At(p, R[p].data) /\ \A q \in Req \ {r} : ~ (Working(q) /\ Concerns(q, p))
    <3>1. p \in Seq(Nat) /\ Descendant(p, s) /\ R[p].data = Dir
      BY <1>2, <1>3, <2>1, <2>2
    <3>2. IsDir(fs, p)
      BY <1>1, <1>4, <3>1, AboveIsDir DEF At
    <3>3. ASSUME NEW q \in Req \ {r}, Working(q), Concerns(q, p) PROVE FALSE
      <4>1. Requested(q) /\ req[q].alive
        BY <3>3 DEF IInv, Good, Typed, Working, Safe
      <4>2. Source(q) \in Seq(Nat) /\ Target(q) \in Seq(Nat)
        BY <4>1, OpPaths
      <4>3. Concerns(q, s)
        BY <1>1, <3>1, <3>3, <4>2, WithinOrder DEF Concerns, Within
      <4>4. ~ Concerns(r, s)
        BY <1>1, <3>3, <4>1, <4>3, OneConcern
      <4>5. QED
        BY <4>4 DEF Concerns, Within
    <3>4. QED
      BY <3>1, <3>2, <3>3 DEF At, IsDir
  <2>3. p \in DOMAIN rows => p \in DOMAIN R /\ R[p].data = rows[p].data
    BY <1>2
  <2>4. QED
    BY <2>2, <2>3 DEF NotTheirs
<1>7. ASSUME NEW p \in DOMAIN R, Concerns(r, p) PROVE At(p, R[p].data)
  <2>1. Within(s, p)
    BY <1>1, <1>7 DEF Concerns
  <2>2. p \notin DOMAIN rows
    BY <1>5, <2>1
  <2>3. p \notin ParentPaths(s)
    BY <1>1, <1>3, <2>1, WithinParent, WithinOrder DEF Within, Descendant
  <2>4. p = s /\ R[p].data = Dir
    BY <1>2, <1>7, <2>2, <2>3
  <2>5. QED
    BY <1>4, <2>4
<1>8. QED
  BY <1>6, <1>7 DEF Lists, R

\* A delete's rows no longer list what was moved to the backup.
LEMMA DeleteLists ==
    ASSUME IInv, Types, NEW r \in Req, Safe, Commit(r), Op(r).kind = "DELETE"
    PROVE  Lists(r, DeleteRows(r))
<1> DEFINE s == Source(r)
           R == DeleteRows(r)
           X == IF req[r].isDir THEN Entries(rows, s) ELSE {s}
<1>1. RowsTyped(rows) /\ s = Target(r) /\ RowsFit(r) /\ req[r].pc = "committing"
  BY CommitReady DEF Pairs
<1>2. /\ DOMAIN R = DOMAIN rows \ X
      /\ \A k \in DOMAIN R : R[k].data = rows[k].data
  BY <1>1, DeleteListed
<1>3. \A k \in X : k = s \/ Within(s, k)
  BY EntriesAt
<1>4. \A k \in DOMAIN rows : Within(s, k) => k \in X
  <2>1. ASSUME NEW k \in DOMAIN rows, Within(s, k) PROVE k \in X
    <3>1. CASE req[r].isDir
      BY <2>1, <3>1, EntriesAt
    <3>2. CASE ~ req[r].isDir
      <4>1. ~ Descendant(s, k)
        BY <1>1, <3>2 DEF RowsFit
      <4>2. QED
        BY <2>1, <3>2, <4>1 DEF Within
    <3>3. QED
      BY <3>1, <3>2
  <2>2. QED
    BY <2>1
<1> HIDE DEF R, X
<1>5. QED
  <2>1. \A p : Concerns(r, p) <=> Within(s, p)
    BY <1>1 DEF Concerns
  <2>2. \A p : ~ Within(s, p) => p \notin X
    BY <1>3 DEF Within
  <2>3. QED
    BY <1>2, <1>4, <2>1, <2>2 DEF Lists, NotTheirs, R

\* A move's rows list the moved files under their new names.
LEMMA MoveLists ==
    ASSUME IInv, Types, NEW r \in Req, Safe, Commit(r), Op(r).kind = "MOVE"
    PROVE  Lists(r, MoveRows(r))
<1> DEFINE s == Source(r)
           d == Target(r)
           R == MoveRows(r)
           Q == Cleared(r)
           T == Taken(r)
           new == {d \o Suffix(q, s) : q \in T \cap DOMAIN Q}
<1>1. /\ RowsTyped(rows) /\ RowsFit(r) /\ DiskFits(r) /\ req[r].pc = "committing"
      /\ Requested(r) /\ s \in Seq(Nat) /\ d \in Seq(Nat) /\ DOMAIN rows \subseteq Plain
      /\ Working(r)
      /\ \A k \in Seq(Nat) : ~ (Within(s, k) /\ Within(d, k))
  BY CommitReady DEF Pairs
<1>2. /\ DOMAIN R = (DOMAIN Q \ T) \cup new
      /\ \A k \in DOMAIN R : R[k].data = IF k \in new THEN rows[s \o Suffix(k, d)].data ELSE rows[k].data
  BY <1>1, MoveListed
<1>3. DOMAIN Q = IF req[r].saved THEN DOMAIN rows \ Entries(rows, d) ELSE DOMAIN rows
  BY <1>1, ClearedListed
<1>4. \A p \in DOMAIN rows : Within(d, p) => p \notin DOMAIN Q
  <2>1. CASE req[r].saved
    BY <1>3, <2>1, EntriesAt
  <2>2. CASE ~ req[r].saved
    BY <1>1, <2>2 DEF RowsFit
  <2>3. QED
    BY <2>1, <2>2
<1>5. DOMAIN Q \subseteq DOMAIN rows /\ \A p \in DOMAIN rows : ~ Within(d, p) => p \in DOMAIN Q
  BY <1>3, EntriesAt
<1>6. \A q \in T : /\ Within(s, q) /\ d \o Suffix(q, s) \in Seq(Nat) /\ Within(d, d \o Suffix(q, s))
                   /\ s \o Suffix(d \o Suffix(q, s), d) = q
  BY <1>1, TakenRows
<1>7. \A p \in DOMAIN rows : Within(s, p) => p \in T
  <2>1. ASSUME NEW p \in DOMAIN rows, Within(s, p) PROVE p \in T
    <3>1. CASE req[r].isDir
      <4>1. Op(r).kind # "COPY0"
        OBVIOUS
      <4>2. QED
        BY <2>1, <3>1, <4>1, EntriesAt DEF Taken
    <3>2. CASE ~ req[r].isDir
      <4>1. ~ Descendant(s, p)
        BY <1>1, <3>2 DEF RowsFit
      <4>2. QED
        BY <2>1, <3>2, <4>1 DEF Within, Taken
    <3>3. QED
      BY <3>1, <3>2
  <2>2. QED
    BY <2>1
<1>8. MovedOver(r)
  <2>1. req[r].placed
    BY <1>1 DEF DiskFits
  <2>2. QED
    BY <1>1, <2>1 DEF MovedOver
<1> HIDE DEF R, Q, T
<1>9. ASSUME NEW k \in new PROVE Within(d, k) /\ \E q \in DOMAIN rows : Within(s, q) /\ k = d \o Suffix(q, s) /\ s \o Suffix(k, d) = q
  <2>1. PICK q \in T \cap DOMAIN Q : k = d \o Suffix(q, s)
    BY <1>9
  <2>2. q \in DOMAIN rows
    BY <1>5, <2>1
  <2>3. QED
    BY <1>6, <2>1, <2>2
<1> HIDE DEF new
<1>10. ASSUME NEW p, ~ Concerns(r, p) PROVE NotTheirs(r, R, p)
  <2>1. ~ Within(s, p) /\ ~ Within(d, p)
    BY <1>10 DEF Concerns
  <2>2. p \notin T /\ p \notin new
    BY <1>6, <1>9, <2>1
  <2>3. QED
    BY <1>2, <1>5, <2>1, <2>2 DEF NotTheirs
<1>11. ASSUME NEW p \in DOMAIN R, Concerns(r, p) PROVE At(p, R[p].data)
  <2>1. CASE p \in new
    <3>1. PICK q \in DOMAIN rows : Within(s, q) /\ p = d \o Suffix(q, s) /\ s \o Suffix(p, d) = q
      BY <1>9, <2>1
    <3>2. R[p].data = rows[q].data
      BY <1>2, <2>1, <3>1
    <3>3. q \in Seq(Nat)
      BY <1>1, PlainPaths
    <3>4. ~ Within(d, q)
      BY <1>1, <3>1, <3>3
    <3>5. Spot(r, q) = p
      BY <1>8, <3>1, <3>4 DEF Spot
    <3>6. QED
      BY <1>1, <3>1, <3>2, <3>5, Own DEF Concerns
  <2>2. CASE p \notin new
    <3>1. p \in DOMAIN Q /\ p \notin T /\ p \in DOMAIN rows
      BY <1>2, <1>5, <1>11, <2>2
    <3>2. QED
      BY <1>4, <1>7, <1>11, <3>1 DEF Concerns
  <2>3. QED
    BY <2>1, <2>2
<1>12. QED
  BY <1>10, <1>11 DEF Lists, R

\* A copy's rows list the copied files, and none that was replaced.
LEMMA CopyLists ==
    ASSUME IInv, Types, NEW r \in Req, Safe, Commit(r), Op(r).kind \in {"COPY", "COPY0"}
    PROVE  Lists(r, CopyRows(r))
<1> DEFINE s == Source(r)
           d == Target(r)
           R == CopyRows(r)
           Q == Cleared(r)
           flat == req[r].isDir /\ Op(r).kind = "COPY0"
           from == IF flat THEN {s} ELSE IF req[r].isDir THEN Entries(rows, s) ELSE {s}
           new == {d \o Suffix(q, s) : q \in from}
<1>1. /\ RowsTyped(rows) /\ RowsFit(r) /\ req[r].pc = "committing" /\ RowsThere(r)
      /\ Requested(r) /\ s \in Seq(Nat) /\ d \in Seq(Nat) /\ DOMAIN rows \subseteq Plain
      /\ Working(r) /\ Made(r)
      /\ \A k \in Seq(Nat) : ~ (Within(s, k) /\ Within(d, k))
  BY CommitReady DEF Pairs
<1>2. /\ DOMAIN R = DOMAIN Q \cup new
      /\ \A k \in DOMAIN Q \ {d} : R[k].data = rows[k].data
      /\ \A k \in new : k \notin DOMAIN Q =>
            R[k].data = IF flat THEN Dir ELSE rows[s \o Suffix(k, d)].data
  BY <1>1, CopyListed
<1>3. DOMAIN Q = IF req[r].saved THEN DOMAIN rows \ Entries(rows, d) ELSE DOMAIN rows
  BY <1>1, ClearedListed
<1>4. \A p \in DOMAIN rows : Within(d, p) => p \notin DOMAIN Q
  <2>1. CASE req[r].saved
    BY <1>3, <2>1, EntriesAt
  <2>2. CASE ~ req[r].saved
    BY <1>1, <2>2 DEF RowsFit
  <2>3. QED
    BY <2>1, <2>2
<1>5. DOMAIN Q \subseteq DOMAIN rows /\ \A p \in DOMAIN rows : ~ Within(d, p) => p \in DOMAIN Q
  BY <1>3, EntriesAt
<1>6. \A q \in from : Within(s, q) /\ q \in Seq(Nat)
  BY <1>1, EntriesAt, PlainPaths DEF Within
<1> HIDE DEF Q, R
<1>7. ASSUME NEW q \in from
      PROVE  Within(d, d \o Suffix(q, s)) /\ s \o Suffix(d \o Suffix(q, s), d) = q
  <2> DEFINE x == Suffix(q, s)
  <2>1. Within(s, q) /\ q \in Seq(Nat)
    BY <1>6, <1>7
  <2>2. x \in Seq(Nat) /\ s \o x = q
    BY <1>1, <2>1, WhatIsLeft
  <2> HIDE DEF x
  <2>3. Within(d, d \o x) /\ Suffix(d \o x, d) = x
    BY <1>1, <2>2, Followed
  <2>4. QED
    BY <2>2, <2>3 DEF x
<1>8. ASSUME NEW q \in from, ~ flat PROVE q \in Taken(r) \cap DOMAIN rows
  <2>1. CASE req[r].isDir
    BY <1>8, <2>1, EntriesAt DEF Taken
  <2>2. CASE ~ req[r].isDir
    BY <1>1, <1>8, <2>2 DEF Taken, RowsThere
  <2>3. QED
    BY <2>1, <2>2
<1>9. ASSUME NEW p, ~ Concerns(r, p) PROVE NotTheirs(r, R, p)
  <2>1. ~ Within(d, p) /\ p # d
    BY <1>9 DEF Concerns, Within
  <2>2. p \notin new
    BY <1>7, <2>1
  <2> HIDE DEF new
  <2>3. QED
    BY <1>2, <1>5, <2>1, <2>2 DEF NotTheirs
<1>10. ASSUME NEW p \in DOMAIN R, Concerns(r, p) PROVE At(p, R[p].data)
  <2>1. CASE Within(d, p)
    <3>1. p \notin DOMAIN Q /\ p \in new
      <4> HIDE DEF new
      <4>1. QED
        BY <1>2, <1>4, <1>5, <1>10, <2>1
    <3>2. PICK q \in from : p = d \o Suffix(q, s)
      BY <3>1
    <3>3. s \o Suffix(p, d) = q
      BY <1>7, <3>2
    <3>4. CASE flat
      <4>1. q = s /\ p = d
        <5>1. q = s
          BY <3>2, <3>4
        <5>2. QED
          BY <1>1, <3>2, <5>1, EmptySuffix
      <4>2. R[p].data = Dir
        BY <1>2, <3>1, <3>4
      <4>3. At(d, Dir)
        BY <1>1, <3>4 DEF Made
      <4>4. QED
        BY <4>1, <4>2, <4>3
    <3>5. CASE ~ flat
      <4>1. R[p].data = rows[q].data
        <5> HIDE DEF new, flat
        <5>1. QED
          BY <1>2, <3>1, <3>3, <3>5
      <4>2. q \in Taken(r) \cap DOMAIN rows
        BY <1>8, <3>5
      <4>3. At(d \o Suffix(q, s), rows[q].data)
        BY <1>1, <3>5, <4>2 DEF Made
      <4>4. QED
        BY <3>2, <4>1, <4>3
    <3>6. QED
      BY <3>4, <3>5
  <2>2. CASE ~ Within(d, p)
    <3>1. p \in DOMAIN rows /\ p \in DOMAIN Q \ {d} /\ p \notin new
      <4>1. p \notin new
        BY <1>7, <2>2
      <4>2. p # d
        BY <2>2 DEF Within
      <4> HIDE DEF new
      <4>3. QED
        BY <1>2, <1>5, <1>10, <4>1, <4>2
    <3>2. R[p].data = rows[p].data
      BY <1>2, <3>1
    <3>3. Spot(r, p) = p
      BY <2>2 DEF Spot, MovedOver
    <3>4. QED
      BY <1>1, <1>10, <3>1, <3>2, <3>3, Own
  <2>3. QED
    BY <2>1, <2>2
<1>11. QED
  BY <1>9, <1>10 DEF Lists, R

\* When a transaction commits, the disk already is what it lists.
LEMMA CommitSafe ==
    ASSUME IInv, Types, Types', NEW r \in Req, Safe, Commit(r), Op(r).kind # "PROPPATCH"
    PROVE  Backed' /\ \A q \in Req : Fit(q)'
<1>1. /\ Working(r) /\ rows' = NewRows(r) /\ fs' = fs /\ DiskFits(r) /\ RowsFit(r)
      /\ Op(r).kind \in Kinds
  BY CommitReady
<1>2. Others(r) /\ Kept(r) /\ Marks(r) /\ req'[r].pc = "cleaning"
  BY StepFields
<1>3. Lists(r, rows')
  <2>1. CASE Op(r).kind = "PUT"
    BY <1>1, <2>1, PutLists DEF NewRows
  <2>2. CASE Op(r).kind = "MKCOL"
    BY <1>1, <2>2, MkcolLists DEF NewRows
  <2>3. CASE Op(r).kind = "DELETE"
    BY <1>1, <2>3, DeleteLists DEF NewRows
  <2>4. CASE Op(r).kind = "MOVE"
    BY <1>1, <2>4, MoveLists DEF NewRows
  <2>5. CASE Op(r).kind \in {"COPY", "COPY0"}
    BY <1>1, <2>5, CopyLists DEF NewRows
  <2>6. QED
    BY <1>1, <2>1, <2>2, <2>3, <2>4, <2>5 DEF Kinds
<1>4. /\ Op(r)' = Op(r) /\ Source(r)' = Source(r) /\ Target(r)' = Target(r)
      /\ \A p : Spot(r, p)' = p
  BY <1>2 DEF Kept, Op, Source, Target, Spot, Aside, MovedOver
<1>5. Fit(r)'
  <2>1. DiskFits(r)'
    BY <1>1, <1>2, <1>4 DEF DiskFits, Aside
  <2>2. RowsFit(r)'
    BY <1>1, <1>2, <1>4 DEF RowsFit, Marks
  <2>3. QED
    BY <2>1, <2>2 DEF Fit
<1> DEFINE Z == {}
<1>6. Untouched(Z) /\ (\A k : Free(Z, k)) /\ \A q : Foreign(q, Z)
  BY <1>1 DEF Untouched, Free, Foreign
<1> HIDE DEF Z
<1>7. Working(r)'
  BY <1>2 DEF Working
<1>8. \A p, v : At(p, v)' <=> At(p, v)
  BY <1>1 DEF At
<1>9. \A p \in Plain : ~ (Working(r) /\ Concerns(r, p)) =>
              /\ p \in DOMAIN rows => p \in DOMAIN rows' /\ rows'[p].data = rows[p].data
              /\ p \in DOMAIN rows' \ DOMAIN rows =>
                    /\ At(p, rows[p].data)'
                    /\ \A q \in Req \ {r} : ~ (Working(q) /\ Concerns(q, p))
  BY <1>1, <1>3 DEF Lists, NotTheirs, At
<1>10. \A p \in DOMAIN rows' : Working(r) /\ Concerns(r, p) =>
              IF Working(r)' THEN At(Spot(r, p), rows[p].data)' ELSE At(p, rows[p].data)'
  BY <1>1, <1>3, <1>4, <1>7 DEF Lists, At
<1>11. QED
  BY <1>1, <1>2, <1>5, <1>6, <1>9, <1>10, Assemble

\* What f has at and below x, g has at and below y.
Carries(f, x, g, y) ==
    \A z \in Seq(Nat) : x \o z \in DOMAIN f => y \o z \in DOMAIN g /\ g[y \o z] = f[x \o z]

\* What can be renamed back is under its old name again.
LEMMA BackAt ==
    ASSUME NEW f, DOMAIN f \subseteq Seq(Nat), NEW x \in Seq(Nat), NEW y \in Seq(Nat),
           x \in DOMAIN f, y \notin DOMAIN f, IsDir(f, Parent(y))
    PROVE  /\ SameDisk({x, y}, f, Renamed(f, x, y)) /\ DOMAIN Renamed(f, x, y) \subseteq Seq(Nat)
           /\ Carries(f, x, Renamed(f, x, y), y)
<1>1. CanRename(f, x, y)
  BY DEF CanRename
<1>2. Renamed(f, x, y) = Moved(f, x, y)
  BY <1>1 DEF Renamed
<1>3. SameDisk({x, y}, f, Renamed(f, x, y))
  BY MovedSame
<1> DEFINE M == Moved(f, x, y)
<1>4. /\ DOMAIN M \subseteq Seq(Nat)
      /\ \A z \in Seq(Nat) : /\ y \o z \in DOMAIN M <=> x \o z \in DOMAIN f
                             /\ x \o z \in DOMAIN f => M[y \o z] = f[x \o z]
  BY MovedAt
<1>5. Renamed(f, x, y) = M
  BY <1>2
<1> HIDE DEF M
<1>6. QED
  BY <1>3, <1>4, <1>5 DEF Carries

\* restoreBackedUpPath brings back what was set aside.
LEMMA RestoredAt ==
    ASSUME IInv, Types, NEW r \in Req, Past(r), Op(r).kind # "PROPPATCH",
           NEW f, DOMAIN f \subseteq Seq(Nat), Backup(r) \in DOMAIN f, IsDir(f, Parent(Target(r)))
    PROVE  /\ SameDisk({Backup(r), Target(r)}, f, Restored(f, r))
           /\ Carries(f, Backup(r), Restored(f, r), Target(r))
<1> DEFINE d == Target(r)
           b == Backup(r)
           g == Removed(f, d)
<1>1. /\ d \in Seq(Nat) /\ b \in Seq(Nat)
      /\ Free({Source(r), d, b, Tmp(r)}, Parent(d))
      /\ \A k \in Seq(Nat) : Within(b, k) => Free({Source(r), d, Tmp(r)}, k)
  BY OwnApart
<1>2. ~ Within(d, Parent(d)) /\ \A k \in Seq(Nat) : Within(b, k) => ~ Within(d, k)
  BY <1>1 DEF Free
<1>3. /\ \A k : k \in DOMAIN g <=> k \in DOMAIN f /\ ~ Within(d, k)
      /\ \A k \in DOMAIN g : g[k] = f[k]
  BY RemovedAt
<1>4. SameDisk({d}, f, g)
  BY RemovedSame
<1>5. Restored(f, r) = Renamed(g, b, d)
  BY DEF Restored
<1> HIDE DEF g, d, b
<1>6. DOMAIN g \subseteq Seq(Nat) /\ b \in DOMAIN g /\ d \notin DOMAIN g /\ IsDir(g, Parent(d))
  <2>1. Within(b, b) /\ Within(d, d)
    BY DEF Within
  <2>2. b \in DOMAIN f /\ IsDir(f, Parent(d))
    BY DEF b, d
  <2>3. QED
    BY <1>1, <1>2, <1>3, <2>1, <2>2 DEF IsDir
<1>7. /\ SameDisk({b, d}, g, Renamed(g, b, d))
      /\ Carries(g, b, Renamed(g, b, d), d)
  <2>1. b \in Seq(Nat) /\ d \in Seq(Nat)
    BY <1>1
  <2>2. QED
    BY <1>6, <2>1, BackAt
<1> DEFINE h == Renamed(g, b, d)
<1> HIDE DEF h
<1>8. SameDisk({b, d}, f, h)
  BY <1>4, <1>7, SameDiskChain DEF h
<1>9. ASSUME NEW z \in Seq(Nat), b \o z \in DOMAIN f
      PROVE  d \o z \in DOMAIN h /\ h[d \o z] = f[b \o z]
  <2>1. b \o z \in Seq(Nat) /\ Within(b, b \o z)
    BY <1>1, Followed
  <2>2. b \o z \in DOMAIN g /\ g[b \o z] = f[b \o z]
    BY <1>2, <1>3, <1>9, <2>1
  <2>3. QED
    BY <1>7, <2>2 DEF h, Carries
<1>10. QED
  BY <1>5, <1>8, <1>9 DEF h, d, b, Carries

\* What a request has left to undo, and where what the rows list is.
LEMMA UndoReady ==
    ASSUME IInv, Types, NEW r \in Req, Safe, Undo(r), Op(r).kind # "PROPPATCH"
    PROVE  /\ Working(r) /\ Past(r) /\ req[r].pc = "undoing" /\ rows' = rows
           /\ IsTree(fs) /\ DOMAIN fs \subseteq Seq(Nat) /\ DOMAIN rows \subseteq Plain
           /\ DOMAIN rows \subseteq Seq(Nat)
           /\ DiskFits(r) /\ RowsFit(r)
           /\ Op(r).kind \in Kinds /\ (Op(r).kind \notin Pairs => Source(r) = Target(r))
           /\ req[r].placed => Made(r)
           /\ ~ req[r].placed => Target(r) \notin DOMAIN fs
           /\ req[r].saved => Backup(r) \in DOMAIN fs
           /\ \A p \in DOMAIN rows : Within(Target(r), p) =>
                 /\ req[r].saved
                 /\ At(Backup(r) \o Suffix(p, Target(r)), rows[p].data)
           /\ \A p \in DOMAIN rows : Within(Source(r), p) /\ ~ Within(Target(r), p) =>
                 IF Op(r).kind = "MOVE" /\ req[r].placed
                 THEN At(Target(r) \o Suffix(p, Source(r)), rows[p].data)
                 ELSE At(p, rows[p].data)
<1>1. Working(r) /\ Past(r) /\ req[r].pc = "undoing" /\ rows' = rows
  BY DEF Undo, Working, Past
<1>2. /\ IsTree(fs) /\ DOMAIN fs \subseteq Seq(Nat) /\ DOMAIN rows \subseteq Plain
      /\ DOMAIN rows \subseteq Seq(Nat)
  BY PlainPaths DEF Types, IsTree
<1>3. DiskFits(r) /\ RowsFit(r)
  BY <1>1, Own
<1>4. Op(r).kind \in Kinds /\ (Op(r).kind \notin Pairs => Source(r) = Target(r))
  BY <1>1, PastOp
<1>5. /\ req[r].placed => Made(r)
      /\ ~ req[r].placed => Target(r) \notin DOMAIN fs
      /\ req[r].saved => Backup(r) \in DOMAIN fs
  BY <1>1, <1>3 DEF DiskFits, Aside
<1>6. ASSUME NEW p \in DOMAIN rows, Within(Target(r), p)
      PROVE  req[r].saved /\ At(Backup(r) \o Suffix(p, Target(r)), rows[p].data)
  <2>1. req[r].saved
    BY <1>1, <1>3, <1>6 DEF RowsFit
  <2>2. Spot(r, p) = Backup(r) \o Suffix(p, Target(r))
    BY <1>1, <1>6, <2>1 DEF Spot, Aside
  <2>3. At(Spot(r, p), rows[p].data)
    BY <1>1, <1>6, Own DEF Concerns
  <2>4. QED
    BY <2>1, <2>2, <2>3
<1>7. ASSUME NEW p \in DOMAIN rows, Within(Source(r), p), ~ Within(Target(r), p)
      PROVE  IF Op(r).kind = "MOVE" /\ req[r].placed
             THEN At(Target(r) \o Suffix(p, Source(r)), rows[p].data)
             ELSE At(p, rows[p].data)
  <2>1. At(Spot(r, p), rows[p].data)
    BY <1>1, <1>7, Own DEF Concerns
  <2>2. QED
    BY <1>1, <1>7, <2>1 DEF Spot, MovedOver
<1>8. QED
  BY <1>1, <1>2, <1>3, <1>4, <1>5, <1>6, <1>7

\* The disk g is the disk as it was before r's changes: what the rows list is at its path.
Undone(r, g) ==
    /\ SameDisk(Region(r), fs, g)
    /\ \A p \in DOMAIN rows : Concerns(r, p) => p \in DOMAIN g /\ g[p] = rows[p].data

\* What is replaced is restored; the rest is as it is in f.
LEMMA RestoredBack ==
    ASSUME IInv, Types, NEW r \in Req, Past(r), Op(r).kind # "PROPPATCH",
           NEW f, DOMAIN f \subseteq Seq(Nat), Backup(r) \in DOMAIN f, IsDir(f, Parent(Target(r))),
           SameDisk({Source(r), Target(r)}, fs, f),
           \A p \in DOMAIN rows : Within(Target(r), p) => At(Backup(r) \o Suffix(p, Target(r)), rows[p].data),
           \A p \in DOMAIN rows : Within(Source(r), p) /\ ~ Within(Target(r), p) =>
              p \in DOMAIN f /\ f[p] = rows[p].data
    PROVE  Undone(r, Restored(f, r))
<1> DEFINE s == Source(r)
           d == Target(r)
           b == Backup(r)
           g == Restored(f, r)
<1>1. /\ s \in Seq(Nat) /\ d \in Seq(Nat) /\ b \in Seq(Nat)
      /\ \A k \in Plain : Free({b, Tmp(r)}, k)
      /\ \A k \in Seq(Nat) : Within(b, k) => Free({s, d, Tmp(r)}, k)
  BY OwnApart
<1>2. SameDisk({b, d}, f, g) /\ Carries(f, b, g, d)
  BY RestoredAt
<1>3. SameDisk(Region(r), fs, g)
  BY <1>2, SameDiskChain DEF Region
<1>4. DOMAIN rows \subseteq Plain
  BY DEF Types
<1>5. ASSUME NEW p \in DOMAIN rows, Concerns(r, p) PROVE p \in DOMAIN g /\ g[p] = rows[p].data
  <2>1. p \in Plain /\ p \in Seq(Nat)
    BY <1>4, PlainPaths
  <2>2. CASE Within(d, p)
    <3> DEFINE k == b \o Suffix(p, d)
    <3>1. At(k, rows[p].data)
      BY <2>2
    <3>2. k \in Seq(Nat) /\ Within(b, k)
      <4>1. Suffix(p, d) \in Seq(Nat)
        BY <1>1, <2>1, <2>2, WhatIsLeft
      <4>2. QED
        BY <1>1, <4>1, Followed
    <3>3. Free({s, d}, k)
      BY <1>1, <3>2 DEF Free
    <3>4. k \in DOMAIN f /\ f[k] = rows[p].data
      <4> HIDE DEF k
      <4>1. QED
        BY <3>1, <3>2, <3>3 DEF SameDisk, At
    <3> DEFINE x == Suffix(p, d)
    <3>5. x \in Seq(Nat) /\ d \o x = p /\ b \o x = k
      BY <1>1, <2>1, <2>2, WhatIsLeft
    <3> HIDE DEF s, d, b, g, k, x
    <3>6. p \in DOMAIN g /\ g[p] = f[k]
      BY <1>2, <3>4, <3>5 DEF Carries
    <3>7. QED
      BY <3>4, <3>6
  <2>3. CASE ~ Within(d, p)
    <3>1. p \in DOMAIN f /\ f[p] = rows[p].data
      BY <1>5, <2>3 DEF Concerns
    <3>2. Free({b, d}, p)
      BY <1>1, <2>1, <2>3 DEF Free
    <3>3. QED
      BY <1>2, <2>1, <3>1, <3>2 DEF SameDisk
  <2>4. QED
    BY <2>2, <2>3
<1>6. QED
  BY <1>3, <1>5 DEF Undone

\* PUT: its file is taken away again and the old one put back.
LEMMA UndoPut ==
    ASSUME IInv, Types, NEW r \in Req, Safe, Undo(r), Op(r).kind = "PUT"
    PROVE  Undone(r, fs')
<1> DEFINE d == Target(r)
           b == Backup(r)
           t == Tmp(r)
           e == IF req[r].placed /\ Entries(fs, d) = {d} THEN Removed(fs, d) ELSE fs
           g == IF req[r].saved THEN Renamed(e, b, d) ELSE e
<1>1. /\ Past(r) /\ req[r].pc = "undoing" /\ IsTree(fs) /\ DOMAIN fs \subseteq Seq(Nat) /\ DOMAIN rows \subseteq Plain
      /\ DiskFits(r) /\ RowsFit(r) /\ Source(r) = d
      /\ req[r].placed => Made(r)
      /\ ~ req[r].placed => d \notin DOMAIN fs
      /\ req[r].saved => b \in DOMAIN fs
  BY UndoReady DEF Pairs
<1>2. fs' = Removed(g, t)
  BY DEF Undo
<1>3. /\ Requested(r) /\ d \in Seq(Nat) /\ b \in Seq(Nat) /\ t \in Seq(Nat) /\ d \in Plain
      /\ Parent(d) \in Seq(Nat)
      /\ Free({d, b, t}, Parent(d))
      /\ \A k \in Plain : Free({b, t}, k)
      /\ \A k \in Seq(Nat) : Within(b, k) => Free({d, t}, k)
  BY <1>1, OwnApart
<1>4. d \notin DOMAIN e /\ SameDisk({d}, fs, e) /\ DOMAIN e \subseteq Seq(Nat)
  <2>1. CASE req[r].placed
    <3>1. At(d, Body(r)) /\ Body(r) \in Content
      BY <1>1, <1>3, <2>1, TreeAssumption DEF Made, Body, Requested
    <3>2. ~ IsDir(fs, d)
      BY <3>1, TreeAssumption DEF At, IsDir
    <3>3. \A k \in DOMAIN fs : ~ Descendant(d, k)
      BY <1>1, <1>3, <3>2, NothingBelow
    <3>4. Entries(fs, d) = {d}
      BY <3>1, <3>3 DEF Entries, At
    <3>5. e = Removed(fs, d)
      BY <2>1, <3>4
    <3>6. SameDisk({d}, fs, Removed(fs, d)) /\ d \notin DOMAIN Removed(fs, d)
          /\ DOMAIN Removed(fs, d) \subseteq DOMAIN fs
      BY RemovedSame, RemovedAt DEF Within
    <3>7. QED
      BY <1>1, <3>5, <3>6
  <2>2. CASE ~ req[r].placed
    <3>1. e = fs
      BY <2>2
    <3>2. QED
      BY <1>1, <2>2, <3>1 DEF SameDisk
  <2>3. QED
    BY <2>1, <2>2
<1> HIDE DEF e
<1>5. \A p \in DOMAIN rows : Concerns(r, p) => p = d /\ req[r].saved /\ At(b, rows[p].data)
  <2>1. ASSUME NEW p \in DOMAIN rows, Concerns(r, p) PROVE p = d /\ req[r].saved /\ At(b, rows[p].data)
    <3>1. ~ Descendant(d, p)
      BY <1>1 DEF RowsFit
    <3>2. Within(d, p) /\ p = d
      BY <1>1, <2>1, <3>1 DEF Concerns, Within
    <3>3. req[r].saved /\ At(b \o Suffix(p, d), rows[p].data)
      BY <3>2, UndoReady
    <3>4. b \o Suffix(p, d) = b
      BY <1>3, <3>2, EmptySuffix
    <3>5. QED
      BY <3>2, <3>3, <3>4
  <2>2. QED
    BY <2>1
<1>6. CASE ~ req[r].saved
  <2>1. SameDisk({d}, fs, g) /\ SameDisk({t}, g, fs')
    BY <1>2, <1>4, <1>6, RemovedSame
  <2>2. SameDisk(Region(r), fs, fs')
    BY <2>1, SameDiskChain DEF Region
  <2>3. QED
    BY <1>5, <1>6, <2>2 DEF Undone
<1>7. CASE req[r].saved
  <2>1. b \in DOMAIN e /\ e[b] = fs[b] /\ IsDir(e, Parent(d))
    <3>1. Free({d}, b) /\ Free({d}, Parent(d))
      BY <1>3 DEF Free, Within
    <3>2. b \in DOMAIN fs /\ IsDir(fs, Parent(d))
      BY <1>1, <1>7 DEF DiskFits
    <3>3. QED
      BY <1>3, <1>4, <3>1, <3>2 DEF SameDisk, IsDir
  <2>2. g = Renamed(e, b, d)
    BY <1>7
  <2> HIDE DEF g
  <2>3. SameDisk({b, d}, e, g) /\ Carries(e, b, g, d)
    <3> HIDE DEF b, d
    <3>1. QED
      BY <1>3, <1>4, <2>1, <2>2, BackAt
  <2>4. SameDisk({t}, g, fs')
    BY <1>2, RemovedSame
  <2>5. SameDisk({b, d}, fs, g)
    BY <1>4, <2>3, SameDiskChain
  <2>6. SameDisk(Region(r), fs, fs')
    BY <2>4, <2>5, SameDiskChain DEF Region
  <2>7. d \in DOMAIN g /\ g[d] = fs[b]
    <3>1. Root \in Seq(Nat) /\ b \o Root = b /\ d \o Root = d
      BY <1>3, Followed, EmptySeq DEF Root
    <3>2. QED
      BY <2>1, <2>3, <3>1 DEF Carries
  <2>8. d \in DOMAIN fs' /\ fs'[d] = fs[b]
    <3>1. Free({t}, d)
      BY <1>3 DEF Free
    <3>2. QED
      BY <1>3, <2>4, <2>7, <3>1 DEF SameDisk
  <2>9. QED
    BY <1>5, <2>6, <2>8 DEF Undone, At
<1>8. QED
  BY <1>6, <1>7

\* MOVE: the source is moved back and what it had replaced restored.
LEMMA UndoMove ==
    ASSUME IInv, Types, NEW r \in Req, Safe, Undo(r), Op(r).kind = "MOVE"
    PROVE  Undone(r, fs')
<1> DEFINE s == Source(r)
           d == Target(r)
           b == Backup(r)
           m == IF req[r].placed THEN Renamed(fs, d, s) ELSE fs
<1>1. /\ Past(r) /\ DOMAIN fs \subseteq Seq(Nat) /\ DOMAIN rows \subseteq Plain /\ DiskFits(r)
      /\ req[r].placed => Made(r)
      /\ req[r].saved => b \in DOMAIN fs
      /\ \A p \in DOMAIN rows : Within(d, p) => req[r].saved /\ At(b \o Suffix(p, d), rows[p].data)
      /\ \A p \in DOMAIN rows : Within(s, p) /\ ~ Within(d, p) =>
           IF req[r].placed THEN At(d \o Suffix(p, s), rows[p].data) ELSE At(p, rows[p].data)
  BY UndoReady
<1>2. fs' = IF req[r].saved THEN Restored(m, r) ELSE m
  BY DEF Undo
<1>3. /\ s \in Seq(Nat) /\ d \in Seq(Nat) /\ b \in Seq(Nat) /\ Parent(s) \in Seq(Nat) /\ Parent(d) \in Seq(Nat)
      /\ Free({s, d, b, Tmp(r)}, Parent(d))
      /\ \A k \in Plain : Free({b, Tmp(r)}, k)
      /\ \A k \in Seq(Nat) : Within(b, k) => Free({s, d, Tmp(r)}, k)
  BY <1>1, OwnApart
<1>4. /\ SameDisk({s, d}, fs, m) /\ DOMAIN m \subseteq Seq(Nat)
      /\ \A p \in DOMAIN rows : Within(s, p) /\ ~ Within(d, p) => p \in DOMAIN m /\ m[p] = rows[p].data
  <2>1. CASE req[r].placed
    <3>1. d \in DOMAIN fs /\ s \notin DOMAIN fs /\ IsDir(fs, Parent(s))
      BY <1>1, <2>1 DEF Made, DiskFits
    <3>2. m = Renamed(fs, d, s)
      BY <2>1
    <3> HIDE DEF m
    <3>3. SameDisk({s, d}, fs, m) /\ DOMAIN m \subseteq Seq(Nat) /\ Carries(fs, d, m, s)
      <4>1. /\ SameDisk({d, s}, fs, Renamed(fs, d, s)) /\ DOMAIN Renamed(fs, d, s) \subseteq Seq(Nat)
            /\ Carries(fs, d, Renamed(fs, d, s), s)
        <5> HIDE DEF s, d
        <5>1. QED
          BY <1>1, <1>3, <3>1, BackAt
      <4>2. {d, s} = {s, d}
        OBVIOUS
      <4>3. QED
        BY <3>2, <4>1, <4>2
    <3>4. ASSUME NEW p \in DOMAIN rows, Within(s, p), ~ Within(d, p) PROVE p \in DOMAIN m /\ m[p] = rows[p].data
      <4>1. At(d \o Suffix(p, s), rows[p].data)
        BY <1>1, <2>1, <3>4
      <4>2. p \in Seq(Nat)
        BY <1>1, PlainPaths
      <4> DEFINE k == d \o Suffix(p, s)
      <4>3. k \in DOMAIN fs /\ fs[k] = rows[p].data
        BY <4>1 DEF At
      <4> DEFINE x == Suffix(p, s)
      <4>4. x \in Seq(Nat) /\ s \o x = p /\ d \o x = k
        BY <1>3, <3>4, <4>2, WhatIsLeft
      <4> HIDE DEF s, d, k, x
      <4>5. p \in DOMAIN m /\ m[p] = fs[k]
        BY <3>3, <4>3, <4>4 DEF Carries
      <4>6. QED
        BY <4>3, <4>5
    <3>5. QED
      BY <3>3, <3>4
  <2>2. CASE ~ req[r].placed
    BY <1>1, <2>2 DEF SameDisk, At
  <2>3. QED
    BY <2>1, <2>2
<1> HIDE DEF m
<1>5. CASE ~ req[r].saved
  <2>1. fs' = m
    BY <1>2, <1>5
  <2>2. SameDisk(Region(r), fs, fs')
    BY <1>4, <2>1 DEF SameDisk, Free, Region
  <2>3. QED
    BY <1>1, <1>4, <1>5, <2>1, <2>2 DEF Undone, Concerns
<1>6. CASE req[r].saved
  <2>1. b \in DOMAIN m /\ IsDir(m, Parent(d))
    <3>1. Free({s, d}, b) /\ Free({s, d}, Parent(d))
      BY <1>3 DEF Free, Within
    <3>2. b \in DOMAIN fs /\ IsDir(fs, Parent(d))
      BY <1>1, <1>6 DEF DiskFits
    <3>3. QED
      BY <1>3, <1>4, <3>1, <3>2 DEF SameDisk, IsDir
  <2>2. fs' = Restored(m, r)
    BY <1>2, <1>6
  <2>3. QED
    BY <1>1, <1>4, <2>1, <2>2, RestoredBack
<1>7. QED
  BY <1>5, <1>6

\* The other requests restore what they had set aside, or take away what they had added.
LEMMA UndoOther ==
    ASSUME IInv, Types, NEW r \in Req, Safe, Undo(r), Op(r).kind \in {"MKCOL", "DELETE", "COPY", "COPY0"}
    PROVE  Undone(r, fs')
<1> DEFINE s == Source(r)
           d == Target(r)
           b == Backup(r)
<1>1. /\ Past(r) /\ DOMAIN fs \subseteq Seq(Nat) /\ DOMAIN rows \subseteq Plain /\ DiskFits(r) /\ RowsFit(r)
      /\ Op(r).kind \notin Pairs => s = d
      /\ req[r].saved => b \in DOMAIN fs
      /\ \A p \in DOMAIN rows : Within(d, p) => req[r].saved /\ At(b \o Suffix(p, d), rows[p].data)
      /\ \A p \in DOMAIN rows : Within(s, p) /\ ~ Within(d, p) => At(p, rows[p].data)
  BY UndoReady
<1>2. Op(r).kind = "MKCOL" => ~ req[r].saved
  BY <1>1 DEF RowsFit
<1>3. IF req[r].saved THEN fs' = Restored(fs, r) ELSE fs' = fs \/ fs' = Removed(fs, d)
  BY <1>2 DEF Undo
<1>4. CASE req[r].saved
  <2>1. b \in DOMAIN fs /\ IsDir(fs, Parent(d)) /\ SameDisk({s, d}, fs, fs)
    BY <1>1, <1>4 DEF DiskFits, SameDisk
  <2>2. \A p \in DOMAIN rows : Within(s, p) /\ ~ Within(d, p) => p \in DOMAIN fs /\ fs[p] = rows[p].data
    BY <1>1 DEF At
  <2>3. \A p \in DOMAIN rows : Within(d, p) => At(b \o Suffix(p, d), rows[p].data)
    BY <1>1
  <2>4. Undone(r, Restored(fs, r))
    BY <1>1, <2>1, <2>2, <2>3, RestoredBack
  <2>5. QED
    BY <1>3, <1>4, <2>4
<1>5. CASE ~ req[r].saved
  <2>1. SameDisk({d}, fs, fs')
    <3>1. SameDisk({d}, fs, fs)
      BY DEF SameDisk
    <3>2. QED
      BY <1>3, <1>5, <3>1, RemovedSame
  <2>2. SameDisk(Region(r), fs, fs')
    BY <2>1 DEF SameDisk, Free, Region
  <2>3. ASSUME NEW p \in DOMAIN rows, Concerns(r, p) PROVE p \in DOMAIN fs' /\ fs'[p] = rows[p].data
    <3>1. ~ Within(d, p)
      BY <1>1, <1>5
    <3>2. At(p, rows[p].data)
      BY <1>1, <2>3, <3>1 DEF Concerns
    <3>3. p \in Seq(Nat) /\ Free({d}, p)
      BY <1>1, <3>1, PlainPaths DEF Free
    <3>4. QED
      BY <2>1, <3>2, <3>3 DEF SameDisk, At
  <2>4. QED
    BY <2>2, <2>3 DEF Undone
<1>6. QED
  BY <1>4, <1>5

\* A request that has undone its changes leaves the disk as the rows say.
LEMMA UndoSafe ==
    ASSUME IInv, Types, Types', NEW r \in Req, Safe, Undo(r), Op(r).kind # "PROPPATCH"
    PROVE  Backed' /\ \A q \in Req : Fit(q)'
<1>1. Working(r) /\ rows' = rows /\ Op(r).kind \in Kinds
  BY UndoReady
<1>2. Others(r) /\ ~ Working(r)' /\ ~ Past(r)'
  BY EndFields DEF Working, Past
<1>3. Undone(r, fs')
  BY <1>1, UndoPut, UndoMove, UndoOther DEF Kinds
<1>4. SameDisk(Region(r), fs, fs') /\ \A p \in DOMAIN rows : Concerns(r, p) => At(p, rows[p].data)'
  BY <1>1, <1>3 DEF Undone, At
<1>5. Fit(r)'
  BY <1>2 DEF Fit
<1>6. QED
  BY <1>1, <1>2, <1>4, <1>5, OwnStep

\* Of two requests whose paths are apart one at most has to do with a path.
LEMMA ApartConcern ==
    ASSUME NEW x \in Seq(Nat), NEW y \in Seq(Nat), NEW u \in Seq(Nat), NEW v \in Seq(Nat),
           ~ SetsOverlap({x, y}, {u, v}), NEW p \in Seq(Nat), Within(x, p) \/ Within(y, p)
    PROVE  ~ Within(u, p) /\ ~ Within(v, p)
<1>1. ASSUME NEW a \in {x, y}, NEW c \in {u, v}, Within(a, p), Within(c, p) PROVE FALSE
  <2>1. ~ Overlap(a, c)
    BY DEF SetsOverlap
  <2>2. a \in Seq(Nat) /\ c \in Seq(Nat)
    OBVIOUS
  <2>3. QED
    BY <1>1, <2>1, <2>2, WithinOrder
<1>2. QED
  BY <1>1

\* Whoever gets its locks finds nobody else at work on its paths.
LEMMA EnterSafe ==
    ASSUME IInv, Types, NEW r \in Req, Safe, Enter(r)
    PROVE  Backed' /\ \A q \in Req : Fit(q)'
<1>1. /\ Others(r) /\ Kept(r) /\ req'[r].pc = "checking" /\ req[r].pc = "waiting"
      /\ fs' = fs /\ rows' = rows /\ ~ Working(r)
  BY StepFields DEF Enter, Working
<1>2. \A q \in Req \ {r} : ~ SetsOverlap({Source(r), Target(r)}, inside[q])
  BY DEF Enter, Locks!Enter, Locks!MayEnter, Locks!SetsOverlap, SetsOverlap,
         Locks!Overlap, Overlap, Locks!Descendant, Descendant
<1>3. DOMAIN rows \subseteq Plain /\ DOMAIN rows \subseteq Seq(Nat) /\ Requested(r)
      /\ Source(r) \in Seq(Nat) /\ Target(r) \in Seq(Nat)
  <2>1. Requested(r) /\ DOMAIN rows \subseteq Plain
    BY <1>1 DEF Types, IInv, Good, Typed
  <2>2. QED
    BY <2>1, OpPaths, PlainPaths
<1>4. ASSUME NEW q \in Req \ {r}, Working(q), NEW p \in DOMAIN rows, Concerns(r, p)
      PROVE  ~ Concerns(q, p)
  <2>1. Requested(q) /\ inside[q] = {Source(q), Target(q)}
    BY <1>4 DEF Safe, IInv, Good, Typed, LockHeld, Working
  <2>2. Source(q) \in Seq(Nat) /\ Target(q) \in Seq(Nat) /\ p \in Seq(Nat)
    BY <1>3, <2>1, OpPaths
  <2>3. ~ SetsOverlap({Source(r), Target(r)}, {Source(q), Target(q)})
    BY <1>2, <2>1
  <2>4. QED
    BY <1>3, <1>4, <2>2, <2>3, ApartConcern DEF Concerns
<1>5. /\ \A p : Spot(r, p)' = p
      /\ \A p : Concerns(r, p)' = Concerns(r, p)
  BY <1>1 DEF Spot, Aside, MovedOver, Kept, Concerns, Source, Target, Op
<1> DEFINE Z == {}
<1>6. Untouched(Z) /\ \A q : Foreign(q, Z)
  BY <1>1 DEF Untouched, Foreign, Free
<1> HIDE DEF Z
<1>7. ASSUME NEW q \in Req \ {r}
      PROVE  /\ Working(q)' = Working(q) /\ req'[q] = req[q]
             /\ \A p : Concerns(q, p)' = Concerns(q, p)
             /\ \A p : Spot(q, p)' = Spot(q, p)
  <2>1. req'[q] = req[q]
    BY <1>1 DEF Others
  <2>2. QED
    BY <2>1 DEF Working, Concerns, Spot, Aside, MovedOver, Backup, Source, Target, Op
<1>8. \A q \in Req : Fit(q)'
  <2>1. ASSUME NEW q \in Req \ {r} PROVE Fit(q)'
    <3>1. CASE Working(q)
      <4>1. Fit(q)
        BY DEF Safe
      <4>2. QED
        BY <1>1, <1>3, <1>6, <1>7, <3>1, <4>1, FitKept
    <3>2. CASE ~ Working(q)
      BY <1>7, <3>2 DEF Fit, Past, Working
    <3>3. QED
      BY <3>1, <3>2
  <2>2. Fit(r)'
    BY <1>1 DEF Fit, Past
  <2>3. QED
    BY <2>1, <2>2
<1>9. ASSUME NEW p \in DOMAIN rows, NEW q \in Req, Working(q)', Concerns(q, p)'
      PROVE  At(Spot(q, p), rows[p].data)'
  <2>1. CASE q # r
    <3>1. At(Spot(q, p), rows[p].data)
      BY <1>7, <1>9, <2>1 DEF Safe, Backed
    <3>2. QED
      BY <1>1, <1>7, <2>1, <3>1 DEF At
  <2>2. CASE q = r
    <3>1. \A x \in Req : ~ (Working(x) /\ Concerns(x, p))
      BY <1>1, <1>4, <1>5, <1>9, <2>2
    <3>2. At(p, rows[p].data)
      BY <3>1 DEF Safe, Backed
    <3>3. QED
      BY <1>1, <1>5, <2>2, <3>2 DEF At
  <2>3. QED
    BY <2>1, <2>2
<1>10. ASSUME NEW p \in DOMAIN rows, \A q \in Req : ~ (Working(q)' /\ Concerns(q, p)')
       PROVE  At(p, rows[p].data)'
  <2>1. \A q \in Req : ~ (Working(q) /\ Concerns(q, p))
    BY <1>1, <1>7, <1>10
  <2>2. At(p, rows[p].data)
    BY <2>1 DEF Safe, Backed
  <2>3. QED
    BY <1>1, <2>2 DEF At
<1>11. QED
  BY <1>1, <1>8, <1>9, <1>10 DEF Backed

\* Before a handler has its locks it changes nothing but a temporary file.
LEMMA ApartStep ==
    ASSUME IInv, Types, Types', NEW r \in Req, Safe, Others(r), ~ Working(r), ~ Working(r)', ~ Past(r)',
           rows' = rows,
           \/ fs' = fs
           \/ \E p \in Plain \ {Root}, n \in Nat \ {0} : SameDisk({TmpName(p, n)}, fs, fs')
    PROVE  Backed' /\ \A q \in Req : Fit(q)'
<1>1. PICK Z : /\ Untouched(Z)
               /\ \A k \in Plain : Free(Z, k)
               /\ \A q : Requested(q) => Foreign(q, Z)
  <2>1. CASE fs' = fs
    <3>1. Untouched({}) /\ (\A k : Free({}, k)) /\ \A q : Foreign(q, {})
      BY <2>1 DEF Untouched, Free, Foreign
    <3>2. QED
      BY <3>1
  <2>2. CASE \E p \in Plain \ {Root}, n \in Nat \ {0} : SameDisk({TmpName(p, n)}, fs, fs')
    <3>1. PICK p \in Plain \ {Root}, n \in Nat \ {0} : SameDisk({TmpName(p, n)}, fs, fs')
      BY <2>2
    <3>2. /\ \A k \in Plain : Free({TmpName(p, n)}, k)
          /\ \A q : Requested(q) => Foreign(q, {TmpName(p, n)})
      BY TmpForeign
    <3>3. Untouched({TmpName(p, n)})
      BY <3>1 DEF SameDisk, Untouched
    <3>4. QED
      BY <3>2, <3>3
  <2>3. QED
    BY <2>1, <2>2
<1>2. \A q \in Req \ {r} : Working(q) => Foreign(q, Z)
  BY <1>1 DEF IInv, Good, Typed, Working
<1>3. Fit(r)'
  BY DEF Fit
<1>4. QED
  BY <1>1, <1>2, <1>3, Assemble

\* A request that starts has changed nothing yet.
LEMMA BeginSafe ==
    ASSUME IInv, Types, Types', NEW r \in Req, NEW o \in Ops, Safe, Begin(r, o)
    PROVE  Safe'
<1>1. /\ Others(r) /\ req'[r].pc = "waiting" /\ req'[r].num = issued + 1 /\ req'[r].alive = TRUE
      /\ req[r].pc = "idle" /\ rows' = rows /\ issued' = issued + 1 /\ issued \in Nat
  BY BeginFields DEF Begin, IInv
<1>2. ~ Working(r) /\ ~ Working(r)' /\ ~ Past(r)'
  BY <1>1 DEF Working, Past
<1>3. fs' = fs \/ \E p \in Plain \ {Root}, n \in Nat \ {0} : SameDisk({TmpName(p, n)}, fs, fs')
  <2>1. CASE o.kind = "PUT"
    <3> DEFINE p == o.path
               n == issued + 1
               z == TmpName(p, n)
    <3>1. p \in Plain \ {Root} /\ n \in Nat \ {0}
      BY <1>1, <2>1, TreeAssumption, PlainPaths DEF ValidOp
    <3>2. fs' = Inserted(fs, [k \in {z} |-> n])
      BY <1>1, <2>1 DEF Begin
    <3>3. SameDisk({z}, fs, fs')
      <4> HIDE DEF z, n
      <4>1. DOMAIN fs' = DOMAIN fs \cup {z} /\ \A k \in DOMAIN fs : fs'[k] = fs[k]
        BY <3>2 DEF Inserted
      <4>2. QED
        BY <4>1 DEF SameDisk, Free, Within
    <3>4. QED
      BY <3>1, <3>3
  <2>2. CASE o.kind # "PUT"
    BY <2>2 DEF Begin
  <2>3. QED
    BY <2>1, <2>2
<1>4. Backed' /\ \A q \in Req : Fit(q)'
  BY <1>1, <1>2, <1>3, ApartStep
<1>5. \A q \in Req : req'[q].alive
  BY <1>1 DEF Others, Safe
<1>6. Numbers'
  <2>1. ASSUME NEW q \in Req, req'[q].pc # "idle" PROVE req'[q].num <= issued'
    <3>1. CASE q = r
      BY <1>1, <3>1
    <3>2. CASE q # r
      <4>1. req[q].num <= issued /\ req'[q].num = req[q].num /\ req[q].num \in Nat
        BY <1>1, <2>1, <3>2, TreeAssumption DEF Others, Safe, Numbers, IInv, Good, Typed, Requested
      <4>2. QED
        BY <1>1, <4>1
    <3>3. QED
      BY <3>1, <3>2
  <2>2. ASSUME NEW q \in Req, NEW x \in Req \ {q}, req'[q].pc # "idle", req'[x].pc # "idle"
        PROVE  req'[q].num # req'[x].num
    <3>1. ASSUME NEW y \in Req \ {r}, req'[y].pc # "idle" PROVE req'[y].num # issued + 1
      <4>1. req[y].num <= issued /\ req'[y].num = req[y].num /\ req[y].num \in Nat
        BY <1>1, <3>1, TreeAssumption DEF Others, Safe, Numbers, IInv, Good, Typed, Requested
      <4>2. QED
        BY <1>1, <4>1
    <3>2. CASE q # r /\ x # r
      BY <1>1, <2>2, <3>2 DEF Others, Safe, Numbers
    <3>3. CASE q = r \/ x = r
      BY <1>1, <2>2, <3>1, <3>3
    <3>4. QED
      BY <3>2, <3>3
  <2>3. QED
    BY <2>1, <2>2 DEF Numbers
<1>7. TmpTrue'
  BY TmpBegun DEF Safe
<1>8. QED
  BY <1>4, <1>5, <1>6, <1>7 DEF Safe

\* A handler that gives up before it has its locks touches its temporary file only.
LEMMA GiveUpSafe ==
    ASSUME IInv, Types, Types', NEW r \in Req, Safe, Refuse(r), ~ Working(r)
    PROVE  Backed' /\ \A q \in Req : Fit(q)'
<1>1. /\ Others(r) /\ req'[r].pc = "idle" /\ req[r].pc = "waiting" /\ rows' = rows
      /\ fs' = fs \/ fs' = WithoutTmp(r)
  BY EndFields DEF Refuse, Working
<1>2. ~ Working(r)' /\ ~ Past(r)' /\ Requested(r)
  BY <1>1 DEF Working, Past, IInv, Good, Typed
<1>3. fs' = fs \/ \E p \in Plain \ {Root}, n \in Nat \ {0} : SameDisk({TmpName(p, n)}, fs, fs')
  <2>1. CASE Op(r).kind = "PUT"
    <3>1. Source(r) \in Plain \ {Root} /\ req[r].num \in Nat \ {0}
      BY <1>2, <2>1, PlainOp
    <3>2. fs' = fs \/ SameDisk({TmpName(Source(r), req[r].num)}, fs, fs')
      BY <1>1, <2>1, RemovedSame DEF WithoutTmp, Tmp
    <3>3. QED
      BY <3>1, <3>2
  <2>2. CASE Op(r).kind # "PUT"
    BY <1>1, <2>2 DEF WithoutTmp
  <2>3. QED
    BY <2>1, <2>2
<1>4. QED
  BY <1>1, <1>2, <1>3, ApartStep

\* At the start the rows list what is on disk.
LEMMA InitSafe == Init => SInv
<1> SUFFICES ASSUME Init PROVE Safe /\ ~ crashed
  BY DEF SInv
<1>1. /\ \A r \in Req : req[r] = Idle
      /\ DOMAIN rows = DOMAIN fs /\ \A p \in DOMAIN rows : rows[p].data = fs[p]
      /\ crashed = FALSE
  BY DEF Init
<1>2. \A r \in Req : req[r].pc = "idle" /\ req[r].alive /\ ~ Working(r) /\ ~ Past(r)
  BY <1>1, IdleTyped DEF Working, Past
<1>3. DOMAIN fs \subseteq Plain
  BY TreeAssumption DEF Init
<1>4. TmpTrue
  <2>1. \A k \in DOMAIN fs : k # Root => NoTmp(k)
    BY <1>3, PlainNoTmp
  <2>2. QED
    BY <2>1 DEF TmpTrue, NoTmp
<1>5. Backed
  BY <1>1, <1>2 DEF Backed, At
<1>6. Numbers /\ \A r \in Req : Fit(r)
  BY <1>2 DEF Numbers, Fit
<1>7. QED
  BY <1>1, <1>2, <1>4, <1>5, <1>6 DEF Safe

\* Every step of a handler that keeps its session keeps the rows backed.
LEMMA StepSafe ==
    ASSUME IInv, Types, Types', NEW r \in Req, Safe,
           \/ Enter(r) \/ Check(r) \/ Refuse(r) \/ Save(r) \/ Place(r) \/ Commit(r) \/ Clean(r)
           \/ Fail(r) \/ Undo(r)
    PROVE  Safe'
<1>1. Backed' /\ \A q \in Req : Fit(q)'
  <2>1. CASE Enter(r)
    BY <2>1, EnterSafe
  <2>2. CASE Check(r)
    <3>1. Working(r)
      BY <2>2 DEF Check, Working
    <3>2. QED
      BY <2>2, <3>1, CheckSafe, PropStep
  <2>3. CASE Refuse(r)
    BY <2>3, GiveUpSafe, EndSafe, PropStep
  <2>4. CASE Save(r)
    BY <2>4, SaveSafe
  <2>5. CASE Place(r)
    BY <2>5, PlaceSafe
  <2>6. CASE Commit(r)
    <3>1. Working(r)
      BY <2>6 DEF Commit, Apply, Working
    <3>2. QED
      BY <2>6, <3>1, CommitSafe, PropStep
  <2>7. CASE Clean(r)
    <3>1. Working(r)
      BY <2>7 DEF Clean, Working
    <3>2. QED
      BY <2>7, <3>1, EndSafe, PropStep
  <2>8. CASE Fail(r)
    <3>1. Working(r)
      BY <2>8 DEF Fail, Fails, Breaks, Working
    <3>2. QED
      BY <2>8, <3>1, FailSafe, PropStep
  <2>9. CASE Undo(r)
    <3>1. Working(r)
      BY <2>9 DEF Undo, Working
    <3>2. QED
      BY <2>9, <3>1, UndoSafe, PropStep
  <2>10. QED
    BY <2>1, <2>2, <2>3, <2>4, <2>5, <2>6, <2>7, <2>8, <2>9
<1>2. TmpTrue'
  <2>1. TmpTrue
    BY DEF Safe
  <2>2. CASE Save(r) \/ Place(r) \/ Refuse(r) \/ Clean(r) \/ Undo(r)
    BY <2>1, <2>2, TmpStays
  <2>3. CASE Enter(r) \/ Check(r) \/ Commit(r) \/ Fail(r)
    <3>1. fs' = fs
      BY <2>3 DEF Enter, Check, Commit, Fail
    <3>2. QED
      BY <2>1, <3>1 DEF TmpTrue
  <2>4. QED
    BY <2>2, <2>3
<1>3. (\A q \in Req : req'[q].alive) /\ Numbers'
  <2>1. req[r].pc # "idle"
    BY DEF Enter, Check, Refuse, Save, Place, Commit, Apply, Clean, Fail, Fails, Breaks, Undo
  <2>2. issued' = issued
    BY DEF Enter, Check, Refuse, Save, Place, Commit, Clean, Fail, Undo
  <2>3. req[r].alive = TRUE
    BY DEF Safe, IInv, Good, Typed
  <2>4. Others(r) /\ req'[r].alive = TRUE /\ (req'[r].pc = "idle" \/ req'[r].num = req[r].num)
    BY <2>3, StepFields, EndFields DEF Kept, Marks
  <2>5. QED
    BY <2>1, <2>2, <2>4, NumbersStay
<1>4. QED
  BY <1>1, <1>2, <1>3 DEF Safe

\* The content of every row is somewhere, whatever is being moved.
LEMMA ContentThere ==
    ASSUME Backed, NEW p \in DOMAIN rows
    PROVE  \E k \in DOMAIN fs : fs[k] = rows[p].data
<1>1. CASE \E r \in Req : Working(r) /\ Concerns(r, p)
  <2>1. PICK r \in Req : Working(r) /\ Concerns(r, p)
    BY <1>1
  <2>2. At(Spot(r, p), rows[p].data)
    BY <2>1 DEF Backed
  <2>3. QED
    BY <2>2 DEF At
<1>2. CASE \A r \in Req : ~ (Working(r) /\ Concerns(r, p))
  <2>1. At(p, rows[p].data)
    BY <1>2 DEF Backed
  <2>2. QED
    BY <2>1 DEF At
<1>3. QED
  BY <1>1, <1>2

\* Every step, a crash included, keeps the rows backed.
LEMMA NextKeepsSafe ==
    ASSUME IInv, Types, Types', SInv, [Next]_vars
    PROVE  SInv'
<1> SUFFICES ASSUME SessionsKept' PROVE IF crashed' THEN Stopped' ELSE Safe'
  BY DEF SInv
<1>1. faults' = faults
  BY DEF Next, Done, vars
<1>2. SessionsKept /\ (crashed => Stopped) /\ (~ crashed => Safe)
  BY <1>1 DEF SessionsKept, SInv
<1>3. CASE UNCHANGED vars
  <2>1. /\ fs' = fs /\ rows' = rows /\ req' = req /\ issued' = issued /\ crashed' = crashed
    BY <1>3 DEF vars
  <2>2. Stopped => Stopped'
    BY <2>1 DEF Stopped
  <2>3. Safe => Safe'
    BY <2>1 DEF Safe, Numbers, TmpTrue, Backed, At, Spot, Aside, MovedOver, Concerns, Fit, Past,
       DiskFits, RowsFit, Made, Working, Taken, Backup, Body, Source, Target, Op
  <2>4. QED
    BY <1>2, <2>1, <2>2, <2>3
<1>4. CASE Crash
  <2>1. crashed' = TRUE /\ ~ crashed /\ fs' = fs /\ rows' = rows /\ req' = [r \in Req |-> Idle]
    BY <1>4 DEF Crash
  <2>2. \A r \in Req : req'[r].pc = "idle"
    BY <2>1, IdleTyped
  <2>3. \A p \in DOMAIN rows : \E k \in DOMAIN fs : fs[k] = rows[p].data
    BY <1>2, <2>1, ContentThere DEF Safe
  <2>4. Stopped'
    BY <2>1, <2>2, <2>3 DEF Stopped
  <2>5. QED
    BY <2>1, <2>4
<1>5. ASSUME NEW r \in Req, NEW o \in Ops, Begin(r, o) PROVE ~ crashed' /\ Safe'
  <2>1. ~ crashed /\ crashed' = crashed
    BY <1>5 DEF Begin
  <2>2. QED
    BY <1>2, <1>5, <2>1, BeginSafe
<1>6. ASSUME NEW r \in Req,
             \/ Enter(r) \/ Check(r) \/ Refuse(r) \/ Save(r) \/ Place(r) \/ Commit(r) \/ Clean(r)
             \/ Fail(r) \/ Undo(r)
      PROVE  ~ crashed' /\ Safe'
  <2>1. req[r].pc # "idle"
    BY <1>6 DEF Enter, Check, Refuse, Save, Place, Commit, Apply, Clean, Fail, Fails, Breaks, Undo
  <2>2. ~ crashed
    BY <1>2, <2>1 DEF Stopped
  <2>3. crashed' = crashed
    BY <1>6 DEF Enter, Check, Refuse, Save, Place, Commit, Clean, Fail, Undo
  <2>4. QED
    BY <1>2, <1>6, <2>2, <2>3, StepSafe
<1>7. ASSUME NEW r \in Req, LoseReply(r) \/ LoseSession(r) PROVE FALSE
  <2>1. "reply" \in faults \/ "session" \in faults
    BY <1>7 DEF LoseReply, LoseSession
  <2>2. QED
    BY <1>2, <2>1 DEF SessionsKept
<1>8. CASE Step
  BY <1>4, <1>5, <1>6, <1>7, <1>8 DEF Step
<1>9. QED
  BY <1>3, <1>8 DEF Next, Done

\* As long as sessions are kept, the content of every row is at its path or where the request
\* at work has put it, in every reachable state.
THEOREM RowsStayBacked == Spec => []SInv
<1>1. IInv /\ Types /\ Types' /\ SInv /\ [Next]_vars => SInv'
  BY NextKeepsSafe
<1>2. Spec => []Types
  BY TypesHold
<1>3. QED
  BY Invariant, InitSafe, <1>1, <1>2, PTL DEF Spec

\* Where nobody works on a path, its row is backed by the disk.
LEMMA BackedWhereIdle ==
    ASSUME IInv, Types, SInv
    PROVE  RowsBacked
<1> SUFFICES ASSUME SessionsKept, ~ crashed, NEW p \in DOMAIN rows, ~ BeingChanged(p)
             PROVE  p \in DOMAIN fs /\ fs[p] = rows[p].data
  BY DEF RowsBacked, RowsAlwaysBacked
<1>1. Safe
  BY DEF SInv
<1>2. ASSUME NEW r \in Req, Working(r) PROVE ~ Concerns(r, p)
  <2>1. ~ Overlap(Source(r), p) /\ ~ Overlap(Target(r), p)
    BY <1>2 DEF BeingChanged
  <2>2. QED
    BY <2>1 DEF Overlap, Concerns, Within
<1>3. At(p, rows[p].data)
  BY <1>1, <1>2 DEF Safe, Backed
<1>4. QED
  BY <1>3 DEF At

\* Where no request is at work, every file and directory the database lists is on disk under
\* its path with the content the row describes: whatever uploads, deletes, moves and copies
\* have succeeded, been refused, failed half-way or been undone before, as long as sessions
\* are kept.
THEOREM ListedIsOnDisk == Spec => []RowsBacked
<1>1. IInv /\ Types /\ SInv => RowsBacked
  BY BackedWhereIdle
<1>2. Spec => []Types
  BY TypesHold
<1>3. QED
  BY Invariant, RowsStayBacked, <1>1, <1>2, PTL

\* The content of every row is somewhere, and so that of every file.
LEMMA ContentKept == SInv => CommittedContentKept
<1> SUFFICES ASSUME SInv, SessionsKept, NEW p \in DOMAIN rows, rows[p].data # Dir
             PROVE  \E k \in DOMAIN fs : fs[k] = rows[p].data
  BY DEF CommittedContentKept
<1>1. CASE crashed
  BY <1>1 DEF SInv, Stopped
<1>2. CASE ~ crashed
  BY <1>2, ContentThere DEF SInv, Safe
<1>3. QED
  BY <1>1, <1>2

\* The content of every listed file is somewhere on disk at every instant, in the middle of
\* any number of requests, and so after a crash of the server at any instant.
THEOREM NoContentLost == Spec => []CommittedContentKept
  BY RowsStayBacked, ContentKept, PTL

-----------------------------------------------------------------------------
(* Without faults the rows list everything: what is on disk under a plain  *)
(* name is what they list, or what the request at work there will list.    *)

\* r has put its entry in place and has not yet committed; whether that is a whole tree.
Arrived(r) == Op(r).kind # "PROPPATCH" /\ req[r].placed /\ req[r].pc = "committing"
WholeTree(r) == Op(r).kind = "MOVE" \/ (Op(r).kind = "COPY" /\ req[r].isDir)

\* The rows know what r has at k: by its name, or by the name it comes from.
Tells(r, k) ==
    IF Arrived(r) /\ Within(Target(r), k)
    THEN IF WholeTree(r) THEN Source(r) \o Suffix(k, Target(r)) \in DOMAIN rows ELSE k = Target(r)
    ELSE k \in DOMAIN rows
Told ==
    \A k \in DOMAIN fs : k \in Plain =>
       /\ \A r \in Req : Working(r) /\ Concerns(r, k) => Tells(r, k)
       /\ (\A r \in Req : ~ (Working(r) /\ Concerns(r, k))) => k \in DOMAIN rows

\* A backup belongs to a request at work.
Odd(k) == k # Root /\ k[Len(k)] >= 20 /\ k[Len(k)] % 20 < 10
Owns(r, k) == Working(r) /\ req[r].saved /\ k = Backup(r)
Owned == \A k \in DOMAIN fs : Odd(k) => \E r \in Req : Owns(r, k)

\* Nothing keeps r from going on to its end.
Ready(r) ==
    /\ req[r].pc # "undoing"
    /\ req[r].pc = "saving" => ~ req[r].saved
    /\ Op(r).kind = "PUT" /\ req[r].pc \in {"saving", "placing"} => Tmp(r) \in DOMAIN fs
    /\ req[r].pc # "cleaning" =>
          /\ Op(r).kind \in Pairs \cup {"DELETE"} => Source(r) \in DOMAIN rows
          /\ Source(r) \in DOMAIN rows => (req[r].isDir <=> rows[Source(r)].data = Dir)
AllReady == \A r \in Req : Past(r) /\ Op(r).kind # "PROPPATCH" => Ready(r)

AllThere == ~ crashed /\ IsTree(Listed) /\ Told /\ Owned /\ AllReady
NInv == faults = {} => AllThere

\* Being a tree is a matter of names and contents.
LEMMA SameTree ==
    ASSUME NEW f, IsTree(f), NEW g, DOMAIN g = DOMAIN f, \A k \in DOMAIN f : g[k] = f[k]
    PROVE  IsTree(g)
<1>1. \A k : IsDir(g, k) <=> IsDir(f, k)
  BY DEF IsDir
<1>2. QED
  BY <1>1 DEF IsTree

\* At the start the rows list the disk, entry for entry.
LEMMA InitThere == Init => NInv
<1> SUFFICES ASSUME Init PROVE AllThere
  BY DEF NInv
<1>1. /\ \A r \in Req : req[r] = Idle
      /\ DOMAIN rows = DOMAIN fs /\ \A p \in DOMAIN rows : rows[p].data = fs[p]
      /\ crashed = FALSE /\ fs \in Trees
  BY DEF Init
<1>2. \A r \in Req : req[r].pc = "idle" /\ ~ Working(r) /\ ~ Past(r)
  BY <1>1, IdleTyped DEF Working, Past
<1>3. IsTree(fs)
  BY InitTypes DEF Types
<1>4. IsTree(Listed)
  <2>1. DOMAIN Listed = DOMAIN fs /\ \A p \in DOMAIN fs : Listed[p] = fs[p]
    BY <1>1 DEF Listed
  <2>2. QED
    BY <1>3, <2>1, SameTree
<1>5. Owned
  <2>1. ASSUME NEW k \in DOMAIN fs, Odd(k) PROVE FALSE
    <3>1. k \in Plain /\ k # Root
      BY <1>1, <2>1, TreeAssumption DEF Odd
    <3>2. k[Len(k)] \in 0..9
      BY <3>1 DEF Plain, Root
    <3>3. QED
      BY <2>1, <3>2 DEF Odd
  <2>2. QED
    BY <2>1 DEF Owned
<1>6. QED
  BY <1>1, <1>2, <1>3, <1>4, <1>5 DEF AllThere, Told, AllReady

\* A step of r that changes the disk only where r works, keeps the rows elsewhere, and leaves
\* what r has under its own paths known to the rows, leaves everything known.
LEMMA Retold ==
    ASSUME IInv, Types, Types', NEW r \in Req, Others(r), Safe, Told,
           NEW Z, Untouched(Z),
           \A k \in Plain : ~ (Working(r) /\ Concerns(r, k)) => Free(Z, k),
           Working(r)' => Working(r) /\ Kept(r),
           \A k \in Plain : ~ (Working(r) /\ Concerns(r, k)) /\ k \in DOMAIN rows => k \in DOMAIN rows',
           \A k \in Plain : k \in DOMAIN fs' /\ Working(r) /\ Concerns(r, k) =>
              IF Working(r)' THEN Tells(r, k)' ELSE k \in DOMAIN rows'
    PROVE  Told'
<1>1. ASSUME NEW q \in Req \ {r}
      PROVE  /\ req'[q] = req[q] /\ Working(q)' = Working(q)
             /\ \A k : Concerns(q, k)' = Concerns(q, k)
             /\ Working(q) => \A k \in Plain : Concerns(q, k) => ~ (Working(r) /\ Concerns(r, k))
  <2>1. req'[q] = req[q] /\ req[q].alive /\ req[r].alive
    BY DEF Others, Safe
  <2>2. Working(q)' = Working(q) /\ \A k : Concerns(q, k)' = Concerns(q, k)
    BY <2>1 DEF Working, Concerns, Source, Target, Op
  <2>3. QED
    BY <2>1, <2>2, OneConcern
<1>2. \A k : Working(r)' => Concerns(r, k)' = Concerns(r, k)
  BY DEF Kept, Concerns, Source, Target, Op
<1>3. ASSUME NEW k \in DOMAIN fs', k \in Plain, Free(Z, k)
      PROVE  k \in DOMAIN fs
  BY <1>3, PlainPaths, UntouchedAt
<1>4. ASSUME NEW k \in DOMAIN fs', k \in Plain, NEW q \in Req, Working(q)', Concerns(q, k)'
      PROVE  Tells(q, k)'
  <2>1. CASE q = r
    BY <1>2, <1>4, <2>1
  <2>2. CASE q # r
    <3>1. /\ Working(q) /\ Concerns(q, k) /\ ~ (Working(r) /\ Concerns(r, k)) /\ req'[q] = req[q]
          /\ \A l \in Plain : Concerns(q, l) => ~ (Working(r) /\ Concerns(r, l))
      BY <1>1, <1>4, <2>2
    <3>2. Tells(q, k)
      BY <1>3, <1>4, <3>1 DEF Told
    <3>3. /\ Arrived(q)' = Arrived(q) /\ WholeTree(q)' = WholeTree(q)
          /\ Source(q)' = Source(q) /\ Target(q)' = Target(q)
      BY <3>1 DEF Arrived, WholeTree, Source, Target, Op
    <3>4. ASSUME NEW l \in DOMAIN rows, Concerns(q, l) PROVE l \in DOMAIN rows'
      BY <3>1, <3>4 DEF Types
    <3>5. CASE Arrived(q) /\ Within(Target(q), k) /\ WholeTree(q)
      <4> DEFINE x == Suffix(k, Target(q))
                 l == Source(q) \o x
      <4>1. l \in DOMAIN rows
        BY <3>2, <3>5 DEF Tells
      <4>2. Source(q) \in Seq(Nat) /\ Target(q) \in Seq(Nat)
        BY <3>1, OpPaths DEF IInv, Good, Typed, Working
      <4>3. x \in Seq(Nat)
        BY <1>4, <3>5, <4>2, WhatIsLeft, PlainPaths
      <4>4. Concerns(q, l)
        <5> HIDE DEF x
        <5>1. QED
          BY <4>2, <4>3, Followed DEF Concerns
      <4>5. l \in DOMAIN rows'
        BY <3>4, <4>1, <4>4
      <4>6. QED
        BY <3>3, <3>5, <4>5 DEF Tells
    <3>6. CASE ~ (Arrived(q) /\ Within(Target(q), k) /\ WholeTree(q))
      BY <3>1, <3>2, <3>3, <3>4, <3>6 DEF Tells
    <3>7. QED
      BY <3>5, <3>6
  <2>3. QED
    BY <2>1, <2>2
<1>5. ASSUME NEW k \in DOMAIN fs', k \in Plain, \A q \in Req : ~ (Working(q)' /\ Concerns(q, k)')
      PROVE  k \in DOMAIN rows'
  <2>1. CASE Working(r) /\ Concerns(r, k)
    BY <1>2, <1>5, <2>1
  <2>2. CASE ~ (Working(r) /\ Concerns(r, k))
    <3>1. \A q \in Req : ~ (Working(q) /\ Concerns(q, k))
      BY <1>1, <1>5, <2>2
    <3>2. k \in DOMAIN fs
      BY <1>3, <1>5, <2>2
    <3>3. k \in DOMAIN rows
      BY <1>5, <3>1, <3>2 DEF Told
    <3>4. QED
      BY <1>5, <2>2, <3>3
  <2>3. QED
    BY <2>1, <2>2
<1>6. QED
  BY <1>4, <1>5 DEF Told

\* Nobody is at work where a handler gets its locks.
LEMMA EnterApart ==
    ASSUME IInv, Types, NEW r \in Req, Safe, Enter(r), NEW q \in Req \ {r}, Working(q),
           NEW k \in Seq(Nat), Concerns(r, k)
    PROVE  ~ Concerns(q, k)
<1>1. req[r].pc = "waiting" /\ ~ SetsOverlap({Source(r), Target(r)}, inside[q])
  BY DEF Enter, Locks!Enter, Locks!MayEnter, Locks!SetsOverlap, SetsOverlap,
         Locks!Overlap, Overlap, Locks!Descendant, Descendant
<1>2. Requested(r) /\ Requested(q) /\ inside[q] = {Source(q), Target(q)}
  BY <1>1 DEF Safe, IInv, Good, Typed, LockHeld, Working
<1>3. /\ Source(r) \in Seq(Nat) /\ Target(r) \in Seq(Nat)
      /\ Source(q) \in Seq(Nat) /\ Target(q) \in Seq(Nat)
  BY <1>2, OpPaths
<1>4. QED
  BY <1>1, <1>2, <1>3, ApartConcern, ZenonT(60) DEF Concerns

\* When a handler gets its locks everything is known by its name.
LEMMA EnterTold ==
    ASSUME IInv, Types, NEW r \in Req, Safe, Told, Enter(r)
    PROVE  Told'
<1>1. /\ Others(r) /\ Kept(r) /\ req'[r].pc = "checking" /\ fs' = fs /\ rows' = rows /\ ~ Working(r)
  BY StepFields DEF Enter, Working
<1>2. ASSUME NEW q \in Req \ {r}
      PROVE  /\ Working(q)' = Working(q) /\ req'[q] = req[q]
             /\ \A k : Concerns(q, k)' = Concerns(q, k)
             /\ \A k : Tells(q, k)' = Tells(q, k)
  <2>1. req'[q] = req[q]
    BY <1>1 DEF Others
  <2>2. QED
    BY <1>1, <2>1 DEF Working, Concerns, Tells, Arrived, WholeTree, Source, Target, Op
<1>3. \A k : Concerns(r, k)' = Concerns(r, k)
  BY <1>1 DEF Kept, Concerns, Source, Target, Op
<1>4. ASSUME NEW k \in DOMAIN fs, k \in Plain, NEW q \in Req, Working(q)', Concerns(q, k)'
      PROVE  Tells(q, k)'
  <2>1. CASE q # r
    BY <1>2, <1>4, <2>1 DEF Told
  <2>2. CASE q = r
    <3>1. \A x \in Req : ~ (Working(x) /\ Concerns(x, k))
      BY <1>1, <1>3, <1>4, <2>2, EnterApart, PlainPaths
    <3>2. k \in DOMAIN rows
      BY <1>4, <3>1 DEF Told
    <3>3. QED
      BY <1>1, <2>2, <3>2 DEF Tells, Arrived
  <2>3. QED
    BY <2>1, <2>2
<1>5. ASSUME NEW k \in DOMAIN fs, k \in Plain, \A q \in Req : ~ (Working(q)' /\ Concerns(q, k)')
      PROVE  k \in DOMAIN rows'
  <2>1. \A q \in Req : ~ (Working(q) /\ Concerns(q, k))
    BY <1>1, <1>2, <1>5
  <2>2. QED
    BY <1>1, <1>5, <2>1 DEF Told
<1>6. QED
  BY <1>1, <1>4, <1>5 DEF Told

-----------------------------------------------------------------------------
(* Whose backups there are.                                                *)

\* Plain names and those of temporary files are no backups' names; what follows a path
\* keeps its last name.
LEMMA OddLast ==
    /\ \A k \in Plain : ~ Odd(k)
    /\ \A p \in Plain \ {Root}, n \in Nat : ~ Odd(TmpName(p, n))
    /\ \A a, b, x \in Seq(Nat) : x # Root /\ Odd(a \o x) => Odd(b \o x)
<1>1. ASSUME NEW k \in Plain PROVE ~ Odd(k)
  <2>1. k # Root => k[Len(k)] \in 0..9
    BY DEF Plain, Root
  <2>2. QED
    BY <2>1 DEF Odd
<1>2. ASSUME NEW p \in Plain \ {Root}, NEW n \in Nat PROVE ~ Odd(TmpName(p, n))
  <2> DEFINE t == 20 * n + 10
             b == Beside(p, t)
  <2>1. t \in Nat /\ t >= 10
    OBVIOUS
  <2>2. Len(b) = Len(p) /\ p[Len(p)] \in 0..9 /\ b[Len(p)] = t + p[Len(p)]
    <3> HIDE DEF t
    <3>1. QED
      BY <2>1, OddName
  <2>3. PICK i \in 0..9 : b[Len(b)] = 20 * n + 10 + i
    <3> HIDE DEF b
    <3>1. QED
      BY <2>2
  <2>4. (20 * n + 10 + i) % 20 = 10 + i
    OBVIOUS
  <2>5. ~ (b[Len(b)] % 20 < 10)
    <3> HIDE DEF b
    <3>1. QED
      BY <2>3, <2>4
  <2>6. QED
    BY <2>5 DEF Odd, TmpName
<1>3. ASSUME NEW a \in Seq(Nat), NEW b \in Seq(Nat), NEW x \in Seq(Nat), x # Root, Odd(a \o x)
      PROVE  Odd(b \o x)
  <2>1. /\ (a \o x)[Len(a \o x)] = x[Len(x)]
        /\ (b \o x)[Len(b \o x)] = x[Len(x)] /\ b \o x # Root
    BY <1>3, LastFollowed
  <2> DEFINE u == a \o x
             v == b \o x
  <2>2. u[Len(u)] = v[Len(v)] /\ v # Root /\ Odd(u)
    BY <1>3, <2>1
  <2> HIDE DEF u, v
  <2>3. Odd(v)
    BY <2>2 DEF Odd
  <2>4. QED
    BY <2>3 DEF v
<1>4. QED
  BY <1>1, <1>2, <1>3

\* Below the paths and names of a request at work there are no backups but its own.
LEMMA NoBackupBelow ==
    ASSUME IInv, Types, Safe, NEW r \in Req, Past(r), Op(r).kind # "PROPPATCH",
           NEW x \in {Source(r), Target(r), Tmp(r)}, NEW y \in Seq(Nat), y # Root,
           NEW q \in Req, Owns(q, x \o y)
    PROVE  FALSE
<1>1. Working(q) /\ req[q].saved /\ x \o y = Backup(q) /\ Working(r)
  BY DEF Owns, Past, Working
<1>2. Past(q) /\ Op(q).kind # "PROPPATCH"
  BY <1>1 DEF IInv, Good, Typed, Types, Sorted, Working, Past
<1>3. /\ Target(q) \in Plain /\ Target(q) \in Seq(Nat) /\ Target(q) # Root
      /\ Parent(Target(q)) \in Plain /\ Parent(Backup(q)) = Parent(Target(q))
  <2>1. Requested(q)
    BY <1>2 DEF IInv, Good, Typed, Past
  <2>2. QED
    BY <1>2, <2>1, OwnApart, PlainOp
<1>4. x \in Seq(Nat) /\ Source(r) \in Plain /\ Target(r) \in Plain
  BY OwnApart
<1>5. Within(x, Parent(Target(q)))
  <2>1. Parent(x \o y) = x \o Parent(y) /\ Parent(y) \in Seq(Nat)
    BY <1>4, Followed
  <2>2. Within(x, x \o Parent(y))
    BY <1>4, <2>1, Followed
  <2>3. QED
    BY <1>1, <1>3, <2>1, <2>2
<1>6. x # Tmp(r)
  BY <1>3, <1>5, OwnApart DEF Free
<1>7. q # r
  BY <1>5, OwnApart DEF Free
<1>8. Concerns(r, Target(q))
  <2>1. Within(x, Target(q))
    BY <1>3, <1>4, <1>5, WithinParent
  <2>2. QED
    BY <1>6, <2>1 DEF Concerns
<1>9. Concerns(q, Target(q))
  BY <1>3, WithinOrder DEF Concerns
<1>10. req[r].alive /\ req[q].alive
  BY DEF Safe
<1>11. QED
  BY <1>1, <1>3, <1>7, <1>8, <1>9, <1>10, OneConcern

\* A step of r that leaves no backup behind.
LEMMA OwnedStays ==
    ASSUME Owned, NEW r \in Req, Others(r),
           \A k \in DOMAIN fs' : Odd(k) => (k \in DOMAIN fs /\ ~ Owns(r, k)) \/ Owns(r, k)'
    PROVE  Owned'
<1>1. ASSUME NEW q \in Req \ {r}, NEW k PROVE Owns(q, k)' = Owns(q, k)
  <2>1. req'[q] = req[q]
    BY DEF Others
  <2>2. QED
    BY <2>1 DEF Owns, Working, Backup, Target, Op
<1>2. ASSUME NEW k \in DOMAIN fs', Odd(k) PROVE \E q \in Req : Owns(q, k)'
  <2>1. CASE Owns(r, k)'
    BY <2>1
  <2>2. CASE k \in DOMAIN fs /\ ~ Owns(r, k)
    <3>1. PICK q \in Req : Owns(q, k)
      BY <1>2, <2>2 DEF Owned
    <3>2. q # r
      BY <2>2, <3>1
    <3>3. QED
      BY <1>1, <3>1, <3>2
  <2>3. QED
    BY <1>2, <2>1, <2>2
<1>3. QED
  BY <1>2 DEF Owned

\* What a request writes when it starts is no backup.
LEMMA BeginOwned ==
    ASSUME IInv, Types, Owned, NEW r \in Req, NEW o \in Ops, Begin(r, o)
    PROVE  Owned'
<1>1. /\ Others(r) /\ req[r].pc = "idle" /\ issued \in Nat /\ issued' = issued + 1
      /\ \A k : ~ Owns(r, k)
  BY BeginFields DEF Begin, Types, Owns, Working, IInv
<1>2. CASE o.kind # "PUT"
  <2>1. fs' = fs
    BY <1>2 DEF Begin
  <2>2. QED
    BY <1>1, <2>1, OwnedStays
<1>3. CASE o.kind = "PUT"
  <2> DEFINE t == TmpName(o.path, issued')
  <2>1. o.path \in Plain \ {Root} /\ issued' \in Nat
    BY <1>1, <1>3, TreeAssumption DEF ValidOp
  <2>2. ~ Odd(t)
    BY <2>1, OddLast
  <2>3. DOMAIN fs' = DOMAIN fs \cup {t}
    BY <1>3 DEF Begin, Inserted
  <2>4. QED
    BY <1>1, <2>2, <2>3, OwnedStays
<1>4. QED
  BY <1>2, <1>3

\* A step that leaves the disk and what is set aside as they are.
LEMMA StillOwned ==
    ASSUME IInv, Types, Owned, NEW r \in Req, Others(r), DOMAIN fs' \subseteq DOMAIN fs,
           \/ ~ req[r].saved
           \/ Working(r)' /\ Kept(r) /\ req'[r].saved = req[r].saved
    PROVE  Owned'
<1>1. ASSUME NEW k, Owns(r, k), Working(r)', Kept(r), req'[r].saved = req[r].saved PROVE Owns(r, k)'
  BY <1>1 DEF Owns, Kept, Backup, Target, Op
<1>2. ~ req[r].saved => \A k : ~ Owns(r, k)
  BY DEF Owns
<1>3. QED
  BY <1>1, <1>2, OwnedStays

\* Setting aside makes one backup, and there was none below what is set aside.
LEMMA SaveOwned ==
    ASSUME IInv, Types, Safe, Owned, AllReady, NEW r \in Req, Save(r)
    PROVE  Owned'
<1> DEFINE t == Target(r)
           b == Backup(r)
<1>1. /\ Others(r) /\ Kept(r) /\ req'[r].saved = TRUE /\ req'[r].pc \in {"committing", "placing"}
      /\ req[r].pc = "saving" /\ fs' = Moved(fs, t, b)
  BY StepFields, ZenonT(60) DEF Save
<1>2. Past(r) /\ Op(r).kind # "PROPPATCH" /\ ~ req[r].saved
  BY <1>1 DEF Past, Types, Sorted, AllReady, Ready
<1>3. DOMAIN fs \subseteq Seq(Nat) /\ t \in Seq(Nat) /\ b \in Seq(Nat) /\ t \in Plain
  BY <1>2, OwnApart DEF Types, IsTree
<1>4. \A k : ~ Owns(r, k)
  BY <1>2 DEF Owns
<1>5. ASSUME NEW k, k = b PROVE Owns(r, k)'
  BY <1>1, <1>5 DEF Owns, Working, Kept, Backup, Target, Op
<1>6. ASSUME NEW x \in Seq(Nat), x # Root, t \o x \in DOMAIN fs PROVE ~ Odd(t \o x)
  BY <1>2, <1>6, NoBackupBelow DEF Owned
<1> HIDE DEF t, b
<1>7. ASSUME NEW k \in DOMAIN fs', Odd(k) PROVE k \in DOMAIN fs \/ k = b
  <2>1. k \in Seq(Nat)
    BY <1>1, <1>3, MovedAt
  <2>2. CASE ~ Within(b, k)
    BY <1>1, <1>3, <2>1, <2>2, MovedAt
  <2>3. CASE Within(b, k) /\ k # b
    <3> DEFINE x == Suffix(k, b)
    <3>1. x \in Seq(Nat) /\ b \o x = k
      BY <1>3, <2>1, <2>3, WhatIsLeft
    <3> HIDE DEF x
    <3>2. x # Root
      BY <1>3, <2>3, <3>1, Followed
    <3>3. t \o x \in DOMAIN fs
      BY <1>1, <1>3, <3>1, MovedAt
    <3>4. Odd(t \o x)
      BY <1>3, <1>7, <3>1, <3>2, OddLast
    <3>5. QED
      BY <1>6, <3>1, <3>2, <3>3, <3>4
  <2>4. QED
    BY <2>2, <2>3
<1>8. QED
  BY <1>1, <1>4, <1>5, <1>7, OwnedStays

\* A move to a plain name takes no backups along.
LEMMA MovedOwned ==
    ASSUME IInv, Types, Safe, Owned, NEW r \in Req, Past(r), Op(r).kind # "PROPPATCH",
           NEW x \in {Source(r), Tmp(r)}, fs' = Moved(fs, x, Target(r)),
           NEW k \in DOMAIN fs', Odd(k)
    PROVE  k \in DOMAIN fs
<1> DEFINE t == Target(r)
<1>1. DOMAIN fs \subseteq Seq(Nat) /\ t \in Seq(Nat) /\ x \in Seq(Nat) /\ t \in Plain
  BY OwnApart DEF Types, IsTree
<1>2. ASSUME NEW y \in Seq(Nat), y # Root, x \o y \in DOMAIN fs PROVE ~ Odd(x \o y)
  BY <1>2, NoBackupBelow DEF Owned
<1>3. fs' = Moved(fs, x, t)
  OBVIOUS
<1> HIDE DEF t
<1>4. /\ k \in Seq(Nat) /\ (~ Within(t, k) => k \in DOMAIN fs)
      /\ \A y \in Seq(Nat) : t \o y \in DOMAIN fs' <=> x \o y \in DOMAIN fs
  <2> DEFINE M == Moved(fs, x, t)
  <2>1. /\ DOMAIN M \subseteq Seq(Nat)
        /\ \A l \in Seq(Nat) : ~ Within(t, l) => (l \in DOMAIN M <=> l \in DOMAIN fs /\ ~ Within(x, l))
        /\ \A y \in Seq(Nat) : t \o y \in DOMAIN M <=> x \o y \in DOMAIN fs
    BY ZenonT(60), <1>1, MovedAt
  <2>2. fs' = M
    BY <1>3
  <2> HIDE DEF M
  <2>3. QED
    BY <2>1, <2>2
<1>5. CASE ~ Within(t, k)
  BY <1>4, <1>5
<1>6. CASE Within(t, k)
  <2> DEFINE y == Suffix(k, t)
  <2>1. y \in Seq(Nat) /\ t \o y = k
    BY <1>1, <1>4, <1>6, WhatIsLeft
  <2> HIDE DEF y
  <2>2. y # Root
    <3>1. k # t
      BY <1>1, OddLast
    <3>2. QED
      BY <1>1, <2>1, <3>1, Followed
  <2>3. x \o y \in DOMAIN fs
    BY <1>4, <2>1
  <2>4. Odd(x \o y)
    BY <1>1, <2>1, <2>2, OddLast
  <2>5. QED
    BY <1>2, <2>1, <2>2, <2>3, <2>4
<1>7. QED
  BY <1>5, <1>6

\* What is put in place is no backup.
LEMMA PlaceOwned ==
    ASSUME IInv, Types, Safe, Owned, NEW r \in Req, Place(r)
    PROVE  Owned'
<1>1. /\ Others(r) /\ Kept(r) /\ req'[r].saved = req[r].saved /\ req'[r].pc = "committing"
      /\ req[r].pc = "placing"
  BY StepFields DEF Place
<1>2. Past(r) /\ Op(r).kind # "PROPPATCH" /\ Op(r).kind # "DELETE"
  BY <1>1 DEF Past, Types, Sorted
<1>3. Requested(r) /\ Op(r).kind \in Kinds /\ (Op(r).kind \notin Pairs => Source(r) = Target(r)) /\ Target(r) \in Plain
  BY <1>2, OwnApart, OpPaths
<1>4. ASSUME NEW k \in DOMAIN fs', Odd(k) PROVE k \in DOMAIN fs
  <2>1. CASE Op(r).kind = "PUT"
    <3>1. fs' = Moved(fs, Tmp(r), Target(r))
      BY <1>3, <2>1 DEF Place, Pairs
    <3>2. QED
      BY <1>2, <1>4, <3>1, MovedOwned
  <2>2. CASE Op(r).kind = "MOVE"
    <3>1. fs' = Moved(fs, Source(r), Target(r))
      BY <2>2 DEF Place
    <3>2. QED
      BY <1>2, <1>4, <3>1, MovedOwned
  <2>3. CASE Op(r).kind = "MKCOL"
    <3>1. DOMAIN fs' = DOMAIN fs \cup {Target(r)}
      BY <1>3, <2>3 DEF Place, Inserted, Pairs
    <3>2. QED
      BY <1>3, <1>4, <3>1, OddLast
  <2>4. CASE Op(r).kind \in {"COPY", "COPY0"}
    <3>1. DOMAIN fs' = DOMAIN fs \cup DOMAIN Copied(r)
      BY <2>4 DEF Place, Inserted
    <3>2. QED
      BY <1>2, <1>3, <1>4, <3>1, CopiedPlain, OddLast
  <2>5. QED
    BY <1>2, <1>3, <2>1, <2>2, <2>3, <2>4 DEF Kinds
<1>5. ASSUME NEW k, Owns(r, k) PROVE Owns(r, k)'
  BY <1>1, <1>5 DEF Owns, Working, Kept, Backup, Target, Op
<1>6. QED
  BY <1>1, <1>4, <1>5, OwnedStays

\* With its last step a request deletes its backup.
LEMMA CleanOwned ==
    ASSUME IInv, Types, Owned, NEW r \in Req, Clean(r)
    PROVE  Owned'
<1>1. Others(r) /\ req[r].pc = "cleaning"
  BY EndFields DEF Clean
<1>2. CASE ~ req[r].saved
  <2>1. fs' = fs
    BY <1>2 DEF Clean
  <2>2. QED
    BY <1>1, <1>2, <2>1, StillOwned
<1>3. CASE req[r].saved
  <2>1. fs' = Removed(fs, Backup(r))
    BY <1>3 DEF Clean
  <2>2. \A k \in DOMAIN fs' : k \in DOMAIN fs /\ k # Backup(r)
    BY <2>1, RemovedAt DEF Within
  <2>3. QED
    BY <1>1, <2>2, OwnedStays DEF Owns
<1>4. QED
  BY <1>2, <1>3

\* What a request gives up before it has changed anything is its temporary file.
LEMMA RefuseOwned ==
    ASSUME IInv, Types, Owned, AllReady, NEW r \in Req, Refuse(r)
    PROVE  Owned'
<1>1. Others(r) /\ req[r].pc \in {"waiting", "checking", "saving"}
  BY EndFields DEF Refuse
<1>2. ~ req[r].saved
  <2>1. CASE req[r].pc \in {"waiting", "checking"}
    BY <2>1 DEF IInv, Good, Typed
  <2>2. CASE req[r].pc = "saving"
    BY <2>2 DEF AllReady, Ready, Past, Types, Sorted
  <2>3. QED
    BY <1>1, <2>1, <2>2
<1>3. DOMAIN fs' \subseteq DOMAIN fs
  BY RemovedAt DEF Refuse, WithoutTmp
<1>4. QED
  BY <1>1, <1>2, <1>3, StillOwned

\* The backups stay those of the requests at work.
LEMMA StaysOwned ==
    ASSUME IInv, Types, Safe, Owned, AllReady, NEW r \in Req,
           \/ Enter(r) \/ Check(r) \/ Refuse(r) \/ Save(r) \/ Place(r) \/ Commit(r) \/ Clean(r)
           \/ (Op(r).kind = "PROPPATCH" /\ (Fail(r) \/ Undo(r)))
    PROVE  Owned'
<1>1. CASE Refuse(r)
  BY <1>1, RefuseOwned
<1>2. CASE Save(r)
  BY <1>2, SaveOwned
<1>3. CASE Place(r)
  BY <1>3, PlaceOwned
<1>4. CASE Clean(r)
  BY <1>4, CleanOwned
<1>5. CASE Enter(r)
  <2>1. Others(r) /\ fs' = fs /\ ~ req[r].saved
    BY <1>5, StepFields DEF Enter, IInv, Good, Typed
  <2>2. QED
    BY <2>1, StillOwned
<1>6. CASE Check(r)
  <2>1. Others(r) /\ fs' = fs /\ ~ req[r].saved
    BY <1>6, StepFields DEF Check, IInv, Good, Typed
  <2>2. QED
    BY <2>1, StillOwned
<1>7. CASE Commit(r)
  <2>1. Others(r) /\ Kept(r) /\ fs' = fs /\ req'[r].saved = req[r].saved /\ Working(r)'
    BY <1>7, StepFields DEF Commit, Marks, Working
  <2>2. QED
    BY <2>1, StillOwned
<1>8. CASE Op(r).kind = "PROPPATCH" /\ Fail(r)
  <2>1. Others(r) /\ Kept(r) /\ fs' = fs /\ req'[r].saved = req[r].saved /\ Working(r)'
    BY <1>8, StepFields DEF Fail, Marks, Working
  <2>2. QED
    BY <2>1, StillOwned
<1>9. CASE Op(r).kind = "PROPPATCH" /\ Undo(r)
  <2>1. Others(r) /\ fs' = fs
    BY <1>9, EndFields DEF Undo
  <2>2. ~ req[r].saved
    BY <1>9 DEF Types, Sorted, IInv, Good, Typed
  <2>3. QED
    BY <2>1, <2>2, StillOwned
<1>10. QED
  BY <1>1, <1>2, <1>3, <1>4, <1>5, <1>6, <1>7, <1>8, <1>9

-----------------------------------------------------------------------------
(* What is on disk stays known to the rows.                                *)

\* A step of r on its own part of the disk; Retold with that part filled in.
LEMMA OwnTold ==
    ASSUME IInv, Types, Types', NEW r \in Req, Safe, Told, Others(r), Working(r), Working(r)' => Kept(r),
           SameDisk(Region(r), fs, fs'),
           \A k \in Plain : ~ Concerns(r, k) /\ k \in DOMAIN rows => k \in DOMAIN rows',
           \A k \in Plain : k \in DOMAIN fs' /\ Concerns(r, k) =>
              IF Working(r)' THEN Tells(r, k)' ELSE k \in DOMAIN rows'
    PROVE  Told'
<1> DEFINE Z == Region(r)
<1>1. \A k \in Plain : ~ Concerns(r, k) => Free(Z, k)
  BY RegionForeign DEF Safe
<1>2. Untouched(Z)
  BY DEF SameDisk, Untouched
<1> HIDE DEF Z
<1>3. QED
  BY <1>1, <1>2, Retold

\* What r knows before its step: it has nothing in place before it commits.
LEMMA KnownByName ==
    ASSUME Types, Told, NEW r \in Req, Working(r), ~ Arrived(r), NEW k \in DOMAIN fs, k \in Plain, Concerns(r, k)
    PROVE  k \in DOMAIN rows
BY DEF Told, Tells

\* The checks change nothing.
LEMMA CheckTold ==
    ASSUME IInv, Types, Types', NEW r \in Req, Safe, Told, Check(r)
    PROVE  Told'
<1>1. /\ Others(r) /\ Kept(r) /\ req[r].pc = "checking" /\ fs' = fs /\ rows' = rows
      /\ req'[r].placed = req[r].placed /\ Working(r)
  BY StepFields DEF Check, Working
<1>2. ~ req[r].placed
  BY <1>1 DEF Types, Sorted
<1>3. ~ Arrived(r) /\ ~ Arrived(r)'
  BY <1>1, <1>2 DEF Arrived
<1>4. \A k \in Plain : k \in DOMAIN fs' /\ Concerns(r, k) => k \in DOMAIN rows'
  BY <1>1, <1>3, KnownByName
<1>5. \A k : k \in DOMAIN rows' => Tells(r, k)'
  BY <1>3 DEF Tells
<1>6. SameDisk(Region(r), fs, fs')
  BY <1>1 DEF SameDisk
<1>7. QED
  BY <1>1, <1>4, <1>5, <1>6, OwnTold

\* What is set aside is known no less.
LEMMA SaveTold ==
    ASSUME IInv, Types, Types', NEW r \in Req, Safe, Told, Save(r)
    PROVE  Told'
<1> DEFINE d == Target(r)
           b == Backup(r)
<1>1. /\ Others(r) /\ Kept(r) /\ req[r].pc = "saving" /\ rows' = rows /\ fs' = Moved(fs, d, b)
      /\ req'[r].placed = req[r].placed /\ Working(r) /\ Past(r)
  BY StepFields DEF Save, Working, Past
<1>2. Op(r).kind # "PROPPATCH" /\ DOMAIN fs \subseteq Seq(Nat)
  BY <1>1 DEF Types, Sorted, IsTree
<1>3. ~ req[r].placed
  BY <1>1, <1>2, Own DEF DiskFits
<1>4. ~ Arrived(r) /\ ~ Arrived(r)'
  BY <1>1, <1>3 DEF Arrived
<1>5. d \in Seq(Nat) /\ b \in Seq(Nat) /\ \A k \in Plain : ~ Within(b, k)
  BY <1>1, <1>2, OwnApart DEF Free
<1>6. SameDisk({d, b}, fs, Moved(fs, d, b))
  BY <1>2, <1>5, MovedSame
<1>7. SameDisk(Region(r), fs, fs')
  BY <1>1, <1>2, <1>6 DEF SameDisk, Free, Region
<1>8. \A k \in Plain : k \in DOMAIN fs' => k \in DOMAIN fs
  <2>1. DOMAIN fs \subseteq Seq(Nat) /\ d \in Seq(Nat) /\ b \in Seq(Nat) /\ fs' = Moved(fs, d, b)
    BY <1>1, <1>2, <1>5
  <2> HIDE DEF d, b
  <2>2. QED
    BY <1>5, <2>1, MovedAt, PlainPaths
<1>9. \A k \in Plain : k \in DOMAIN fs' /\ Concerns(r, k) => k \in DOMAIN rows'
  BY <1>1, <1>4, <1>8, KnownByName
<1>10. \A k : k \in DOMAIN rows' => Tells(r, k)'
  BY <1>4 DEF Tells
<1>11. QED
  BY <1>1, <1>7, <1>9, <1>10, OwnTold

\* A request that ends without a word to the rows, or after the last one.
LEMMA EndTold ==
    ASSUME IInv, Types, Types', NEW r \in Req, Safe, Told, Working(r), Op(r).kind # "PROPPATCH",
           Refuse(r) \/ Clean(r)
    PROVE  Told'
<1>1. Others(r) /\ ~ Working(r)' /\ rows' = rows
  BY EndFields DEF Refuse, Clean, Working
<1>2. ~ Arrived(r)
  BY DEF Refuse, Clean, Arrived
<1>3. DOMAIN fs' \subseteq DOMAIN fs /\ SameDisk({Tmp(r), Backup(r)}, fs, fs')
  <2>1. CASE fs' = fs
    BY <2>1 DEF SameDisk
  <2>2. CASE fs' = Removed(fs, Tmp(r)) \/ fs' = Removed(fs, Backup(r))
    BY <2>2, RemovedAt, RemovedSame DEF SameDisk, Free
  <2>3. QED
    BY <2>1, <2>2 DEF Refuse, Clean, WithoutTmp
<1>4. SameDisk(Region(r), fs, fs')
  BY <1>3 DEF SameDisk, Free, Region
<1>5. \A k \in Plain : k \in DOMAIN fs' /\ Concerns(r, k) => k \in DOMAIN rows'
  BY <1>1, <1>2, <1>3, KnownByName
<1>6. QED
  BY <1>1, <1>4, <1>5, OwnTold

\* A PROPPATCH has nothing to do with what is where.
LEMMA PropTold ==
    ASSUME IInv, Types, Types', NEW r \in Req, Safe, Told, Working(r), Op(r).kind = "PROPPATCH",
           Refuse(r) \/ Commit(r) \/ Clean(r) \/ Fail(r) \/ Undo(r)
    PROVE  Told'
<1>1. Others(r) /\ (Working(r)' => Kept(r))
  BY StepFields, EndFields DEF Working
<1>2. ~ req[r].saved
  BY DEF Types, Sorted
<1>3. fs' = fs /\ rows' = rows
  BY <1>2 DEF Refuse, WithoutTmp, Commit, Apply, NewRows, Clean, Fail, Undo
<1>4. ~ Arrived(r)
  BY DEF Arrived
<1>5. Working(r)' => \A k : k \in DOMAIN rows' => Tells(r, k)'
  BY <1>1 DEF Kept, Tells, Arrived, Op
<1>6. \A k \in Plain : k \in DOMAIN fs' /\ Concerns(r, k) => k \in DOMAIN rows'
  BY <1>3, <1>4, KnownByName
<1>7. SameDisk(Region(r), fs, fs')
  BY <1>3 DEF SameDisk
<1>8. QED
  BY <1>1, <1>3, <1>5, <1>6, <1>7, OwnTold

\* A request that is not at work yet touches its temporary file at most.
LEMMA ApartTold ==
    ASSUME IInv, Types, Types', NEW r \in Req, Safe, Told, Others(r), ~ Working(r), ~ Working(r)', rows' = rows,
           \/ fs' = fs
           \/ \E p \in Plain \ {Root}, n \in Nat \ {0} : SameDisk({TmpName(p, n)}, fs, fs')
    PROVE  Told'
<1>1. CASE fs' = fs
  <2>1. Untouched({}) /\ \A k : Free({}, k)
    BY <1>1 DEF Untouched, Free
  <2>2. QED
    BY <2>1, Retold
<1>2. ASSUME NEW p \in Plain \ {Root}, NEW n \in Nat \ {0}, SameDisk({TmpName(p, n)}, fs, fs')
      PROVE  Told'
  <2> DEFINE Z == {TmpName(p, n)}
  <2>1. \A k \in Plain : Free(Z, k)
    BY TmpForeign
  <2>2. Untouched(Z)
    BY <1>2 DEF SameDisk, Untouched
  <2> HIDE DEF Z
  <2>3. QED
    BY <2>1, <2>2, Retold
<1>3. QED
  BY <1>1, <1>2

\* What is above a carried path is carried to above it.
LEMMA BelowCarried ==
    ASSUME NEW a \in Seq(Nat), NEW b \in Seq(Nat), NEW x \in Seq(Nat), NEW y \in Seq(Nat),
           Within(a \o y, a \o x)
    PROVE  Within(b \o y, b \o x)
<1>1. a \o x \in Seq(Nat) /\ a \o y \in Seq(Nat) /\ b \o x \in Seq(Nat) /\ b \o y \in Seq(Nat)
  BY Followed
<1>2. Len(a \o y) <= Len(a \o x) /\ \A i \in 1..Len(a \o y) : (a \o y)[i] = (a \o x)[i]
  BY <1>1, WithinNames
<1>3. Len(y) <= Len(x) /\ \A i \in 1..Len(y) : y[i] = x[i]
  <2>1. Len(y) <= Len(x)
    BY <1>2
  <2>2. ASSUME NEW i \in 1..Len(y) PROVE y[i] = x[i]
    <3>1. (a \o y)[Len(a) + i] = y[i] /\ (a \o x)[Len(a) + i] = x[i] /\ Len(a) + i \in 1..Len(a \o y)
      BY <2>1
    <3>2. QED
      BY <1>2, <3>1
  <2>3. QED
    BY <2>1, <2>2
<1>4. Len(b \o y) <= Len(b \o x) /\ \A i \in 1..Len(b \o y) : (b \o y)[i] = (b \o x)[i]
  BY <1>3
<1>5. QED
  BY <1>1, <1>4, WithinNames

\* What a copied collection consists of is what the rows list below the source.
LEMMA CopiedListed ==
    ASSUME IsTree(Listed), DOMAIN rows \subseteq Plain, NEW r, Requested(r), Op(r).kind = "COPY",
           req[r].isDir, NEW k \in DOMAIN Copied(r)
    PROVE  Source(r) \o Suffix(k, Target(r)) \in DOMAIN rows
<1> DEFINE s == Source(r)
           d == Target(r)
           y == Suffix(k, d)
<1>1. s \in Seq(Nat) /\ d \in Seq(Nat) /\ DOMAIN rows \subseteq Seq(Nat) /\ DOMAIN Listed = DOMAIN rows
  BY OpPaths, PlainPaths DEF Listed
<1>2. PICK q \in Entries(rows, s) :
         \/ k = d \o Suffix(q, s)
         \/ k \in ParentPaths(d \o Suffix(q, s)) /\ (Descendant(d, k) \/ k = d)
  BY DEF Copied
<1> DEFINE x == Suffix(q, s)
<1>3. q \in DOMAIN rows /\ Within(s, q) /\ q \in Seq(Nat)
  BY <1>1, EntriesAt
<1>4. x \in Seq(Nat) /\ s \o x = q
  BY <1>1, <1>3, WhatIsLeft
<1>5. k = d \o x \/ (k \in ParentPaths(d \o x) /\ Within(d, k))
  BY <1>2 DEF Within
<1> HIDE DEF x
<1>6. CASE k = d \o x
  <2>1. Suffix(d \o x, d) = x
    BY <1>1, <1>4, Followed
  <2>2. QED
    BY <1>3, <1>4, <1>6, <2>1
<1>7. CASE k \in ParentPaths(d \o x) /\ Within(d, k)
  <2>1. d \o x \in Seq(Nat)
    BY <1>1, <1>4, Followed
  <2>2. k \in Seq(Nat) /\ Descendant(k, d \o x)
    BY <1>7, <2>1, AncestorsFinite
  <2>3. y \in Seq(Nat) /\ d \o y = k
    BY <1>1, <1>7, <2>2, WhatIsLeft
  <2> HIDE DEF y
  <2>4. Within(d \o y, d \o x)
    BY <2>2, <2>3 DEF Within
  <2>5. Within(s \o y, s \o x) /\ s \o y \in Seq(Nat)
    BY <1>1, <1>4, <2>3, <2>4, BelowCarried, Followed
  <2>6. CASE s \o y = q
    BY <1>3, <2>6 DEF y
  <2>7. CASE Descendant(s \o y, q)
    <3>1. IsDir(Listed, s \o y)
      BY <1>1, <1>3, <2>5, <2>7, AboveIsDir
    <3>2. QED
      BY <1>1, <3>1 DEF IsDir, y
  <2>8. QED
    BY <1>4, <2>5, <2>6, <2>7 DEF Within
<1>8. QED
  BY <1>5, <1>6, <1>7

\* What a placed entry consists of is known to the rows.
LEMMA PlaceKnown ==
    ASSUME IInv, Types, Types', NEW r \in Req, Safe, Told, IsTree(Listed), Place(r),
           NEW k \in DOMAIN fs', k \in Plain
    PROVE  /\ ~ Within(Target(r), k) => k \in DOMAIN fs
           /\ Within(Target(r), k) =>
                 IF WholeTree(r) THEN Source(r) \o Suffix(k, Target(r)) \in DOMAIN rows ELSE k = Target(r)
<1> DEFINE s == Source(r)
           d == Target(r)
<1>1. req[r].pc = "placing" /\ Working(r) /\ Past(r) /\ DOMAIN rows \subseteq Plain
  BY DEF Place, Working, Past, Types
<1>2. Op(r).kind \notin {"PROPPATCH", "DELETE"} /\ DOMAIN fs \subseteq Seq(Nat) /\ IsTree(fs) /\ IsTree(fs')
  BY <1>1 DEF Types, Sorted, IsTree
<1>3. d \notin DOMAIN fs
  BY <1>1, <1>2, Own DEF DiskFits
<1>4. /\ Requested(r) /\ s \in Seq(Nat) /\ d \in Seq(Nat) /\ s \in Plain /\ d \in Plain
      /\ k \in Seq(Nat) /\ ~ Within(Tmp(r), k)
      /\ Op(r).kind \in Kinds /\ (Op(r).kind \notin Pairs => s = d)
  BY <1>1, <1>2, OwnApart, PlainPaths, PastOp DEF Free
<1>5. \A l \in DOMAIN fs : ~ Within(d, l)
  BY <1>2, <1>3, <1>4, NothingBelow DEF IsDir
<1>6. CASE Op(r).kind = "PUT"
  <2>1. SameDisk({s, d, Tmp(r)}, fs, fs') /\ fs'[d] = Body(r) /\ s = d /\ ~ WholeTree(r)
    BY <1>4, <1>6, PlaceMade DEF Pairs, WholeTree
  <2>2. Body(r) # Dir
    BY <1>4, TreeAssumption DEF Body, Requested
  <2>3. ~ Descendant(d, k)
    BY <1>2, <1>4, <2>1, <2>2, NothingBelow DEF IsDir
  <2>4. ~ Within(d, k) => k \in DOMAIN fs
    BY <1>4, <2>1 DEF SameDisk, Free
  <2>5. QED
    BY <2>1, <2>3, <2>4 DEF Within
<1>7. CASE Op(r).kind = "MKCOL"
  <2>1. DOMAIN fs' = DOMAIN fs \cup {d} /\ ~ WholeTree(r)
    BY <1>4, <1>7 DEF Place, Inserted, Pairs, WholeTree
  <2>2. QED
    BY <1>5, <2>1 DEF Within
<1>8. CASE Op(r).kind = "MOVE"
  <2> DEFINE M == Moved(fs, s, d)
             x == Suffix(k, d)
  <2>1. /\ \A l \in Seq(Nat) : ~ Within(d, l) => (l \in DOMAIN M <=> l \in DOMAIN fs /\ ~ Within(s, l))
        /\ \A z \in Seq(Nat) : d \o z \in DOMAIN M <=> s \o z \in DOMAIN fs
    <3>1. DOMAIN fs \subseteq Seq(Nat) /\ d \in Seq(Nat) /\ s \in Seq(Nat)
      BY <1>2, <1>4
    <3> HIDE DEF d, s
    <3>2. QED
      BY <3>1, MovedAt
  <2>2. fs' = M /\ WholeTree(r)
    BY <1>8 DEF Place, WholeTree
  <2> HIDE DEF M
  <2>3. ~ Within(d, k) => k \in DOMAIN fs
    BY <1>4, <2>1, <2>2
  <2>4. ASSUME Within(d, k) PROVE s \o x \in DOMAIN rows
    <3>1. x \in Seq(Nat) /\ d \o x = k
      BY <1>4, <2>4, WhatIsLeft
    <3>2. s \o x \in Plain
      BY <1>4, <2>4, PlainPaths
    <3> HIDE DEF x
    <3>3. s \o x \in DOMAIN fs
      BY <2>1, <2>2, <3>1
    <3>4. Concerns(r, s \o x)
      BY <1>4, <3>1, Followed DEF Concerns
    <3>5. ~ Arrived(r)
      BY <1>1 DEF Arrived
    <3>6. QED
      BY <1>1, <3>2, <3>3, <3>4, <3>5, KnownByName
  <2>5. QED
    BY <2>2, <2>3, <2>4
<1>9. CASE Op(r).kind \in {"COPY", "COPY0"}
  <2>1. DOMAIN fs' = DOMAIN Copied(r) \cup DOMAIN fs
    BY <1>9 DEF Place, Inserted
  <2>2. \A l \in DOMAIN Copied(r) : Within(d, l)
    BY <1>2, <1>4, CopiedPlain
  <2>3. Within(d, k) => k \in DOMAIN Copied(r)
    BY <1>5, <2>1
  <2>4. CASE WholeTree(r)
    BY <1>1, <1>4, <1>9, <2>1, <2>2, <2>3, <2>4, CopiedListed DEF WholeTree
  <2>5. CASE ~ WholeTree(r)
    <3>1. ~ req[r].isDir \/ Op(r).kind = "COPY0"
      BY <1>9, <2>5 DEF WholeTree
    <3>2. DOMAIN Copied(r) = {d}
      BY <3>1 DEF Copied
    <3>3. QED
      BY <2>1, <2>2, <2>3, <2>5, <3>2
  <2>6. QED
    BY <2>4, <2>5
<1>10. QED
  BY <1>2, <1>4, <1>6, <1>7, <1>8, <1>9 DEF Kinds

\* What is put in place is known.
LEMMA PlaceTold ==
    ASSUME IInv, Types, Types', NEW r \in Req, Safe, Told, IsTree(Listed), Place(r)
    PROVE  Told'
<1>1. /\ Others(r) /\ Kept(r) /\ req'[r].isDir = req[r].isDir /\ req'[r].placed /\ req'[r].pc = "committing"
      /\ req[r].pc = "placing" /\ rows' = rows /\ Working(r) /\ Working(r)' /\ Past(r)
  BY StepFields DEF Place, Working, Past
<1>2. Op(r).kind # "PROPPATCH" /\ ~ Arrived(r)
  BY <1>1 DEF Types, Sorted, Arrived
<1>3. /\ Op(r)' = Op(r) /\ Source(r)' = Source(r) /\ Target(r)' = Target(r)
      /\ Arrived(r)' /\ WholeTree(r)' = WholeTree(r)
  BY <1>1, <1>2 DEF Kept, Op, Source, Target, Arrived, WholeTree
<1>4. ASSUME NEW k \in Plain, k \in DOMAIN fs', Concerns(r, k) PROVE Tells(r, k)'
  <2>1. /\ ~ Within(Target(r), k) => k \in DOMAIN fs
        /\ Within(Target(r), k) =>
              IF WholeTree(r) THEN Source(r) \o Suffix(k, Target(r)) \in DOMAIN rows ELSE k = Target(r)
    BY <1>4, PlaceKnown
  <2>2. ~ Within(Target(r), k) => k \in DOMAIN rows
    BY <1>1, <1>2, <1>4, <2>1, KnownByName
  <2>3. QED
    BY <1>1, <1>3, <2>1, <2>2 DEF Tells
<1>5. SameDisk(Region(r), fs, fs')
  BY <1>2, PlaceMade DEF SameDisk, Free, Region
<1>6. QED
  BY <1>1, <1>4, <1>5, OwnTold

\* What a transaction lists, whatever the request.
LEMMA CommitLists ==
    ASSUME IInv, Types, NEW r \in Req, Safe, Commit(r), Op(r).kind # "PROPPATCH"
    PROVE  Lists(r, rows')
<1>1. rows' = NewRows(r) /\ Op(r).kind \in Kinds
  BY CommitReady
<1>2. CASE Op(r).kind = "PUT"
  BY <1>1, <1>2, PutLists DEF NewRows
<1>3. CASE Op(r).kind = "MKCOL"
  BY <1>1, <1>3, MkcolLists DEF NewRows
<1>4. CASE Op(r).kind = "DELETE"
  BY <1>1, <1>4, DeleteLists DEF NewRows
<1>5. CASE Op(r).kind = "MOVE"
  BY <1>1, <1>5, MoveLists DEF NewRows
<1>6. CASE Op(r).kind \in {"COPY", "COPY0"}
  BY <1>1, <1>6, CopyLists DEF NewRows
<1>7. QED
  BY <1>1, <1>2, <1>3, <1>4, <1>5, <1>6 DEF Kinds

\* What the rows know of a request's entries before it commits.
LEMMA CommitKnows ==
    ASSUME IInv, Types, NEW r \in Req, Safe, Told, Commit(r), Op(r).kind # "PROPPATCH",
           NEW k \in DOMAIN fs, k \in Plain, Concerns(r, k)
    PROVE  /\ k \in Seq(Nat) /\ Op(r).kind # "DELETE"
           /\ ~ Within(Target(r), k) => k \in DOMAIN rows
           /\ Within(Target(r), k) =>
                 IF WholeTree(r) THEN Source(r) \o Suffix(k, Target(r)) \in DOMAIN rows ELSE k = Target(r)
<1> DEFINE s == Source(r)
           d == Target(r)
<1>1. /\ Working(r) /\ req[r].pc = "committing" /\ IsTree(fs) /\ DiskFits(r) /\ s \in Seq(Nat) /\ d \in Seq(Nat)
      /\ Op(r).kind \notin Pairs => s = d
  BY CommitReady
<1>2. Op(r).kind # "DELETE"
  <2>1. ASSUME Op(r).kind = "DELETE" PROVE FALSE
    <3>1. d \notin DOMAIN fs /\ s = d
      BY <1>1, <2>1 DEF DiskFits, Pairs
    <3>2. ~ Within(d, k)
      BY <1>1, <3>1, NothingBelow DEF IsDir
    <3>3. QED
      BY <3>1, <3>2 DEF Concerns
  <2>2. QED
    BY <2>1
<1>3. Arrived(r)
  BY <1>1, <1>2 DEF DiskFits, Arrived
<1>4. Tells(r, k)
  BY <1>1 DEF Told
<1>5. QED
  BY <1>2, <1>3, <1>4, PlainPaths DEF Tells

\* A committed transaction lists everything the request has made.
LEMMA CommitKnown ==
    ASSUME IInv, Types, NEW r \in Req, Safe, Told, Commit(r), Op(r).kind # "PROPPATCH",
           NEW k \in DOMAIN fs, k \in Plain, Concerns(r, k)
    PROVE  k \in DOMAIN rows'
<1> DEFINE s == Source(r)
           d == Target(r)
           Q == Cleared(r)
           x == Suffix(k, d)
<1>1. /\ RowsTyped(rows) /\ DOMAIN rows \subseteq Plain /\ RowsFit(r) /\ Requested(r) /\ req[r].pc = "committing"
      /\ rows' = NewRows(r) /\ Op(r).kind \in Kinds /\ (Op(r).kind \notin Pairs => s = d)
      /\ s \in Seq(Nat) /\ d \in Seq(Nat)
      /\ Op(r).kind \in Pairs => \A l \in Seq(Nat) : ~ (Within(s, l) /\ Within(d, l))
      /\ IsTree(fs) /\ Made(r)
  <2>1. Op(r).kind # "DELETE"
    BY CommitKnows
  <2>2. QED
    BY <2>1, CommitReady
<1>2. /\ k \in Seq(Nat) /\ Op(r).kind # "DELETE"
      /\ ~ Within(d, k) => k \in DOMAIN rows
      /\ Within(d, k) => IF WholeTree(r) THEN s \o x \in DOMAIN rows ELSE k = d
  BY CommitKnows
<1>3. DOMAIN Q = IF req[r].saved THEN DOMAIN rows \ Entries(rows, d) ELSE DOMAIN rows
  BY <1>1, ClearedListed
<1>4. \A p \in DOMAIN rows : ~ Within(d, p) => p \in DOMAIN Q
  BY <1>3, EntriesAt
<1>5. ASSUME Within(d, k) PROVE x \in Seq(Nat) /\ d \o x = k
  BY <1>1, <1>2, <1>5, WhatIsLeft
<1>6. ASSUME Within(d, k), s \o x \in DOMAIN rows
      PROVE  Within(s, s \o x) /\ k = d \o Suffix(s \o x, s)
  <2> HIDE DEF x
  <2>1. Within(s, s \o x) /\ Suffix(s \o x, s) = x
    BY <1>1, <1>5, <1>6, Followed
  <2>2. QED
    BY <1>5, <1>6, <2>1
<1>7. CASE Op(r).kind \in {"PUT", "MKCOL"}
  <2>1. k = d /\ s = d
    BY <1>1, <1>2, <1>7 DEF Pairs, WholeTree, Concerns
  <2>2. QED
    BY <1>1, <1>7, <2>1, PutListed, MkcolListed DEF NewRows
<1>8. CASE Op(r).kind = "MOVE"
  <2> DEFINE new == {d \o Suffix(q, s) : q \in Taken(r) \cap DOMAIN Q}
  <2>1. DOMAIN rows' = (DOMAIN Q \ Taken(r)) \cup new
    BY <1>1, <1>8, MoveListed DEF NewRows
  <2>2. Within(d, k)
    <3>1. s \notin DOMAIN fs
      BY <1>1, <1>8 DEF Made
    <3>2. ~ Within(s, k)
      BY <1>1, <3>1, NothingBelow DEF IsDir
    <3>3. QED
      BY <3>2 DEF Concerns
  <2>3. s \o x \in DOMAIN rows /\ Within(s, s \o x) /\ k = d \o Suffix(s \o x, s)
    BY <1>2, <1>6, <1>8, <2>2 DEF WholeTree
  <2> DEFINE q == s \o x
  <2> HIDE DEF x
  <2>4. q \in Taken(r)
    <3>1. CASE req[r].isDir
      BY <1>8, <2>3, <3>1, EntriesAt DEF Taken
    <3>2. CASE ~ req[r].isDir
      <4>1. ~ Descendant(s, q)
        BY <1>1, <2>3, <3>2 DEF RowsFit
      <4>2. QED
        BY <2>3, <3>2, <4>1 DEF Within, Taken
    <3>3. QED
      BY <3>1, <3>2
  <2>5. q \in DOMAIN Q
    <3>1. q \in Seq(Nat)
      BY <1>1, <2>3, PlainPaths
    <3>2. ~ Within(d, q)
      BY <1>1, <1>8, <2>3, <3>1 DEF Pairs
    <3>3. QED
      BY <1>4, <2>3, <3>2
  <2>6. QED
    BY <2>1, <2>3, <2>4, <2>5
<1>9. CASE Op(r).kind \in {"COPY", "COPY0"}
  <2> DEFINE flat == req[r].isDir /\ Op(r).kind = "COPY0"
             from == IF flat THEN {s} ELSE IF req[r].isDir THEN Entries(rows, s) ELSE {s}
             new == {d \o Suffix(q, s) : q \in from}
  <2>1. DOMAIN rows' = DOMAIN Q \cup new
    <3>1. rows' = CopyRows(r)
      BY <1>1, <1>9 DEF NewRows
    <3>2. QED
      BY <1>1, <1>9, <3>1, CopyListed
  <2>2. CASE ~ Within(d, k)
    BY <1>2, <1>4, <2>1, <2>2
  <2>3. CASE Within(d, k) /\ WholeTree(r)
    <3>1. s \o x \in DOMAIN rows /\ Within(s, s \o x) /\ k = d \o Suffix(s \o x, s)
      BY <1>2, <1>6, <2>3
    <3>2. s \o x \in from
      BY <1>9, <2>3, <3>1, EntriesAt DEF WholeTree
    <3> HIDE DEF from, x
    <3>3. QED
      BY <2>1, <3>1, <3>2
  <2>4. CASE Within(d, k) /\ ~ WholeTree(r)
    <3>1. k = d /\ s \in from
      BY <1>2, <1>9, <2>4 DEF WholeTree
    <3>2. k = d \o Suffix(s, s)
      BY <1>1, <3>1, EmptySuffix
    <3> HIDE DEF from
    <3>3. QED
      BY <2>1, <3>1, <3>2
  <2>5. QED
    BY <2>2, <2>3, <2>4
<1>10. QED
  BY <1>1, <1>2, <1>7, <1>8, <1>9 DEF Kinds

\* A committed transaction tells of everything that is there.
LEMMA CommitTold ==
    ASSUME IInv, Types, Types', NEW r \in Req, Safe, Told, Commit(r), Op(r).kind # "PROPPATCH"
    PROVE  Told'
<1>1. /\ Others(r) /\ Kept(r) /\ req'[r].pc = "cleaning" /\ fs' = fs /\ Working(r) /\ Working(r)'
  BY StepFields, CommitReady DEF Working
<1>2. \A k \in Plain : ~ Concerns(r, k) /\ k \in DOMAIN rows => k \in DOMAIN rows'
  BY CommitLists DEF Lists, NotTheirs
<1>3. \A k : k \in DOMAIN rows' => Tells(r, k)'
  BY <1>1 DEF Tells, Arrived
<1>4. \A k \in Plain : k \in DOMAIN fs' /\ Concerns(r, k) => k \in DOMAIN rows'
  BY <1>1, CommitKnown
<1>5. SameDisk(Region(r), fs, fs')
  BY <1>1 DEF SameDisk
<1>6. QED
  BY <1>1, <1>2, <1>3, <1>4, <1>5, OwnTold

-----------------------------------------------------------------------------
(* Nothing keeps a request from going on.                                  *)

\* The temporary file of one request is apart from what another one changes.
LEMMA TmpApart ==
    ASSUME IInv, NEW q, Requested(q), Op(q).kind # "PROPPATCH",
           NEW p \in Plain, p # Root, NEW n \in Nat \ {0}
    PROVE  /\ n # req[q].num => ~ Within(TmpName(p, n), Tmp(q))
           /\ ~ Within(BackupName(p, n), Tmp(q))
<1> DEFINE s == Source(q)
           m == req[q].num
           b == 20 * m + 10
           e == 20 * n + 10
           f == 20 * n
           xs == s[Len(s)]
           xp == p[Len(p)]
<1>1. s \in Plain /\ s # Root /\ m \in Nat /\ b \in Nat /\ b >= 10 /\ Tmp(q) = Beside(s, b)
  BY PlainOp, OwnOddNames
<1>2. e \in Nat /\ e >= 10 /\ f \in Nat /\ f >= 10
  OBVIOUS
<1>3. TmpName(p, n) = Beside(p, e) /\ BackupName(p, n) = Beside(p, f)
  BY DEF TmpName, BackupName
<1>4. Tmp(q) \in Seq(Nat) /\ Within(Tmp(q), Tmp(q)) /\ xs \in 0..9
  <2> HIDE DEF s, b
  <2>1. QED
    BY <1>1, OddName DEF Within
<1>5. xp \in 0..9
  <2> HIDE DEF e
  <2>1. QED
    BY <1>2, OddName
<1>6. ASSUME n # m, Within(TmpName(p, n), Tmp(q)) PROVE FALSE
  <2>1. e + xp = b + xs
    <3> HIDE DEF s, b, e
    <3>1. QED
      BY <1>1, <1>2, <1>3, <1>4, <1>6, OddNamesApart
  <2>2. QED
    <3> HIDE DEF xs, xp, m
    <3>1. QED
      BY <1>1, <1>4, <1>5, <1>6, <2>1
<1>7. ASSUME Within(BackupName(p, n), Tmp(q)) PROVE FALSE
  <2>1. f + xp = b + xs
    <3> HIDE DEF s, b, f
    <3>1. QED
      BY <1>1, <1>2, <1>3, <1>4, <1>7, OddNamesApart
  <2>2. QED
    <3> HIDE DEF xs, xp, m
    <3>1. QED
      BY <1>1, <1>4, <1>5, <2>1
<1>8. QED
  BY <1>6, <1>7

\* The temporary file of one request at work is apart from what another one changes.
LEMMA TmpFree ==
    ASSUME IInv, Types, Safe, NEW r \in Req, NEW q \in Req \ {r}, Working(r),
           Past(q), Op(q).kind # "PROPPATCH"
    PROVE  Tmp(q) \in Seq(Nat) /\ Free(Region(r), Tmp(q))
<1>1. /\ Requested(r) /\ Requested(q) /\ Working(q) /\ req[r].num # req[q].num
      /\ req[r].alive /\ req[q].alive
  BY DEF Working, Past, IInv, Good, Typed, Safe, Numbers
<1>2. /\ Tmp(q) \in Seq(Nat) /\ Source(q) \in Plain /\ Source(q) \in Seq(Nat) /\ Source(q) # Root
      /\ Parent(Source(q)) \in Plain
  BY <1>1, OwnApart, PlainOp
<1>3. CASE Op(r).kind = "PROPPATCH"
  BY <1>2, <1>3 DEF Region, Free
<1>4. CASE Op(r).kind # "PROPPATCH"
  <2>1. /\ Source(r) \in Plain /\ Target(r) \in Plain /\ Source(r) # Root /\ Target(r) # Root
        /\ req[r].num \in Nat \ {0}
    BY <1>1, <1>4, PlainOp
  <2>2. ~ Within(Backup(r), Tmp(q)) /\ ~ Within(Tmp(r), Tmp(q))
    BY <1>1, <2>1, TmpApart DEF Backup, Tmp
  <2>3. \A k \in Plain : Within(k, Tmp(q)) => Within(k, Parent(Source(q)))
    <3> DEFINE s == Source(q)
               b == 20 * req[q].num + 10
    <3>1. b \in Nat /\ b >= 10 /\ Tmp(q) = Beside(s, b) /\ s \in Plain /\ s # Root
      BY <1>1, <1>2, OwnOddNames
    <3> HIDE DEF s, b
    <3>2. \A k \in Plain : Within(k, Tmp(q)) => Within(k, Parent(s))
      BY <3>1, OddName
    <3>3. QED
      BY <3>2 DEF s
  <2>4. \A k \in Plain : Within(k, Parent(Source(q))) => Within(k, Source(q))
    BY <1>2, WithinParent, PlainPaths
  <2>5. ~ Concerns(r, Source(q))
    <3>1. Concerns(q, Source(q))
      BY DEF Concerns, Within
    <3>2. QED
      BY <1>1, <1>2, <3>1, OneConcern
  <2>6. QED
    BY <1>2, <2>1, <2>2, <2>3, <2>4, <2>5 DEF Region, Free, Concerns
<1>5. QED
  BY <1>3, <1>4

\* A step of r leaves the others as ready as they were.
LEMMA OthersReady ==
    ASSUME IInv, Types, Safe, AllReady, NEW r \in Req, Others(r),
           NEW Z, Untouched(Z),
           \A q \in Req \ {r} : Past(q) /\ Op(q).kind # "PROPPATCH" => Free(Z, Tmp(q)),
           \A q \in Req \ {r} : Past(q) =>
              /\ Source(q) \in DOMAIN rows' <=> Source(q) \in DOMAIN rows
              /\ Source(q) \in DOMAIN rows => rows'[Source(q)].data = rows[Source(q)].data,
           Past(r)' /\ (Op(r).kind # "PROPPATCH")' => Ready(r)'
    PROVE  AllReady'
<1>1. ASSUME NEW q \in Req \ {r}, Past(q)', (Op(q).kind # "PROPPATCH")' PROVE Ready(q)'
  <2>1. req'[q] = req[q]
    BY DEF Others
  <2>2. /\ Past(q) /\ Op(q).kind # "PROPPATCH" /\ Op(q)' = Op(q) /\ Source(q)' = Source(q)
        /\ Tmp(q)' = Tmp(q)
    BY <1>1, <2>1 DEF Past, Op, Source, Tmp
  <2>3. Ready(q)
    BY <2>2 DEF AllReady
  <2>4. Tmp(q) \in DOMAIN fs' <=> Tmp(q) \in DOMAIN fs
    BY <2>2, OwnApart DEF Untouched
  <2>5. /\ Source(q) \in DOMAIN rows' <=> Source(q) \in DOMAIN rows
        /\ Source(q) \in DOMAIN rows => rows'[Source(q)].data = rows[Source(q)].data
    BY <2>2
  <2>6. QED
    BY <2>1, <2>2, <2>3, <2>4, <2>5 DEF Ready
<1>2. QED
  BY <1>1 DEF AllReady

\* The same with what r may change filled in.
LEMMA OwnReady ==
    ASSUME IInv, Types, Safe, AllReady, NEW r \in Req, Others(r), Working(r),
           SameDisk(Region(r), fs, fs'),
           rows' = rows \/ Lists(r, rows'),
           Past(r)' /\ (Op(r).kind # "PROPPATCH")' => Ready(r)'
    PROVE  AllReady'
<1> DEFINE Z == Region(r)
<1>1. Untouched(Z)
  BY DEF SameDisk, Untouched
<1>2. \A q \in Req \ {r} : Past(q) /\ Op(q).kind # "PROPPATCH" => Free(Z, Tmp(q))
  BY TmpFree
<1>3. ASSUME NEW q \in Req \ {r}, Past(q)
      PROVE  /\ Source(q) \in DOMAIN rows' <=> Source(q) \in DOMAIN rows
             /\ Source(q) \in DOMAIN rows => rows'[Source(q)].data = rows[Source(q)].data
  <2>1. Working(q) /\ Requested(q) /\ req[r].alive /\ req[q].alive
    BY <1>3 DEF Past, Working, IInv, Good, Typed, Safe
  <2>2. Source(q) \in Plain /\ Concerns(q, Source(q))
    BY <2>1, PlainOp DEF Concerns, Within
  <2>3. ~ Concerns(r, Source(q))
    BY <2>1, <2>2, OneConcern
  <2>4. Lists(r, rows') => NotTheirs(r, rows', Source(q))
    BY <2>2, <2>3 DEF Lists
  <2>5. QED
    BY <1>3, <2>1, <2>2, <2>4 DEF NotTheirs
<1> HIDE DEF Z
<1>4. QED
  BY <1>1, <1>2, <1>3, OthersReady

\* A request that is not at work yet leaves those at work ready.
LEMMA ApartReady ==
    ASSUME IInv, Types, Safe, AllReady, NEW r \in Req, Others(r), ~ Past(r)', rows' = rows,
           \/ fs' = fs
           \/ \E p \in Plain \ {Root}, n \in Nat \ {0} :
                 /\ \A q \in Req \ {r} : Past(q) => n # req[q].num
                 /\ SameDisk({TmpName(p, n)}, fs, fs')
    PROVE  AllReady'
<1>1. CASE fs' = fs
  <2>1. Untouched({}) /\ \A k : Free({}, k)
    BY <1>1 DEF Untouched, Free
  <2>2. QED
    BY <2>1, OthersReady
<1>2. ASSUME NEW p \in Plain \ {Root}, NEW n \in Nat \ {0}, SameDisk({TmpName(p, n)}, fs, fs'),
             \A q \in Req \ {r} : Past(q) => n # req[q].num
      PROVE  AllReady'
  <2> DEFINE Z == {TmpName(p, n)}
  <2>1. \A q \in Req \ {r} : Past(q) /\ Op(q).kind # "PROPPATCH" => Free(Z, Tmp(q))
    <3>1. ASSUME NEW q \in Req \ {r}, Past(q), Op(q).kind # "PROPPATCH" PROVE Free(Z, Tmp(q))
      <4>1. Requested(q) /\ n # req[q].num
        BY <1>2, <3>1 DEF Past, IInv, Good, Typed
      <4>2. ~ Within(TmpName(p, n), Tmp(q))
        BY <3>1, <4>1, TmpApart
      <4>3. QED
        BY <4>2 DEF Free
    <3>2. QED
      BY <3>1
  <2>2. Untouched(Z)
    BY <1>2 DEF SameDisk, Untouched
  <2> HIDE DEF Z
  <2>3. QED
    BY <2>1, <2>2, OthersReady
<1>3. QED
  BY <1>1, <1>2

\* What is on disk where a checking request looks is what the rows list.
LEMMA CheckedListed ==
    ASSUME Types, Safe, Told, NEW r \in Req, req[r].pc = "checking", IInv
    PROVE  LET s == Source(r)
           IN /\ s \in Plain
              /\ s \in DOMAIN fs <=> s \in DOMAIN rows
              /\ s \in DOMAIN rows => fs[s] = rows[s].data
<1> DEFINE s == Source(r)
<1>1. Working(r) /\ Requested(r) /\ ~ req[r].placed /\ ~ req[r].saved
  BY DEF Working, IInv, Good, Typed, Types, Sorted
<1>2. s \in Plain /\ Concerns(r, s)
  BY <1>1, PlainOp DEF Concerns, Within
<1>3. s \in DOMAIN fs => s \in DOMAIN rows
  BY <1>1, <1>2, KnownByName DEF Arrived
<1>4. Spot(r, s) = s
  BY <1>1 DEF Spot, Aside, MovedOver
<1>5. s \in DOMAIN rows => At(s, rows[s].data)
  BY <1>1, <1>2, <1>4, Own
<1>6. QED
  BY <1>2, <1>3, <1>5 DEF At

\* A request that has passed its checks can go on.
LEMMA CheckReady ==
    ASSUME IInv, Types, Types', Safe, Told, AllReady, NEW r \in Req, Check(r)
    PROVE  AllReady'
<1> DEFINE s == Source(r)
<1>1. /\ Others(r) /\ Kept(r) /\ req[r].pc = "checking" /\ fs' = fs /\ rows' = rows /\ Working(r)
      /\ req'[r].isDir = IsDir(fs, s) /\ req'[r].saved = req[r].saved /\ Acceptable(r)
      /\ req'[r].pc # "undoing"
  BY StepFields DEF Check, Working
<1>2. ~ req[r].saved /\ Requested(r)
  BY <1>1 DEF IInv, Good, Typed
<1>3. s \in DOMAIN fs <=> s \in DOMAIN rows
  BY <1>1, CheckedListed
<1>4. s \in DOMAIN rows => fs[s] = rows[s].data
  BY <1>1, CheckedListed
<1>5. Op(r)' = Op(r) /\ Source(r)' = s /\ Tmp(r)' = Tmp(r)
  BY <1>1 DEF Kept, Op, Source, Tmp
<1>6. ASSUME Op(r).kind = "PUT" PROVE Tmp(r) \in DOMAIN fs
  BY <1>1, <1>6 DEF Acceptable, Pairs
<1>7. ASSUME Op(r).kind \in Pairs \cup {"DELETE"} PROVE s \in DOMAIN fs
  <2>1. CASE Op(r).kind = "DELETE"
    <3>1. Source(r) = Target(r)
      BY <1>2, <2>1, OpPaths DEF Pairs
    <3>2. QED
      BY <1>1, <2>1, <3>1 DEF Acceptable, Exists
  <2>2. CASE Op(r).kind \in Pairs
    BY <1>1, <2>2 DEF Acceptable, Pairs
  <2>3. QED
    BY <1>7, <2>1, <2>2
<1>8. s \in DOMAIN rows => (IsDir(fs, s) <=> rows[s].data = Dir)
  BY <1>3, <1>4 DEF IsDir
<1> HIDE DEF s
<1>9. Ready(r)'
  BY <1>1, <1>2, <1>3, <1>5, <1>6, <1>7, <1>8 DEF Ready
<1>10. SameDisk(Region(r), fs, fs')
  BY <1>1 DEF SameDisk
<1>11. QED
  BY <1>1, <1>9, <1>10, OwnReady

\* A request goes on as ready as it was.
LEMMA StaysReady ==
    ASSUME IInv, Types, Types', Safe, AllReady, NEW r \in Req, Op(r).kind # "PROPPATCH",
           Save(r) \/ Place(r) \/ Commit(r)
    PROVE  AllReady'
<1>1. /\ Others(r) /\ Kept(r) /\ req'[r].isDir = req[r].isDir /\ Working(r) /\ Past(r)
      /\ req'[r].pc \in {"placing", "committing", "cleaning"}
      /\ req'[r].pc \in {"placing", "committing"} => req[r].pc # "cleaning"
  BY StepFields DEF Save, Place, Commit, Apply, Marks, Working, Past
<1>2. Op(r)' = Op(r) /\ Source(r)' = Source(r) /\ Tmp(r)' = Tmp(r)
  BY <1>1 DEF Kept, Op, Source, Tmp
<1>3. Ready(r)
  BY <1>1 DEF AllReady
<1>4. /\ DOMAIN fs \subseteq Seq(Nat) /\ Target(r) \in Seq(Nat) /\ Backup(r) \in Seq(Nat) /\ Tmp(r) \in Seq(Nat)
      /\ ~ Within(Target(r), Tmp(r)) /\ ~ Within(Backup(r), Tmp(r))
      /\ (Op(r).kind = "PUT" => Source(r) = Target(r)) /\ Requested(r)
  <2>1. Requested(r) /\ (Op(r).kind = "PUT" => Source(r) = Target(r))
    BY <1>1, PastOp DEF Pairs
  <2>2. Tmp(r) \in Seq(Nat) /\ Within(Tmp(r), Tmp(r))
    BY <1>1, OwnApart DEF Within
  <2>3. ~ Within(Backup(r), Tmp(r))
    BY <1>1, <2>2, OwnApart DEF Free
  <2>4. ~ Within(Target(r), Tmp(r))
    <3>1. Target(r) \in Seq(Nat) /\ Parent(Tmp(r)) = Parent(Source(r)) /\ Tmp(r) # Root
          /\ ~ Within(Target(r), Parent(Source(r))) /\ Target(r) \in Plain
      BY <1>1, OwnApart DEF Free
    <3>2. Target(r) # Tmp(r)
      <4>1. \A k \in Plain : ~ Within(Tmp(r), k)
        BY <1>1, OwnApart DEF Free
      <4>2. QED
        BY <2>2, <3>1, <4>1
    <3>3. QED
      BY <2>2, <3>1, <3>2, WithinParent
  <2>5. QED
    BY <1>1, <2>1, <2>2, <2>3, <2>4, OwnApart DEF Types, IsTree
<1>5. CASE Save(r)
  <2>1. fs' = Moved(fs, Target(r), Backup(r)) /\ rows' = rows /\ req[r].pc = "saving"
    BY <1>5 DEF Save
  <2>2. SameDisk({Target(r), Backup(r)}, fs, fs')
    BY <1>4, <2>1, MovedSame
  <2>3. SameDisk(Region(r), fs, fs')
    BY <2>2 DEF SameDisk, Free, Region
  <2>4. Tmp(r) \in DOMAIN fs' <=> Tmp(r) \in DOMAIN fs
    BY <1>4, <2>2 DEF SameDisk, Free
  <2>5. Ready(r)'
    BY <1>1, <1>2, <1>3, <2>1, <2>4 DEF Ready
  <2>6. QED
    BY <1>1, <2>1, <2>3, <2>5, OwnReady
<1>6. CASE Place(r)
  <2>1. rows' = rows /\ req[r].pc = "placing" /\ req'[r].pc = "committing"
    BY <1>6, StepFields DEF Place
  <2>2. SameDisk(Region(r), fs, fs')
    BY <1>6, PlaceMade DEF SameDisk, Free, Region
  <2>3. Ready(r)'
    BY <1>1, <1>2, <1>3, <2>1 DEF Ready
  <2>4. QED
    BY <1>1, <2>1, <2>2, <2>3, OwnReady
<1>7. CASE Commit(r)
  <2>1. fs' = fs /\ req'[r].pc = "cleaning" /\ Lists(r, rows')
    BY <1>7, CommitLists, StepFields DEF Commit
  <2>2. SameDisk(Region(r), fs, fs')
    BY <2>1 DEF SameDisk
  <2>3. Ready(r)'
    BY <2>1 DEF Ready
  <2>4. QED
    BY <1>1, <2>1, <2>2, <2>3, OwnReady
<1>8. QED
  BY <1>5, <1>6, <1>7

\* A copy consists of whole branches: every entry of it but the first has its collection in it.
LEMMA CopiedBranches ==
    ASSUME IsTree(Listed), DOMAIN rows \subseteq Plain, NEW r, Requested(r), Op(r).kind = "COPY",
           req[r].isDir, NEW k \in DOMAIN Copied(r) \ {Target(r)}
    PROVE  IsDir(Copied(r), Parent(k))
<1> DEFINE s == Source(r)
           d == Target(r)
           listed == {d \o Suffix(q, s) : q \in Entries(rows, s)}
           all == listed \cup {q \in UNION {ParentPaths(l) : l \in listed} : Descendant(d, q) \/ q = d}
           y == Suffix(k, d)
<1>1. s \in Seq(Nat) /\ d \in Seq(Nat) /\ DOMAIN rows \subseteq Seq(Nat) /\ DOMAIN Listed = DOMAIN rows
      /\ \A p \in DOMAIN rows : Listed[p] = rows[p].data
  BY OpPaths, PlainPaths DEF Listed
<1>2. Copied(r) = [l \in all |-> IF l \in listed /\ rows[s \o Suffix(l, d)].data # Dir
                                 THEN fs[s \o Suffix(l, d)] ELSE Dir]
  BY DEF Copied
<1>3. k \in all /\ k # d
  BY <1>2
<1>4. PICK q \in Entries(rows, s) :
         k = d \o Suffix(q, s) \/ (k \in ParentPaths(d \o Suffix(q, s)) /\ Within(d, k))
  BY <1>3 DEF Within
<1> DEFINE x == Suffix(q, s)
           l == d \o x
<1>5. q \in DOMAIN rows /\ Within(s, q) /\ q \in Seq(Nat)
  BY <1>1, EntriesAt
<1>6. x \in Seq(Nat) /\ s \o x = q /\ l \in listed
  BY <1>1, <1>5, WhatIsLeft
<1>7. k = l \/ (k \in ParentPaths(l) /\ Within(d, k))
  BY <1>4
<1> HIDE DEF x, listed
<1>8. l \in Seq(Nat) /\ Within(d, l)
  BY <1>1, <1>6, Followed
<1>9. k \in Seq(Nat) /\ Within(k, l) /\ Within(d, k)
  <2>1. CASE k = l
    BY <1>8, <2>1 DEF Within
  <2>2. CASE k \in ParentPaths(l) /\ Within(d, k)
    BY <1>8, <2>2, AncestorsFinite DEF Within
  <2>3. QED
    BY <1>7, <2>1, <2>2
<1>10. y \in Seq(Nat) /\ d \o y = k
  BY <1>1, <1>9, WhatIsLeft
<1> HIDE DEF y
<1>11. y # Root
  BY <1>1, <1>3, <1>10, Followed
<1> DEFINE z == Parent(y)
<1>12. z \in Seq(Nat) /\ Parent(k) = d \o z /\ Parent(s \o y) = s \o z
  BY <1>1, <1>10, <1>11, Followed, ZenonT(60)
<1> HIDE DEF z
<1>13. s \o y \in Seq(Nat) /\ s \o y # Root /\ s \o z \in Seq(Nat)
       /\ Suffix(d \o z, d) = z /\ Within(d, d \o z) /\ d \o z \in Seq(Nat)
  <2>1. s \o y \in Seq(Nat) /\ s \o y # Root
    BY <1>1, <1>10, <1>11, LastFollowed
  <2>2. s \o z \in Seq(Nat)
    BY <1>1, <1>12, Followed
  <2>3. Suffix(d \o z, d) = z /\ Within(d, d \o z) /\ d \o z \in Seq(Nat)
    BY <1>1, <1>12, Followed
  <2>4. QED
    BY <2>1, <2>2, <2>3
<1>14. Descendant(s \o z, q)
  <2>1. Within(d \o y, d \o x)
    BY <1>9, <1>10
  <2>2. Within(s \o y, q)
    BY <1>1, <1>6, <1>10, <2>1, BelowCarried
  <2>3. Within(s \o z, s \o y) /\ s \o z # s \o y
    BY <1>12, <1>13, WithinParent
  <2>4. Within(s \o z, q) /\ s \o z # q
    <3> DEFINE a == s \o z
               b == s \o y
    <3>1. a \in Seq(Nat) /\ b \in Seq(Nat) /\ Within(a, b) /\ a # b /\ Within(b, q)
      BY <1>13, <2>2, <2>3
    <3> HIDE DEF a, b
    <3>2. Within(a, q) /\ a # q
      BY <1>5, <3>1, WithinOrder
    <3>3. QED
      BY <3>2 DEF a
  <2>5. QED
    BY <2>4 DEF Within
<1>15. s \o z \in DOMAIN rows /\ rows[s \o z].data = Dir
  BY <1>1, <1>5, <1>13, <1>14, AboveIsDir, ZenonT(60) DEF IsDir
<1>16. Parent(k) \in all
  <2>1. Descendant(Parent(k), l)
    <3>1. k # Root
      BY <1>3, <1>9 DEF Within, Descendant, Root
    <3>2. Within(Parent(k), k) /\ Parent(k) # k /\ Parent(k) \in Seq(Nat)
      BY <1>9, <3>1, WithinParent
    <3>3. Within(Parent(k), l) /\ Parent(k) # l
      BY <1>8, <1>9, <3>2, WithinOrder, ZenonT(60)
    <3>4. QED
      BY <3>3 DEF Within
  <2>2. Parent(k) \in ParentPaths(l)
    BY <1>8, <1>12, <1>13, <2>1, AncestorsFinite
  <2>3. QED
    BY <1>6, <1>12, <1>13, <2>2 DEF Within
<1>17. Copied(r)[Parent(k)] = Dir
  <2>1. s \o Suffix(Parent(k), d) = s \o z
    BY <1>12, <1>13
  <2>2. QED
    BY <1>2, <1>15, <1>16, <2>1
<1>18. QED
  BY <1>2, <1>16, <1>17 DEF IsDir

\* What r is to put in place can be put there.
LEMMA ReadyToPlace ==
    ASSUME IInv, Types, Safe, Told, IsTree(Listed), AllReady, NEW r \in Req, req[r].pc = "placing"
    PROVE  CanPlace(r)
<1> DEFINE s == Source(r)
           d == Target(r)
<1>1. /\ Working(r) /\ Past(r) /\ DOMAIN rows \subseteq Plain /\ req[r].alive
      /\ Op(r).kind \notin {"PROPPATCH", "DELETE"}
  BY DEF Working, Past, Types, Sorted, Safe
<1>2. DiskFits(r) /\ RowsFit(r) /\ Ready(r) /\ \A p \in DOMAIN rows : Concerns(r, p) => At(Spot(r, p), rows[p].data)
  BY <1>1, Own DEF AllReady
<1>3. /\ Requested(r) /\ s \in Seq(Nat) /\ d \in Seq(Nat) /\ s \in Plain /\ d \in Plain
      /\ Op(r).kind \in Kinds /\ (Op(r).kind \notin Pairs => s = d)
      /\ s # d => \A k \in Seq(Nat) : ~ (Within(s, k) /\ Within(d, k))
  BY <1>1, OwnApart, PastOp
<1>4. /\ d \notin DOMAIN fs /\ IsDir(fs, Parent(s)) /\ IsDir(fs, Parent(d)) /\ ~ req[r].placed
      /\ IsTree(fs)
  BY <1>2 DEF DiskFits, Types
<1>5. \A k \in DOMAIN fs : ~ Within(d, k)
  BY <1>3, <1>4, NothingBelow DEF IsDir
<1>6. ASSUME Op(r).kind \in Pairs, NEW p \in DOMAIN rows, Within(s, p) PROVE At(p, rows[p].data)
  <2>1. s # d /\ p \in Seq(Nat)
    <3>1. s # d
      BY <1>1, <1>6, PastOp DEF Within
    <3>2. QED
      BY <1>1, <3>1, PlainPaths
  <2>2. Spot(r, p) = p
    BY <1>3, <1>4, <1>6, <2>1 DEF Spot, MovedOver
  <2>3. QED
    BY <1>2, <1>6, <2>2 DEF Concerns
<1>7. ASSUME Op(r).kind \in Pairs PROVE s \in DOMAIN rows /\ At(s, rows[s].data) /\ (req[r].isDir <=> rows[s].data = Dir)
  <2>1. s \in DOMAIN rows /\ (req[r].isDir <=> rows[s].data = Dir)
    BY <1>2, <1>7 DEF Ready
  <2>2. QED
    BY <1>6, <1>7, <2>1 DEF Within
<1>8. ASSUME Op(r).kind = "PUT" PROVE Placeable(r)
  <2>1. Tmp(r) \in DOMAIN fs /\ s = d
    BY <1>2, <1>3, <1>8 DEF Ready, Pairs
  <2>2. CanRename(fs, Tmp(r), s)
    BY <1>4, <2>1 DEF CanRename
  <2>3. QED
    BY <1>8, <2>2 DEF Placeable
<1>9. ASSUME Op(r).kind = "MKCOL" PROVE Placeable(r)
  BY <1>4, <1>9 DEF Placeable, Exists
<1>10. ASSUME Op(r).kind = "MOVE" PROVE Placeable(r)
  <2>1. s \in DOMAIN fs
    BY <1>7, <1>10 DEF Pairs, At
  <2>2. CanRename(fs, s, d)
    BY <1>4, <2>1 DEF CanRename
  <2>3. QED
    BY <1>10, <2>2 DEF Placeable
<1>11. ASSUME Op(r).kind = "COPY0", req[r].isDir PROVE Placeable(r)
  BY <1>4, <1>11 DEF Placeable, Exists
<1>12. ASSUME Op(r).kind \in {"COPY", "COPY0"}, ~ (Op(r).kind = "COPY0" /\ req[r].isDir) PROVE Placeable(r)
  <2>1. ~ req[r].isDir => s \in DOMAIN fs /\ ~ IsDir(fs, s)
    BY <1>7, <1>12 DEF Pairs, At, IsDir
  <2>2. \A q \in Entries(rows, s) : rows[q].data # Dir => q \in DOMAIN fs /\ ~ IsDir(fs, q)
    <3>1. \A q \in Entries(rows, s) : At(q, rows[q].data)
      BY <1>6, <1>12, EntriesAt DEF Pairs
    <3>2. QED
      BY <3>1 DEF At, IsDir
  <2>3. \A k \in DOMAIN Copied(r) \ {d} : IsDir(Copied(r), Parent(k))
    <3>1. CASE req[r].isDir
      BY <1>1, <1>3, <1>12, <3>1, CopiedBranches
    <3>2. CASE ~ req[r].isDir
      <4>1. DOMAIN Copied(r) = {d}
        BY <3>2 DEF Copied
      <4>2. QED
        BY <4>1
    <3>3. QED
      BY <3>1, <3>2
  <2>4. DOMAIN Copied(r) \cap DOMAIN fs = {}
    BY <1>1, <1>3, <1>5, CopiedPlain
  <2>5. QED
    BY <1>4, <1>12, <2>1, <2>2, <2>3, <2>4 DEF Placeable
<1>13. Placeable(r)
  BY <1>1, <1>3, <1>8, <1>9, <1>10, <1>11, <1>12 DEF Kinds
<1>14. QED
  BY <1>1, <1>13 DEF CanPlace

\* No statement of r can fail for what the rows hold.
LEMMA ReadyToCommit ==
    ASSUME IInv, Types, Safe, AllReady, NEW r \in Req, req[r].pc = "committing", Op(r).kind # "PROPPATCH"
    PROVE  RowsThere(r)
<1> DEFINE s == Source(r)
           d == Target(r)
<1>1. Working(r) /\ Past(r) /\ RowsTyped(rows) /\ Requested(r)
  BY DEF Working, Past, IInv, Good, Typed
<1>2. RowsFit(r) /\ Ready(r)
  BY <1>1, Own DEF AllReady
<1>3. Op(r).kind \in Pairs \cup {"DELETE"} => s \in DOMAIN rows
  BY <1>2 DEF Ready
<1>4. ASSUME NEW q \in Taken(r) PROVE d \o Suffix(q, s) \notin DOMAIN Cleared(r)
  <2>1. Within(d, d \o Suffix(q, s))
    BY <1>1, <1>4, TakenRows
  <2>2. \A p \in DOMAIN Cleared(r) : ~ Within(d, p)
    <3>1. DOMAIN Cleared(r) = IF req[r].saved THEN DOMAIN rows \ Entries(rows, d) ELSE DOMAIN rows
      BY <1>1, ClearedListed
    <3>2. CASE req[r].saved
      BY <3>1, <3>2, EntriesAt
    <3>3. CASE ~ req[r].saved
      BY <1>2, <3>1, <3>3 DEF RowsFit
    <3>4. QED
      BY <3>2, <3>3
  <2>3. QED
    BY <2>1, <2>2
<1>5. QED
  BY <1>3, <1>4 DEF RowsThere, Pairs

\* So only a PROPPATCH fails, one whose target has no row.
LEMMA NoFail ==
    ASSUME IInv, Types, Safe, Told, IsTree(Listed), AllReady, faults = {}, NEW r \in Req, Fail(r)
    PROVE  Op(r).kind = "PROPPATCH"
<1>1. Fails(r) /\ req[r].alive
  BY DEF Fail, Breaks, Safe
<1>2. CASE req[r].pc = "placing"
  BY <1>1, <1>2, ReadyToPlace DEF Fails
<1>3. CASE req[r].pc = "committing"
  BY <1>1, <1>3, ReadyToCommit DEF Fails
<1>4. QED
  BY <1>1, <1>2, <1>3 DEF Fails

-----------------------------------------------------------------------------
(* What a commit makes of the tree the rows list.                          *)

\* The collection a request at work puts its entry in is listed as one.
LEMMA ParentListed ==
    ASSUME IInv, Types, Safe, Told, NEW r \in Req, Past(r), Op(r).kind # "PROPPATCH"
    PROVE  IsDir(Listed, Parent(Target(r)))
<1> DEFINE d == Target(r)
           p == Parent(d)
<1>1. Working(r) /\ Requested(r) /\ req[r].alive
  BY DEF Past, Working, IInv, Good, Typed, Safe
<1>2. IsDir(fs, p)
  BY <1>1, Own DEF DiskFits
<1>3. d \in Plain /\ d \in Seq(Nat) /\ d # Root /\ p \in Plain /\ Free({Source(r), d}, p)
  BY <1>1, OwnApart, PlainOp DEF Free
<1>4. ASSUME NEW q \in Req, Working(q), Concerns(q, p) PROVE FALSE
  <2>1. q # r
    BY <1>3, <1>4 DEF Concerns, Free
  <2>2. Requested(q) /\ req[q].alive
    BY <1>4 DEF Working, IInv, Good, Typed, Safe
  <2>3. Concerns(q, d)
    <3>1. Source(q) \in Seq(Nat) /\ Target(q) \in Seq(Nat)
      BY <2>2, OpPaths
    <3>2. QED
      BY <1>3, <1>4, <3>1, WithinParent DEF Concerns
  <2>4. Concerns(r, d)
    BY DEF Concerns, Within
  <2>5. QED
    BY <1>1, <1>3, <1>4, <2>1, <2>2, <2>3, <2>4, OneConcern
<1>5. p \in DOMAIN rows
  BY <1>2, <1>3, <1>4 DEF Told, IsDir
<1>6. At(p, rows[p].data)
  BY <1>4, <1>5 DEF Safe, Backed
<1>7. QED
  BY <1>2, <1>5, <1>6 DEF Listed, IsDir, At

\* The names and contents that are listed, entry by entry.
LEMMA ListedAt ==
    /\ DOMAIN Listed = DOMAIN rows /\ \A k \in DOMAIN rows : Listed[k] = rows[k].data
    /\ DOMAIN Listed' = DOMAIN rows' /\ \A k \in DOMAIN rows' : Listed'[k] = rows'[k].data
BY DEF Listed

\* What a commit starts from.
LEMMA CommitFrom ==
    ASSUME IInv, Types, Safe, Told, IsTree(Listed), AllReady, NEW r \in Req, Commit(r), Op(r).kind # "PROPPATCH"
    PROVE  LET s == Source(r)
               d == Target(r)
           IN /\ RowsTyped(rows) /\ DOMAIN rows \subseteq Seq(Nat) /\ Requested(r) /\ rows' = NewRows(r)
              /\ Op(r).kind \in Kinds /\ (Op(r).kind \notin Pairs => s = d)
              /\ s \in Seq(Nat) /\ d \in Seq(Nat) /\ s # Root /\ d # Root
              /\ IsDir(Listed, Parent(d))
              /\ Op(r).kind \in Pairs => \A k \in Seq(Nat) : ~ (Within(s, k) /\ Within(d, k))
              /\ ~ req[r].saved => \A k \in DOMAIN rows : ~ Within(d, k)
              /\ ~ req[r].isDir => \A k \in DOMAIN rows : ~ Descendant(s, k)
              /\ Op(r).kind = "PUT" => ~ req[r].isDir
              /\ Op(r).kind = "MKCOL" => ~ req[r].saved
              /\ Op(r).kind \in Pairs \cup {"DELETE"} => s \in DOMAIN rows
              /\ s \in DOMAIN rows => (req[r].isDir <=> rows[s].data = Dir)
              /\ s \in DOMAIN rows => Within(s, s)
<1>1. /\ Past(r) /\ req[r].pc = "committing" /\ RowsTyped(rows) /\ DOMAIN rows \subseteq Plain
      /\ RowsFit(r) /\ Requested(r) /\ rows' = NewRows(r)
      /\ Op(r).kind \in Kinds /\ (Op(r).kind \notin Pairs => Source(r) = Target(r))
      /\ Op(r).kind \in Pairs => \A k \in Seq(Nat) : ~ (Within(Source(r), k) /\ Within(Target(r), k))
  BY CommitReady
<1>2. /\ Source(r) \in Seq(Nat) /\ Target(r) \in Seq(Nat) /\ Source(r) # Root /\ Target(r) # Root
      /\ DOMAIN rows \subseteq Seq(Nat)
  BY <1>1, OwnApart, PlainPaths
<1>3. IsDir(Listed, Parent(Target(r)))
  BY <1>1, ParentListed
<1>4. Ready(r)
  BY <1>1 DEF AllReady
<1>5. /\ Op(r).kind \in Pairs \cup {"DELETE"} => Source(r) \in DOMAIN rows
      /\ Source(r) \in DOMAIN rows => (req[r].isDir <=> rows[Source(r)].data = Dir)
  BY <1>1, <1>4 DEF Ready
<1>6. /\ ~ req[r].saved => \A k \in DOMAIN rows : ~ Within(Target(r), k)
      /\ ~ req[r].isDir => \A k \in DOMAIN rows : ~ Descendant(Source(r), k)
      /\ Op(r).kind = "PUT" => ~ req[r].isDir
      /\ Op(r).kind = "MKCOL" => ~ req[r].saved
  BY <1>1 DEF RowsFit
<1>7. QED
  BY <1>1, <1>2, <1>3, <1>5, <1>6 DEF Within

\* An upload makes one file.
LEMMA PutChanges ==
    ASSUME IInv, Types, Safe, Told, IsTree(Listed), AllReady, NEW r \in Req, Commit(r), Op(r).kind = "PUT"
    PROVE  LET d == Target(r)
           IN /\ d \in Seq(Nat) /\ d # Root /\ Body(r) \in Content /\ IsDir(Listed, Parent(d)) /\ ~ IsDir(Listed, d)
              /\ \A k \in DOMAIN Listed : ~ Descendant(d, k)
              /\ DOMAIN Listed' = DOMAIN Listed \cup {d} /\ Listed'[d] = Body(r)
              /\ \A k \in DOMAIN Listed \ {d} : Listed'[k] = Listed[k]
<1> DEFINE s == Source(r)
           d == Target(r)
<1>1. /\ RowsTyped(rows) /\ Requested(r) /\ rows' = PutRows(r) /\ s = d /\ d \in Seq(Nat) /\ d # Root
      /\ IsDir(Listed, Parent(d)) /\ (\A k \in DOMAIN rows : ~ Descendant(s, k))
      /\ s \in DOMAIN rows => rows[s].data # Dir
  BY CommitFrom DEF Pairs, NewRows
<1>2. /\ SameListed(rows, PutRows(r), {s})
      /\ s \in DOMAIN PutRows(r) /\ PutRows(r)[s].data = Body(r)
  BY <1>1, PutListed
<1>3. Body(r) \in Content
  BY <1>1, TreeAssumption DEF Body, Requested
<1>4. /\ DOMAIN rows' = DOMAIN rows \cup {d} /\ rows'[d].data = Body(r)
      /\ \A k \in DOMAIN rows \ {d} : rows'[k].data = rows[k].data
  BY <1>1, <1>2 DEF SameListed
<1> HIDE DEF d, s
<1>5. /\ ~ IsDir(Listed, d) /\ \A k \in DOMAIN Listed : ~ Descendant(d, k)
      /\ DOMAIN Listed' = DOMAIN Listed \cup {d} /\ Listed'[d] = Body(r)
      /\ \A k \in DOMAIN Listed \ {d} : Listed'[k] = Listed[k]
  BY <1>1, <1>4, ListedAt DEF IsDir
<1>6. QED
  BY <1>1, <1>3, <1>5 DEF d

\* MKCOL makes one collection: the rows above it are there.
LEMMA MkcolChanges ==
    ASSUME IInv, Types, Safe, Told, IsTree(Listed), AllReady, NEW r \in Req, Commit(r), Op(r).kind = "MKCOL"
    PROVE  LET d == Target(r)
           IN /\ d \in Seq(Nat) /\ d # Root /\ IsDir(Listed, Parent(d))
              /\ \A k \in DOMAIN Listed : ~ Within(d, k)
              /\ DOMAIN Listed' = DOMAIN Listed \cup {d} /\ Listed'[d] = Dir
              /\ \A k \in DOMAIN Listed : Listed'[k] = Listed[k]
<1> DEFINE s == Source(r)
           d == Target(r)
           X == ParentPaths(s) \cup {s}
<1>1. /\ RowsTyped(rows) /\ Requested(r) /\ rows' = MkcolRows(r) /\ s = d /\ d \in Seq(Nat) /\ d # Root
      /\ IsDir(Listed, Parent(d)) /\ (\A k \in DOMAIN rows : ~ Within(d, k))
  BY CommitFrom DEF Pairs, NewRows
<1>2. /\ DOMAIN rows' = DOMAIN rows \cup X
      /\ \A k \in DOMAIN rows' : rows'[k].data = IF k \in DOMAIN rows THEN rows[k].data ELSE Dir
  BY <1>1, MkcolListed
<1>3. ASSUME NEW a \in ParentPaths(s) PROVE a \in DOMAIN rows
  <2>1. a \in Seq(Nat) /\ Descendant(a, d)
    BY <1>1, <1>3, AncestorsFinite
  <2>2. Within(a, Parent(d)) /\ Parent(d) \in DOMAIN Listed
    BY <1>1, <2>1, WithinParent DEF IsDir
  <2>3. CASE a = Parent(d)
    BY <2>2, <2>3, ListedAt
  <2>4. CASE a # Parent(d)
    <3>1. IsDir(Listed, a)
      BY <2>1, <2>2, <2>4, AboveIsDir DEF Within
    <3>2. QED
      BY <3>1, ListedAt DEF IsDir
  <2>5. QED
    BY <2>3, <2>4
<1>4. d \notin DOMAIN rows /\ DOMAIN rows' = DOMAIN rows \cup {d}
  <2>1. d \notin DOMAIN rows
    BY <1>1 DEF Within
  <2>2. QED
    BY <1>1, <1>2, <1>3, <2>1
<1> HIDE DEF d, s, X
<1>5. /\ \A k \in DOMAIN Listed : ~ Within(d, k)
      /\ DOMAIN Listed' = DOMAIN Listed \cup {d} /\ Listed'[d] = Dir
      /\ \A k \in DOMAIN Listed : Listed'[k] = Listed[k]
  BY <1>1, <1>2, <1>4, ListedAt
<1>6. QED
  BY <1>1, <1>5 DEF d

\* DELETE takes away an entry and all below it.
LEMMA DeleteChanges ==
    ASSUME IInv, Types, Safe, Told, IsTree(Listed), AllReady, NEW r \in Req, Commit(r), Op(r).kind = "DELETE"
    PROVE  LET d == Target(r)
           IN /\ d \in Seq(Nat) /\ d # Root /\ d \in DOMAIN Listed
              /\ \A k : k \in DOMAIN Listed' <=> k \in DOMAIN Listed /\ ~ Within(d, k)
              /\ \A k \in DOMAIN Listed' : Listed'[k] = Listed[k]
<1> DEFINE s == Source(r)
           d == Target(r)
           X == IF req[r].isDir THEN Entries(rows, s) ELSE {s}
<1>1. /\ RowsTyped(rows) /\ Requested(r) /\ rows' = DeleteRows(r) /\ s = d /\ d \in Seq(Nat) /\ d # Root
      /\ ~ req[r].isDir => \A k \in DOMAIN rows : ~ Descendant(s, k)
      /\ s \in DOMAIN rows
  BY CommitFrom DEF Pairs, NewRows
<1>2. /\ DOMAIN rows' = DOMAIN rows \ X
      /\ \A k \in DOMAIN rows' : rows'[k].data = rows[k].data
  BY <1>1, DeleteListed
<1>3. \A k \in DOMAIN rows : k \in X <=> Within(d, k)
  <2>1. CASE req[r].isDir
    BY <1>1, <2>1, EntriesAt
  <2>2. CASE ~ req[r].isDir
    BY <1>1, <2>2 DEF Within
  <2>3. QED
    BY <2>1, <2>2
<1> HIDE DEF d, s, X
<1>4. /\ \A k : k \in DOMAIN Listed' <=> k \in DOMAIN Listed /\ ~ Within(d, k)
      /\ \A k \in DOMAIN Listed' : Listed'[k] = Listed[k]
      /\ d \in DOMAIN Listed
  BY <1>1, <1>2, <1>3, ListedAt
<1>5. QED
  BY <1>1, <1>4 DEF d

\* What is at and below s in f is at and below d in g.
Taking(f, s, g, d) ==
    \A x \in Seq(Nat) : /\ d \o x \in DOMAIN g <=> s \o x \in DOMAIN f
                        /\ s \o x \in DOMAIN f => g[d \o x] = f[s \o x]

\* A set of paths carried from below s to below d.
LEMMA CarriedSet ==
    ASSUME NEW s \in Seq(Nat), NEW d \in Seq(Nat), NEW S, \A q \in S : q \in Seq(Nat) /\ Within(s, q),
           NEW new, \A k : k \in new <=> \E q \in S : k = d \o Suffix(q, s)
    PROVE  /\ \A k \in new : k \in Seq(Nat) /\ Within(d, k)
           /\ \A x \in Seq(Nat) : d \o x \in new <=> s \o x \in S
<1>1. ASSUME NEW q \in S
      PROVE  \E x \in Seq(Nat) : q = s \o x /\ d \o Suffix(q, s) = d \o x
  <2>1. Suffix(q, s) \in Seq(Nat) /\ s \o Suffix(q, s) = q
    BY WhatIsLeft
  <2>2. QED
    BY <2>1
<1>2. ASSUME NEW k \in new PROVE k \in Seq(Nat) /\ Within(d, k)
  <2>1. PICK q \in S : k = d \o Suffix(q, s)
    BY <1>2
  <2>2. PICK x \in Seq(Nat) : k = d \o x
    BY <1>1, <2>1
  <2>3. QED
    BY <2>2, Followed
<1>3. ASSUME NEW x \in Seq(Nat), d \o x \in new PROVE s \o x \in S
  <2>1. PICK q \in S : d \o x = d \o Suffix(q, s)
    BY <1>3
  <2>2. PICK y \in Seq(Nat) : q = s \o y /\ d \o x = d \o y
    <3>1. PICK y \in Seq(Nat) : q = s \o y /\ d \o Suffix(q, s) = d \o y
      BY <1>1
    <3>2. QED
      BY <2>1, <3>1, Zenon
  <2>3. Suffix(d \o x, d) = x /\ Suffix(d \o y, d) = y
    BY Followed
  <2>4. QED
    BY <2>2, <2>3
<1>4. ASSUME NEW x \in Seq(Nat), s \o x \in S PROVE d \o x \in new
  <2> DEFINE q == s \o x
  <2>1. Suffix(q, s) = x
    BY Followed
  <2> HIDE DEF q
  <2>2. q \in S /\ d \o x = d \o Suffix(q, s)
    BY <1>4, <2>1 DEF q
  <2>3. QED
    BY <2>2
<1>5. QED
  BY <1>2, <1>3, <1>4

\* A path of one of two branches that have nothing in common.
LEMMA OtherBranch ==
    ASSUME NEW s \in Seq(Nat), NEW d \in Seq(Nat), \A k \in Seq(Nat) : ~ (Within(s, k) /\ Within(d, k)),
           NEW x \in Seq(Nat)
    PROVE  /\ s \o x \in Seq(Nat) /\ Within(s, s \o x) /\ ~ Within(d, s \o x)
           /\ d \o x \in Seq(Nat) /\ Within(d, d \o x) /\ ~ Within(s, d \o x)
<1>1. s \o x \in Seq(Nat) /\ Within(s, s \o x) /\ d \o x \in Seq(Nat) /\ Within(d, d \o x)
  BY Followed
<1> DEFINE a == s \o x
           b == d \o x
<1>2. a \in Seq(Nat) /\ Within(s, a) /\ b \in Seq(Nat) /\ Within(d, b)
  BY <1>1
<1> HIDE DEF a, b
<1>3. ~ Within(d, a) /\ ~ Within(s, b)
  BY <1>2
<1>4. QED
  BY <1>2, <1>3 DEF a, b

\* A move takes an entry and all below it to its new name, in place of what was there.
LEMMA MoveChanges ==
    ASSUME IInv, Types, Safe, Told, IsTree(Listed), AllReady, NEW r \in Req, Commit(r), Op(r).kind = "MOVE"
    PROVE  LET s == Source(r)
               d == Target(r)
           IN /\ s \in Seq(Nat) /\ d \in Seq(Nat) /\ s # Root /\ d # Root /\ s \in DOMAIN Listed
              /\ IsDir(Listed, Parent(d)) /\ \A k \in Seq(Nat) : ~ (Within(s, k) /\ Within(d, k))
              /\ DOMAIN Listed' \subseteq Seq(Nat)
              /\ \A k \in Seq(Nat) : ~ Within(d, k) =>
                    /\ k \in DOMAIN Listed' <=> k \in DOMAIN Listed /\ ~ Within(s, k)
                    /\ k \in DOMAIN Listed' => Listed'[k] = Listed[k]
              /\ Taking(Listed, s, Listed', d)
<1> DEFINE s == Source(r)
           d == Target(r)
           Q == Cleared(r)
           T == Taken(r)
           S == T \cap DOMAIN Q
           new == {d \o Suffix(q, s) : q \in S}
<1>1. /\ RowsTyped(rows) /\ Requested(r) /\ rows' = MoveRows(r) /\ DOMAIN rows \subseteq Seq(Nat)
      /\ s \in Seq(Nat) /\ d \in Seq(Nat) /\ s # Root /\ d # Root
      /\ IsDir(Listed, Parent(d)) /\ \A k \in Seq(Nat) : ~ (Within(s, k) /\ Within(d, k))
      /\ ~ req[r].saved => \A k \in DOMAIN rows : ~ Within(d, k)
      /\ ~ req[r].isDir => \A k \in DOMAIN rows : ~ Descendant(s, k)
      /\ s \in DOMAIN rows
  BY CommitFrom DEF Pairs, NewRows
<1>2. /\ DOMAIN rows' = (DOMAIN Q \ T) \cup new
      /\ \A k \in DOMAIN rows' : rows'[k].data = IF k \in new THEN rows[s \o Suffix(k, d)].data ELSE rows[k].data
  BY <1>1, MoveListed
<1>3. DOMAIN Q = IF req[r].saved THEN DOMAIN rows \ Entries(rows, d) ELSE DOMAIN rows
  BY <1>1, ClearedListed
<1>4. \A k : k \in DOMAIN Q <=> k \in DOMAIN rows /\ ~ Within(d, k)
  BY <1>1, <1>3, EntriesAt
<1>5. \A k \in DOMAIN rows : k \in T <=> Within(s, k)
  <2>1. CASE req[r].isDir
    BY <2>1, EntriesAt DEF Taken
  <2>2. CASE ~ req[r].isDir
    BY <1>1, <2>2 DEF Taken, Within
  <2>3. QED
    BY <2>1, <2>2
<1>6. \A q \in S : q \in DOMAIN rows /\ q \in Seq(Nat) /\ Within(s, q)
  BY <1>1, <1>4, <1>5
<1>7. \A k \in DOMAIN rows : k \in S <=> Within(s, k)
  BY <1>1, <1>4, <1>5
<1> HIDE DEF Q, T, S
<1>8. /\ \A k \in new : k \in Seq(Nat) /\ Within(d, k)
      /\ \A x \in Seq(Nat) : d \o x \in new <=> s \o x \in S
  <2>1. \A q \in S : q \in Seq(Nat) /\ Within(s, q)
    BY <1>6
  <2>2. s \in Seq(Nat) /\ d \in Seq(Nat)
    BY <1>1
  <2> HIDE DEF s, d
  <2>3. \A k : k \in new <=> \E q \in S : k = d \o Suffix(q, s)
    OBVIOUS
  <2> HIDE DEF new
  <2>4. QED
    BY <2>1, <2>2, <2>3, CarriedSet
<1> HIDE DEF new, s, d
<1>9. DOMAIN rows' \subseteq Seq(Nat)
  BY <1>1, <1>2, <1>4, <1>8
<1>10. \A k \in Seq(Nat) : ~ Within(d, k) =>
          /\ k \in DOMAIN rows' <=> k \in DOMAIN rows /\ ~ Within(s, k)
          /\ k \in DOMAIN rows' => rows'[k].data = rows[k].data
  BY <1>2, <1>4, <1>5, <1>8
<1>11. ASSUME NEW x \in Seq(Nat)
       PROVE  /\ d \o x \in DOMAIN rows' <=> s \o x \in DOMAIN rows
              /\ s \o x \in DOMAIN rows => rows'[d \o x].data = rows[s \o x].data
  <2> DEFINE a == s \o x
             b == d \o x
  <2>1. Within(s, a) /\ Within(d, b)
    BY <1>1, OtherBranch
  <2>2. b \in new <=> a \in S
    BY <1>8
  <2>3. s \o Suffix(b, d) = a
    <3>1. Suffix(d \o x, d) = x
      BY <1>1, Followed
    <3>2. QED
      BY <3>1
  <2> HIDE DEF a, b
  <2>4. a \in S <=> a \in DOMAIN rows
    BY <1>6, <1>7, <2>1
  <2>5. b \in DOMAIN rows' <=> b \in new
    BY <1>2, <1>4, <2>1
  <2>6. b \in new => rows'[b].data = rows[a].data
    BY <1>2, <2>3, <2>5
  <2>7. QED
    BY <2>2, <2>4, <2>5, <2>6 DEF a, b
<1>12. Taking(Listed, s, Listed', d)
  <2>1. ASSUME NEW x \in Seq(Nat)
        PROVE  /\ d \o x \in DOMAIN Listed' <=> s \o x \in DOMAIN Listed
               /\ s \o x \in DOMAIN Listed => Listed'[d \o x] = Listed[s \o x]
    <3> DEFINE a == s \o x
               b == d \o x
    <3>1. (b \in DOMAIN rows' <=> a \in DOMAIN rows) /\ (a \in DOMAIN rows => rows'[b].data = rows[a].data)
      BY <1>11
    <3> HIDE DEF a, b
    <3>2. (b \in DOMAIN Listed' <=> a \in DOMAIN Listed) /\ (a \in DOMAIN Listed => Listed'[b] = Listed[a])
      BY <3>1, ListedAt
    <3>3. QED
      BY <3>2 DEF a, b
  <2>2. QED
    BY <2>1 DEF Taking
<1>13. /\ s \in DOMAIN Listed /\ DOMAIN Listed' \subseteq Seq(Nat)
       /\ \A k \in Seq(Nat) : ~ Within(d, k) =>
             /\ k \in DOMAIN Listed' <=> k \in DOMAIN Listed /\ ~ Within(s, k)
             /\ k \in DOMAIN Listed' => Listed'[k] = Listed[k]
  BY <1>1, <1>9, <1>10, ListedAt
<1>14. QED
  BY <1>1, <1>12, <1>13 DEF s, d

\* A copy of a collection without what is in it.
Flat(r) == req[r].isDir /\ Op(r).kind = "COPY0"

\* A copy is a second branch like the first; Depth 0 makes a collection of its own.
LEMMA CopyChanges ==
    ASSUME IInv, Types, Safe, Told, IsTree(Listed), AllReady, NEW r \in Req, Commit(r),
           Op(r).kind \in {"COPY", "COPY0"}
    PROVE  LET s == Source(r)
               d == Target(r)
           IN /\ s \in Seq(Nat) /\ d \in Seq(Nat) /\ s # Root /\ d # Root /\ s \in DOMAIN Listed
              /\ IsDir(Listed, Parent(d)) /\ \A k \in Seq(Nat) : ~ (Within(s, k) /\ Within(d, k))
              /\ DOMAIN Listed' \subseteq Seq(Nat)
              /\ \A k \in Seq(Nat) : ~ Within(d, k) =>
                    /\ k \in DOMAIN Listed' <=> k \in DOMAIN Listed
                    /\ k \in DOMAIN Listed' => Listed'[k] = Listed[k]
              /\ ~ Flat(r) => Taking(Listed, s, Listed', d)
              /\ Flat(r) => /\ \A k \in DOMAIN Listed' : Within(d, k) => k = d
                            /\ d \in DOMAIN Listed' /\ Listed'[d] = Dir /\ Listed[s] = Dir
<1> DEFINE s == Source(r)
           d == Target(r)
           R == CopyRows(r)
           Q == Cleared(r)
           flat == req[r].isDir /\ Op(r).kind = "COPY0"
           S == IF flat THEN {s} ELSE IF req[r].isDir THEN Entries(rows, s) ELSE {s}
           new == {d \o Suffix(q, s) : q \in S}
<1>1. /\ RowsTyped(rows) /\ Requested(r) /\ rows' = R /\ DOMAIN rows \subseteq Seq(Nat)
      /\ s \in Seq(Nat) /\ d \in Seq(Nat) /\ s # Root /\ d # Root
      /\ IsDir(Listed, Parent(d)) /\ \A k \in Seq(Nat) : ~ (Within(s, k) /\ Within(d, k))
      /\ ~ req[r].saved => \A k \in DOMAIN rows : ~ Within(d, k)
      /\ ~ req[r].isDir => \A k \in DOMAIN rows : ~ Descendant(s, k)
      /\ s \in DOMAIN rows /\ (req[r].isDir <=> rows[s].data = Dir) /\ Within(s, s)
  BY CommitFrom DEF Pairs, NewRows
<1>2. /\ DOMAIN R = DOMAIN Q \cup new
      /\ \A k \in DOMAIN Q \ {d} : R[k].data = rows[k].data
      /\ \A k \in new : k \notin DOMAIN Q =>
            R[k].data = IF flat THEN Dir ELSE rows[s \o Suffix(k, d)].data
  BY <1>1, CopyListed
<1>3. DOMAIN Q = IF req[r].saved THEN DOMAIN rows \ Entries(rows, d) ELSE DOMAIN rows
  BY <1>1, ClearedListed
<1>4. \A k : k \in DOMAIN Q <=> k \in DOMAIN rows /\ ~ Within(d, k)
  BY <1>1, <1>3, EntriesAt
<1>5. \A q \in S : q \in DOMAIN rows /\ q \in Seq(Nat) /\ Within(s, q)
  <2>1. \A q \in Entries(rows, s) : q \in DOMAIN rows /\ Within(s, q)
    BY EntriesAt
  <2>2. QED
    BY <1>1, <2>1
<1>6. ~ flat => \A k \in DOMAIN rows : k \in S <=> Within(s, k)
  <2>1. CASE req[r].isDir
    BY <2>1, EntriesAt
  <2>2. CASE ~ req[r].isDir
    BY <1>1, <2>2 DEF Within
  <2>3. QED
    BY <2>1, <2>2
<1>7. flat => S = {s}
  OBVIOUS
<1>8. flat <=> Flat(r)
  BY DEF Flat
<1>9. flat => rows[s].data = Dir
  BY <1>1
<1> HIDE DEF Q, R, S, flat
<1>10. /\ \A k \in new : k \in Seq(Nat) /\ Within(d, k)
       /\ \A x \in Seq(Nat) : d \o x \in new <=> s \o x \in S
  <2>1. \A q \in S : q \in Seq(Nat) /\ Within(s, q)
    BY <1>5
  <2>2. s \in Seq(Nat) /\ d \in Seq(Nat)
    BY <1>1
  <2> HIDE DEF s, d
  <2>3. \A k : k \in new <=> \E q \in S : k = d \o Suffix(q, s)
    OBVIOUS
  <2> HIDE DEF new
  <2>4. QED
    BY <2>1, <2>2, <2>3, CarriedSet
<1>11. flat => new = {d}
  <2>1. d \o Suffix(s, s) = d
    BY <1>1, EmptySuffix
  <2>2. QED
    BY <1>7, <2>1
<1> HIDE DEF new, s, d
<1>12. DOMAIN rows' \subseteq Seq(Nat)
  BY <1>1, <1>2, <1>4, <1>10
<1>13. \A k \in Seq(Nat) : ~ Within(d, k) =>
          /\ k \in DOMAIN rows' <=> k \in DOMAIN rows
          /\ k \in DOMAIN rows' => rows'[k].data = rows[k].data
  <2>1. \A k : ~ Within(d, k) => k # d
    BY DEF Within
  <2>2. QED
    BY <1>1, <1>2, <1>4, <1>10, <2>1
<1>14. ASSUME ~ flat, NEW x \in Seq(Nat)
       PROVE  /\ d \o x \in DOMAIN rows' <=> s \o x \in DOMAIN rows
              /\ s \o x \in DOMAIN rows => rows'[d \o x].data = rows[s \o x].data
  <2> DEFINE a == s \o x
             b == d \o x
  <2>1. Within(s, a) /\ Within(d, b)
    BY <1>1, OtherBranch
  <2>2. b \in new <=> a \in S
    BY <1>10
  <2>3. s \o Suffix(b, d) = a
    <3>1. Suffix(d \o x, d) = x
      BY <1>1, Followed
    <3>2. QED
      BY <3>1
  <2> HIDE DEF a, b
  <2>4. a \in S <=> a \in DOMAIN rows
    BY <1>5, <1>6, <1>14, <2>1
  <2>5. b \in DOMAIN rows' <=> b \in new
    BY <1>1, <1>2, <1>4, <2>1
  <2>6. b \in new => rows'[b].data = rows[a].data
    BY <1>1, <1>2, <1>4, <1>14, <2>1, <2>3
  <2>7. QED
    BY <2>2, <2>4, <2>5, <2>6 DEF a, b
<1>15. ~ flat => Taking(Listed, s, Listed', d)
  <2>1. ASSUME ~ flat, NEW x \in Seq(Nat)
        PROVE  /\ d \o x \in DOMAIN Listed' <=> s \o x \in DOMAIN Listed
               /\ s \o x \in DOMAIN Listed => Listed'[d \o x] = Listed[s \o x]
    <3> DEFINE a == s \o x
               b == d \o x
    <3>1. (b \in DOMAIN rows' <=> a \in DOMAIN rows) /\ (a \in DOMAIN rows => rows'[b].data = rows[a].data)
      BY <1>14, <2>1
    <3> HIDE DEF a, b
    <3>2. (b \in DOMAIN Listed' <=> a \in DOMAIN Listed) /\ (a \in DOMAIN Listed => Listed'[b] = Listed[a])
      BY <3>1, ListedAt
    <3>3. QED
      BY <3>2 DEF a, b
  <2>2. QED
    BY <2>1 DEF Taking
<1>16. flat => /\ \A k \in DOMAIN Listed' : Within(d, k) => k = d
               /\ d \in DOMAIN Listed' /\ Listed'[d] = Dir /\ Listed[s] = Dir
  <2>1. Within(d, d)
    BY DEF Within
  <2>2. QED
    BY <1>1, <1>2, <1>4, <1>9, <1>11, <2>1, ListedAt
<1>17. /\ s \in DOMAIN Listed /\ DOMAIN Listed' \subseteq Seq(Nat)
       /\ \A k \in Seq(Nat) : ~ Within(d, k) =>
             /\ k \in DOMAIN Listed' <=> k \in DOMAIN Listed
             /\ k \in DOMAIN Listed' => Listed'[k] = Listed[k]
  BY <1>1, <1>12, <1>13, ListedAt
<1>18. QED
  BY <1>1, <1>8, <1>15, <1>16, <1>17 DEF s, d

\* A branch carried to a free place below a collection is a branch there.
LEMMA BranchAdded ==
    ASSUME NEW f, IsTree(f), NEW g, DOMAIN g \subseteq Seq(Nat), NEW h, IsTree(h),
           NEW s \in Seq(Nat), NEW d \in Seq(Nat), d # Root, IsDir(h, Parent(d)),
           \A k \in DOMAIN h : ~ Within(d, k),
           \A k \in Seq(Nat) : ~ Within(d, k) => /\ k \in DOMAIN g <=> k \in DOMAIN h
                                                 /\ k \in DOMAIN g => g[k] = h[k],
           Taking(f, s, g, d)
    PROVE  IsTree(g)
<1> DEFINE B == {k \in DOMAIN g : Within(d, k)}
           sub == [k \in B |-> g[k]]
<1>1. DOMAIN sub = B /\ \A k \in B : sub[k] = g[k]
  OBVIOUS
<1>2. DOMAIN h \subseteq Seq(Nat)
  BY DEF IsTree
<1>3. DOMAIN g = DOMAIN h \cup B
  BY <1>2
<1>4. \A k \in DOMAIN g : g[k] = IF k \in DOMAIN sub THEN sub[k] ELSE h[k]
  BY <1>1
<1> HIDE DEF sub
<1>5. ASSUME NEW k \in B
      PROVE  /\ k \in Seq(Nat) /\ k # Root /\ sub[k] \in Content \cup {Dir}
             /\ IsDir(sub, Parent(k)) \/ (Parent(k) \notin DOMAIN sub /\ IsDir(h, Parent(k)))
             /\ IsDir(h, k) => sub[k] = Dir
  <2> DEFINE x == Suffix(k, d)
             a == s \o x
  <2>1. k \in Seq(Nat) /\ Within(d, k) /\ sub[k] = g[k] /\ k \in DOMAIN g
    BY <1>1
  <2>2. x \in Seq(Nat) /\ d \o x = k
    BY <2>1, WhatIsLeft
  <2> HIDE DEF x
  <2>3. a \in DOMAIN f /\ g[k] = f[a]
    BY <2>1, <2>2 DEF Taking
  <2>4. k # Root
    <3>1. Len(d) # 0
      BY DEF Root
    <3>2. QED
      BY <2>1, <3>1 DEF Within, Descendant, Root
  <2>5. sub[k] \in Content \cup {Dir}
    BY <2>1, <2>3 DEF IsTree
  <2>6. ~ IsDir(h, k)
    BY <2>1 DEF IsDir
  <2>7. CASE x = Root
    <3>1. k = d
      BY <2>2, <2>7, Followed
    <3>2. ~ Within(d, Parent(d))
      <4>1. Parent(d) \in DOMAIN h
        BY DEF IsDir
      <4>2. QED
        BY <4>1
    <3>3. QED
      BY <1>1, <2>1, <2>4, <2>5, <2>6, <3>1, <3>2
  <2>8. CASE x # Root
    <3> DEFINE y == Parent(x)
               b == s \o y
    <3>1. y \in Seq(Nat) /\ Parent(k) = d \o y
      BY <2>2, <2>8, Followed
    <3>2. a # Root /\ Parent(a) = b
      <4>1. s \o x # Root
        BY <2>2, <2>8, LastFollowed
      <4>2. Parent(s \o x) = s \o Parent(x)
        BY <2>2, <2>8, Followed
      <4>3. QED
        BY <4>1, <4>2
    <3> HIDE DEF a
    <3>3. IsDir(f, b)
      BY <2>3, <3>2 DEF IsTree
    <3> HIDE DEF y
    <3>4. d \o y \in DOMAIN g /\ g[d \o y] = Dir
      BY <3>1, <3>3 DEF IsDir, Taking
    <3>5. Within(d, d \o y)
      BY <3>1, Followed
    <3> DEFINE p == Parent(k)
    <3>6. p \in B /\ g[p] = Dir
      BY <3>1, <3>4, <3>5
    <3>7. IsDir(sub, p)
      BY <1>1, <3>6 DEF IsDir
    <3>8. QED
      BY <2>1, <2>4, <2>5, <2>6, <3>7
  <2>9. QED
    BY <2>7, <2>8
<1> HIDE DEF B
<1>6. QED
  BY <1>1, <1>3, <1>4, <1>5, AddedTree

\* What the rows list after a commit is a tree again.
LEMMA CommitTree ==
    ASSUME IInv, Types, Safe, Told, IsTree(Listed), AllReady, NEW r \in Req, Commit(r), Op(r).kind # "PROPPATCH"
    PROVE  IsTree(Listed')
<1> DEFINE s == Source(r)
           d == Target(r)
           f == Listed
           g == Listed'
           h == Removed(f, d)
<1>1. CASE Op(r).kind = "PUT"
  <2> DEFINE e == [k \in {d} |-> Body(r)]
  <2>1. /\ d \in Seq(Nat) /\ d # Root /\ Body(r) \in Content /\ IsDir(f, Parent(d)) /\ ~ IsDir(f, d)
        /\ DOMAIN g = DOMAIN f \cup {d} /\ g[d] = Body(r)
        /\ \A k \in DOMAIN f \ {d} : g[k] = f[k]
    BY <1>1, PutChanges
  <2>2. Parent(d) # d
    BY <2>1, WithinParent
  <2>3. DOMAIN e = {d} /\ e[d] = Body(r)
    OBVIOUS
  <2> HIDE DEF d, e, f, g
  <2>4. IsTree(f)
    BY DEF f
  <2>5. \A k \in DOMAIN g : g[k] = IF k \in DOMAIN e THEN e[k] ELSE f[k]
    BY <2>1, <2>3
  <2>6. DOMAIN g = DOMAIN f \cup DOMAIN e
    BY <2>1, <2>3
  <2>7. \A k \in DOMAIN e :
           /\ k \in Seq(Nat) /\ k # Root /\ e[k] \in Content \cup {Dir}
           /\ IsDir(e, Parent(k)) \/ (Parent(k) \notin DOMAIN e /\ IsDir(f, Parent(k)))
           /\ IsDir(f, k) => e[k] = Dir
    BY <2>1, <2>2, <2>3
  <2>8. IsTree(g)
    BY <2>4, <2>5, <2>6, <2>7, AddedTree
  <2>9. QED
    BY <2>8 DEF g
<1>2. CASE Op(r).kind = "MKCOL"
  <2> DEFINE e == [k \in {d} |-> Dir]
  <2>1. /\ d \in Seq(Nat) /\ d # Root /\ IsDir(f, Parent(d))
        /\ DOMAIN g = DOMAIN f \cup {d} /\ g[d] = Dir
        /\ \A k \in DOMAIN f : ~ Within(d, k)
        /\ \A k \in DOMAIN f : g[k] = f[k]
    BY <1>2, MkcolChanges
  <2>2. Parent(d) # d
    BY <2>1, WithinParent
  <2>3. DOMAIN e = {d} /\ e[d] = Dir
    OBVIOUS
  <2> HIDE DEF d, e, f, g
  <2>4. IsTree(f)
    BY DEF f
  <2>5. \A k \in DOMAIN g : g[k] = IF k \in DOMAIN e THEN e[k] ELSE f[k]
    BY <2>1, <2>3 DEF Within
  <2>6. DOMAIN g = DOMAIN f \cup DOMAIN e
    BY <2>1, <2>3
  <2>7. \A k \in DOMAIN e :
           /\ k \in Seq(Nat) /\ k # Root /\ e[k] \in Content \cup {Dir}
           /\ IsDir(e, Parent(k)) \/ (Parent(k) \notin DOMAIN e /\ IsDir(f, Parent(k)))
           /\ IsDir(f, k) => e[k] = Dir
    BY <2>1, <2>2, <2>3
  <2>8. IsTree(g)
    BY <2>4, <2>5, <2>6, <2>7, AddedTree
  <2>9. QED
    BY <2>8 DEF g
<1>3. ASSUME d \in Seq(Nat), d # Root
      PROVE  IsTree(h) /\ (\A k : k \in DOMAIN h <=> k \in DOMAIN f /\ ~ Within(d, k)) /\ \A k \in DOMAIN h : h[k] = f[k]
  BY <1>3, RemovedTree, RemovedAt
<1>4. CASE Op(r).kind = "DELETE"
  <2>1. /\ d \in Seq(Nat) /\ d # Root
        /\ \A k : k \in DOMAIN g <=> k \in DOMAIN f /\ ~ Within(d, k)
        /\ \A k \in DOMAIN g : g[k] = f[k]
    BY <1>4, DeleteChanges
  <2>2. IsTree(h) /\ DOMAIN g = DOMAIN h /\ \A k \in DOMAIN h : g[k] = h[k]
    BY <1>3, <2>1
  <2> HIDE DEF g, h
  <2>3. IsTree(g)
    BY <2>2, SameTree
  <2>4. QED
    BY <2>3 DEF g
<1>5. ASSUME d \in Seq(Nat), d # Root, IsDir(f, Parent(d))
      PROVE  IsDir(h, Parent(d)) /\ \A k \in DOMAIN h : ~ Within(d, k)
  <2>1. ~ Within(d, Parent(d))
    <3>1. Parent(d) \in Seq(Nat) /\ Within(Parent(d), d) /\ Parent(d) # d
      BY <1>5, WithinParent
    <3>2. QED
      BY <1>5, <3>1, WithinOrder
  <2>2. QED
    BY <1>3, <1>5, <2>1 DEF IsDir
<1>6. CASE Op(r).kind = "MOVE"
  <2> DEFINE m == Removed(h, s)
  <2>1. /\ s \in Seq(Nat) /\ d \in Seq(Nat) /\ s # Root /\ d # Root
        /\ IsDir(f, Parent(d)) /\ (\A k \in Seq(Nat) : ~ (Within(s, k) /\ Within(d, k)))
        /\ DOMAIN g \subseteq Seq(Nat)
        /\ \A k \in Seq(Nat) : ~ Within(d, k) =>
              /\ k \in DOMAIN g <=> k \in DOMAIN f /\ ~ Within(s, k)
              /\ k \in DOMAIN g => g[k] = f[k]
        /\ Taking(f, s, g, d)
    BY <1>6, MoveChanges
  <2>2. IsTree(m) /\ (\A k : k \in DOMAIN m <=> k \in DOMAIN h /\ ~ Within(s, k)) /\ \A k \in DOMAIN m : m[k] = h[k]
    BY <1>3, <2>1, RemovedTree, RemovedAt
  <2>3. IsDir(m, Parent(d))
    <3>1. Parent(d) \in Seq(Nat) /\ (Within(s, Parent(d)) => Within(s, d)) /\ Within(d, d)
      BY <2>1, WithinParent DEF Within
    <3>2. ~ Within(s, Parent(d))
      BY <2>1, <3>1
    <3>3. QED
      BY <1>5, <2>1, <2>2, <3>2 DEF IsDir
  <2>4. \A k \in DOMAIN m : ~ Within(d, k)
    BY <1>5, <2>1, <2>2
  <2>5. \A k \in Seq(Nat) : ~ Within(d, k) => /\ k \in DOMAIN g <=> k \in DOMAIN m
                                              /\ k \in DOMAIN g => g[k] = m[k]
    BY <1>3, <2>1, <2>2
  <2> HIDE DEF f, g, h, m, s, d
  <2>6. IsTree(f)
    BY DEF f
  <2>7. IsTree(g)
    BY <2>1, <2>2, <2>3, <2>4, <2>5, <2>6, BranchAdded
  <2>8. QED
    BY <2>7 DEF g
<1>7. CASE Op(r).kind \in {"COPY", "COPY0"}
  <2>1. /\ s \in Seq(Nat) /\ d \in Seq(Nat) /\ s # Root /\ d # Root
        /\ IsDir(f, Parent(d))
        /\ DOMAIN g \subseteq Seq(Nat)
        /\ \A k \in Seq(Nat) : ~ Within(d, k) =>
              /\ k \in DOMAIN g <=> k \in DOMAIN f
              /\ k \in DOMAIN g => g[k] = f[k]
        /\ ~ Flat(r) => Taking(f, s, g, d)
        /\ Flat(r) => /\ \A k \in DOMAIN g : Within(d, k) => k = d
                      /\ d \in DOMAIN g /\ g[d] = Dir
    BY <1>7, CopyChanges
  <2>2. IsTree(h) /\ IsDir(h, Parent(d)) /\ \A k \in DOMAIN h : ~ Within(d, k)
    BY <1>3, <1>5, <2>1
  <2>3. \A k \in Seq(Nat) : ~ Within(d, k) => /\ k \in DOMAIN g <=> k \in DOMAIN h
                                              /\ k \in DOMAIN g => g[k] = h[k]
    BY <1>3, <2>1
  <2> HIDE DEF f, g, h, s, d
  <2>4. IsTree(f)
    BY DEF f
  <2>5. CASE ~ Flat(r)
    <3>1. IsTree(g)
      BY <2>1, <2>2, <2>3, <2>4, <2>5, BranchAdded
    <3>2. QED
      BY <3>1 DEF g
  <2>6. CASE Flat(r)
    <3> DEFINE e == [k \in {d} |-> Dir]
    <3>1. DOMAIN e = {d} /\ e[d] = Dir
      OBVIOUS
    <3> HIDE DEF e
    <3>2. DOMAIN h \subseteq Seq(Nat) /\ Within(d, d) /\ Parent(d) # d
      BY <2>1, <2>2, WithinParent DEF IsTree, Within
    <3>3. DOMAIN g = DOMAIN h \cup {d}
      BY <2>1, <2>2, <2>3, <2>6, <3>2
    <3>4. \A k \in DOMAIN g : g[k] = IF k \in DOMAIN e THEN e[k] ELSE h[k]
      BY <2>1, <2>2, <2>3, <2>6, <3>1, <3>2
    <3>5. IsTree(g)
      BY <2>1, <2>2, <3>1, <3>2, <3>3, <3>4, AddedTree
    <3>6. QED
      BY <3>5 DEF g
  <2>7. QED
    BY <2>5, <2>6
<1>8. QED
  <2>1. Op(r).kind \in Kinds
    BY CommitFrom
  <2>2. QED
    BY <1>1, <1>2, <1>4, <1>6, <1>7, <2>1 DEF Kinds

\* A request that ends, and every step of a PROPPATCH at work, leaves the others ready.
LEMMA EndReady ==
    ASSUME IInv, Types, Safe, AllReady, NEW r \in Req, Working(r),
           \/ Op(r).kind # "PROPPATCH" /\ (Refuse(r) \/ Clean(r))
           \/ Op(r).kind = "PROPPATCH" /\ (Refuse(r) \/ Commit(r) \/ Clean(r) \/ Fail(r) \/ Undo(r))
    PROVE  AllReady'
<1>1. Others(r) /\ (req'[r].pc = "idle" \/ (Kept(r) /\ Op(r).kind = "PROPPATCH"))
  BY StepFields, EndFields
<1>2. ~ (Past(r)' /\ (Op(r).kind # "PROPPATCH")')
  BY <1>1 DEF Past, Kept, Op
<1>3. rows' = rows
  BY DEF Refuse, Commit, Apply, NewRows, Clean, Fail, Undo
<1>4. SameDisk(Region(r), fs, fs')
  <2>1. CASE fs' = fs
    BY <2>1 DEF SameDisk
  <2>2. CASE Op(r).kind = "PROPPATCH"
    <3>1. ~ req[r].saved
      BY <2>2 DEF Types, Sorted
    <3>2. fs' = fs
      BY <2>2, <3>1 DEF Refuse, WithoutTmp, Commit, Clean, Fail, Undo
    <3>3. QED
      BY <2>1, <3>2
  <2>3. CASE Op(r).kind # "PROPPATCH" /\ (fs' = Removed(fs, Tmp(r)) \/ fs' = Removed(fs, Backup(r)))
    <3>1. SameDisk({Tmp(r)}, fs, fs') \/ SameDisk({Backup(r)}, fs, fs')
      BY <2>3, RemovedSame
    <3>2. QED
      BY <2>3, <3>1 DEF SameDisk, Free, Region
  <2>4. QED
    BY <2>1, <2>2, <2>3 DEF Refuse, Clean, WithoutTmp
<1>5. QED
  BY <1>1, <1>2, <1>3, <1>4, OwnReady

\* All that a request that is not at work yet does to the disk is about its temporary file.
LEMMA OutsideDisk ==
    ASSUME IInv, NEW r \in Req,
           \/ \E o \in Ops : Begin(r, o)
           \/ Refuse(r) /\ ~ Working(r)
    PROVE  \/ fs' = fs
           \/ \E p \in Plain \ {Root}, n \in Nat \ {0} :
                 /\ n = issued + 1 \/ (req[r].pc # "idle" /\ n = req[r].num)
                 /\ SameDisk({TmpName(p, n)}, fs, fs')
<1>1. ASSUME NEW o \in Ops, Begin(r, o), o.kind = "PUT"
      PROVE  \E p \in Plain \ {Root}, n \in Nat \ {0} :
                n = issued + 1 /\ SameDisk({TmpName(p, n)}, fs, fs')
  <2> DEFINE p == o.path
             n == issued + 1
             z == TmpName(p, n)
  <2>1. issued' = n /\ issued \in Nat
    BY <1>1 DEF Begin, IInv
  <2>2. p \in Plain \ {Root} /\ n \in Nat \ {0}
    BY <1>1, <2>1, TreeAssumption, PlainPaths DEF ValidOp
  <2>3. fs' = Inserted(fs, [k \in {z} |-> n])
    BY <1>1, <2>1 DEF Begin
  <2>4. SameDisk({z}, fs, fs')
    <3> HIDE DEF z, n
    <3>1. DOMAIN fs' = DOMAIN fs \cup {z} /\ \A k \in DOMAIN fs : fs'[k] = fs[k]
      BY <2>3 DEF Inserted
    <3>2. QED
      BY <3>1 DEF SameDisk, Free, Within
  <2>5. QED
    BY <2>2, <2>4
<1>2. ASSUME NEW o \in Ops, Begin(r, o), o.kind # "PUT" PROVE fs' = fs
  BY <1>2 DEF Begin
<1>3. ASSUME Refuse(r), ~ Working(r), Op(r).kind = "PUT"
      PROVE  \E p \in Plain \ {Root}, n \in Nat \ {0} :
                (req[r].pc # "idle" /\ n = req[r].num) /\ SameDisk({TmpName(p, n)}, fs, fs')
  <2>1. Requested(r) /\ req[r].pc # "idle"
    BY <1>3 DEF Refuse, IInv, Good, Typed
  <2>2. Source(r) \in Plain \ {Root} /\ req[r].num \in Nat \ {0}
    BY <1>3, <2>1, PlainOp
  <2>3. SameDisk({TmpName(Source(r), req[r].num)}, fs, fs)
    BY DEF SameDisk
  <2>4. SameDisk({TmpName(Source(r), req[r].num)}, fs, fs')
    BY <1>3, <2>3, RemovedSame DEF Refuse, WithoutTmp, Tmp
  <2>5. QED
    BY <2>1, <2>2, <2>4
<1>4. ASSUME Refuse(r), Op(r).kind # "PUT" PROVE fs' = fs
  BY <1>4 DEF Refuse, WithoutTmp
<1>5. CASE \E o \in Ops : Begin(r, o)
  <2>1. PICK o \in Ops : Begin(r, o)
    BY <1>5
  <2>2. QED
    BY <1>1, <1>2, <2>1
<1>6. CASE Refuse(r) /\ ~ Working(r)
  BY <1>3, <1>4, <1>6
<1>7. QED
  BY <1>5, <1>6

\* So it disturbs neither what the rows know nor those at work.
LEMMA OutsideThere ==
    ASSUME IInv, Types, Types', Safe, Told, AllReady, NEW r \in Req,
           \/ \E o \in Ops : Begin(r, o)
           \/ Refuse(r) /\ ~ Working(r)
    PROVE  Told' /\ AllReady'
<1>1. /\ Others(r) /\ req'[r].pc \in {"idle", "waiting"} /\ ~ Working(r) /\ rows' = rows
  <2>1. ASSUME NEW o \in Ops, Begin(r, o)
        PROVE  Others(r) /\ req'[r].pc = "waiting" /\ req[r].pc = "idle" /\ rows' = rows
    BY <2>1, BeginFields DEF Begin
  <2>2. Refuse(r) => Others(r) /\ req'[r].pc = "idle" /\ rows' = rows
    BY EndFields DEF Refuse
  <2>3. QED
    BY <2>1, <2>2 DEF Working
<1>2. ~ Working(r)' /\ ~ Past(r)'
  BY <1>1 DEF Working, Past
<1>3. \/ fs' = fs
      \/ \E p \in Plain \ {Root}, n \in Nat \ {0} :
            /\ n = issued + 1 \/ (req[r].pc # "idle" /\ n = req[r].num)
            /\ SameDisk({TmpName(p, n)}, fs, fs')
  BY OutsideDisk
<1>4. ASSUME NEW n \in Nat, n = issued + 1 \/ (req[r].pc # "idle" /\ n = req[r].num),
             NEW q \in Req \ {r}, Past(q)
      PROVE  n # req[q].num
  <2>1. req[q].pc # "idle"
    BY <1>4 DEF Past
  <2>2. req[q].num <= issued /\ issued \in Nat /\ req[q].num \in Nat
    BY <2>1, TreeAssumption DEF Safe, Numbers, IInv, Good, Typed, Requested
  <2>3. req[r].pc # "idle" => req[r].num # req[q].num
    BY <2>1 DEF Safe, Numbers
  <2>4. QED
    BY <1>4, <2>2, <2>3
<1>5. Told'
  BY <1>1, <1>2, <1>3, ApartTold
<1>6. AllReady'
  <2>1. \/ fs' = fs
        \/ \E p \in Plain \ {Root}, n \in Nat \ {0} :
              /\ \A q \in Req \ {r} : Past(q) => n # req[q].num
              /\ SameDisk({TmpName(p, n)}, fs, fs')
    BY <1>3, <1>4
  <2>2. QED
    BY <1>1, <1>2, <2>1, ApartReady
<1>7. QED
  BY <1>5, <1>6

\* While no row changes the logical tree is the same.
LEMMA ListedStays ==
    ASSUME rows' = rows
    PROVE  Listed' = Listed
BY DEF Listed

\* A handler never has to undo anything, and only a PROPPATCH fails.
LEMMA OnlyPropFails ==
    ASSUME IInv, Types, Safe, AllThere, faults = {}, NEW r \in Req, Fail(r) \/ Undo(r)
    PROVE  Op(r).kind = "PROPPATCH"
<1>1. CASE Fail(r)
  BY <1>1, NoFail DEF AllThere
<1>2. CASE Undo(r)
  <2>1. req[r].pc = "undoing" /\ Past(r)
    BY <1>2 DEF Undo, Past
  <2>2. QED
    BY <2>1 DEF AllThere, AllReady, Ready
<1>3. QED
  BY <1>1, <1>2

\* Without faults every step of a handler leaves the rows knowing everything.
LEMMA StepThere ==
    ASSUME IInv, Types, Types', Safe, AllThere, faults = {}, NEW r \in Req,
           \/ Enter(r) \/ Check(r) \/ Refuse(r) \/ Save(r) \/ Place(r) \/ Commit(r) \/ Clean(r)
           \/ Fail(r) \/ Undo(r)
    PROVE  AllThere'
<1>1. Told /\ Owned /\ AllReady /\ IsTree(Listed) /\ ~ crashed
  BY DEF AllThere
<1>2. ASSUME Op(r).kind = "PROPPATCH", Working(r), ~ Check(r), ~ Enter(r), ~ Save(r), ~ Place(r)
      PROVE  Told' /\ Owned' /\ AllReady' /\ IsTree(Listed')
  <2>1. Refuse(r) \/ Commit(r) \/ Clean(r) \/ Fail(r) \/ Undo(r)
    BY <1>2
  <2>2. Told'
    BY <1>1, <1>2, <2>1, PropTold
  <2>3. Owned'
    BY <1>1, <1>2, <2>1, StaysOwned
  <2>4. AllReady'
    BY <1>1, <1>2, <2>1, EndReady
  <2>5. rows' = rows
    BY <1>2, <2>1 DEF Refuse, Commit, Apply, NewRows, Clean, Fail, Undo
  <2>6. IsTree(Listed')
    BY <1>1, <2>5, ListedStays
  <2>7. QED
    BY <2>2, <2>3, <2>4, <2>6
<1>3. CASE Enter(r)
  <2>1. Told'
    BY <1>1, <1>3, EnterTold
  <2>2. Owned'
    BY <1>1, <1>3, StaysOwned
  <2>3. Others(r) /\ ~ Past(r)' /\ fs' = fs /\ rows' = rows
    BY <1>3, StepFields DEF Enter, Past
  <2>4. AllReady'
    BY <1>1, <2>3, ApartReady
  <2>5. IsTree(Listed') /\ crashed' = crashed
    BY <1>1, <1>3, <2>3, ListedStays DEF Enter
  <2>6. QED
    BY <1>1, <2>1, <2>2, <2>4, <2>5 DEF AllThere
<1>4. CASE Check(r)
  <2>1. Told'
    BY <1>1, <1>4, CheckTold
  <2>2. Owned'
    BY <1>1, <1>4, StaysOwned
  <2>3. AllReady'
    BY <1>1, <1>4, CheckReady
  <2>4. IsTree(Listed') /\ crashed' = crashed
    BY <1>1, <1>4, ListedStays DEF Check
  <2>5. QED
    BY <1>1, <2>1, <2>2, <2>3, <2>4 DEF AllThere
<1>5. CASE Save(r) \/ Place(r)
  <2>1. Op(r).kind # "PROPPATCH"
    BY <1>5 DEF Save, Place, Types, Sorted
  <2>2. Told'
    BY <1>1, <1>5, SaveTold, PlaceTold
  <2>3. Owned'
    BY <1>1, <1>5, StaysOwned
  <2>4. AllReady'
    BY <1>1, <1>5, <2>1, StaysReady
  <2>5. IsTree(Listed') /\ crashed' = crashed
    BY <1>1, <1>5, ListedStays DEF Save, Place
  <2>6. QED
    BY <1>1, <2>2, <2>3, <2>4, <2>5 DEF AllThere
<1>6. CASE Commit(r)
  <2>1. Working(r) /\ crashed' = crashed
    BY <1>6 DEF Commit, Apply, Working
  <2>2. CASE Op(r).kind # "PROPPATCH"
    <3>1. Told'
      BY <1>1, <1>6, <2>2, CommitTold
    <3>2. Owned'
      BY <1>1, <1>6, StaysOwned
    <3>3. AllReady'
      BY <1>1, <1>6, <2>2, StaysReady
    <3>4. IsTree(Listed')
      BY <1>1, <1>6, <2>2, CommitTree
    <3>5. QED
      BY <1>1, <2>1, <3>1, <3>2, <3>3, <3>4 DEF AllThere
  <2>3. CASE Op(r).kind = "PROPPATCH"
    <3>1. ~ Check(r) /\ ~ Enter(r) /\ ~ Save(r) /\ ~ Place(r)
      BY <1>6 DEF Commit, Apply, Check, Enter, Save, Place
    <3>2. QED
      BY <1>1, <1>2, <2>1, <2>3, <3>1 DEF AllThere
  <2>4. QED
    BY <2>2, <2>3
<1>7. CASE Refuse(r) \/ Clean(r)
  <2>1. /\ crashed' = crashed /\ rows' = rows /\ (Clean(r) => Working(r))
    BY <1>7 DEF Refuse, Clean, Working
  <2>2. Owned' /\ IsTree(Listed')
    BY <1>1, <1>7, <2>1, StaysOwned, ListedStays
  <2>3. Told' /\ AllReady'
    <3>1. CASE ~ Working(r)
      BY <1>1, <1>7, <2>1, <3>1, OutsideThere
    <3>2. CASE Working(r) /\ Op(r).kind # "PROPPATCH"
      BY <1>1, <1>7, <3>2, EndTold, EndReady
    <3>3. CASE Working(r) /\ Op(r).kind = "PROPPATCH"
      BY <1>1, <1>7, <3>3, PropTold, EndReady
    <3>4. QED
      BY <3>1, <3>2, <3>3
  <2>4. QED
    BY <1>1, <2>1, <2>2, <2>3 DEF AllThere
<1>8. CASE Fail(r) \/ Undo(r)
  <2>1. Op(r).kind = "PROPPATCH" /\ crashed' = crashed
    BY <1>8, OnlyPropFails DEF Fail, Undo
  <2>2. Working(r)
    BY <1>8 DEF Fail, Fails, Breaks, Undo, Working
  <2>3. ~ Check(r) /\ ~ Enter(r) /\ ~ Save(r) /\ ~ Place(r)
    <3>1. req[r].pc \in {"undoing", "committing", "placing"}
      BY <1>8 DEF Fail, Fails, Breaks, Undo
    <3>2. req[r].pc # "placing"
      BY <2>1 DEF Types, Sorted
    <3>3. QED
      BY <3>1, <3>2 DEF Check, Enter, Save, Place
  <2>4. QED
    BY <1>1, <1>2, <2>1, <2>2, <2>3 DEF AllThere
<1>9. QED
  BY <1>3, <1>4, <1>5, <1>6, <1>7, <1>8

\* Nothing is lost and nothing crashes without faults.
LEMMA NoFaultSteps ==
    ASSUME faults = {}, Step
    PROVE  \E r \in Req :
              \/ \E o \in Ops : Begin(r, o)
              \/ Enter(r) \/ Check(r) \/ Refuse(r) \/ Save(r) \/ Place(r) \/ Commit(r) \/ Clean(r)
              \/ Fail(r) \/ Undo(r)
<1>1. ~ Crash /\ \A r \in Req : ~ LoseReply(r) /\ ~ LoseSession(r)
  BY DEF Crash, LoseReply, LoseSession
<1>2. QED
  BY <1>1 DEF Step

\* What is known without faults stays known.
LEMMA NextKeepsThere ==
    ASSUME IInv, Types, Types', SInv, NInv, [Next]_vars
    PROVE  NInv'
<1> SUFFICES ASSUME faults' = {} PROVE AllThere'
  BY DEF NInv
<1>1. faults = {}
  BY DEF Next, Done, vars
<1>2. AllThere /\ Safe
  BY <1>1 DEF NInv, AllThere, SInv, SessionsKept
<1>3. CASE UNCHANGED vars
  <2>1. /\ fs' = fs /\ rows' = rows /\ req' = req /\ crashed' = crashed
    BY <1>3 DEF vars
  <2>2. Listed' = Listed
    BY <2>1, ListedStays
  <2>3. Told' /\ Owned'
    BY <1>2, <2>1 DEF AllThere, Told, Tells, Arrived, WholeTree, Concerns, Owned, Owns, Working,
       Backup, Source, Target, Op
  <2>4. AllReady'
    BY <1>2, <2>1 DEF AllThere, AllReady, Ready, Past, Tmp, Source, Op
  <2>5. QED
    BY <1>2, <2>1, <2>2, <2>3, <2>4 DEF AllThere
<1>4. CASE Step
  <2>1. PICK r \in Req :
              \/ \E o \in Ops : Begin(r, o)
              \/ Enter(r) \/ Check(r) \/ Refuse(r) \/ Save(r) \/ Place(r) \/ Commit(r) \/ Clean(r)
              \/ Fail(r) \/ Undo(r)
    BY <1>1, <1>4, NoFaultSteps
  <2>2. CASE \E o \in Ops : Begin(r, o)
    <3>1. PICK o \in Ops : Begin(r, o)
      BY <2>2
    <3>2. Told' /\ AllReady'
      BY <1>2, <2>2, OutsideThere DEF AllThere
    <3>3. Owned'
      BY <1>2, <3>1, BeginOwned DEF AllThere
    <3>4. rows' = rows /\ ~ crashed'
      BY <3>1 DEF Begin
    <3>5. QED
      BY <1>2, <3>2, <3>3, <3>4, ListedStays DEF AllThere
  <2>3. CASE \/ Enter(r) \/ Check(r) \/ Refuse(r) \/ Save(r) \/ Place(r) \/ Commit(r) \/ Clean(r)
             \/ Fail(r) \/ Undo(r)
    BY <1>1, <1>2, <2>3, StepThere
  <2>4. QED
    BY <2>1, <2>2, <2>3
<1>5. QED
  BY <1>3, <1>4 DEF Next, Done

\* As long as nothing fails, the rows are a tree that lists all that is on disk but what the
\* requests at work have there, and nothing keeps those from their end.
THEOREM EverythingListed == Spec => []NInv
<1>1. IInv /\ Types /\ Types' /\ SInv /\ NInv /\ [Next]_vars => NInv'
  BY NextKeepsThere
<1>2. Spec => []Types
  BY TypesHold
<1>3. QED
  BY Invariant, RowsStayBacked, InitThere, <1>1, <1>2, PTL DEF Spec

\* Where no request is at work everything is known by its name.
LEMMA ListedWhereIdle == NInv => DiskListed
<1> SUFFICES ASSUME NInv, faults = {}, NEW k \in DOMAIN fs
             PROVE  /\ k \in Plain /\ ~ BeingChanged(k) => k \in DOMAIN rows
                    /\ k # Root /\ k[Len(k)] >= 20 /\ k[Len(k)] % 20 < 10 =>
                          \E r \in Req : Working(r) /\ req[r].saved /\ k = Backup(r)
  BY DEF DiskListed
<1>1. Told /\ Owned
  BY DEF NInv, AllThere
<1>2. ASSUME k \in Plain, ~ BeingChanged(k) PROVE k \in DOMAIN rows
  <2>1. \A r \in Req : ~ (Working(r) /\ Concerns(r, k))
    BY <1>2 DEF BeingChanged, Concerns, Overlap, Within
  <2>2. QED
    BY <1>1, <1>2, <2>1 DEF Told
<1>3. ASSUME k # Root, k[Len(k)] >= 20, k[Len(k)] % 20 < 10
      PROVE  \E r \in Req : Working(r) /\ req[r].saved /\ k = Backup(r)
  BY <1>1, <1>3 DEF Owned, Odd, Owns
<1>4. QED
  BY <1>2, <1>3

\* Where no request is at work, the database lists everything that is on disk, and no backup
\* is left over, as long as nothing fails.
THEOREM DiskIsListed == Spec => []DiskListed
  BY EverythingListed, ListedWhereIdle, PTL

-----------------------------------------------------------------------------
(* Each commit is one operation on the logical tree.                       *)

\* f is a function: it is what it has at each of its names.
IsFcn(f) == f = [k \in DOMAIN f |-> f[k]]

\* Functions are equal when they are defined on the same names and agree there.
LEMMA Extensional ==
    ASSUME NEW f, IsFcn(f), NEW g, IsFcn(g), DOMAIN f = DOMAIN g, \A k \in DOMAIN f : f[k] = g[k]
    PROVE  f = g
<1>1. [k \in DOMAIN f |-> f[k]] = [k \in DOMAIN g |-> g[k]]
  OBVIOUS
<1>2. QED
  BY <1>1 DEF IsFcn

\* The paths of the abstract tree are the same paths.
LEMMA AbstractPaths ==
    /\ Abstract!Root = Root /\ \A p : Abstract!Parent(p) = Parent(p)
    /\ \A p, q : Abstract!Descendant(p, q) <=> Descendant(p, q)
    /\ \A p, q : Abstract!Overlap(p, q) <=> Overlap(p, q)
BY DEF Abstract!Root, Root, Abstract!Parent, Parent, Abstract!Descendant, Descendant, Abstract!Overlap, Overlap

\* Trees that are the same outside the branch at p.
SameBeside(g, t, p) ==
    \A k \in Seq(Nat) : ~ Within(p, k) => /\ k \in DOMAIN g <=> k \in DOMAIN t
                                          /\ k \in DOMAIN g => g[k] = t[k]

\* The branch of w at p is sub.
BranchIs(w, p, sub) ==
    \A x \in Seq(Nat) : /\ p \o x \in DOMAIN w <=> x \in DOMAIN sub
                        /\ x \in DOMAIN sub => w[p \o x] = sub[x]

\* What With puts in place of the entry at p, and what it leaves.
LEMMA WithAt ==
    ASSUME NEW t, DOMAIN t \subseteq Seq(Nat), NEW p \in Seq(Nat), NEW sub, DOMAIN sub \subseteq Seq(Nat)
    PROVE  LET w == Abstract!With(t, p, sub)
           IN IsFcn(w) /\ DOMAIN w \subseteq Seq(Nat) /\ SameBeside(w, t, p) /\ BranchIs(w, p, sub)
<1> DEFINE w == Abstract!With(t, p, sub)
           new == {p \o k : k \in DOMAIN sub}
           old == {k \in DOMAIN t : k # p /\ ~ Descendant(p, k)}
<1>1. DOMAIN w = old \cup new /\ \A q \in DOMAIN w : w[q] = IF q \in new THEN sub[Suffix(q, p)] ELSE t[q]
  BY AbstractPaths DEF Abstract!With, Abstract!Without, Suffix
<1>2. IsFcn(w)
  BY DEF Abstract!With, IsFcn
<1>3. \A k : k \in new <=> \E x \in DOMAIN sub : k = p \o x
  OBVIOUS
<1>4. \A k \in Seq(Nat) : k \in old <=> k \in DOMAIN t /\ ~ Within(p, k)
  BY DEF Within
<1> HIDE DEF w, new
<1>5. ASSUME NEW x \in Seq(Nat)
      PROVE  p \o x \in Seq(Nat) /\ Within(p, p \o x) /\ Suffix(p \o x, p) = x
  BY Followed
<1>6. ASSUME NEW x \in Seq(Nat)
      PROVE  p \o x \in new <=> x \in DOMAIN sub
  <2>1. ASSUME p \o x \in new PROVE x \in DOMAIN sub
    <3>1. PICK y \in DOMAIN sub : p \o x = p \o y
      BY <1>3, <2>1
    <3>2. Suffix(p \o x, p) = x /\ Suffix(p \o y, p) = y
      BY <1>5
    <3>3. QED
      BY <3>1, <3>2
  <2>2. QED
    BY <1>3, <2>1
<1>7. ASSUME NEW k \in new PROVE k \in Seq(Nat) /\ Within(p, k)
  <2>1. PICK x \in DOMAIN sub : k = p \o x
    BY <1>3
  <2>2. QED
    BY <1>5, <2>1
<1> HIDE DEF old
<1>8. DOMAIN w \subseteq Seq(Nat)
  <2>1. old \subseteq DOMAIN t
    BY DEF old
  <2>2. QED
    BY <1>1, <1>7, <2>1
<1>9. ASSUME NEW k \in Seq(Nat), ~ Within(p, k)
      PROVE  (k \in DOMAIN w <=> k \in DOMAIN t) /\ (k \in DOMAIN w => w[k] = t[k])
  BY <1>1, <1>4, <1>7, <1>9
<1>10. ASSUME NEW x \in Seq(Nat)
       PROVE  (p \o x \in DOMAIN w <=> x \in DOMAIN sub) /\ (x \in DOMAIN sub => w[p \o x] = sub[x])
  <2> DEFINE a == p \o x
  <2>1. a \in Seq(Nat) /\ Within(p, a) /\ Suffix(a, p) = x /\ (a \in new <=> x \in DOMAIN sub)
    BY <1>5, <1>6
  <2> HIDE DEF a
  <2>2. (a \in DOMAIN w <=> x \in DOMAIN sub) /\ (x \in DOMAIN sub => w[a] = sub[x])
    BY <1>1, <1>4, <2>1
  <2>3. QED
    BY <2>2 DEF a
<1>11. SameBeside(w, t, p)
  BY <1>9 DEF SameBeside
<1>12. BranchIs(w, p, sub)
  BY <1>10 DEF BranchIs
<1>13. QED
  BY <1>2, <1>8, <1>11, <1>12 DEF w

\* w and g agree away from p, and below p name by name.
Agree(w, g, p) ==
    /\ \A k \in Seq(Nat) : ~ Within(p, k) => (k \in DOMAIN w <=> k \in DOMAIN g) /\ (k \in DOMAIN w => w[k] = g[k])
    /\ \A x \in Seq(Nat) : /\ p \o x \in DOMAIN w <=> p \o x \in DOMAIN g
                           /\ p \o x \in DOMAIN w => w[p \o x] = g[p \o x]

\* Functions on paths that agree so are the same.
LEMMA SameAs ==
    ASSUME NEW g, IsFcn(g), DOMAIN g \subseteq Seq(Nat), NEW w, IsFcn(w), DOMAIN w \subseteq Seq(Nat),
           NEW p \in Seq(Nat), Agree(w, g, p)
    PROVE  g = w
<1>1. ASSUME NEW k \in Seq(Nat)
      PROVE  (k \in DOMAIN w <=> k \in DOMAIN g) /\ (k \in DOMAIN w => w[k] = g[k])
  <2>1. CASE Within(p, k)
    <3> DEFINE x == Suffix(k, p)
    <3>1. x \in Seq(Nat) /\ p \o x = k
      BY <2>1, WhatIsLeft
    <3> HIDE DEF x
    <3>2. QED
      BY <3>1 DEF Agree
  <2>2. QED
    BY <2>1 DEF Agree
<1>2. DOMAIN g = DOMAIN w /\ \A k \in DOMAIN g : g[k] = w[k]
  BY <1>1
<1>3. QED
  BY <1>2, Extensional

\* Putting one entry in place.
LEMMA OneEntry ==
    ASSUME NEW t, DOMAIN t \subseteq Seq(Nat), NEW g, IsFcn(g), DOMAIN g \subseteq Seq(Nat),
           NEW p \in Seq(Nat), NEW c,
           SameBeside(g, t, p),
           p \in DOMAIN g, g[p] = c, \A k \in DOMAIN g : Within(p, k) => k = p
    PROVE  g = Abstract!With(t, p, Abstract!Leaf(c))
<1> DEFINE sub == Abstract!Leaf(c)
           w == Abstract!With(t, p, sub)
<1>1. DOMAIN sub = {Root} /\ sub[Root] = c /\ Root \in Seq(Nat)
  BY AbstractPaths DEF Abstract!Leaf, Root
<1> HIDE DEF sub
<1>2. IsFcn(w) /\ DOMAIN w \subseteq Seq(Nat) /\ SameBeside(w, t, p) /\ BranchIs(w, p, sub)
  BY <1>1, WithAt
<1> HIDE DEF w
<1>3. ASSUME NEW x \in Seq(Nat)
      PROVE  /\ p \o x \in DOMAIN w <=> p \o x \in DOMAIN g
             /\ p \o x \in DOMAIN w => w[p \o x] = g[p \o x]
  <2>1. p \o x = p <=> x = Root
    BY Followed
  <2>2. Within(p, p \o x)
    BY Followed
  <2>3. p \o x \in DOMAIN g <=> x = Root
    BY <2>1, <2>2
  <2>4. p \o x \in DOMAIN w <=> x = Root
    BY <1>1, <1>2 DEF BranchIs
  <2>5. ASSUME x = Root PROVE w[p \o x] = g[p \o x]
    <3>1. w[p \o x] = sub[x]
      BY <1>1, <1>2, <2>5 DEF BranchIs
    <3>2. p \o x = p
      BY <2>1, <2>5
    <3>3. QED
      BY <1>1, <2>5, <3>1, <3>2
  <2>6. QED
    BY <2>3, <2>4, <2>5
<1>4. \A k \in Seq(Nat) : ~ Within(p, k) => (k \in DOMAIN w <=> k \in DOMAIN g) /\ (k \in DOMAIN w => w[k] = g[k])
  BY <1>2 DEF SameBeside
<1>5. Agree(w, g, p)
  BY <1>3, <1>4 DEF Agree
<1>6. g = w
  BY <1>2, <1>5, SameAs
<1>7. QED
  BY <1>6 DEF w, sub

\* What is below s, seen from s.
LEMMA SubtreeAt ==
    ASSUME IsTree(Listed), NEW s \in Seq(Nat)
    PROVE  LET sub == Abstract!Subtree(s)
           IN /\ DOMAIN sub \subseteq Seq(Nat)
              /\ \A x \in Seq(Nat) : /\ x \in DOMAIN sub <=> s \o x \in DOMAIN Listed
                                     /\ x \in DOMAIN sub => sub[x] = Listed[s \o x]
<1> DEFINE sub == Abstract!Subtree(s)
           E == {k \in DOMAIN Listed : k = s \/ Descendant(s, k)}
<1>1. DOMAIN sub = {Suffix(q, s) : q \in E}
  BY AbstractPaths DEF Abstract!Subtree, Abstract!Below, Suffix
<1>2. \A x : x \in DOMAIN sub <=> \E q \in E : x = Suffix(q, s)
  BY <1>1
<1>3. \A x \in DOMAIN sub : sub[x] = Listed[s \o x]
  BY DEF Abstract!Subtree
<1>4. \A q : q \in E <=> q \in DOMAIN Listed /\ q \in Seq(Nat) /\ Within(s, q)
  BY DEF IsTree, Within
<1> HIDE DEF sub, E
<1>5. ASSUME NEW x \in DOMAIN sub PROVE x \in Seq(Nat) /\ s \o x \in DOMAIN Listed
  <2>1. PICK q \in E : x = Suffix(q, s)
    BY <1>2
  <2>2. QED
    BY <1>4, <2>1, WhatIsLeft
<1>6. ASSUME NEW x \in Seq(Nat), s \o x \in DOMAIN Listed PROVE x \in DOMAIN sub
  <2>1. s \o x \in Seq(Nat) /\ Within(s, s \o x) /\ Suffix(s \o x, s) = x
    BY Followed
  <2>2. s \o x \in E
    BY <1>4, <1>6, <2>1
  <2>3. QED
    BY <1>2, <2>1, <2>2
<1>7. QED
  BY <1>3, <1>5, <1>6 DEF sub

\* Carrying a branch of the logical tree to d, over what is there.
LEMMA BranchPut ==
    ASSUME IsTree(Listed), NEW t, DOMAIN t \subseteq Seq(Nat),
           NEW g, IsFcn(g), DOMAIN g \subseteq Seq(Nat), NEW s \in Seq(Nat), NEW d \in Seq(Nat),
           SameBeside(g, t, d),
           Taking(Listed, s, g, d)
    PROVE  g = Abstract!With(t, d, Abstract!Subtree(s))
<1> DEFINE sub == Abstract!Subtree(s)
           w == Abstract!With(t, d, sub)
<1>1. /\ DOMAIN sub \subseteq Seq(Nat)
      /\ \A x \in Seq(Nat) : /\ x \in DOMAIN sub <=> s \o x \in DOMAIN Listed
                             /\ x \in DOMAIN sub => sub[x] = Listed[s \o x]
  BY SubtreeAt
<1> HIDE DEF sub
<1>2. IsFcn(w) /\ DOMAIN w \subseteq Seq(Nat) /\ SameBeside(w, t, d) /\ BranchIs(w, d, sub)
  <2>1. DOMAIN sub \subseteq Seq(Nat)
    BY <1>1
  <2>2. QED
    BY <2>1, WithAt
<1> HIDE DEF w
<1>3. ASSUME NEW x \in Seq(Nat)
      PROVE  /\ d \o x \in DOMAIN w <=> d \o x \in DOMAIN g
             /\ d \o x \in DOMAIN w => w[d \o x] = g[d \o x]
  <2>1. /\ d \o x \in DOMAIN g <=> s \o x \in DOMAIN Listed
        /\ s \o x \in DOMAIN Listed => g[d \o x] = Listed[s \o x]
    BY DEF Taking
  <2>2. /\ d \o x \in DOMAIN w <=> x \in DOMAIN sub
        /\ x \in DOMAIN sub => w[d \o x] = sub[x]
    BY <1>2 DEF BranchIs
  <2>3. /\ x \in DOMAIN sub <=> s \o x \in DOMAIN Listed
        /\ x \in DOMAIN sub => sub[x] = Listed[s \o x]
    BY <1>1
  <2>4. QED
    BY <2>1, <2>2, <2>3
<1>4. \A k \in Seq(Nat) : ~ Within(d, k) => (k \in DOMAIN w <=> k \in DOMAIN g) /\ (k \in DOMAIN w => w[k] = g[k])
  BY <1>2 DEF SameBeside
<1>5. Agree(w, g, d)
  BY <1>3, <1>4 DEF Agree
<1>6. g = w
  BY <1>2, <1>5, SameAs
<1>7. QED
  BY <1>6 DEF w, sub

\* The names of an abstract step are those of the entries before and after it.
LEMMA AbstractNames ==
    ASSUME NEW p \in Seq(Nat), p # Root, p \in DOMAIN Listed \/ p \in DOMAIN Listed'
    PROVE  p \in Abstract!Names \ {Abstract!Root}
<1>1. Abstract!Root = Root
  BY AbstractPaths
<1>2. p \in (DOMAIN Listed \cup DOMAIN Listed') \ {Abstract!Root}
  BY <1>1
<1>3. p \in Abstract!Names
  BY <1>2 DEF Abstract!Names
<1>4. QED
  BY <1>1, <1>3

\* What the abstract operations look at.
LEMMA AbstractTests ==
    ASSUME NEW p
    PROVE  /\ Abstract!Collection(p) <=> IsDir(Listed, p)
           /\ Abstract!Parent(p) = Parent(p)
BY AbstractPaths DEF Abstract!Collection, IsDir

\* The logical tree is a function on paths, before and after.
LEMMA ListedFcn ==
    ASSUME IInv, IInv'
    PROVE  /\ IsFcn(Listed) /\ IsFcn(Listed')
           /\ DOMAIN Listed \subseteq Seq(Nat) /\ DOMAIN Listed' \subseteq Seq(Nat)
<1>1. DOMAIN rows \subseteq Seq(Nat) /\ DOMAIN rows' \subseteq Seq(Nat)
  BY DEF IInv, RowsTyped
<1>2. IsFcn(Listed) /\ IsFcn(Listed')
  BY DEF Listed, IsFcn
<1>3. QED
  BY <1>1, <1>2 DEF Listed

\* A committed PUT is the abstract one.
LEMMA PutIsPut ==
    ASSUME IInv, IInv', Types, Safe, Told, IsTree(Listed), AllReady, NEW r \in Req, Commit(r), Op(r).kind = "PUT"
    PROVE  Abstract!Next
<1> DEFINE d == Target(r)
           c == Body(r)
           f == Listed
           g == Listed'
<1>1. /\ d \in Seq(Nat) /\ d # Root /\ c \in Content /\ IsDir(f, Parent(d)) /\ ~ IsDir(f, d)
      /\ \A k \in DOMAIN f : ~ Descendant(d, k)
      /\ DOMAIN g = DOMAIN f \cup {d} /\ g[d] = c
      /\ \A k \in DOMAIN f \ {d} : g[k] = f[k]
  BY PutChanges
<1>2. IsFcn(g) /\ DOMAIN f \subseteq Seq(Nat) /\ DOMAIN g \subseteq Seq(Nat)
  BY ListedFcn
<1>3. g = Abstract!With(f, d, Abstract!Leaf(c))
  <2> HIDE DEF d, c, f, g
  <2>1. SameBeside(g, f, d)
    BY <1>1 DEF SameBeside, Within
  <2>2. d \in DOMAIN g /\ \A k \in DOMAIN g : Within(d, k) => k = d
    BY <1>1 DEF Within
  <2>3. QED
    BY <1>1, <1>2, <2>1, <2>2, OneEntry
<1>4. Abstract!Put(d, c)
  <2> HIDE DEF d, c
  <2>1. QED
    BY <1>1, <1>3, AbstractTests DEF Abstract!Put
<1>5. d \in Abstract!Names \ {Abstract!Root}
  <2>1. d \in DOMAIN Listed'
    BY <1>1
  <2> HIDE DEF d
  <2>2. QED
    BY <1>1, <2>1, AbstractNames
<1> HIDE DEF d, c
<1>6. QED
  BY <1>1, <1>4, <1>5 DEF Abstract!Next

\* A committed MKCOL is the abstract one.
LEMMA MkcolIsMkcol ==
    ASSUME IInv, IInv', Types, Safe, Told, IsTree(Listed), AllReady, NEW r \in Req, Commit(r), Op(r).kind = "MKCOL"
    PROVE  Abstract!Next
<1> DEFINE d == Target(r)
           f == Listed
           g == Listed'
<1>1. /\ d \in Seq(Nat) /\ d # Root /\ IsDir(f, Parent(d))
      /\ \A k \in DOMAIN f : ~ Within(d, k)
      /\ DOMAIN g = DOMAIN f \cup {d} /\ g[d] = Dir
      /\ \A k \in DOMAIN f : g[k] = f[k]
  BY MkcolChanges
<1>2. IsFcn(g) /\ DOMAIN f \subseteq Seq(Nat) /\ DOMAIN g \subseteq Seq(Nat)
  BY ListedFcn
<1>3. g = Abstract!With(f, d, Abstract!Leaf(Dir))
  <2> HIDE DEF d, f, g
  <2>1. SameBeside(g, f, d)
    BY <1>1 DEF SameBeside, Within
  <2>2. d \in DOMAIN g /\ \A k \in DOMAIN g : Within(d, k) => k = d
    BY <1>1
  <2>3. QED
    BY <1>1, <1>2, <2>1, <2>2, OneEntry
<1>4. Abstract!Mkcol(d)
  <2>1. d \notin DOMAIN Listed
    BY <1>1 DEF Within
  <2> HIDE DEF d
  <2>2. QED
    BY <1>1, <1>3, <2>1, AbstractTests DEF Abstract!Mkcol
<1>5. d \in Abstract!Names \ {Abstract!Root}
  <2>1. d \in DOMAIN Listed'
    BY <1>1
  <2> HIDE DEF d
  <2>2. QED
    BY <1>1, <2>1, AbstractNames
<1> HIDE DEF d
<1>6. QED
  BY <1>4, <1>5 DEF Abstract!Next

\* A tree without the branch at p.
LEMMA WithoutAt ==
    ASSUME NEW t, DOMAIN t \subseteq Seq(Nat), NEW p
    PROVE  LET w == Abstract!Without(t, p)
           IN /\ IsFcn(w) /\ DOMAIN w \subseteq Seq(Nat)
              /\ \A k : k \in DOMAIN w <=> k \in DOMAIN t /\ ~ Within(p, k)
              /\ \A k \in DOMAIN w : w[k] = t[k]
<1> DEFINE w == Abstract!Without(t, p)
           old == {k \in DOMAIN t : k # p /\ ~ Descendant(p, k)}
<1>1. w = [k \in old |-> t[k]]
  BY AbstractPaths DEF Abstract!Without
<1>2. \A k : k \in old <=> k \in DOMAIN t /\ ~ Within(p, k)
  BY DEF Within
<1> HIDE DEF w, old
<1>3. DOMAIN w = old /\ \A k \in old : w[k] = t[k]
  BY <1>1
<1>4. IsFcn(w)
  BY <1>1 DEF IsFcn
<1>5. QED
  BY <1>2, <1>3, <1>4 DEF w

\* A committed DELETE takes the branch away.
LEMMA DeleteIsDelete ==
    ASSUME IInv, IInv', Types, Safe, Told, IsTree(Listed), AllReady, NEW r \in Req, Commit(r), Op(r).kind = "DELETE"
    PROVE  Abstract!Next
<1> DEFINE d == Target(r)
           f == Listed
           g == Listed'
           w == Abstract!Without(f, d)
<1>1. /\ d \in Seq(Nat) /\ d # Root /\ d \in DOMAIN f
      /\ \A k : k \in DOMAIN g <=> k \in DOMAIN f /\ ~ Within(d, k)
      /\ \A k \in DOMAIN g : g[k] = f[k]
  BY DeleteChanges
<1>2. IsFcn(g) /\ DOMAIN f \subseteq Seq(Nat) /\ DOMAIN g \subseteq Seq(Nat)
  BY ListedFcn
<1>3. g = w
  <2>1. /\ IsFcn(w)
        /\ \A k : k \in DOMAIN w <=> k \in DOMAIN f /\ ~ Within(d, k)
        /\ \A k \in DOMAIN w : w[k] = f[k]
    <3> HIDE DEF f, d
    <3>1. QED
      BY <1>2, WithoutAt
  <2> HIDE DEF d, f, g, w
  <2>2. DOMAIN g = DOMAIN w /\ \A k \in DOMAIN g : g[k] = w[k]
    BY <1>1, <2>1
  <2>3. QED
    BY <1>2, <2>1, <2>2, Extensional
<1>4. Abstract!Delete(d)
  <2> HIDE DEF d
  <2>1. QED
    BY <1>1, <1>3 DEF Abstract!Delete
<1>5. d \in Abstract!Names \ {Abstract!Root}
  <2>1. d \in DOMAIN Listed
    BY <1>1
  <2> HIDE DEF d
  <2>2. QED
    BY <1>1, <2>1, AbstractNames
<1> HIDE DEF d
<1>6. QED
  BY <1>4, <1>5 DEF Abstract!Next

\* Branches that share nothing do not overlap.
LEMMA BranchesApart ==
    ASSUME NEW s \in Seq(Nat), NEW d \in Seq(Nat), \A k \in Seq(Nat) : ~ (Within(s, k) /\ Within(d, k))
    PROVE  ~ Abstract!Overlap(s, d)
<1>1. Within(s, s) /\ Within(d, d)
  BY DEF Within
<1>2. ~ Within(s, d) /\ ~ Within(d, s)
  BY <1>1
<1>3. ~ Overlap(s, d)
  BY <1>2 DEF Overlap, Within
<1>4. QED
  BY <1>3, AbstractPaths

\* A committed MOVE is the abstract one.
LEMMA MoveIsMove ==
    ASSUME IInv, IInv', Types, Safe, Told, IsTree(Listed), AllReady, NEW r \in Req, Commit(r), Op(r).kind = "MOVE"
    PROVE  Abstract!Next
<1> DEFINE s == Source(r)
           d == Target(r)
           f == Listed
           g == Listed'
           t == Abstract!Without(f, s)
<1>1. /\ s \in Seq(Nat) /\ d \in Seq(Nat) /\ s # Root /\ d # Root /\ s \in DOMAIN f
      /\ IsDir(f, Parent(d)) /\ \A k \in Seq(Nat) : ~ (Within(s, k) /\ Within(d, k))
      /\ \A k \in Seq(Nat) : ~ Within(d, k) =>
            /\ k \in DOMAIN g <=> k \in DOMAIN f /\ ~ Within(s, k)
            /\ k \in DOMAIN g => g[k] = f[k]
      /\ Taking(f, s, g, d)
  BY MoveChanges
<1>2. IsFcn(g) /\ DOMAIN f \subseteq Seq(Nat) /\ DOMAIN g \subseteq Seq(Nat)
  BY ListedFcn
<1>3. /\ DOMAIN t \subseteq Seq(Nat)
      /\ \A k : k \in DOMAIN t <=> k \in DOMAIN f /\ ~ Within(s, k)
      /\ \A k \in DOMAIN t : t[k] = f[k]
  <2> HIDE DEF f, s
  <2>1. QED
    BY <1>2, WithoutAt
<1>4. g = Abstract!With(t, d, Abstract!Subtree(s))
  <2> HIDE DEF s, d, g, t
  <2>1. SameBeside(g, t, d)
    BY <1>1, <1>3 DEF SameBeside
  <2>2. QED
    BY <1>1, <1>2, <1>3, <2>1, BranchPut
<1>5. ~ Abstract!Overlap(s, d)
  <2> HIDE DEF s, d
  <2>1. QED
    BY <1>1, BranchesApart
<1>6. Abstract!Move(s, d)
  <2> HIDE DEF s, d
  <2>1. QED
    BY <1>1, <1>4, <1>5, AbstractTests DEF Abstract!Move
<1>7. d \in DOMAIN g
  <2>1. d \o Root \in DOMAIN g <=> s \o Root \in DOMAIN f
    <3>1. Root \in Seq(Nat)
      BY DEF Root
    <3> HIDE DEF s, d, f, g
    <3>2. QED
      BY <1>1, <3>1 DEF Taking
  <2>2. d \o Root = d /\ s \o Root = s
    BY <1>1 DEF Root
  <2>3. QED
    BY <1>1, <2>1, <2>2
<1>8. s \in Abstract!Names \ {Abstract!Root} /\ d \in Abstract!Names \ {Abstract!Root}
  <2>1. s \in DOMAIN Listed /\ d \in DOMAIN Listed'
    BY <1>1, <1>7
  <2> HIDE DEF s, d
  <2>2. QED
    BY <1>1, <2>1, AbstractNames
<1> HIDE DEF s, d
<1>9. QED
  BY <1>6, <1>8 DEF Abstract!Next

\* A committed COPY is the abstract one, with Depth: 0 that of a collection without what is in it.
LEMMA CopyIsCopy ==
    ASSUME IInv, IInv', Types, Safe, Told, IsTree(Listed), AllReady, NEW r \in Req, Commit(r),
           Op(r).kind \in {"COPY", "COPY0"}
    PROVE  Abstract!Next
<1> DEFINE s == Source(r)
           d == Target(r)
           f == Listed
           g == Listed'
<1>1. /\ s \in Seq(Nat) /\ d \in Seq(Nat) /\ s # Root /\ d # Root /\ s \in DOMAIN f
      /\ IsDir(f, Parent(d)) /\ \A k \in Seq(Nat) : ~ (Within(s, k) /\ Within(d, k))
      /\ \A k \in Seq(Nat) : ~ Within(d, k) =>
            /\ k \in DOMAIN g <=> k \in DOMAIN f
            /\ k \in DOMAIN g => g[k] = f[k]
      /\ ~ Flat(r) => Taking(f, s, g, d)
      /\ Flat(r) => /\ \A k \in DOMAIN g : Within(d, k) => k = d
                    /\ d \in DOMAIN g /\ g[d] = Dir /\ f[s] = Dir
  BY CopyChanges
<1>2. IsFcn(g) /\ DOMAIN f \subseteq Seq(Nat) /\ DOMAIN g \subseteq Seq(Nat)
  BY ListedFcn
<1>3. ~ Abstract!Overlap(s, d)
  <2> HIDE DEF s, d
  <2>1. QED
    BY <1>1, BranchesApart
<1>4. d \in DOMAIN g
  <2>1. CASE Flat(r)
    BY <1>1, <2>1
  <2>2. CASE ~ Flat(r)
    <3>1. d \o Root \in DOMAIN g <=> s \o Root \in DOMAIN f
      <4>1. Root \in Seq(Nat) /\ Taking(f, s, g, d)
        BY <1>1, <2>2 DEF Root
      <4> HIDE DEF s, d, f, g
      <4>2. QED
        BY <4>1 DEF Taking
    <3>2. d \o Root = d /\ s \o Root = s
      BY <1>1 DEF Root
    <3>3. QED
      BY <1>1, <3>1, <3>2
  <2>3. QED
    BY <2>1, <2>2
<1>5. Abstract!Copy(s, d) \/ Abstract!CopyAlone(s, d)
  <2>0. SameBeside(g, f, d)
    BY <1>1 DEF SameBeside
  <2>1. CASE ~ Flat(r)
    <3>1. Taking(f, s, g, d)
      BY <1>1, <2>1
    <3>2. g = Abstract!With(f, d, Abstract!Subtree(s))
      <4> HIDE DEF s, d, g
      <4>1. QED
        BY <1>1, <1>2, <2>0, <3>1, BranchPut
    <3> HIDE DEF s, d
    <3>3. QED
      BY <1>1, <1>3, <3>2, AbstractTests DEF Abstract!Copy
  <2>2. CASE Flat(r)
    <3>1. /\ d \in DOMAIN g /\ g[d] = f[s]
          /\ \A k \in DOMAIN g : Within(d, k) => k = d
      BY <1>1, <2>2
    <3>2. g = Abstract!With(f, d, Abstract!Leaf(f[s]))
      <4> DEFINE c == f[s]
      <4>1. g[d] = c
        BY <3>1
      <4> HIDE DEF s, d, f, g, c
      <4>2. g = Abstract!With(f, d, Abstract!Leaf(c))
        BY <1>1, <1>2, <2>0, <3>1, <4>1, OneEntry, ZenonT(60)
      <4>3. QED
        BY <4>2 DEF c
    <3> HIDE DEF s, d
    <3>3. QED
      BY <1>1, <1>3, <3>2, AbstractTests DEF Abstract!CopyAlone
  <2>3. QED
    BY <2>1, <2>2
<1>6. s \in Abstract!Names \ {Abstract!Root} /\ d \in Abstract!Names \ {Abstract!Root}
  <2>1. s \in DOMAIN Listed /\ d \in DOMAIN Listed'
    BY <1>1, <1>4
  <2> HIDE DEF s, d
  <2>2. QED
    BY <1>1, <2>1, AbstractNames
<1> HIDE DEF s, d
<1>7. QED
  BY <1>5, <1>6 DEF Abstract!Next

\* Every step that changes the logical tree is one of its operations.
LEMMA NextImplements ==
    ASSUME IInv, IInv', Types, SInv, NInv, [Next]_vars
    PROVE  [faults = {} => Abstract!Next]_Listed
<1> SUFFICES ASSUME faults = {}, Listed' # Listed PROVE Abstract!Next
  OBVIOUS
<1>1. AllThere /\ Safe
  BY DEF NInv, AllThere, SInv, SessionsKept
<1>2. rows' # rows
  BY ListedStays
<1>3. Step
  BY <1>2 DEF Next, Done, vars
<1>4. PICK r \in Req :
              \/ \E o \in Ops : Begin(r, o)
              \/ Enter(r) \/ Check(r) \/ Refuse(r) \/ Save(r) \/ Place(r) \/ Commit(r) \/ Clean(r)
              \/ Fail(r) \/ Undo(r)
  BY <1>3, NoFaultSteps, SMTT(40)
<1>5. Commit(r)
  <2>1. ASSUME NEW o \in Ops, Begin(r, o) PROVE rows' = rows
    BY <2>1 DEF Begin
  <2>2. CASE Enter(r) \/ Check(r) \/ Refuse(r) \/ Fail(r)
    BY <1>2, <2>2 DEF Enter, Check, Refuse, Fail
  <2>3. CASE Save(r) \/ Clean(r)
    BY <1>2, <2>3 DEF Save, Clean
  <2>4. ASSUME Place(r) PROVE rows' = rows
    BY <2>4, Zenon DEF Place
  <2>5. ASSUME Undo(r) PROVE rows' = rows
    BY <2>5, Zenon DEF Undo
  <2>6. QED
    BY <1>2, <1>4, <2>1, <2>2, <2>3, <2>4, <2>5, Zenon
<1>6. Op(r).kind # "PROPPATCH"
  BY <1>2, <1>5 DEF Commit, Apply, NewRows
<1>7. Op(r).kind \in Kinds
  <2>1. Requested(r)
    BY <1>5 DEF Commit, Apply, IInv, Good, Typed
  <2>2. QED
    BY <2>1, OpPaths
<1>8. QED
  BY <1>1, <1>5, <1>6, <1>7, PutIsPut, MkcolIsMkcol, DeleteIsDelete, MoveIsMove, CopyIsCopy DEF AllThere, Kinds

\* At the start the logical tree is a tree.
LEMMA InitAbstract == Init => Abstract!Init
<1> SUFFICES ASSUME Init PROVE Abstract!Init
  OBVIOUS
<1>1. DOMAIN rows = DOMAIN fs /\ \A p \in DOMAIN rows : rows[p].data = fs[p]
  BY DEF Init
<1>2. IsTree(fs)
  BY InitTypes DEF Types
<1>3. DOMAIN Listed = DOMAIN fs /\ \A p \in DOMAIN fs : Listed[p] = fs[p]
  BY <1>1 DEF Listed
<1>4. IsTree(Listed)
  BY <1>2, <1>3, SameTree
<1>5. QED
  BY <1>4, AbstractPaths DEF Abstract!Init, Abstract!IsTree, IsTree, IsDir

\* As long as nothing fails, what the requests do to the tree the database lists is what the
\* operations of FileTree do, one at a time: the statements, renames and locks of DavTree
\* implement FileTree.
THEOREM TreeImplemented == Spec => ImplementsFileTree
<1>1. IInv /\ IInv' /\ Types /\ SInv /\ NInv /\ [Next]_vars => [faults = {} => Abstract!Next]_Listed
  BY NextImplements
<1>2. Spec => []Types
  BY TypesHold
<1>3. QED
  BY Invariant, RowsStayBacked, EverythingListed, InitAbstract, <1>1, <1>2, PTL DEF Spec, ImplementsFileTree
=============================================================================
