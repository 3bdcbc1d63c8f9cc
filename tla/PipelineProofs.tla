---------------------------- MODULE PipelineProofs ----------------------------
(***************************************************************************)
(* Proofs about one video's way through the catalogue, for any selection   *)
(* of its passes, any films, ledger rows and machines.                     *)
(*                                                                         *)
(* The order of the plan lists each pass once and after what precedes it   *)
(* (TopoSortIs).  Cohorts take up the order where the one before left off  *)
(* and each counts its weights within the budget or is one pass that is    *)
(* too large (PlanIsPacking); a visit runs its cohort's passes in the same *)
(* order (PlanKeepsOrder).  A pass that the undisturbed visit does not     *)
(* skip has a reel there on which it got through (OutcomeIs), and what     *)
(* that reel offered is on this one when its turn comes (ClearAgain).      *)
(***************************************************************************)
EXTENDS Pipeline, FiniteSetTheorems, SequenceTheorems, WellFoundedInduction, TLAPS

-----------------------------------------------------------------------------
(* Numbers, sequences, recursion *)

\* A set of numbers has a least one.
LEMMA HasLeast ==
  ASSUME NEW S \in SUBSET Nat, S # {}
  PROVE  \E m \in S : \A k \in S : m <= k
<1>1. PICK m \in S : \A k \in S : <<k, m>> \notin OpToRel(<, Nat)
  BY NatLessThanWellFounded, WFMin
<1>2. \A k \in S : ~(k < m)
  BY <1>1 DEF OpToRel
<1> QED BY <1>2

\* Induction, with the set of the numbers for which a statement holds.
LEMMA Reaches ==
  ASSUME NEW S, 0 \in S, \A k \in Nat : k \in S => k + 1 \in S
  PROVE  \A n \in Nat : n \in S
<1>1. SUFFICES ASSUME NEW n \in Nat, n \notin S
               PROVE  FALSE
  OBVIOUS
<1> DEFINE out == {k \in Nat : k \notin S}
<1>2. PICK m \in out : \A k \in out : m <= k
  BY <1>1, HasLeast
<1>3. m # 0 /\ m - 1 \in Nat
  BY <1>2
<1>4. m - 1 \notin out
  BY <1>2, <1>3
<1>5. (m - 1) + 1 \in S
  BY <1>3, <1>4
<1> QED BY <1>2, <1>3, <1>5

\* Of passes, one has the least rank.
LEMMA HasLowest ==
  ASSUME NEW T \in SUBSET AllIds, T # {}, NEW rank \in [AllIds -> Nat]
  PROVE  \E x \in T : \A y \in T : rank[x] <= rank[y]
<1> DEFINE ranks == {rank[x] : x \in T}
<1>1. ranks \in SUBSET Nat /\ ranks # {}
  OBVIOUS
<1>2. PICK m \in ranks : \A k \in ranks : m <= k
  BY <1>1, HasLeast
<1> QED BY <1>2

\* The set of a sequence, in the terms the provers know.
LEMMA SeqSet ==
  ASSUME NEW S, NEW s \in Seq(S)
  PROVE  /\ ToSet(s) = {s[i] : i \in 1 .. Len(s)}
         /\ ToSet(s) \in SUBSET S
         /\ DOMAIN s = 1 .. Len(s) /\ Len(s) \in Nat
<1>1. DOMAIN s = 1 .. Len(s) /\ Len(s) \in Nat /\ \A i \in 1 .. Len(s) : s[i] \in S
  OBVIOUS
<1> QED BY <1>1 DEF ToSet

\* What appending a value makes of a sequence and of its set.
LEMMA SetOfAppended ==
  ASSUME NEW S, NEW s \in Seq(S), NEW x \in S
  PROVE  /\ Append(s, x) \in Seq(S) /\ Len(Append(s, x)) = Len(s) + 1
         /\ \A i \in 1 .. Len(s) : Append(s, x)[i] = s[i]
         /\ Append(s, x)[Len(s) + 1] = x
         /\ ToSet(Append(s, x)) = ToSet(s) \cup {x}
<1>1. /\ Append(s, x) \in Seq(S) /\ Len(Append(s, x)) = Len(s) + 1
      /\ \A i \in 1 .. Len(s) : Append(s, x)[i] = s[i]
      /\ Append(s, x)[Len(s) + 1] = x
  OBVIOUS
<1>2. ToSet(Append(s, x)) = {Append(s, x)[i] : i \in 1 .. Len(s) + 1}
  BY <1>1, SeqSet
<1>3. ToSet(s) = {s[i] : i \in 1 .. Len(s)}
  BY SeqSet
<1>4. 1 .. Len(s) + 1 = (1 .. Len(s)) \cup {Len(s) + 1}
  OBVIOUS
<1>5. \A y \in ToSet(Append(s, x)) : y \in ToSet(s) \cup {x}
  BY <1>1, <1>2, <1>3, <1>4
<1>6. \A y \in ToSet(s) \cup {x} : y \in ToSet(Append(s, x))
  BY <1>1, <1>2, <1>3, <1>4
<1> QED BY <1>1, <1>5, <1>6

-----------------------------------------------------------------------------
(* The order of the plan *)

\* Every pass has a place in the alphabet.
LEMMA PlaceOf ==
  ASSUME NEW c \in AllIds
  PROVE  Place[c] \in Nat /\ Alphabet[Place[c]] = c
<1>1. \E i \in DOMAIN Alphabet : Alphabet[i] = c
  BY CatalogueIsSound DEF ToSet
<1>2. Place[c] \in DOMAIN Alphabet /\ Alphabet[Place[c]] = c
  BY <1>1 DEF Place
<1>3. DOMAIN Alphabet \in SUBSET Nat
  BY DEF Alphabet
<1> QED BY <1>2, <1>3

\* Of two passes the tie break takes one first.
LEMMA BeforeIsOrder ==
  ASSUME NEW a \in AllIds, NEW b \in AllIds
  PROVE  /\ ~ (Before(a, b) /\ Before(b, a))
         /\ a # b => Before(a, b) \/ Before(b, a)
<1>1. Place[a] \in Nat /\ Place[b] \in Nat /\ (Place[a] = Place[b] => a = b)
  BY PlaceOf
<1>2. StageOf(a) \in Nat /\ StageOf(b) \in Nat
  BY DEF StageOf
<1> QED BY <1>1, <1>2 DEF Before

\* Of any passes, the foremost is one, and before all the others.
LEMMA ForemostIs ==
  ASSUME NEW T \in SUBSET AllIds, T # {}
  PROVE  Foremost(T) \in T /\ \A d \in T \ {Foremost(T)} : Before(Foremost(T), d)
<1> DEFINE stage == [c \in AllIds |-> StageOf(c)]
           place == [c \in AllIds |-> Place[c]]
<1>1. stage \in [AllIds -> Nat] /\ place \in [AllIds -> Nat]
  BY PlaceOf DEF StageOf
<1>2. PICK x \in T : \A y \in T : stage[x] <= stage[y]
  BY <1>1, HasLowest
<1> DEFINE first == {y \in T : stage[y] = stage[x]}
<1>3. first \in SUBSET AllIds /\ first # {}
  OBVIOUS
<1>4. PICK c \in first : \A y \in first : place[c] <= place[y]
  BY <1>1, <1>3, HasLowest
<1>5. \A d \in T \ {c} : Before(c, d)
  <2>1. TAKE d \in T \ {c}
  <2>2. stage[c] = stage[x] /\ stage[x] <= stage[d] /\ stage[c] \in Nat /\ stage[d] \in Nat
    BY <1>1, <1>2, <1>4
  <2>3. place[c] \in Nat /\ place[d] \in Nat /\ place[c] # place[d]
    BY <1>1, <1>4, <2>1, PlaceOf
  <2>4. stage[d] = stage[c] => place[c] <= place[d]
    BY <1>4, <2>2
  <2>5. stage[c] < stage[d] \/ (stage[c] = stage[d] /\ place[c] < place[d])
    BY <2>2, <2>3, <2>4
  <2> QED BY <2>5 DEF Before
<1>6. c \in T
  BY <1>4
<1> QED BY <1>5, <1>6 DEF Foremost

\* A pass that has not had its turn is ready, or something it needs is.
LEMMA SomethingIsReady ==
  ASSUME NEW ids \in SUBSET AllIds, NEW done, NEW w \in ids \ done
  PROVE  /\ Ready(ids, done) \in SUBSET AllIds
         /\ ({w} \cup Closure(w)) \cap Ready(ids, done) # {}
<1> DEFINE nested == [c \in AllIds |-> Cardinality(Closure(c))]
           open  == ({w} \cup Closure(w)) \cap (ids \ done)
<1>1. \A c \in AllIds : Cardinality(Closure(c)) \in Nat
  BY CatalogueIsSound, FS_Subset, FS_CardinalityType
<1>2. nested \in [AllIds -> Nat] /\ open \in SUBSET AllIds /\ open # {}
  BY <1>1
<1>3. PICK x \in open : \A y \in open : nested[x] <= nested[y]
  BY <1>2, HasLowest
<1>4. ASSUME NEW n \in Needs(x) \cap ids, n \notin done
      PROVE  FALSE
  <2>1. x \in AllIds /\ w \in AllIds
    BY <1>2
  <2>2. n \in Closure(w)
    BY <1>3, <1>4, <2>1, CatalogueIsSound
  <2>3. n \in open /\ n \in Closure(x)
    BY <1>4, <2>1, <2>2, CatalogueIsSound
  <2>4. Cardinality(Closure(n)) < Cardinality(Closure(x))
    BY <2>1, <2>3, CatalogueIsSound
  <2>5. nested[x] <= nested[n]
    BY <1>3, <2>3
  <2>6. nested[x] = Cardinality(Closure(x)) /\ nested[n] = Cardinality(Closure(n))
    BY <1>2, <2>1, <2>3
  <2> QED BY <1>1, <1>2, <2>1, <2>3, <2>4, <2>5, <2>6
<1>5. x \in Ready(ids, done)
  BY <1>3, <1>4 DEF Ready
<1> QED BY <1>3, <1>5 DEF Ready

\* The first n passes of a selection in the order of the plan.
Sorted(ids, s, n) ==
  /\ s \in Seq(ids) /\ Len(s) = n
  /\ Cardinality(ToSet(s)) = n
  /\ \A i, j \in 1 .. n : s[i] = s[j] => i = j
  /\ \A j \in 1 .. n : \A w \in ids : Precedes(w, s[j]) => \E i \in 1 .. j - 1 : s[i] = w

Extended(ids, s) == Append(s, Foremost(Ready(ids, ToSet(s))))

\* With a pass not yet listed one is ready, and the list with it is sorted, too.
LEMMA SortedGrows ==
  ASSUME NEW ids \in SUBSET AllIds, NEW s, NEW n \in Nat,
         Sorted(ids, s, n), n < Cardinality(ids)
  PROVE  Sorted(ids, Extended(ids, s), n + 1)
<1> DEFINE c == Foremost(Ready(ids, ToSet(s)))
<1>1. s \in Seq(ids) /\ Len(s) = n /\ Cardinality(ToSet(s)) = n
  BY DEF Sorted
<1>2. IsFiniteSet(ids) /\ IsFiniteSet(ToSet(s)) /\ ToSet(s) \in SUBSET ids
  BY <1>1, SeqSet, CatalogueIsSound, FS_Subset
<1>3. PICK w \in ids : w \notin ToSet(s)
  BY <1>1, <1>2
<1>4. Ready(ids, ToSet(s)) \in SUBSET AllIds /\ Ready(ids, ToSet(s)) # {}
  BY <1>3, SomethingIsReady
<1>5. /\ c \in Ready(ids, ToSet(s))
      /\ \A d \in Ready(ids, ToSet(s)) \ {c} : Before(c, d)
  BY <1>4, ForemostIs
<1>6. c \in ids /\ c \notin ToSet(s) /\ Needs(c) \cap ids \subseteq ToSet(s)
  BY <1>5 DEF Ready
<1>12. Extended(ids, s) = Append(s, c)
  BY DEF Extended
<1> HIDE DEF c
<1>7. /\ Append(s, c) \in Seq(ids) /\ Len(Append(s, c)) = n + 1
      /\ \A i \in 1 .. n : Append(s, c)[i] = s[i]
      /\ Append(s, c)[n + 1] = c
      /\ ToSet(Append(s, c)) = ToSet(s) \cup {c}
  BY <1>1, <1>6, SetOfAppended
<1>14. Cardinality(ToSet(s) \cup {c}) = Cardinality(ToSet(s)) + 1
  BY <1>2, <1>6, FS_AddElement
<1>8. Cardinality(ToSet(Append(s, c))) = n + 1
  BY <1>1, <1>7, <1>14
<1>9. ToSet(s) = {s[i] : i \in 1 .. n}
  BY <1>1, SeqSet
<1>10. ASSUME NEW i \in 1 .. n + 1, NEW j \in 1 .. n + 1, Append(s, c)[i] = Append(s, c)[j]
       PROVE  i = j
  <2>1. CASE i \in 1 .. n /\ j \in 1 .. n
    BY <1>7, <1>10, <2>1 DEF Sorted
  <2>2. CASE i = n + 1 /\ j \in 1 .. n
    BY <1>6, <1>7, <1>9, <1>10, <2>2
  <2>3. CASE j = n + 1 /\ i \in 1 .. n
    BY <1>6, <1>7, <1>9, <1>10, <2>3
  <2> QED BY <2>1, <2>2, <2>3
<1>11. ASSUME NEW j \in 1 .. n + 1, NEW x \in ids, Precedes(x, Append(s, c)[j])
       PROVE  \E i \in 1 .. j - 1 : Append(s, c)[i] = x
  <2>1. CASE j \in 1 .. n
    <3>1. PICK i \in 1 .. j - 1 : s[i] = x
      BY <1>7, <1>11, <2>1 DEF Sorted
    <3>2. i \in 1 .. n
      BY <2>1
    <3> QED BY <1>7, <3>1, <3>2
  <2>2. CASE j = n + 1
    <3>1. Precedes(x, c)
      BY <1>7, <1>11, <2>2
    <3>2. ASSUME x \notin ToSet(s)
          PROVE  FALSE
      <4>1. \A y \in {x} \cup Closure(x) : Before(y, c)
        BY <1>6, <3>1, <3>2 DEF Precedes
      <4>2. PICK y \in {x} \cup Closure(x) : y \in Ready(ids, ToSet(s))
        BY <3>2, SomethingIsReady
      <4>3. Before(y, c) /\ y \in AllIds /\ c \in AllIds
        BY <1>6, <4>1, <4>2 DEF Ready
      <4>4. y = c \/ Before(c, y)
        BY <1>5, <4>2
      <4> QED BY <4>3, <4>4, BeforeIsOrder
    <3>3. PICK i \in 1 .. n : s[i] = x
      BY <1>9, <3>2
    <3> QED BY <1>7, <2>2, <3>3
  <2>3. j \in 1 .. n \/ j = n + 1
    OBVIOUS
  <2> QED BY Zenon, <2>1, <2>2, <2>3
<1>13. Sorted(ids, Append(s, c), n + 1)
  BY <1>7, <1>8, <1>10, <1>11 DEF Sorted
<1> QED BY <1>12, <1>13

\* The recursion by which TopoSort builds its order.
Sorting(ids, g, m) ==
  g = [n \in 0 .. m |-> IF n = 0 THEN <<>> ELSE Extended(ids, g[n - 1])]

\* The recursion of TopoSort has a function that it describes.
LEMMA SortingExists ==
  ASSUME NEW ids, NEW m \in Nat
  PROVE  \E g : Sorting(ids, g, m)
<1> DEFINE S == {k \in Nat : \E g : Sorting(ids, g, k)}
<1>1. 0 \in S
  <2> DEFINE g == [n \in 0 .. 0 |-> <<>>]
  <2>1. Sorting(ids, g, 0)
    BY DEF Sorting
  <2> QED BY <2>1
<1>2. ASSUME NEW k \in Nat, k \in S
      PROVE  k + 1 \in S
  <2>1. PICK g : Sorting(ids, g, k)
    BY <1>2
  <2> DEFINE h == [n \in 0 .. k + 1 |-> IF n = 0 THEN <<>> ELSE Extended(ids, g[n - 1])]
  <2>2. \A n \in 0 .. k : h[n] = g[n]
    BY <2>1 DEF Sorting
  <2>3. \A n \in 0 .. k + 1 : n # 0 => n - 1 \in 0 .. k
    OBVIOUS
  <2>4. \A n \in 0 .. k + 1 : h[n] = IF n = 0 THEN <<>> ELSE Extended(ids, h[n - 1])
    BY <2>2, <2>3
  <2>5. h = [n \in 0 .. k + 1 |-> h[n]]
    OBVIOUS
  <2> HIDE DEF h
  <2>6. h = [n \in 0 .. k + 1 |-> IF n = 0 THEN <<>> ELSE Extended(ids, h[n - 1])]
    BY <2>4, <2>5
  <2>7. Sorting(ids, h, k + 1)
    BY <2>6 DEF Sorting
  <2> QED BY <2>7
<1>3. \A n \in Nat : n \in S
  BY <1>1, <1>2, Reaches
<1> QED BY <1>3

\* TopoSort is the last value of that function.
LEMMA SortingOf ==
  ASSUME NEW ids \in SUBSET AllIds
  PROVE  \E g : Sorting(ids, g, Cardinality(ids)) /\ TopoSort(ids) = g[Cardinality(ids)]
<1> DEFINE chosen == CHOOSE g : Sorting(ids, g, Cardinality(ids))
<1>1. Cardinality(ids) \in Nat
  BY CatalogueIsSound, FS_Subset, FS_CardinalityType
<1>2. Sorting(ids, chosen, Cardinality(ids))
  BY <1>1, SortingExists
<1>3. TopoSort(ids) = (CHOOSE g : Sorting(ids, g, Cardinality(ids)))[Cardinality(ids)]
  BY Zenon DEF TopoSort, Sorting, Extended
<1> QED BY <1>2, <1>3

\* TopoSort lists a selection, each pass once, and after what precedes it.
LEMMA TopoSortIs ==
  ASSUME NEW ids \in SUBSET AllIds
  PROVE  /\ Sorted(ids, TopoSort(ids), Cardinality(ids))
         /\ ToSet(TopoSort(ids)) = ids
         /\ Cardinality(ids) \in Nat
<1>1. PICK g : Sorting(ids, g, Cardinality(ids)) /\ TopoSort(ids) = g[Cardinality(ids)]
  BY SortingOf
<1>2. Cardinality(ids) \in Nat /\ IsFiniteSet(ids)
  BY CatalogueIsSound, FS_Subset, FS_CardinalityType
<1> DEFINE S == {n \in Nat : n <= Cardinality(ids) => Sorted(ids, g[n], n)}
<1>3. 0 \in S
  <2>1. g[0] = <<>>
    BY <1>1, <1>2 DEF Sorting
  <2>2. <<>> \in Seq(ids) /\ Len(<<>>) = 0
    OBVIOUS
  <2>3. ToSet(<<>>) = {} /\ Cardinality({}) = 0
    BY FS_EmptySet DEF ToSet
  <2>4. \A i \in 1 .. 0 : FALSE
    OBVIOUS
  <2>5. /\ \A i, j \in 1 .. 0 : <<>>[i] = <<>>[j] => i = j
        /\ \A j \in 1 .. 0 : \A w \in ids :
             Precedes(w, <<>>[j]) => \E i \in 1 .. j - 1 : <<>>[i] = w
    BY <2>4, Zenon
  <2>6. Sorted(ids, <<>>, 0)
    BY <2>2, <2>3, <2>5, Zenon DEF Sorted
  <2> QED BY <2>1, <2>6
<1>4. ASSUME NEW n \in Nat, n \in S
      PROVE  n + 1 \in S
  <2>1. SUFFICES ASSUME n + 1 <= Cardinality(ids)
                 PROVE  Sorted(ids, g[n + 1], n + 1)
    OBVIOUS
  <2>2. n + 1 \in 0 .. Cardinality(ids) /\ n + 1 # 0 /\ (n + 1) - 1 = n
    BY <1>2, <2>1
  <2>3. g[n + 1] = Extended(ids, g[n])
    BY <1>1, <2>2 DEF Sorting
  <2>4. Sorted(ids, g[n], n)
    BY <1>2, <1>4, <2>1
  <2>5. n < Cardinality(ids)
    BY <1>2, <2>1
  <2> QED BY <2>3, <2>4, <2>5, SortedGrows
<1>5. \A n \in Nat : n \in S
  BY <1>3, <1>4, Reaches
<1>6. Sorted(ids, TopoSort(ids), Cardinality(ids))
  BY <1>1, <1>2, <1>5
<1>7. ToSet(TopoSort(ids)) \in SUBSET ids
  BY <1>6, SeqSet DEF Sorted
<1>8. ToSet(TopoSort(ids)) = ids
  BY <1>2, <1>6, <1>7, FS_Subset DEF Sorted
<1> QED BY <1>2, <1>6, <1>8

-----------------------------------------------------------------------------
(* What a set of weights takes *)

\* There are finitely many weights.
LEMMA KeysAreFinite == IsFiniteSet(Keys)
<1> DEFINE f == [c \in AllIds |-> Catalogue[c].key]
<1>1. f \in Surjection(AllIds, Keys)
  BY DEF Keys, Surjection
<1> QED BY <1>1, CatalogueIsSound, FS_Surjection

\* What a pass declares for its weights is their size.
LEMMA SizeOf ==
  /\ \A k \in Keys : Size(k) \in Nat
  /\ \A c \in AllIds : Catalogue[c].key \in Keys /\ Size(Catalogue[c].key) = Catalogue[c].vram
<1>1. ASSUME NEW c \in AllIds
      PROVE  /\ Catalogue[c].key \in Keys /\ Catalogue[c].vram \in Nat
             /\ Size(Catalogue[c].key) = Catalogue[c].vram
  <2> DEFINE d == CHOOSE d \in AllIds : Catalogue[d].key = Catalogue[c].key
  <2>1. d \in AllIds /\ Catalogue[d].key = Catalogue[c].key
    OBVIOUS
  <2>2. Catalogue[d].vram = Catalogue[c].vram
    BY <2>1, CatalogueIsSound
  <2>3. Size(Catalogue[c].key) = Catalogue[d].vram
    BY DEF Size
  <2> QED BY <2>2, <2>3, CatalogueIsSound DEF Keys
<1>2. ASSUME NEW k \in Keys
      PROVE  Size(k) \in Nat
  <2>1. PICK c \in AllIds : k = Catalogue[c].key
    BY DEF Keys
  <2> QED BY <2>1, <1>1
<1> QED BY <1>1, <1>2

Some(keys) == CHOOSE k \in keys : TRUE

\* The recursion by which SumOf adds, on the sets of a domain.
Totals(g, D) ==
  g = [some \in D |-> IF some = {} THEN 0 ELSE Size(Some(some)) + g[some \ {Some(some)}]]

Small(n) == {t \in SUBSET Keys : Cardinality(t) <= n}

\* A finite set without one of its members has fewer.
LEMMA SmallerWithout ==
  ASSUME NEW t \in SUBSET Keys, NEW x \in t
  PROVE  /\ t \ {x} \in SUBSET Keys
         /\ IsFiniteSet(t) /\ Cardinality(t) \in Nat /\ Cardinality(t \ {x}) \in Nat
         /\ Cardinality(t \ {x}) = Cardinality(t) - 1
<1>1. IsFiniteSet(t)
  BY KeysAreFinite, FS_Subset
<1> QED BY <1>1, FS_RemoveElement, FS_CardinalityType

\* The recursion of SumOf has a function that it describes.
LEMMA TotalsExist == \E g : Totals(g, SUBSET Keys)
<1> DEFINE S == {n \in Nat : \E g : Totals(g, Small(n))}
<1>1. 0 \in S
  <2> DEFINE g == [t \in Small(0) |-> 0]
  <2>1. \A t \in Small(0) : t = {}
    BY KeysAreFinite, FS_Subset, FS_EmptySet, FS_CardinalityType DEF Small
  <2>2. Totals(g, Small(0))
    BY <2>1 DEF Totals
  <2> QED BY <2>2
<1>2. ASSUME NEW n \in Nat, n \in S
      PROVE  n + 1 \in S
  <2>1. PICK g : Totals(g, Small(n))
    BY <1>2
  <2> DEFINE h == [t \in Small(n + 1) |-> IF t = {} THEN 0
                                          ELSE Size(Some(t)) + g[t \ {Some(t)}]]
  <2>2. \A t \in Small(n + 1) : t # {} => Some(t) \in t /\ t \ {Some(t)} \in Small(n)
    <3>1. SUFFICES ASSUME NEW t \in Small(n + 1), t # {}
                   PROVE  Some(t) \in t /\ t \ {Some(t)} \in Small(n)
      OBVIOUS
    <3>2. Some(t) \in t /\ t \in SUBSET Keys /\ Cardinality(t) <= n + 1
      BY <3>1 DEF Small, Some
    <3>3. /\ t \ {Some(t)} \in SUBSET Keys /\ Cardinality(t) \in Nat
          /\ Cardinality(t \ {Some(t)}) = Cardinality(t) - 1
      BY <3>2, SmallerWithout
    <3> QED BY <3>2, <3>3 DEF Small
  <2>3. \A t \in Small(n) : Cardinality(t) \in Nat
    BY KeysAreFinite, FS_Subset, FS_CardinalityType DEF Small
  <2>4. \A t \in Small(n) : t \in Small(n + 1)
    BY <2>3 DEF Small
  <2>5. \A t \in Small(n) : h[t] = g[t]
    BY <2>1, <2>4 DEF Totals
  <2>6. \A t \in Small(n + 1) : h[t] = IF t = {} THEN 0 ELSE Size(Some(t)) + h[t \ {Some(t)}]
    BY <2>2, <2>5
  <2>7. h = [t \in Small(n + 1) |-> h[t]]
    OBVIOUS
  <2> HIDE DEF h
  <2>8. h = [t \in Small(n + 1) |-> IF t = {} THEN 0 ELSE Size(Some(t)) + h[t \ {Some(t)}]]
    BY <2>6, <2>7
  <2>9. Totals(h, Small(n + 1))
    BY <2>8 DEF Totals
  <2> QED BY <2>9
<1>3. \A n \in Nat : n \in S
  BY <1>1, <1>2, Reaches
<1>4. Cardinality(Keys) \in Nat
  BY KeysAreFinite, FS_CardinalityType
<1>5. Small(Cardinality(Keys)) = SUBSET Keys
  BY KeysAreFinite, FS_Subset DEF Small
<1> QED BY <1>3, <1>4, <1>5

\* SumOf, one step of it unfolded.
LEMMA SumUnfolds ==
  /\ SumOf({}) = 0
  /\ \A t \in SUBSET Keys : t # {} => SumOf(t) = Size(Some(t)) + SumOf(t \ {Some(t)})
<1> DEFINE g == CHOOSE g : Totals(g, SUBSET Keys)
<1>1. Totals(g, SUBSET Keys)
  BY TotalsExist
<1>2. ASSUME NEW t
      PROVE  SumOf(t) = g[t]
  <2>1. SumOf(t) = (CHOOSE f : Totals(f, SUBSET Keys))[t]
    BY Zenon DEF SumOf, Totals, Some
  <2> QED BY <2>1
<1> HIDE DEF g
<1>3. \A t \in SUBSET Keys : g[t] = IF t = {} THEN 0 ELSE Size(Some(t)) + g[t \ {Some(t)}]
  BY <1>1 DEF Totals
<1> QED BY <1>2, <1>3

\* A sum of sizes is a number.
LEMMA SumIsNat ==
  ASSUME NEW t \in SUBSET Keys
  PROVE  SumOf(t) \in Nat
<1> DEFINE S == {n \in Nat : \A u \in SUBSET Keys : Cardinality(u) = n => SumOf(u) \in Nat}
<1>1. 0 \in S
  BY KeysAreFinite, FS_Subset, FS_EmptySet, SumUnfolds
<1>2. ASSUME NEW n \in Nat, n \in S
      PROVE  n + 1 \in S
  <2>1. SUFFICES ASSUME NEW u \in SUBSET Keys, Cardinality(u) = n + 1
                 PROVE  SumOf(u) \in Nat
    OBVIOUS
  <2>2. u # {}
    BY <2>1, FS_EmptySet
  <2>3. Some(u) \in u
    BY <2>2 DEF Some
  <2>4. Cardinality(u \ {Some(u)}) = n /\ u \ {Some(u)} \in SUBSET Keys
    BY <2>1, <2>3, SmallerWithout
  <2>5. SumOf(u \ {Some(u)}) \in Nat /\ Size(Some(u)) \in Nat
    BY <1>2, <2>3, <2>4, SizeOf
  <2> QED BY <2>2, <2>5, SumUnfolds
<1>3. \A n \in Nat : n \in S
  BY <1>1, <1>2, Reaches
<1>4. Cardinality(t) \in Nat
  BY KeysAreFinite, FS_Subset, FS_CardinalityType
<1> QED BY <1>3, <1>4

\* It does not matter with which weights the sum begins.
LEMMA SumWithout ==
  ASSUME NEW t \in SUBSET Keys, NEW x \in t
  PROVE  SumOf(t) = Size(x) + SumOf(t \ {x})
<1> DEFINE S == {n \in Nat : \A u \in SUBSET Keys : Cardinality(u) = n =>
                               \A y \in u : SumOf(u) = Size(y) + SumOf(u \ {y})}
<1>1. 0 \in S
  BY KeysAreFinite, FS_Subset, FS_EmptySet
<1>2. ASSUME NEW n \in Nat, n \in S
      PROVE  n + 1 \in S
  <2>1. SUFFICES ASSUME NEW u \in SUBSET Keys, Cardinality(u) = n + 1, NEW y \in u
                 PROVE  SumOf(u) = Size(y) + SumOf(u \ {y})
    OBVIOUS
  <2> DEFINE p == Some(u)
  <2>2. p \in u
    BY DEF Some
  <2>3. SumOf(u) = Size(p) + SumOf(u \ {p})
    BY SumUnfolds
  <2>4. CASE y = p
    BY <2>3, <2>4
  <2>5. CASE y # p
    <3> HIDE DEF p
    <3>1. /\ u \ {p} \in SUBSET Keys /\ Cardinality(u \ {p}) = n
          /\ u \ {y} \in SUBSET Keys /\ Cardinality(u \ {y}) = n
      BY <2>1, <2>2, SmallerWithout
    <3>2. y \in u \ {p} /\ p \in u \ {y}
      BY <2>1, <2>2, <2>5
    <3>3. SumOf(u \ {p}) = Size(y) + SumOf((u \ {p}) \ {y})
      BY <1>2, <3>1, <3>2
    <3>4. SumOf(u \ {y}) = Size(p) + SumOf((u \ {y}) \ {p})
      BY <1>2, <3>1, <3>2
    <3>5. (u \ {p}) \ {y} = (u \ {y}) \ {p} /\ (u \ {y}) \ {p} \in SUBSET Keys
      OBVIOUS
    <3>6. Size(p) \in Nat /\ Size(y) \in Nat /\ SumOf((u \ {y}) \ {p}) \in Nat
      BY <2>1, <2>2, <3>5, SizeOf, SumIsNat
    <3> QED BY <2>3, <3>3, <3>4, <3>5, <3>6
  <2> QED BY <2>4, <2>5
<1>3. \A n \in Nat : n \in S
  BY <1>1, <1>2, Reaches
<1>4. Cardinality(t) \in Nat
  BY KeysAreFinite, FS_Subset, FS_CardinalityType
<1> QED BY <1>3, <1>4

\* One more weight adds its size.
LEMMA SumWith ==
  ASSUME NEW t \in SUBSET Keys, NEW x \in Keys, x \notin t
  PROVE  SumOf(t \cup {x}) = SumOf(t) + Size(x)
<1>1. t \cup {x} \in SUBSET Keys /\ x \in t \cup {x} /\ (t \cup {x}) \ {x} = t
  OBVIOUS
<1>2. SumOf(t \cup {x}) = Size(x) + SumOf((t \cup {x}) \ {x})
  BY <1>1, SumWithout
<1> QED BY <1>1, <1>2, SizeOf, SumIsNat

\* A part of the weights takes no more than all of them.
LEMMA SumOfPart ==
  ASSUME NEW t \in SUBSET Keys, NEW u \in SUBSET t
  PROVE  SumOf(u) <= SumOf(t)
<1> DEFINE S == {n \in Nat : \A v \in SUBSET Keys : Cardinality(v) = n =>
                               \A w \in SUBSET v : SumOf(w) <= SumOf(v)}
<1>1. 0 \in S
  <2>1. SUFFICES ASSUME NEW v \in SUBSET Keys, Cardinality(v) = 0, NEW w \in SUBSET v
                 PROVE  SumOf(w) <= SumOf(v)
    OBVIOUS
  <2>2. v = {}
    BY <2>1, KeysAreFinite, FS_Subset, FS_EmptySet
  <2>3. w = v
    BY <2>2
  <2> QED BY <2>3, SumIsNat
<1>2. ASSUME NEW n \in Nat, n \in S
      PROVE  n + 1 \in S
  <2>1. SUFFICES ASSUME NEW v \in SUBSET Keys, Cardinality(v) = n + 1, NEW w \in SUBSET v
                 PROVE  SumOf(w) <= SumOf(v)
    OBVIOUS
  <2>2. CASE w = v
    BY <2>2, SumIsNat
  <2>3. CASE w # v
    <3>1. PICK x \in v : x \notin w
      BY <2>3
    <3>2. v \ {x} \in SUBSET Keys /\ Cardinality(v \ {x}) = n /\ w \in SUBSET (v \ {x})
      BY <2>1, <3>1, SmallerWithout
    <3>3. SumOf(w) <= SumOf(v \ {x})
      BY <1>2, <3>2
    <3>4. SumOf(v) = Size(x) + SumOf(v \ {x})
      BY <3>1, SumWithout
    <3>5. Size(x) \in Nat /\ SumOf(v \ {x}) \in Nat /\ SumOf(w) \in Nat
      BY <3>1, <3>2, SizeOf, SumIsNat
    <3> QED BY <3>3, <3>4, <3>5
  <2> QED BY <2>2, <2>3
<1>3. \A n \in Nat : n \in S
  BY <1>1, <1>2, Reaches
<1>4. Cardinality(t) \in Nat
  BY KeysAreFinite, FS_Subset, FS_CardinalityType
<1> QED BY <1>3, <1>4

-----------------------------------------------------------------------------
(* The packing *)

Cohorts == [passes: Seq(Selected), keys: SUBSET Keys, vram: Nat]

Counted(co) ==
  /\ co \in Cohorts
  /\ \A c \in ToSet(co.passes) : Catalogue[c].gpu => Catalogue[c].key \in co.keys
  /\ co.vram = SumOf(co.keys)

\* The passes of a cohort and the weights counted for it, against a machine.
Fits(co, machine) ==
  /\ Counted(co)
  /\ \/ co.vram <= Budget(machine)
     \/ \E c \in Selected : /\ co.keys = {Catalogue[c].key}
                            /\ Catalogue[c].vram <= machine.usable * Catalogue[c].cards

Took(n) == {Order[i] : i \in 1 .. n}
Given(seq, k) == UNION {ToSet(seq[i].passes) : i \in 1 .. k}

\* Each cohort takes up the order where the one before it left off.
Packing(seq, n, machine) ==
  /\ seq \in Seq(Cohorts)
  /\ \A i \in 1 .. Len(seq) : Fits(seq[i], machine)
  /\ \A k \in 1 .. Len(seq) : \E m \in 0 .. n : Given(seq, k) = Took(m)

\* While n passes of the order are packed.
Halfway(state, n, machine) ==
  /\ state = [all |-> state.all, cur |-> state.cur]
  /\ Packing(state.all, n, machine) /\ Fits(state.cur, machine)
  /\ Given(state.all, Len(state.all)) \cup ToSet(state.cur.passes) = Took(n)

\* The order of the selection has each of its passes once.
LEMMA OrderIs ==
  /\ Sorted(Selected, Order, Cardinality(Selected))
  /\ Order \in Seq(Selected) /\ ToSet(Order) = Selected
  /\ Len(Order) = Cardinality(Selected) /\ Len(Order) \in Nat
  /\ \A i \in 1 .. Len(Order) : Order[i] \in Selected
  /\ Took(Len(Order)) = Selected
  /\ Selected \in SUBSET AllIds
<1>1. Selected \in SUBSET AllIds
  BY PipelineAssumption
<1>2. /\ Sorted(Selected, Order, Cardinality(Selected))
      /\ ToSet(Order) = Selected /\ Cardinality(Selected) \in Nat
  BY <1>1, TopoSortIs DEF Order
<1>3. Order \in Seq(Selected) /\ Len(Order) = Cardinality(Selected)
  BY <1>2 DEF Sorted
<1>4. ToSet(Order) = Took(Len(Order))
  BY <1>3, SeqSet DEF Took
<1>5. \A i \in 1 .. Len(Order) : Order[i] \in Selected
  BY <1>3
<1>6. Len(Order) \in Nat
  BY <1>2, <1>3
<1> QED BY Zenon, <1>1, <1>2, <1>3, <1>4, <1>5, <1>6

\* The budget is a number.
LEMMA BudgetIs ==
  ASSUME NEW machine \in Cards
  PROVE  Budget(machine) \in Nat
BY PipelineAssumption DEF Budget, Headroom

\* The cohort without passes fits.
LEMMA NoCohortFits ==
  ASSUME NEW machine \in Cards
  PROVE  Fits(NoCohort, machine) /\ ToSet(NoCohort.passes) = {}
<1>1. NoCohort \in Cohorts /\ NoCohort.passes = <<>> /\ NoCohort.keys = {} /\ NoCohort.vram = 0
  BY DEF NoCohort, Cohort, Cohorts
<1>2. ToSet(<<>>) = {}
  BY DEF ToSet
<1> QED BY <1>1, <1>2, SumUnfolds, BudgetIs DEF Fits, Counted

\* A pass that joins a cohort has its weights counted there.
LEMMA JoinedIsCounted ==
  ASSUME NEW co, Counted(co), NEW c \in Selected
  PROVE  /\ Counted(Joined(co, c))
         /\ ToSet(Joined(co, c).passes) = ToSet(co.passes) \cup {c}
         /\ Joined(co, c).vram = co.vram + Cost(co, c)
         /\ Joined(co, c).keys = IF Catalogue[c].gpu THEN co.keys \cup {Catalogue[c].key} ELSE co.keys
         /\ Cost(co, c) \in Nat /\ co.vram \in Nat
         /\ ~Catalogue[c].gpu => Cost(co, c) = 0
<1>1. /\ co \in Cohorts /\ co.vram = SumOf(co.keys)
      /\ co.passes \in Seq(Selected) /\ co.keys \in SUBSET Keys /\ co.vram \in Nat
      /\ \A d \in ToSet(co.passes) : Catalogue[d].gpu => Catalogue[d].key \in co.keys
  BY DEF Counted, Cohorts
<1>2. c \in AllIds
  BY PipelineAssumption
<1>3. /\ Catalogue[c].vram \in Nat /\ Catalogue[c].gpu \in BOOLEAN
      /\ ~Catalogue[c].gpu => Catalogue[c].vram = 0
  BY <1>2, CatalogueIsSound
<1>4. Catalogue[c].key \in Keys /\ Size(Catalogue[c].key) = Catalogue[c].vram
  BY <1>2, SizeOf
<1> DEFINE keys == IF Catalogue[c].gpu THEN co.keys \cup {Catalogue[c].key} ELSE co.keys
<1>5. Cost(co, c) \in Nat /\ (~Catalogue[c].gpu => Cost(co, c) = 0)
  BY <1>3 DEF Cost
<1>6. keys \in SUBSET Keys
  BY <1>1, <1>4
<1>7. SumOf(keys) = SumOf(co.keys) + Cost(co, c)
  <2>1. CASE Catalogue[c].gpu /\ Catalogue[c].key \notin co.keys
    <3>1. SumOf(co.keys \cup {Catalogue[c].key}) = SumOf(co.keys) + Size(Catalogue[c].key)
      BY <1>1, <1>4, <2>1, SumWith
    <3> QED BY <1>4, <2>1, <3>1 DEF Cost
  <2>2. CASE Catalogue[c].gpu /\ Catalogue[c].key \in co.keys
    <3>1. keys = co.keys /\ Cost(co, c) = 0
      BY <2>2 DEF Cost
    <3> QED BY <1>1, <3>1
  <2>3. CASE ~Catalogue[c].gpu
    BY <1>1, <1>5, <2>3
  <2> QED BY <2>1, <2>2, <2>3
<1>8. Joined(co, c) = [passes |-> Append(co.passes, c), keys |-> keys, vram |-> co.vram + Cost(co, c)]
  BY DEF Joined, Cohort
<1>9. Append(co.passes, c) \in Seq(Selected) /\ ToSet(Append(co.passes, c)) = ToSet(co.passes) \cup {c}
  BY <1>1, SetOfAppended
<1>10. Joined(co, c) \in Cohorts
  BY <1>1, <1>5, <1>6, <1>8, <1>9 DEF Cohorts
<1>11. \A d \in ToSet(co.passes) \cup {c} : Catalogue[d].gpu => Catalogue[d].key \in keys
  BY <1>1
<1>12. Counted(Joined(co, c))
  <2> HIDE DEF keys
  <2> QED BY <1>1, <1>7, <1>8, <1>9, <1>10, <1>11 DEF Counted
<1> QED BY <1>1, <1>5, <1>8, <1>9, <1>12

\* A pass that has a cohort to itself fits.
LEMMA AloneFits ==
  ASSUME NEW machine \in Cards, NEW c \in Selected
  PROVE  /\ Fits(Joined(NoCohort, c), machine)
         /\ ToSet(Joined(NoCohort, c).passes) = {c}
<1>1. c \in AllIds
  BY PipelineAssumption
<1>2. Counted(NoCohort) /\ ToSet(NoCohort.passes) = {}
  BY NoCohortFits DEF Fits
<1>3. NoCohort.keys = {} /\ NoCohort.vram = 0
  BY DEF NoCohort, Cohort
<1>4. /\ Counted(Joined(NoCohort, c)) /\ ToSet(Joined(NoCohort, c).passes) = {c}
      /\ Joined(NoCohort, c).vram = Cost(NoCohort, c) /\ Cost(NoCohort, c) \in Nat
      /\ Catalogue[c].gpu => Joined(NoCohort, c).keys = {Catalogue[c].key}
      /\ ~Catalogue[c].gpu => Cost(NoCohort, c) = 0
  <2>1. /\ Counted(Joined(NoCohort, c))
        /\ ToSet(Joined(NoCohort, c).passes) = ToSet(NoCohort.passes) \cup {c}
        /\ Joined(NoCohort, c).vram = NoCohort.vram + Cost(NoCohort, c)
        /\ Joined(NoCohort, c).keys = IF Catalogue[c].gpu THEN NoCohort.keys \cup {Catalogue[c].key}
                                                         ELSE NoCohort.keys
        /\ Cost(NoCohort, c) \in Nat
        /\ ~Catalogue[c].gpu => Cost(NoCohort, c) = 0
    BY <1>2, JoinedIsCounted, Zenon
  <2>2. Joined(NoCohort, c).vram = Cost(NoCohort, c)
    BY <1>3, <2>1
  <2> QED BY <1>2, <1>3, <2>1, <2>2
<1>5. Budget(machine) \in Nat
  BY BudgetIs
<1>6. CASE ~Catalogue[c].gpu
  BY <1>4, <1>5, <1>6 DEF Fits
<1>7. CASE Catalogue[c].gpu
  <2>1. c \notin Unrunnable(Selected, machine.usable, machine.gpus)
    BY EveryCardRunsTheSelection
  <2>2. ~ (Catalogue[c].vram > machine.usable * Catalogue[c].cards)
    BY <1>7, <2>1 DEF Unrunnable
  <2>3. machine.usable \in Nat /\ Catalogue[c].cards \in Nat /\ Catalogue[c].vram \in Nat
    BY <1>1, PipelineAssumption, CatalogueIsSound
  <2>4. Catalogue[c].vram <= machine.usable * Catalogue[c].cards
    BY <2>2, <2>3
  <2> QED BY <1>4, <1>7, <2>4 DEF Fits
<1> QED BY <1>4, <1>6, <1>7

\* What is given with one cohort more, and with the same first cohorts.
LEMMA GivenWith ==
  ASSUME NEW seq \in Seq(Cohorts), NEW co \in Cohorts
  PROVE  LET longer == Append(seq, co)
         IN  /\ \A k \in 0 .. Len(seq) : Given(longer, k) = Given(seq, k)
             /\ Given(longer, Len(longer)) = Given(seq, Len(seq)) \cup ToSet(co.passes)
<1> DEFINE longer == Append(seq, co)
<1>1. /\ Len(longer) = Len(seq) + 1 /\ Len(seq) \in Nat
      /\ \A i \in 1 .. Len(seq) : longer[i] = seq[i]
      /\ longer[Len(seq) + 1] = co
  OBVIOUS
<1> HIDE DEF longer
<1>2. ASSUME NEW k \in 0 .. Len(seq)
      PROVE  Given(longer, k) = Given(seq, k)
  <2>1. \A i \in 1 .. k : longer[i] = seq[i]
    BY <1>1
  <2>2. {ToSet(longer[i].passes) : i \in 1 .. k} = {ToSet(seq[i].passes) : i \in 1 .. k}
    BY <2>1
  <2> QED BY <2>2 DEF Given
<1>3. Given(longer, Len(seq) + 1) = Given(longer, Len(seq)) \cup ToSet(co.passes)
  <2>1. 1 .. Len(seq) + 1 = (1 .. Len(seq)) \cup {Len(seq) + 1}
    BY <1>1
  <2> QED BY <1>1, <2>1 DEF Given
<1> QED BY <1>1, <1>2, <1>3 DEF longer

\* A cohort closed where the order stands is one more of the packing.
LEMMA PackingWith ==
  ASSUME NEW machine \in Cards, NEW seq, NEW n \in Nat, NEW m \in Nat, n <= m,
         Packing(seq, n, machine), NEW co, Fits(co, machine),
         Given(seq, Len(seq)) \cup ToSet(co.passes) = Took(m)
  PROVE  /\ Packing(Append(seq, co), m, machine)
         /\ Given(Append(seq, co), Len(Append(seq, co))) = Took(m)
<1> DEFINE longer == Append(seq, co)
<1>1. seq \in Seq(Cohorts) /\ co \in Cohorts
  BY DEF Packing, Fits, Counted
<1>2. /\ longer \in Seq(Cohorts) /\ Len(longer) = Len(seq) + 1 /\ Len(seq) \in Nat
      /\ \A i \in 1 .. Len(seq) : longer[i] = seq[i]
      /\ longer[Len(seq) + 1] = co
  BY <1>1
<1>3. /\ \A k \in 0 .. Len(seq) : Given(longer, k) = Given(seq, k)
      /\ Given(longer, Len(longer)) = Took(m)
  BY <1>1, GivenWith
<1> HIDE DEF longer
<1>4. \A i \in 1 .. Len(longer) : i \in 1 .. Len(seq) \/ i = Len(seq) + 1
  BY <1>2
<1>5. \A i \in 1 .. Len(longer) : Fits(longer[i], machine)
  BY <1>2, <1>4 DEF Packing
<1>6. ASSUME NEW k \in 1 .. Len(longer)
      PROVE  \E j \in 0 .. m : Given(longer, k) = Took(j)
  <2>1. CASE k \in 1 .. Len(seq)
    <3>1. PICK j \in 0 .. n : Given(seq, k) = Took(j)
      BY <2>1 DEF Packing
    <3>2. j \in 0 .. m /\ k \in 0 .. Len(seq)
      BY <2>1
    <3> QED BY <1>3, <3>1, <3>2
  <2>2. CASE k = Len(seq) + 1
    <3>1. m \in 0 .. m /\ k = Len(longer)
      BY <1>2, <2>2
    <3> QED BY <1>3, <3>1
  <2> QED BY <1>4, <2>1, <2>2
<1>7. Packing(longer, m, machine) /\ Given(longer, Len(longer)) = Took(m)
  BY <1>2, <1>3, <1>5, <1>6 DEF Packing
<1> QED BY <1>7 DEF longer

\* A packing of the passes so far is one of more passes.
LEMMA PackingLater ==
  ASSUME NEW machine \in Cards, NEW seq, NEW n \in Nat, NEW m \in Nat, n <= m,
         Packing(seq, n, machine)
  PROVE  Packing(seq, m, machine)
<1>1. \A j \in 0 .. n : j \in 0 .. m
  OBVIOUS
<1> QED BY <1>1 DEF Packing

\* Closing the cohort in hand ends a packing.
LEMMA ClosedIsPacking ==
  ASSUME NEW machine \in Cards, NEW state, NEW n \in Nat, Halfway(state, n, machine)
  PROVE  /\ Packing(Closed(state), n, machine)
         /\ Given(Closed(state), Len(Closed(state))) = Took(n)
<1>1. /\ Packing(state.all, n, machine) /\ Fits(state.cur, machine)
      /\ Given(state.all, Len(state.all)) \cup ToSet(state.cur.passes) = Took(n)
  BY DEF Halfway
<1>2. CASE state.cur.passes = <<>>
  <2>1. ToSet(state.cur.passes) = {}
    BY <1>2 DEF ToSet
  <2>2. Closed(state) = state.all
    BY <1>2 DEF Closed
  <2> QED BY <1>1, <2>1, <2>2
<1>3. CASE state.cur.passes # <<>>
  <2>1. Closed(state) = Append(state.all, state.cur)
    BY <1>3 DEF Closed
  <2> QED BY <1>1, <2>1, PackingWith
<1> QED BY <1>2, <1>3

\* A packing and a cohort that fits make up a plan halfway.
LEMMA HalfwayOf ==
  ASSUME NEW machine \in Cards, NEW all, NEW cur, NEW n \in Nat,
         Packing(all, n, machine), Fits(cur, machine),
         Given(all, Len(all)) \cup ToSet(cur.passes) = Took(n)
  PROVE  Halfway([all |-> all, cur |-> cur], n, machine)
BY DEF Halfway

\* One pass more is packed.
LEMMA PackedKeeps ==
  ASSUME NEW machine \in Cards, NEW state, NEW n \in Nat, n < Len(Order),
         Halfway(state, n, machine)
  PROVE  Halfway(Packed(state, Order[n + 1], Budget(machine), machine.gpus), n + 1, machine)
<1> DEFINE c == Order[n + 1]
           next == Packed(state, c, Budget(machine), machine.gpus)
<1>1. c \in Selected /\ c \in AllIds
  BY OrderIs
<1>2. Took(n + 1) = Took(n) \cup {c}
  <2>1. 1 .. n + 1 = (1 .. n) \cup {n + 1}
    OBVIOUS
  <2> QED BY <2>1 DEF Took
<1>3. ~ (Catalogue[c].gpu /\ Catalogue[c].cards > machine.gpus)
  <2>1. c \notin Unrunnable(Selected, machine.usable, machine.gpus)
    BY EveryCardRunsTheSelection
  <2>2. machine.gpus \in Nat /\ Catalogue[c].cards \in Nat
    BY <1>1, PipelineAssumption, CatalogueIsSound
  <2> QED BY <1>1, <2>1, <2>2 DEF Unrunnable
<1>4. /\ Packing(state.all, n, machine) /\ Fits(state.cur, machine)
      /\ Given(state.all, Len(state.all)) \cup ToSet(state.cur.passes) = Took(n)
      /\ state = [all |-> state.all, cur |-> state.cur]
  BY DEF Halfway
<1>5. /\ Packing(Closed(state), n, machine)
      /\ Given(Closed(state), Len(Closed(state))) = Took(n)
  BY ClosedIsPacking
<1>6. Fits(Joined(NoCohort, c), machine) /\ ToSet(Joined(NoCohort, c).passes) = {c}
  BY <1>1, AloneFits
<1> HIDE DEF c, next
<1>7. ASSUME Catalogue[c].cards > 1
      PROVE  Halfway(next, n + 1, machine)
  <2>1. next = [all |-> Append(Closed(state), Joined(NoCohort, c)), cur |-> NoCohort]
    BY <1>3, <1>7 DEF Packed, next
  <2> DEFINE more == Append(Closed(state), Joined(NoCohort, c))
  <2>5. n + 1 \in Nat /\ n <= n + 1
    OBVIOUS
  <2>6. Given(Closed(state), Len(Closed(state))) \cup ToSet(Joined(NoCohort, c).passes) = Took(n + 1)
    BY <1>2, <1>5, <1>6
  <2>2. /\ Packing(more, n + 1, machine)
        /\ Given(more, Len(more)) = Took(n + 1)
    BY <1>5, <1>6, <2>5, <2>6, PackingWith
  <2> HIDE DEF more
  <2>3. Fits(NoCohort, machine) /\ ToSet(NoCohort.passes) = {}
    BY NoCohortFits
  <2>4. Halfway([all |-> more, cur |-> NoCohort], n + 1, machine)
    BY <2>2, <2>3, <2>5, HalfwayOf
  <2> QED BY <2>1, <2>4, Zenon DEF more
<1>8. ASSUME ~ (Catalogue[c].cards > 1),
             Catalogue[c].gpu /\ state.cur.vram + Cost(state.cur, c) > Budget(machine)
      PROVE  Halfway(next, n + 1, machine)
  <2>1. next = [all |-> Closed(state), cur |-> Joined(NoCohort, c)]
    BY <1>3, <1>8 DEF Packed, next
  <2>2. Packing(Closed(state), n + 1, machine)
    BY <1>5, PackingLater
  <2>3. Given(Closed(state), Len(Closed(state))) \cup ToSet(Joined(NoCohort, c).passes) = Took(n + 1)
    BY <1>2, <1>5, <1>6
  <2>4. Halfway([all |-> Closed(state), cur |-> Joined(NoCohort, c)], n + 1, machine)
    BY <1>6, <2>2, <2>3, HalfwayOf
  <2> QED BY <2>1, <2>4, Zenon
<1>9. ASSUME ~ (Catalogue[c].cards > 1),
             ~ (Catalogue[c].gpu /\ state.cur.vram + Cost(state.cur, c) > Budget(machine))
      PROVE  Halfway(next, n + 1, machine)
  <2>1. next = [all |-> state.all, cur |-> Joined(state.cur, c)]
    BY <1>3, <1>4, <1>9 DEF Packed, next
  <2>2. Counted(state.cur)
    BY <1>4 DEF Fits
  <2>3. /\ Counted(Joined(state.cur, c))
        /\ ToSet(Joined(state.cur, c).passes) = ToSet(state.cur.passes) \cup {c}
        /\ Joined(state.cur, c).vram = state.cur.vram + Cost(state.cur, c)
        /\ ~Catalogue[c].gpu => Joined(state.cur, c).keys = state.cur.keys
        /\ Cost(state.cur, c) \in Nat /\ state.cur.vram \in Nat
        /\ ~Catalogue[c].gpu => Cost(state.cur, c) = 0
    BY <1>1, <2>2, JoinedIsCounted
  <2>4. Budget(machine) \in Nat
    BY BudgetIs
  <2>5. Fits(Joined(state.cur, c), machine)
    <3>1. CASE Catalogue[c].gpu
      BY <1>9, <2>3, <2>4, <3>1 DEF Fits
    <3>2. CASE ~Catalogue[c].gpu
      BY <1>4, <2>3, <2>4, <3>2 DEF Fits
    <3> QED BY <3>1, <3>2
  <2>6. Packing(state.all, n + 1, machine)
    BY <1>4, PackingLater
  <2>7. Given(state.all, Len(state.all)) \cup ToSet(Joined(state.cur, c).passes) = Took(n + 1)
    BY <1>2, <1>4, <2>3
  <2>8. Halfway([all |-> state.all, cur |-> Joined(state.cur, c)], n + 1, machine)
    BY <2>5, <2>6, <2>7, HalfwayOf
  <2> QED BY <2>1, <2>8, Zenon
<1>10. Halfway(next, n + 1, machine)
  BY <1>7, <1>8, <1>9, Zenon
<1> QED BY <1>10, Zenon DEF c, next
-----------------------------------------------------------------------------
(* The plan *)

\* The recursion by which PlanCohorts packs the order.
PackedAfter(g, n, machine) ==
  IF n = 0 THEN [all |-> <<>>, cur |-> NoCohort]
  ELSE Packed(g[n - 1], Order[n], Budget(machine), machine.gpus)
Planning(g, m, machine) == g = [n \in 0 .. m |-> PackedAfter(g, n, machine)]

\* The recursion of PlanCohorts has a function that it describes.
LEMMA PlanningExists ==
  ASSUME NEW machine, NEW m \in Nat
  PROVE  \E g : Planning(g, m, machine)
<1> DEFINE S == {k \in Nat : \E g : Planning(g, k, machine)}
<1>1. 0 \in S
  <2> DEFINE g == [n \in 0 .. 0 |-> [all |-> <<>>, cur |-> NoCohort]]
  <2>1. Planning(g, 0, machine)
    BY DEF Planning, PackedAfter
  <2> QED BY <2>1
<1>2. ASSUME NEW k \in Nat, k \in S
      PROVE  k + 1 \in S
  <2>1. PICK g : Planning(g, k, machine)
    BY <1>2
  <2> DEFINE h == [n \in 0 .. k + 1 |-> PackedAfter(g, n, machine)]
  <2>2. \A n \in 0 .. k : h[n] = g[n]
    BY <2>1 DEF Planning
  <2>3. \A n \in 0 .. k + 1 : n # 0 => n - 1 \in 0 .. k
    OBVIOUS
  <2>4. \A n \in 0 .. k + 1 : h[n] = PackedAfter(h, n, machine)
    BY <2>2, <2>3 DEF PackedAfter
  <2>5. h = [n \in 0 .. k + 1 |-> h[n]]
    OBVIOUS
  <2> HIDE DEF h
  <2>6. h = [n \in 0 .. k + 1 |-> PackedAfter(h, n, machine)]
    BY <2>4, <2>5
  <2>7. Planning(h, k + 1, machine)
    BY <2>6 DEF Planning
  <2> QED BY <2>7
<1>3. \A n \in Nat : n \in S
  BY <1>1, <1>2, Reaches
<1> QED BY <1>3

\* PlanCohorts closes the last value of that function.
LEMMA PlanningOf ==
  ASSUME NEW machine
  PROVE  \E g : /\ Planning(g, Len(Order), machine)
                /\ PlanCohorts(Order, Budget(machine), machine.gpus) = Closed(g[Len(Order)])
<1> DEFINE chosen == CHOOSE g : Planning(g, Len(Order), machine)
<1>1. Planning(chosen, Len(Order), machine)
  BY OrderIs, PlanningExists
<1>2. PlanCohorts(Order, Budget(machine), machine.gpus)
        = Closed((CHOOSE g : Planning(g, Len(Order), machine))[Len(Order)])
  BY Zenon DEF PlanCohorts, Planning, PackedAfter
<1> QED BY <1>1, <1>2

NothingPacked == [all |-> <<>>, cur |-> NoCohort]
LEMMA NothingIsHalfway ==
  ASSUME NEW machine \in Cards
  PROVE  Halfway(NothingPacked, 0, machine)
<1>1. <<>> \in Seq(Cohorts) /\ Len(<<>>) = 0 /\ 1 .. 0 = {}
  OBVIOUS
<1>2. Packing(<<>>, 0, machine) /\ Given(<<>>, Len(<<>>)) = {} /\ Took(0) = {}
  BY <1>1 DEF Packing, Given, Took
<1>3. Fits(NoCohort, machine) /\ ToSet(NoCohort.passes) = {}
  BY NoCohortFits
<1>4. Halfway([all |-> <<>>, cur |-> NoCohort], 0, machine)
  BY <1>2, <1>3, HalfwayOf
<1> QED BY <1>4 DEF NothingPacked

\* The plan gives every selected pass once its turn, in cohorts that fit the machine.
LEMMA PlanIsPacking ==
  ASSUME NEW machine \in Cards, NEW seq,
         seq = PlanCohorts(Order, Budget(machine), machine.gpus)
  PROVE  /\ Packing(seq, Len(Order), machine)
         /\ Given(seq, Len(seq)) = Selected
<1>1. PICK g : Planning(g, Len(Order), machine) /\ seq = Closed(g[Len(Order)])
  BY PlanningOf
<1>2. Len(Order) \in Nat /\ Took(Len(Order)) = Selected
  BY OrderIs
<1> DEFINE S == {n \in Nat : n <= Len(Order) => Halfway(g[n], n, machine)}
<1>3. 0 \in S
  <2>1. g[0] = NothingPacked
    BY <1>1, <1>2 DEF Planning, PackedAfter, NothingPacked
  <2> QED BY <2>1, NothingIsHalfway
<1>4. ASSUME NEW n \in Nat, n \in S
      PROVE  n + 1 \in S
  <2>1. SUFFICES ASSUME n + 1 <= Len(Order)
                 PROVE  Halfway(g[n + 1], n + 1, machine)
    OBVIOUS
  <2>2. n + 1 \in 0 .. Len(Order) /\ n + 1 # 0 /\ (n + 1) - 1 = n /\ n < Len(Order) /\ n <= Len(Order)
    BY <1>2, <2>1
  <2>3. g[n + 1] = Packed(g[n], Order[n + 1], Budget(machine), machine.gpus)
    BY <1>1, <2>2 DEF Planning, PackedAfter
  <2>4. Halfway(g[n], n, machine)
    BY <1>4, <2>2
  <2>5. Halfway(Packed(g[n], Order[n + 1], Budget(machine), machine.gpus), n + 1, machine)
    BY <2>2, <2>4, PackedKeeps
  <2> QED BY <2>3, <2>5
<1>5. Len(Order) \in S
  BY <1>2, <1>3, <1>4, Reaches
<1>6. Halfway(g[Len(Order)], Len(Order), machine)
  BY <1>2, <1>5
<1> QED BY <1>1, <1>2, <1>6, ClosedIsPacking

\* Whoever precedes a pass of a cohort is in that cohort or in an earlier one.
LEMMA PlanKeepsOrder ==
  ASSUME NEW machine \in Cards, NEW seq, Packing(seq, Len(Order), machine),
         NEW j \in 1 .. Len(seq), NEW r \in ToSet(seq[j].passes),
         NEW w \in Selected, Precedes(w, r)
  PROVE  \E i \in 1 .. j : w \in ToSet(seq[i].passes)
<1>1. PICK m \in 0 .. Len(Order) : Given(seq, j) = Took(m)
  BY DEF Packing
<1>2. Len(seq) \in Nat /\ j \in 1 .. j
  BY DEF Packing
<1>3. r \in Given(seq, j)
  BY <1>2 DEF Given
<1>4. PICK k \in 1 .. m : r = Order[k]
  BY <1>1, <1>3 DEF Took
<1>5. k \in 1 .. Len(Order) /\ Len(Order) \in Nat
  BY <1>1, <1>4, OrderIs
<1>6. PICK i \in 1 .. k - 1 : Order[i] = w
  BY <1>4, <1>5, OrderIs DEF Sorted
<1>7. w \in Took(m)
  <2>1. i \in 1 .. m
    BY <1>4, <1>6
  <2> QED BY <1>6, <2>1 DEF Took
<1>8. w \in Given(seq, j)
  BY <1>1, <1>7
<1> QED BY <1>8 DEF Given
-----------------------------------------------------------------------------
(* The inductive invariant *)

Rows  == [dur : BOOLEAN, audio : {"unknown", "yes", "no"}]
Kept  == Writers \cup {"shots"}
Files == {"proxy", "wav", "keyframes", "allframes"}
Reels == [row : Rows, seen : Rows, table : [AllIds -> {"none", "queued", "done", "skipped"}],
          store : SUBSET Kept, held : SUBSET {"proxy", "wav"}, disk : SUBSET Files]
Typed ==
  /\ film \in Films /\ born \in Births /\ card \in Cards
  /\ reel \in Reels
  /\ channel \in [at : BOOLEAN, row : Rows, store : SUBSET Kept, held : SUBSET {"proxy", "wav"}]
  /\ loaded \in SUBSET UNION {Runner[c].loads : c \in Selected}
  /\ plan \in Seq(Cohorts) /\ todo \in Seq(Selected)
  /\ unmade \in SUBSET Selected
  /\ spent \in [deaths : 0 .. MaxDeaths, evictions : 0 .. MaxEvictions, failures : 0 .. MaxFailures]

\* The cohorts still to come fit the machine, and a pass of one of them is preceded by
\* what is settled or stands no later in the plan.
Planned ==
  /\ \A i \in 1 .. Len(plan) : Fits(plan[i], card)
  /\ \A j \in 1 .. Len(plan) : \A r \in ToSet(plan[j].passes) : \A w \in Selected :
       Precedes(w, r) => \/ reel.table[w] \in Settled
                         \/ \E i \in 1 .. j : w \in ToSet(plan[i].passes)

\* What is planned has its place in the table.
Tabled ==
  /\ \A c \in AllIds \ Selected : reel.table[c] = "none"
  /\ plan # <<>> => \A c \in Selected : reel.table[c] # "none"

\* A visit runs the passes of the current cohort that are not settled, each once, in an
\* order in which none comes before one that precedes it.
Visiting ==
  todo # <<>> =>
    /\ plan # <<>>
    /\ ToSet(todo) \subseteq ToSet(plan[1].passes)
    /\ \A c \in ToSet(plan[1].passes) : reel.table[c] \in Settled \/ c \in ToSet(todo)
    /\ \A c \in ToSet(todo) : reel.table[c] # "skipped"
    /\ \A i, j \in 1 .. Len(todo) :
         i < j => ~Precedes(todo[j], todo[i]) /\ todo[j] # todo[i]

\* What is resident was counted for the current cohort, or is the borrowed tower.
Resident ==
  /\ plan = <<>> => loaded = {}
  /\ plan # <<>> => loaded \subseteq plan[1].keys \cup {Borrowed}

\* The film has sound, and no row from the ledger hides it.
Sounds(f, ledger) == ~ledger.dur /\ "audio" \in f
\* A row knows the length the ledger gave, and a measured one knows of the sound.
Knows(row, f, ledger) ==
  /\ ledger.dur => row.dur
  /\ Sounds(f, ledger) /\ row.dur => row.audio = "yes"
\* Evidence that needed the shots is kept beside the shots.
ShotsKept(store) == \A c \in store : "shots" \in Closure(c) => "shots" \in store
\* Evidence that needed the sound is kept beside the index of the sound.
SoundKept(store, held) ==
  "artifacts" \in Selected /\ Sounds(film, born) =>
    \A c \in store : "artifacts" \in Closure(c) => "wav" \in held

Remembered ==
  /\ Knows(reel.row, film, born) /\ Knows(reel.seen, film, born)
  /\ channel.at => Knows(channel.row, film, born)
  /\ ShotsKept(reel.store) /\ ShotsKept(channel.store)
  /\ SoundKept(reel.store, reel.held) /\ SoundKept(channel.store, channel.held)
  /\ "keyframes" \in reel.disk => "shots" \in reel.store
  /\ \A c \in Kept : reel.table[c] = "done" => c \in reel.store
  /\ "artifacts" \in Selected => reel.table["artifacts"] # "skipped"
  /\ "artifacts" \in Selected /\ Sounds(film, born) /\ reel.table["artifacts"] = "done"
       => "wav" \in reel.held

IInv == Typed /\ Planned /\ Tabled /\ Visiting /\ Resident /\ Remembered /\ NothingLost
-----------------------------------------------------------------------------
(* One pass over a reel *)

\* The passes that leave files behind.
LEMMA SilentIs ==
  /\ {"artifacts", "shots", "keyframes", "allframes"} \subseteq AllIds
  /\ Kept \subseteq AllIds /\ "shots" \in Kept
  /\ {"artifacts", "keyframes", "allframes"} \cap Kept = {}
  /\ Runner["artifacts"].makes = {"proxy", "wav"} /\ Runner["artifacts"].files = {}
  /\ Runner["artifacts"].facts = {} /\ Runner["artifacts"].any = {}
  /\ Runner["artifacts"].asks = {} /\ Runner["artifacts"].sees = {}
  /\ Runner["artifacts"].length = "unread"
  /\ Runner["keyframes"].makes = {"keyframes"} /\ Runner["keyframes"].facts = {"shots"}
  /\ Runner["allframes"].makes = {"allframes"}
<1>1. /\ Silent = {"probe", "artifacts", "shots", "keyframes", "allframes"}
      /\ Silent \subseteq AllIds
      /\ Runner["artifacts"] = artifacts /\ Runner["keyframes"] = keyframes
      /\ Runner["allframes"] = allframes
  BY RunnersAreSound
<1>2. /\ artifacts.makes = {"proxy", "wav"} /\ artifacts.files = {}
      /\ artifacts.facts = {} /\ artifacts.any = {} /\ artifacts.asks = {}
      /\ artifacts.sees = {} /\ artifacts.length = "unread"
  BY DEF artifacts, Pass
<1>3. keyframes.makes = {"keyframes"} /\ keyframes.facts = {"shots"}
  BY DEF keyframes, Pass
<1>4. allframes.makes = {"allframes"}
  BY DEF allframes, Pass
<1>5. Kept = (AllIds \ Silent) \cup {"shots"}
  BY DEF Kept, Writers
<1>6. /\ {"artifacts", "shots", "keyframes", "allframes"} \subseteq AllIds
      /\ Kept \subseteq AllIds /\ "shots" \in Kept
      /\ {"artifacts", "keyframes", "allframes"} \cap Kept = {}
  BY <1>1, <1>5
<1> QED BY <1>1, <1>2, <1>3, <1>4, <1>6

\* Which file each of them makes.
LEMMA BuiltIs ==
  ASSUME NEW f, NEW r, NEW c \in AllIds
  PROVE  /\ Built(f, r, c) \in SUBSET Files
         /\ c = "artifacts" => Built(f, r, c) \in SUBSET {"proxy", "wav"}
         /\ "wav" \in Built(f, r, c) <=> c = "artifacts" /\ HasAudio(f, r)
         /\ "keyframes" \in Built(f, r, c) <=> c = "keyframes"
         /\ c = "allframes" => "allframes" \in Built(f, r, c)
<1>1. CASE c = "artifacts"
  BY <1>1, SilentIs DEF Built, Files
<1>2. CASE c # "artifacts"
  <2>1. Built(f, r, c) = Runner[c].makes
    BY <1>2 DEF Built
  <2>2. Runner[c].makes \subseteq {c} \cap {"keyframes", "allframes"}
    BY <1>2, RunnersAreSound
  <2> QED BY <1>2, <2>1, <2>2, SilentIs DEF Files
<1> QED BY <1>1, <1>2

\* When the disk has lost what a pass reads.
LEMMA LostIs ==
  ASSUME NEW r, NEW c
  PROVE  /\ Lost(r, c) \in SUBSET {"artifacts", "keyframes", "allframes"}
         /\ "artifacts" \in Lost(r, c) <=> "artifacts" \in Needs(c) /\ ~(r.held \subseteq r.disk)
         /\ "keyframes" \in Lost(r, c) <=> /\ "keyframes" \in Needs(c)
                                           /\ "keyframes" \notin r.disk /\ "shots" \in r.store
         /\ "allframes" \in Lost(r, c) <=> "allframes" \in Needs(c) /\ "allframes" \notin r.disk
BY DEF Lost

\* What of a reel the files brought back for a pass leave as it was, and what they add.
Ensured(f, r, c, x, ready) ==
  /\ ready \in Reels
  /\ ready.row = r.row /\ ready.seen = r.seen /\ ready.table = r.table
  /\ ready.store = r.store /\ ready.held = r.held
  /\ r.disk \subseteq ready.disk
  /\ "keyframes" \in ready.disk => "keyframes" \in r.disk \/ "shots" \in r.store
  /\ "wav" \in ready.disk => \/ "wav" \in r.disk
                             \/ HasAudio(f, r) /\ ~(r.held \subseteq r.disk)
  /\ r.held \subseteq r.disk => r.held \subseteq ready.disk
  /\ x = {} =>
       /\ "artifacts" \in Needs(c) /\ "wav" \in r.held /\ HasAudio(f, r) => "wav" \in ready.disk
       /\ "keyframes" \in Needs(c) /\ "shots" \in r.store => "keyframes" \in ready.disk
       /\ "allframes" \in Needs(c) => "allframes" \in ready.disk

\* What bringing back the lost files does to a reel.
LEMMA Readied ==
  ASSUME NEW f, NEW r \in Reels, NEW c \in AllIds, NEW x
  PROVE  Ensured(f, r, c, x, EnsureInputs(f, r, c, x))
<1> DEFINE ready == EnsureInputs(f, r, c, x)
<1> DEFINE more == UNION {Built(f, r, n) : n \in Lost(r, c) \ x}
<1>1. ready = [r EXCEPT !.disk = r.disk \cup more]
  BY DEF EnsureInputs
<1>2. \A n \in Lost(r, c) \ x : n \in AllIds
  BY LostIs, SilentIs
<1>3. more \in SUBSET Files
  BY <1>2, BuiltIs
<1>4. "wav" \in more <=> "artifacts" \in Lost(r, c) \ x /\ HasAudio(f, r)
  BY <1>2, BuiltIs
<1>5. "keyframes" \in more <=> "keyframes" \in Lost(r, c) \ x
  BY <1>2, BuiltIs
<1>6. "allframes" \in Lost(r, c) \ x => "allframes" \in more
  BY <1>2, BuiltIs
<1> HIDE DEF more, ready
<1>7. /\ ready \in Reels
      /\ ready.row = r.row /\ ready.seen = r.seen /\ ready.table = r.table
      /\ ready.store = r.store /\ ready.held = r.held
      /\ ready.disk = r.disk \cup more
  BY <1>1, <1>3 DEF Reels
<1>8. r.disk \subseteq ready.disk /\ (r.held \subseteq r.disk => r.held \subseteq ready.disk)
  BY <1>7
<1>9. "keyframes" \in ready.disk => "keyframes" \in r.disk \/ "shots" \in r.store
  BY <1>5, <1>7, LostIs
<1>10. "wav" \in ready.disk => "wav" \in r.disk \/ (HasAudio(f, r) /\ ~(r.held \subseteq r.disk))
  BY <1>4, <1>7, LostIs
<1>11. x = {} /\ "artifacts" \in Needs(c) /\ "wav" \in r.held /\ HasAudio(f, r) => "wav" \in ready.disk
  BY <1>4, <1>7, LostIs
<1>12. x = {} /\ "keyframes" \in Needs(c) /\ "shots" \in r.store => "keyframes" \in ready.disk
  BY <1>5, <1>7, LostIs
<1>13. x = {} /\ "allframes" \in Needs(c) => "allframes" \in ready.disk
  BY <1>6, <1>7, LostIs
<1>14. Ensured(f, r, c, x, ready)
  BY <1>7, <1>8, <1>9, <1>10, <1>11, <1>12, <1>13 DEF Ensured
<1> QED BY <1>14 DEF ready

\* The same, conjunct by conjunct.
LEMMA EnsureIs ==
  ASSUME NEW f, NEW r \in Reels, NEW c \in AllIds, NEW x, NEW ready, ready = EnsureInputs(f, r, c, x)
  PROVE  /\ ready \in Reels
         /\ ready.row = r.row /\ ready.seen = r.seen /\ ready.table = r.table
         /\ ready.store = r.store /\ ready.held = r.held
         /\ r.disk \subseteq ready.disk
         /\ "keyframes" \in ready.disk => "keyframes" \in r.disk \/ "shots" \in r.store
         /\ "wav" \in ready.disk => \/ "wav" \in r.disk
                                    \/ HasAudio(f, r) /\ ~(r.held \subseteq r.disk)
         /\ r.held \subseteq r.disk => r.held \subseteq ready.disk
BY Readied DEF Ensured

\* A pass of a reel gets through.
Clear(f, r, c, x) ==
  /\ ~Stalled(r, c)
  /\ Demands(f, EnsureInputs(f, r, c, x), c) /\ Answers(f, EnsureInputs(f, r, c, x), c)

\* What a pass leaves when it does, and when it does not.
Through(f, r, c, x, out) ==
  /\ out \in Reels
  /\ out.seen = r.seen
  /\ out.row = IF c = "probe" THEN Measured(f) ELSE r.row
  /\ out.table = [r.table EXCEPT ![c] = "done"]
  /\ out.store = IF c \in Kept THEN r.store \cup {c} ELSE r.store
  /\ out.held = IF c = "artifacts" THEN r.held \cup Built(f, r, c) ELSE r.held
  /\ out.disk = EnsureInputs(f, r, c, x).disk \cup Built(f, r, c)
Stopped(f, r, c, x, out) ==
  /\ out \in Reels
  /\ out.seen = r.seen /\ out.row = r.row
  /\ out.table = [r.table EXCEPT ![c] = "skipped"]
  /\ out.store = r.store /\ out.held = r.held
  /\ out.disk = r.disk \/ out.disk = EnsureInputs(f, r, c, x).disk

\* What a pass leaves that gets through.
LEMMA ClearLeaves ==
  ASSUME NEW f, NEW r \in Reels, NEW c \in AllIds, NEW x, Clear(f, r, c, x)
  PROVE  Through(f, r, c, x, RunPass(f, r, c, x))
<1> DEFINE ready == EnsureInputs(f, r, c, x)
           out   == RunPass(f, r, c, x)
<1>1. /\ ready \in Reels /\ ready.row = r.row /\ ready.seen = r.seen /\ ready.table = r.table
      /\ ready.store = r.store /\ ready.held = r.held
  BY EnsureIs
<1>2. Built(f, ready, c) = Built(f, r, c)
  BY <1>1 DEF Built, HasAudio
<1>3. out = Emitted(f, ready, c)
  BY DEF RunPass, Ran, Clear
<1> HIDE DEF ready, out
<1>4. Built(f, r, c) \in SUBSET Files /\ (c = "artifacts" => Built(f, r, c) \in SUBSET {"proxy", "wav"})
  BY BuiltIs
<1>5. out = [row |-> IF c = "probe" THEN Measured(f) ELSE ready.row, seen |-> ready.seen,
             table |-> [ready.table EXCEPT ![c] = "done"],
             store |-> IF c \in Kept THEN ready.store \cup {c} ELSE ready.store,
             held |-> IF c = "artifacts" THEN ready.held \cup Built(f, r, c) ELSE ready.held,
             disk |-> ready.disk \cup Built(f, r, c)]
  BY <1>1, <1>2, <1>3 DEF Emitted, Reels, Kept
<1>6. Measured(f) \in Rows
  BY DEF Measured, Rows
<1>7. /\ out.row \in Rows /\ out.seen \in Rows
      /\ out.store \in SUBSET Kept /\ out.held \in SUBSET {"proxy", "wav"}
      /\ out.disk \in SUBSET Files
  BY <1>1, <1>4, <1>5, <1>6 DEF Reels
<1>8. out.table \in [AllIds -> {"none", "queued", "done", "skipped"}]
  BY <1>1, <1>5 DEF Reels
<1>9. out \in Reels
  BY <1>5, <1>7, <1>8 DEF Reels
<1>10. Through(f, r, c, x, out)
  BY <1>1, <1>5, <1>9 DEF Through, ready
<1> QED BY <1>10, Zenon DEF out

\* What a pass leaves that is skipped.
LEMMA SkipLeaves ==
  ASSUME NEW f, NEW r \in Reels, NEW c \in AllIds, NEW x, ~Clear(f, r, c, x)
  PROVE  Stopped(f, r, c, x, RunPass(f, r, c, x))
<1> DEFINE out == RunPass(f, r, c, x)
<1>1. ASSUME Stalled(r, c)
      PROVE  Stopped(f, r, c, x, out)
  <2>1. out = [r EXCEPT !.table = [r.table EXCEPT ![c] = "skipped"]]
    BY <1>1 DEF RunPass
  <2>2. [r.table EXCEPT ![c] = "skipped"] \in [AllIds -> {"none", "queued", "done", "skipped"}]
    BY DEF Reels
  <2> HIDE DEF out
  <2> QED BY <2>1, <2>2 DEF Reels, Stopped
<1>2. ASSUME ~ Stalled(r, c)
      PROVE  Stopped(f, r, c, x, out)
  <2> DEFINE ready == EnsureInputs(f, r, c, x)
  <2>1. /\ ready \in Reels /\ ready.row = r.row /\ ready.seen = r.seen /\ ready.table = r.table
        /\ ready.store = r.store /\ ready.held = r.held
    BY EnsureIs
  <2>2. out = [ready EXCEPT !.table[c] = "skipped"]
    BY <1>2 DEF RunPass, Ran, Clear
  <2> HIDE DEF ready, out
  <2>3. out = [ready EXCEPT !.table = [ready.table EXCEPT ![c] = "skipped"]]
    BY <2>2
  <2>4. [ready.table EXCEPT ![c] = "skipped"] \in [AllIds -> {"none", "queued", "done", "skipped"}]
    BY <2>1 DEF Reels
  <2>5. /\ out \in Reels /\ out.seen = r.seen /\ out.row = r.row
        /\ out.table = [r.table EXCEPT ![c] = "skipped"]
        /\ out.store = r.store /\ out.held = r.held /\ out.disk = ready.disk
    BY <2>1, <2>3, <2>4 DEF Reels
  <2> QED BY <2>5 DEF ready, Stopped
<1> QED BY <1>1, <1>2, Zenon
-----------------------------------------------------------------------------
(* The undisturbed visit *)

VisitAfter(g, n, f, row) == IF n = 0 THEN Queued(row) ELSE RunPass(f, g[n - 1], Order[n], {})
Visited(g, m, f, row) == g = [n \in 0 .. m |-> VisitAfter(g, n, f, row)]

\* The recursion of Outcome has a function that it describes.
LEMMA VisitExists ==
  ASSUME NEW f, NEW row, NEW m \in Nat
  PROVE  \E g : Visited(g, m, f, row)
<1> DEFINE S == {k \in Nat : \E g : Visited(g, k, f, row)}
<1>1. 0 \in S
  <2> DEFINE g == [n \in 0 .. 0 |-> Queued(row)]
  <2>1. Visited(g, 0, f, row)
    BY DEF Visited, VisitAfter
  <2> QED BY <2>1
<1>2. ASSUME NEW k \in Nat, k \in S
      PROVE  k + 1 \in S
  <2>1. PICK g : Visited(g, k, f, row)
    BY <1>2
  <2> DEFINE h == [n \in 0 .. k + 1 |-> VisitAfter(g, n, f, row)]
  <2>2. \A n \in 0 .. k : h[n] = g[n]
    BY <2>1 DEF Visited
  <2>3. \A n \in 0 .. k + 1 : n # 0 => n - 1 \in 0 .. k
    OBVIOUS
  <2>4. \A n \in 0 .. k + 1 : h[n] = VisitAfter(h, n, f, row)
    BY <2>2, <2>3 DEF VisitAfter
  <2>5. h = [n \in 0 .. k + 1 |-> h[n]]
    OBVIOUS
  <2> HIDE DEF h
  <2>6. h = [n \in 0 .. k + 1 |-> VisitAfter(h, n, f, row)]
    BY <2>4, <2>5
  <2>7. Visited(h, k + 1, f, row)
    BY <2>6 DEF Visited
  <2> QED BY <2>7
<1>3. \A n \in Nat : n \in S
  BY <1>1, <1>2, Reaches
<1> QED BY <1>3

\* Outcome is the table of its last value.
LEMMA VisitOf ==
  ASSUME NEW f, NEW row
  PROVE  \E g : Visited(g, Len(Order), f, row) /\ Outcome(f, row) = g[Len(Order)].table
<1> DEFINE chosen == CHOOSE g : Visited(g, Len(Order), f, row)
<1>1. Visited(chosen, Len(Order), f, row)
  BY OrderIs, VisitExists
<1>2. Outcome(f, row) = (CHOOSE g : Visited(g, Len(Order), f, row))[Len(Order)].table
  BY Zenon DEF Outcome, Visited, VisitAfter
<1> QED BY <1>1, <1>2

\* The reel of an undisturbed visit when n passes have had their turn.
Upon(r, n, f, row) ==
  /\ r \in Reels /\ r.seen = row /\ r.held \subseteq r.disk
  /\ \A c \in r.store : c \in Took(n) /\ r.table[c] = "done"
  /\ "wav" \in r.disk => Sounds(f, row) /\ "artifacts" \in Took(n)
  /\ "keyframes" \in r.disk => "shots" \in r.store

\* A row of the capture ledger has not been measured.
LEMMA BirthIs ==
  ASSUME NEW row \in Births
  PROVE  row \in Rows /\ row.audio = "unknown" /\ row.dur \in BOOLEAN
BY PipelineAssumption DEF Rows

\* The undisturbed visit begins with nothing there.
LEMMA QueuedIs ==
  ASSUME NEW f, NEW row \in Births
  PROVE  Upon(Queued(row), 0, f, row)
<1> DEFINE table == [c \in AllIds |-> IF c \in Selected THEN "queued" ELSE "none"]
<1>1. Queued(row) = [row |-> row, seen |-> row, table |-> table, store |-> {}, held |-> {}, disk |-> {}]
  BY DEF Queued, Fresh
<1>2. table \in [AllIds -> {"none", "queued", "done", "skipped"}]
  OBVIOUS
<1> HIDE DEF table
<1>3. Queued(row) \in Reels
  BY <1>1, <1>2, BirthIs DEF Reels
<1> QED BY <1>1, <1>3 DEF Upon

\* Whatever stays of the frames of the shots, the shots are known.
LEMMA FramesHaveShots ==
  ASSUME NEW f, NEW r \in Reels, NEW c \in AllIds, NEW x, NEW out, out = RunPass(f, r, c, x),
         "keyframes" \in r.disk => "shots" \in r.store
  PROVE  "keyframes" \in out.disk => "shots" \in out.store
<1> DEFINE ready == EnsureInputs(f, r, c, x)
<1>1. /\ "keyframes" \in ready.disk => "shots" \in r.store
      /\ ready.store = r.store
  BY EnsureIs
<1>2. CASE Clear(f, r, c, x)
  <2>1. /\ out.store = IF c \in Kept THEN r.store \cup {c} ELSE r.store
        /\ out.disk = EnsureInputs(f, r, c, x).disk \cup Built(f, r, c)
    <3>1. Through(f, r, c, x, out)
      BY <1>2, ClearLeaves
    <3> QED BY <3>1 DEF Through
  <2>2. CASE c = "keyframes"
    <3>1. "shots" \in Facts(f, ready)
      BY <1>2, <2>2, SilentIs DEF Clear, Demands
    <3>2. PICK d \in r.store : "shots" \in Runner[d].finds
      BY <1>1, <3>1 DEF Facts
    <3>3. d \in AllIds
      BY <3>2, SilentIs DEF Reels
    <3>4. d = "shots"
      BY <3>2, <3>3, RunnersAreSound
    <3> QED BY <2>1, <3>2, <3>4
  <2>3. CASE c # "keyframes"
    <3>1. "keyframes" \notin Built(f, r, c)
      BY <2>3, BuiltIs
    <3> QED BY <1>1, <2>1, <3>1
  <2> QED BY <2>2, <2>3
<1>3. CASE ~Clear(f, r, c, x)
  <2>1. out.store = r.store /\ (out.disk = r.disk \/ out.disk = EnsureInputs(f, r, c, x).disk)
    <3>1. Stopped(f, r, c, x, out)
      BY <1>3, SkipLeaves
    <3> QED BY <3>1 DEF Stopped
  <2> QED BY <1>1, <2>1
<1> QED BY <1>2, <1>3

\* The next pass of the order is none of those before it.
LEMMA TookWith ==
  ASSUME NEW n \in Nat, n < Len(Order)
  PROVE  /\ Took(n + 1) = Took(n) \cup {Order[n + 1]}
         /\ Order[n + 1] \notin Took(n)
         /\ Order[n + 1] \in Selected /\ Order[n + 1] \in AllIds
         /\ Took(n) \in SUBSET Selected
<1>1. 1 .. n + 1 = (1 .. n) \cup {n + 1} /\ Len(Order) \in Nat /\ n + 1 \in 1 .. Len(Order)
  BY OrderIs
<1>2. \A i \in 1 .. n : i \in 1 .. Len(Order) /\ i # n + 1
  BY <1>1
<1>3. Order[n + 1] \notin Took(n)
  BY <1>1, <1>2, OrderIs DEF Took, Sorted
<1>4. Took(n) \in SUBSET Selected
  BY <1>2, OrderIs DEF Took
<1>5. Order[n + 1] \in Selected /\ Order[n + 1] \in AllIds
  BY <1>1, OrderIs
<1>6. Took(n + 1) = Took(n) \cup {Order[n + 1]}
  BY <1>1 DEF Took
<1> QED BY <1>3, <1>4, <1>5, <1>6

\* What the undisturbed visit makes of its reel with one more pass.
LEMMA VisitKeeps ==
  ASSUME NEW f, NEW row \in Births, NEW n \in Nat, n < Len(Order),
         NEW r, Upon(r, n, f, row), NEW out, out = RunPass(f, r, Order[n + 1], {})
  PROVE  /\ Upon(out, n + 1, f, row)
         /\ \A d \in Took(n) : out.table[d] = r.table[d]
         /\ ~Clear(f, r, Order[n + 1], {}) => out.table[Order[n + 1]] = "skipped"
<1> DEFINE c == Order[n + 1]
           ready == EnsureInputs(f, r, c, {})
<1>1. /\ Took(n + 1) = Took(n) \cup {c} /\ c \notin Took(n)
      /\ c \in Selected /\ c \in AllIds
      /\ \A d \in Took(n) : d \in AllIds
  BY TookWith, OrderIs
<1>2. /\ r \in Reels /\ r.seen = row /\ r.held \subseteq r.disk
      /\ \A d \in r.store : d \in Took(n) /\ r.table[d] = "done"
      /\ "wav" \in r.disk => Sounds(f, row) /\ "artifacts" \in Took(n)
      /\ "keyframes" \in r.disk => "shots" \in r.store
  BY DEF Upon
<1>3. HasAudio(f, r) <=> Sounds(f, row)
  BY <1>2, BirthIs DEF HasAudio, Sounds
<1>4. out = RunPass(f, r, c, {})
  OBVIOUS
<1> HIDE DEF c
<1>5. /\ ready.store = r.store /\ ready.held = r.held /\ r.held \subseteq ready.disk
      /\ "wav" \in ready.disk => "wav" \in r.disk
  BY <1>1, <1>2, EnsureIs
<1>6. "keyframes" \in out.disk => "shots" \in out.store
  BY <1>1, <1>2, <1>4, FramesHaveShots
<1>7. /\ r.table \in [AllIds -> {"none", "queued", "done", "skipped"}]
  BY <1>2 DEF Reels
<1>8. CASE Clear(f, r, c, {})
  <2>1. /\ out \in Reels /\ out.seen = r.seen
        /\ out.table = [r.table EXCEPT ![c] = "done"]
        /\ out.store = IF c \in Kept THEN r.store \cup {c} ELSE r.store
        /\ out.held = IF c = "artifacts" THEN r.held \cup Built(f, r, c) ELSE r.held
        /\ out.disk = ready.disk \cup Built(f, r, c)
    <3>1. Through(f, r, c, {}, out)
      BY <1>1, <1>2, <1>4, <1>8, ClearLeaves
    <3> QED BY <3>1 DEF Through
  <2> HIDE DEF ready
  <2>2. \A d \in Took(n) : out.table[d] = r.table[d]
    BY <1>1, <1>7, <2>1
  <2>3. out.table[c] = "done"
    BY <1>1, <1>7, <2>1
  <2>4. \A d \in out.store : d \in Took(n + 1) /\ out.table[d] = "done"
    BY <1>1, <1>2, <2>1, <2>2, <2>3
  <2>5. "wav" \in out.disk => Sounds(f, row) /\ "artifacts" \in Took(n + 1)
    <3>1. "wav" \in Built(f, r, c) <=> c = "artifacts" /\ HasAudio(f, r)
      BY <1>1, BuiltIs
    <3> QED BY <1>1, <1>2, <1>3, <1>5, <2>1, <3>1
  <2>6. out.held \subseteq out.disk
    BY <1>5, <2>1
  <2>7. Upon(out, n + 1, f, row)
    BY <1>2, <1>6, <2>1, <2>4, <2>5, <2>6 DEF Upon
  <2> QED BY <1>8, <2>2, <2>7 DEF c
<1>9. CASE ~Clear(f, r, c, {})
  <2>1. /\ out \in Reels /\ out.seen = r.seen
        /\ out.table = [r.table EXCEPT ![c] = "skipped"]
        /\ out.store = r.store /\ out.held = r.held
        /\ out.disk = r.disk \/ out.disk = ready.disk
    <3>1. Stopped(f, r, c, {}, out)
      BY <1>1, <1>2, <1>4, <1>9, SkipLeaves
    <3> QED BY <3>1 DEF Stopped
  <2> HIDE DEF ready
  <2>2. \A d \in Took(n) : out.table[d] = r.table[d]
    BY <1>1, <1>7, <2>1
  <2>3. out.table[c] = "skipped"
    BY <1>1, <1>7, <2>1
  <2>4. \A d \in out.store : d \in Took(n + 1) /\ out.table[d] = "done"
    BY <1>1, <1>2, <2>1, <2>2
  <2>5. "wav" \in out.disk => Sounds(f, row) /\ "artifacts" \in Took(n + 1)
    BY <1>1, <1>2, <1>5, <2>1
  <2>6. out.held \subseteq out.disk
    BY <1>2, <1>5, <2>1
  <2>7. Upon(out, n + 1, f, row)
    BY <1>2, <1>6, <2>1, <2>4, <2>5, <2>6 DEF Upon
  <2> QED BY <2>2, <2>3, <2>7 DEF c
<1> QED BY <1>8, <1>9

\* Every selected pass has its turn in the order.
LEMMA TookOf ==
  ASSUME NEW h \in Selected
  PROVE  \E k \in Nat : k < Len(Order) /\ h = Order[k + 1]
<1>1. Len(Order) \in Nat /\ Took(Len(Order)) = Selected
  BY OrderIs
<1>2. PICK i \in 1 .. Len(Order) : h = Order[i]
  BY <1>1 DEF Took
<1>3. i - 1 \in Nat /\ i - 1 < Len(Order) /\ (i - 1) + 1 = i
  BY <1>1, <1>2
<1> QED BY <1>2, <1>3

\* The reel on which the undisturbed visit has pass h do its work.
Precedent(f, row, h, r) ==
  /\ Clear(f, r, h, {}) /\ r \in Reels /\ r.seen = row /\ r.held \subseteq r.disk
  /\ \A n \in Needs(h) \cap Selected : Outcome(f, row)[n] # "skipped"
  /\ \A c \in r.store : c # h /\ c \in Selected /\ Outcome(f, row)[c] = "done"
  /\ "wav" \in r.disk => Sounds(f, row) /\ "artifacts" \in Selected
  /\ "keyframes" \in r.disk => "shots" \in r.store

\* A pass that the undisturbed visit does not skip gets through there, on a reel of
\* which we know how it came to be.
LEMMA OutcomeIs ==
  ASSUME NEW f, NEW row \in Births, NEW h \in Selected, Outcome(f, row)[h] # "skipped"
  PROVE  \E r : Precedent(f, row, h, r)
<1>1. PICK g : Visited(g, Len(Order), f, row) /\ Outcome(f, row) = g[Len(Order)].table
  BY VisitOf
<1>2. Len(Order) \in Nat
  BY OrderIs
<1> DEFINE S == {m \in Nat : m <= Len(Order) =>
                   /\ Upon(g[m], m, f, row)
                   /\ \A n \in 0 .. m : \A c \in Took(n) : g[m].table[c] = g[n].table[c]}
<1>3. \A m \in Nat : m < Len(Order) => g[m + 1] = RunPass(f, g[m], Order[m + 1], {})
  <2>1. TAKE m \in Nat
  <2>2. HAVE m < Len(Order)
  <2>3. m + 1 \in 0 .. Len(Order) /\ m + 1 # 0 /\ (m + 1) - 1 = m
    BY <1>2, <2>2
  <2> QED BY <1>1, <2>3 DEF Visited, VisitAfter
<1>4. 0 \in S
  <2>1. g[0] = Queued(row)
    BY <1>1, <1>2 DEF Visited, VisitAfter
  <2>2. \A n \in 0 .. 0 : n = 0
    OBVIOUS
  <2> QED BY <2>1, <2>2, QueuedIs
<1>5. ASSUME NEW m \in Nat, m \in S
      PROVE  m + 1 \in S
  <2>1. SUFFICES ASSUME m + 1 <= Len(Order)
                 PROVE  /\ Upon(g[m + 1], m + 1, f, row)
                        /\ \A n \in 0 .. m + 1 : \A c \in Took(n) : g[m + 1].table[c] = g[n].table[c]
    OBVIOUS
  <2>2. m < Len(Order) /\ m <= Len(Order)
    BY <1>2, <2>1
  <2>3. /\ Upon(g[m], m, f, row)
        /\ \A n \in 0 .. m : \A c \in Took(n) : g[m].table[c] = g[n].table[c]
    BY <1>5, <2>2
  <2>4. /\ Upon(g[m + 1], m + 1, f, row)
        /\ \A c \in Took(m) : g[m + 1].table[c] = g[m].table[c]
    <3>1. g[m + 1] = RunPass(f, g[m], Order[m + 1], {})
      BY <1>3, <2>2
    <3>2. m \in Nat /\ Upon(g[m], m, f, row)
      BY <1>5, <2>3
    <3> QED BY <2>2, <3>1, <3>2, VisitKeeps
  <2>5. \A n \in 0 .. m : Took(n) \subseteq Took(m)
    BY DEF Took
  <2>6. \A n \in 0 .. m + 1 : n \in 0 .. m \/ n = m + 1
    OBVIOUS
  <2>7. ASSUME NEW n \in 0 .. m + 1, NEW c \in Took(n)
        PROVE  g[m + 1].table[c] = g[n].table[c]
    BY <2>3, <2>4, <2>5, <2>6
  <2> QED BY <2>4, <2>7
<1>6. \A m \in Nat : m \in S
  BY <1>4, <1>5, Reaches
<1>7. ASSUME NEW n \in Nat, n <= Len(Order)
      PROVE  /\ Upon(g[n], n, f, row)
             /\ \A c \in Took(n) : Outcome(f, row)[c] = g[n].table[c]
  <2>1. n \in 0 .. Len(Order) /\ Len(Order) <= Len(Order)
    BY <1>2, <1>7
  <2> QED BY <1>1, <1>2, <1>6, <1>7, <2>1
<1> HIDE DEF S
<1>8. PICK k \in Nat : k < Len(Order) /\ h = Order[k + 1]
  BY TookOf
<1>9. k + 1 \in Nat /\ k + 1 <= Len(Order) /\ k <= Len(Order) /\ k + 1 \in 1 .. Len(Order)
  BY <1>2, <1>8
<1>10. /\ Upon(g[k], k, f, row)
       /\ \A c \in Took(k) : Outcome(f, row)[c] = g[k].table[c]
       /\ \A c \in Took(k + 1) : Outcome(f, row)[c] = g[k + 1].table[c]
  BY <1>7, <1>8, <1>9
<1>11. /\ h \in Took(k + 1) /\ h \notin Took(k) /\ Took(k) \in SUBSET Selected
  BY <1>8, TookWith
<1>12. Clear(f, g[k], h, {})
  <2>1. g[k + 1].table[h] # "skipped"
    BY <1>10, <1>11
  <2>2. g[k + 1] = RunPass(f, g[k], Order[k + 1], {})
    BY <1>3, <1>8
  <2>3. ~Clear(f, g[k], Order[k + 1], {}) => g[k + 1].table[Order[k + 1]] = "skipped"
    BY <1>8, <1>10, <2>2, VisitKeeps
  <2> QED BY <1>8, <2>1, <2>3
<1>13. ASSUME NEW n \in Needs(h) \cap Selected
       PROVE  Outcome(f, row)[n] # "skipped"
  <2>1. Precedes(n, Order[k + 1])
    BY <1>8, <1>13 DEF Precedes
  <2>2. PICK i \in 1 .. (k + 1) - 1 : Order[i] = n
    BY <1>9, <1>13, <2>1, OrderIs DEF Sorted
  <2>3. n \in Took(k)
    BY <2>2 DEF Took
  <2>4. g[k].table[n] # "skipped"
    BY <1>12, <1>13 DEF Clear, Stalled
  <2> QED BY <1>10, <2>3, <2>4
<1>14. /\ g[k] \in Reels /\ g[k].seen = row /\ g[k].held \subseteq g[k].disk
       /\ \A c \in g[k].store : c # h /\ c \in Selected /\ Outcome(f, row)[c] = "done"
       /\ "wav" \in g[k].disk => Sounds(f, row) /\ "artifacts" \in Selected
       /\ "keyframes" \in g[k].disk => "shots" \in g[k].store
  BY <1>10, <1>11 DEF Upon
<1>15. Precedent(f, row, h, g[k])
  BY <1>12, <1>13, <1>14 DEF Precedent
<1> QED BY <1>15
-----------------------------------------------------------------------------
(* The pass in hand *)

\* The pass in hand, and those after it.
LEMMA HeadIs ==
  ASSUME Typed, todo # <<>>
  PROVE  /\ Head(todo) = todo[1] /\ Head(todo) \in Selected /\ Head(todo) \in AllIds
         /\ Len(todo) \in Nat /\ Len(todo) >= 1
         /\ Tail(todo) \in Seq(Selected) /\ Len(Tail(todo)) = Len(todo) - 1
         /\ \A i \in 1 .. Len(todo) - 1 : Tail(todo)[i] = todo[i + 1]
         /\ ToSet(todo) = ToSet(Tail(todo)) \cup {Head(todo)}
<1>1. todo \in Seq(Selected)
  BY DEF Typed
<1>2. /\ Head(todo) = todo[1] /\ Head(todo) \in Selected
      /\ Len(todo) \in Nat /\ Len(todo) >= 1
      /\ Tail(todo) \in Seq(Selected) /\ Len(Tail(todo)) = Len(todo) - 1
      /\ \A i \in 1 .. Len(todo) - 1 : Tail(todo)[i] = todo[i + 1]
  BY <1>1
<1>3. Head(todo) \in AllIds
  BY <1>2, PipelineAssumption
<1>4. /\ ToSet(todo) = {todo[i] : i \in 1 .. Len(todo)}
      /\ ToSet(Tail(todo)) = {Tail(todo)[i] : i \in 1 .. Len(todo) - 1}
  BY <1>1, <1>2, SeqSet
<1>5. ASSUME NEW x \in ToSet(todo)
      PROVE  x \in ToSet(Tail(todo)) \cup {Head(todo)}
  <2>1. PICK i \in 1 .. Len(todo) : x = todo[i]
    BY <1>4
  <2>2. i = 1 \/ (i - 1 \in 1 .. Len(todo) - 1 /\ (i - 1) + 1 = i)
    BY <1>2
  <2> QED BY <1>2, <1>4, <2>1, <2>2
<1>6. ASSUME NEW x \in ToSet(Tail(todo)) \cup {Head(todo)}
      PROVE  x \in ToSet(todo)
  <2>1. 1 \in 1 .. Len(todo) /\ \A i \in 1 .. Len(todo) - 1 : i + 1 \in 1 .. Len(todo)
    BY <1>2
  <2> QED BY <1>2, <1>4, <2>1
<1> QED BY <1>2, <1>3, <1>5, <1>6

\* No pass precedes itself.
LEMMA NotBeforeItself ==
  ASSUME NEW c \in Selected
  PROVE  ~Precedes(c, c)
<1>1. PICK k \in Nat : k < Len(Order) /\ c = Order[k + 1]
  BY TookOf
<1>2. k + 1 \in 1 .. Len(Order) /\ (k + 1) - 1 = k /\ Len(Order) = Cardinality(Selected)
  BY <1>1, OrderIs
<1>3. Precedes(c, c) => \E i \in 1 .. k : Order[i] = c
  BY <1>1, <1>2, OrderIs DEF Sorted
<1>4. \A i \in 1 .. k : i \in 1 .. Len(Order) /\ i # k + 1
  BY <1>1, OrderIs
<1> QED BY <1>1, <1>2, <1>3, <1>4, OrderIs DEF Sorted

\* Whoever precedes the pass in hand has had its turn.
LEMMA TurnsTaken ==
  ASSUME Typed, Planned, Visiting, todo # <<>>,
         NEW w \in Selected, Precedes(w, Head(todo))
  PROVE  reel.table[w] \in Settled
<1> DEFINE h == Head(todo)
<1>1. /\ h = todo[1] /\ h \in Selected /\ h \in ToSet(todo)
      /\ Len(todo) \in Nat /\ Len(todo) >= 1 /\ todo \in Seq(Selected)
  BY HeadIs DEF Typed
<1>2. /\ plan # <<>> /\ plan \in Seq(Cohorts) /\ h \in ToSet(plan[1].passes)
      /\ \A c \in ToSet(plan[1].passes) : reel.table[c] \in Settled \/ c \in ToSet(todo)
  BY <1>1 DEF Visiting, Typed
<1>3. Len(plan) \in Nat /\ 1 \in 1 .. Len(plan) /\ \A i \in 1 .. 1 : i = 1
  BY <1>2
<1>4. reel.table[w] \in Settled \/ w \in ToSet(plan[1].passes)
  BY <1>2, <1>3 DEF Planned
<1>5. w \notin ToSet(todo)
  <2>1. SUFFICES ASSUME w \in ToSet(todo)
                 PROVE  FALSE
    OBVIOUS
  <2>2. PICK j \in 1 .. Len(todo) : w = todo[j]
    BY <1>1, <2>1, SeqSet
  <2>3. CASE j = 1
    BY <1>1, <2>2, <2>3, NotBeforeItself
  <2>4. CASE j # 1
    <3>1. 1 \in 1 .. Len(todo) /\ 1 < j
      BY <1>1, <2>2, <2>4
    <3>2. ~Precedes(todo[j], todo[1])
      BY <3>1 DEF Visiting
    <3> QED BY <1>1, <2>2, <3>2
  <2> QED BY <2>3, <2>4
<1> QED BY <1>2, <1>4, <1>5

\* Undisturbed, at one film and one row.
LEMMA UndisturbedIs ==
  ASSUME Typed
  PROVE  Undisturbed[film][born] = Outcome(film, born)
BY DEF Typed, Undisturbed

\* What is given up, by the outcome of the undisturbed visit.
LEMMA ForgoneIs ==
  ASSUME Typed
  PROVE  Forgone = {c \in Selected : reel.table[c] = "skipped" /\ Outcome(film, born)[c] # "skipped"}
BY UndisturbedIs DEF Forgone

\* What precedes the pass in hand, is not skipped undisturbed and is not given up is done.
LEMMA DoneBefore ==
  ASSUME IInv, todo # <<>>, NEW w \in Selected, Precedes(w, Head(todo)),
         Outcome(film, born)[w] # "skipped", w \notin Forgone
  PROVE  reel.table[w] = "done"
<1>1. reel.table[w] \in Settled
  BY TurnsTaken DEF IInv
<1>2. reel.table[w] # "skipped"
  BY ForgoneIs DEF IInv
<1> QED BY <1>1, <1>2 DEF Settled

\* Whoever writes what a pass reads and whatever it needs is what it builds on.
LEMMA LeansIs ==
  ASSUME NEW c \in AllIds
  PROVE  Leans[c] = (Closure(c) \cup {w \in AllIds : Runner[w].finds \cap Reads(c) # {}}) \ {c}
BY DEF Leans

\* Sound of which the undisturbed visit knew is found here, too.
LEMMA SoundIsThere ==
  ASSUME IInv, Sounds(film, born)
  PROVE  HasAudio(film, reel)
<1>1. Knows(reel.seen, film, born)
  BY DEF IInv, Remembered
<1> QED BY <1>1 DEF Knows, HasAudio, Sounds

\* A pass that gets through in the undisturbed visit gets through here, when no rebuild
\* fails and nothing it builds on was given up.
LEMMA ClearAgain ==
  ASSUME IInv, todo # <<>>, NEW h \in Selected, h = Head(todo),
         Outcome(film, born)[h] # "skipped", Leans[h] \cap Forgone = {}
  PROVE  Clear(film, reel, h, {})
<1>1. film \in Films /\ born \in Births /\ reel \in Reels /\ h \in AllIds
  BY HeadIs DEF IInv, Typed
<1>a. PICK r : Precedent(film, born, h, r)
  BY <1>1, OutcomeIs
<1>2. /\ Clear(film, r, h, {}) /\ r \in Reels /\ r.seen = born /\ r.held \subseteq r.disk
      /\ \A n \in Needs(h) \cap Selected : Outcome(film, born)[n] # "skipped"
      /\ \A c \in r.store : c # h /\ c \in Selected /\ Outcome(film, born)[c] = "done"
      /\ "wav" \in r.disk => Sounds(film, born) /\ "artifacts" \in Selected
      /\ "keyframes" \in r.disk => "shots" \in r.store
  BY <1>a DEF Precedent
<1> DEFINE there == EnsureInputs(film, r, h, {})
           here  == EnsureInputs(film, reel, h, {})
<1>b. there = EnsureInputs(film, r, h, {}) /\ here = EnsureInputs(film, reel, h, {})
  OBVIOUS
<1>c. Ensured(film, r, h, {}, there) /\ Ensured(film, reel, h, {}, here)
  <2>1. r \in Reels
    BY <1>2
  <2> QED BY <1>1, <2>1, Readied
<1> HIDE DEF here, there
<1>3. /\ there.seen = r.seen /\ there.store = r.store
      /\ "keyframes" \in there.disk => "shots" \in r.store
      /\ "wav" \in there.disk => "wav" \in r.disk
  <2>1. r \in Reels /\ r.held \subseteq r.disk
    BY <1>2
  <2>2. /\ there.seen = r.seen /\ there.store = r.store
        /\ "keyframes" \in there.disk => "keyframes" \in r.disk \/ "shots" \in r.store
        /\ "wav" \in there.disk => \/ "wav" \in r.disk
                                   \/ HasAudio(film, r) /\ ~(r.held \subseteq r.disk)
    BY <1>c DEF Ensured
  <2>3. "keyframes" \in r.disk => "shots" \in r.store
    BY <1>2
  <2> QED BY <2>1, <2>2, <2>3
<1>4. /\ here.seen = reel.seen /\ here.store = reel.store
      /\ "artifacts" \in Needs(h) /\ "wav" \in reel.held /\ HasAudio(film, reel) => "wav" \in here.disk
      /\ "keyframes" \in Needs(h) /\ "shots" \in reel.store => "keyframes" \in here.disk
      /\ "allframes" \in Needs(h) => "allframes" \in here.disk
  BY <1>c DEF Ensured
<1>5. /\ Demands(film, there, h) /\ Answers(film, there, h)
  BY <1>2, <1>b DEF Clear
<1>6. ASSUME NEW n \in Needs(h), reel.table[n] = "skipped"
      PROVE  FALSE
  <2>1. n \in AllIds /\ Precedes(n, Head(todo))
    BY <1>1, <1>6, CatalogueIsSound DEF Precedes
  <2>2. n \in Selected
    BY <1>6, <2>1 DEF IInv, Tabled
  <2>3. Outcome(film, born)[n] # "skipped"
    BY <1>2, <2>2
  <2>4. n \in Leans[h]
    BY <1>1, <1>6, <2>1, <2>2, CatalogueIsSound, LeansIs, NotBeforeItself
  <2> QED BY <1>6, <2>1, <2>2, <2>3, <2>4, DoneBefore
<1>7. ASSUME NEW c \in r.store, Precedes(c, h), c \in Leans[h]
      PROVE  c \in reel.store
  <2>1. c \in Selected /\ c \in Kept /\ Outcome(film, born)[c] # "skipped"
    BY <1>2 DEF Reels
  <2>2. reel.table[c] = "done"
    BY <1>7, <2>1, DoneBefore
  <2> QED BY <2>1, <2>2 DEF IInv, Remembered
<1>8. ASSUME NEW x \in Reads(h), x \in Facts(film, there)
      PROVE  x \in Facts(film, here)
  <2>1. PICK c \in r.store : x \in Runner[c].finds
    BY <1>3, <1>8 DEF Facts
  <2>2. c \in AllIds \ {h}
    BY <1>2, <2>1, PipelineAssumption
  <2>3. Precedes(c, h)
    BY <1>1, <1>8, <2>1, <2>2, RunnersAreSound
  <2>4. c \in here.store
    <3>1. c \in Leans[h]
      BY <1>1, <1>8, <2>1, <2>2, LeansIs
    <3> QED BY <1>4, <1>7, <2>3, <3>1
  <2>5. x \notin {"text"} \ film
    BY <1>8 DEF Facts
  <2>6. x \in UNION {Runner[d].finds : d \in here.store}
    BY <2>1, <2>4
  <2> QED BY <2>5, <2>6, Zenon DEF Facts
<1>9. ASSUME NEW x \in Runner[h].files
      PROVE  x \in here.disk
  <2>1. x \in there.disk
    BY <1>5 DEF Demands
  <2>2. x \in {"wav", "keyframes", "allframes"}
    BY <1>1, RunnersAreSound
  <2>3. CASE x = "wav"
    <3>1. Sounds(film, born) /\ "artifacts" \in Selected
      BY <1>2, <1>3, <2>1, <2>3
    <3>2. "artifacts" \in Needs(h)
      BY <1>1, <2>3, RunnersAreSound
    <3>3. Precedes("artifacts", Head(todo))
      BY <3>2 DEF Precedes
    <3>4. reel.table["artifacts"] = "done"
      <4>1. reel.table["artifacts"] \in Settled
        BY <3>1, <3>3, TurnsTaken DEF IInv
      <4>2. reel.table["artifacts"] # "skipped"
        BY <3>1 DEF IInv, Remembered
      <4> QED BY <4>1, <4>2 DEF Settled
    <3>5. "wav" \in reel.held
      BY <3>1, <3>4 DEF IInv, Remembered
    <3>6. HasAudio(film, reel)
      BY <3>1, SoundIsThere
    <3> QED BY <1>4, <2>3, <3>2, <3>5, <3>6
  <2>4. CASE x = "keyframes"
    <3>1. "keyframes" \in Needs(h) /\ "shots" \in r.store
      BY <1>1, <1>3, <2>1, <2>4, RunnersAreSound
    <3>2. "shots" \in Closure(h)
      <4>1. "keyframes" \in Closure(h)
        BY <1>1, <3>1, CatalogueIsSound
      <4>2. "shots" \in Needs("keyframes")
        BY RunnersAreSound
      <4> QED BY <1>1, <4>1, <4>2, CatalogueIsSound
    <3>3. Precedes("shots", h)
      BY <1>1, <3>2, CatalogueIsSound
    <3>4. "shots" \in Leans[h]
      BY <1>1, <1>2, <3>1, <3>2, LeansIs
    <3> QED BY <1>4, <1>7, <2>4, <3>1, <3>3, <3>4
  <2>5. CASE x = "allframes"
    <3>1. "allframes" \in Needs(h)
      BY <1>1, <2>5, RunnersAreSound
    <3> QED BY <1>4, <2>5, <3>1
  <2> QED BY <2>2, <2>3, <2>4, <2>5
<1>10. r.seen.dur => reel.seen.dur
  BY <1>2 DEF IInv, Remembered, Knows
<1>11. Demands(film, here, h)
  <2>1. Runner[h].files \subseteq here.disk
    BY <1>9
  <2>2. Runner[h].facts \subseteq Facts(film, here)
    BY <1>5, <1>8 DEF Demands, Reads
  <2>3. Runner[h].any = {} \/ Runner[h].any \cap Facts(film, here) # {}
    BY <1>5, <1>8 DEF Demands, Reads
  <2>4. Runner[h].asks \subseteq film
    BY <1>5 DEF Demands
  <2>5. Runner[h].length = "first" => here.seen.dur
    BY <1>3, <1>4, <1>5, <1>10 DEF Demands
  <2> QED BY <2>1, <2>2, <2>3, <2>4, <2>5 DEF Demands
<1>12. Answers(film, here, h)
  BY <1>3, <1>4, <1>5, <1>10 DEF Answers
<1>13. ~Stalled(reel, h)
  BY <1>6 DEF Stalled
<1> QED BY <1>11, <1>12, <1>13 DEF Clear, here
-----------------------------------------------------------------------------
(* Sessions *)

\* A new reel has no pass, row or file.
LEMMA FreshIs ==
  ASSUME NEW row \in Rows
  PROVE  /\ Fresh(row) \in Reels
         /\ Fresh(row).row = row /\ Fresh(row).seen = row
         /\ \A c \in AllIds : Fresh(row).table[c] = "none"
         /\ Fresh(row).store = {} /\ Fresh(row).held = {} /\ Fresh(row).disk = {}
BY DEF Fresh, Reels

\* A row from the ledger knows what the ledger knows.
LEMMA BornKnows ==
  ASSUME NEW f, NEW row \in Births
  PROVE  Knows(row, f, row)
BY BirthIs DEF Knows, Sounds

\* The invariant holds at first.
LEMMA InitIsIInv == Init => IInv
<1> SUFFICES ASSUME Init
             PROVE  IInv
  OBVIOUS
<1>1. /\ film \in Films /\ born \in Births /\ card \in Cards /\ reel = Fresh(born)
      /\ channel = [at |-> FALSE, row |-> Unknown, store |-> {}, held |-> {}]
      /\ loaded = {} /\ plan = <<>> /\ todo = <<>> /\ unmade = {}
      /\ spent = [deaths |-> 0, evictions |-> 0, failures |-> 0]
  BY DEF Init
<1>2. born \in Rows
  BY <1>1, BirthIs
<1>3. /\ reel \in Reels /\ reel.row = born /\ reel.seen = born
      /\ \A c \in AllIds : reel.table[c] = "none"
      /\ reel.store = {} /\ reel.held = {} /\ reel.disk = {}
  BY <1>1, <1>2, FreshIs
<1>4. Typed
  <2>1. channel \in [at : BOOLEAN, row : Rows, store : SUBSET Kept, held : SUBSET {"proxy", "wav"}]
    BY <1>1 DEF Unknown, Rows
  <2>2. spent \in [deaths : 0 .. MaxDeaths, evictions : 0 .. MaxEvictions, failures : 0 .. MaxFailures]
    BY <1>1, PipelineAssumption
  <2>3. plan \in Seq(Cohorts) /\ todo \in Seq(Selected)
    BY <1>1
  <2> QED BY <1>1, <1>3, <2>1, <2>2, <2>3 DEF Typed
<1>5. Planned
  BY <1>1 DEF Planned
<1>6. Tabled
  BY <1>1, <1>3 DEF Tabled
<1>7. Visiting /\ Resident
  BY <1>1 DEF Visiting, Resident
<1>8. Remembered
  <2>1. Knows(reel.row, film, born) /\ Knows(reel.seen, film, born)
    BY <1>1, <1>3, BornKnows
  <2>2. /\ ShotsKept(reel.store) /\ ShotsKept(channel.store)
        /\ SoundKept(reel.store, reel.held) /\ SoundKept(channel.store, channel.held)
    BY <1>1, <1>3 DEF ShotsKept, SoundKept
  <2> QED BY <1>1, <1>3, <2>1, <2>2, SilentIs DEF Remembered
<1>9. NothingLost
  BY <1>3, PipelineAssumption DEF NothingLost, Forgone
<1> QED BY <1>4, <1>5, <1>6, <1>7, <1>8, <1>9 DEF IInv

\* The table after a rotation: what is settled stays, what the evidence proves is done.
LEMMA ReconciledIs ==
  ASSUME NEW r \in Reels
  PROVE  /\ Reconciled(r) \in [AllIds -> {"none", "queued", "done", "skipped"}]
         /\ \A c \in AllIds \ Selected : Reconciled(r)[c] = "none"
         /\ \A c \in Selected : Reconciled(r)[c] # "none"
         /\ \A c \in Selected : r.table[c] \in Settled => Reconciled(r)[c] = r.table[c]
         /\ \A c \in AllIds : Reconciled(r)[c] = "skipped" => r.table[c] = "skipped"
         /\ \A c \in AllIds : Reconciled(r)[c] = "done" =>
              r.table[c] = "done" \/ \E d \in r.store : c = d \/ c \in Closure(d) \cap Silent
<1> DEFINE proved == UNION {Implied(c) : c \in r.store \cap Writers \cap Selected}
           table == [c \in AllIds |-> IF c \notin Selected THEN "none"
                                      ELSE IF r.table[c] \in Settled THEN r.table[c]
                                      ELSE IF c \in proved THEN "done" ELSE "queued"]
<1>1. Reconciled(r) = table
  BY DEF Reconciled
<1>2. \A c \in proved : \E d \in r.store : c = d \/ c \in Closure(d) \cap Silent
  BY DEF Implied
<1>3. Selected \subseteq AllIds
  BY PipelineAssumption
<1> HIDE DEF proved
<1>4. /\ table \in [AllIds -> {"none", "queued", "done", "skipped"}]
      /\ \A c \in AllIds \ Selected : table[c] = "none"
      /\ \A c \in Selected : table[c] # "none"
      /\ \A c \in Selected : r.table[c] \in Settled => table[c] = r.table[c]
      /\ \A c \in AllIds : table[c] = "skipped" => r.table[c] = "skipped"
      /\ \A c \in AllIds : table[c] = "done" => r.table[c] = "done" \/ c \in proved
  BY <1>3 DEF Settled
<1> HIDE DEF table
<1> QED BY <1>1, <1>2, <1>4

\* A new plan is a packing; a reconcile counts as done only what was done.
LEMMA RotateKeeps == IInv /\ Rotate => IInv'
<1> SUFFICES ASSUME IInv, Rotate
             PROVE  IInv'
  OBVIOUS
<1> DEFINE seq   == PlanCohorts(Order, Budget(card), card.gpus)
           table == Reconciled(reel)
<1>1. /\ plan = <<>> /\ plan' = seq /\ reel' = [reel EXCEPT !.table = table]
      /\ film' = film /\ born' = born /\ channel' = channel /\ card' = card
      /\ loaded' = loaded /\ todo' = todo /\ unmade' = unmade /\ spent' = spent
  BY DEF Rotate
<1>2. /\ film \in Films /\ born \in Births /\ card \in Cards /\ reel \in Reels
  BY DEF IInv, Typed
<1>3. /\ table \in [AllIds -> {"none", "queued", "done", "skipped"}]
      /\ \A c \in AllIds \ Selected : table[c] = "none"
      /\ \A c \in Selected : table[c] # "none"
      /\ \A c \in Selected : reel.table[c] \in Settled => table[c] = reel.table[c]
      /\ \A c \in AllIds : table[c] = "skipped" => reel.table[c] = "skipped"
      /\ \A c \in AllIds : table[c] = "done" =>
           reel.table[c] = "done" \/ \E d \in reel.store : c = d \/ c \in Closure(d) \cap Silent
  BY <1>2, ReconciledIs
<1>4. Packing(seq, Len(Order), card)
  BY <1>2, PlanIsPacking
<1> HIDE DEF seq, table
<1>5. /\ reel' \in Reels /\ reel'.table = table /\ reel'.row = reel.row /\ reel'.seen = reel.seen
      /\ reel'.store = reel.store /\ reel'.held = reel.held /\ reel'.disk = reel.disk
  BY <1>1, <1>2, <1>3 DEF Reels
<1>6. /\ seq \in Seq(Cohorts) /\ \A i \in 1 .. Len(seq) : Fits(seq[i], card)
  BY <1>4 DEF Packing
<1>7. todo = <<>> /\ loaded = {}
  BY <1>1 DEF IInv, Visiting, Resident
<1>8. Typed'
  BY <1>1, <1>5, <1>6 DEF IInv, Typed
<1>9. Planned'
  <2>1. ASSUME NEW j \in 1 .. Len(seq), NEW r \in ToSet(seq[j].passes), NEW w \in Selected, Precedes(w, r)
        PROVE  \E i \in 1 .. j : w \in ToSet(seq[i].passes)
    BY <1>2, <1>4, <2>1, PlanKeepsOrder
  <2> QED BY <1>1, <1>6, <2>1 DEF Planned
<1>10. Tabled'
  BY <1>3, <1>5 DEF Tabled
<1>11. Visiting' /\ Resident'
  BY <1>1, <1>7 DEF Visiting, Resident
<1>12. Remembered'
  <2>1. ASSUME NEW c \in Kept, table[c] = "done"
        PROVE  c \in reel.store
    <3>1. c \in AllIds /\ (c \in Silent => c = "shots")
      BY SilentIs DEF Kept, Writers
    <3>2. CASE reel.table[c] = "done"
      BY <3>2 DEF IInv, Remembered
    <3>3. CASE \E d \in reel.store : c = d \/ c \in Closure(d) \cap Silent
      <4>1. PICK d \in reel.store : c = d \/ c \in Closure(d) \cap Silent
        BY <3>3
      <4> QED BY <3>1, <4>1 DEF IInv, Remembered, ShotsKept
    <3> QED BY <1>3, <2>1, <3>1, <3>2, <3>3
  <2>2. "artifacts" \in Selected => table["artifacts"] # "skipped"
    BY <1>3, SilentIs DEF IInv, Remembered
  <2>3. ASSUME "artifacts" \in Selected, Sounds(film, born), table["artifacts"] = "done"
        PROVE  "wav" \in reel.held
    <3>1. CASE reel.table["artifacts"] = "done"
      BY <2>3, <3>1 DEF IInv, Remembered
    <3>2. CASE \E d \in reel.store : "artifacts" = d \/ "artifacts" \in Closure(d) \cap Silent
      <4>1. PICK d \in reel.store : "artifacts" = d \/ "artifacts" \in Closure(d) \cap Silent
        BY <3>2
      <4>2. d # "artifacts"
        BY <1>2, <4>1, SilentIs DEF Reels
      <4> QED BY <2>3, <4>1, <4>2 DEF IInv, Remembered, SoundKept
    <3> QED BY <1>3, <2>3, <3>1, <3>2, SilentIs
  <2>4. SoundKept(reel.store, reel.held)' /\ SoundKept(channel.store, channel.held)'
    BY <1>1, <1>5 DEF IInv, Remembered, SoundKept
  <2> QED BY <1>1, <1>5, <2>1, <2>2, <2>3, <2>4 DEF IInv, Remembered
<1>13. NothingLost'
  <2>1. \A c \in Selected : c \in AllIds
    BY PipelineAssumption
  <2>2. \A c \in Selected : table[c] = "skipped" <=> reel.table[c] = "skipped"
    BY <1>3, <2>1 DEF Settled
  <2>3. Forgone' = Forgone
    BY <1>1, <1>5, <2>2 DEF Forgone
  <2>4. unmade' = unmade /\ NothingLost
    BY <1>1 DEF IInv
  <2> QED BY <2>3, <2>4 DEF NothingLost
<1> QED BY <1>8, <1>9, <1>10, <1>11, <1>12, <1>13 DEF IInv

\* The current cohort, and which of its passes wait.
LEMMA WaitingIs ==
  ASSUME Typed, plan # <<>>
  PROVE  /\ Len(plan) \in Nat /\ Len(plan) >= 1 /\ 1 \in 1 .. Len(plan)
         /\ plan[1] \in Cohorts /\ plan[1].passes \in Seq(Selected)
         /\ ToSet(plan[1].passes) \in SUBSET Selected
         /\ Waiting \in SUBSET Selected /\ Waiting \in SUBSET AllIds
<1>1. Len(plan) \in Nat /\ Len(plan) >= 1 /\ plan[1] \in Cohorts
  BY DEF Typed
<1>2. plan[1].passes \in Seq(Selected)
  BY <1>1 DEF Cohorts
<1>3. ToSet(plan[1].passes) \in SUBSET Selected
  BY <1>2, SeqSet
<1> QED BY <1>1, <1>2, <1>3, PipelineAssumption DEF Waiting

\* A visit takes up its cohort in the order of the plan.
LEMMA VisitKeepsIInv == IInv /\ Visit => IInv'
<1> SUFFICES ASSUME IInv, Visit
             PROVE  IInv'
  OBVIOUS
<1> DEFINE order == TopoSort(Waiting)
<1>1. /\ plan # <<>> /\ todo' = order /\ reel' = [reel EXCEPT !.seen = reel.row]
      /\ film' = film /\ born' = born /\ channel' = channel /\ card' = card
      /\ loaded' = loaded /\ plan' = plan /\ unmade' = unmade /\ spent' = spent
  BY DEF Visit
<1>2. Typed /\ reel \in Reels
  BY DEF IInv, Typed
<1>3. /\ Waiting \in SUBSET Selected /\ Waiting \in SUBSET AllIds
      /\ ToSet(plan[1].passes) \in SUBSET Selected
  BY <1>1, <1>2, WaitingIs
<1>4. /\ Sorted(Waiting, order, Cardinality(Waiting)) /\ ToSet(order) = Waiting
      /\ Cardinality(Waiting) \in Nat
  BY <1>3, TopoSortIs
<1> HIDE DEF order
<1>5. /\ reel' \in Reels /\ reel'.table = reel.table /\ reel'.row = reel.row /\ reel'.seen = reel.row
      /\ reel'.store = reel.store /\ reel'.held = reel.held /\ reel'.disk = reel.disk
  BY <1>1, <1>2 DEF Reels
<1>6. order \in Seq(Selected) /\ Len(order) = Cardinality(Waiting) /\ order \in Seq(Waiting)
  BY <1>3, <1>4 DEF Sorted
<1>7. Typed'
  BY <1>1, <1>5, <1>6 DEF IInv, Typed
<1>8. Planned'
  BY <1>1, <1>5 DEF IInv, Planned
<1>9. Tabled'
  BY <1>1, <1>5 DEF IInv, Tabled
<1>10. Visiting'
  <2>1. \A c \in ToSet(plan[1].passes) : reel.table[c] \in Settled \/ c \in ToSet(order)
    <3>1. TAKE c \in ToSet(plan[1].passes)
    <3>2. c \in Selected /\ c \in AllIds
      BY <1>3, PipelineAssumption
    <3>3. reel.table[c] \in {"queued", "done", "skipped"}
      BY <1>1, <1>2, <3>2 DEF IInv, Tabled, Reels
    <3> QED BY <1>4, <3>3 DEF Waiting, Settled
  <2>2. ASSUME NEW i \in 1 .. Len(order), NEW j \in 1 .. Len(order), i < j, Precedes(order[j], order[i])
        PROVE  FALSE
    <3>1. order[j] \in Waiting /\ Len(order) \in Nat
      BY <1>4, <1>6
    <3>2. PICK k \in 1 .. i - 1 : order[k] = order[j]
      BY <1>4, <1>6, <2>2, <3>1 DEF Sorted
    <3>3. k \in 1 .. Len(order) /\ k # j
      BY <2>2, <3>1, <3>2
    <3> QED BY <1>4, <1>6, <3>2, <3>3 DEF Sorted
  <2>3. ToSet(order) \subseteq ToSet(plan[1].passes) /\ \A c \in ToSet(order) : reel.table[c] # "skipped"
    BY <1>4 DEF Waiting
  <2>4. ASSUME NEW i \in 1 .. Len(order), NEW j \in 1 .. Len(order), i < j
        PROVE  order[j] # order[i]
    BY <1>4, <1>6, <2>4 DEF Sorted
  <2> QED BY <1>1, <1>5, <2>1, <2>2, <2>3, <2>4 DEF Visiting
<1>11. Resident'
  BY <1>1 DEF IInv, Resident
<1>12. Remembered'
  BY <1>1, <1>5 DEF IInv, Remembered, SoundKept
<1>13. NothingLost'
  BY <1>1, <1>5 DEF IInv, NothingLost, Forgone
<1> QED BY <1>7, <1>8, <1>9, <1>10, <1>11, <1>12, <1>13 DEF IInv

\* What may stand in the channel.
ChannelOK(ch) ==
  /\ ch \in [at : BOOLEAN, row : Rows, store : SUBSET Kept, held : SUBSET {"proxy", "wav"}]
  /\ ch.at => Knows(ch.row, film, born)
  /\ ShotsKept(ch.store) /\ SoundKept(ch.store, ch.held)

\* A checkpoint remembers what the reel does.
LEMMA ChannelIs ==
  ASSUME IInv
  PROVE  /\ ChannelOK(channel) /\ ChannelOK(Checkpoint)
         /\ Publish => ChannelOK(channel')
<1>1. ChannelOK(channel)
  BY DEF IInv, Typed, Remembered, ChannelOK
<1>2. ChannelOK(Checkpoint)
  <2>1. /\ Checkpoint.at /\ Checkpoint.store = reel.store /\ Checkpoint.held = reel.held
        /\ Checkpoint.row = IF channel.at THEN channel.row ELSE reel.row
    BY DEF Checkpoint
  <2>2. Knows(Checkpoint.row, film, born)
    BY <2>1 DEF IInv, Remembered
  <2>3. Checkpoint \in [at : BOOLEAN, row : Rows, store : SUBSET Kept, held : SUBSET {"proxy", "wav"}]
    BY DEF IInv, Typed, Reels, Checkpoint
  <2> QED BY <2>1, <2>2, <2>3 DEF IInv, Remembered, ChannelOK
<1>3. Publish => channel' = channel \/ channel' = Checkpoint
  BY DEF Publish
<1>4. Publish => ChannelOK(channel')
  BY <1>1, <1>2, <1>3, Zenon
<1> QED BY <1>1, <1>2, <1>4

\* A checkpoint within a cohort.
LEMMA PublishDueKeeps == IInv /\ PublishDue => IInv'
<1> SUFFICES ASSUME IInv, PublishDue
             PROVE  IInv'
  OBVIOUS
<1>1. /\ ChannelOK(channel')
      /\ film' = film /\ born' = born /\ reel' = reel /\ card' = card
      /\ loaded' = loaded /\ plan' = plan /\ todo' = todo /\ unmade' = unmade /\ spent' = spent
  BY ChannelIs DEF PublishDue
<1>2. Typed'
  BY <1>1 DEF IInv, Typed, ChannelOK
<1>3. Planned' /\ Tabled' /\ Visiting' /\ Resident' /\ NothingLost'
  BY <1>1 DEF IInv, Planned, Tabled, Visiting, Resident, NothingLost, Forgone
<1>4. Remembered'
  BY <1>1 DEF IInv, Remembered, ChannelOK, SoundKept
<1> QED BY <1>2, <1>3, <1>4 DEF IInv

\* The next cohort takes up where this one ends, on an empty card.
LEMMA CohortEndsKeeps == IInv /\ CohortEnds => IInv'
<1> SUFFICES ASSUME IInv, CohortEnds
             PROVE  IInv'
  OBVIOUS
<1>1. /\ plan # <<>> /\ todo = <<>> /\ Waiting = {} /\ loaded' = {} /\ plan' = Tail(plan)
      /\ film' = film /\ born' = born /\ reel' = reel /\ card' = card
      /\ todo' = todo /\ unmade' = unmade /\ spent' = spent
  BY DEF CohortEnds, Unload
<1>2. ChannelOK(channel')
  <2>1. Publish \/ channel' = channel
    BY DEF CohortEnds
  <2> QED BY <2>1, ChannelIs
<1>3. Typed /\ plan \in Seq(Cohorts) /\ reel \in Reels
  BY DEF IInv, Typed
<1>4. /\ Len(plan) \in Nat /\ Len(plan) >= 1 /\ ToSet(plan[1].passes) \in SUBSET Selected
  BY <1>1, <1>3, WaitingIs
<1>5. /\ Tail(plan) \in Seq(Cohorts) /\ Len(Tail(plan)) = Len(plan) - 1
      /\ \A i \in 1 .. Len(plan) - 1 : Tail(plan)[i] = plan[i + 1]
  BY <1>1, <1>3
<1>6. Typed'
  BY <1>1, <1>2, <1>5 DEF IInv, Typed, ChannelOK
<1>7. ASSUME NEW w \in ToSet(plan[1].passes)
      PROVE  reel.table[w] \in Settled
  <2>1. w \in Selected /\ w \in AllIds
    BY <1>4, PipelineAssumption
  <2>2. reel.table[w] \in {"queued", "done", "skipped"}
    BY <1>1, <1>3, <2>1 DEF IInv, Tabled, Reels
  <2> QED BY <1>1, <2>2 DEF Waiting, Settled
<1>8. Planned'
  <2>1. \A i \in 1 .. Len(plan) - 1 : i + 1 \in 1 .. Len(plan)
    BY <1>4
  <2>2. \A i \in 1 .. Len(plan') : Fits(plan'[i], card')
    BY <1>1, <1>5, <2>1 DEF IInv, Planned
  <2>3. ASSUME NEW j \in 1 .. Len(plan) - 1, NEW r \in ToSet(plan[j + 1].passes), NEW w \in Selected,
               Precedes(w, r), reel.table[w] \notin Settled
        PROVE  \E i \in 1 .. j : w \in ToSet(plan[i + 1].passes)
    <3>1. PICK i \in 1 .. j + 1 : w \in ToSet(plan[i].passes)
      BY <2>1, <2>3 DEF IInv, Planned
    <3>2. i # 1
      BY <1>7, <2>3, <3>1
    <3>3. i - 1 \in 1 .. j /\ (i - 1) + 1 = i
      BY <3>2
    <3> QED BY <3>1, <3>3
  <2>4. ASSUME NEW j \in 1 .. Len(plan'), NEW r \in ToSet(plan'[j].passes), NEW w \in Selected, Precedes(w, r)
        PROVE  reel'.table[w] \in Settled \/ \E i \in 1 .. j : w \in ToSet(plan'[i].passes)
    <3>1. j \in 1 .. Len(plan) - 1 /\ r \in ToSet(plan[j + 1].passes)
      BY <1>1, <1>5, <2>4
    <3>2. \A i \in 1 .. j : plan'[i] = plan[i + 1]
      BY <1>1, <1>4, <1>5, <3>1
    <3> QED BY <1>1, <2>3, <2>4, <3>1, <3>2
  <2> QED BY <2>2, <2>4 DEF Planned
<1>9. Tabled' /\ Visiting' /\ Resident' /\ NothingLost'
  BY <1>1 DEF IInv, Tabled, Visiting, Resident, NothingLost, Forgone
<1>10. Remembered'
  BY <1>1, <1>2 DEF IInv, Remembered, ChannelOK, SoundKept
<1> QED BY <1>6, <1>8, <1>9, <1>10 DEF IInv

\* An eviction takes only files, between visits.
LEMMA EvictKeeps == IInv /\ Evict => IInv'
<1> SUFFICES ASSUME IInv, Evict
             PROVE  IInv'
  OBVIOUS
<1>1. /\ reel' = [reel EXCEPT !.disk = {}] /\ spent.evictions < MaxEvictions
      /\ spent' = [spent EXCEPT !.evictions = spent.evictions + 1]
      /\ film' = film /\ born' = born /\ channel' = channel /\ card' = card
      /\ loaded' = loaded /\ plan' = plan /\ todo' = todo /\ unmade' = unmade
  BY DEF Evict
<1>2. /\ reel \in Reels /\ spent \in [deaths : 0 .. MaxDeaths, evictions : 0 .. MaxEvictions, failures : 0 .. MaxFailures]
  BY DEF IInv, Typed
<1>3. /\ reel' \in Reels /\ reel'.table = reel.table /\ reel'.row = reel.row /\ reel'.seen = reel.seen
      /\ reel'.store = reel.store /\ reel'.held = reel.held /\ reel'.disk = {}
  BY <1>1, <1>2 DEF Reels
<1>4. spent' \in [deaths : 0 .. MaxDeaths, evictions : 0 .. MaxEvictions, failures : 0 .. MaxFailures]
  BY <1>1, <1>2, PipelineAssumption
<1>5. Typed'
  BY <1>1, <1>3, <1>4 DEF IInv, Typed
<1>6. Planned' /\ Tabled' /\ Visiting' /\ Resident' /\ NothingLost'
  BY <1>1, <1>3 DEF IInv, Planned, Tabled, Visiting, Resident, NothingLost, Forgone
<1>7. Remembered'
  BY <1>1, <1>3 DEF IInv, Remembered, SoundKept
<1> QED BY <1>5, <1>6, <1>7 DEF IInv

\* A session that ends leaves no plan, no visit and nothing on the card.
LEMMA DiesLeaves ==
  ASSUME IInv, Dies
  PROVE  /\ plan' = <<>> /\ todo' = <<>> /\ loaded' = {}
         /\ spent' \in [deaths : 0 .. MaxDeaths, evictions : 0 .. MaxEvictions, failures : 0 .. MaxFailures]
         /\ Planned' /\ Visiting' /\ Resident'
<1>1. /\ plan' = <<>> /\ todo' = <<>> /\ loaded' = {}
      /\ spent' = [spent EXCEPT !.deaths = spent.deaths + 1] /\ spent.deaths < MaxDeaths
  BY DEF Dies, Unload
<1>2. spent \in [deaths : 0 .. MaxDeaths, evictions : 0 .. MaxEvictions, failures : 0 .. MaxFailures]
  BY DEF IInv, Typed
<1>3. spent' \in [deaths : 0 .. MaxDeaths, evictions : 0 .. MaxEvictions, failures : 0 .. MaxFailures]
  BY <1>1, <1>2, PipelineAssumption
<1>4. Planned' /\ Visiting' /\ Resident'
  BY <1>1 DEF Planned, Visiting, Resident
<1> QED BY <1>1, <1>3, <1>4

\* A session that ends leaves the reel as it is.
LEMMA RestartKeeps == IInv /\ Restart => IInv'
<1> SUFFICES ASSUME IInv, Restart
             PROVE  IInv'
  OBVIOUS
<1>1. /\ film' = film /\ born' = born /\ reel' = reel /\ channel' = channel /\ card' = card
      /\ Dies /\ unmade' = unmade
  BY DEF Restart
<1>2. /\ plan' = <<>> /\ todo' = <<>> /\ loaded' = {}
      /\ spent' \in [deaths : 0 .. MaxDeaths, evictions : 0 .. MaxEvictions, failures : 0 .. MaxFailures]
      /\ Planned' /\ Visiting' /\ Resident'
  BY <1>1, DiesLeaves
<1>3. plan' \in Seq(Cohorts) /\ todo' \in Seq(Selected)
  BY <1>2
<1>4. Typed'
  BY <1>1, <1>2, <1>3 DEF IInv, Typed
<1>5. Tabled' /\ NothingLost'
  BY <1>1, <1>2 DEF IInv, Tabled, NothingLost, Forgone
<1>6. Remembered'
  BY <1>1 DEF IInv, Remembered, SoundKept
<1> QED BY <1>2, <1>4, <1>5, <1>6 DEF IInv

\* A restored row knows what the ledger knows.
LEMMA RestoredRowIs ==
  ASSUME IInv, NEW importFirst
  PROVE  RestoredRow(importFirst) \in Rows /\ Knows(RestoredRow(importFirst), film, born)
<1>1. born \in Births /\ born \in Rows /\ channel.row \in Rows /\ channel.at \in BOOLEAN
  BY BirthIs DEF IInv, Typed
<1>2. CASE channel.at /\ importFirst
  <2> DEFINE row == RestoredRow(importFirst)
  <2>1. row = [channel.row EXCEPT !.dur = channel.row.dur \/ born.dur]
    BY <1>2 DEF RestoredRow, FilledIn
  <2>2. channel.row.dur \in BOOLEAN /\ born.dur \in BOOLEAN
    BY <1>1 DEF Rows
  <2> HIDE DEF row
  <2>3. row \in Rows /\ row.dur = (channel.row.dur \/ born.dur) /\ row.audio = channel.row.audio
    BY <1>1, <2>1, <2>2 DEF Rows
  <2>4. Knows(channel.row, film, born)
    BY <1>2 DEF IInv, Remembered
  <2>5. Knows(row, film, born)
    BY <2>3, <2>4 DEF Knows, Sounds
  <2> QED BY <2>3, <2>5 DEF row
<1>3. CASE ~(channel.at /\ importFirst)
  <2>1. RestoredRow(importFirst) = born
    BY <1>3 DEF RestoredRow
  <2> QED BY <1>1, <2>1, BornKnows
<1> QED BY <1>2, <1>3

\* A new container has what the channel remembers.
LEMMA NewContainerKeeps ==
  ASSUME NEW importFirst \in BOOLEAN
  PROVE  IInv /\ NewContainer(importFirst) => IInv'
<1> SUFFICES ASSUME IInv, NewContainer(importFirst)
             PROVE  IInv'
  OBVIOUS
<1> DEFINE row == RestoredRow(importFirst)
<1>1. /\ Dies /\ unmade' = {} /\ card' \in Cards /\ film' = film /\ born' = born /\ channel' = channel
      /\ reel' = [Fresh(row) EXCEPT !.store = channel.store, !.held = channel.held]
  BY DEF NewContainer, Probe
<1>2. row \in Rows /\ Knows(row, film, born)
  BY RestoredRowIs
<1> HIDE DEF row
<1>3. /\ plan' = <<>> /\ todo' = <<>> /\ loaded' = {}
      /\ spent' \in [deaths : 0 .. MaxDeaths, evictions : 0 .. MaxEvictions, failures : 0 .. MaxFailures]
      /\ Planned' /\ Visiting' /\ Resident'
  BY <1>1, DiesLeaves
<1>4. plan' \in Seq(Cohorts) /\ todo' \in Seq(Selected)
  BY <1>3
<1>5. ChannelOK(channel)
  BY ChannelIs
<1>6. /\ reel' \in Reels /\ reel'.row = row /\ reel'.seen = row
      /\ \A c \in AllIds : reel'.table[c] = "none"
      /\ reel'.store = channel.store /\ reel'.held = channel.held /\ reel'.disk = {}
  <2> DEFINE fresh == Fresh(row)
  <2>1. /\ fresh \in Reels /\ fresh.row = row /\ fresh.seen = row
        /\ \A c \in AllIds : fresh.table[c] = "none"
        /\ fresh.disk = {}
    BY <1>2, FreshIs
  <2>2. reel' = [fresh EXCEPT !.store = channel.store, !.held = channel.held]
    BY <1>1
  <2>3. channel.store \in SUBSET Kept /\ channel.held \in SUBSET {"proxy", "wav"}
    BY <1>5 DEF ChannelOK
  <2> HIDE DEF fresh
  <2> QED BY <2>1, <2>2, <2>3 DEF Reels
<1>7. Typed'
  BY <1>1, <1>3, <1>4, <1>5, <1>6 DEF IInv, Typed, ChannelOK
<1>8. Tabled'
  BY <1>3, <1>6 DEF Tabled
<1>9. NothingLost'
  BY <1>6, PipelineAssumption DEF NothingLost, Forgone
<1>10. Remembered'
  BY <1>1, <1>2, <1>5, <1>6, SilentIs DEF Remembered, ChannelOK, SoundKept
<1> QED BY <1>3, <1>7, <1>8, <1>9, <1>10 DEF IInv
-----------------------------------------------------------------------------
(* A pass is run *)

\* Whether the pass gets through or not, its own entry in the table is settled.
HasRun(f, r, c, x, out) ==
  /\ out \in Reels /\ out.seen = r.seen
  /\ out.table[c] = IF Clear(f, r, c, x) THEN "done" ELSE "skipped"
  /\ \A d \in AllIds \ {c} : out.table[d] = r.table[d]
  /\ out.store = IF Clear(f, r, c, x) /\ c \in Kept THEN r.store \cup {c} ELSE r.store
  /\ out.row = IF Clear(f, r, c, x) /\ c = "probe" THEN Measured(f) ELSE r.row
  /\ out.held = IF Clear(f, r, c, x) /\ c = "artifacts" THEN r.held \cup Built(f, r, c) ELSE r.held

\* A pass gets through, or is skipped.
LEMMA RunPassIs ==
  ASSUME NEW f, NEW r \in Reels, NEW c \in AllIds, NEW x
  PROVE  HasRun(f, r, c, x, RunPass(f, r, c, x))
<1> DEFINE out == RunPass(f, r, c, x)
<1>1. r.table \in [AllIds -> {"none", "queued", "done", "skipped"}]
  BY DEF Reels
<1>2. ASSUME Clear(f, r, c, x)
      PROVE  HasRun(f, r, c, x, out)
  <2>1. Through(f, r, c, x, out)
    BY <1>2, ClearLeaves
  <2> HIDE DEF out
  <2> QED BY <1>1, <1>2, <2>1 DEF Through, HasRun
<1>3. ASSUME ~Clear(f, r, c, x)
      PROVE  HasRun(f, r, c, x, out)
  <2>1. Stopped(f, r, c, x, out)
    BY <1>3, SkipLeaves
  <2> HIDE DEF out
  <2> QED BY <1>1, <1>3, <2>1 DEF Stopped, HasRun
<1> QED BY <1>2, <1>3, Zenon

\* What Work does when the rebuilds of x fail, and what is known of the pass it runs.
Worked(h, x) ==
  /\ todo # <<>> /\ plan # <<>> /\ h \in Selected /\ h \in AllIds
  /\ h \in ToSet(plan[1].passes) /\ Typed /\ reel \in Reels
  /\ reel' = RunPass(film, reel, h, x) /\ todo' = Tail(todo)
  /\ loaded' = loaded \cup Weights(film, reel, h, x)
  /\ film' = film /\ born' = born /\ channel' = channel /\ card' = card
  /\ plan' = plan
  /\ spent' \in [deaths : 0 .. MaxDeaths, evictions : 0 .. MaxEvictions, failures : 0 .. MaxFailures]
  /\ unmade' = IF x = {} THEN unmade ELSE unmade \cup {h}
  /\ HasRun(film, reel, h, x, reel')
LEMMA WorkIs ==
  ASSUME IInv, Work
  PROVE  \E x : Worked(Head(todo), x)
<1> DEFINE h == Head(todo)
<1>1. PICK x \in SUBSET Rebuilt(reel, Head(todo)) :
        /\ reel' = RunPass(film, reel, h, x)
        /\ loaded' = loaded \cup Weights(film, reel, h, x)
        /\ \/ x = {} /\ UNCHANGED <<unmade, spent>>
           \/ /\ x # {} /\ spent.failures < MaxFailures
              /\ unmade' = unmade \cup {h}
              /\ spent' = [spent EXCEPT !.failures = @ + 1]
  BY DEF Work
<1>7. /\ todo # <<>> /\ todo' = Tail(todo)
      /\ film' = film /\ born' = born /\ channel' = channel /\ card' = card /\ plan' = plan
  BY DEF Work
<1>2. Typed /\ reel \in Reels
  BY DEF IInv, Typed
<1>3. h \in Selected /\ h \in AllIds /\ h \in ToSet(todo)
  BY <1>7, <1>2, HeadIs
<1>4. plan # <<>> /\ h \in ToSet(plan[1].passes)
  BY <1>7, <1>3 DEF IInv, Visiting
<1> HIDE DEF h
<1>5. HasRun(film, reel, h, x, RunPass(film, reel, h, x))
  BY <1>2, <1>3, RunPassIs
<1>6. HasRun(film, reel, h, x, reel')
  BY <1>1, <1>5
<1>8. spent' \in [deaths : 0 .. MaxDeaths, evictions : 0 .. MaxEvictions, failures : 0 .. MaxFailures]
  <2>1. spent \in [deaths : 0 .. MaxDeaths, evictions : 0 .. MaxEvictions, failures : 0 .. MaxFailures]
    BY <1>2 DEF Typed
  <2> QED BY <1>1, <2>1, PipelineAssumption
<1>9. unmade' = IF x = {} THEN unmade ELSE unmade \cup {h}
  BY <1>1
<1>10. Worked(h, x)
  BY <1>1, <1>2, <1>3, <1>4, <1>6, <1>7, <1>8, <1>9, Zenon DEF Worked
<1> QED BY <1>10 DEF h

\* What a pass makes resident was counted for its cohort, or is the borrowed tower.
LEMMA WeightsAreCounted ==
  ASSUME NEW h \in Selected, NEW f, NEW r, NEW x, NEW co, Counted(co), h \in ToSet(co.passes)
  PROVE  /\ Weights(f, r, h, x) \subseteq co.keys \cup {Borrowed}
         /\ Weights(f, r, h, x) \subseteq Runner[h].loads
<1>1. h \in AllIds
  BY PipelineAssumption
<1>2. Weights(f, r, h, x) \subseteq Runner[h].loads
  BY DEF Weights
<1>3. CASE Catalogue[h].gpu
  <2>1. Catalogue[h].key \in co.keys
    BY <1>3 DEF Counted
  <2>2. Runner[h].loads \subseteq {Catalogue[h].key, Borrowed}
    BY <1>1, RunnersAreSound
  <2> QED BY <1>2, <2>1, <2>2
<1>4. CASE ~Catalogue[h].gpu
  <2>1. Runner[h].loads \subseteq {Borrowed}
    BY <1>1, <1>4, RunnersAreSound
  <2> QED BY <1>2, <2>1
<1> QED BY <1>2, <1>3, <1>4

\* A pass that needed the shots, however indirectly, found them in the store.
LEMMA ShotsFound ==
  ASSUME NEW f, NEW r \in Reels, NEW c \in AllIds, NEW x, Clear(f, r, c, x), "shots" \in Closure(c),
         "keyframes" \in r.disk => "shots" \in r.store
  PROVE  "shots" \in r.store
<1> DEFINE ready == EnsureInputs(f, r, c, x)
<1>1. ready.store = r.store /\ ("keyframes" \in ready.disk => "shots" \in r.store)
  BY EnsureIs
<1>2. Demands(f, ready, c)
  BY DEF Clear
<1> HIDE DEF ready
<1>3. CASE "keyframes" \in Runner[c].files
  BY <1>1, <1>2, <1>3 DEF Demands
<1>4. CASE "shots" \in Runner[c].facts
  <2>1. "shots" \in Facts(f, ready)
    BY <1>2, <1>4 DEF Demands
  <2>2. PICK d \in r.store : "shots" \in Runner[d].finds
    BY <1>1, <2>1 DEF Facts
  <2>3. d \in AllIds
    BY <2>2, SilentIs DEF Reels
  <2>4. d = "shots"
    BY <2>2, <2>3, RunnersAreSound
  <2> QED BY <2>2, <2>4
<1> QED BY <1>3, <1>4, RunnersAreSound

\* The pass in hand has its turn.
LEMMA WorkKeeps == IInv /\ Work => IInv'
<1> SUFFICES ASSUME IInv, Work
             PROVE  IInv'
  OBVIOUS
<1> DEFINE h == Head(todo)
<1>a. PICK x : Worked(h, x)
  BY WorkIs
<1>1. /\ todo # <<>> /\ plan # <<>> /\ h \in Selected /\ h \in AllIds
      /\ h \in ToSet(plan[1].passes) /\ Typed /\ reel \in Reels
      /\ reel' = RunPass(film, reel, h, x) /\ todo' = Tail(todo)
      /\ loaded' = loaded \cup Weights(film, reel, h, x)
      /\ film' = film /\ born' = born /\ channel' = channel /\ card' = card
      /\ plan' = plan
      /\ spent' \in [deaths : 0 .. MaxDeaths, evictions : 0 .. MaxEvictions, failures : 0 .. MaxFailures]
      /\ unmade' = IF x = {} THEN unmade ELSE unmade \cup {h}
      /\ HasRun(film, reel, h, x, reel')
  BY <1>a DEF Worked
<1>2. /\ Tail(todo) \in Seq(Selected) /\ Len(Tail(todo)) = Len(todo) - 1 /\ Len(todo) \in Nat
      /\ \A i \in 1 .. Len(todo) - 1 : Tail(todo)[i] = todo[i + 1]
      /\ ToSet(todo) = ToSet(Tail(todo)) \cup {h}
  BY <1>1, HeadIs
<1>3. film \in Films /\ born \in Births /\ \A c \in Selected : c \in AllIds
  BY PipelineAssumption DEF IInv, Typed
<1>4. ASSUME NEW w \in Selected, Precedes(w, h)
      PROVE  reel.table[w] \in Settled
  BY <1>1, <1>4, TurnsTaken DEF IInv
<1>5. Outcome(film, born)[h] # "skipped" /\ x = {} /\ Leans[h] \cap Forgone = {}
        => Clear(film, reel, h, x)
  BY <1>1, ClearAgain
<1>15. "artifacts" = h => Clear(film, reel, h, x)
  BY <1>1, SilentIs, RunnersAreSound DEF Clear, Demands, Answers, Stalled
<1> HIDE DEF h
<1>6. /\ reel' \in Reels /\ reel'.seen = reel.seen
      /\ reel'.table[h] = IF Clear(film, reel, h, x) THEN "done" ELSE "skipped"
      /\ \A d \in AllIds \ {h} : reel'.table[d] = reel.table[d]
      /\ reel'.store = IF Clear(film, reel, h, x) /\ h \in Kept THEN reel.store \cup {h} ELSE reel.store
      /\ reel'.row = IF Clear(film, reel, h, x) /\ h = "probe" THEN Measured(film) ELSE reel.row
      /\ reel'.held = IF Clear(film, reel, h, x) /\ h = "artifacts"
                        THEN reel.held \cup Built(film, reel, h) ELSE reel.held
  BY <1>1 DEF HasRun
<1>7. \A w \in AllIds : reel.table[w] \in Settled \/ w = h => reel'.table[w] \in Settled
  BY <1>6 DEF Settled
<1>8. /\ Weights(film, reel, h, x) \subseteq plan[1].keys \cup {Borrowed}
      /\ Weights(film, reel, h, x) \subseteq Runner[h].loads
  <2>1. plan \in Seq(Cohorts) /\ 1 \in 1 .. Len(plan)
    BY <1>1, WaitingIs DEF Typed
  <2>2. Counted(plan[1])
    BY <2>1 DEF IInv, Planned, Fits
  <2> QED BY <1>1, <2>2, WeightsAreCounted
<1>9. Typed'
  <2>1. loaded' \in SUBSET UNION {Runner[c].loads : c \in Selected}
    BY <1>1, <1>8 DEF Typed
  <2> QED BY <1>1, <1>2, <1>6, <2>1 DEF Typed
<1>10. Planned'
  BY <1>1, <1>3, <1>7 DEF IInv, Planned
<1>11. Tabled'
  BY <1>1, <1>3, <1>6 DEF IInv, Tabled
<1>12. Visiting'
  <2>1. ToSet(Tail(todo)) \subseteq ToSet(plan[1].passes)
    BY <1>1, <1>2 DEF IInv, Visiting
  <2>2. ASSUME NEW c \in ToSet(plan[1].passes)
        PROVE  reel'.table[c] \in Settled \/ c \in ToSet(Tail(todo))
    <3>1. c \in AllIds
      BY <1>1, <1>3, WaitingIs
    <3>2. reel.table[c] \in Settled \/ c \in ToSet(todo)
      BY <1>1 DEF IInv, Visiting
    <3> QED BY <1>2, <1>7, <3>1, <3>2
  <2>3. ASSUME NEW i \in 1 .. Len(Tail(todo)), NEW j \in 1 .. Len(Tail(todo)), i < j
        PROVE  ~Precedes(Tail(todo)[j], Tail(todo)[i]) /\ Tail(todo)[j] # Tail(todo)[i]
    <3>1. /\ Tail(todo)[j] = todo[j + 1] /\ Tail(todo)[i] = todo[i + 1]
          /\ i + 1 \in 1 .. Len(todo) /\ j + 1 \in 1 .. Len(todo) /\ i + 1 < j + 1
      BY <1>2, <2>3
    <3>2. ~Precedes(todo[j + 1], todo[i + 1]) /\ todo[j + 1] # todo[i + 1]
      BY <1>1, <3>1 DEF IInv, Visiting
    <3> QED BY <3>1, <3>2
  <2>4. ASSUME NEW c \in ToSet(Tail(todo))
        PROVE  reel'.table[c] # "skipped"
    <3>1. c \in ToSet(todo) /\ reel.table[c] # "skipped" /\ c \in AllIds
      BY <1>1, <1>2, <1>3, SeqSet DEF IInv, Visiting
    <3>2. PICK i \in 1 .. Len(Tail(todo)) : c = Tail(todo)[i]
      <4>1. ToSet(Tail(todo)) = {Tail(todo)[i] : i \in 1 .. Len(Tail(todo))}
        BY <1>2, SeqSet
      <4> QED BY <2>4, <4>1
    <3>3. 1 \in 1 .. Len(todo) /\ i + 1 \in 1 .. Len(todo) /\ 1 < i + 1 /\ c = todo[i + 1]
      BY <1>2, <3>2
    <3>4. c # todo[1] /\ todo[1] = h
      BY <1>1, <3>3, HeadIs DEF IInv, Visiting, h
    <3> QED BY <1>6, <3>1, <3>4
  <2> QED BY <1>1, <2>1, <2>2, <2>3, <2>4 DEF Visiting
<1>13. Resident'
  BY <1>1, <1>8 DEF IInv, Resident
<1>14. NothingLost'
  <2>1. /\ Forgone = {c \in Selected : reel.table[c] = "skipped" /\ Outcome(film, born)[c] # "skipped"}
        /\ Forgone' = {c \in Selected : reel'.table[c] = "skipped" /\ Outcome(film, born)[c] # "skipped"}
    <3>1. Undisturbed[film][born] = Outcome(film, born)
      BY <1>1, UndisturbedIs
    <3> QED BY <1>1, <3>1 DEF Forgone
  <2>2. reel.table[h] # "skipped"
    BY <1>1, <1>2 DEF IInv, Visiting
  <2>3. Forgone \subseteq Forgone'
    BY <1>3, <1>6, <2>1, <2>2
  <2>4. ASSUME NEW c \in Forgone'
        PROVE  c \in unmade' \/ Leans[c] \cap Forgone' # {}
    <3>1. CASE c = h
      <4>1. ~Clear(film, reel, h, x) /\ Outcome(film, born)[h] # "skipped"
        BY <1>6, <2>1, <2>4, <3>1
      <4>2. x # {} \/ Leans[h] \cap Forgone # {}
        BY <1>5, <4>1
      <4> QED BY <1>1, <2>3, <3>1, <4>2
    <3>2. CASE c # h
      <4>1. c \in Forgone
        BY <1>3, <1>6, <2>1, <2>4, <3>2
      <4>2. c \in unmade \/ Leans[c] \cap Forgone # {}
        BY <4>1 DEF IInv, NothingLost
      <4> QED BY <1>1, <2>3, <4>2
    <3> QED BY <3>1, <3>2
  <2> QED BY <2>4 DEF NothingLost
<1>16. Remembered'
  <2>1. Knows(reel'.row, film, born) /\ Knows(reel'.seen, film, born)
    BY <1>6 DEF IInv, Remembered, Knows, Measured, Sounds
  <2>2. ShotsKept(reel'.store)
    <3>1. Clear(film, reel, h, x) /\ "shots" \in Closure(h) => "shots" \in reel.store
      BY <1>1, ShotsFound DEF IInv, Remembered
    <3> QED BY <1>6, <3>1 DEF IInv, Remembered, ShotsKept
  <2>3. ASSUME "artifacts" \in Selected, Sounds(film, born)
        PROVE  /\ h = "artifacts" => "wav" \in reel'.held
               /\ "artifacts" \in Closure(h) => "wav" \in reel'.held
    <3>1. CASE h = "artifacts"
      <4>1. "wav" \in Built(film, reel, h)
        BY <1>1, <2>3, <3>1, SoundIsThere, BuiltIs
      <4>2. "wav" \in reel'.held
        BY <1>6, <1>15, <3>1, <4>1
      <4> QED BY <4>2
    <3>2. CASE h # "artifacts" /\ "artifacts" \in Closure(h)
      <4>1. reel.table["artifacts"] \in Settled
        BY <1>1, <1>4, <2>3, <3>2, CatalogueIsSound
      <4>2. reel.table["artifacts"] = "done"
        BY <2>3, <4>1 DEF IInv, Remembered, Settled
      <4> QED BY <1>6, <2>3, <3>2, <4>2 DEF IInv, Remembered
    <3> QED BY <3>1, <3>2
  <2>4. reel.held \subseteq reel'.held
    BY <1>6
  <2>5. SoundKept(reel.store, reel.held)' /\ SoundKept(channel.store, channel.held)'
    <3>1. \A c \in reel'.store : c \in reel.store \/ c = h
      BY <1>6
    <3> QED BY <1>1, <2>3, <2>4, <3>1 DEF IInv, Remembered, SoundKept
  <2>6. "keyframes" \in reel'.disk => "shots" \in reel'.store
    BY <1>1, FramesHaveShots DEF IInv, Remembered
  <2>7. \A c \in Kept : reel'.table[c] = "done" => c \in reel'.store
    <3>1. \A c \in Kept : c \in AllIds
      BY SilentIs
    <3> QED BY <1>6, <3>1 DEF IInv, Remembered
  <2>8. "artifacts" \in Selected => reel'.table["artifacts"] # "skipped"
    BY <1>3, <1>6, <1>15 DEF IInv, Remembered
  <2>9. ASSUME "artifacts" \in Selected, Sounds(film, born), reel'.table["artifacts"] = "done"
        PROVE  "wav" \in reel'.held
    <3>1. CASE h = "artifacts"
      BY <2>3, <2>9, <3>1
    <3>2. CASE h # "artifacts"
      BY <1>3, <1>6, <2>4, <2>9, <3>2 DEF IInv, Remembered
    <3> QED BY <3>1, <3>2
  <2>10. channel'.at => Knows(channel'.row, film, born)
    BY <1>1 DEF IInv, Remembered
  <2>11. ShotsKept(channel'.store)
    BY <1>1 DEF IInv, Remembered
  <2> QED BY <1>1, <2>1, <2>2, <2>5, <2>6, <2>7, <2>8, <2>9, <2>10, <2>11 DEF Remembered
<1> QED BY <1>9, <1>10, <1>11, <1>12, <1>13, <1>14, <1>16 DEF IInv
-----------------------------------------------------------------------------
(* The theorems *)

\* Nothing happens.
LEMMA StutterKeeps == IInv /\ UNCHANGED vars => IInv'
<1> SUFFICES ASSUME IInv, UNCHANGED vars
             PROVE  IInv'
  OBVIOUS
<1>1. /\ film' = film /\ born' = born /\ reel' = reel /\ channel' = channel /\ card' = card
      /\ loaded' = loaded /\ plan' = plan /\ todo' = todo /\ unmade' = unmade /\ spent' = spent
  BY DEF vars
<1>2. Typed'
  BY <1>1 DEF IInv, Typed
<1>3. Planned' /\ Tabled' /\ Visiting' /\ Resident' /\ NothingLost'
  BY <1>1 DEF IInv, Planned, Tabled, Visiting, Resident, NothingLost, Forgone
<1>4. Remembered'
  BY <1>1 DEF IInv, Remembered, SoundKept
<1> QED BY <1>2, <1>3, <1>4 DEF IInv

\* Every step keeps the invariant.
LEMMA StepKeeps == IInv /\ [Next]_vars => IInv'
<1> SUFFICES ASSUME IInv, [Next]_vars
             PROVE  IInv'
  OBVIOUS
<1>1. CASE Rotate
  BY <1>1, RotateKeeps
<1>2. CASE Visit
  BY <1>2, VisitKeepsIInv
<1>3. CASE Work
  BY <1>3, WorkKeeps
<1>4. CASE PublishDue
  BY <1>4, PublishDueKeeps
<1>5. CASE CohortEnds
  BY <1>5, CohortEndsKeeps
<1>6. CASE Evict
  BY <1>6, EvictKeeps
<1>7. CASE Restart
  BY <1>7, RestartKeeps
<1>8. CASE \E importFirst \in BOOLEAN : NewContainer(importFirst)
  BY <1>8, NewContainerKeeps
<1>9. CASE UNCHANGED vars
  BY <1>9, StutterKeeps
<1> QED BY <1>1, <1>2, <1>3, <1>4, <1>5, <1>6, <1>7, <1>8, <1>9 DEF Next

\* The inductive invariant holds in every state.
THEOREM InductiveInvariant == Spec => []IInv
<1>1. Init => IInv
  BY InitIsIInv
<1>2. IInv /\ [Next]_vars => IInv'
  BY StepKeeps
<1> QED BY <1>1, <1>2, PTL DEF Spec

\* Whoever writes what a pass reads precedes it, declared in the catalogue or not, and
\* has had its turn when the pass begins.
LEMMA IInvGivesOrder == IInv => PipelineInv
<1> SUFFICES ASSUME IInv
             PROVE  PipelineInv
  OBVIOUS
<1>1. PipelineTypeOK
  <2>1. /\ film \in Films /\ born \in Births /\ card \in Cards /\ reel \in Reels
        /\ channel \in [at : BOOLEAN, row : Rows, store : SUBSET Kept, held : SUBSET {"proxy", "wav"}]
        /\ loaded \in SUBSET UNION {Runner[c].loads : c \in Selected}
        /\ todo \in Seq(Selected) /\ unmade \in SUBSET Selected
        /\ spent \in [deaths : 0 .. MaxDeaths, evictions : 0 .. MaxEvictions, failures : 0 .. MaxFailures]
    BY DEF IInv, Typed
  <2>2. {reel.row, reel.seen, channel.row} \subseteq [dur : BOOLEAN, audio : {"unknown", "yes", "no"}]
    BY <2>1 DEF Reels, Rows
  <2>3. /\ reel.table \in [AllIds -> {"none", "queued", "done", "skipped"}]
        /\ reel.store \cup channel.store \subseteq Writers \cup {"shots"}
        /\ reel.held \cup channel.held \subseteq {"proxy", "wav"}
        /\ reel.disk \subseteq {"proxy", "wav", "keyframes", "allframes"}
    BY <2>1 DEF Reels, Kept, Files
  <2>4. ToSet(todo) \subseteq Selected
    BY <2>1, SeqSet
  <2> QED BY <2>1, <2>2, <2>3, <2>4 DEF PipelineTypeOK
<1>2. WritersBeforeReaders
  <2>1. SUFFICES ASSUME todo # <<>>, NEW c \in Selected \ {Head(todo)},
                        Runner[c].finds \cap Reads(Head(todo)) # {}
                 PROVE  reel.table[c] \in Settled
    BY DEF WritersBeforeReaders
  <2>2. c \in AllIds \ {Head(todo)} /\ Head(todo) \in AllIds
    BY <2>1, HeadIs, PipelineAssumption DEF IInv
  <2>3. Precedes(c, Head(todo))
    BY <2>1, <2>2, RunnersAreSound
  <2> QED BY <2>1, <2>3, TurnsTaken DEF IInv
<1> QED BY <1>1, <1>2 DEF PipelineInv

\* The weights on the card are among those counted for the current cohort, but for the
\* borrowed tower, and a cohort either is within the budget or is one pass alone.
LEMMA IInvGivesRoom == IInv => FitsTheCard
<1> SUFFICES ASSUME IInv, loaded # {}
             PROVE  /\ loaded \ plan[1].keys \subseteq {Borrowed}
                    /\ \/ SumOf(loaded \ {Borrowed}) <= Budget(card)
                       \/ \E c \in Selected : Alone(c)
  BY DEF FitsTheCard
<1>1. Typed /\ plan # <<>> /\ loaded \subseteq plan[1].keys \cup {Borrowed}
  BY DEF IInv, Resident
<1>2. Fits(plan[1], card) /\ card \in Cards
  BY <1>1, WaitingIs DEF IInv, Planned, Typed
<1> DEFINE own  == loaded \ {Borrowed}
           keys == plan[1].keys
<1>3. own \subseteq keys /\ keys \in SUBSET Keys /\ Budget(card) \in Nat
  BY <1>1, <1>2, BudgetIs DEF Fits, Counted, Cohorts
<1>4. CASE plan[1].vram <= Budget(card)
  <2>1. plan[1].vram = SumOf(keys) /\ plan[1].vram \in Nat
    BY <1>2 DEF Fits, Counted, Cohorts
  <2>2. SumOf(own) <= SumOf(keys) /\ SumOf(own) \in Nat
    BY <1>3, SumOfPart, SumIsNat
  <2>3. SumOf(own) <= Budget(card)
    BY <1>3, <1>4, <2>1, <2>2
  <2> QED BY <1>1, <2>3
<1>5. CASE \E c \in Selected : /\ keys = {Catalogue[c].key}
                               /\ Catalogue[c].vram <= card.usable * Catalogue[c].cards
  <2>1. PICK c \in Selected : /\ keys = {Catalogue[c].key}
                              /\ Catalogue[c].vram <= card.usable * Catalogue[c].cards
    BY <1>5
  <2>2. CASE own = {}
    <3>1. SumOf(own) = 0
      BY <2>2, SumUnfolds
    <3>2. SumOf(own) <= Budget(card)
      BY <1>3, <3>1
    <3> QED BY <1>1, <3>2
  <2>3. CASE own # {}
    <3>1. own = {Catalogue[c].key}
      BY <1>3, <2>1, <2>3
    <3>2. Alone(c)
      BY <2>1, <3>1 DEF Alone
    <3> QED BY <1>1, <3>2
  <2> QED BY <2>2, <2>3
<1>6. plan[1].vram <= Budget(card) \/ \E c \in Selected : /\ keys = {Catalogue[c].key}
                                     /\ Catalogue[c].vram <= card.usable * Catalogue[c].cards
  BY <1>2 DEF Fits
<1> QED BY <1>4, <1>5, <1>6

\* A pass begins only when every writer of what it reads has had its turn, and every
\* state has its types.
THEOREM WritersComeFirst == Spec => []PipelineInv
BY InductiveInvariant, IInvGivesOrder, PTL

\* What is resident on the card of the machine is within what the plan was made for.
THEOREM ResidentFits == Spec => []FitsTheCard
BY InductiveInvariant, IInvGivesRoom, PTL

\* No eviction, no cut into cohorts, no death and no new container makes a video lose a
\* pass that one undisturbed visit would not have skipped: only a rebuild that failed
\* for it does, or for a pass it builds on.
THEOREM NothingIsLost == Spec => []NothingLost
<1>1. IInv => NothingLost
  BY DEF IInv
<1> QED BY <1>1, InductiveInvariant, PTL
=============================================================================
