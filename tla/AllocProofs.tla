---------------------------- MODULE AllocProofs ----------------------------
(***************************************************************************)
(* What the space allocator promises, for any device and interleave        *)
(* parameters: an allocation takes units that were free or changes         *)
(* nothing, and the bitmap of a log covers exactly what is logged.         *)
(***************************************************************************)
EXTENDS Alloc, FiniteSetTheorems, WellFoundedInduction, TLAPS

(* The units of a file map, and of the superblock and the log. *)
Units(fmap) == UNION {Bits(fmap[k]) : k \in DOMAIN fmap}
MetaUnits == 0 .. MetaBits - 1

Apart(fmap) ==
  \A j, k \in DOMAIN fmap : j # k => Bits(fmap[j]) \cap Bits(fmap[k]) = {}

(* The units in use by the entries l of a log; whether each is used once. *)
UnitsOf(l) == MetaUnits \cup UNION {Units(l[i].fmap) : i \in DOMAIN l}
ApartIn(l) ==
  /\ \A i \in DOMAIN l : /\ Apart(l[i].fmap)
                         /\ Units(l[i].fmap) \cap MetaUnits = {}
  /\ \A i, k \in DOMAIN l :
       i # k => Units(l[i].fmap) \cap Units(l[k].fmap) = {}

-----------------------------------------------------------------------------
(***************************************************************************)
(* Induction over the natural numbers in first-order form.                 *)
(***************************************************************************)
(* A set of natural numbers that is not empty has a least element. *)
LEMMA LeastNumber ==
  ASSUME NEW T \in SUBSET Nat, T # {}
  PROVE  \E x \in T : \A y \in T : x <= y
<1> DEFINE Q == OpToRel(<, Nat)
<1>1. IsWellFoundedOn(Q, Nat)
  BY NatLessThanWellFounded, Zenon
<1>2. \A a, b \in Nat : <<a, b>> \in Q <=> a < b
  BY SMT DEF OpToRel
<1> HIDE DEF Q
<1>3. \E x \in T : \A y \in T : ~ (<<y, x>> \in Q)
  BY <1>1, WFMin, Zenon
<1>4. PICK x \in T : \A y \in T : ~ (<<y, x>> \in Q)
  BY <1>3
<1>5. \A y \in T : ~ (y < x)
  BY <1>2, <1>4, Zenon
<1> QED
  BY <1>5, x \in Nat, \A y \in T : y \in Nat, SMT

(* Induction, for a set in place of a predicate. *)
LEMMA NatInd ==
  ASSUME NEW S, 0 \in S, \A n \in Nat : n \in S => n + 1 \in S
  PROVE  Nat \subseteq S
<1> DEFINE T == {n \in Nat : n \notin S}
<1> SUFFICES ASSUME T # {} PROVE FALSE
  BY Zenon
<1>1. T \in SUBSET Nat
  BY Zenon
<1> HIDE DEF T
<1>2. PICK x \in T : \A y \in T : x <= y
  BY <1>1, LeastNumber, Zenon
<1>3. x \in Nat /\ x \notin S
  BY <1>2 DEF T
<1>4. x # 0
  BY <1>3, Zenon
<1>5. x - 1 \in Nat /\ ~ (x <= x - 1) /\ (x - 1) + 1 = x
  BY <1>3, <1>4, SMT
<1>6. x - 1 \in S
  BY <1>2, <1>5, Zenon DEF T
<1> QED
  BY <1>3, <1>5, <1>6, Zenon

LEMMA LenProperties ==
  ASSUME NEW S, NEW s \in Seq(S)
  PROVE  Len(s) \in Nat /\ s \in [1 .. Len(s) -> S] /\ DOMAIN s = 1 .. Len(s)
OBVIOUS

-----------------------------------------------------------------------------
(***************************************************************************)
(* Loops.  A loop of N turns that stays in a set V of values, turn k of    *)
(* which maps a value v to F[k][v], has values r[0] to r[N].               *)
(***************************************************************************)
LoopOf(r, N, V, base, F) ==
  /\ r \in [0 .. N -> V]
  /\ r[0] = base
  /\ \A k \in 1 .. N : r[k] = F[k][r[k - 1]]

LEMMA LoopExists ==
  ASSUME NEW N \in Nat, NEW V, NEW base \in V, NEW F \in [1 .. N -> [V -> V]]
  PROVE  \E r : LoopOf(r, N, V, base, F)
<1> DEFINE S == {n \in Nat : n <= N => \E r : LoopOf(r, n, V, base, F)}
<1>1. 0 \in S
  <2> DEFINE r == [k \in 0 .. 0 |-> base]
  <2>1. LoopOf(r, 0, V, base, F)
    BY DEF LoopOf
  <2> HIDE DEF r
  <2> QED
    BY <2>1
<1>2. ASSUME NEW n \in Nat, n \in S PROVE n + 1 \in S
  <2> SUFFICES ASSUME n + 1 <= N PROVE \E r : LoopOf(r, n + 1, V, base, F)
    OBVIOUS
  <2>1. n <= N /\ n + 1 \in 1 .. N /\ n \in 0 .. n /\ 0 # n + 1
    OBVIOUS
  <2>2. PICK g : LoopOf(g, n, V, base, F)
    BY <1>2, <2>1
  <2> DEFINE h == [k \in 0 .. n + 1 |-> IF k = n + 1 THEN F[n + 1][g[n]] ELSE g[k]]
  <2>3. /\ g \in [0 .. n -> V] /\ g[0] = base
        /\ \A k \in 1 .. n : g[k] = F[k][g[k - 1]]
    BY <2>2 DEF LoopOf
  <2>4. F[n + 1] \in [V -> V] /\ g[n] \in V
    BY <2>1, <2>3
  <2>5. F[n + 1][g[n]] \in V
    BY <2>4
  <2>6. \A k \in 0 .. n + 1 : k \in 0 .. n \/ k = n + 1
    OBVIOUS
  <2>7. \A k \in 0 .. n : k \in 0 .. n + 1 /\ k # n + 1
    OBVIOUS
  <2>8. \A k \in 0 .. n : h[k] = g[k]
    BY <2>7
  <2>9. n + 1 \in 0 .. n + 1 /\ h[n + 1] = F[n + 1][g[n]]
    OBVIOUS
  <2>10. h \in [0 .. n + 1 -> V]
    BY <2>3, <2>5, <2>6
  <2> HIDE DEF h
  <2>11. ASSUME NEW k \in 1 .. n + 1 PROVE h[k] = F[k][h[k - 1]]
    <3>1. CASE k = n + 1
      <4>1. k - 1 = n /\ h[n] = g[n]
        BY <2>1, <2>8, <3>1
      <4> QED
        BY <2>9, <3>1, <4>1
    <3>2. CASE k # n + 1
      <4>1. k \in 1 .. n /\ k \in 0 .. n /\ k - 1 \in 0 .. n
        BY <3>2
      <4> QED
        BY <2>3, <2>8, <4>1
    <3> QED
      BY <3>1, <3>2
  <2>12. h[0] = base
    BY <2>3, <2>8
  <2>13. LoopOf(h, n + 1, V, base, F)
    BY <2>10, <2>11, <2>12 DEF LoopOf
  <2> QED
    BY <2>13
<1>3. N \in S
  <2> HIDE DEF S
  <2> QED
    BY <1>1, <1>2, NatInd
<1> QED
  BY <1>3

(* A sequence of values that never leaves V in one turn stays in V. *)
LEMMA LoopStays ==
  ASSUME NEW N \in Nat, NEW V, NEW r, r[0] \in V,
         \A k \in 1 .. N : r[k - 1] \in V => r[k] \in V
  PROVE  \A k \in 0 .. N : r[k] \in V
<1> DEFINE S == {n \in Nat : n <= N => r[n] \in V}
<1>1. 0 \in S
  OBVIOUS
<1>2. ASSUME NEW n \in Nat, n \in S PROVE n + 1 \in S
  <2> SUFFICES ASSUME n + 1 <= N PROVE r[n + 1] \in V
    OBVIOUS
  <2>1. n <= N /\ n + 1 \in 1 .. N /\ (n + 1) - 1 = n
    OBVIOUS
  <2> QED
    BY <1>2, <2>1
<1>3. Nat \subseteq S
  <2> HIDE DEF S
  <2> QED
    BY <1>1, <1>2, NatInd
<1> QED
  BY <1>3
-----------------------------------------------------------------------------
(***************************************************************************)
(* The bitmap of a log.                                                    *)
(***************************************************************************)
Extent == [ofs : Nat, len : Nat]
Bitmaps == [bitmap : SUBSET Int, errors : Nat]

LEMMA SetExtent ==
  ASSUME NEW b \in Bitmaps, NEW e \in Extent
  PROVE  /\ set_extent_in_bitmap(b, e) \in Bitmaps
         /\ set_extent_in_bitmap(b, e).bitmap = b.bitmap \cup Bits(e)
         /\ b.bitmap \cap Bits(e) = {} =>
              set_extent_in_bitmap(b, e).errors = b.errors
<1>1. b.bitmap \in SUBSET Int /\ b.errors \in Nat /\ e.ofs \in Nat /\ e.len \in Nat
  BY DEF Bitmaps, Extent
<1>2. Bits(e) \in SUBSET Int
  BY <1>1 DEF Bits
<1>3. IsFiniteSet(b.bitmap \cap Bits(e))
  <2>1. IsFiniteSet(Bits(e))
    <3>1. e.ofs \in Int /\ e.ofs + e.len - 1 \in Int
      BY <1>1
    <3> QED
      BY <3>1, FS_Interval DEF Bits
  <2> QED
    BY <2>1, FS_Intersection
<1>4. Cardinality(b.bitmap \cap Bits(e)) \in Nat
  BY <1>3, FS_CardinalityType
<1>5. Cardinality({}) = 0
  BY FS_EmptySet
<1>6. b.errors + Cardinality(b.bitmap \cap Bits(e)) \in Nat
  BY <1>1, <1>4
<1>7. b.errors + 0 = b.errors
  BY <1>1
<1>8. set_extent_in_bitmap(b, e) \in Bitmaps
  BY <1>1, <1>2, <1>6 DEF set_extent_in_bitmap, Bitmaps
<1>9. /\ set_extent_in_bitmap(b, e).bitmap = b.bitmap \cup Bits(e)
      /\ set_extent_in_bitmap(b, e).errors =
           b.errors + Cardinality(b.bitmap \cap Bits(e))
  BY SMTT(30) DEF set_extent_in_bitmap
<1> QED
  BY <1>5, <1>7, <1>8, <1>9, SMTT(30)

(* r[k]: the bitmap after k extents of a file map. *)
FmapTurns(r, n, b, e) ==
  /\ r \in [0 .. n -> Bitmaps]
  /\ r[0] = b
  /\ \A k \in 1 .. n : r[k] = set_extent_in_bitmap(r[k - 1], e.fmap[k])
  /\ set_fmap_in_bitmap(b, e) = r[n]

LEMMA FmapLoop ==
  ASSUME NEW b \in Bitmaps, NEW e, NEW n \in Nat, e.fmap \in [1 .. n -> Extent],
         n = Len(e.fmap)
  PROVE  \E r : FmapTurns(r, n, b, e)
<1> DEFINE F == [k \in 1 .. n |-> [v \in Bitmaps |-> set_extent_in_bitmap(v, e.fmap[k])]]
           Turns(g) == g = [k \in 0 .. n |->
                              IF k = 0 THEN b ELSE set_extent_in_bitmap(g[k - 1], e.fmap[k])]
           it == CHOOSE g : Turns(g)
<1>1. \A k \in 1 .. n, v \in Bitmaps : set_extent_in_bitmap(v, e.fmap[k]) \in Bitmaps
  BY SetExtent
<1>2. F \in [1 .. n -> [Bitmaps -> Bitmaps]]
  BY <1>1
<1>3. \E g : Turns(g)
  <2>1. PICK g : LoopOf(g, n, Bitmaps, b, F)
    <3> HIDE DEF F
    <3> QED
      BY <1>2, LoopExists, Zenon
  <2>2. /\ g \in [0 .. n -> Bitmaps] /\ g[0] = b
        /\ \A k \in 1 .. n : g[k] = F[k][g[k - 1]]
    BY <2>1, Zenon DEF LoopOf
  <2>3. ASSUME NEW k \in 1 .. n PROVE g[k] = set_extent_in_bitmap(g[k - 1], e.fmap[k])
    <3>1. g[k - 1] \in Bitmaps
      BY <2>2
    <3> QED
      BY <2>2, <3>1, Zenon
  <2>4. Turns(g)
    <3>1. \A k \in 0 .. n : k = 0 \/ k \in 1 .. n
      OBVIOUS
    <3> HIDE DEF F
    <3> QED
      BY <2>2, <2>3, <3>1
  <2> QED
    BY <2>4
<1>4. Turns(it)
  BY <1>3, Zenon
<1>5. set_fmap_in_bitmap(b, e) = it[n]
  BY DEF set_fmap_in_bitmap
<1> HIDE DEF it
<1>6. it = [k \in 0 .. n |-> it[k]] /\ it[0] = b
  BY <1>4
<1>7. \A k \in 1 .. n : it[k] = set_extent_in_bitmap(it[k - 1], e.fmap[k])
  BY <1>4
<1>8. \A k \in 0 .. n : it[k] \in Bitmaps
  <2>1. \A k \in 1 .. n : it[k - 1] \in Bitmaps => it[k] \in Bitmaps
    BY <1>1, <1>7, Zenon
  <2>2. it[0] \in Bitmaps
    BY <1>6
  <2> QED
    BY <2>1, <2>2, LoopStays, Zenon
<1>9. it \in [0 .. n -> Bitmaps]
  BY <1>6, <1>8
<1>10. FmapTurns(it, n, b, e)
  BY <1>5, <1>6, <1>7, <1>9, Zenon DEF FmapTurns
<1> QED
  BY <1>10

LEMMA InUnits ==
  ASSUME NEW fmap, NEW u
  PROVE  u \in Units(fmap) <=> \E k \in DOMAIN fmap : u \in Bits(fmap[k])
BY Zenon DEF Units

(* After k turns the bitmap holds the first k extents, and no bit was set  *)
(* twice if they are apart from each other and from what was set before.   *)
LEMMA SetFmap ==
  ASSUME NEW b \in Bitmaps, NEW e, e.fmap \in Seq(Extent)
  PROVE  /\ set_fmap_in_bitmap(b, e) \in Bitmaps
         /\ set_fmap_in_bitmap(b, e).bitmap = b.bitmap \cup Units(e.fmap)
         /\ Apart(e.fmap) /\ Units(e.fmap) \cap b.bitmap = {} =>
              set_fmap_in_bitmap(b, e).errors = b.errors
<1> DEFINE n == Len(e.fmap)
           x(k) == e.fmap[k]
<1>1. /\ n \in Nat /\ e.fmap \in [1 .. n -> Extent] /\ DOMAIN e.fmap = 1 .. n
      /\ n = Len(e.fmap)
  BY LenProperties
<1> HIDE DEF n
<1>a. PICK r : FmapTurns(r, n, b, e)
  BY <1>1, FmapLoop, Zenon
<1>2. /\ r \in [0 .. n -> Bitmaps]
      /\ r[0] = b
      /\ \A k \in 1 .. n : r[k] = set_extent_in_bitmap(r[k - 1], x(k))
      /\ set_fmap_in_bitmap(b, e) = r[n]
  BY <1>a DEF FmapTurns
<1>3. \A k \in 1 .. n : x(k) \in Extent
  BY <1>1
<1> HIDE DEF x
<1>4. ASSUME NEW k \in Nat, k + 1 <= n
      PROVE  /\ k \in 0 .. n /\ k + 1 \in 1 .. n /\ k + 1 \in 0 .. n
             /\ r[k] \in Bitmaps
             /\ r[k + 1] = set_extent_in_bitmap(r[k], x(k + 1))
  <2>1. k \in 0 .. n /\ k + 1 \in 1 .. n /\ k + 1 \in 0 .. n /\ (k + 1) - 1 = k
    BY <1>1, <1>4
  <2> QED
    BY <1>2, <2>1
<1>5. ASSUME NEW k \in Nat, k + 1 <= n
      PROVE  /\ r[k + 1].bitmap = r[k].bitmap \cup Bits(x(k + 1))
             /\ r[k].bitmap \cap Bits(x(k + 1)) = {} =>
                  r[k + 1].errors = r[k].errors
  <2>1. r[k] \in Bitmaps /\ x(k + 1) \in Extent
    BY <1>3, <1>4, <1>5
  <2>2. r[k + 1] = set_extent_in_bitmap(r[k], x(k + 1))
    BY <1>4, <1>5
  <2>3. ASSUME NEW v \in Bitmaps, NEW y \in Extent, NEW w,
               w = set_extent_in_bitmap(v, y)
        PROVE  /\ w.bitmap = v.bitmap \cup Bits(y)
               /\ v.bitmap \cap Bits(y) = {} => w.errors = v.errors
    BY <2>3, SetExtent
  <2> QED
    BY <2>1, <2>2, <2>3
<1> DEFINE Holds(k) ==
             \A u : u \in r[k].bitmap <=>
                      u \in b.bitmap \/ \E j \in 1 .. k : u \in Bits(x(j))
           S == {k \in Nat : k <= n => Holds(k)}
<1>6. Nat \subseteq S
  <2>1. 0 \in S
    BY <1>2
  <2>2. ASSUME NEW k \in Nat, k \in S PROVE k + 1 \in S
    <3> SUFFICES ASSUME k + 1 <= n PROVE Holds(k + 1)
      <4> HIDE DEF Holds
      <4> QED
        OBVIOUS
    <3>1. k <= n
      BY <1>1
    <3>2. Holds(k)
      BY <2>2, <3>1
    <3>3. r[k + 1].bitmap = r[k].bitmap \cup Bits(x(k + 1))
      BY <1>5
    <3>4. \A j : j \in 1 .. k + 1 <=> j \in 1 .. k \/ j = k + 1
      OBVIOUS
    <3> QED
      BY <3>2, <3>3, <3>4, Zenon
  <2> HIDE DEF S
  <2> QED
    BY <2>1, <2>2, NatInd
<1>7. \A k \in 0 .. n : Holds(k)
  <2> HIDE DEF Holds
  <2> QED
    BY <1>6
<1>8. n \in 0 .. n
  BY <1>1
<1>9. r[n].bitmap = b.bitmap \cup Units(e.fmap)
  <2>1. \A u : u \in Units(e.fmap) <=> \E j \in 1 .. n : u \in Bits(x(j))
    BY <1>1, InUnits, Zenon DEF x
  <2>2. Holds(n)
    <3> HIDE DEF Holds
    <3> QED
      BY <1>7, <1>8
  <2> QED
    BY <2>1, <2>2, Zenon
<1>10. ASSUME Apart(e.fmap), Units(e.fmap) \cap b.bitmap = {}
       PROVE  r[n].errors = b.errors
  <2> DEFINE T == {k \in Nat : k <= n => r[k].errors = b.errors}
  <2>1. 0 \in T
    BY <1>2
  <2>2. ASSUME NEW k \in Nat, k \in T PROVE k + 1 \in T
    <3> SUFFICES ASSUME k + 1 <= n PROVE r[k + 1].errors = b.errors
      OBVIOUS
    <3>1. k <= n /\ k \in 0 .. n /\ k + 1 \in 1 .. n
      BY <1>1
    <3>2. \A j \in 1 .. k : j \in 1 .. n /\ j # k + 1
      BY <1>1, <3>1
    <3>3. \A j \in 1 .. k : Bits(x(j)) \cap Bits(x(k + 1)) = {}
      BY <1>1, <1>10, <3>1, <3>2, Zenon DEF Apart, x
    <3>4. Bits(x(k + 1)) \cap b.bitmap = {}
      BY <1>1, <1>10, <3>1, InUnits, Zenon DEF x
    <3>5. Holds(k)
      <4> HIDE DEF Holds
      <4> QED
        BY <1>7, <3>1
    <3>6. r[k].bitmap \cap Bits(x(k + 1)) = {}
      BY <3>3, <3>4, <3>5, Zenon
    <3> QED
      BY <1>5, <2>2, <3>1, <3>6
  <2>3. n \in T
    <3> HIDE DEF T
    <3> QED
      BY <1>1, <2>1, <2>2, NatInd
  <2> QED
    BY <1>1, <2>3
<1>11. r[n] \in Bitmaps
  BY <1>2, <1>8
<1> QED
  BY <1>2, <1>9, <1>10, <1>11, Zenon

(* l is a log of n entries. *)
LogOf(l, n) ==
  /\ n \in Nat /\ DOMAIN l = 1 .. n /\ Len(l) = n
  /\ \A i \in 1 .. n : l[i].fmap \in Seq(Extent)

(* The superblock and the log. *)
Reserved == [bitmap |-> MetaUnits, errors |-> 0]

LEMMA ReservedType == Reserved \in Bitmaps
BY DeviceAssumption DEF Reserved, Bitmaps, MetaUnits

(* r[k]: the bitmap after k entries of the log. *)
LogTurns(r, n, l) ==
  /\ r \in [0 .. n -> Bitmaps]
  /\ r[0] = Reserved
  /\ \A k \in 1 .. n : r[k] = set_fmap_in_bitmap(r[k - 1], l[k])
  /\ famfs_build_bitmap(l) = r[n]

LEMMA LogLoop ==
  ASSUME NEW l, NEW n, LogOf(l, n)
  PROVE  \E r : LogTurns(r, n, l)
<1> DEFINE F == [k \in 1 .. n |-> [v \in Bitmaps |-> set_fmap_in_bitmap(v, l[k])]]
           Turns(g) == g = [k \in 0 .. n |->
                              IF k = 0 THEN Reserved
                              ELSE set_fmap_in_bitmap(g[k - 1], l[k])]
           it == CHOOSE g : Turns(g)
<1>0. n \in Nat
  BY DEF LogOf
<1>1. \A k \in 1 .. n, v \in Bitmaps : set_fmap_in_bitmap(v, l[k]) \in Bitmaps
  BY SetFmap DEF LogOf
<1>2. F \in [1 .. n -> [Bitmaps -> Bitmaps]]
  BY <1>1
<1>3. \E g : Turns(g)
  <2>1. PICK g : LoopOf(g, n, Bitmaps, Reserved, F)
    <3> HIDE DEF F
    <3> QED
      BY <1>0, <1>2, ReservedType, LoopExists, Zenon
  <2>2. /\ g \in [0 .. n -> Bitmaps] /\ g[0] = Reserved
        /\ \A k \in 1 .. n : g[k] = F[k][g[k - 1]]
    BY <1>0, <2>1 DEF LoopOf
  <2>3. ASSUME NEW k \in 1 .. n PROVE g[k] = set_fmap_in_bitmap(g[k - 1], l[k])
    <3>1. k - 1 \in 0 .. n
      BY <1>0
    <3>2. g[k - 1] \in Bitmaps
      BY <2>2, <3>1
    <3> QED
      BY <2>2, <3>2, Zenon
  <2>4. Turns(g)
    <3>1. \A k \in 0 .. n : k = 0 \/ k \in 1 .. n
      BY <1>0
    <3> HIDE DEF F
    <3> QED
      BY <2>2, <2>3, <3>1
  <2> QED
    BY <2>4, Zenon
<1>4. Turns(it)
  BY <1>3, Zenon
<1>5. famfs_build_bitmap(l) = it[n]
  BY DEF famfs_build_bitmap, Reserved, MetaUnits, LogOf
<1> HIDE DEF it
<1>6. it = [k \in 0 .. n |-> it[k]] /\ it[0] = Reserved
  BY <1>0, <1>4
<1>7. \A k \in 1 .. n : it[k] = set_fmap_in_bitmap(it[k - 1], l[k])
  BY <1>0, <1>4, SMTT(30)
<1>8. \A k \in 0 .. n : it[k] \in Bitmaps
  <2>1. \A k \in 1 .. n : it[k - 1] \in Bitmaps => it[k] \in Bitmaps
    BY <1>1, <1>7
  <2>2. it[0] \in Bitmaps
    BY <1>6, ReservedType
  <2> QED
    BY <1>0, <2>1, <2>2, LoopStays
<1>9. it \in [0 .. n -> Bitmaps]
  BY <1>6, <1>8
<1>10. LogTurns(it, n, l)
  BY <1>5, <1>6, <1>7, <1>9 DEF LogTurns
<1> QED
  BY <1>10

LEMMA InUnitsOf ==
  ASSUME NEW l, NEW u
  PROVE  u \in UnitsOf(l) <=>
           u \in MetaUnits \/ \E i \in DOMAIN l : u \in Units(l[i].fmap)
BY Zenon DEF UnitsOf

(* The bitmap of a log covers the units in use, and fsck counts no error   *)
(* if they are used once.                                                  *)
LEMMA BuildBitmap ==
  ASSUME NEW l, NEW n, LogOf(l, n)
  PROVE  /\ famfs_build_bitmap(l).bitmap = UnitsOf(l)
         /\ ApartIn(l) => famfs_build_bitmap(l).errors = 0
<1>1. n \in Nat /\ DOMAIN l = 1 .. n
  BY DEF LogOf
<1>2. PICK r : LogTurns(r, n, l)
  BY LogLoop
<1>3. /\ r \in [0 .. n -> Bitmaps]
      /\ r[0] = Reserved
      /\ \A k \in 1 .. n : r[k] = set_fmap_in_bitmap(r[k - 1], l[k])
      /\ famfs_build_bitmap(l) = r[n]
  BY <1>2 DEF LogTurns
<1>4. Reserved.bitmap = MetaUnits /\ Reserved.errors = 0
  BY DEF Reserved
<1>5. ASSUME NEW k \in Nat, k + 1 <= n
      PROVE  /\ r[k + 1].bitmap = r[k].bitmap \cup Units(l[k + 1].fmap)
             /\ (/\ Apart(l[k + 1].fmap)
                 /\ Units(l[k + 1].fmap) \cap r[k].bitmap = {}) =>
                  r[k + 1].errors = r[k].errors
  <2>1. k \in 0 .. n /\ k + 1 \in 1 .. n /\ (k + 1) - 1 = k
    BY <1>1, <1>5
  <2>2. r[k] \in Bitmaps /\ l[k + 1].fmap \in Seq(Extent)
    BY <1>1, <1>3, <2>1 DEF LogOf
  <2>3. r[k + 1] = set_fmap_in_bitmap(r[k], l[k + 1])
    BY <1>3, <2>1
  <2>4. ASSUME NEW v \in Bitmaps, NEW y, NEW w, y.fmap \in Seq(Extent),
               w = set_fmap_in_bitmap(v, y)
        PROVE  /\ w.bitmap = v.bitmap \cup Units(y.fmap)
               /\ Apart(y.fmap) /\ Units(y.fmap) \cap v.bitmap = {} =>
                    w.errors = v.errors
    BY <2>4, SetFmap
  <2> QED
    BY <2>2, <2>3, <2>4
<1> DEFINE Holds(k) ==
             \A u : u \in r[k].bitmap <=>
                      u \in MetaUnits \/ \E j \in 1 .. k : u \in Units(l[j].fmap)
           S == {k \in Nat : k <= n => Holds(k)}
<1>6. Nat \subseteq S
  <2>1. 0 \in S
    BY <1>3, <1>4
  <2>2. ASSUME NEW k \in Nat, k \in S PROVE k + 1 \in S
    <3> SUFFICES ASSUME k + 1 <= n PROVE Holds(k + 1)
      <4> HIDE DEF Holds
      <4> QED
        OBVIOUS
    <3>1. k <= n
      BY <1>1
    <3>2. Holds(k)
      BY <2>2, <3>1
    <3>3. r[k + 1].bitmap = r[k].bitmap \cup Units(l[k + 1].fmap)
      BY <1>5
    <3>4. \A j : j \in 1 .. k + 1 <=> j \in 1 .. k \/ j = k + 1
      OBVIOUS
    <3> QED
      BY <3>2, <3>3, <3>4, Zenon
  <2> HIDE DEF S
  <2> QED
    BY <2>1, <2>2, NatInd
<1>7. \A k \in 0 .. n : Holds(k)
  <2> HIDE DEF Holds
  <2> QED
    BY <1>6
<1>8. n \in 0 .. n
  BY <1>1
<1>9. r[n].bitmap = UnitsOf(l)
  <2>1. Holds(n)
    <3> HIDE DEF Holds
    <3> QED
      BY <1>7, <1>8
  <2> QED
    BY <1>1, <2>1, InUnitsOf, Zenon
<1>10. ASSUME ApartIn(l) PROVE r[n].errors = 0
  <2> DEFINE T == {k \in Nat : k <= n => r[k].errors = 0}
  <2>1. 0 \in T
    BY <1>3, <1>4
  <2>2. ASSUME NEW k \in Nat, k \in T PROVE k + 1 \in T
    <3> SUFFICES ASSUME k + 1 <= n PROVE r[k + 1].errors = 0
      OBVIOUS
    <3>1. k <= n /\ k \in 0 .. n /\ k + 1 \in 1 .. n
      BY <1>1
    <3>2. \A j \in 1 .. k : j \in 1 .. n /\ j # k + 1
      BY <1>1, <3>1
    <3>3. \A j \in 1 .. k : Units(l[j].fmap) \cap Units(l[k + 1].fmap) = {}
      BY <1>1, <1>10, <3>1, <3>2, Zenon DEF ApartIn
    <3>4. /\ Units(l[k + 1].fmap) \cap MetaUnits = {}
          /\ Apart(l[k + 1].fmap)
      BY <1>1, <1>10, <3>1, Zenon DEF ApartIn
    <3>5. Holds(k)
      <4> HIDE DEF Holds
      <4> QED
        BY <1>7, <3>1
    <3>6. Units(l[k + 1].fmap) \cap r[k].bitmap = {}
      BY <3>3, <3>4, <3>5, Zenon
    <3> QED
      BY <1>5, <2>2, <3>1, <3>4, <3>6
  <2>3. n \in T
    <3> HIDE DEF T
    <3> QED
      BY <1>1, <2>1, <2>2, NatInd
  <2> QED
    BY <1>1, <2>3
<1> QED
  BY <1>3, <1>9, <1>10, Zenon

-----------------------------------------------------------------------------
(***************************************************************************)
(* Allocation.                                                             *)
(***************************************************************************)
(* A scan fails and changes nothing, or takes units that were free. *)
Scanned(a, bitmap, n) ==
  \/ a.ofs = Failed
  \/ /\ a.ofs \in Nat
     /\ a.pos \in Nat
     /\ Bits([ofs |-> a.ofs, len |-> n]) \subseteq Nat
     /\ Bits([ofs |-> a.ofs, len |-> n]) \cap bitmap = {}
     /\ a.bitmap = bitmap \cup Bits([ofs |-> a.ofs, len |-> n])

LEMMA Scan ==
  ASSUME NEW bitmap \in SUBSET Nat, NEW n \in Nat, NEW start \in Nat,
         NEW range \in Nat, NEW a,
         a = bitmap_alloc_contiguous(bitmap, n, start, range)
  PROVE  Scanned(a, bitmap, n)
<1> DEFINE remainder(i) == (start + (IF range = 0 THEN NBits ELSE range) - i) % U64
           run(i) == i .. (i + n - 1)
           ends == {i \in start .. NBits - 1 :
                      /\ i \notin bitmap
                      /\ n > remainder(i) \/ run(i) \cap bitmap = {}}
           first == CHOOSE i \in ends : \A k \in ends : i <= k
           none == ends = {} \/ n > remainder(first)
<1>1. a = IF none THEN [ofs |-> Failed, bitmap |-> bitmap, pos |-> start]
          ELSE [ofs |-> first, bitmap |-> bitmap \cup run(first),
                pos |-> first + n]
  BY DEF bitmap_alloc_contiguous
<1> HIDE DEF remainder
<1>2. CASE none
  <2> HIDE DEF none
  <2> QED
    BY <1>1, <1>2 DEF Scanned
<1>3. CASE ~none
  <2>1. ends # {} /\ ~(n > remainder(first))
    BY <1>3
  <2>2. ends \in SUBSET Nat
    <3>1. NBits \in Nat
      BY DeviceAssumption
    <3>2. \A i \in start .. NBits - 1 : i \in Nat
      BY <3>1
    <3> QED
      BY <3>2, Zenon
  <2>3. \E i \in ends : \A k \in ends : i <= k
    <3> HIDE DEF ends
    <3> QED
      BY <2>1, <2>2, LeastNumber
  <2>4. first \in ends
    <3> HIDE DEF ends
    <3> QED
      BY <2>3
  <2>5. first \in Nat /\ run(first) \cap bitmap = {}
    <3>1. first \in Nat
      <4> HIDE DEF ends, first
      <4> QED
        BY <2>2, <2>4
    <3>2. n > remainder(first) \/ run(first) \cap bitmap = {}
      <4> HIDE DEF first, run
      <4> QED
        BY <2>4, Zenon
    <3> QED
      BY <2>1, <3>1, <3>2, Zenon
  <2> HIDE DEF none, first
  <2>6. a = [ofs |-> first, bitmap |-> bitmap \cup run(first), pos |-> first + n]
    BY <1>1, <1>3
  <2>7. Bits([ofs |-> first, len |-> n]) = run(first)
    BY DEF Bits
  <2>8. run(first) \subseteq Nat /\ first + n \in Nat
    BY <2>5
  <2>9. a.ofs = first /\ a.pos = first + n /\ a.bitmap = bitmap \cup run(first)
    BY <2>6
  <2> HIDE DEF run
  <2> QED
    BY <2>5, <2>7, <2>8, <2>9, Zenon DEF Scanned
<1> QED
  BY <1>2, <1>3

LEMMA UnitsAppend ==
  ASSUME NEW fmap \in Seq(Extent), NEW x \in Extent
  PROVE  /\ Units(Append(fmap, x)) = Units(fmap) \cup Bits(x)
         /\ Apart(fmap) /\ Units(fmap) \cap Bits(x) = {} =>
              Apart(Append(fmap, x))
<1> DEFINE n == Len(fmap)
           h == Append(fmap, x)
<1>1. n \in Nat /\ DOMAIN fmap = 1 .. n
  BY LenProperties
<1>2. /\ DOMAIN h = 1 .. n + 1
      /\ h[n + 1] = x
      /\ \A k \in 1 .. n : h[k] = fmap[k]
  BY <1>1
<1> HIDE DEF n, h
<1>3. \A k : k \in 1 .. n + 1 <=> k \in 1 .. n \/ k = n + 1
  BY <1>1
<1>4. Units(h) = Units(fmap) \cup Bits(x)
  <2>1. ASSUME NEW u PROVE u \in Units(h) <=> u \in Units(fmap) \/ u \in Bits(x)
    BY <1>1, <1>2, <1>3, InUnits, Zenon
  <2> QED
    BY <2>1
<1>5. ASSUME Apart(fmap), Units(fmap) \cap Bits(x) = {}
      PROVE  Apart(h)
  <2>1. \A j \in 1 .. n : Bits(fmap[j]) \cap Bits(x) = {}
    BY <1>1, <1>5, InUnits, Zenon
  <2>2. \A j, k \in 1 .. n : j # k => Bits(fmap[j]) \cap Bits(fmap[k]) = {}
    BY <1>1, <1>5 DEF Apart
  <2>3. ASSUME NEW j \in 1 .. n + 1, NEW k \in 1 .. n + 1, j # k
        PROVE  Bits(h[j]) \cap Bits(h[k]) = {}
    <3>1. CASE j \in 1 .. n /\ k \in 1 .. n
      BY <1>2, <2>2, <2>3, <3>1, Zenon
    <3>2. CASE j \in 1 .. n /\ k = n + 1
      <4>1. Bits(h[j]) = Bits(fmap[j]) /\ Bits(h[k]) = Bits(x)
        BY <1>2, <3>2, Zenon
      <4> QED
        BY <2>1, <3>2, <4>1, Zenon
    <3>3. CASE j = n + 1 /\ k \in 1 .. n
      <4>1. Bits(h[k]) = Bits(fmap[k]) /\ Bits(h[j]) = Bits(x)
        BY <1>2, <3>3, Zenon
      <4> QED
        BY <2>1, <3>3, <4>1, Zenon
    <3> QED
      BY <1>3, <2>3, <3>1, <3>2, <3>3, Zenon
  <2> QED
    BY <1>2, <2>3, Zenon DEF Apart
<1> QED
  BY <1>4, <1>5 DEF h

LEMMA NoUnits == Units(<<>>) = {} /\ Apart(<<>>)
BY DEF Units, Apart

(* What the loop over the buckets keeps: the strips share no unit with     *)
(* each other or with the bitmap it started from, are set now, and are at  *)
(* most m.                                                                 *)
Strips(bitmap, m) ==
  {s \in [bitmap : SUBSET Nat, strips : Seq(Extent)] :
     /\ Len(s.strips) <= m
     /\ s.bitmap = bitmap \cup Units(s.strips)
     /\ Units(s.strips) \cap bitmap = {}
     /\ Apart(s.strips)}

LEMMA AllocStrip ==
  ASSUME NEW bitmap \in SUBSET Nat, NEW mode, NEW s \in Strips(bitmap, mode.nstrips),
         NEW bucket \in Nat, NEW size, mode.nbuckets \in Nat \ {0},
         mode.nstrips \in Nat, strip_size(mode, size) \in Nat
  PROVE  alloc_strip(s, bucket, mode, size) \in Strips(bitmap, mode.nstrips)
<1> DEFINE bucket_size == NBits \div mode.nbuckets
           len == strip_size(mode, size)
           a == bitmap_alloc_contiguous(s.bitmap, len,
                                        bucket * bucket_size, bucket_size)
           x == [ofs |-> a.ofs, len |-> len]
           skip == Len(s.strips) = mode.nstrips \/ a.ofs <= 0
<1>1. bucket_size \in Nat /\ bucket * bucket_size \in Nat
  <2>1. bucket_size \in Nat
    BY DeviceAssumption
  <2> HIDE DEF bucket_size
  <2> QED
    BY <2>1
<1>2. /\ s.bitmap \in SUBSET Nat /\ s.strips \in Seq(Extent)
      /\ Len(s.strips) <= mode.nstrips
      /\ s.bitmap = bitmap \cup Units(s.strips)
      /\ Units(s.strips) \cap bitmap = {}
      /\ Apart(s.strips)
  BY DEF Strips
<1>3. alloc_strip(s, bucket, mode, size) =
        IF skip THEN s
        ELSE [bitmap |-> a.bitmap, strips |-> Append(s.strips, x)]
  BY DEF alloc_strip
<1>4. len \in Nat
  OBVIOUS
<1> HIDE DEF bucket_size, len
<1>5. \/ a.ofs = Failed
      \/ /\ a.ofs \in Nat
         /\ Bits(x) \subseteq Nat
         /\ Bits(x) \cap s.bitmap = {}
         /\ a.bitmap = s.bitmap \cup Bits(x)
  <2>1. Scanned(a, s.bitmap, len)
    BY <1>1, <1>2, <1>4, Scan
  <2> HIDE DEF a
  <2> QED
    BY <2>1, Zenon DEF Scanned
<1>6. CASE skip
  <2> HIDE DEF skip
  <2> QED
    BY <1>3, <1>6
<1>7. CASE ~skip
  <2>1. a.ofs # Failed /\ Len(s.strips) # mode.nstrips
    BY <1>7 DEF Failed
  <2> HIDE DEF skip, a
  <2>2. x \in Extent
    BY <1>4, <1>5, <2>1 DEF Extent
  <2> HIDE DEF x
  <2>3. /\ Units(Append(s.strips, x)) = Units(s.strips) \cup Bits(x)
        /\ Apart(Append(s.strips, x))
    <3>1. Units(s.strips) \cap Bits(x) = {}
      BY <1>2, <1>5, <2>1, Zenon
    <3> QED
      BY <1>2, <2>2, <3>1, UnitsAppend
  <2>4. Append(s.strips, x) \in Seq(Extent) /\ Len(Append(s.strips, x)) <= mode.nstrips
    BY <1>2, <2>1, <2>2
  <2> DEFINE t == [bitmap |-> a.bitmap, strips |-> Append(s.strips, x)]
  <2>5. t.bitmap = a.bitmap /\ t.strips = Append(s.strips, x)
    OBVIOUS
  <2>6. t \in [bitmap : SUBSET Nat, strips : Seq(Extent)]
    BY <1>2, <1>5, <2>1, <2>4
  <2> HIDE DEF t
  <2>7. /\ t.bitmap = bitmap \cup Units(t.strips)
        /\ Units(t.strips) \cap bitmap = {}
    BY <1>2, <1>5, <2>1, <2>3, <2>5, Zenon
  <2>8. t \in Strips(bitmap, mode.nstrips)
    BY <2>3, <2>4, <2>5, <2>6, <2>7, Zenon DEF Strips
  <2> QED
    BY <1>3, <1>7, <2>8 DEF t
<1> QED
  BY <1>6, <1>7

LEMMA AllocStrips ==
  ASSUME NEW bitmap \in SUBSET Nat, NEW mode, NEW size, NEW n \in Nat \ {0},
         NEW order \in [1 .. n -> Nat], mode.nbuckets = n, mode.nstrips \in Nat,
         strip_size(mode, size) \in Nat
  PROVE  alloc_strips(bitmap, mode, size, order) \in Strips(bitmap, mode.nstrips)
<1> DEFINE V == Strips(bitmap, mode.nstrips)
           base == [bitmap |-> bitmap, strips |-> <<>>]
           turn(s, k) == alloc_strip(s, order[k], mode, size)
           F == [k \in 1 .. n |-> [v \in V |-> turn(v, k)]]
           Turns(g) == g = [k \in 0 .. n |->
                              IF k = 0 THEN base ELSE turn(g[k - 1], k)]
           it == CHOOSE g : Turns(g)
<1>0. base \in V
  <2>1. /\ base.bitmap = bitmap /\ base.strips = <<>> /\ <<>> \in Seq(Extent)
        /\ Len(<<>>) <= mode.nstrips
    OBVIOUS
  <2>2. base \in [bitmap : SUBSET Nat, strips : Seq(Extent)]
    OBVIOUS
  <2> HIDE DEF base
  <2> QED
    BY <2>1, <2>2, NoUnits DEF Strips
<1>1. \A k \in 1 .. n, v \in V : turn(v, k) \in V
  BY AllocStrip
<1>5. alloc_strips(bitmap, mode, size, order) = it[n]
  BY DEF alloc_strips
<1> HIDE DEF base, V, turn
<1>2. F \in [1 .. n -> [V -> V]]
  BY <1>1
<1>3. \E g : Turns(g)
  <2>1. PICK g : LoopOf(g, n, V, base, F)
    <3> HIDE DEF F
    <3> QED
      BY <1>2, <1>0, LoopExists, Zenon
  <2>2. /\ g \in [0 .. n -> V] /\ g[0] = base
        /\ \A k \in 1 .. n : g[k] = F[k][g[k - 1]]
    BY <2>1 DEF LoopOf
  <2>3. ASSUME NEW k \in 1 .. n PROVE g[k] = turn(g[k - 1], k)
    <3>1. g[k - 1] \in V
      BY <2>2
    <3> QED
      BY <2>2, <3>1, Zenon
  <2>4. Turns(g)
    <3>1. \A k \in 0 .. n : k = 0 \/ k \in 1 .. n
      OBVIOUS
    <3> HIDE DEF F
    <3> QED
      BY <2>2, <2>3, <3>1
  <2> QED
    BY <2>4, Zenon
<1>4. Turns(it)
  BY <1>3, Zenon
<1> HIDE DEF it
<1>6. it = [k \in 0 .. n |-> it[k]] /\ it[0] = base
  BY <1>4
<1>7. \A k \in 1 .. n : it[k] = turn(it[k - 1], k)
  BY <1>4
<1>8. \A k \in 0 .. n : it[k] \in V
  <2>1. \A k \in 1 .. n : it[k - 1] \in V => it[k] \in V
    BY <1>1, <1>7
  <2>2. it[0] \in V
    BY <1>0, <1>6
  <2> QED
    BY <2>1, <2>2, LoopStays, Zenon
<1> QED
  BY <1>5, <1>8 DEF V

LEMMA StripSize ==
  ASSUME NEW mode, mode.nstrips \in Nat \ {0}, mode.chunk \in Nat \ {0},
         NEW size \in Nat
  PROVE  strip_size(mode, size) \in Nat
<1>1. mode.nstrips \in Nat \ {0} /\ mode.chunk \in Nat \ {0}
  OBVIOUS
<1> DEFINE m == mode.nstrips * mode.chunk
           q == (size + m - 1) \div m
<1>2. m \in Nat \ {0}
  BY <1>1
<1> HIDE DEF m
<1>3. q \in Nat
  <2>1. size + m - 1 \in Nat
    BY <1>2
  <2> DEFINE t == size + m - 1
  <2> HIDE DEF t
  <2>2. t \in Nat => t \div m \in Nat
    BY <1>2
  <2> QED
    BY <2>1, <2>2 DEF t
<1> HIDE DEF q
<1>4. q * mode.chunk \in Nat
  BY <1>1, <1>3
<1> QED
  BY <1>4 DEF strip_size, Ceil, q, m

LEMMA BucketSeries ==
  ASSUME NEW mode, mode.nbuckets \in Nat, NEW order \in bucket_series(mode)
  PROVE  order \in [1 .. mode.nbuckets -> Nat]
<1>1. order \in [1 .. mode.nbuckets -> 0 .. mode.nbuckets - 1]
  BY DEF bucket_series, Bijection, Injection
<1> QED
  BY <1>1

(* What an allocation promises: units that were free, or nothing taken,    *)
(* unless it went past the end of ie_strips.                               *)
Allocates(a, bitmap) ==
  /\ a.rc \in {0, Failed, Aborted}
  /\ a.fmap \in Seq(Extent)
  /\ a.bitmap \in SUBSET Nat
  /\ a.pos \in Nat
  /\ a.overrun \in BOOLEAN
  /\ a.rc = 0 => /\ Apart(a.fmap)
                 /\ Units(a.fmap) \cap bitmap = {}
                 /\ a.bitmap = bitmap \cup Units(a.fmap)
  /\ a.rc = Failed /\ ~a.overrun => a.bitmap = bitmap

LEMMA AllocContiguous ==
  ASSUME NEW bitmap \in SUBSET Nat, NEW size \in Nat, NEW pos \in Nat, NEW c,
         c = famfs_file_alloc_contiguous(bitmap, size, pos)
  PROVE  Allocates(c, bitmap)
<1> DEFINE a == bitmap_alloc_contiguous(bitmap, size, pos, 0)
           x == [ofs |-> a.ofs, len |-> size]
<1>1. c = IF a.ofs = Failed
          THEN Allocation(Failed, <<>>, bitmap, pos)
          ELSE Allocation(0, <<x>>, a.bitmap, a.pos)
  BY DEF famfs_file_alloc_contiguous
<1>2. Scanned(a, bitmap, size)
  BY Scan
<1> HIDE DEF a
<1>3. CASE a.ofs = Failed
  <2>1. c = Allocation(Failed, <<>>, bitmap, pos)
    BY <1>1, <1>3
  <2>2. /\ c.rc = Failed /\ c.fmap = <<>> /\ c.bitmap = bitmap /\ c.pos = pos
        /\ c.overrun = FALSE
    BY <2>1 DEF Allocation
  <2>3. <<>> \in Seq(Extent) /\ Failed # 0
    BY DEF Failed
  <2> QED
    BY <2>2, <2>3 DEF Allocates
<1>4. CASE a.ofs # Failed
  <2>1. c = Allocation(0, <<x>>, a.bitmap, a.pos)
    BY <1>1, <1>4
  <2>2. /\ c.rc = 0 /\ c.fmap = <<x>> /\ c.bitmap = a.bitmap /\ c.pos = a.pos
        /\ c.overrun = FALSE /\ 0 # Failed
    BY <2>1 DEF Failed, Allocation
  <2>3. /\ a.ofs \in Nat /\ a.pos \in Nat
        /\ Bits(x) \subseteq Nat /\ Bits(x) \cap bitmap = {}
        /\ a.bitmap = bitmap \cup Bits(x)
    BY <1>2, <1>4, Zenon DEF Scanned
  <2>4. x \in Extent
    BY <2>3 DEF Extent
  <2> HIDE DEF x
  <2>5. <<x>> \in Seq(Extent) /\ <<x>> = Append(<<>>, x) /\ <<>> \in Seq(Extent)
    BY <2>4
  <2>6. Units(<<x>>) = Bits(x) /\ Apart(<<x>>)
    <3>1. Units(<<>>) \cap Bits(x) = {} /\ Units(<<>>) \cup Bits(x) = Bits(x)
      BY NoUnits
    <3> QED
      BY <2>4, <2>5, <3>1, NoUnits, UnitsAppend, Zenon
  <2>7. a.bitmap \in SUBSET Nat
    BY <2>3, Zenon
  <2> QED
    BY <2>2, <2>3, <2>5, <2>6, <2>7, Zenon DEF Allocates
<1> QED
  BY <1>3, <1>4

(* The loop that frees the strips: either an assertion stops it, or it     *)
(* clears what it reads.                                                   *)
Freed == [rc : {Failed, Aborted}, bitmap : SUBSET Nat]

FreeTurns(r, s, n, beyond) ==
  /\ r \in [0 .. n -> Freed]
  /\ r[0] = [rc |-> Failed, bitmap |-> s.bitmap]
  /\ \A j \in 1 .. n :
       r[j] = bitmap_free_contiguous(r[j - 1], ie_strip(s, beyond, j))
  /\ free_strips(s, n, beyond) = r[n]

LEMMA FreeLoop ==
  ASSUME NEW s, s.bitmap \in SUBSET Nat, NEW n \in Nat, NEW beyond
  PROVE  \E r : FreeTurns(r, s, n, beyond)
<1> DEFINE base == [rc |-> Failed, bitmap |-> s.bitmap]
           turn(b, j) == bitmap_free_contiguous(b, ie_strip(s, beyond, j))
           F == [j \in 1 .. n |-> [b \in Freed |-> turn(b, j)]]
           Turns(g) == g = [j \in 0 .. n |->
                              IF j = 0 THEN base ELSE turn(g[j - 1], j)]
           it == CHOOSE g : Turns(g)
<1>0. base \in Freed
  BY DEF Freed
<1>1. \A j \in 1 .. n, b \in Freed : turn(b, j) \in Freed
  <2> SUFFICES ASSUME NEW b \in Freed, NEW e
               PROVE  bitmap_free_contiguous(b, e) \in Freed
    OBVIOUS
  <2>1. b.rc \in {Failed, Aborted} /\ b.bitmap \in SUBSET Nat
    BY DEF Freed
  <2>2. b.bitmap \ Bits(e) \in SUBSET Nat /\ {} \in SUBSET Nat
    BY <2>1, Zenon
  <2>3. [rc |-> Aborted, bitmap |-> {}] \in Freed
    BY DEF Freed
  <2>4. [rc |-> b.rc, bitmap |-> b.bitmap \ Bits(e)] \in Freed
    BY <2>1, <2>2, Zenon DEF Freed
  <2> QED
    BY <2>3, <2>4, Zenon DEF bitmap_free_contiguous
<1>5. free_strips(s, n, beyond) = it[n]
  BY DEF free_strips
<1> HIDE DEF base, turn
<1>2. F \in [1 .. n -> [Freed -> Freed]]
  BY <1>1
<1>3. \E g : Turns(g)
  <2>1. PICK g : LoopOf(g, n, Freed, base, F)
    <3> HIDE DEF F
    <3> QED
      BY <1>2, <1>0, LoopExists, Zenon
  <2>2. /\ g \in [0 .. n -> Freed] /\ g[0] = base
        /\ \A j \in 1 .. n : g[j] = F[j][g[j - 1]]
    BY <2>1 DEF LoopOf
  <2>3. ASSUME NEW j \in 1 .. n PROVE g[j] = turn(g[j - 1], j)
    <3>1. g[j - 1] \in Freed
      BY <2>2
    <3> QED
      BY <2>2, <3>1, Zenon
  <2>4. Turns(g)
    <3>1. \A j \in 0 .. n : j = 0 \/ j \in 1 .. n
      OBVIOUS
    <3> HIDE DEF F
    <3> QED
      BY <2>2, <2>3, <3>1
  <2> QED
    BY <2>4, Zenon
<1>4. Turns(it)
  BY <1>3, Zenon
<1> HIDE DEF it
<1>6. it = [j \in 0 .. n |-> it[j]] /\ it[0] = base
  BY <1>4
<1>7. \A j \in 1 .. n : it[j] = turn(it[j - 1], j)
  BY <1>4
<1>8. \A j \in 0 .. n : it[j] \in Freed
  <2>1. \A j \in 1 .. n : it[j - 1] \in Freed => it[j] \in Freed
    BY <1>1, <1>7
  <2>2. it[0] \in Freed
    BY <1>0, <1>6
  <2> QED
    BY <2>1, <2>2, LoopStays, Zenon
<1>9. it \in [0 .. n -> Freed]
  BY <1>6, <1>8
<1>10. FreeTurns(it, s, n, beyond)
  BY <1>5, <1>6, <1>7, <1>9, Zenon DEF FreeTurns, base, turn
<1> QED
  BY <1>10

(* A failed interleaved allocation frees what it had set: every strip is   *)
(* among the entries read, and the rest of the array is zero.              *)
LEMMA FreeStrips ==
  ASSUME NEW bitmap \in SUBSET Nat, NEW m, NEW s \in Strips(bitmap, m),
         NEW n \in Nat, NEW beyond, NEW b, b = free_strips(s, n, beyond)
  PROVE  /\ b \in Freed
         /\ /\ b.rc # Aborted
            /\ Len(s.strips) <= n
            /\ \A j \in 1 .. n : j \notin DOMAIN beyond
            => b.bitmap = bitmap
<1> DEFINE e(j) == ie_strip(s, beyond, j)
           Read(k) == UNION {Bits(e(j)) : j \in 1 .. k}
<1>1. /\ s.bitmap \in SUBSET Nat /\ s.strips \in Seq(Extent)
      /\ s.bitmap = bitmap \cup Units(s.strips)
      /\ Units(s.strips) \cap bitmap = {}
  BY DEF Strips
<1>2. PICK r : FreeTurns(r, s, n, beyond)
  BY <1>1, FreeLoop, Zenon
<1>3. /\ r \in [0 .. n -> Freed]
      /\ r[0] = [rc |-> Failed, bitmap |-> s.bitmap]
      /\ \A j \in 1 .. n : r[j] = bitmap_free_contiguous(r[j - 1], e(j))
      /\ b = r[n]
  BY <1>2, Zenon DEF FreeTurns
<1> HIDE DEF e
<1>4. n \in 0 .. n
  OBVIOUS
<1>5. b \in Freed
  BY <1>3, <1>4
<1>6. b.rc # Aborted => b.bitmap = s.bitmap \ Read(n)
  <2> DEFINE Holds(k) == r[k].rc # Aborted => r[k].bitmap = s.bitmap \ Read(k)
             S == {k \in Nat : k <= n => Holds(k)}
  <2>1. 0 \in S
    <3>1. Read(0) = {}
      OBVIOUS
    <3>2. r[0].bitmap = s.bitmap
      BY <1>3
    <3> QED
      BY <3>1, <3>2
  <2>2. ASSUME NEW k \in Nat, k \in S PROVE k + 1 \in S
    <3> SUFFICES ASSUME k + 1 <= n, r[k + 1].rc # Aborted
                 PROVE  r[k + 1].bitmap = s.bitmap \ Read(k + 1)
      <4> HIDE DEF Read
      <4> QED
        OBVIOUS
    <3>1. k <= n /\ k + 1 \in 1 .. n /\ (k + 1) - 1 = k
      OBVIOUS
    <3>2. r[k + 1] = bitmap_free_contiguous(r[k], e(k + 1))
      BY <1>3, <3>1
    <3>3. /\ r[k].rc # Aborted
          /\ r[k + 1] = [rc |-> r[k].rc, bitmap |-> r[k].bitmap \ Bits(e(k + 1))]
      <4>1. [rc |-> Aborted, bitmap |-> {}].rc = Aborted
        OBVIOUS
      <4> QED
        BY <3>2, <4>1, Zenon DEF bitmap_free_contiguous
    <3>4. r[k + 1].bitmap = r[k].bitmap \ Bits(e(k + 1))
      BY <3>3
    <3>5. r[k].bitmap = s.bitmap \ Read(k)
      <4> HIDE DEF Read
      <4> QED
        BY <2>2, <3>1, <3>3
    <3>6. Read(k + 1) = Read(k) \cup Bits(e(k + 1))
      <4>1. \A j : j \in 1 .. k + 1 <=> j \in 1 .. k \/ j = k + 1
        OBVIOUS
      <4>2. \A u : u \in Read(k + 1) <=> u \in Read(k) \/ u \in Bits(e(k + 1))
        BY <4>1, Zenon
      <4> QED
        BY <4>2, Zenon
    <3> HIDE DEF Read
    <3> QED
      BY <3>4, <3>5, <3>6
  <2>3. n \in S
    <3> HIDE DEF S
    <3> QED
      BY <2>1, <2>2, NatInd
  <2>4. Holds(n)
    <3> HIDE DEF Holds
    <3> QED
      BY <2>3
  <2> QED
    BY <1>3, <2>4
<1>7. ASSUME Len(s.strips) <= n, \A j \in 1 .. n : j \notin DOMAIN beyond
      PROVE  Read(n) = Units(s.strips)
  <2> DEFINE l == Len(s.strips)
  <2>1. l \in Nat /\ DOMAIN s.strips = 1 .. l /\ l <= n
    BY <1>1, <1>7, LenProperties
  <2> HIDE DEF l
  <2>2. \A j \in 1 .. l : j \in 1 .. n /\ e(j) = s.strips[j]
    <3>1. \A j \in 1 .. l : j \in 1 .. n /\ j \in DOMAIN s.strips /\ j \notin DOMAIN beyond
      BY <1>7, <2>1
    <3> QED
      BY <3>1, Zenon DEF e, ie_strip
  <2>3. Bits([ofs |-> 0, len |-> 0]) = {}
    BY DEF Bits
  <2>4. ASSUME NEW j \in 1 .. n, j \notin 1 .. l PROVE Bits(e(j)) = {}
    <3>1. e(j) = [ofs |-> 0, len |-> 0]
      BY <1>7, <2>1, <2>4, Zenon DEF e, ie_strip
    <3> QED
      BY <2>3, <3>1, Zenon
  <2>5. ASSUME NEW u PROVE u \in Read(n) <=> u \in Units(s.strips)
    <3>1. u \in Read(n) <=> \E j \in 1 .. n : u \in Bits(e(j))
      BY Zenon
    <3>2. u \in Units(s.strips) <=> \E j \in 1 .. l : u \in Bits(s.strips[j])
      BY <2>1, InUnits, Zenon
    <3> QED
      BY <2>2, <2>4, <3>1, <3>2, Zenon
  <2> QED
    BY <2>5, Zenon
<1> HIDE DEF Read
<1>8. ASSUME b.rc # Aborted, Len(s.strips) <= n,
             \A j \in 1 .. n : j \notin DOMAIN beyond
      PROVE  b.bitmap = bitmap
  <2>1. b.bitmap = s.bitmap \ Units(s.strips)
    BY <1>6, <1>7, <1>8
  <2> QED
    BY <1>1, <2>1
<1> QED
  BY <1>5, <1>8

(* Parameters that divide a file into at least one strip. *)
Interleaved ==
  {m \in [nbuckets : Nat, nstrips : Nat, chunk : Nat] :
     m # Contiguous /\ m.nstrips > 0}

LEMMA StripsMissing ==
  ASSUME NEW bitmap \in SUBSET Nat, NEW mode \in Interleaved, NEW pos \in Nat,
         NEW s \in Strips(bitmap, mode.nstrips), mode.nstrips <= mode.nbuckets,
         NEW beyond \in Beyond(mode), NEW c,
         c = strips_missing(s, mode, pos, beyond)
  PROVE  Allocates(c, bitmap)
<1> DEFINE n == mode.nbuckets
           b == free_strips(s, n, beyond)
           over == b.rc # Aborted /\ n > FAMFS_MAX_SIMPLE_EXTENTS
           a == Allocation(b.rc, <<>>, b.bitmap, pos)
<1>1. /\ n \in Nat /\ mode.nstrips \in Nat /\ FAMFS_MAX_SIMPLE_EXTENTS \in Nat
      /\ Failed # 0 /\ Aborted # 0 /\ Failed # Aborted /\ <<>> \in Seq(Extent)
      /\ over \in BOOLEAN
  BY DeviceAssumption DEF Interleaved, Failed, Aborted
<1>2. Len(s.strips) \in Nat /\ Len(s.strips) <= n
  <2>1. s.strips \in Seq(Extent) /\ Len(s.strips) <= mode.nstrips
    BY DEF Strips
  <2> QED
    BY <1>1, <2>1, LenProperties
<1>3. c = [a EXCEPT !.overrun = over]
  BY DEF strips_missing
<1>4. DOMAIN beyond = FAMFS_MAX_SIMPLE_EXTENTS + 1 .. n
  BY DEF Beyond
<1> HIDE DEF n
<1>5. /\ b \in Freed
      /\ /\ b.rc # Aborted
         /\ Len(s.strips) <= n
         /\ \A j \in 1 .. n : j \notin DOMAIN beyond
         => b.bitmap = bitmap
  BY <1>1, FreeStrips
<1> HIDE DEF b
<1>6. b.rc \in {Failed, Aborted} /\ b.bitmap \in SUBSET Nat
  BY <1>5 DEF Freed
<1>7. c = [rc |-> b.rc, fmap |-> <<>>, bitmap |-> b.bitmap, pos |-> pos,
           overrun |-> over]
  BY <1>3, Zenon DEF Allocation
<1>8. /\ c.rc = b.rc /\ c.fmap = <<>> /\ c.bitmap = b.bitmap /\ c.pos = pos
      /\ c.overrun = over
  BY <1>7
<1>9. ASSUME b.rc # Aborted, ~over PROVE b.bitmap = bitmap
  <2>1. n <= FAMFS_MAX_SIMPLE_EXTENTS
    BY <1>1, <1>9
  <2>2. \A j \in 1 .. n : j \notin DOMAIN beyond
    BY <1>1, <1>4, <2>1
  <2> QED
    BY <1>2, <1>5, <1>9, <2>2
<1> HIDE DEF over
<1> QED
  BY <1>1, <1>6, <1>8, <1>9, Zenon DEF Allocates

LEMMA AllocStrided ==
  ASSUME NEW bitmap \in SUBSET Nat, NEW mode \in Interleaved,
         NEW size \in Nat, NEW pos \in Nat, NEW order \in bucket_series(mode),
         NEW c \in famfs_file_strided_alloc(bitmap, mode, size, pos, order)
  PROVE  Allocates(c, bitmap)
<1> DEFINE s == alloc_strips(bitmap, mode, size, order)
           valid == famfs_validate_interleave_param(mode)
           none == {Allocation(Failed, <<>>, bitmap, pos)}
           plain == {famfs_file_alloc_contiguous(bitmap, size, 0)}
           some == {Allocation(0, s.strips, s.bitmap, pos)}
           undo == {strips_missing(s, mode, pos, beyond) : beyond \in Beyond(mode)}
<1>1. c \in CASE ~valid -> none
              [] valid /\ size < mode.chunk -> plain
              [] OTHER -> IF Len(s.strips) = mode.nstrips THEN some ELSE undo
  BY DEF famfs_file_strided_alloc
<1>2. <<>> \in Seq(Extent) /\ Failed # 0 /\ 0 \in Nat
  BY DEF Failed
<1> HIDE DEF valid, s
<1>4. CASE ~valid
  <2>1. c = Allocation(Failed, <<>>, bitmap, pos)
    <3>1. c \in none
      <4> HIDE DEF none, plain, some, undo
      <4> QED
        BY <1>1, <1>4
    <3> QED
      BY <3>1
  <2>2. /\ c.rc = Failed /\ c.fmap = <<>> /\ c.bitmap = bitmap /\ c.pos = pos
        /\ c.overrun = FALSE
    BY <2>1 DEF Allocation
  <2> QED
    BY <1>2, <2>2, Zenon DEF Allocates
<1>5. CASE valid /\ size < mode.chunk
  <2>1. c = famfs_file_alloc_contiguous(bitmap, size, 0)
    <3>1. c \in plain
      <4> HIDE DEF none, plain, some, undo
      <4> QED
        BY <1>1, <1>5
    <3> QED
      BY <3>1
  <2> QED
    BY <1>2, <2>1, AllocContiguous
<1>6. CASE valid /\ ~(size < mode.chunk)
  <2>1. c \in IF Len(s.strips) = mode.nstrips THEN some ELSE undo
    <3> HIDE DEF none, plain, some, undo
    <3> QED
      BY <1>1, <1>6
  <2>2. /\ mode.nbuckets \in Nat \ {0} /\ mode.chunk \in Nat \ {0}
        /\ mode.nstrips \in Nat \ {0} /\ mode.nstrips <= mode.nbuckets
    <3>1. /\ mode.chunk > 0 /\ mode.nbuckets \in 1 .. FAMFS_MAX_NBUCKETS
          /\ mode.nstrips <= mode.nbuckets
      BY <1>6, Zenon DEF valid, famfs_validate_interleave_param, Interleaved
    <3> QED
      BY <3>1, DeviceAssumption DEF Interleaved
  <2>3. order \in [1 .. mode.nbuckets -> Nat]
    BY <2>2, BucketSeries
  <2>4. strip_size(mode, size) \in Nat
    BY <2>2, StripSize
  <2>5. s \in Strips(bitmap, mode.nstrips)
    <3>1. mode.nbuckets \in Nat \ {0} /\ mode.nstrips \in Nat
      BY <2>2
    <3> QED
      BY <2>3, <2>4, <3>1, AllocStrips DEF s
  <2>6. /\ s.bitmap \in SUBSET Nat /\ s.strips \in Seq(Extent)
        /\ s.bitmap = bitmap \cup Units(s.strips)
        /\ Units(s.strips) \cap bitmap = {}
        /\ Apart(s.strips)
    BY <2>5 DEF Strips
  <2>7. CASE Len(s.strips) = mode.nstrips
    <3>1. c = Allocation(0, s.strips, s.bitmap, pos)
      BY <2>1, <2>7
    <3>2. /\ c.rc = 0 /\ c.fmap = s.strips /\ c.bitmap = s.bitmap
          /\ c.pos = pos /\ c.overrun = FALSE
      BY <3>1 DEF Allocation
    <3> QED
      BY <1>2, <2>6, <3>2, Zenon DEF Allocates
  <2>8. CASE Len(s.strips) # mode.nstrips
    <3>1. PICK beyond \in Beyond(mode) : c = strips_missing(s, mode, pos, beyond)
      BY <2>1, <2>8
    <3> QED
      BY <2>2, <2>5, <3>1, StripsMissing
  <2> QED
    BY <2>7, <2>8
<1> QED
  BY <1>4, <1>5, <1>6

LEMMA FileAlloc ==
  ASSUME NEW bitmap \in SUBSET Nat, NEW mode \in Interleaved \cup {Contiguous},
         NEW size \in Nat, NEW pos \in Nat, NEW order \in bucket_series(mode),
         NEW c \in famfs_file_alloc(bitmap, mode, size, pos, order)
  PROVE  Allocates(c, bitmap)
<1>1. CASE mode = Contiguous
  <2>1. c = famfs_file_alloc_contiguous(bitmap, size, pos)
    BY <1>1 DEF famfs_file_alloc, alloc_is_interleaved
  <2> QED
    BY <2>1, AllocContiguous
<1>2. CASE mode # Contiguous
  <2>1. c \in famfs_file_strided_alloc(bitmap, mode, size, pos, order)
    BY <1>2 DEF famfs_file_alloc, alloc_is_interleaved
  <2>2. mode \in Interleaved
    BY <1>2
  <2> QED
    BY <1>2, <2>1, <2>2, AllocStrided
<1> QED
  BY <1>1, <1>2
=============================================================================
