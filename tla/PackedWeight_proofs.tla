---------------------- MODULE PackedWeight_proofs ----------------------
(***************************************************************************)
(* Proofs about PackedWeight, for any block, slice, page and chunk size,   *)
(* any shapes, any number of objects and any window.                       *)
(*                                                                         *)
(* A weight is built in layers, and so is the argument: sizes in pages add *)
(* up; a layout covers its tiles; laying it out makes buffers that read as *)
(* the tiles; a weight made of such buffers names every object it owns once.*)
(***************************************************************************)
EXTENDS PackedWeight, FiniteSetTheorems, SequenceTheorems, WellFoundedInduction, TLAPS

-----------------------------------------------------------------------------
(* Numbers, rows and cuts.                                                 *)

(* Among naturals there is a least.                                        *)
LEMMA Smallest ==
    ASSUME NEW Set, Set \subseteq Nat, Set # {}
    PROVE  \E x \in Set : \A y \in Set : x <= y
<1>1. PICK x \in Set : \A y \in Set : ~ (<<y, x>> \in OpToRel(<, Nat))
  <2>1. \E x \in Set : \A y \in Set : ~ (<<y, x>> \in OpToRel(<, Nat))
    BY NatLessThanWellFounded, WFMin
  <2> QED BY <2>1
<1>2. ASSUME NEW y \in Set PROVE x <= y
  <2>1. ~ (<<y, x>> \in OpToRel(<, Nat))
    BY <1>1
  <2>2. <<y, x>> \in Nat \X Nat /\ x \in Nat /\ y \in Nat
    OBVIOUS
  <2>3. ~ (y < x)
    BY <2>1, <2>2 DEF OpToRel
  <2> QED BY <2>2, <2>3
<1> QED BY <1>2

(* Quotients of naturals.                                                  *)
LEMMA Quotient ==
    ASSUME NEW a \in Nat, NEW k \in Nat \ {0}
    PROVE  /\ a \div k \in Nat
           /\ k * (a \div k) <= a /\ a < k * (a \div k) + k
<1>1. a \div k \in Int /\ k * (a \div k) <= a /\ a < k * (a \div k) + k
  OBVIOUS
<1>2. a \div k >= 0
  OBVIOUS
<1> QED BY <1>1, <1>2

(* A quotient is below another when it is so times the divisor.            *)
LEMMA QuotientBelow ==
    ASSUME NEW k \in Nat \ {0}, NEW q \in Int, NEW r \in Int, k * q < k * r + k
    PROVE  q <= r
<1> SUFFICES ASSUME q >= r + 1 PROVE FALSE
  OBVIOUS
<1>1. k * q >= k * (r + 1)
  OBVIOUS
<1>2. k * (r + 1) = k * r + k
  OBVIOUS
<1>3. k * q \in Int /\ k * r \in Int /\ k * (r + 1) \in Int
  OBVIOUS
<1> QED BY <1>1, <1>2, <1>3

(* A function on 1..n is a sequence of length n, and AsSeq leaves it alone.*)
Row(f, n) == n \in Nat /\ f = [i \in 1..n |-> f[i]]

(* A row has its length, and is a sequence.                                *)
LEMMA RowIs ==
    ASSUME NEW f, NEW n, Row(f, n)
    PROVE  Len(f) = n /\ DOMAIN f = 1..n /\ AsSeq(f) = f /\ f \in Seq({f[i] : i \in 1..n})
<1>1. n \in Nat /\ DOMAIN f = 1..n /\ f \in [1..n -> {f[i] : i \in 1..n}]
  BY DEF Row
<1>2. f \in Seq({f[i] : i \in 1..n})
  BY <1>1
<1>3. Len(f) = n
  BY <1>1, <1>2
<1>4. SubSeq(f, 1, Len(f)) = f
  BY <1>2, SubSeqFull
<1> QED BY <1>1, <1>2, <1>3, <1>4 DEF AsSeq

(* What SubSeq cuts out.                                                   *)
LEMMA CutIs ==
    ASSUME NEW s, NEW a \in Int, NEW b \in Nat
    PROVE  /\ SubSeq(s, a + 1, a + b) = [i \in 1..b |-> s[a + i]]
           /\ Row(SubSeq(s, a + 1, a + b), b)
<1>1. SubSeq(s, a + 1, a + b) = [i \in 1..b |-> s[a + i]]
  OBVIOUS
<1> QED BY <1>1 DEF Row

-----------------------------------------------------------------------------
(* Pages: what buffers of given sizes take.                                *)

(* What PackedAssumption says of the numbers.                              *)
LEMMA Constants ==
    /\ T \in Nat \ {0} /\ KS \in Nat \ {0} /\ PAGE \in Nat \ {0} /\ CHUNK \in Nat \ {0}
    /\ KTILE \in Nat /\ orki_int8_ks \in Nat \ {0}
    /\ orki_int8_ks % T = 0 /\ KS % T = 0
<1>1. \A c \in {T, KS, PAGE, BF_MOD, BF_MAX, BF_PACK, CHUNK} : c \in Nat \ {0}
  BY PackedAssumption
<1>2. T \in Nat \ {0} /\ KS \in Nat \ {0} /\ PAGE \in Nat \ {0} /\ CHUNK \in Nat \ {0}
  BY <1>1
<1>3. KTILE \in Nat /\ KS % T = 0 /\ KTILE % T = 0
  BY PackedAssumption
<1>4. orki_int8_ks \in Nat \ {0} /\ orki_int8_ks % T = 0
  BY <1>2, <1>3 DEF orki_int8_ks
<1> QED BY <1>2, <1>3, <1>4

(* What rounding up to whole pages does.                                   *)
LEMMA Rounded ==
    ASSUME NEW n \in Nat
    PROVE  /\ CeilDiv(n, PAGE) \in Nat /\ PgUp(n) \in Nat /\ PgUp(n) = PAGE * CeilDiv(n, PAGE)
           /\ n <= PgUp(n) /\ PgUp(n) % PAGE = 0
           /\ n % PAGE = 0 => PgUp(n) = n
           /\ n > 0 => PgUp(n) > 0
<1> DEFINE a == n + PAGE - 1  q == a \div PAGE  r == n \div PAGE
<1>1. PAGE \in Nat \ {0} /\ a \in Nat
  BY Constants
<1>2. q \in Nat /\ PAGE * q <= a /\ a < PAGE * q + PAGE
  BY <1>1, Quotient
<1>3. r \in Nat /\ n = PAGE * r + (n % PAGE)
  BY <1>1, Quotient
<1> HIDE DEF q, r
<1>4. PAGE * q \in Nat /\ PAGE * r \in Nat
  BY <1>1, <1>2, <1>3
<1>5. n <= PAGE * q
  BY <1>1, <1>2, <1>4
<1>6. (PAGE * q) % PAGE = 0
  BY <1>1, <1>2
<1>7. ASSUME n % PAGE = 0 PROVE PAGE * q = n
  <2>1. n = PAGE * r
    BY <1>3, <1>4, <1>7
  <2>2. PAGE * q < PAGE * r + PAGE
    BY <1>1, <1>2, <1>4, <2>1
  <2>3. q <= r
    BY <1>1, <1>2, <1>3, <2>2, QuotientBelow
  <2>4. PAGE * r < PAGE * q + PAGE
    BY <1>1, <1>2, <1>4, <2>1
  <2>5. r <= q
    BY <1>1, <1>2, <1>3, <2>4, QuotientBelow
  <2> QED BY <1>2, <1>3, <2>1, <2>3, <2>5
<1>8. CeilDiv(n, PAGE) = q
  BY DEF CeilDiv, q
<1>9. PgUp(n) = PAGE * q
  BY <1>8 DEF PgUp
<1> QED BY <1>2, <1>4, <1>5, <1>6, <1>7, <1>8, <1>9

Sized(f) == IsFiniteSet(DOMAIN f) /\ \A i \in DOMAIN f : f[i] \in Nat

(* The pages of buffers, one by one.                                       *)
LEMMA InPages ==
    ASSUME NEW f, NEW x
    PROVE  x \in Pages(f) <=> \E i \in DOMAIN f : \E q \in 1..CeilDiv(f[i], PAGE) : x = <<i, q>>
BY DEF Pages

(* There are finitely many of them.                                        *)
LEMMA PagesFinite ==
    ASSUME NEW f, Sized(f)
    PROVE  IsFiniteSet(Pages(f)) /\ Cardinality(Pages(f)) \in Nat /\ Total(f) \in Nat
<1> DEFINE P(i) == {i} \X (1..CeilDiv(f[i], PAGE))
           S == {P(i) : i \in DOMAIN f}
           g == [i \in DOMAIN f |-> P(i)]
<1>1. IsFiniteSet(DOMAIN f)
  BY DEF Sized
<1>2. g \in Surjection(DOMAIN f, S)
  BY DEF Surjection
<1>3. IsFiniteSet(S)
  BY <1>1, <1>2, FS_Surjection
<1>4. ASSUME NEW i \in DOMAIN f PROVE IsFiniteSet(P(i))
  <2>1. f[i] \in Nat
    BY DEF Sized
  <2>2. CeilDiv(f[i], PAGE) \in Nat
    BY <2>1, Rounded
  <2>3. IsFiniteSet(1..CeilDiv(f[i], PAGE))
    BY <2>2, FS_Interval
  <2>4. IsFiniteSet({i})
    BY FS_Singleton
  <2> QED BY <2>3, <2>4, FS_Product
<1>5. \A X \in S : IsFiniteSet(X)
  BY <1>4
<1>6. IsFiniteSet(UNION S)
  BY <1>3, <1>5, FS_UNION
<1>7. Pages(f) = UNION S
  BY DEF Pages
<1>8. IsFiniteSet(Pages(f))
  BY <1>6, <1>7
<1>9. Cardinality(Pages(f)) \in Nat
  BY <1>8, FS_CardinalityType
<1> QED BY <1>8, <1>9, Constants DEF Total

(* Extents of two kinds together.                                            *)
LEMMA TotalJoin ==
    ASSUME NEW f, NEW g, NEW h, Sized(f), Sized(g),
           DOMAIN f \cap DOMAIN g = {}, DOMAIN h = DOMAIN f \cup DOMAIN g,
           \A i \in DOMAIN f : h[i] = f[i], \A i \in DOMAIN g : h[i] = g[i]
    PROVE  Total(h) = Total(f) + Total(g) /\ Sized(h)
<1>1. Pages(h) = Pages(f) \cup Pages(g)
  <2>1. ASSUME NEW x, x \in Pages(h) PROVE x \in Pages(f) \cup Pages(g)
    <3>1. PICK i \in DOMAIN h : \E q \in 1..CeilDiv(h[i], PAGE) : x = <<i, q>>
      BY <2>1, InPages
    <3>2. CASE i \in DOMAIN f
      BY <3>1, <3>2, InPages
    <3>3. CASE i \in DOMAIN g
      BY <3>1, <3>3, InPages
    <3> QED BY <3>1, <3>2, <3>3
  <2>2. ASSUME NEW x, x \in Pages(f) PROVE x \in Pages(h)
    BY <2>2, InPages
  <2>3. ASSUME NEW x, x \in Pages(g) PROVE x \in Pages(h)
    BY <2>3, InPages
  <2> QED BY <2>1, <2>2, <2>3
<1>2. Pages(f) \cap Pages(g) = {}
  <2> SUFFICES ASSUME NEW x, x \in Pages(f), x \in Pages(g) PROVE FALSE
    OBVIOUS
  <2>1. PICK i \in DOMAIN f : \E q \in 1..CeilDiv(f[i], PAGE) : x = <<i, q>>
    BY InPages
  <2>2. PICK j \in DOMAIN g : \E q \in 1..CeilDiv(g[j], PAGE) : x = <<j, q>>
    BY InPages
  <2> QED BY <2>1, <2>2
<1>3. /\ IsFiniteSet(Pages(f)) /\ Cardinality(Pages(f)) \in Nat
      /\ IsFiniteSet(Pages(g)) /\ Cardinality(Pages(g)) \in Nat
  BY PagesFinite
<1>4. Cardinality(Pages(f) \cup Pages(g)) = Cardinality(Pages(f)) + Cardinality(Pages(g)) - Cardinality(Pages(f) \cap Pages(g))
  BY <1>3, FS_Union
<1>5. Cardinality({}) = 0
  BY FS_EmptySet
<1>6. Cardinality(Pages(h)) = Cardinality(Pages(f)) + Cardinality(Pages(g))
  <2>1. Cardinality(Pages(f) \cap Pages(g)) = 0
    BY <1>2, <1>5
  <2>2. PICK a \in Nat, b \in Nat : a = Cardinality(Pages(f)) /\ b = Cardinality(Pages(g))
    BY <1>3
  <2> QED BY <1>1, <1>4, <2>1, <2>2
<1>7. PICK a \in Nat, b \in Nat, c \in Nat : a = Cardinality(Pages(f)) /\ b = Cardinality(Pages(g)) /\ c = Cardinality(Pages(h))
  BY <1>3, <1>6
<1>8. PAGE * c = PAGE * a + PAGE * b
  BY <1>6, <1>7, Constants
<1>9. IsFiniteSet(DOMAIN h)
  BY FS_Union DEF Sized
<1> QED BY <1>7, <1>8, <1>9 DEF Total, Sized

(* Extents under other names.                                                *)
LEMMA TotalMoved ==
    ASSUME NEW f, NEW g, NEW h, Sized(f),
           \A i, j \in DOMAIN f : h[i] = h[j] => i = j,
           DOMAIN g = {h[i] : i \in DOMAIN f},
           \A i \in DOMAIN f : g[h[i]] = f[i]
    PROVE  Total(g) = Total(f) /\ Sized(g)
<1> DEFINE b == [x \in Pages(f) |-> <<h[x[1]], x[2]>>]
<1>1. b \in Bijection(Pages(f), Pages(g))
  <2>1. ASSUME NEW x \in Pages(f) PROVE b[x] \in Pages(g)
    <3>1. PICK i \in DOMAIN f : \E q \in 1..CeilDiv(f[i], PAGE) : x = <<i, q>>
      BY InPages
    <3>2. PICK q \in 1..CeilDiv(f[i], PAGE) : x = <<i, q>>
      BY <3>1
    <3>3. h[i] \in DOMAIN g /\ g[h[i]] = f[i] /\ b[x] = <<h[i], q>>
      BY <3>2
    <3> QED BY <3>2, <3>3, InPages
  <2>2. ASSUME NEW x \in Pages(f), NEW y \in Pages(f), b[x] = b[y] PROVE x = y
    <3>1. PICK i \in DOMAIN f : \E q \in 1..CeilDiv(f[i], PAGE) : x = <<i, q>>
      BY InPages
    <3>2. PICK j \in DOMAIN f : \E q \in 1..CeilDiv(f[j], PAGE) : y = <<j, q>>
      BY InPages
    <3>3. PICK q \in 1..CeilDiv(f[i], PAGE) : x = <<i, q>>
      BY <3>1
    <3>4. PICK r \in 1..CeilDiv(f[j], PAGE) : y = <<j, r>>
      BY <3>2
    <3>5. b[x] = <<h[i], q>> /\ b[y] = <<h[j], r>>
      BY <3>3, <3>4
    <3> QED BY <2>2, <3>3, <3>4, <3>5
  <2>3. ASSUME NEW y \in Pages(g) PROVE \E x \in Pages(f) : b[x] = y
    <3>1. PICK o \in DOMAIN g : \E q \in 1..CeilDiv(g[o], PAGE) : y = <<o, q>>
      BY InPages
    <3>2. PICK q \in 1..CeilDiv(g[o], PAGE) : y = <<o, q>>
      BY <3>1
    <3>3. PICK i \in DOMAIN f : o = h[i]
      BY <3>1
    <3>4. <<i, q>> \in Pages(f)
      BY <3>2, <3>3, InPages
    <3>5. b[<<i, q>>] = y
      BY <3>2, <3>3, <3>4
    <3> QED BY <3>4, <3>5
  <2>4. b \in [Pages(f) -> Pages(g)]
    BY <2>1
  <2> HIDE DEF b
  <2>5. b \in Injection(Pages(f), Pages(g))
    BY <2>2, <2>4 DEF Injection, IsInjective
  <2>6. b \in Surjection(Pages(f), Pages(g))
    BY <2>3, <2>4 DEF Surjection
  <2> QED BY <2>5, <2>6 DEF Bijection
<1>2. IsFiniteSet(Pages(f))
  BY PagesFinite
<1>3. Cardinality(Pages(g)) = Cardinality(Pages(f))
  BY <1>1, <1>2, FS_Bijection DEF ExistsBijection
<1>4. IsFiniteSet(DOMAIN g)
  <2>1. [i \in DOMAIN f |-> h[i]] \in Surjection(DOMAIN f, DOMAIN g)
    BY DEF Surjection
  <2> QED BY <2>1, FS_Surjection DEF Sized
<1>5. \A o \in DOMAIN g : g[o] \in Nat
  BY DEF Sized
<1> QED BY <1>3, <1>4, <1>5 DEF Total, Sized

(* Fewer sizes.                                                            *)
LEMMA TotalWithin ==
    ASSUME NEW f, NEW g, Sized(f), DOMAIN g \subseteq DOMAIN f,
           \A i \in DOMAIN g : g[i] = f[i]
    PROVE  Total(g) <= Total(f) /\ Sized(g)
<1>1. Pages(g) \subseteq Pages(f)
  BY InPages
<1>2. IsFiniteSet(Pages(f)) /\ Cardinality(Pages(f)) \in Nat
  BY PagesFinite
<1>3. Cardinality(Pages(g)) <= Cardinality(Pages(f))
  BY <1>1, <1>2, FS_Subset
<1>4. IsFiniteSet(DOMAIN g)
  BY FS_Subset DEF Sized
<1>5. Sized(g)
  BY <1>4 DEF Sized
<1>6. Cardinality(Pages(g)) \in Nat
  BY <1>5, PagesFinite
<1>7. PICK a \in Nat, b \in Nat : a = Cardinality(Pages(g)) /\ b = Cardinality(Pages(f))
  BY <1>2, <1>6
<1>8. PAGE * a <= PAGE * b
  BY <1>3, <1>7, Constants
<1> QED BY <1>5, <1>7, <1>8 DEF Total

-----------------------------------------------------------------------------
(* Offsets of whole pages, and the handles the kernel gives.               *)

(* Whole pages in a row: what those before i take.                         *)
Paged(f, n) == Row(f, n) /\ \A i \in 1..n : f[i] \in Nat /\ f[i] % PAGE = 0

(* One buffer takes its pages.                                             *)
LEMMA TotalOfOne ==
    ASSUME NEW i, NEW f, DOMAIN f = {i}, f[i] \in Nat
    PROVE  Total(f) = PgUp(f[i]) /\ Sized(f)
<1>1. CeilDiv(f[i], PAGE) \in Nat
  BY Rounded
<1>2. Pages(f) = {i} \X (1..CeilDiv(f[i], PAGE))
  BY DEF Pages
<1>3. IsFiniteSet({i}) /\ Cardinality({i}) = 1
  BY FS_Singleton
<1>4. IsFiniteSet(1..CeilDiv(f[i], PAGE)) /\ Cardinality(1..CeilDiv(f[i], PAGE)) = CeilDiv(f[i], PAGE)
  BY <1>1, FS_Interval
<1>5. Cardinality(Pages(f)) = Cardinality({i}) * Cardinality(1..CeilDiv(f[i], PAGE))
  BY <1>2, <1>3, <1>4, FS_Product
<1>6. Cardinality(Pages(f)) = CeilDiv(f[i], PAGE)
  BY <1>1, <1>3, <1>4, <1>5
<1> QED BY <1>3, <1>6 DEF Total, PgUp, Sized

(* What a prefix of sizes holds.                                           *)
LEMMA Prefix ==
    ASSUME NEW f, NEW n \in Nat, Paged(f, n), NEW i \in 1..(n + 1)
    PROVE  /\ SubSeq(f, 1, i - 1) = [j \in 1..(i - 1) |-> f[j]]
           /\ Sized(SubSeq(f, 1, i - 1)) /\ Ahead(f, i) \in Nat
<1>1. i - 1 \in Nat
  OBVIOUS
<1>2. SubSeq(f, 0 + 1, 0 + (i - 1)) = [j \in 1..(i - 1) |-> f[0 + j]]
  BY <1>1, CutIs
<1>3. SubSeq(f, 1, i - 1) = [j \in 1..(i - 1) |-> f[j]]
  BY <1>1, <1>2
<1>4. IsFiniteSet(1..(i - 1))
  BY <1>1, FS_Interval
<1>5. Sized(SubSeq(f, 1, i - 1))
  BY <1>3, <1>4 DEF Sized, Paged
<1>6. Ahead(f, i) \in Nat
  BY <1>5, PagesFinite DEF Ahead
<1> QED BY <1>3, <1>5, <1>6

(* Ahead adds up whole pages.                                              *)
LEMMA BeforeIs ==
    ASSUME NEW f, NEW n \in Nat, Paged(f, n)
    PROVE  /\ \A i \in 1..(n + 1) : Ahead(f, i) \in Nat
           /\ Ahead(f, 1) = 0 /\ Ahead(f, n + 1) = Total(f) /\ Total(f) \in Nat
           /\ \A i \in 1..n : Ahead(f, i + 1) = Ahead(f, i) + f[i]
           /\ \A i, j \in 1..(n + 1) : i <= j => Ahead(f, i) <= Ahead(f, j)
           /\ \A i \in 1..n, j \in 1..(n + 1) : i < j => Ahead(f, i) + f[i] <= Ahead(f, j)
<1>1. \A i \in 1..(n + 1) : Ahead(f, i) \in Nat
  BY Prefix
<1>2. Ahead(f, 1) = 0
  <2>1. SubSeq(f, 1, 1 - 1) = [j \in 1..(1 - 1) |-> f[j]]
    BY Prefix
  <2>2. Pages(SubSeq(f, 1, 1 - 1)) = {}
    BY <2>1 DEF Pages
  <2>3. Total(SubSeq(f, 1, 1 - 1)) = PAGE * 0
    BY <2>2, FS_EmptySet DEF Total
  <2> QED BY <2>3, Constants DEF Ahead
<1>3. Ahead(f, n + 1) = Total(f)
  <2>1. SubSeq(f, 1, (n + 1) - 1) = [j \in 1..((n + 1) - 1) |-> f[j]]
    BY Prefix
  <2>2. (n + 1) - 1 = n
    OBVIOUS
  <2>3. f = [j \in 1..n |-> f[j]]
    BY DEF Paged, Row
  <2>4. SubSeq(f, 1, (n + 1) - 1) = f
    BY <2>1, <2>2, <2>3
  <2> QED BY <2>4 DEF Ahead
<1>4. ASSUME NEW i \in 1..n PROVE Ahead(f, i + 1) = Ahead(f, i) + f[i]
  <2>1. PICK a : a = SubSeq(f, 1, i - 1)
    OBVIOUS
  <2>2. PICK b : b = SubSeq(f, 1, (i + 1) - 1)
    OBVIOUS
  <2>3. a = [j \in 1..(i - 1) |-> f[j]] /\ Sized(a)
    <3>1. i \in 1..(n + 1)
      OBVIOUS
    <3> QED BY <2>1, <3>1, Prefix
  <2>4. b = [j \in 1..i |-> f[j]]
    <3>1. i + 1 \in 1..(n + 1) /\ (i + 1) - 1 = i
      OBVIOUS
    <3>2. SubSeq(f, 1, (i + 1) - 1) = [j \in 1..((i + 1) - 1) |-> f[j]]
      BY <3>1, Prefix
    <3> QED BY <2>2, <3>1, <3>2
  <2>5. PICK o : o = [j \in {i} |-> f[i]]
    OBVIOUS
  <2>6. f[i] \in Nat /\ f[i] % PAGE = 0
    BY DEF Paged
  <2>7. Sized(o) /\ Total(o) = PgUp(f[i])
    BY <2>5, <2>6, TotalOfOne
  <2>8. PgUp(f[i]) = f[i]
    BY <2>6, Rounded
  <2>9. DOMAIN a \cap DOMAIN o = {} /\ DOMAIN b = DOMAIN a \cup DOMAIN o
    BY <2>3, <2>4, <2>5
  <2>10. (\A j \in DOMAIN a : b[j] = a[j]) /\ (\A j \in DOMAIN o : b[j] = o[j])
    BY <2>3, <2>4, <2>5
  <2>11. Total(b) = Total(a) + Total(o)
    BY <2>3, <2>7, <2>9, <2>10, TotalJoin
  <2> QED BY <2>1, <2>2, <2>7, <2>8, <2>11 DEF Ahead
<1>5. ASSUME NEW i \in 1..(n + 1), NEW j \in 1..(n + 1), i <= j PROVE Ahead(f, i) <= Ahead(f, j)
  <2>1. PICK a : a = SubSeq(f, 1, i - 1)
    OBVIOUS
  <2>2. PICK b : b = SubSeq(f, 1, j - 1)
    OBVIOUS
  <2>3. a = [k \in 1..(i - 1) |-> f[k]] /\ b = [k \in 1..(j - 1) |-> f[k]] /\ Sized(b)
    BY <2>1, <2>2, Prefix
  <2>4. DOMAIN a \subseteq DOMAIN b /\ \A k \in DOMAIN a : a[k] = b[k]
    BY <1>5, <2>3
  <2>5. Total(a) <= Total(b)
    BY <2>3, <2>4, TotalWithin
  <2> QED BY <2>1, <2>2, <2>5 DEF Ahead
<1>6. ASSUME NEW i \in 1..n, NEW j \in 1..(n + 1), i < j PROVE Ahead(f, i) + f[i] <= Ahead(f, j)
  <2>1. i + 1 \in 1..(n + 1) /\ i + 1 <= j
    BY <1>6
  <2>2. Ahead(f, i + 1) <= Ahead(f, j)
    BY <1>5, <2>1
  <2> QED BY <1>4, <2>2
<1>7. Total(f) \in Nat
  <2>1. n + 1 \in 1..(n + 1)
    OBVIOUS
  <2> QED BY <1>1, <1>3, <2>1
<1> QED BY <1>1, <1>2, <1>3, <1>4, <1>5, <1>6, <1>7

-----------------------------------------------------------------------------
(* The handles: the element of rank n of a finite set of naturals.         *)
RankOf(S, o) == Cardinality({p \in S : p < o})

(* For each rank below their number there is an object.                    *)
LEMMA RankExists ==
    ASSUME NEW S, S \subseteq Nat, IsFiniteSet(S), NEW n \in Nat, n < Cardinality(S)
    PROVE  \E o \in S : RankOf(S, o) = n
<1> DEFINE Bad == {k \in Nat : k < Cardinality(S) /\ ~ \E o \in S : RankOf(S, o) = k}
<1> SUFFICES ASSUME Bad # {} PROVE FALSE
  OBVIOUS
<1>1. PICK k \in Bad : \A y \in Bad : k <= y
  <2>1. Bad \subseteq Nat
    OBVIOUS
  <2> QED BY <2>1, Smallest
<1>2. k \in Nat /\ k < Cardinality(S) /\ ~ \E o \in S : RankOf(S, o) = k
  OBVIOUS
<1>3. Cardinality(S) \in Nat
  BY FS_CardinalityType
<1>4. PICK low : low \subseteq S /\ Cardinality(low) = k /\ \A p \in low, q \in S \ low : p < q
  <2>1. CASE k = 0
    <3>1. Cardinality({}) = 0 /\ {} \subseteq S /\ \A p \in {}, q \in S \ {} : p < q
      BY FS_EmptySet
    <3> QED BY <2>1, <3>1
  <2>2. CASE k # 0
    <3>1. k - 1 \in Nat /\ k - 1 < Cardinality(S) /\ k - 1 \notin Bad
      BY <1>1, <1>2, <1>3, <2>2
    <3>2. PICK o \in S : RankOf(S, o) = k - 1
      BY <3>1
    <3>3. PICK below : below = {p \in S : p < o}
      OBVIOUS
    <3>4. IsFiniteSet(below) /\ Cardinality(below) = k - 1 /\ o \notin below
      <4>1. below \subseteq S /\ o \notin below
        BY <3>3
      <4> QED BY <3>2, <3>3, <4>1, FS_Subset DEF RankOf
    <3>5. Cardinality(below \cup {o}) = Cardinality(below) + 1
      BY <3>4, FS_AddElement
    <3>6. Cardinality(below \cup {o}) = k
      BY <1>2, <3>4, <3>5
    <3>7. \A p \in below \cup {o}, q \in S \ (below \cup {o}) : p < q
      BY <3>3
    <3>8. below \cup {o} \subseteq S
      BY <3>3
    <3> QED BY <3>6, <3>7, <3>8
  <2> QED BY <2>1, <2>2
<1>5. S \ low # {}
  <2>1. ASSUME S \ low = {} PROVE low = S
    BY <1>4, <2>1
  <2> QED BY <1>2, <1>3, <1>4, <2>1
<1>6. PICK o \in S \ low : \A q \in S \ low : o <= q
  <2>1. S \ low \subseteq Nat
    OBVIOUS
  <2> QED BY <1>5, <2>1, Smallest
<1>7. {p \in S : p < o} = low
  <2>1. \A p \in S : p \in Nat
    OBVIOUS
  <2>2. ASSUME NEW p \in S, p < o PROVE p \in low
    BY <1>6, <2>1, <2>2
  <2>3. ASSUME NEW p \in low PROVE p < o
    BY <1>4, <1>6
  <2> QED BY <1>4, <2>2, <2>3
<1> QED BY <1>2, <1>4, <1>6, <1>7 DEF RankOf

(* What NewHandles gives: different ones, none of them in use.             *)
LEMMA HandlesAreNew ==
    ASSUME NEW m, NEW k \in Nat, k <= Cardinality(Objs \ DOMAIN m)
    PROVE  /\ Row(NewHandles(m, 1..k), k)
           /\ \A n \in 1..k : NewHandles(m, 1..k)[n] \in Objs \ DOMAIN m
           /\ \A i, j \in 1..k : NewHandles(m, 1..k)[i] = NewHandles(m, 1..k)[j] => i = j
<1>1. PICK spare : spare = Objs \ DOMAIN m
  OBVIOUS
<1>2. spare \subseteq Nat /\ IsFiniteSet(spare)
  BY <1>1, FS_Difference, PackedAssumption
<1>3. Cardinality(spare) \in Nat /\ k <= Cardinality(spare)
  BY <1>1, <1>2, FS_CardinalityType
<1> DEFINE C(n) == CHOOSE o \in spare : Cardinality({p \in spare : p < o}) = n - 1
<1>4. PICK h : h = [n \in 1..k |-> C(n)]
  OBVIOUS
<1>5. ASSUME NEW n \in 1..k
      PROVE  h[n] \in spare /\ RankOf(spare, h[n]) = n - 1
  <2>1. n - 1 \in Nat /\ n - 1 < Cardinality(spare)
    BY <1>3
  <2>2. \E o \in spare : RankOf(spare, o) = n - 1
    BY <1>2, <2>1, RankExists
  <2>3. h[n] = CHOOSE o \in spare : RankOf(spare, o) = n - 1
    BY <1>4 DEF RankOf
  <2> QED BY <2>2, <2>3
<1>6. Row(h, k)
  <2> HIDE DEF C
  <2> QED BY <1>4 DEF Row
<1>7. NewHandles(m, 1..k) = AsSeq(h)
  BY <1>1, <1>4 DEF NewHandles
<1>8. NewHandles(m, 1..k) = h
  BY <1>6, <1>7, RowIs
<1>9. ASSUME NEW i \in 1..k, NEW j \in 1..k, h[i] = h[j] PROVE i = j
  <2>1. i - 1 = j - 1
    BY <1>5, <1>9
  <2> QED BY <2>1
<1> QED BY <1>1, <1>5, <1>6, <1>8, <1>9

-----------------------------------------------------------------------------
(* Layouts: one object each, one for all.                                  *)

(* n buffers of whole pages.                                               *)
Tiles(c, n) ==
    /\ n \in Nat \ {0} /\ Row(c, n)
    /\ \A i \in 1..n : Row(c[i], Len(c[i])) /\ Len(c[i]) % PAGE = 0

(* A layout of them in k objects: every object is used, every buffer is    *)
(* inside its object, and two in one object do not overlap.                *)
Covers(c, lay, n, k) ==
    /\ Tiles(c, n) /\ Row(lay, n) /\ k \in Nat \ {0}
    /\ \A i \in 1..n : /\ lay[i].at \in 1..k /\ lay[i].off \in Nat /\ lay[i].size \in Nat
                       /\ lay[i].off + Len(c[i]) <= lay[i].size
    /\ \A a \in 1..k : \E i \in 1..n : lay[i].at = a
    /\ \A i, j \in 1..n : lay[i].at = lay[j].at => lay[i].size = lay[j].size
    /\ \A i, j \in 1..n : i < j /\ lay[i].at = lay[j].at => lay[i].off + Len(c[i]) <= lay[j].off

(* The lengths of tiles are whole pages.                                   *)
LEMMA LengthsArePaged ==
    ASSUME NEW c, NEW n, Tiles(c, n)
    PROVE  Paged(Lengths(c), n) /\ \A i \in 1..n : Lengths(c)[i] = Len(c[i]) /\ Len(c[i]) \in Nat
<1>1. DOMAIN c = 1..n
  BY RowIs DEF Tiles
<1>2. Lengths(c) = [i \in 1..n |-> Len(c[i])]
  BY <1>1 DEF Lengths
<1>3. \A i \in 1..n : Len(c[i]) \in Nat /\ Len(c[i]) % PAGE = 0
  BY DEF Tiles, Row
<1> QED BY <1>2, <1>3 DEF Paged, Row, Tiles

(* Each puts every tile in an object of its own.                           *)
LEMMA EachCovers ==
    ASSUME NEW c, NEW n, Tiles(c, n)
    PROVE  /\ Covers(c, Each(c), n, n)
           /\ \A i \in 1..n : Each(c)[i].at = i /\ Each(c)[i].off = 0 /\ Each(c)[i].size = Len(c[i])
<1>1. n \in Nat \ {0} /\ DOMAIN c = 1..n /\ \A i \in 1..n : Len(c[i]) \in Nat
  BY RowIs, LengthsArePaged DEF Tiles
<1>2. PICK lay : lay = [i \in 1..n |-> [at |-> i, off |-> 0, size |-> Len(c[i])]]
  OBVIOUS
<1>3. Row(lay, n)
  BY <1>1, <1>2 DEF Row
<1>4. Each(c) = lay
  BY <1>1, <1>2, <1>3, RowIs DEF Each
<1>5. \A i \in 1..n : lay[i].at = i /\ lay[i].off = 0 /\ lay[i].size = Len(c[i])
  BY <1>2
<1>6. Covers(c, lay, n, n)
  BY <1>1, <1>3, <1>5 DEF Covers
<1> QED BY <1>4, <1>5, <1>6

(* One puts all tiles in one object, back to back.                         *)
LEMMA OneCovers ==
    ASSUME NEW c, NEW n, Tiles(c, n)
    PROVE  /\ Covers(c, One(c), n, 1)
           /\ \A i \in 1..n : /\ One(c)[i].at = 1 /\ One(c)[i].off = Ahead(Lengths(c), i)
                              /\ One(c)[i].size = Total(Lengths(c))
<1>1. n \in Nat \ {0} /\ DOMAIN c = 1..n
  BY RowIs DEF Tiles
<1>2. Paged(Lengths(c), n) /\ \A i \in 1..n : Lengths(c)[i] = Len(c[i]) /\ Len(c[i]) \in Nat
  BY LengthsArePaged
<1>3. PICK f : f = Lengths(c)
  OBVIOUS
<1>4. PICK lay : lay = [i \in 1..n |-> [at |-> 1, off |-> Ahead(f, i), size |-> Total(f)]]
  OBVIOUS
<1>5. Row(lay, n)
  BY <1>1, <1>4 DEF Row
<1>6. One(c) = lay
  BY <1>1, <1>3, <1>4, <1>5, RowIs DEF One
<1>7. \A i \in 1..n : lay[i].at = 1 /\ lay[i].off = Ahead(f, i) /\ lay[i].size = Total(f)
  BY <1>4
<1>8. /\ \A i \in 1..(n + 1) : Ahead(f, i) \in Nat
      /\ Ahead(f, n + 1) = Total(f) /\ Total(f) \in Nat
      /\ \A i \in 1..n, j \in 1..(n + 1) : i < j => Ahead(f, i) + f[i] <= Ahead(f, j)
  BY <1>1, <1>2, <1>3, BeforeIs
<1>9. ASSUME NEW i \in 1..n PROVE Ahead(f, i) \in Nat /\ Ahead(f, i) + Len(c[i]) <= Total(f)
  <2>1. n + 1 \in 1..(n + 1) /\ i < n + 1 /\ i \in 1..(n + 1)
    BY <1>1
  <2>2. Ahead(f, i) + f[i] <= Ahead(f, n + 1)
    BY <1>8, <2>1
  <2> QED BY <1>2, <1>3, <1>8, <2>1, <2>2
<1>10. ASSUME NEW i \in 1..n, NEW j \in 1..n, i < j PROVE Ahead(f, i) + Len(c[i]) <= Ahead(f, j)
  <2>1. j \in 1..(n + 1)
    BY <1>1
  <2> QED BY <1>2, <1>3, <1>8, <1>10, <2>1
<1>11. Covers(c, lay, n, 1)
  <2>1. \A i \in 1..n : /\ lay[i].at \in 1..1 /\ lay[i].off \in Nat /\ lay[i].size \in Nat
                        /\ lay[i].off + Len(c[i]) <= lay[i].size
    BY <1>7, <1>8, <1>9
  <2>2. \A a \in 1..1 : \E i \in 1..n : lay[i].at = a
    <3>1. 1 \in 1..n
      BY <1>1
    <3> QED BY <1>7, <3>1
  <2>3. \A i, j \in 1..n : lay[i].at = lay[j].at => lay[i].size = lay[j].size
    BY <1>7
  <2>4. \A i, j \in 1..n : i < j /\ lay[i].at = lay[j].at => lay[i].off + Len(c[i]) <= lay[j].off
    BY <1>7, <1>10
  <2> QED BY <1>5, <2>1, <2>2, <2>3, <2>4 DEF Covers
<1> QED BY <1>3, <1>6, <1>7, <1>11

-----------------------------------------------------------------------------
(* The chunks.                                                             *)
Fresh(c, a, i) == [at |-> a, off |-> 0, size |-> IF Len(c[i]) > CHUNK THEN Len(c[i]) ELSE CHUNK]
After(c, p, i) ==
    IF p.off + Len(c[i - 1]) + Len(c[i]) > p.size THEN Fresh(c, p.at + 1, i)
    ELSE [p EXCEPT !.off = p.off + Len(c[i - 1])]
Placing(f, c, n) == f = [i \in 1..n |-> IF i = 1 THEN Fresh(c, 1, 1) ELSE After(c, f[i - 1], i)]

(* The recursion of Chunks has a value.                                    *)
LEMMA PlacingExists ==
    ASSUME NEW c, NEW n \in Nat
    PROVE  \E f : Placing(f, c, n)
<1> DEFINE Bad == {m \in Nat : ~ \E f : Placing(f, c, m)}
<1> SUFFICES ASSUME Bad # {} PROVE FALSE
  OBVIOUS
<1>1. PICK m \in Bad : \A y \in Bad : m <= y
  <2>1. Bad \subseteq Nat
    OBVIOUS
  <2> QED BY <2>1, Smallest
<1>2. m \in Nat /\ ~ \E f : Placing(f, c, m)
  OBVIOUS
<1>3. CASE m = 0
  <2>1. PICK f : f = [i \in 1..0 |-> IF i = 1 THEN Fresh(c, 1, 1) ELSE After(c, 0, i)]
    OBVIOUS
  <2>2. f = [i \in 1..0 |-> IF i = 1 THEN Fresh(c, 1, 1) ELSE After(c, f[i - 1], i)]
    BY <2>1
  <2>3. Placing(f, c, 0)
    BY <2>2 DEF Placing
  <2> QED BY <1>2, <1>3, <2>3
<1>4. CASE m # 0
  <2>1. m - 1 \in Nat /\ ~ (m <= m - 1)
    BY <1>2, <1>4
  <2>2. m - 1 \notin Bad
    BY <1>1, <2>1
  <2>3. PICK g : Placing(g, c, m - 1)
    BY <2>1, <2>2
  <2>4. PICK x : x = IF m = 1 THEN Fresh(c, 1, 1) ELSE After(c, g[m - 1], m)
    OBVIOUS
  <2>5. PICK f : f = [i \in 1..m |-> IF i = m THEN x ELSE g[i]]
    OBVIOUS
  <2>6. ASSUME NEW i \in 1..m
        PROVE  f[i] = IF i = 1 THEN Fresh(c, 1, 1) ELSE After(c, f[i - 1], i)
    <3>1. CASE i = m
      <4>1. m # 1 => f[m - 1] = g[m - 1]
        BY <1>2, <1>4, <2>1, <2>5
      <4> QED BY <2>4, <2>5, <3>1, <4>1
    <3>2. CASE i # m
      <4>1. i \in 1..(m - 1) /\ f[i] = g[i]
        BY <1>2, <2>5, <3>2
      <4>2. g[i] = IF i = 1 THEN Fresh(c, 1, 1) ELSE After(c, g[i - 1], i)
        BY <2>3, <4>1 DEF Placing
      <4>3. i # 1 => f[i - 1] = g[i - 1]
        BY <1>2, <2>5, <4>1
      <4> QED BY <4>1, <4>2, <4>3
    <3> QED BY <3>1, <3>2
  <2>7. f = [i \in 1..m |-> IF i = 1 THEN Fresh(c, 1, 1) ELSE After(c, f[i - 1], i)]
    BY <2>5, <2>6
  <2>8. Placing(f, c, m)
    BY <2>7 DEF Placing
  <2> QED BY <1>2, <2>8
<1> QED BY <1>3, <1>4

(* Chunks is that value.                                                   *)
LEMMA ChunksIs ==
    ASSUME NEW c, NEW n, Tiles(c, n)
    PROVE  Placing(Chunks(c), c, n)
<1>1. n \in Nat \ {0} /\ DOMAIN c = 1..n
  BY RowIs DEF Tiles
<1>2. PICK f : f = CHOOSE g : g = [i \in 1..n |->
              IF i = 1 THEN [at |-> 1, off |-> 0, size |-> IF Len(c[1]) > CHUNK THEN Len(c[1]) ELSE CHUNK]
              ELSE IF g[i - 1].off + Len(c[i - 1]) + Len(c[i]) > g[i - 1].size
                   THEN [at |-> g[i - 1].at + 1, off |-> 0, size |-> IF Len(c[i]) > CHUNK THEN Len(c[i]) ELSE CHUNK]
                   ELSE [g[i - 1] EXCEPT !.off = g[i - 1].off + Len(c[i - 1])]]
  OBVIOUS
<1>3. f = CHOOSE g : Placing(g, c, n)
  BY <1>2 DEF Placing, Fresh, After
<1>4. Placing(f, c, n)
  BY <1>1, <1>3, PlacingExists
<1>5. Row(f, n)
  <2>1. f = [i \in 1..n |-> IF i = 1 THEN Fresh(c, 1, 1) ELSE After(c, f[i - 1], i)]
    BY <1>4 DEF Placing
  <2> HIDE <1>2, <1>3, <1>4
  <2> QED BY <1>1, <2>1 DEF Row
<1>6. Chunks(c) = AsSeq(f)
  BY <1>1, <1>2 DEF Chunks
<1> QED BY <1>4, <1>5, <1>6, RowIs

-----------------------------------------------------------------------------
(* Layouts: chunks filled in order.                                        *)

Place == [at : Nat \ {0}, off : Nat, size : Nat]

(* A chunk that is opened holds its first tile.                            *)
LEMMA FreshIs ==
    ASSUME NEW c, NEW n, Tiles(c, n), NEW a \in Nat \ {0}, NEW i \in 1..n
    PROVE  /\ Fresh(c, a, i) \in Place /\ Fresh(c, a, i).at = a /\ Fresh(c, a, i).off = 0
           /\ Len(c[i]) <= Fresh(c, a, i).size
<1>1. Len(c[i]) \in Nat /\ CHUNK \in Nat
  BY LengthsArePaged, Constants
<1> QED BY <1>1 DEF Fresh, Place

(* The next tile lies behind the last, or opens a chunk.                   *)
LEMMA AfterIs ==
    ASSUME NEW c, NEW n, Tiles(c, n), NEW i \in 2..n, NEW p \in Place
    PROVE  /\ After(c, p, i) \in Place
           /\ After(c, p, i).off + Len(c[i]) <= After(c, p, i).size
           /\ \/ After(c, p, i).at = p.at + 1 /\ After(c, p, i).off = 0
              \/ /\ After(c, p, i).at = p.at /\ After(c, p, i).size = p.size
                 /\ After(c, p, i).off = p.off + Len(c[i - 1])
<1>1. i \in 1..n /\ i - 1 \in 1..n /\ n \in Nat
  BY DEF Tiles
<1>2. Len(c[i]) \in Nat /\ Len(c[i - 1]) \in Nat
  BY <1>1, LengthsArePaged
<1>3. p.at \in Nat \ {0} /\ p.off \in Nat /\ p.size \in Nat
  BY DEF Place
<1>4. CASE p.off + Len(c[i - 1]) + Len(c[i]) > p.size
  <2>1. After(c, p, i) = Fresh(c, p.at + 1, i)
    BY <1>4 DEF After
  <2>2. p.at + 1 \in Nat \ {0}
    BY <1>3
  <2>3. /\ Fresh(c, p.at + 1, i) \in Place /\ Fresh(c, p.at + 1, i).at = p.at + 1
        /\ Fresh(c, p.at + 1, i).off = 0 /\ Len(c[i]) <= Fresh(c, p.at + 1, i).size
    BY <1>1, <2>2, FreshIs
  <2> QED BY <1>2, <2>1, <2>3
<1>5. CASE ~ (p.off + Len(c[i - 1]) + Len(c[i]) > p.size)
  <2>1. PICK q : q = [p EXCEPT !.off = p.off + Len(c[i - 1])]
    OBVIOUS
  <2>2. After(c, p, i) = q
    BY <1>5, <2>1 DEF After
  <2>3. q \in Place /\ q.at = p.at /\ q.size = p.size /\ q.off = p.off + Len(c[i - 1])
    BY <1>2, <1>3, <2>1 DEF Place
  <2>4. q.off + Len(c[i]) <= q.size
    BY <1>2, <1>3, <1>5, <2>3
  <2> QED BY <2>2, <2>3, <2>4
<1> QED BY <1>4, <1>5

(* Every tile has its place.                                               *)
LEMMA ChunksPlaced ==
    ASSUME NEW c, NEW n, Tiles(c, n)
    PROVE  \A i \in 1..n : /\ Chunks(c)[i] \in Place /\ Chunks(c)[i].off + Len(c[i]) <= Chunks(c)[i].size
                           /\ i = 1 => Chunks(c)[i].at = 1
                           /\ i > 1 => \/ Chunks(c)[i].at = Chunks(c)[i - 1].at + 1
                                       \/ /\ Chunks(c)[i].at = Chunks(c)[i - 1].at
                                          /\ Chunks(c)[i].size = Chunks(c)[i - 1].size
                                          /\ Chunks(c)[i].off = Chunks(c)[i - 1].off + Len(c[i - 1])
<1>1. PICK f : f = Chunks(c)
  OBVIOUS
<1>2. n \in Nat \ {0} /\ f = [i \in 1..n |-> IF i = 1 THEN Fresh(c, 1, 1) ELSE After(c, f[i - 1], i)]
  BY <1>1, ChunksIs DEF Placing, Tiles
<1> DEFINE Bad == {i \in 1..n : f[i] \notin Place}
<1>3. f[1] = Fresh(c, 1, 1) /\ \A i \in 2..n : f[i] = After(c, f[i - 1], i)
  BY <1>2
<1>4. /\ f[1] \in Place /\ f[1].at = 1 /\ f[1].off = 0 /\ Len(c[1]) <= f[1].size
  BY <1>2, <1>3, FreshIs
<1>5. Bad = {}
  <2> SUFFICES ASSUME Bad # {} PROVE FALSE
    OBVIOUS
  <2>1. PICK i \in Bad : \A y \in Bad : i <= y
    <3>1. Bad \subseteq Nat
      BY <1>2
    <3> QED BY <3>1, Smallest
  <2>2. i \in 2..n
    BY <1>2, <1>4
  <2>3. i - 1 \in 1..n /\ i - 1 \notin Bad
    BY <1>2, <2>1, <2>2
  <2>4. f[i - 1] \in Place
    BY <2>3
  <2>5. f[i] \in Place
    BY <1>3, <2>2, <2>4, AfterIs
  <2> QED BY <2>1, <2>5
<1>6. \A i \in 1..n : f[i] \in Place
  BY <1>5
<1>7. ASSUME NEW i \in 1..n
      PROVE  /\ f[i].off + Len(c[i]) <= f[i].size
             /\ i > 1 => \/ f[i].at = f[i - 1].at + 1
                         \/ /\ f[i].at = f[i - 1].at /\ f[i].size = f[i - 1].size
                            /\ f[i].off = f[i - 1].off + Len(c[i - 1])
  <2>1. CASE i = 1
    <3>1. Len(c[1]) \in Nat
      BY <1>2, LengthsArePaged
    <3> QED BY <1>4, <2>1, <3>1
  <2>2. CASE i # 1
    <3>1. i \in 2..n /\ i - 1 \in 1..n
      BY <1>2, <2>2
    <3>2. f[i - 1] \in Place /\ f[i] = After(c, f[i - 1], i)
      BY <1>3, <1>6, <3>1
    <3> QED BY <3>1, <3>2, AfterIs
  <2> QED BY <2>1, <2>2
<1> QED BY <1>1, <1>4, <1>6, <1>7

(* The number of the object does not fall, and within an object the        *)
(* buffers follow one another.                                             *)
LEMMA ChunksInOrder ==
    ASSUME NEW c, NEW n, Tiles(c, n), NEW i \in 1..n
    PROVE  \A j \in 1..n : i < j =>
              /\ Chunks(c)[i].at <= Chunks(c)[j].at
              /\ Chunks(c)[i].at = Chunks(c)[j].at =>
                    /\ Chunks(c)[i].size = Chunks(c)[j].size
                    /\ Chunks(c)[i].off + Len(c[i]) <= Chunks(c)[j].off
<1>1. PICK f : f = Chunks(c)
  OBVIOUS
<1> DEFINE Good(j) == /\ f[i].at <= f[j].at
                      /\ f[i].at = f[j].at => f[i].size = f[j].size /\ f[i].off + Len(c[i]) <= f[j].off
           Bad == {j \in 1..n : i < j /\ ~ Good(j)}
<1>2. n \in Nat /\ \A j \in 1..n : Len(c[j]) \in Nat
  BY LengthsArePaged DEF Tiles
<1>3. \A j \in 1..n : f[j].at \in Nat /\ f[j].off \in Nat /\ f[j].size \in Nat
  BY <1>1, ChunksPlaced DEF Place
<1>4. \A j \in 1..n : j > 1 => \/ f[j].at = f[j - 1].at + 1
                               \/ /\ f[j].at = f[j - 1].at /\ f[j].size = f[j - 1].size
                                  /\ f[j].off = f[j - 1].off + Len(c[j - 1])
  BY <1>1, ChunksPlaced
<1>5. ASSUME Bad # {} PROVE FALSE
  <2>1. PICK j \in Bad : \A y \in Bad : j <= y
    <3>1. Bad \subseteq Nat
      BY <1>2
    <3> QED BY <1>5, <3>1, Smallest
  <2>2. j \in 1..n /\ i < j /\ ~ Good(j)
    OBVIOUS
  <2>3. j - 1 \in 1..n /\ j > 1 /\ j - 1 \notin Bad
    BY <1>2, <2>1, <2>2
  <2>4. \/ f[j].at = f[j - 1].at + 1
        \/ /\ f[j].at = f[j - 1].at /\ f[j].size = f[j - 1].size
           /\ f[j].off = f[j - 1].off + Len(c[j - 1])
    BY <1>4, <2>2, <2>3
  <2>5. PICK x, y, z : x = f[i] /\ y = f[j - 1] /\ z = f[j]
    OBVIOUS
  <2>6. CASE i = j - 1
    BY <1>2, <1>3, <2>2, <2>3, <2>4, <2>6
  <2>7. CASE i # j - 1
    <3>1. Good(j - 1)
      BY <1>2, <2>2, <2>3, <2>7
    <3>2. /\ x.at <= y.at
          /\ x.at = y.at => x.size = y.size /\ x.off + Len(c[i]) <= y.off
      BY <2>5, <3>1
    <3>3. x.at \in Nat /\ y.at \in Nat /\ z.at \in Nat /\ x.off \in Nat /\ y.off \in Nat /\ z.off \in Nat
      BY <1>3, <2>2, <2>3, <2>5
    <3>4. PICK lx, ly : lx = Len(c[i]) /\ ly = Len(c[j - 1])
      OBVIOUS
    <3>5. lx \in Nat /\ ly \in Nat
      BY <1>2, <2>3, <3>4
    <3>6. z.at = y.at + 1 \/ (z.at = y.at /\ z.size = y.size /\ z.off = y.off + ly)
      BY <2>4, <2>5, <3>4
    <3>7. x.at <= z.at /\ (x.at = z.at => x.size = z.size /\ x.off + lx <= z.off)
      <4>1. CASE z.at = y.at + 1
        BY <3>2, <3>3, <4>1
      <4>2. CASE z.at = y.at /\ z.size = y.size /\ z.off = y.off + ly
        <5>1. x.at <= z.at
          BY <3>2, <4>2
        <5>2. ASSUME x.at = z.at PROVE x.size = z.size /\ x.off + lx <= z.off
          <6>1. x.size = y.size /\ x.off + lx <= y.off
            BY <3>2, <3>4, <4>2, <5>2
          <6>2. x.off + lx <= y.off + ly
            BY <3>3, <3>5, <6>1
          <6> QED BY <4>2, <6>1, <6>2
        <5> QED BY <5>1, <5>2
      <4> QED BY <3>6, <4>1, <4>2
    <3> QED BY <2>2, <2>5, <3>4, <3>7
  <2> QED BY <2>6, <2>7
<1>6. \A j \in 1..n : i < j => Good(j)
  BY <1>5
<1> QED BY <1>1, <1>6

(* Chunks is a layout.                                                     *)
LEMMA ChunksCover ==
    ASSUME NEW c, NEW n, Tiles(c, n)
    PROVE  Covers(c, Chunks(c), n, Chunks(c)[n].at)
<1>1. PICK f : f = Chunks(c)
  OBVIOUS
<1>2. n \in Nat \ {0} /\ \A i \in 1..n : Len(c[i]) \in Nat
  BY LengthsArePaged DEF Tiles
<1>3. \A i \in 1..n : f[i].at \in Nat \ {0} /\ f[i].off \in Nat /\ f[i].size \in Nat /\ f[i].off + Len(c[i]) <= f[i].size
  BY <1>1, ChunksPlaced DEF Place
<1>4. f[1].at = 1 /\ \A i \in 1..n : i > 1 => f[i].at <= f[i - 1].at + 1
  <2>1. 1 \in 1..n
    BY <1>2
  <2>2. f[1].at = 1
    BY <1>1, <2>1, ChunksPlaced
  <2>3. ASSUME NEW i \in 1..n, i > 1 PROVE f[i].at <= f[i - 1].at + 1
    <3>1. i - 1 \in 1..n
      BY <1>2, <2>3
    <3>2. f[i].at = f[i - 1].at + 1 \/ f[i].at = f[i - 1].at
      BY <1>1, <2>3, ChunksPlaced
    <3> QED BY <1>3, <3>1, <3>2
  <2> QED BY <2>2, <2>3
<1>5. \A i, j \in 1..n : i < j =>
              /\ f[i].at <= f[j].at
              /\ f[i].at = f[j].at => f[i].size = f[j].size /\ f[i].off + Len(c[i]) <= f[j].off
  BY <1>1, ChunksInOrder
<1>6. PICK k : k = f[n].at
  OBVIOUS
<1>7. k \in Nat \ {0} /\ \A i \in 1..n : f[i].at \in 1..k
  <2>1. n \in 1..n
    BY <1>2
  <2>2. ASSUME NEW i \in 1..n PROVE f[i].at <= f[n].at
    <3>1. CASE i = n
      BY <1>3, <3>1
    <3>2. CASE i # n
      <4>1. i < n
        BY <1>2, <3>2
      <4> QED BY <1>5, <2>1, <4>1
    <3> QED BY <3>1, <3>2
  <2> QED BY <1>3, <1>6, <2>1, <2>2
<1>8. ASSUME NEW a \in 1..k PROVE \E i \in 1..n : f[i].at = a
  <2> DEFINE Up == {i \in 1..n : a <= f[i].at}
  <2>1. n \in Up
    BY <1>2, <1>6, <1>7
  <2>2. PICK i \in Up : \A y \in Up : i <= y
    <3>1. Up \subseteq Nat /\ Up # {}
      BY <1>2, <2>1
    <3> QED BY <3>1, Smallest
  <2>3. i \in 1..n /\ a <= f[i].at
    OBVIOUS
  <2>4. CASE i = 1
    BY <1>4, <1>7, <2>3, <2>4
  <2>5. CASE i # 1
    <3>1. i - 1 \in 1..n /\ i > 1 /\ i - 1 \notin Up
      BY <1>2, <2>2, <2>3, <2>5
    <3>2. f[i - 1].at < a /\ f[i].at <= f[i - 1].at + 1
      BY <1>3, <1>4, <1>7, <2>3, <3>1
    <3>3. f[i].at = a
      BY <1>3, <1>7, <2>3, <3>1, <3>2
    <3> QED BY <2>3, <3>3
  <2> QED BY <2>4, <2>5
<1>9. Row(f, n)
  <2>1. f = [i \in 1..n |-> IF i = 1 THEN Fresh(c, 1, 1) ELSE After(c, f[i - 1], i)]
    BY <1>1, ChunksIs DEF Placing
  <2> HIDE <1>1
  <2> QED BY <1>2, <2>1 DEF Row
<1>10. \A i, j \in 1..n : f[i].at = f[j].at => f[i].size = f[j].size
  <2>1. ASSUME NEW i \in 1..n, NEW j \in 1..n, f[i].at = f[j].at PROVE f[i].size = f[j].size
    <3>1. i < j \/ i = j \/ j < i
      BY <1>2
    <3> QED BY <1>5, <2>1, <3>1
  <2> QED BY <2>1
<1>11. Covers(c, f, n, k)
  BY <1>3, <1>5, <1>7, <1>8, <1>9, <1>10 DEF Covers
<1> QED BY <1>1, <1>6, <1>11

-----------------------------------------------------------------------------
(* The contents of a layout.                                               *)

(* What a piece puts at a place where it is the only one, and where none is*)
LEMMA PutThere ==
    ASSUME NEW c, NEW at, NEW in, NEW p, NEW old, NEW i \in in, i \in Int,
           p - at[i].off \in DOMAIN c[i],
           \A j \in in : p - at[j].off \in DOMAIN c[j] => j = i
    PROVE  Put(c, at, in, p, old) = c[i][p - at[i].off]
<1> DEFINE there == {j \in in : p - at[j].off \in DOMAIN c[j]}
<1>1. there = {i}
  OBVIOUS
<1>2. (CHOOSE a \in there : \A j \in there : j <= a) = i
  <2>1. \A a : a \in there /\ (\A j \in there : j <= a) <=> a = i
    BY <1>1
  <2> HIDE DEF there
  <2> QED BY <2>1
<1> QED BY <1>1, <1>2 DEF Put

(* The objects of a layout and what they hold.                             *)
LEMMA SizesAre ==
    ASSUME NEW c, NEW lay, NEW n, NEW k, Covers(c, lay, n, k)
    PROVE  /\ DOMAIN lay = 1..n /\ DOMAIN c = 1..n /\ n \in Nat \ {0} /\ k \in Nat \ {0}
           /\ DOMAIN Extents(lay) = 1..k /\ Sized(Extents(lay))
           /\ \A a \in 1..k : Extents(lay)[a] \in Nat
           /\ \A i \in 1..n : Extents(lay)[lay[i].at] = lay[i].size
<1>1. DOMAIN lay = 1..n /\ DOMAIN c = 1..n /\ n \in Nat \ {0} /\ k \in Nat \ {0}
  BY RowIs DEF Covers, Tiles
<1>2. /\ \A i \in 1..n : lay[i].at \in 1..k /\ lay[i].size \in Nat
      /\ \A a \in 1..k : \E i \in 1..n : lay[i].at = a
      /\ \A i, j \in 1..n : lay[i].at = lay[j].at => lay[i].size = lay[j].size
  BY DEF Covers
<1>3. {lay[i].at : i \in DOMAIN lay} = 1..k
  BY <1>1, <1>2
<1>4. DOMAIN Extents(lay) = 1..k
  BY <1>3 DEF Extents
<1>5. ASSUME NEW i \in 1..n PROVE Extents(lay)[lay[i].at] = lay[i].size
  <2>1. Inside(lay, lay[i].at) = {j \in 1..n : lay[j].at = lay[i].at}
    BY <1>1 DEF Inside
  <2>2. PICK j : j = CHOOSE x \in Inside(lay, lay[i].at) : TRUE
    OBVIOUS
  <2>3. j \in Inside(lay, lay[i].at)
    BY <2>1, <2>2
  <2>4. lay[i].at \in {lay[x].at : x \in DOMAIN lay}
    BY <1>1
  <2>5. Extents(lay)[lay[i].at] = lay[j].size
    BY <2>2, <2>4 DEF Extents
  <2> QED BY <1>2, <2>1, <2>3, <2>5
<1>6. ASSUME NEW a \in 1..k PROVE Extents(lay)[a] \in Nat
  BY <1>2, <1>5
<1>7. Sized(Extents(lay))
  <2>1. IsFiniteSet(1..k)
    BY <1>1, FS_Interval
  <2> QED BY <1>4, <1>6, <2>1 DEF Sized
<1> QED BY <1>1, <1>4, <1>5, <1>6, <1>7

(* The objects hold the tiles where it says.                               *)
LEMMA ContentsAre ==
    ASSUME NEW c, NEW lay, NEW n, NEW k, Covers(c, lay, n, k)
    PROVE  /\ Row(Contents(c, lay), k)
           /\ \A a \in 1..k : Row(Contents(c, lay)[a], Extents(lay)[a])
           /\ \A i \in 1..n : \A o \in 1..Len(c[i]) :
                 Contents(c, lay)[lay[i].at][lay[i].off + o] = c[i][o]
<1>1. /\ DOMAIN lay = 1..n /\ DOMAIN c = 1..n /\ n \in Nat \ {0} /\ k \in Nat \ {0}
      /\ DOMAIN Extents(lay) = 1..k
      /\ \A a \in 1..k : Extents(lay)[a] \in Nat
      /\ \A i \in 1..n : Extents(lay)[lay[i].at] = lay[i].size
  BY SizesAre
<1>2. ASSUME NEW a \in 1..k
      PROVE  Contents(c, lay)[a] = [p \in 1..Extents(lay)[a] |-> Put(c, lay, Inside(lay, a), p, Zero)]
  <2>1. PICK f : f = [p \in 1..Extents(lay)[a] |-> Put(c, lay, Inside(lay, a), p, Zero)]
    OBVIOUS
  <2>2. Row(f, Extents(lay)[a])
    BY <1>1, <2>1 DEF Row
  <2>3. AsSeq(f) = f
    BY <2>2, RowIs
  <2> QED BY <1>1, <2>1, <2>3 DEF Contents
<1>3. Row(Contents(c, lay), k)
  BY <1>1 DEF Row, Contents
<1>4. \A a \in 1..k : Row(Contents(c, lay)[a], Extents(lay)[a])
  BY <1>1, <1>2 DEF Row
<1>5. ASSUME NEW i \in 1..n, NEW o \in 1..Len(c[i])
      PROVE  Contents(c, lay)[lay[i].at][lay[i].off + o] = c[i][o]
  <2>1. /\ lay[i].at \in 1..k /\ lay[i].off \in Nat /\ lay[i].size \in Nat
        /\ lay[i].off + Len(c[i]) <= lay[i].size
    BY DEF Covers
  <2>2. \A j \in 1..n : Len(c[j]) \in Nat /\ DOMAIN c[j] = 1..Len(c[j]) /\ lay[j].off \in Nat
    BY RowIs DEF Covers, Tiles, Row
  <2>3. PICK a, p, in : a = lay[i].at /\ p = lay[i].off + o /\ in = Inside(lay, a)
    OBVIOUS
  <2>4. o \in Nat /\ o > 0 /\ o <= Len(c[i]) /\ Len(c[i]) \in Nat
    BY <2>2
  <2>5. p \in 1..Extents(lay)[a]
    BY <1>1, <2>1, <2>3, <2>4
  <2>6. p - lay[i].off = o
    BY <2>1, <2>3, <2>4
  <2>7. i \in in /\ in \subseteq 1..n /\ \A j \in in : lay[j].at = lay[i].at
    BY <1>1, <2>3 DEF Inside
  <2>8. ASSUME NEW j \in in, p - lay[j].off \in DOMAIN c[j] PROVE j = i
    <3>1. j \in 1..n /\ lay[j].at = lay[i].at
      BY <2>7
    <3>2. PICK y : y = lay[j].off
      OBVIOUS
    <3>3. y \in Nat /\ p - y \in 1..Len(c[j]) /\ Len(c[j]) \in Nat
      BY <2>2, <2>8, <3>1, <3>2
    <3>4. ~ (i < j)
      <4>1. i < j => lay[i].off + Len(c[i]) <= y
        BY <3>1, <3>2 DEF Covers
      <4> QED BY <2>1, <2>3, <2>4, <3>3, <4>1
    <3>5. ~ (j < i)
      <4>1. j < i => y + Len(c[j]) <= lay[i].off
        BY <3>1, <3>2 DEF Covers
      <4> QED BY <2>1, <2>3, <2>4, <3>3, <4>1
    <3> QED BY <3>1, <3>4, <3>5
  <2>9. p - lay[i].off \in DOMAIN c[i]
    BY <2>2, <2>6
  <2>10. Put(c, lay, in, p, Zero) = c[i][p - lay[i].off]
    <3>1. i \in Int
      OBVIOUS
    <3> QED BY <2>7, <2>8, <2>9, <3>1, PutThere
  <2>11. Contents(c, lay)[a][p] = Put(c, lay, in, p, Zero)
    BY <1>2, <2>1, <2>3, <2>5
  <2> QED BY <2>3, <2>6, <2>10, <2>11
<1> QED BY <1>3, <1>4, <1>5

-----------------------------------------------------------------------------
(* Buffers laid out in memory.                                             *)

(* A memory: objects among Objs, each a sequence of elements.              *)
MemOK(m) ==
    /\ m = [o \in DOMAIN m |-> m[o]] /\ DOMAIN m \subseteq Objs
    /\ \A o \in DOMAIN m : Row(m[o], Len(m[o]))

(* The usage of a memory.                                                  *)
LEMMA UsageIs ==
    ASSUME NEW m, MemOK(m)
    PROVE  /\ DOMAIN Lengths(m) = DOMAIN m /\ \A o \in DOMAIN m : Lengths(m)[o] = Len(m[o])
           /\ Sized(Lengths(m)) /\ Usage(m) \in Nat /\ IsFiniteSet(DOMAIN m)
<1>1. DOMAIN Lengths(m) = DOMAIN m /\ \A o \in DOMAIN m : Lengths(m)[o] = Len(m[o])
  BY DEF Lengths
<1>2. \A o \in DOMAIN m : Len(m[o]) \in Nat
  BY DEF MemOK, Row
<1>3. IsFiniteSet(DOMAIN m)
  BY PackedAssumption, FS_Subset DEF MemOK
<1>4. Sized(Lengths(m))
  BY <1>1, <1>2, <1>3 DEF Sized
<1> QED BY <1>1, <1>3, <1>4, PagesFinite DEF Usage

(* The values of a row.                                                    *)
LEMMA RangeIs ==
    ASSUME NEW h, NEW k, Row(h, k)
    PROVE  DOMAIN h = 1..k /\ Range(h) = {h[a] : a \in 1..k}
BY RowIs DEF Range

(* The handles of a layout that fits.                                      *)
LEMMA HandlesAre ==
    ASSUME NEW m, NEW c, NEW lay, NEW n, NEW k, Covers(c, lay, n, k), Fits(m, lay)
    PROVE  /\ Row(Laid(m, c, lay).objs, k)
           /\ \A a \in 1..k : Laid(m, c, lay).objs[a] \in Objs \ DOMAIN m
           /\ \A a, b \in 1..k : Laid(m, c, lay).objs[a] = Laid(m, c, lay).objs[b] => a = b
<1>1. k \in Nat \ {0} /\ DOMAIN Extents(lay) = 1..k
  BY SizesAre
<1>2. DOMAIN Contents(c, lay) = 1..k
  <2>1. Row(Contents(c, lay), k)
    BY ContentsAre
  <2> QED BY <2>1, RowIs
<1>3. Laid(m, c, lay).objs = NewHandles(m, 1..k)
  BY <1>2 DEF Laid
<1>4. Cardinality(1..k) = k
  BY <1>1, FS_Interval
<1>5. k <= Cardinality(Objs \ DOMAIN m)
  BY <1>1, <1>4 DEF Fits
<1> QED BY <1>1, <1>3, <1>5, HandlesAreNew

(* What laying buffers out does: the objects that were there keep what     *)
(* they hold, the buffers are where the layout puts them.                  *)
LEMMA LaidIs ==
    ASSUME NEW m, NEW c, NEW lay, NEW n, NEW k, MemOK(m), Covers(c, lay, n, k), Fits(m, lay),
           NEW r, r = Laid(m, c, lay)
    PROVE  /\ Row(r.objs, k) /\ Row(r.bufs, n) /\ MemOK(r.mem)
           /\ DOMAIN r.mem = DOMAIN m \cup Range(r.objs)
           /\ \A o \in DOMAIN m : r.mem[o] = m[o]
           /\ \A a \in 1..k : /\ r.objs[a] \in Objs \ DOMAIN m
                              /\ r.mem[r.objs[a]] = Contents(c, lay)[a]
                              /\ Len(r.mem[r.objs[a]]) = Extents(lay)[a]
           /\ \A a, b \in 1..k : r.objs[a] = r.objs[b] => a = b
           /\ \A i \in 1..n : r.bufs[i] = [obj |-> r.objs[lay[i].at], off |-> lay[i].off,
                                           size |-> Len(c[i]), view |-> FALSE]
           /\ Usage(r.mem) = Usage(m) + Total(Extents(lay)) /\ Usage(r.mem) <= ceil
<1>1. /\ DOMAIN lay = 1..n /\ DOMAIN c = 1..n /\ n \in Nat \ {0} /\ k \in Nat \ {0}
      /\ DOMAIN Extents(lay) = 1..k /\ Sized(Extents(lay))
      /\ \A a \in 1..k : Extents(lay)[a] \in Nat
      /\ \A i \in 1..n : Extents(lay)[lay[i].at] = lay[i].size
  BY SizesAre
<1>2. PICK h : h = r.objs
  OBVIOUS
<1>3. /\ Row(h, k) /\ \A a \in 1..k : h[a] \in Objs \ DOMAIN m
      /\ \A a, b \in 1..k : h[a] = h[b] => a = b
  BY <1>2, HandlesAre
<1>4. DOMAIN h = 1..k /\ Range(h) = {h[a] : a \in 1..k}
  BY <1>3, RangeIs
<1>5. PICK objs : objs = Contents(c, lay)
  OBVIOUS
<1>6. Row(objs, k) /\ \A a \in 1..k : Row(objs[a], Extents(lay)[a]) /\ Len(objs[a]) = Extents(lay)[a]
  <2>1. Row(objs, k) /\ \A a \in 1..k : Row(objs[a], Extents(lay)[a])
    BY <1>5, ContentsAre
  <2>2. ASSUME NEW a \in 1..k PROVE Len(objs[a]) = Extents(lay)[a]
    BY <2>1, RowIs
  <2> QED BY <2>1, <2>2
<1>7. h = NewHandles(m, DOMAIN objs)
  BY <1>2, <1>5 DEF Laid
<1>8. r.mem = [o \in DOMAIN m \cup Range(h) |->
                 IF o \in DOMAIN m THEN m[o] ELSE objs[CHOOSE a \in DOMAIN h : h[a] = o]]
  BY <1>5, <1>7 DEF Laid
<1>9. DOMAIN r.mem = DOMAIN m \cup Range(h) /\ \A o \in DOMAIN m : r.mem[o] = m[o]
  BY <1>8
<1>10. ASSUME NEW a \in 1..k PROVE r.mem[h[a]] = objs[a]
  <2>1. h[a] \notin DOMAIN m /\ h[a] \in Range(h)
    BY <1>3, <1>4
  <2>2. r.mem[h[a]] = objs[CHOOSE b \in DOMAIN h : h[b] = h[a]]
    BY <1>8, <2>1
  <2>3. (CHOOSE b \in DOMAIN h : h[b] = h[a]) = a
    BY <1>3, <1>4
  <2> QED BY <2>2, <2>3
<1>11. Row(r.bufs, n) /\ \A i \in 1..n : r.bufs[i] = [obj |-> h[lay[i].at], off |-> lay[i].off,
                                                      size |-> Len(c[i]), view |-> FALSE]
  <2>1. PICK f : f = [i \in DOMAIN c |-> [obj |-> h[lay[i].at], off |-> lay[i].off,
                                          size |-> Len(c[i]), view |-> FALSE]]
    OBVIOUS
  <2>2. Row(f, n)
    BY <1>1, <2>1 DEF Row
  <2>3. r.bufs = AsSeq(f)
    BY <1>5, <1>7, <2>1 DEF Laid
  <2>4. r.bufs = f
    BY <2>2, <2>3, RowIs
  <2> QED BY <1>1, <2>1, <2>2, <2>4
<1>12. MemOK(r.mem)
  <2>1. r.mem = [o \in DOMAIN r.mem |-> r.mem[o]]
    BY <1>8
  <2>2. DOMAIN r.mem \subseteq Objs
    BY <1>3, <1>4, <1>9 DEF MemOK
  <2>3. ASSUME NEW o \in DOMAIN r.mem PROVE Row(r.mem[o], Len(r.mem[o]))
    <3>1. CASE o \in DOMAIN m
      BY <1>9, <3>1 DEF MemOK
    <3>2. CASE o \notin DOMAIN m
      <4>1. PICK a \in 1..k : o = h[a]
        BY <1>4, <1>9, <3>2
      <4> QED BY <1>6, <1>10, <4>1
    <3> QED BY <3>1, <3>2
  <2> QED BY <2>1, <2>2, <2>3 DEF MemOK
<1>13. Usage(r.mem) = Usage(m) + Total(Extents(lay))
  <2>1. PICK g : g = [o \in Range(h) |-> Len(r.mem[o])]
    OBVIOUS
  <2>2. \A a \in 1..k : h[a] \in Range(h) /\ g[h[a]] = Extents(lay)[a]
    BY <1>4, <1>6, <1>10, <2>1
  <2>3. DOMAIN g = {h[a] : a \in DOMAIN Extents(lay)}
    BY <1>1, <1>4, <2>1
  <2>4. Total(g) = Total(Extents(lay)) /\ Sized(g)
    <3>1. PICK f : f = Extents(lay)
      OBVIOUS
    <3>2. Sized(f) /\ \A a, b \in DOMAIN f : h[a] = h[b] => a = b
      BY <1>1, <1>3, <3>1
    <3>3. DOMAIN g = {h[a] : a \in DOMAIN f} /\ \A a \in DOMAIN f : g[h[a]] = f[a]
      BY <1>1, <2>2, <2>3, <3>1
    <3>4. Total(g) = Total(f) /\ Sized(g)
      BY <3>2, <3>3, TotalMoved
    <3> QED BY <3>1, <3>4
  <2>5. /\ DOMAIN Lengths(m) = DOMAIN m /\ \A o \in DOMAIN m : Lengths(m)[o] = Len(m[o])
        /\ Sized(Lengths(m))
    BY UsageIs
  <2>6. /\ DOMAIN Lengths(r.mem) = DOMAIN r.mem
        /\ \A o \in DOMAIN r.mem : Lengths(r.mem)[o] = Len(r.mem[o])
    BY <1>12, UsageIs
  <2>7. DOMAIN m \cap DOMAIN g = {}
    BY <1>3, <1>4, <2>1
  <2>8. \A o \in DOMAIN m : Lengths(r.mem)[o] = Lengths(m)[o]
    BY <1>9, <2>5, <2>6
  <2>9. \A o \in DOMAIN g : Lengths(r.mem)[o] = g[o]
    BY <1>9, <2>1, <2>6
  <2>10. Total(Lengths(r.mem)) = Total(Lengths(m)) + Total(g)
    <3>1. PICK f1, f2 : f1 = Lengths(m) /\ f2 = Lengths(r.mem)
      OBVIOUS
    <3>2. DOMAIN f1 \cap DOMAIN g = {} /\ DOMAIN f2 = DOMAIN f1 \cup DOMAIN g /\ Sized(f1)
      BY <1>9, <2>1, <2>5, <2>6, <2>7, <3>1
    <3>3. (\A o \in DOMAIN f1 : f2[o] = f1[o]) /\ \A o \in DOMAIN g : f2[o] = g[o]
      BY <2>5, <2>8, <2>9, <3>1
    <3> QED BY <2>4, <3>1, <3>2, <3>3, TotalJoin
  <2> QED BY <2>4, <2>10 DEF Usage
<1>14. Usage(r.mem) <= ceil
  BY <1>13 DEF Fits
<1> QED BY <1>2, <1>3, <1>5, <1>6, <1>9, <1>10, <1>11, <1>12, <1>13, <1>14

(* What is read through the buffers.                                       *)
InPlace(r, c, n) ==
    \A i \in 1..n :
       /\ r.bufs[i].obj \in Range(r.objs) /\ r.bufs[i].off \in Nat
       /\ r.bufs[i].size = Len(c[i]) /\ Len(c[i]) \in Nat /\ Len(c[i]) % PAGE = 0
       /\ r.bufs[i].off + Len(c[i]) <= Len(r.mem[r.bufs[i].obj])
       /\ \A o \in 1..Len(c[i]) : r.mem[r.bufs[i].obj][r.bufs[i].off + o] = c[i][o]

(* Read through its buffer each tile is what was laid.                     *)
LEMMA LaidReads ==
    ASSUME NEW m, NEW c, NEW lay, NEW n, NEW k, MemOK(m), Covers(c, lay, n, k), Fits(m, lay)
    PROVE  InPlace(Laid(m, c, lay), c, n)
<1> SUFFICES ASSUME NEW r, r = Laid(m, c, lay), NEW i \in 1..n
             PROVE  /\ r.bufs[i].obj \in Range(r.objs) /\ r.bufs[i].off \in Nat
                    /\ r.bufs[i].size = Len(c[i]) /\ Len(c[i]) \in Nat /\ Len(c[i]) % PAGE = 0
                    /\ r.bufs[i].off + Len(c[i]) <= Len(r.mem[r.bufs[i].obj])
                    /\ \A o \in 1..Len(c[i]) : r.mem[r.bufs[i].obj][r.bufs[i].off + o] = c[i][o]
  BY DEF InPlace
<1>1. /\ Row(r.objs, k)
      /\ \A a \in 1..k : /\ r.mem[r.objs[a]] = Contents(c, lay)[a]
                         /\ Len(r.mem[r.objs[a]]) = Extents(lay)[a]
      /\ r.bufs[i] = [obj |-> r.objs[lay[i].at], off |-> lay[i].off,
                      size |-> Len(c[i]), view |-> FALSE]
  BY LaidIs
<1>2. /\ lay[i].at \in 1..k /\ lay[i].off \in Nat /\ lay[i].size \in Nat
      /\ lay[i].off + Len(c[i]) <= lay[i].size
  BY DEF Covers
<1>3. Extents(lay)[lay[i].at] = lay[i].size
  BY SizesAre
<1>4. \A o \in 1..Len(c[i]) : Contents(c, lay)[lay[i].at][lay[i].off + o] = c[i][o]
  BY ContentsAre
<1>5. Len(c[i]) \in Nat /\ Len(c[i]) % PAGE = 0
  BY DEF Covers, Tiles, Row
<1>6. r.objs[lay[i].at] \in Range(r.objs)
  BY <1>1, <1>2, RangeIs
<1>7. r.mem[r.bufs[i].obj] = Contents(c, lay)[lay[i].at]
  BY <1>1, <1>2
<1>8. r.bufs[i].obj = r.objs[lay[i].at] /\ r.bufs[i].off = lay[i].off /\ r.bufs[i].size = Len(c[i])
  BY <1>1
<1>9. Len(r.mem[r.bufs[i].obj]) = lay[i].size
  BY <1>1, <1>2, <1>3, <1>8
<1>10. \A o \in 1..Len(c[i]) : r.mem[r.bufs[i].obj][r.bufs[i].off + o] = c[i][o]
  BY <1>4, <1>7, <1>8
<1> QED BY <1>2, <1>5, <1>6, <1>8, <1>9, <1>10

-----------------------------------------------------------------------------
(* The slices of a matrix.                                                 *)

(* The i-th of slices that are Sk to a column of them.                      *)
LEMMA SplitIndex ==
    ASSUME NEW i \in Nat \ {0}, NEW Sk \in Nat \ {0}
    PROVE  /\ (i - 1) \div Sk \in Nat
           /\ Sk * ((i - 1) \div Sk) <= i - 1 /\ i - 1 < Sk * ((i - 1) \div Sk) + Sk
           /\ (i - 1) % Sk \in Nat /\ (i - 1) % Sk < Sk
           /\ i = ((i - 1) \div Sk) * Sk + ((i - 1) % Sk) + 1
<1>1. PICK x, kq, nq : x = i - 1 /\ kq = x % Sk /\ nq = x \div Sk
  OBVIOUS
<1>2. x \in Nat
  BY <1>1
<1>3. nq \in Nat /\ Sk * nq <= x /\ x < Sk * nq + Sk
  BY <1>1, <1>2, Quotient
<1>4. kq \in Nat /\ kq < Sk
  BY <1>1, <1>2
<1>5. x = nq * Sk + kq
  BY <1>1, <1>2
<1>6. nq * Sk = Sk * nq /\ Sk * nq \in Nat
  BY <1>3
<1> QED BY <1>1, <1>3, <1>4, <1>5, <1>6

(* The number of pieces of b that a takes.                                 *)
LEMMA Pieces ==
    ASSUME NEW a \in Nat \ {0}, NEW b \in Nat \ {0}
    PROVE  /\ CeilDiv(a, b) \in Nat \ {0}
           /\ b * CeilDiv(a, b) >= a /\ b * (CeilDiv(a, b) - 1) < a
<1>1. PICK q : q = (a + b - 1) \div b
  OBVIOUS
<1>2. a + b - 1 \in Nat
  OBVIOUS
<1>3. q \in Nat /\ b * q <= a + b - 1 /\ a + b - 1 < b * q + b
  BY <1>1, <1>2, Quotient
<1>4. PICK x : x = b * q
  OBVIOUS
<1>5. x \in Nat
  BY <1>3, <1>4
<1>6. x >= a
  BY <1>3, <1>4, <1>5
<1>7. q # 0
  BY <1>3, <1>4, <1>6
<1>8. b * (q - 1) = x - b
  BY <1>3, <1>4
<1> QED BY <1>1, <1>3, <1>4, <1>5, <1>6, <1>7, <1>8 DEF CeilDiv

(* Half of a slice: piece q of a, pieces of b.                             *)
LEMMA PieceIs ==
    ASSUME NEW a \in Nat \ {0}, NEW b \in Nat \ {0}, NEW q \in Nat, q < CeilDiv(a, b)
    PROVE  /\ q * b \in Nat /\ Lesser(a - q * b, b) \in Nat \ {0}
           /\ q * b + Lesser(a - q * b, b) <= a /\ Lesser(a - q * b, b) <= b
           /\ q * b + Lesser(a - q * b, b) = IF q + 1 < CeilDiv(a, b) THEN (q + 1) * b ELSE a
<1>1. PICK n : n = CeilDiv(a, b)
  OBVIOUS
<1>2. n \in Nat \ {0} /\ b * n >= a /\ b * (n - 1) < a
  BY <1>1, Pieces
<1>3. PICK x : x = q * b
  OBVIOUS
<1>4. x \in Nat
  BY <1>3
<1>5. x < a
  <2>1. b * q <= b * (n - 1)
    <3>1. q <= n - 1 /\ n - 1 \in Nat
      BY <1>1, <1>2
    <3> QED BY <3>1
  <2>2. b * q = x
    BY <1>3
  <2>3. b * (n - 1) \in Int
    BY <1>2
  <2> QED BY <1>2, <1>4, <2>1, <2>2, <2>3
<1>6. CASE q + 1 < n
  <2>1. b * (q + 1) <= b * (n - 1)
    <3>1. q + 1 <= n - 1 /\ n - 1 \in Nat
      BY <1>2, <1>6
    <3> QED BY <3>1
  <2>2. b * (q + 1) = x + b /\ (q + 1) * b = x + b
    BY <1>3
  <2>3. b * (n - 1) \in Int
    BY <1>2
  <2>4. x + b < a
    BY <1>2, <1>4, <2>1, <2>2, <2>3
  <2>5. Lesser(a - x, b) = b
    BY <1>4, <2>4 DEF Lesser
  <2> QED BY <1>1, <1>3, <1>4, <1>6, <2>2, <2>4, <2>5
<1>7. CASE ~ (q + 1 < n)
  <2>1. n = q + 1
    BY <1>1, <1>2, <1>7
  <2>2. b * n = x + b
    BY <1>3, <2>1
  <2>3. a - x <= b /\ a - x \in Nat \ {0}
    BY <1>2, <1>4, <1>5, <2>2
  <2>4. Lesser(a - x, b) = a - x
    BY <2>3 DEF Lesser
  <2> QED BY <1>1, <1>3, <1>4, <1>5, <1>7, <2>3, <2>4
<1> QED BY <1>6, <1>7

(* The slices of a matrix.                                                 *)
LEMMA SlicesAre ==
    ASSUME NEW sh, sh[1] \in Nat \ {0}, sh[2] \in Nat \ {0},
           NEW ks \in Nat \ {0}, NEW nmax \in Nat \ {0},
           NEW Sk, Sk = CeilDiv(sh[1], ks), NEW n, n = Sk * CeilDiv(sh[2], nmax)
    PROVE  /\ Sk \in Nat \ {0} /\ n \in Nat \ {0} /\ Row(SlicesOf(sh, ks, nmax), n)
           /\ \A i \in 1..n :
                 LET s == SlicesOf(sh, ks, nmax)[i]
                     kq == (i - 1) % Sk
                     nq == (i - 1) \div Sk
                 IN /\ kq \in Nat /\ kq < Sk /\ nq \in Nat /\ nq < CeilDiv(sh[2], nmax)
                    /\ i = nq * Sk + kq + 1
                    /\ s.k0 = kq * ks /\ s.n0 = nq * nmax
                    /\ s.Kp = Lesser(sh[1] - kq * ks, ks) /\ s.Nc = Lesser(sh[2] - nq * nmax, nmax)
                    /\ s.k0 \in Nat /\ s.n0 \in Nat
                    /\ s.Kp \in Nat \ {0} /\ s.Nc \in Nat \ {0} /\ s.Kp * s.Nc \in Nat \ {0}
                    /\ s.k0 + s.Kp <= sh[1] /\ s.n0 + s.Nc <= sh[2]
<1>1. PICK Sn : Sn = CeilDiv(sh[2], nmax)
  OBVIOUS
<1>2. Sk \in Nat \ {0} /\ Sn \in Nat \ {0}
  BY <1>1, Pieces
<1>3. n \in Nat \ {0}
  <2>1. Sk * Sn \in Nat /\ Sk * Sn # 0
    BY <1>2
  <2> QED BY <1>1, <2>1
<1>4. PICK f : f = [i \in 1..n |->
            [k0 |-> ((i - 1) % Sk) * ks, n0 |-> ((i - 1) \div Sk) * nmax,
             Kp |-> Lesser(sh[1] - ((i - 1) % Sk) * ks, ks),
             Nc |-> Lesser(sh[2] - ((i - 1) \div Sk) * nmax, nmax)]]
  OBVIOUS
<1>5. Row(f, n)
  BY <1>3, <1>4 DEF Row
<1>6. SlicesOf(sh, ks, nmax) = f
  <2>1. SlicesOf(sh, ks, nmax) = AsSeq(f)
    BY <1>4 DEF SlicesOf
  <2> QED BY <1>5, <2>1, RowIs
<1>7. ASSUME NEW i \in 1..n, NEW s, s = f[i], NEW kq, kq = (i - 1) % Sk, NEW nq, nq = (i - 1) \div Sk
      PROVE  /\ kq \in Nat /\ kq < Sk /\ nq \in Nat /\ nq < Sn /\ i = nq * Sk + kq + 1
             /\ s.k0 = kq * ks /\ s.n0 = nq * nmax
             /\ s.Kp = Lesser(sh[1] - kq * ks, ks) /\ s.Nc = Lesser(sh[2] - nq * nmax, nmax)
             /\ s.k0 \in Nat /\ s.n0 \in Nat
             /\ s.Kp \in Nat \ {0} /\ s.Nc \in Nat \ {0} /\ s.Kp * s.Nc \in Nat \ {0}
             /\ s.k0 + s.Kp <= sh[1] /\ s.n0 + s.Nc <= sh[2]
  <2>1. i - 1 \in Nat
    OBVIOUS
  <2>2. /\ nq \in Nat /\ Sk * nq <= i - 1 /\ i - 1 < Sk * nq + Sk
        /\ kq \in Nat /\ kq < Sk /\ i = nq * Sk + kq + 1
    <3>1. i \in Nat \ {0}
      OBVIOUS
    <3>2. Sk \in Nat \ {0}
      BY <1>2
    <3>3. /\ (i - 1) \div Sk \in Nat
          /\ Sk * ((i - 1) \div Sk) <= i - 1 /\ i - 1 < Sk * ((i - 1) \div Sk) + Sk
          /\ (i - 1) % Sk \in Nat /\ (i - 1) % Sk < Sk
          /\ i = ((i - 1) \div Sk) * Sk + ((i - 1) % Sk) + 1
      BY <3>1, <3>2, SplitIndex, Zenon
    <3> QED BY <1>7, <3>3, Zenon
  <2>5. nq < Sn
    <3>1. i - 1 < Sk * Sn
      BY <1>1, <1>3
    <3>2. Sn - 1 \in Int /\ Sk * Sn = Sk * (Sn - 1) + Sk
      BY <1>2
    <3>3. Sk * nq < Sk * (Sn - 1) + Sk
      <4>1. Sk * nq \in Nat /\ Sk * Sn \in Nat
        BY <1>2, <2>2
      <4> QED BY <2>1, <2>2, <3>1, <3>2, <4>1
    <3>4. nq <= Sn - 1
      BY <1>2, <2>2, <3>2, <3>3, QuotientBelow
    <3> QED BY <1>2, <2>2, <3>4
  <2>6. /\ kq * ks \in Nat /\ Lesser(sh[1] - kq * ks, ks) \in Nat \ {0}
        /\ kq * ks + Lesser(sh[1] - kq * ks, ks) <= sh[1]
    BY <2>2, PieceIs
  <2>7. /\ nq * nmax \in Nat /\ Lesser(sh[2] - nq * nmax, nmax) \in Nat \ {0}
        /\ nq * nmax + Lesser(sh[2] - nq * nmax, nmax) <= sh[2]
    BY <1>1, <2>2, <2>5, PieceIs
  <2>8. /\ s.k0 = kq * ks /\ s.n0 = nq * nmax
        /\ s.Kp = Lesser(sh[1] - kq * ks, ks) /\ s.Nc = Lesser(sh[2] - nq * nmax, nmax)
    BY <1>4, <1>7
  <2>9. s.Kp \in Nat \ {0} /\ s.Nc \in Nat \ {0}
    BY <2>6, <2>7, <2>8
  <2>10. s.Kp * s.Nc \in Nat \ {0}
    BY <2>9
  <2> QED BY <2>2, <2>5, <2>6, <2>7, <2>8, <2>9, <2>10
<1> QED BY <1>1, <1>2, <1>3, <1>5, <1>6, <1>7

-----------------------------------------------------------------------------
(* Tiles and bodies.                                                       *)

(* Contents rounded up to whole pages.                                     *)
LEMMA PaddedIs ==
    ASSUME NEW c, NEW n, Row(c, n)
    PROVE  /\ Row(Padded(c), PgUp(n)) /\ Len(Padded(c)) = PgUp(n) /\ PgUp(n) \in Nat
           /\ PgUp(n) % PAGE = 0 /\ n <= PgUp(n)
           /\ \A o \in 1..n : Padded(c)[o] = c[o]
<1>1. n \in Nat /\ Len(c) = n
  BY RowIs DEF Row
<1>2. PgUp(n) \in Nat /\ PgUp(n) % PAGE = 0 /\ n <= PgUp(n)
  BY <1>1, Rounded
<1>3. PICK f : f = [p \in 1..PgUp(n) |-> IF p <= n THEN c[p] ELSE Zero]
  OBVIOUS
<1>4. Row(f, PgUp(n))
  BY <1>2, <1>3 DEF Row
<1>5. Padded(c) = f
  <2>1. Padded(c) = AsSeq(f)
    BY <1>1, <1>3 DEF Padded
  <2> QED BY <1>4, <2>1, RowIs
<1>6. Len(f) = PgUp(n)
  BY <1>4, RowIs
<1>7. \A o \in 1..n : f[o] = c[o]
  BY <1>1, <1>2, <1>3
<1> QED BY <1>2, <1>4, <1>5, <1>6, <1>7

(* A tile has Kp * Nc elements.                                            *)
LEMMA WholeTile ==
    ASSUME NEW c, NEW n, Row(c, n)
    PROVE  Tiles(<<Padded(c)>>, 1) /\ Len(<<Padded(c)>>[1]) = PgUp(n)
<1>1. PICK d : d = Padded(c)
  OBVIOUS
<1>2. Row(d, PgUp(n)) /\ Len(d) = PgUp(n) /\ PgUp(n) % PAGE = 0
  BY <1>1, PaddedIs
<1>3. Row(<<d>>, 1)
  BY DEF Row
<1>4. <<d>>[1] = d
  OBVIOUS
<1>5. \A i \in 1..1 : Row(<<d>>[i], Len(<<d>>[i])) /\ Len(<<d>>[i]) % PAGE = 0
  BY <1>2, <1>4
<1> QED BY <1>1, <1>2, <1>3, <1>4, <1>5 DEF Tiles

(* Slices: what a tile of one takes is a number.                           *)
Slices(sl, n) == /\ n \in Nat \ {0} /\ Row(sl, n)
                 /\ \A i \in 1..n : sl[i].Kp \in Nat /\ sl[i].Nc \in Nat /\ sl[i].Kp * sl[i].Nc \in Nat

(* A matrix has slices.                                                    *)
LEMMA SlicesExist ==
    ASSUME NEW sh, sh[1] \in Nat \ {0}, sh[2] \in Nat \ {0},
           NEW ks \in Nat \ {0}, NEW nmax \in Nat \ {0}
    PROVE  \E n \in Nat \ {0} : Slices(SlicesOf(sh, ks, nmax), n)
<1>1. PICK Sk : Sk = CeilDiv(sh[1], ks)
  OBVIOUS
<1>2. PICK n : n = Sk * CeilDiv(sh[2], nmax)
  OBVIOUS
<1>3. PICK sl : sl = SlicesOf(sh, ks, nmax)
  OBVIOUS
<1>4. n \in Nat \ {0} /\ Row(sl, n)
  BY <1>1, <1>2, <1>3, SlicesAre
<1>5. ASSUME NEW i \in 1..n PROVE sl[i].Kp \in Nat \ {0} /\ sl[i].Nc \in Nat \ {0}
  BY <1>1, <1>2, <1>3, SlicesAre
<1>6. ASSUME NEW i \in 1..n PROVE sl[i].Kp * sl[i].Nc \in Nat
  BY <1>5
<1> QED BY <1>3, <1>4, <1>5, <1>6 DEF Slices

(* A set of tiles.                                                         *)
LEMMA TiledIs ==
    ASSUME NEW E, NEW s, s.Kp * s.Nc \in Nat
    PROVE  /\ Row(Tiled(E, s), s.Kp * s.Nc)
           /\ \A o \in 1..(s.Kp * s.Nc) : Tiled(E, s)[o] =
                 E[<<s.k0 + RowOf(o - 1, s.Kp), s.n0 + ColOf(o - 1, s.Kp)>>]
<1>1. PICK f : f = [o \in 1..(s.Kp * s.Nc) |->
                      E[<<s.k0 + RowOf(o - 1, s.Kp), s.n0 + ColOf(o - 1, s.Kp)>>]]
  OBVIOUS
<1>2. Row(f, s.Kp * s.Nc)
  BY <1>1 DEF Row
<1>3. Tiled(E, s) = f
  BY <1>1, <1>2, RowIs DEF Tiled
<1> QED BY <1>1, <1>2, <1>3

(* What TileSet gives.                                                     *)
LEMMA TileSetIs ==
    ASSUME NEW E, NEW sl, NEW n, Slices(sl, n)
    PROVE  /\ Tiles(TileSet(E, sl), n)
           /\ \A i \in 1..n : /\ Len(TileSet(E, sl)[i]) = PgUp(sl[i].Kp * sl[i].Nc)
                              /\ sl[i].Kp * sl[i].Nc <= PgUp(sl[i].Kp * sl[i].Nc)
                              /\ \A o \in 1..(sl[i].Kp * sl[i].Nc) :
                                    TileSet(E, sl)[i][o] = Tiled(E, sl[i])[o]
<1>1. n \in Nat \ {0} /\ Row(sl, n) /\ DOMAIN sl = 1..n
  BY RowIs DEF Slices
<1>2. PICK f : f = [i \in 1..n |-> Padded(Tiled(E, sl[i]))]
  OBVIOUS
<1>3. Row(f, n)
  BY <1>1, <1>2 DEF Row
<1>4. TileSet(E, sl) = f
  BY <1>1, <1>2, <1>3, RowIs DEF TileSet
<1>5. ASSUME NEW i \in 1..n
      PROVE  /\ Row(f[i], Len(f[i])) /\ Len(f[i]) % PAGE = 0
             /\ Len(f[i]) = PgUp(sl[i].Kp * sl[i].Nc)
             /\ sl[i].Kp * sl[i].Nc <= PgUp(sl[i].Kp * sl[i].Nc)
             /\ \A o \in 1..(sl[i].Kp * sl[i].Nc) : f[i][o] = Tiled(E, sl[i])[o]
  <2>1. PICK s, t, k : s = sl[i] /\ t = Tiled(E, s) /\ k = s.Kp * s.Nc
    OBVIOUS
  <2>2. k \in Nat
    BY <2>1 DEF Slices
  <2>3. Row(t, k)
    BY <2>1, <2>2, TiledIs
  <2>4. f[i] = Padded(t)
    BY <1>2, <2>1
  <2>5. /\ Row(Padded(t), PgUp(k)) /\ Len(Padded(t)) = PgUp(k) /\ PgUp(k) \in Nat
        /\ PgUp(k) % PAGE = 0 /\ k <= PgUp(k) /\ \A o \in 1..k : Padded(t)[o] = t[o]
    BY <2>3, PaddedIs
  <2> QED BY <2>1, <2>4, <2>5
<1>6. Tiles(f, n)
  BY <1>1, <1>3, <1>5 DEF Tiles
<1> QED BY <1>4, <1>5, <1>6

(* A body cut into tiles.                                                  *)
LEMMA TileSizesAre ==
    ASSUME NEW sh, NEW ks, NEW nmax, NEW n, Slices(SlicesOf(sh, ks, nmax), n)
    PROVE  /\ Paged(TileSizes(sh, ks, nmax), n)
           /\ \A i \in 1..n : TileSizes(sh, ks, nmax)[i] =
                 PgUp(SlicesOf(sh, ks, nmax)[i].Kp * SlicesOf(sh, ks, nmax)[i].Nc)
<1>1. PICK sl : sl = SlicesOf(sh, ks, nmax)
  OBVIOUS
<1>2. n \in Nat \ {0} /\ Row(sl, n) /\ DOMAIN sl = 1..n
  BY <1>1, RowIs DEF Slices
<1>3. PICK f : f = [i \in 1..n |-> PgUp(sl[i].Kp * sl[i].Nc)]
  OBVIOUS
<1>4. Row(f, n)
  BY <1>2, <1>3 DEF Row
<1>5. TileSizes(sh, ks, nmax) = f
  BY <1>1, <1>2, <1>3, <1>4, RowIs DEF TileSizes
<1>6. ASSUME NEW i \in 1..n PROVE f[i] \in Nat /\ f[i] % PAGE = 0
  <2>1. PICK k : k = sl[i].Kp * sl[i].Nc
    OBVIOUS
  <2>2. k \in Nat
    BY <1>1, <2>1 DEF Slices
  <2>3. PgUp(k) \in Nat /\ PgUp(k) % PAGE = 0
    BY <2>2, Rounded
  <2> QED BY <1>3, <2>1, <2>3
<1> QED BY <1>1, <1>3, <1>4, <1>5, <1>6 DEF Paged

(* What Cut takes from a body.                                             *)
LEMMA CutsAre ==
    ASSUME NEW body, NEW sizes, NEW n \in Nat \ {0}, Paged(sizes, n)
    PROVE  /\ Tiles(Cut(body, sizes), n)
           /\ \A i \in 1..n : /\ Len(Cut(body, sizes)[i]) = sizes[i]
                              /\ \A o \in 1..sizes[i] :
                                    Cut(body, sizes)[i][o] = body[Ahead(sizes, i) + o]
<1>1. DOMAIN sizes = 1..n
  BY RowIs DEF Paged
<1>2. PICK f : f = [i \in 1..n |-> SubSeq(body, Ahead(sizes, i) + 1, Ahead(sizes, i) + sizes[i])]
  OBVIOUS
<1>3. Row(f, n)
  BY <1>2 DEF Row
<1>4. Cut(body, sizes) = f
  BY <1>1, <1>2, <1>3, RowIs DEF Cut
<1>5. ASSUME NEW i \in 1..n
      PROVE  /\ Row(f[i], Len(f[i])) /\ Len(f[i]) % PAGE = 0 /\ Len(f[i]) = sizes[i]
             /\ \A o \in 1..sizes[i] : f[i][o] = body[Ahead(sizes, i) + o]
  <2>1. PICK a, b : a = Ahead(sizes, i) /\ b = sizes[i]
    OBVIOUS
  <2>2. b \in Nat /\ b % PAGE = 0
    BY <2>1 DEF Paged
  <2>3. a \in Nat
    <3>1. i \in 1..(n + 1)
      OBVIOUS
    <3> QED BY <2>1, <3>1, BeforeIs
  <2>4. f[i] = SubSeq(body, a + 1, a + b)
    BY <1>2, <2>1
  <2>5. a \in Int
    BY <2>3
  <2>6. f[i] = [o \in 1..b |-> body[a + o]] /\ Row(f[i], b)
    <3>1. SubSeq(body, a + 1, a + b) = [o \in 1..b |-> body[a + o]]
      BY <2>2, <2>5, CutIs
    <3>2. Row(SubSeq(body, a + 1, a + b), b)
      BY <2>2, <2>5, CutIs
    <3> QED BY <2>4, <3>1, <3>2
  <2>7. Len(f[i]) = b
    BY <2>6, RowIs
  <2> QED BY <2>1, <2>2, <2>6, <2>7
<1>6. Tiles(f, n)
  BY <1>3, <1>5 DEF Tiles
<1> QED BY <1>4, <1>5, <1>6

(* What buffers hold.                                                      *)
LEMMA BytesAre ==
    ASSUME NEW m, NEW bufs, NEW n \in Nat \ {0}, Row(bufs, n),
           \A i \in 1..n : bufs[i].off \in Nat /\ bufs[i].size \in Nat /\ bufs[i].size % PAGE = 0
    PROVE  /\ Tiles(Bytes(m, bufs), n)
           /\ \A i \in 1..n : /\ Len(Bytes(m, bufs)[i]) = bufs[i].size
                              /\ \A o \in 1..bufs[i].size :
                                    Bytes(m, bufs)[i][o] = m[bufs[i].obj][bufs[i].off + o]
<1>1. DOMAIN bufs = 1..n
  BY RowIs
<1>2. PICK f : f = [i \in 1..n |-> Read(m, bufs[i], bufs[i].size)]
  OBVIOUS
<1>3. Row(f, n)
  BY <1>2 DEF Row
<1>4. Bytes(m, bufs) = f
  BY <1>1, <1>2, <1>3, RowIs DEF Bytes
<1>5. ASSUME NEW i \in 1..n
      PROVE  /\ Row(f[i], Len(f[i])) /\ Len(f[i]) % PAGE = 0 /\ Len(f[i]) = bufs[i].size
             /\ \A o \in 1..bufs[i].size : f[i][o] = m[bufs[i].obj][bufs[i].off + o]
  <2>1. PICK a, b, x : a = bufs[i].off /\ b = bufs[i].size /\ x = m[bufs[i].obj]
    OBVIOUS
  <2>2. a \in Int /\ b \in Nat /\ b % PAGE = 0
    BY <2>1
  <2>3. f[i] = SubSeq(x, a + 1, a + b)
    BY <1>2, <2>1 DEF Read
  <2>4. f[i] = [o \in 1..b |-> x[a + o]] /\ Row(f[i], b)
    BY <2>2, <2>3, CutIs
  <2>5. Len(f[i]) = b
    BY <2>4, RowIs
  <2> QED BY <2>1, <2>2, <2>4, <2>5
<1>6. Tiles(f, n)
  BY <1>3, <1>5 DEF Tiles
<1> QED BY <1>4, <1>5, <1>6

-----------------------------------------------------------------------------
(* Weights and the objects they own.                                       *)

(* A Bf that is rebuilt is a set of tiles, whatever it is rebuilt from.    *)
LEMMA RebuiltIs ==
    ASSUME NEW bb, NEW sh, NEW nmax, NEW n, Slices(FullK(sh, nmax), n), sh[1] \in Nat
    PROVE  /\ Tiles(Rebuilt(bb, sh, nmax), n)
           /\ \A j \in 1..n :
                 /\ Len(Rebuilt(bb, sh, nmax)[j]) = PgUp(sh[1] * FullK(sh, nmax)[j].Nc)
                 /\ \A o \in 1..(sh[1] * FullK(sh, nmax)[j].Nc) :
                       Rebuilt(bb, sh, nmax)[j][o] = Interleaved(bb, sh, nmax, j - 1, o - 1)
<1>1. PICK full : full = FullK(sh, nmax)
  OBVIOUS
<1>2. n \in Nat \ {0} /\ Row(full, n) /\ DOMAIN full = 1..n
  BY <1>1, RowIs DEF Slices
<1>3. PICK g : g = [j \in 1..n |-> AsSeq([o \in 1..(sh[1] * full[j].Nc) |->
                                              Interleaved(bb, sh, nmax, j - 1, o - 1)])]
  OBVIOUS
<1>4. PICK f : f = [j \in 1..n |-> Padded(g[j])]
  OBVIOUS
<1>5. Row(f, n)
  BY <1>2, <1>4 DEF Row
<1>6. Rebuilt(bb, sh, nmax) = f
  <2>1. Rebuilt(bb, sh, nmax) = AsSeq([j \in 1..n |-> Padded(AsSeq([o \in 1..(sh[1] * full[j].Nc) |->
                                              Interleaved(bb, sh, nmax, j - 1, o - 1)]))])
    BY <1>1, <1>2 DEF Rebuilt
  <2>2. Rebuilt(bb, sh, nmax) = AsSeq(f)
    BY <1>3, <1>4, <2>1
  <2> QED BY <1>5, <2>2, RowIs
<1>7. ASSUME NEW j \in 1..n
      PROVE  /\ Row(f[j], Len(f[j])) /\ Len(f[j]) % PAGE = 0
             /\ Len(f[j]) = PgUp(sh[1] * full[j].Nc)
             /\ \A o \in 1..(sh[1] * full[j].Nc) : f[j][o] = Interleaved(bb, sh, nmax, j - 1, o - 1)
  <2>1. PICK k : k = sh[1] * full[j].Nc
    OBVIOUS
  <2>2. k \in Nat
    <3>1. full[j].Nc \in Nat
      BY <1>1 DEF Slices
    <3> QED BY <2>1, <3>1
  <2>3. PICK t : t = [o \in 1..k |-> Interleaved(bb, sh, nmax, j - 1, o - 1)]
    OBVIOUS
  <2>4. Row(t, k)
    BY <2>2, <2>3 DEF Row
  <2>5. g[j] = t
    BY <1>3, <2>1, <2>3, <2>4, RowIs
  <2>6. f[j] = Padded(t)
    BY <1>4, <2>5
  <2>7. /\ Row(Padded(t), PgUp(k)) /\ Len(Padded(t)) = PgUp(k)
        /\ PgUp(k) % PAGE = 0 /\ \A o \in 1..k : Padded(t)[o] = t[o]
    BY <2>4, PaddedIs
  <2> QED BY <2>1, <2>3, <2>6, <2>7
<1>8. Tiles(f, n)
  BY <1>2, <1>5, <1>7 DEF Tiles
<1> QED BY <1>1, <1>6, <1>7, <1>8

-----------------------------------------------------------------------------
(* Buffers of m: whole pages of objects there, apart from one another.     *)
Buffers(bufs, n, m) ==
    /\ Row(bufs, n)
    /\ \A i \in 1..n : /\ bufs[i].obj \in DOMAIN m /\ bufs[i].off \in Nat
                       /\ bufs[i].size \in Nat /\ bufs[i].size % PAGE = 0
                       /\ bufs[i].off + bufs[i].size <= Len(m[bufs[i].obj])
    /\ \A i, j \in 1..n : i < j /\ bufs[i].obj = bufs[j].obj =>
                             bufs[i].off + bufs[i].size <= bufs[j].off

ObjectsOf(bufs) == {bufs[i].obj : i \in DOMAIN bufs}

(* What makes a weight good: it reads its tiles in buffers of m, Bf and Bb *)
(* in objects of their own, and destroys every object it has just once.    *)
IsWeight(w) ==
    w = [sh |-> w.sh, holds |-> w.holds, Bb |-> w.Bb, Bf |-> w.Bf, owns |-> w.owns, own |-> w.own,
         codes |-> w.codes]

Sound(w, m) ==
    /\ IsWeight(w)
    /\ \E n \in Nat : Buffers(w.Bb, n, m) /\ (w.codes = <<>> => n # 0)
    /\ \E n \in Nat : Buffers(w.Bf, n, m)
    /\ ObjectsOf(w.Bb) \cap ObjectsOf(w.Bf) = {}
    /\ IsInjective(Destroyed(w)) /\ Range(Destroyed(w)) = Objects(w)

(* The objects of a weight.                                                *)
LEMMA ObjectsAre ==
    ASSUME NEW w
    PROVE  Objects(w) = ObjectsOf(w.Bb) \cup ObjectsOf(w.Bf)
BY DEF Objects, ObjectsOf

(* Freeing destroys each object of a weight once.                          *)
LEMMA DestroyedOnce ==
    ASSUME NEW w, ObjectsOf(w.Bb) \cap ObjectsOf(w.Bf) = {}, w.owns \in BOOLEAN,
           \A i \in DOMAIN w.Bf : w.Bf[i].view = FALSE,
           \A i, j \in DOMAIN w.Bf : w.Bf[i].obj = w.Bf[j].obj => i = j,
           w.owns => /\ DOMAIN w.own = {}
                     /\ \A i, j \in DOMAIN w.Bb : w.Bb[i].obj = w.Bb[j].obj => i = j,
           ~ w.owns => /\ {w.own[a] : a \in DOMAIN w.own} = ObjectsOf(w.Bb)
                       /\ \A a, b \in DOMAIN w.own : w.own[a] = w.own[b] => a = b
    PROVE  IsInjective(Destroyed(w)) /\ Range(Destroyed(w)) = Objects(w)
<1>1. PICK d, bs : d = Destroyed(w) /\ bs = IF w.owns THEN DOMAIN w.Bb ELSE {}
  OBVIOUS
<1>2. {i \in DOMAIN w.Bf : ~w.Bf[i].view} = DOMAIN w.Bf
  OBVIOUS
<1>3. d = [p \in ({"Bb"} \X bs) \cup ({"Bf"} \X DOMAIN w.Bf) \cup ({"own"} \X DOMAIN w.own) |->
              IF p[1] = "Bb" THEN w.Bb[p[2]].obj
              ELSE IF p[1] = "Bf" THEN w.Bf[p[2]].obj ELSE w.own[p[2]]]
  BY <1>1, <1>2 DEF Destroyed, NamedBy
<1>4. /\ \A p : p \in DOMAIN d <=> \/ \E i \in bs : p = <<"Bb", i>>
                                   \/ \E i \in DOMAIN w.Bf : p = <<"Bf", i>>
                                   \/ \E i \in DOMAIN w.own : p = <<"own", i>>
      /\ \A i \in bs : d[<<"Bb", i>>] = w.Bb[i].obj
      /\ \A i \in DOMAIN w.Bf : d[<<"Bf", i>>] = w.Bf[i].obj
      /\ \A i \in DOMAIN w.own : d[<<"own", i>>] = w.own[i]
  <2>1. \A p : p \in DOMAIN d <=> \/ \E i \in bs : p = <<"Bb", i>>
                                  \/ \E i \in DOMAIN w.Bf : p = <<"Bf", i>>
                                  \/ \E i \in DOMAIN w.own : p = <<"own", i>>
    BY <1>3
  <2>2. \A i \in bs : d[<<"Bb", i>>] = w.Bb[i].obj
    BY <1>3
  <2>3. \A i \in DOMAIN w.Bf : d[<<"Bf", i>>] = w.Bf[i].obj
    BY <1>3
  <2>4. \A i \in DOMAIN w.own : d[<<"own", i>>] = w.own[i]
    BY <1>3
  <2> QED BY <2>1, <2>2, <2>3, <2>4
<1>5. CASE w.owns
  <2>1. bs = DOMAIN w.Bb /\ DOMAIN w.own = {}
    BY <1>1, <1>5
  <2>2. \A p, q \in DOMAIN d : d[p] = d[q] => p = q
    BY <1>4, <1>5, <2>1 DEF ObjectsOf
  <2>3. ASSUME NEW o PROVE (\E p \in DOMAIN d : o = d[p]) <=> o \in ObjectsOf(w.Bb) \cup ObjectsOf(w.Bf)
    <3>1. ASSUME NEW p \in DOMAIN d, o = d[p] PROVE o \in ObjectsOf(w.Bb) \cup ObjectsOf(w.Bf)
      <4>1. CASE \E i \in bs : p = <<"Bb", i>>
        BY <1>4, <2>1, <3>1, <4>1 DEF ObjectsOf
      <4>2. CASE \E i \in DOMAIN w.Bf : p = <<"Bf", i>>
        BY <1>4, <3>1, <4>2 DEF ObjectsOf
      <4> QED BY <1>4, <2>1, <3>1, <4>1, <4>2
    <3>2. ASSUME o \in ObjectsOf(w.Bb) PROVE \E p \in DOMAIN d : o = d[p]
      <4>1. PICK i \in bs : o = w.Bb[i].obj
        BY <2>1, <3>2 DEF ObjectsOf
      <4> QED BY <1>4, <4>1
    <3>3. ASSUME o \in ObjectsOf(w.Bf) PROVE \E p \in DOMAIN d : o = d[p]
      <4>1. PICK i \in DOMAIN w.Bf : o = w.Bf[i].obj
        BY <3>3 DEF ObjectsOf
      <4> QED BY <1>4, <4>1
    <3> QED BY <3>1, <3>2, <3>3
  <2> QED BY <1>1, <2>2, <2>3, ObjectsAre DEF IsInjective, Range
<1>6. CASE ~ w.owns
  <2>1. bs = {}
    BY <1>1, <1>6
  <2>2. \A a \in DOMAIN w.own : w.own[a] \in ObjectsOf(w.Bb)
    BY <1>6
  <2>3. \A i \in DOMAIN w.Bf : w.Bf[i].obj \in ObjectsOf(w.Bf)
    BY DEF ObjectsOf
  <2>4. ASSUME NEW p \in DOMAIN d, NEW q \in DOMAIN d, d[p] = d[q] PROVE p = q
    <3>1. CASE \E a \in DOMAIN w.own : p = <<"own", a>>
      <4>1. PICK a \in DOMAIN w.own : p = <<"own", a>>
        BY <3>1
      <4>2. d[p] = w.own[a] /\ d[p] \in ObjectsOf(w.Bb)
        BY <1>4, <2>2, <4>1
      <4>3. PICK b \in DOMAIN w.own : q = <<"own", b>>
        <5>1. \A i \in DOMAIN w.Bf : q # <<"Bf", i>>
          BY <1>4, <2>3, <2>4, <4>2
        <5> QED BY <1>4, <2>1, <5>1
      <4>4. d[q] = w.own[b]
        BY <1>4, <4>3
      <4> QED BY <1>6, <2>4, <4>1, <4>2, <4>3, <4>4
    <3>2. CASE \E i \in DOMAIN w.Bf : p = <<"Bf", i>>
      <4>1. PICK i \in DOMAIN w.Bf : p = <<"Bf", i>>
        BY <3>2
      <4>2. d[p] = w.Bf[i].obj /\ d[p] \in ObjectsOf(w.Bf)
        BY <1>4, <2>3, <4>1
      <4>3. PICK j \in DOMAIN w.Bf : q = <<"Bf", j>>
        <5>1. \A a \in DOMAIN w.own : q # <<"own", a>>
          BY <1>4, <2>2, <2>4, <4>2
        <5> QED BY <1>4, <2>1, <5>1
      <4>4. d[q] = w.Bf[j].obj
        BY <1>4, <4>3
      <4> QED BY <2>4, <4>1, <4>2, <4>3, <4>4
    <3> QED BY <1>4, <2>1, <3>1, <3>2
  <2>5. ASSUME NEW o PROVE (\E p \in DOMAIN d : o = d[p]) <=> o \in ObjectsOf(w.Bb) \cup ObjectsOf(w.Bf)
    <3>1. ASSUME NEW p \in DOMAIN d, o = d[p] PROVE o \in ObjectsOf(w.Bb) \cup ObjectsOf(w.Bf)
      <4>1. CASE \E a \in DOMAIN w.own : p = <<"own", a>>
        BY <1>4, <2>2, <3>1, <4>1
      <4>2. CASE \E i \in DOMAIN w.Bf : p = <<"Bf", i>>
        BY <1>4, <2>3, <3>1, <4>2
      <4> QED BY <1>4, <2>1, <4>1, <4>2
    <3>2. ASSUME o \in ObjectsOf(w.Bb) PROVE \E p \in DOMAIN d : o = d[p]
      <4>1. PICK a \in DOMAIN w.own : o = w.own[a]
        BY <1>6, <3>2
      <4> QED BY <1>4, <4>1
    <3>3. ASSUME o \in ObjectsOf(w.Bf) PROVE \E p \in DOMAIN d : o = d[p]
      <4>1. PICK i \in DOMAIN w.Bf : o = w.Bf[i].obj
        BY <3>3 DEF ObjectsOf
      <4> QED BY <1>4, <4>1
    <3> QED BY <3>1, <3>2, <3>3
  <2> QED BY <1>1, <2>4, <2>5, ObjectsAre DEF IsInjective, Range
<1> QED BY <1>5, <1>6

-----------------------------------------------------------------------------
(* Buffers in a memory that grows.                                         *)

(* m with new objects: those that were there keep what they hold.          *)
Grown(m, x, objs) ==
    /\ MemOK(x) /\ DOMAIN x = DOMAIN m \cup objs /\ objs \cap DOMAIN m = {}
    /\ \A o \in DOMAIN m : x[o] = m[o]
    /\ Usage(x) <= ceil

(* Growing twice is growing.                                               *)
LEMMA GrownTwice ==
    ASSUME NEW m, NEW x, NEW y, NEW a, NEW b, Grown(m, x, a), Grown(x, y, b)
    PROVE  Grown(m, y, a \cup b) /\ a \cap b = {}
BY DEF Grown

(* Buffers stay what they are in a memory that grows.                      *)
LEMMA BuffersGrown ==
    ASSUME NEW bufs, NEW n, NEW m, NEW x, NEW objs, Buffers(bufs, n, m), Grown(m, x, objs)
    PROVE  Buffers(bufs, n, x) /\ ObjectsOf(bufs) \subseteq DOMAIN m
<1>1. \A i \in 1..n : bufs[i].obj \in DOMAIN m
  BY DEF Buffers
<1>2. DOMAIN bufs = 1..n
  BY RowIs DEF Buffers
<1>3. \A i \in 1..n : bufs[i].obj \in DOMAIN x /\ x[bufs[i].obj] = m[bufs[i].obj]
  BY <1>1 DEF Grown
<1>4. Buffers(bufs, n, x)
  BY <1>3 DEF Buffers
<1> QED BY <1>1, <1>2, <1>4 DEF ObjectsOf

(* What the bytes c are, read through buffers.                             *)
Reads(m, bufs, c, n) ==
    \A i \in 1..n : bufs[i].size = Len(c[i]) /\
        \A o \in 1..Len(c[i]) : m[bufs[i].obj][bufs[i].off + o] = c[i][o]

(* And so does what they read.                                             *)
LEMMA ReadsGrown ==
    ASSUME NEW bufs, NEW n, NEW m, NEW x, NEW objs, NEW c, Buffers(bufs, n, m), Grown(m, x, objs),
           Reads(m, bufs, c, n)
    PROVE  Reads(x, bufs, c, n)
<1>1. \A i \in 1..n : bufs[i].obj \in DOMAIN m
  BY DEF Buffers
<1>2. \A i \in 1..n : x[bufs[i].obj] = m[bufs[i].obj]
  BY <1>1 DEF Grown
<1> QED BY <1>2 DEF Reads

WellLaid(r, m, c, lay, n) ==
    /\ Buffers(r.bufs, n, r.mem) /\ Reads(r.mem, r.bufs, c, n)
    /\ Grown(m, r.mem, ObjectsOf(r.bufs))
    /\ {r.objs[a] : a \in DOMAIN r.objs} = ObjectsOf(r.bufs)
    /\ \A a, b \in DOMAIN r.objs : r.objs[a] = r.objs[b] => a = b
    /\ DOMAIN r.bufs = 1..n /\ \A i \in 1..n : r.bufs[i].view = FALSE
    /\ (\A i, j \in 1..n : lay[i].at = lay[j].at => i = j) =>
          \A i, j \in 1..n : r.bufs[i].obj = r.bufs[j].obj => i = j

(* Laid makes buffers that read as what was laid.                          *)
LEMMA LaidBuffers ==
    ASSUME NEW m, NEW c, NEW lay, NEW n, NEW k, MemOK(m), Covers(c, lay, n, k), Fits(m, lay)
    PROVE  WellLaid(Laid(m, c, lay), m, c, lay, n)
<1> SUFFICES ASSUME NEW r, r = Laid(m, c, lay) PROVE WellLaid(r, m, c, lay, n)
  OBVIOUS
<1>1. /\ Row(r.objs, k) /\ Row(r.bufs, n) /\ MemOK(r.mem)
      /\ DOMAIN r.mem = DOMAIN m \cup Range(r.objs)
      /\ \A o \in DOMAIN m : r.mem[o] = m[o]
      /\ \A a \in 1..k : r.objs[a] \in Objs \ DOMAIN m
      /\ \A a, b \in 1..k : r.objs[a] = r.objs[b] => a = b
      /\ \A i \in 1..n : r.bufs[i] = [obj |-> r.objs[lay[i].at], off |-> lay[i].off,
                                      size |-> Len(c[i]), view |-> FALSE]
      /\ Usage(r.mem) <= ceil
  BY LaidIs
<1>2. DOMAIN r.bufs = 1..n /\ DOMAIN r.objs = 1..k /\ Range(r.objs) = {r.objs[a] : a \in 1..k}
  BY <1>1, RowIs, RangeIs
<1>3. /\ \A i \in 1..n : lay[i].at \in 1..k
      /\ \A a \in 1..k : \E i \in 1..n : lay[i].at = a
      /\ \A i, j \in 1..n : i < j /\ lay[i].at = lay[j].at => lay[i].off + Len(c[i]) <= lay[j].off
  BY DEF Covers
<1>4. \A i \in 1..n : /\ r.bufs[i].obj = r.objs[lay[i].at] /\ r.bufs[i].off = lay[i].off
                      /\ r.bufs[i].size = Len(c[i]) /\ r.bufs[i].view = FALSE
  <2>1. ASSUME NEW i \in 1..n
        PROVE  /\ r.bufs[i].obj = r.objs[lay[i].at] /\ r.bufs[i].off = lay[i].off
               /\ r.bufs[i].size = Len(c[i]) /\ r.bufs[i].view = FALSE
    <3>1. r.bufs[i] = [obj |-> r.objs[lay[i].at], off |-> lay[i].off,
                       size |-> Len(c[i]), view |-> FALSE]
      BY <1>1
    <3> QED BY <3>1
  <2> QED BY <2>1
<1>5. {r.objs[a] : a \in 1..k} = ObjectsOf(r.bufs)
  <2>1. \A i \in 1..n : r.bufs[i].obj \in {r.objs[a] : a \in 1..k}
    BY <1>3, <1>4
  <2>2. \A a \in 1..k : \E i \in 1..n : r.bufs[i].obj = r.objs[a]
    BY <1>3, <1>4
  <2> QED BY <1>2, <2>1, <2>2 DEF ObjectsOf
<1>6. \A i \in 1..n : /\ r.bufs[i].obj \in Range(r.objs) /\ r.bufs[i].off \in Nat
           /\ r.bufs[i].size = Len(c[i]) /\ Len(c[i]) \in Nat /\ Len(c[i]) % PAGE = 0
           /\ r.bufs[i].off + Len(c[i]) <= Len(r.mem[r.bufs[i].obj])
           /\ \A o \in 1..Len(c[i]) : r.mem[r.bufs[i].obj][r.bufs[i].off + o] = c[i][o]
  <2>1. InPlace(r, c, n)
    BY LaidReads
  <2> QED BY <2>1 DEF InPlace
<1>7. ASSUME NEW i \in 1..n, NEW j \in 1..n, r.bufs[i].obj = r.bufs[j].obj
      PROVE  lay[i].at = lay[j].at
  <2>1. r.objs[lay[i].at] = r.objs[lay[j].at]
    BY <1>4, <1>7
  <2> QED BY <1>1, <1>3, <2>1
<1>8. Buffers(r.bufs, n, r.mem)
  <2>1. \A i \in 1..n : /\ r.bufs[i].obj \in DOMAIN r.mem /\ r.bufs[i].off \in Nat
                        /\ r.bufs[i].size \in Nat /\ r.bufs[i].size % PAGE = 0
                        /\ r.bufs[i].off + r.bufs[i].size <= Len(r.mem[r.bufs[i].obj])
    BY <1>1, <1>6
  <2>2. ASSUME NEW i \in 1..n, NEW j \in 1..n, i < j, r.bufs[i].obj = r.bufs[j].obj
        PROVE  r.bufs[i].off + r.bufs[i].size <= r.bufs[j].off
    BY <1>3, <1>4, <1>7, <2>2
  <2> QED BY <1>1, <2>1, <2>2 DEF Buffers
<1>9. Reads(r.mem, r.bufs, c, n)
  BY <1>6 DEF Reads
<1>10. Grown(m, r.mem, ObjectsOf(r.bufs))
  BY <1>1, <1>2, <1>5 DEF Grown
<1> QED BY <1>1, <1>2, <1>4, <1>5, <1>7, <1>8, <1>9, <1>10 DEF WellLaid

(* A memory grown by nothing.                                              *)
LEMMA GrownNone ==
    ASSUME NEW m, MemOK(m), Usage(m) <= ceil
    PROVE  Grown(m, m, {})
BY DEF Grown

(* No buffers at all.                                                      *)
LEMMA NoBuffers ==
    ASSUME NEW m, NEW c
    PROVE  Buffers(<<>>, 0, m) /\ ObjectsOf(<<>>) = {} /\ Reads(m, <<>>, c, 0) /\ DOMAIN <<>> = {}
<1>1. Row(<<>>, 0)
  BY DEF Row
<1>2. DOMAIN <<>> = {} /\ 1..0 = {}
  OBVIOUS
<1> QED BY <1>1, <1>2 DEF Buffers, ObjectsOf, Reads

(* Bf is built whole, or not at all.                                       *)
CopyMade(r, m, c, n) ==
    \E k \in {0, n} :
       /\ k \in Nat /\ Buffers(r.bufs, k, r.mem) /\ Reads(r.mem, r.bufs, c, k)
       /\ Grown(m, r.mem, ObjectsOf(r.bufs))
       /\ \A i \in DOMAIN r.bufs : r.bufs[i].view = FALSE
       /\ \A i, j \in DOMAIN r.bufs : r.bufs[i].obj = r.bufs[j].obj => i = j

(* FullCopy is given up without a trace.                                   *)
LEMMA FullCopyIs ==
    ASSUME NEW m, NEW c, NEW n, NEW wanted, MemOK(m), Usage(m) <= ceil, Tiles(c, n)
    PROVE  CopyMade(FullCopy(m, wanted, c), m, c, n)
<1> SUFFICES ASSUME NEW r, r = FullCopy(m, wanted, c) PROVE CopyMade(r, m, c, n)
  OBVIOUS
<1>1. CASE wanted /\ Fits(m, Each(c))
  <2>1. Covers(c, Each(c), n, n) /\ \A i \in 1..n : Each(c)[i].at = i
    BY EachCovers
  <2>2. PICK lay : lay = Each(c)
    OBVIOUS
  <2>3. PICK x : x = Laid(m, c, lay)
    OBVIOUS
  <2>4. r = x
    BY <1>1, <2>2, <2>3 DEF FullCopy
  <2>5. \A i, j \in 1..n : lay[i].at = lay[j].at => i = j
    BY <2>1, <2>2
  <2>6. WellLaid(x, m, c, lay, n)
    <3>1. Covers(c, lay, n, n) /\ Fits(m, lay)
      BY <1>1, <2>1, <2>2
    <3> QED BY <2>3, <3>1, LaidBuffers
  <2>7. n \in Nat
    BY DEF Tiles
  <2>8. /\ \A i \in DOMAIN x.bufs : x.bufs[i].view = FALSE
        /\ \A i, j \in DOMAIN x.bufs : x.bufs[i].obj = x.bufs[j].obj => i = j
    BY <2>5, <2>6 DEF WellLaid
  <2> QED BY <2>4, <2>6, <2>7, <2>8 DEF WellLaid, CopyMade
<1>2. CASE ~ (wanted /\ Fits(m, Each(c)))
  <2>1. r.mem = m /\ r.bufs = <<>>
    BY <1>2 DEF FullCopy
  <2>2. Grown(m, m, {})
    BY GrownNone
  <2>3. Buffers(<<>>, 0, m) /\ ObjectsOf(<<>>) = {} /\ Reads(m, <<>>, c, 0) /\ DOMAIN <<>> = {}
    BY NoBuffers
  <2>4. /\ Buffers(r.bufs, 0, r.mem) /\ Reads(r.mem, r.bufs, c, 0)
        /\ Grown(m, r.mem, ObjectsOf(r.bufs)) /\ DOMAIN r.bufs = {}
    BY <2>1, <2>2, <2>3
  <2> QED BY <2>4 DEF CopyMade
<1> QED BY <1>1, <1>2

-----------------------------------------------------------------------------
(* A weight is built whole or not at all.                                  *)

(* The weight a call made, and what it reads; or nothing.                  *)
Good(r, m) ==
    /\ r.w = <<>> => r.mem = m
    /\ r.w # <<>> => /\ r.w = <<r.w[1]>> /\ Sound(r.w[1], r.mem)
                     /\ Grown(m, r.mem, Objects(r.w[1]))

Builds(r, sh, B, c, n, c2, n2) ==
    r.w # <<>> =>
       /\ r.w[1].sh = sh /\ r.w[1].holds = B /\ r.w[1].codes = <<>>
       /\ Buffers(r.w[1].Bb, n, r.mem) /\ Reads(r.mem, r.w[1].Bb, c, n)
       /\ \E k \in {0, n2} : Buffers(r.w[1].Bf, k, r.mem) /\ Reads(r.mem, r.w[1].Bf, c2, k)

(* Bb laid out, Bf beside it, and the weight of both.                      *)
Building(m, c, lay, wanted, c2, sh, B, owns) ==
    LET bb == Laid(m, c, lay)
        bf == FullCopy(bb.mem, wanted, c2)
    IN Made(bf.mem, Weight(sh, B, bb.bufs, bf.bufs, owns, IF owns THEN <<>> ELSE bb.objs))

(* A weight of laid tiles and a full copy is good.                         *)
LEMMA BuildingIs ==
    ASSUME NEW m, NEW c, NEW lay, NEW n, NEW k, NEW wanted, NEW c2, NEW n2, NEW sh, NEW B,
           NEW owns \in BOOLEAN, MemOK(m), Covers(c, lay, n, k), Fits(m, lay), Tiles(c2, n2),
           owns => \A i, j \in 1..n : lay[i].at = lay[j].at => i = j
    PROVE  /\ Good(Building(m, c, lay, wanted, c2, sh, B, owns), m)
           /\ Builds(Building(m, c, lay, wanted, c2, sh, B, owns), sh, B, c, n, c2, n2)
<1>1. PICK bb : bb = Laid(m, c, lay)
  OBVIOUS
<1>2. WellLaid(bb, m, c, lay, n)
  BY <1>1, LaidBuffers
<1>3. Grown(m, bb.mem, ObjectsOf(bb.bufs))
  BY <1>2 DEF WellLaid
<1>4. PICK bf : bf = FullCopy(bb.mem, wanted, c2)
  OBVIOUS
<1>5. CopyMade(bf, bb.mem, c2, n2)
  <2>1. MemOK(bb.mem) /\ Usage(bb.mem) <= ceil
    BY <1>3 DEF Grown
  <2> QED BY <1>4, <2>1, FullCopyIs
<1>6. PICK k2 \in {0, n2} : /\ k2 \in Nat /\ Buffers(bf.bufs, k2, bf.mem) /\ Reads(bf.mem, bf.bufs, c2, k2)
                            /\ Grown(bb.mem, bf.mem, ObjectsOf(bf.bufs))
                            /\ \A i \in DOMAIN bf.bufs : bf.bufs[i].view = FALSE
                            /\ \A i, j \in DOMAIN bf.bufs : bf.bufs[i].obj = bf.bufs[j].obj => i = j
  BY <1>5 DEF CopyMade
<1>7. PICK w : w = Weight(sh, B, bb.bufs, bf.bufs, owns, IF owns THEN <<>> ELSE bb.objs)
  OBVIOUS
<1>8. /\ w.sh = sh /\ w.holds = B /\ w.Bb = bb.bufs /\ w.Bf = bf.bufs /\ w.owns = owns
      /\ w.own = (IF owns THEN <<>> ELSE bb.objs) /\ w.codes = <<>>
  BY <1>7 DEF Weight
<1>9. PICK r : r = Building(m, c, lay, wanted, c2, sh, B, owns)
  OBVIOUS
<1>10. r.mem = bf.mem /\ r.w = <<w>> /\ r.w[1] = w /\ r.w # <<>>
  BY <1>1, <1>4, <1>7, <1>9 DEF Building, Made
<1>11. Buffers(bb.bufs, n, bf.mem) /\ Reads(bf.mem, bb.bufs, c, n)
  <2>1. Buffers(bb.bufs, n, bb.mem) /\ Reads(bb.mem, bb.bufs, c, n)
    BY <1>2 DEF WellLaid
  <2> QED BY <1>6, <2>1, BuffersGrown, ReadsGrown
<1>12. /\ Grown(m, bf.mem, ObjectsOf(bb.bufs) \cup ObjectsOf(bf.bufs))
       /\ ObjectsOf(bb.bufs) \cap ObjectsOf(bf.bufs) = {}
  <2>1. PICK a, b, x, y : a = ObjectsOf(bb.bufs) /\ b = ObjectsOf(bf.bufs) /\ x = bb.mem /\ y = bf.mem
    OBVIOUS
  <2>2. Grown(m, x, a) /\ Grown(x, y, b)
    BY <1>3, <1>6, <2>1
  <2>3. Grown(m, y, a \cup b) /\ a \cap b = {}
    BY <2>2, GrownTwice
  <2> QED BY <2>1, <2>3
<1>13. Grown(m, r.mem, Objects(w))
  BY <1>8, <1>10, <1>12, ObjectsAre
<1>14. IsInjective(Destroyed(w)) /\ Range(Destroyed(w)) = Objects(w)
  <2>1. DOMAIN bb.bufs = 1..n
    BY <1>2 DEF WellLaid
  <2>2. ASSUME owns PROVE /\ DOMAIN w.own = {}
                          /\ \A i, j \in DOMAIN w.Bb : w.Bb[i].obj = w.Bb[j].obj => i = j
    <3>1. DOMAIN <<>> = {}
      OBVIOUS
    <3> QED BY <1>2, <1>8, <2>1, <2>2, <3>1 DEF WellLaid
  <2>3. ASSUME ~ owns PROVE /\ {w.own[a] : a \in DOMAIN w.own} = ObjectsOf(w.Bb)
                            /\ \A a, b \in DOMAIN w.own : w.own[a] = w.own[b] => a = b
    BY <1>2, <1>8, <2>3 DEF WellLaid
  <2> QED BY <1>6, <1>8, <1>12, <2>2, <2>3, DestroyedOnce
<1>15. n \in Nat \ {0}
  BY DEF Covers, Tiles
<1>16. Sound(w, r.mem)
  <2>1. IsWeight(w)
    BY <1>7, <1>8 DEF Weight, IsWeight
  <2> QED BY <2>1, <1>6, <1>8, <1>10, <1>11, <1>12, <1>14, <1>15 DEF Sound
<1>17. Good(r, m)
  BY <1>10, <1>13, <1>16 DEF Good
<1>18. Builds(r, sh, B, c, n, c2, n2)
  BY <1>6, <1>8, <1>10, <1>11 DEF Builds
<1> QED BY <1>9, <1>17, <1>18

(* A call that returns NULL is good.                                       *)
LEMMA NothingMade ==
    ASSUME NEW m, NEW r, r.mem = m, r.w = <<>>
    PROVE  Good(r, m) /\ \A sh, B, c, n, c2, n2 : Builds(r, sh, B, c, n, c2, n2)
BY DEF Good, Builds

(* A tiling of a matrix of a shape there can be, and its full copy.        *)
LEMMA FullExists ==
    ASSUME NEW sh, Shaped(sh), NEW soc \in Socs
    PROVE  /\ sh[1] \in Nat \ {0} /\ sh[2] \in Nat \ {0} /\ NMAX[soc] \in Nat \ {0}
           /\ \E n \in Nat \ {0} : Slices(SlicesOf(sh, orki_int8_ks, NMAX[soc]), n)
           /\ \E n \in Nat \ {0} : Slices(SlicesOf(sh, KS, NMAX[soc]), n)
           /\ \E n \in Nat \ {0} : Slices(FullK(sh, NMAX[soc]), n)
<1>1. sh[1] \in Nat \ {0} /\ sh[2] \in Nat \ {0}
  BY DEF Shaped
<1>2. NMAX[soc] \in Nat \ {0}
  BY PackedAssumption
<1>3. KS \in Nat \ {0} /\ orki_int8_ks \in Nat \ {0}
  BY Constants
<1> QED BY <1>1, <1>2, <1>3, SlicesExist DEF FullK

-----------------------------------------------------------------------------
(* Packing, importing, loading.                                            *)

Sound_State == MemOK(mem) /\ Usage(mem) <= ceil /\ views \in BOOLEAN

(* A full copy can be rebuilt from any tiles.                              *)
LEMMA RebuiltTiles ==
    ASSUME NEW sh, Shaped(sh), NEW n, Slices(FullK(sh, NMAX[Here]), n), NEW c
    PROVE  Tiles(Rebuilt(c, sh, NMAX[Here]), n)
<1>1. sh[1] \in Nat
  BY DEF Shaped
<1> QED BY <1>1, RebuiltIs

(* orki_pack.                                                              *)
LEMMA PackedIs ==
    ASSUME NEW m, MemOK(m), Usage(m) <= ceil, views \in BOOLEAN, NEW sh, Shaped(sh), NEW B,
           NEW n, Slices(SlicesOf(sh, orki_int8_ks, NMAX[Here]), n),
           NEW n2, Slices(FullK(sh, NMAX[Here]), n2)
    PROVE  /\ Good(Packed(m, sh, B), m)
           /\ Builds(Packed(m, sh, B), sh, B,
                     TileSet(Elements(B), SlicesOf(sh, orki_int8_ks, NMAX[Here])), n,
                     TileSet(Elements(B), FullK(sh, NMAX[Here])), n2)
<1>1. PICK c, c2 : /\ c = TileSet(Elements(B), SlicesOf(sh, orki_int8_ks, NMAX[Here]))
                   /\ c2 = TileSet(Elements(B), FullK(sh, NMAX[Here]))
  OBVIOUS
<1>2. Tiles(c, n) /\ Tiles(c2, n2)
  BY <1>1, TileSetIs
<1>3. PICK lay : lay = IF views THEN One(c) ELSE Each(c)
  OBVIOUS
<1>4. \E k : Covers(c, lay, n, k)
  BY <1>2, <1>3, OneCovers, EachCovers
<1>5. PICK k : Covers(c, lay, n, k)
  BY <1>4
<1>6. ~ views => \A i, j \in 1..n : lay[i].at = lay[j].at => i = j
  <2>1. \A i \in 1..n : Each(c)[i].at = i
    BY <1>2, EachCovers
  <2> QED BY <1>3, <2>1
<1>7. PICK wanted : wanted = (sh[1] <= BF_PACK /\ ~(0 < KTILE /\ KTILE < sh[1]))
  OBVIOUS
<1>8. PICK r : r = Packed(m, sh, B)
  OBVIOUS
<1>9. CASE ~ Fits(m, lay)
  <2>1. r = [mem |-> m, w |-> <<>>]
    BY <1>1, <1>3, <1>8, <1>9 DEF Packed
  <2>2. r.mem = m /\ r.w = <<>>
    BY <2>1
  <2>3. Good(r, m) /\ Builds(r, sh, B, c, n, c2, n2)
    BY <2>2, NothingMade
  <2> QED BY <1>1, <1>8, <2>3
<1>10. CASE Fits(m, lay)
  <2>1. r = Building(m, c, lay, wanted, c2, sh, B, ~views)
    BY <1>1, <1>3, <1>7, <1>8, <1>10 DEF Packed, Building
  <2>2. (~views) \in BOOLEAN
    OBVIOUS
  <2>3. Good(r, m) /\ Builds(r, sh, B, c, n, c2, n2)
    BY <1>2, <1>5, <1>6, <1>10, <2>1, <2>2, BuildingIs
  <2> QED BY <1>1, <1>8, <2>3
<1> QED BY <1>9, <1>10

(* What is read back from where tiles were laid is the tiles.              *)
LEMMA BytesBack ==
    ASSUME NEW m, NEW bufs, NEW n, NEW c, Tiles(c, n), Buffers(bufs, n, m), Reads(m, bufs, c, n)
    PROVE  Bytes(m, bufs) = c
<1>1. n \in Nat \ {0} /\ Row(bufs, n)
  BY DEF Tiles, Buffers
<1>2. \A i \in 1..n : bufs[i].off \in Nat /\ bufs[i].size \in Nat /\ bufs[i].size % PAGE = 0
  BY DEF Buffers
<1>3. PICK d : d = Bytes(m, bufs)
  OBVIOUS
<1>4. /\ Tiles(d, n)
      /\ \A i \in 1..n : /\ Len(d[i]) = bufs[i].size
                         /\ \A o \in 1..bufs[i].size : d[i][o] = m[bufs[i].obj][bufs[i].off + o]
  BY <1>1, <1>2, <1>3, BytesAre
<1>5. ASSUME NEW i \in 1..n PROVE d[i] = c[i]
  <2>1. Row(d[i], Len(d[i])) /\ Row(c[i], Len(c[i]))
    BY <1>4 DEF Tiles
  <2>2. Len(d[i]) = Len(c[i]) /\ bufs[i].size = Len(c[i])
    BY <1>4 DEF Reads
  <2>3. \A o \in 1..Len(c[i]) : d[i][o] = c[i][o]
    BY <1>4, <2>2 DEF Reads
  <2>4. d[i] = [o \in 1..Len(c[i]) |-> d[i][o]] /\ c[i] = [o \in 1..Len(c[i]) |-> c[i][o]]
    BY <2>1, <2>2 DEF Row
  <2>5. [o \in 1..Len(c[i]) |-> d[i][o]] = [o \in 1..Len(c[i]) |-> c[i][o]]
    BY <2>3
  <2> QED BY <2>4, <2>5
<1>6. d = [i \in 1..n |-> d[i]] /\ c = [i \in 1..n |-> c[i]]
  BY <1>4 DEF Tiles, Row
<1>7. [i \in 1..n |-> d[i]] = [i \in 1..n |-> c[i]]
  BY <1>5
<1> QED BY <1>3, <1>6, <1>7

(* ork_i8_mm_pack_import, ork_i8_mm_load_import.                           *)
LEMMA ImportedIs ==
    ASSUME Sound_State, NEW sh, Shaped(sh), NEW B, NEW c, NEW n, Tiles(c, n),
           NEW n2, Slices(FullK(sh, NMAX[Here]), n2)
    PROVE  /\ Good(Imported(sh, B, c), mem)
           /\ Builds(Imported(sh, B, c), sh, B, c, n, Rebuilt(c, sh, NMAX[Here]), n2)
<1>1. PICK chunked : chunked = (views /\ Fits(mem, Chunks(c)))
  OBVIOUS
<1>2. chunked \in BOOLEAN
  BY <1>1
<1>3. PICK lay : lay = IF chunked THEN Chunks(c) ELSE Each(c)
  OBVIOUS
<1>4. \E k : Covers(c, lay, n, k)
  BY <1>3, ChunksCover, EachCovers
<1>5. PICK k : Covers(c, lay, n, k)
  BY <1>4
<1>6. ~ chunked => \A i, j \in 1..n : lay[i].at = lay[j].at => i = j
  <2>1. \A i \in 1..n : Each(c)[i].at = i
    BY EachCovers
  <2> QED BY <1>3, <2>1
<1>7. PICK c2 : c2 = Rebuilt(c, sh, NMAX[Here])
  OBVIOUS
<1>8. Tiles(c2, n2)
  BY <1>7, RebuiltTiles
<1>9. PICK r : r = Imported(sh, B, c)
  OBVIOUS
<1>10. CASE ~ Fits(mem, lay)
  <2>1. r = NotMade
    BY <1>1, <1>3, <1>9, <1>10 DEF Imported
  <2>2. r.mem = mem /\ r.w = <<>>
    BY <2>1 DEF NotMade
  <2>3. Good(r, mem) /\ Builds(r, sh, B, c, n, c2, n2)
    BY <2>2, NothingMade
  <2> QED BY <1>7, <1>9, <2>3
<1>11. CASE Fits(mem, lay)
  <2>1. PICK bb : bb = Laid(mem, c, lay)
    OBVIOUS
  <2>2. WellLaid(bb, mem, c, lay, n)
    BY <1>5, <1>11, <2>1, LaidBuffers DEF Sound_State
  <2>3. Bytes(bb.mem, bb.bufs) = c
    BY <2>2, BytesBack DEF WellLaid
  <2>4. r = Building(mem, c, lay, BfLoaded(sh), c2, sh, B, ~chunked)
    BY <1>1, <1>3, <1>7, <1>9, <1>11, <2>1, <2>3 DEF Imported, Building
  <2>5. (~chunked) \in BOOLEAN
    OBVIOUS
  <2>6. Good(r, mem) /\ Builds(r, sh, B, c, n, c2, n2)
    BY <1>5, <1>6, <1>8, <1>11, <2>4, <2>5, BuildingIs DEF Sound_State
  <2> QED BY <1>7, <1>9, <2>6
<1> QED BY <1>10, <1>11

(* ork_i8_mm_load.                                                         *)
LEMMA LoadedIs ==
    ASSUME Sound_State, NEW sh, Shaped(sh), NEW f, NEW full,
           NEW n, Slices(SlicesOf(sh, KS, NMAX[Here]), n),
           NEW n2, Slices(FullK(sh, NMAX[Here]), n2),
           NEW c, c = Cut(f.body, TileSizes(sh, KS, NMAX[Here]))
    PROVE  /\ Good(Loaded(f, sh, full), mem)
           /\ Builds(Loaded(f, sh, full), sh, f.holds, c, n, Rebuilt(c, sh, NMAX[Here]), n2)
           /\ Loaded(f, sh, full).w # <<>> => orki_pack_check(f, Here, sh) /\ Exact(f, sh)
<1>1. Tiles(c, n)
  <2>1. Paged(TileSizes(sh, KS, NMAX[Here]), n) /\ n \in Nat \ {0}
    BY TileSizesAre DEF Slices
  <2> QED BY <2>1, CutsAre
<1>2. PICK lay : lay = Each(c)
  OBVIOUS
<1>3. Covers(c, lay, n, n) /\ \A i, j \in 1..n : lay[i].at = lay[j].at => i = j
  <2>1. Covers(c, Each(c), n, n) /\ \A i \in 1..n : Each(c)[i].at = i
    BY <1>1, EachCovers
  <2> QED BY <1>2, <2>1
<1>4. PICK c2 : c2 = Rebuilt(c, sh, NMAX[Here])
  OBVIOUS
<1>5. Tiles(c2, n2)
  BY <1>4, RebuiltTiles
<1>6. PICK r : r = Loaded(f, sh, full)
  OBVIOUS
<1>7. CASE ~ (orki_pack_check(f, Here, sh) /\ Exact(f, sh) /\ Fits(mem, lay))
  <2>1. r = NotMade
    BY <1>2, <1>6, <1>7 DEF Loaded
  <2>2. r.mem = mem /\ r.w = <<>>
    BY <2>1 DEF NotMade
  <2>3. Good(r, mem) /\ Builds(r, sh, f.holds, c, n, c2, n2)
    BY <2>2, NothingMade
  <2> QED BY <1>4, <1>6, <2>2, <2>3
<1>8. CASE orki_pack_check(f, Here, sh) /\ Exact(f, sh) /\ Fits(mem, lay)
  <2>1. r = Building(mem, c, lay, full /\ BfLoaded(sh), c2, sh, f.holds, TRUE)
    BY <1>2, <1>4, <1>6, <1>8 DEF Loaded, Building
  <2>2. TRUE \in BOOLEAN
    OBVIOUS
  <2>3. Good(r, mem) /\ Builds(r, sh, f.holds, c, n, c2, n2)
    BY <1>3, <1>5, <1>8, <2>1, <2>2, BuildingIs DEF Sound_State
  <2> QED BY <1>4, <1>6, <1>8, <2>3
<1> QED BY <1>7, <1>8

-----------------------------------------------------------------------------
(* Adopting a buffer as it is.                                             *)

(* A buffer that is adopted: its tiles are views into it.                  *)
LEMMA AdoptedIs ==
    ASSUME Sound_State, NEW sh, Shaped(sh), NEW f, Row(f.body, Len(f.body)),
           NEW n, Slices(SlicesOf(sh, KS, NMAX[Here]), n), NEW c2, NEW n2,
           NEW c, c = Cut(f.body, TileSizes(sh, KS, NMAX[Here]))
    PROVE  /\ Good(Adopted(f, sh), mem)
           /\ Builds(Adopted(f, sh), sh, f.holds, c, n, c2, n2)
           /\ Adopted(f, sh).w # <<>> => Len(f.body) >= Total(TileSizes(sh, KS, NMAX[Here]))
<1>1. PICK sizes, body : sizes = TileSizes(sh, KS, NMAX[Here]) /\ body = f.body
  OBVIOUS
<1>2. Paged(sizes, n) /\ n \in Nat \ {0} /\ DOMAIN sizes = 1..n
  <2>1. Paged(sizes, n) /\ n \in Nat \ {0}
    BY <1>1, TileSizesAre DEF Slices
  <2> QED BY <2>1, RowIs DEF Paged
<1>3. PICK whole : whole = <<Padded(body)>>
  OBVIOUS
<1>4. Tiles(whole, 1) /\ Len(whole[1]) = PgUp(Len(body))
  BY <1>1, <1>3, WholeTile
<1>5. /\ Len(body) \in Nat /\ Len(body) <= PgUp(Len(body)) /\ PgUp(Len(body)) \in Nat
      /\ \A o \in 1..Len(body) : whole[1][o] = body[o]
  <2>1. Row(body, Len(body)) /\ Len(body) \in Nat
    BY <1>1 DEF Row
  <2>2. PICK d : d = Padded(body)
    OBVIOUS
  <2>3. /\ Len(body) <= PgUp(Len(body)) /\ PgUp(Len(body)) \in Nat
        /\ \A o \in 1..Len(body) : d[o] = body[o]
    BY <2>1, <2>2, PaddedIs
  <2>4. whole[1] = d
    BY <1>3, <2>2
  <2> QED BY <2>1, <2>3, <2>4
<1>6. PICK lay : lay = Each(whole)
  OBVIOUS
<1>7. Covers(whole, lay, 1, 1) /\ lay[1].at = 1 /\ lay[1].off = 0 /\ lay[1].size = Len(whole[1])
  <2>1. 1 \in 1..1
    OBVIOUS
  <2> QED BY <1>4, <1>6, <2>1, EachCovers
<1>8. PICK bb : bb = Laid(mem, whole, lay)
  OBVIOUS
<1>9. PICK h : h = bb.bufs[1].obj
  OBVIOUS
<1>10. PICK tiles : tiles = [i \in 1..n |-> [obj |-> h, off |-> Ahead(sizes, i),
                                            size |-> sizes[i], view |-> TRUE]]
  OBVIOUS
<1>11. PICK w : w = Weight(sh, f.holds, tiles, <<>>, FALSE, bb.objs)
  OBVIOUS
<1>12. PICK r : r = Adopted(f, sh)
  OBVIOUS
<1>13. CASE ~ (Len(body) >= Total(sizes) /\ Fits(mem, lay))
  <2>1. r = NotMade
    BY <1>1, <1>3, <1>6, <1>12, <1>13 DEF Adopted
  <2>2. r.mem = mem /\ r.w = <<>>
    BY <2>1 DEF NotMade
  <2>3. Good(r, mem) /\ Builds(r, sh, f.holds, c, n, c2, n2)
    BY <2>2, NothingMade
  <2> QED BY <1>12, <2>2, <2>3
<1>14. CASE Len(body) >= Total(sizes) /\ Fits(mem, lay)
  <2>1. r = Made(bb.mem, w)
    BY <1>1, <1>2, <1>3, <1>6, <1>8, <1>9, <1>10, <1>11, <1>12, <1>14 DEF Adopted
  <2>2. r.mem = bb.mem /\ r.w = <<w>> /\ r.w[1] = w /\ r.w # <<>>
    BY <2>1 DEF Made
  <2>3. /\ w.sh = sh /\ w.holds = f.holds /\ w.Bb = tiles /\ w.Bf = <<>> /\ w.owns = FALSE
        /\ w.own = bb.objs /\ w.codes = <<>>
    BY <1>11 DEF Weight
  <2>4. WellLaid(bb, mem, whole, lay, 1)
    BY <1>7, <1>8, <1>14, LaidBuffers DEF Sound_State
  <2>5. h \in DOMAIN bb.mem /\ bb.bufs[1].size = PgUp(Len(body)) /\ bb.bufs[1].off = 0
        /\ PgUp(Len(body)) <= Len(bb.mem[h])
        /\ \A o \in 1..PgUp(Len(body)) : bb.mem[h][o] = whole[1][o]
    <3>1. 1 \in 1..1
      OBVIOUS
    <3>2. /\ h \in DOMAIN bb.mem /\ bb.bufs[1].off \in Nat /\ bb.bufs[1].size \in Nat
          /\ bb.bufs[1].off + bb.bufs[1].size <= Len(bb.mem[h])
      BY <1>9, <2>4, <3>1 DEF WellLaid, Buffers
    <3>3. /\ bb.bufs[1].size = Len(whole[1])
          /\ \A o \in 1..Len(whole[1]) : bb.mem[h][bb.bufs[1].off + o] = whole[1][o]
      BY <1>9, <2>4, <3>1 DEF WellLaid, Reads
    <3>4. bb.bufs[1].off = 0
      <4>1. MemOK(mem) /\ Fits(mem, lay)
        BY <1>14 DEF Sound_State
      <4>2. \A i \in 1..1 : bb.bufs[i] = [obj |-> bb.objs[lay[i].at], off |-> lay[i].off,
                                          size |-> Len(whole[i]), view |-> FALSE]
        BY <1>7, <1>8, <4>1, LaidIs
      <4>3. bb.bufs[1] = [obj |-> bb.objs[lay[1].at], off |-> lay[1].off,
                          size |-> Len(whole[1]), view |-> FALSE]
        BY <3>1, <4>2
      <4> QED BY <1>7, <4>3
    <3>5. PICK z, l : z = Len(bb.mem[h]) /\ l = PgUp(Len(body))
      OBVIOUS
    <3>6. l <= z
      BY <1>4, <1>5, <3>2, <3>3, <3>4, <3>5
    <3>7. \A o \in 1..l : 0 + o = o
      BY <1>5, <3>5
    <3>8. \A o \in 1..l : bb.mem[h][o] = whole[1][o]
      BY <1>4, <3>3, <3>4, <3>5, <3>7
    <3> QED BY <1>4, <3>2, <3>3, <3>4, <3>5, <3>6, <3>8
  <2>6. Row(tiles, n) /\ DOMAIN tiles = 1..n
    BY <1>2, <1>10 DEF Row
  <2>7. \A i \in 1..n : tiles[i].obj = h /\ tiles[i].off = Ahead(sizes, i) /\ tiles[i].size = sizes[i]
    BY <1>10
  <2>8. /\ \A i \in 1..(n + 1) : Ahead(sizes, i) \in Nat
        /\ Ahead(sizes, n + 1) = Total(sizes) /\ Total(sizes) \in Nat
        /\ \A i \in 1..n, j \in 1..(n + 1) : i < j => Ahead(sizes, i) + sizes[i] <= Ahead(sizes, j)
    BY <1>2, BeforeIs
  <2>9. \A i \in 1..n : sizes[i] \in Nat /\ sizes[i] % PAGE = 0 /\ i \in 1..(n + 1)
    BY <1>2 DEF Paged
  <2>10. ASSUME NEW i \in 1..n
         PROVE  /\ Ahead(sizes, i) + sizes[i] <= Len(body)
                /\ Ahead(sizes, i) + sizes[i] <= Len(bb.mem[h])
    <3>1. n + 1 \in 1..(n + 1) /\ i < n + 1
      BY <1>2
    <3>2. Ahead(sizes, i) + sizes[i] <= Total(sizes)
      BY <2>8, <3>1
    <3>3. PICK x, z : x = Ahead(sizes, i) + sizes[i] /\ z = Len(bb.mem[h])
      OBVIOUS
    <3>4. x \in Nat
      BY <2>8, <2>9, <3>3
    <3>5. z \in Nat
      <4>1. MemOK(bb.mem)
        BY <2>4 DEF WellLaid, Grown
      <4> QED BY <2>5, <3>3, <4>1 DEF MemOK, Row
    <3> QED BY <1>5, <1>14, <2>5, <2>8, <3>2, <3>3, <3>4, <3>5
  <2>11. Buffers(tiles, n, bb.mem)
    <3>1. \A i, j \in 1..n : i < j => Ahead(sizes, i) + sizes[i] <= Ahead(sizes, j)
      BY <2>8, <2>9
    <3> QED BY <2>5, <2>6, <2>7, <2>8, <2>9, <2>10, <3>1 DEF Buffers
  <2>12. Reads(bb.mem, tiles, c, n)
    <3>1. \A i \in 1..n : /\ Len(c[i]) = sizes[i]
                          /\ \A o \in 1..sizes[i] : c[i][o] = body[Ahead(sizes, i) + o]
      BY <1>1, <1>2, CutsAre
    <3>2. ASSUME NEW i \in 1..n, NEW o \in 1..sizes[i]
          PROVE  bb.mem[h][Ahead(sizes, i) + o] = body[Ahead(sizes, i) + o]
      <4>1. PICK p, x, y : p = Ahead(sizes, i) + o /\ x = Ahead(sizes, i) /\ y = sizes[i]
        OBVIOUS
      <4>2. x \in Nat /\ y \in Nat /\ o \in 1..y /\ x + y <= Len(body) /\ p = x + o
        BY <2>8, <2>9, <2>10, <4>1
      <4>3. p \in 1..Len(body) /\ p \in 1..PgUp(Len(body))
        BY <1>5, <4>2
      <4> QED BY <1>5, <2>5, <4>1, <4>3
    <3> QED BY <2>7, <3>1, <3>2 DEF Reads
  <2>13. ObjectsOf(tiles) = {h} /\ ObjectsOf(bb.bufs) = {h} /\ ObjectsOf(<<>>) = {}
    <3>1. DOMAIN bb.bufs = 1..1 /\ 1..1 = {1}
      BY <2>4 DEF WellLaid
    <3>2. 1 \in 1..n
      BY <1>2
    <3> QED BY <1>9, <2>6, <2>7, <3>1, <3>2, NoBuffers DEF ObjectsOf
  <2>14. Grown(mem, r.mem, Objects(w))
    <3>1. Objects(w) = ObjectsOf(bb.bufs)
      BY <2>3, <2>13, ObjectsAre
    <3> QED BY <2>2, <2>4, <3>1 DEF WellLaid
  <2>15. IsInjective(Destroyed(w)) /\ Range(Destroyed(w)) = Objects(w)
    <3>1. {w.own[a] : a \in DOMAIN w.own} = ObjectsOf(w.Bb)
          /\ \A a, b \in DOMAIN w.own : w.own[a] = w.own[b] => a = b
      BY <2>3, <2>4, <2>13 DEF WellLaid
    <3>2. DOMAIN w.Bf = {} /\ ObjectsOf(w.Bb) \cap ObjectsOf(w.Bf) = {} /\ w.owns \in BOOLEAN /\ ~ w.owns
      <4>1. DOMAIN <<>> = {}
        OBVIOUS
      <4>2. DOMAIN w.Bf = {}
        BY <2>3, <4>1
      <4>3. ObjectsOf(w.Bf) = {}
        BY <4>2 DEF ObjectsOf
      <4>4. w.owns \in BOOLEAN /\ ~ w.owns
        BY <2>3
      <4> QED BY <4>2, <4>3, <4>4
    <3> QED BY <3>1, <3>2, DestroyedOnce
  <2>16. Sound(w, r.mem)
    <3>1. Buffers(w.Bf, 0, r.mem) /\ Buffers(w.Bb, n, r.mem) /\ n # 0 /\ n \in Nat /\ 0 \in Nat
      BY <1>2, <2>2, <2>3, <2>11, NoBuffers
    <3>2. ObjectsOf(w.Bb) \cap ObjectsOf(w.Bf) = {}
      BY <2>3, <2>13
    <3>3. IsWeight(w)
      BY <1>11, <2>3 DEF Weight, IsWeight
    <3> QED BY <2>15, <3>1, <3>2, <3>3 DEF Sound
  <2>17. Good(r, mem)
    BY <2>2, <2>14, <2>16 DEF Good
  <2>18. Builds(r, sh, f.holds, c, n, c2, n2)
    <3>1. Buffers(w.Bf, 0, r.mem) /\ Reads(r.mem, w.Bf, c2, 0)
      BY <2>2, <2>3, NoBuffers
    <3> QED BY <2>2, <2>3, <2>11, <2>12, <3>1 DEF Builds
  <2> QED BY <1>1, <1>12, <1>14, <2>17, <2>18
<1> QED BY <1>13, <1>14

-----------------------------------------------------------------------------
(* Writes through buffers, and dumps.                                      *)

(* A weight is as good in another memory that has its objects, as long.    *)
LEMMA SoundMoved ==
    ASSUME NEW w, NEW m, NEW x, Sound(w, m),
           \A o \in Objects(w) : o \in DOMAIN x /\ Len(x[o]) = Len(m[o])
    PROVE  Sound(w, x)
<1>1. \A i \in DOMAIN w.Bb : w.Bb[i].obj \in Objects(w)
  BY DEF Objects
<1>2. \A i \in DOMAIN w.Bf : w.Bf[i].obj \in Objects(w)
  BY DEF Objects
<1>3. ASSUME NEW bufs, NEW n, Buffers(bufs, n, m), \A i \in DOMAIN bufs : bufs[i].obj \in Objects(w)
      PROVE  Buffers(bufs, n, x)
  <2>1. DOMAIN bufs = 1..n
    BY <1>3, RowIs DEF Buffers
  <2>2. ASSUME NEW i \in 1..n PROVE bufs[i].obj \in DOMAIN x /\ Len(x[bufs[i].obj]) = Len(m[bufs[i].obj])
    BY <1>3, <2>1
  <2> QED BY <1>3, <2>2 DEF Buffers
<1> QED BY <1>1, <1>2, <1>3 DEF Sound

(* A weight with new contents owns what it owned.                          *)
LEMMA SoundRenewed ==
    ASSUME NEW w, NEW m, NEW B, Sound(w, m), NEW x, x = [w EXCEPT !.holds = B]
    PROVE  /\ Sound(x, m) /\ Objects(x) = Objects(w) /\ x.sh = w.sh /\ x.codes = w.codes /\ x.holds = B
           /\ x.Bb = w.Bb /\ x.Bf = w.Bf
<1>1. w = [sh |-> w.sh, holds |-> w.holds, Bb |-> w.Bb, Bf |-> w.Bf, owns |-> w.owns, own |-> w.own,
           codes |-> w.codes]
  BY DEF Sound, IsWeight
<1>2. x = [sh |-> w.sh, holds |-> B, Bb |-> w.Bb, Bf |-> w.Bf, owns |-> w.owns, own |-> w.own,
           codes |-> w.codes]
  BY <1>1
<1>3. /\ x.sh = w.sh /\ x.holds = B /\ x.Bb = w.Bb /\ x.Bf = w.Bf /\ x.owns = w.owns /\ x.own = w.own
      /\ x.codes = w.codes
  BY <1>2
<1>4. Objects(x) = Objects(w) /\ Destroyed(x) = Destroyed(w)
  BY <1>3 DEF Objects, Destroyed, NamedBy
<1>5. IsWeight(x)
  BY <1>2, <1>3 DEF IsWeight
<1> QED BY <1>3, <1>4, <1>5 DEF Sound

(* Writing leaves every object in place, as long as it was.                *)
Alike(m, x) == MemOK(x) /\ DOMAIN x = DOMAIN m /\ \A o \in DOMAIN m : Len(x[o]) = Len(m[o])

(* Writing twice is writing.                                               *)
LEMMA AlikeTwice ==
    ASSUME NEW m, NEW x, NEW y, Alike(m, x), Alike(x, y)
    PROVE  Alike(m, y)
BY DEF Alike

(* A write takes no room.                                                  *)
LEMMA AlikeUsage ==
    ASSUME NEW m, NEW x, Alike(m, x)
    PROVE  Usage(x) = Usage(m)
<1>1. Lengths(x) = Lengths(m)
  BY DEF Alike, Lengths
<1> QED BY <1>1 DEF Usage

(* What a write leaves in an object.                                       *)
LEMMA WrittenObject ==
    ASSUME NEW m, NEW bufs, NEW c, MemOK(m), NEW obj \in DOMAIN m
    PROVE  /\ DOMAIN WrittenAll(m, bufs, c) = DOMAIN m
           /\ Row(WrittenAll(m, bufs, c)[obj], Len(m[obj]))
           /\ (\A i \in DOMAIN bufs : bufs[i].obj # obj) => WrittenAll(m, bufs, c)[obj] = m[obj]
           /\ \A in : in = {i \in DOMAIN bufs : bufs[i].obj = obj} =>
                 \A p \in 1..Len(m[obj]) :
                    WrittenAll(m, bufs, c)[obj][p] =
                       IF in = {} THEN m[obj][p] ELSE Put(c, bufs, in, p, m[obj][p])
<1>1. PICK in, old, x : /\ in = {i \in DOMAIN bufs : bufs[i].obj = obj} /\ old = m[obj]
                        /\ x = WrittenAll(m, bufs, c)
  OBVIOUS
<1>2. DOMAIN x = DOMAIN m
  BY <1>1 DEF WrittenAll
<1>3. Row(old, Len(old)) /\ DOMAIN old = 1..Len(old)
  BY <1>1, RowIs DEF MemOK
<1>4. x[obj] = IF in = {} THEN old ELSE AsSeq([p \in DOMAIN old |-> Put(c, bufs, in, p, old[p])])
  BY <1>1 DEF WrittenAll
<1>5. PICK new : new = [p \in 1..Len(old) |-> Put(c, bufs, in, p, old[p])]
  OBVIOUS
<1>6. Row(new, Len(old))
  BY <1>3, <1>5 DEF Row
<1>7. x[obj] = IF in = {} THEN old ELSE new
  BY <1>3, <1>4, <1>5, <1>6, RowIs
<1>8. Row(x[obj], Len(old))
  BY <1>3, <1>6, <1>7
<1>9. \A p \in 1..Len(old) : x[obj][p] = IF in = {} THEN old[p] ELSE Put(c, bufs, in, p, old[p])
  BY <1>5, <1>7
<1>10. (\A i \in DOMAIN bufs : bufs[i].obj # obj) => x[obj] = old
  BY <1>1, <1>7
<1> QED BY <1>1, <1>2, <1>8, <1>9, <1>10

(* A write changes no lengths.                                             *)
LEMMA WrittenAlike ==
    ASSUME NEW m, NEW bufs, NEW c, MemOK(m)
    PROVE  Alike(m, WrittenAll(m, bufs, c))
<1>1. PICK x : x = WrittenAll(m, bufs, c)
  OBVIOUS
<1>2. x = [o \in DOMAIN m |-> x[o]] /\ DOMAIN x = DOMAIN m
  BY <1>1 DEF WrittenAll
<1>3. ASSUME NEW o \in DOMAIN m PROVE Row(x[o], Len(m[o])) /\ Len(x[o]) = Len(m[o])
  <2>1. Row(x[o], Len(m[o]))
    BY <1>1, WrittenObject
  <2> QED BY <2>1, RowIs
<1>4. MemOK(x)
  BY <1>2, <1>3 DEF MemOK
<1> QED BY <1>1, <1>2, <1>3, <1>4 DEF Alike

(* Whole pages add up to whole pages.                                      *)
LEMMA WholePages ==
    ASSUME NEW k \in Nat
    PROVE  (PAGE * k) % PAGE = 0
<1>1. PAGE \in Nat \ {0}
  BY Constants
<1> QED BY <1>1

(* A dump is whole pages.                                                  *)
FileOK(f) ==
    /\ f = [hdr |-> f.hdr, holds |-> f.holds, body |-> f.body]
    /\ Row(f.body, Len(f.body)) /\ Len(f.body) % PAGE = 0 /\ Len(f.hdr) \in {0, 1}

(* A dump holds the tiles one after the other.                             *)
LEMMA DumpedIs ==
    ASSUME NEW hdr, NEW holds, NEW c, NEW n, Tiles(c, n), Len(hdr) \in {0, 1},
           NEW f, f = Dumped(hdr, holds, c)
    PROVE  /\ FileOK(f) /\ f.hdr = hdr /\ f.holds = holds /\ Len(f.body) = Total(Lengths(c))
           /\ \A i \in 1..n : \A o \in 1..Len(c[i]) : f.body[Ahead(Lengths(c), i) + o] = c[i][o]
<1>1. /\ Covers(c, One(c), n, 1)
      /\ \A i \in 1..n : /\ One(c)[i].at = 1 /\ One(c)[i].off = Ahead(Lengths(c), i)
                         /\ One(c)[i].size = Total(Lengths(c))
  BY OneCovers
<1>2. f.hdr = hdr /\ f.holds = holds /\ f.body = Contents(c, One(c))[1]
  BY DEF Dumped
<1>3. 1 \in 1..1 /\ 1 \in 1..n
  BY DEF Tiles
<1>4. /\ \A a \in 1..1 : Row(Contents(c, One(c))[a], Extents(One(c))[a])
      /\ \A i \in 1..n : \A o \in 1..Len(c[i]) :
            Contents(c, One(c))[One(c)[i].at][One(c)[i].off + o] = c[i][o]
  BY <1>1, ContentsAre
<1>5. Extents(One(c))[1] = Total(Lengths(c))
  <2>1. \A i \in 1..n : Extents(One(c))[One(c)[i].at] = One(c)[i].size
    BY <1>1, SizesAre
  <2> QED BY <1>1, <1>3, <2>1
<1>6. Row(f.body, Total(Lengths(c)))
  BY <1>2, <1>3, <1>4, <1>5
<1>7. Len(f.body) = Total(Lengths(c))
  BY <1>6, RowIs
<1>8. Total(Lengths(c)) % PAGE = 0
  <2>1. Sized(Lengths(c))
    <3>1. Paged(Lengths(c), n) /\ n \in Nat
      BY LengthsArePaged DEF Tiles
    <3>2. DOMAIN Lengths(c) = 1..n
      BY <3>1, RowIs DEF Paged
    <3>3. IsFiniteSet(1..n)
      BY <3>1, FS_Interval
    <3> QED BY <3>1, <3>2, <3>3 DEF Paged, Sized
  <2>2. PICK k : k = Cardinality(Pages(Lengths(c)))
    OBVIOUS
  <2>3. k \in Nat /\ Total(Lengths(c)) = PAGE * k
    BY <2>1, <2>2, PagesFinite DEF Total
  <2>4. PAGE \in Nat \ {0}
    BY Constants
  <2>5. k \in Nat
    BY <2>3
  <2>6. (PAGE * k) % PAGE = 0
    BY <2>5, WholePages
  <2> QED BY <2>3, <2>6
<1>9. \A i \in 1..n : \A o \in 1..Len(c[i]) : f.body[Ahead(Lengths(c), i) + o] = c[i][o]
  BY <1>1, <1>2, <1>4
<1>10. f = [hdr |-> f.hdr, holds |-> f.holds, body |-> f.body]
  BY <1>2 DEF Dumped
<1> QED BY <1>2, <1>6, <1>7, <1>8, <1>9, <1>10 DEF FileOK

-----------------------------------------------------------------------------
(* The inductive invariant.                                                *)

(* The weights in a slot, and the objects they own.                        *)
Own(ws) == UNION {Objects(ws[i]) : i \in DOMAIN ws}
WellFormed(w) == Shaped(w.sh) /\ (w.codes # <<>> => w.codes[2] \in Socs)
HeldOK(ws, m) ==
    /\ \A i \in DOMAIN ws : Sound(ws[i], m) /\ WellFormed(ws[i])
    /\ \A i, j \in DOMAIN ws : i # j => Objects(ws[i]) \cap Objects(ws[j]) = {}

(* Every object of m is limbo's, or the property of one weight.            *)
Owned(m, l, a, b) ==
    /\ HeldOK(a, m) /\ HeldOK(b, m)
    /\ Own(a) \cap Own(b) = {} /\ Own(a) \cap l = {} /\ Own(b) \cap l = {}
    /\ DOMAIN m = l \cup Own(a) \cup Own(b)

PkInv ==
    /\ MemOK(mem) /\ Usage(mem) <= ceil /\ ceil \in Nat
    /\ views \in BOOLEAN /\ refused \in BOOLEAN
    /\ wt = <<>> \/ wt = <<wt[1]>>
    /\ kv = <<>> \/ kv = <<kv[1], kv[2]>>
    /\ Owned(mem, limbo, wt, kv)
    /\ \A f \in file : FileOK(f)

(* What empty, single and double slots own.                                *)
LEMMA OwnIs ==
    /\ DOMAIN <<>> = {} /\ Own(<<>>) = {}
    /\ \A w : DOMAIN <<w>> = {1} /\ <<w>>[1] = w /\ Own(<<w>>) = Objects(w)
    /\ \A w, x : /\ DOMAIN <<w, x>> = {1, 2} /\ <<w, x>>[1] = w /\ <<w, x>>[2] = x
                 /\ Own(<<w, x>>) = Objects(w) \cup Objects(x)
<1>1. DOMAIN <<>> = {}
  OBVIOUS
<1>2. ASSUME NEW w PROVE DOMAIN <<w>> = {1} /\ <<w>>[1] = w
  OBVIOUS
<1>3. ASSUME NEW w, NEW x PROVE DOMAIN <<w, x>> = {1, 2} /\ <<w, x>>[1] = w /\ <<w, x>>[2] = x
  OBVIOUS
<1>4. Own(<<>>) = {}
  BY <1>1 DEF Own
<1>5. ASSUME NEW w PROVE Own(<<w>>) = Objects(w)
  BY <1>2 DEF Own
<1>6. ASSUME NEW w, NEW x PROVE Own(<<w, x>>) = Objects(w) \cup Objects(x)
  BY <1>3 DEF Own
<1> QED BY <1>1, <1>2, <1>3, <1>4, <1>5, <1>6

(* An empty slot.                                                          *)
LEMMA NothingHeld ==
    ASSUME NEW m
    PROVE  HeldOK(<<>>, m)
BY OwnIs DEF HeldOK

(* Slots in a memory that holds their objects as before.                   *)
LEMMA HeldMoved ==
    ASSUME NEW ws, NEW m, NEW x, HeldOK(ws, m),
           \A o \in Own(ws) : o \in DOMAIN x /\ Len(x[o]) = Len(m[o])
    PROVE  HeldOK(ws, x)
<1>1. ASSUME NEW i \in DOMAIN ws PROVE Sound(ws[i], x)
  <2>1. PICK w : w = ws[i]
    OBVIOUS
  <2>2. Sound(w, m)
    BY <2>1 DEF HeldOK
  <2>3. \A o \in Objects(w) : o \in DOMAIN x /\ Len(x[o]) = Len(m[o])
    BY <2>1 DEF Own
  <2> QED BY <2>1, <2>2, <2>3, SoundMoved
<1> QED BY <1>1 DEF HeldOK

(* A call that made a weight, or none.                                     *)
LEMMA OwnedGrown ==
    ASSUME NEW m, NEW l, NEW b, NEW r, Owned(m, l, <<>>, b), MemOK(m), Usage(m) <= ceil, Good(r, m),
           r.w # <<>> => WellFormed(r.w[1])
    PROVE  /\ Owned(r.mem, l, r.w, b) /\ MemOK(r.mem) /\ Usage(r.mem) <= ceil
           /\ r.w = <<>> \/ r.w = <<r.w[1]>>
<1>1. CASE r.w = <<>>
  BY <1>1 DEF Good
<1>2. CASE r.w # <<>>
  <2>1. PICK w, x : w = r.w[1] /\ x = r.mem
    OBVIOUS
  <2>2. r.w = <<w>> /\ Sound(w, x) /\ Grown(m, x, Objects(w)) /\ WellFormed(w)
    BY <1>2, <2>1 DEF Good
  <2>3. HeldOK(<<w>>, x) /\ Own(<<w>>) = Objects(w)
    BY <2>2, OwnIs DEF HeldOK
  <2>4. DOMAIN m = l \cup Own(b) /\ HeldOK(b, m) /\ Own(b) \cap l = {}
    BY OwnIs DEF Owned
  <2>5. HeldOK(b, x)
    BY <2>2, <2>4, HeldMoved DEF Grown
  <2>6. Owned(x, l, <<w>>, b)
    BY <2>2, <2>3, <2>4, <2>5 DEF Owned, Grown
  <2> QED BY <2>1, <2>2, <2>6 DEF Grown
<1> QED BY <1>1, <1>2

(* A call that writes: the objects stay, the slots hold weights alike.     *)
LEMMA OwnedAlike ==
    ASSUME NEW m, NEW l, NEW a, NEW b, NEW x, NEW a2, NEW b2, Owned(m, l, a, b), Alike(m, x),
           HeldOK(a2, m), HeldOK(b2, m), Own(a2) = Own(a), Own(b2) = Own(b)
    PROVE  Owned(x, l, a2, b2)
<1>1. DOMAIN m = l \cup Own(a) \cup Own(b) /\ DOMAIN x = DOMAIN m
  BY DEF Owned, Alike
<1>2. \A o \in DOMAIN m : o \in DOMAIN x /\ Len(x[o]) = Len(m[o])
  BY DEF Alike
<1>3. HeldOK(a2, x)
  BY <1>1, <1>2, HeldMoved
<1>4. HeldOK(b2, x)
  BY <1>1, <1>2, HeldMoved
<1> QED BY <1>1, <1>3, <1>4 DEF Owned

(* What the invariant says of the buffers.                                 *)
LEMMA BuffersOfInv ==
    ASSUME PkInv
    PROVE  BuffersExact
<1>1. /\ Owned(mem, limbo, wt, kv) /\ MemOK(mem) /\ Usage(mem) <= ceil
      /\ views \in BOOLEAN /\ refused \in BOOLEAN
      /\ wt = <<>> \/ wt = <<wt[1]>>
      /\ kv = <<>> \/ kv = <<kv[1], kv[2]>>
      /\ \A f \in file : FileOK(f)
  BY DEF PkInv
<1>2. \A w : w \in Held <=> (\E i \in DOMAIN wt : w = wt[i]) \/ (\E i \in DOMAIN kv : w = kv[i])
  BY DEF Held, Range
<1>3. PkTypeOK
  <2>1. limbo \subseteq DOMAIN mem /\ DOMAIN mem \subseteq Objs
    BY <1>1 DEF Owned, MemOK
  <2>2. Len(wt) \in {0, 1}
    <3>1. CASE wt = <<>>
      BY <3>1
    <3>2. CASE wt = <<wt[1]>>
      <4>1. \A w : Len(<<w>>) = 1
        OBVIOUS
      <4> QED BY <3>2, <4>1
    <3> QED BY <1>1, <3>1, <3>2
  <2>3. Len(kv) \in {0, 2}
    <3>1. CASE kv = <<>>
      BY <3>1
    <3>2. CASE kv = <<kv[1], kv[2]>>
      <4>1. \A w, x : Len(<<w, x>>) = 2
        OBVIOUS
      <4> QED BY <3>2, <4>1
    <3> QED BY <1>1, <3>1, <3>2
  <2> QED BY <1>1, <2>1, <2>2, <2>3 DEF PkTypeOK, FileOK
<1>4. ASSUME NEW w \in Held PROVE \E m : Sound(w, m)
  BY <1>1, <1>2 DEF Owned, HeldOK
<1>5. \A w \in Held : IsInjective(Destroyed(w)) /\ Range(Destroyed(w)) = Objects(w)
  BY <1>4 DEF Sound
<1>6. ASSUME NEW w \in Held, NEW x \in Held, w # x PROVE Objects(w) \cap Objects(x) = {}
  <2>1. ASSUME NEW a, NEW i \in DOMAIN a PROVE Objects(a[i]) \subseteq Own(a)
    BY DEF Own
  <2>2. CASE (\E i \in DOMAIN wt : w = wt[i]) /\ (\E i \in DOMAIN wt : x = wt[i])
    BY <1>1, <1>6, <2>2 DEF Owned, HeldOK
  <2>3. CASE (\E i \in DOMAIN kv : w = kv[i]) /\ (\E i \in DOMAIN kv : x = kv[i])
    BY <1>1, <1>6, <2>3 DEF Owned, HeldOK
  <2>4. CASE (\E i \in DOMAIN wt : w = wt[i]) /\ (\E i \in DOMAIN kv : x = kv[i])
    <3>1. Objects(w) \subseteq Own(wt) /\ Objects(x) \subseteq Own(kv)
      BY <2>1, <2>4
    <3> QED BY <1>1, <3>1 DEF Owned
  <2>5. CASE (\E i \in DOMAIN kv : w = kv[i]) /\ (\E i \in DOMAIN wt : x = wt[i])
    <3>1. Objects(w) \subseteq Own(kv) /\ Objects(x) \subseteq Own(wt)
      BY <2>1, <2>5
    <3> QED BY <1>1, <3>1 DEF Owned
  <2> QED BY <1>2, <2>2, <2>3, <2>4, <2>5
<1>7. UNION {Objects(w) : w \in Held} = Own(wt) \cup Own(kv)
  <2>1. ASSUME NEW o PROVE o \in UNION {Objects(w) : w \in Held} <=> \E w \in Held : o \in Objects(w)
    OBVIOUS
  <2>2. ASSUME NEW o, NEW a PROVE o \in Own(a) <=> \E i \in DOMAIN a : o \in Objects(a[i])
    BY DEF Own
  <2>3. ASSUME NEW o PROVE (\E w \in Held : o \in Objects(w)) <=> (o \in Own(wt) \/ o \in Own(kv))
    BY <1>2, <2>2
  <2> QED BY <2>1, <2>3
<1>8. ASSUME NEW w \in Held PROVE Objects(w) \cap limbo = {}
  <2>1. Objects(w) \subseteq Own(wt) \cup Own(kv)
    BY <1>7
  <2> QED BY <1>1, <2>1 DEF Owned
<1>9. DOMAIN mem = limbo \cup UNION {Objects(w) : w \in Held}
  BY <1>1, <1>7 DEF Owned
<1> QED BY <1>1, <1>3, <1>5, <1>6, <1>8, <1>9 DEF BuffersExact

-----------------------------------------------------------------------------
(* Each operation keeps it: the calls that make a weight.                  *)

(* The first state.                                                        *)
LEMMA InitInv ==
    ASSUME PkInit
    PROVE  PkInv
<1>1. mem = <<>> /\ limbo = {} /\ wt = <<>> /\ kv = <<>> /\ file = {} /\ views \in BOOLEAN
      /\ ceil \in Ceilings /\ refused = FALSE
  BY DEF PkInit
<1>2. DOMAIN mem = {}
  BY <1>1, OwnIs
<1>3. MemOK(mem)
  <2>1. mem = [o \in DOMAIN mem |-> mem[o]]
    BY <1>1
  <2> QED BY <1>2, <2>1 DEF MemOK
<1>4. Usage(mem) <= ceil
  <2>1. PICK f : f = Lengths(mem)
    OBVIOUS
  <2>2. DOMAIN f = {}
    BY <1>2, <2>1 DEF Lengths
  <2>3. Pages(f) = {}
    BY <2>2 DEF Pages
  <2>4. Cardinality(Pages(f)) = 0
    BY <2>3, FS_EmptySet
  <2>5. PAGE \in Nat /\ ceil \in Nat
    BY <1>1, Constants, PackedAssumption
  <2>6. Usage(mem) = PAGE * 0
    BY <2>1, <2>4 DEF Usage, Total
  <2> QED BY <2>5, <2>6
<1>5. Owned(mem, limbo, wt, kv)
  BY <1>1, <1>2, OwnIs, NothingHeld DEF Owned
<1>6. \A f \in file : FileOK(f)
  BY <1>1
<1>7. ceil \in Nat
  BY <1>1, PackedAssumption
<1> QED BY <1>1, <1>3, <1>4, <1>5, <1>6, <1>7 DEF PkInv

(* A call that made a weight, or NULL.                                     *)
LEMMA MakesInv ==
    ASSUME PkInv, wt = <<>>, NEW r, Good(r, mem), r.w # <<>> => WellFormed(r.w[1]),
           mem' = r.mem, wt' = r.w, UNCHANGED <<limbo, kv, file, views, ceil>>, refused' \in BOOLEAN
    PROVE  PkInv'
<1>1. Owned(mem, limbo, <<>>, kv) /\ MemOK(mem) /\ Usage(mem) <= ceil
  BY DEF PkInv
<1>2. /\ Owned(r.mem, limbo, r.w, kv) /\ MemOK(r.mem) /\ Usage(r.mem) <= ceil
      /\ r.w = <<>> \/ r.w = <<r.w[1]>>
  BY <1>1, OwnedGrown
<1>3. MemOK(mem') /\ (Usage(mem) <= ceil)'
  BY <1>2 DEF Usage
<1>4. Owned(mem', limbo', wt', kv')
  BY <1>2
<1>5. (kv = <<>> \/ kv = <<kv[1], kv[2]>>)' /\ (\A f \in file : FileOK(f))' /\ views' \in BOOLEAN
      /\ ceil' \in Nat
  BY DEF PkInv
<1>6. wt' = <<>> \/ wt' = <<wt'[1]>>
  BY <1>2
<1> QED BY <1>3, <1>4, <1>5, <1>6 DEF PkInv

(* The shapes of PackedWeight, and the number of their slices.             *)
LEMMA ShapesAre ==
    ASSUME NEW sh, Shaped(sh)
    PROVE  \E n, n1, n2 : /\ Slices(SlicesOf(sh, orki_int8_ks, NMAX[Here]), n)
                          /\ Slices(SlicesOf(sh, KS, NMAX[Here]), n1)
                          /\ Slices(FullK(sh, NMAX[Here]), n2)
<1>1. Here \in Socs
  BY PackedAssumption
<1> QED BY <1>1, FullExists

(* A built weight is well formed.                                          *)
LEMMA BuiltIsFormed ==
    ASSUME NEW r, NEW sh, Shaped(sh), NEW B, NEW c, NEW n, NEW c2, NEW n2, Builds(r, sh, B, c, n, c2, n2)
    PROVE  r.w # <<>> => WellFormed(r.w[1])
BY DEF Builds, WellFormed

(* ork_i8_mm_pack.                                                         *)
LEMMA PackInv ==
    ASSUME PkInv, NEW sh \in Shapes, NEW v, ork_i8_mm_pack(sh, v)
    PROVE  PkInv'
<1>1. Shaped(sh)
  BY PackedAssumption
<1>2. PICK n, n1, n2 : /\ Slices(SlicesOf(sh, orki_int8_ks, NMAX[Here]), n)
                       /\ Slices(FullK(sh, NMAX[Here]), n2)
  BY <1>1, ShapesAre
<1>3. PICK r : r = Packed(mem, sh, Filled(sh, v))
  OBVIOUS
<1>4. /\ Good(r, mem)
      /\ Builds(r, sh, Filled(sh, v), TileSet(Elements(Filled(sh, v)), SlicesOf(sh, orki_int8_ks, NMAX[Here])), n,
                TileSet(Elements(Filled(sh, v)), FullK(sh, NMAX[Here])), n2)
  BY <1>1, <1>2, <1>3, PackedIs DEF PkInv
<1>5. r.w # <<>> => WellFormed(r.w[1])
  BY <1>1, <1>4, BuiltIsFormed
<1>6. /\ wt = <<>> /\ mem' = r.mem /\ wt' = r.w
      /\ UNCHANGED <<limbo, kv, file, views, ceil>> /\ refused' \in BOOLEAN
  BY <1>3 DEF ork_i8_mm_pack, Keep, PkInv
<1> QED BY <1>4, <1>5, <1>6, MakesInv

(* ork_i8_mm_pack_import.                                                  *)
LEMMA PackImportInv ==
    ASSUME PkInv, NEW sh \in Shapes, NEW v, ork_i8_mm_pack_import(sh, v)
    PROVE  PkInv'
<1>1. Shaped(sh)
  BY PackedAssumption
<1>2. PICK n1, n2 : /\ Slices(SlicesOf(sh, KS, NMAX[Here]), n1)
                    /\ Slices(FullK(sh, NMAX[Here]), n2)
  BY <1>1, ShapesAre
<1>3. PICK c : c = TileSet(Elements(Filled(sh, v)), SlicesOf(sh, KS, NMAX[Here]))
  OBVIOUS
<1>4. Tiles(c, n1)
  BY <1>2, <1>3, TileSetIs
<1>5. PICK r : r = Imported(sh, Filled(sh, v), c)
  OBVIOUS
<1>6. /\ Good(r, mem)
      /\ Builds(r, sh, Filled(sh, v), c, n1, Rebuilt(c, sh, NMAX[Here]), n2)
  BY <1>1, <1>2, <1>4, <1>5, ImportedIs DEF PkInv, Sound_State
<1>7. r.w # <<>> => WellFormed(r.w[1])
  BY <1>1, <1>6, BuiltIsFormed
<1>8. /\ wt = <<>> /\ mem' = r.mem /\ wt' = r.w
      /\ UNCHANGED <<limbo, kv, file, views, ceil>> /\ refused' \in BOOLEAN
  BY <1>3, <1>5 DEF ork_i8_mm_pack_import, Keep, PkInv
<1> QED BY <1>6, <1>7, <1>8, MakesInv

(* ork_i8_mm_load.                                                         *)
LEMMA LoadInv ==
    ASSUME PkInv, NEW f \in file, NEW sh \in Shapes, NEW full, ork_i8_mm_load(f, sh, full)
    PROVE  PkInv'
<1>1. Shaped(sh)
  BY PackedAssumption
<1>2. PICK n1, n2 : /\ Slices(SlicesOf(sh, KS, NMAX[Here]), n1)
                    /\ Slices(FullK(sh, NMAX[Here]), n2)
  BY <1>1, ShapesAre
<1>3. PICK c : c = Cut(f.body, TileSizes(sh, KS, NMAX[Here]))
  OBVIOUS
<1>4. PICK r : r = Loaded(f, sh, full)
  OBVIOUS
<1>5. /\ Good(r, mem)
      /\ Builds(r, sh, f.holds, c, n1, Rebuilt(c, sh, NMAX[Here]), n2)
  BY <1>1, <1>2, <1>3, <1>4, LoadedIs DEF PkInv, Sound_State
<1>6. r.w # <<>> => WellFormed(r.w[1])
  BY <1>1, <1>5, BuiltIsFormed
<1>7. /\ wt = <<>> /\ mem' = r.mem /\ wt' = r.w
      /\ UNCHANGED <<limbo, kv, file, views, ceil>> /\ refused' \in BOOLEAN
  BY <1>4 DEF ork_i8_mm_load, Keep, PkInv
<1> QED BY <1>5, <1>6, <1>7, MakesInv

(* ork_i8_mm_load_import.                                                  *)
LEMMA LoadImportInv ==
    ASSUME PkInv, NEW f \in file, NEW sh \in Shapes, ork_i8_mm_load_import(f, sh)
    PROVE  PkInv'
<1>1. Shaped(sh)
  BY PackedAssumption
<1>2. PICK n1, n2 : /\ Slices(SlicesOf(sh, KS, NMAX[Here]), n1)
                    /\ Slices(FullK(sh, NMAX[Here]), n2)
  BY <1>1, ShapesAre
<1>3. PICK c : c = Cut(f.body, TileSizes(sh, KS, NMAX[Here]))
  OBVIOUS
<1>4. Tiles(c, n1)
  <2>1. Paged(TileSizes(sh, KS, NMAX[Here]), n1) /\ n1 \in Nat \ {0}
    BY <1>2, TileSizesAre DEF Slices
  <2> QED BY <1>3, <2>1, CutsAre
<1>5. PICK r : r = Imported(sh, f.holds, c)
  OBVIOUS
<1>6. /\ Good(r, mem)
      /\ Builds(r, sh, f.holds, c, n1, Rebuilt(c, sh, NMAX[Here]), n2)
  BY <1>1, <1>2, <1>4, <1>5, ImportedIs DEF PkInv, Sound_State
<1>7. r.w # <<>> => WellFormed(r.w[1])
  BY <1>1, <1>6, BuiltIsFormed
<1>8. /\ wt = <<>> /\ mem' = r.mem /\ wt' = r.w
      /\ UNCHANGED <<limbo, kv, file, views, ceil>> /\ refused' \in BOOLEAN
  BY <1>3, <1>5 DEF ork_i8_mm_load_import, Keep, PkInv
<1> QED BY <1>6, <1>7, <1>8, MakesInv

(* ork_i8_mm_import.                                                       *)
LEMMA ImportInv ==
    ASSUME PkInv, NEW f \in file, NEW sh \in Shapes, ork_i8_mm_import(f, sh)
    PROVE  PkInv'
<1>1. Shaped(sh)
  BY PackedAssumption
<1>2. PICK n1, n2 : /\ Slices(SlicesOf(sh, KS, NMAX[Here]), n1)
                    /\ Slices(FullK(sh, NMAX[Here]), n2)
  BY <1>1, ShapesAre
<1>3. PICK sent : sent = [f EXCEPT !.hdr = <<>>]
  OBVIOUS
<1>4. PICK r : r = IF views THEN Adopted(sent, sh) ELSE Loaded(sent, sh, TRUE)
  OBVIOUS
<1>5. PICK c : c = Cut(sent.body, TileSizes(sh, KS, NMAX[Here]))
  OBVIOUS
<1>6. sent.body = f.body
  <2>1. f = [hdr |-> f.hdr, holds |-> f.holds, body |-> f.body]
    BY DEF PkInv, FileOK
  <2> QED BY <1>3, <2>1
<1>7. Row(sent.body, Len(sent.body))
  BY <1>6 DEF PkInv, FileOK
<1>8. /\ Good(r, mem)
      /\ Builds(r, sh, sent.holds, c, n1, Rebuilt(c, sh, NMAX[Here]), n2)
  <2>1. Sound_State
    BY DEF PkInv, Sound_State
  <2>2. CASE views
    BY <1>1, <1>2, <1>4, <1>5, <1>7, <2>1, <2>2, AdoptedIs
  <2>3. CASE ~ views
    BY <1>1, <1>2, <1>4, <1>5, <2>1, <2>3, LoadedIs
  <2> QED BY <2>2, <2>3
<1>9. r.w # <<>> => WellFormed(r.w[1])
  BY <1>1, <1>8, BuiltIsFormed
<1>10. /\ wt = <<>> /\ mem' = r.mem /\ wt' = r.w
       /\ UNCHANGED <<limbo, kv, file, views, ceil>> /\ refused' \in BOOLEAN
  BY <1>3, <1>4 DEF ork_i8_mm_import
<1> QED BY <1>8, <1>9, <1>10, MakesInv

-----------------------------------------------------------------------------
(* Each operation keeps it: offline weights and files.                     *)

(* Without a device: a weight that has no memory.                          *)
LEMMA OfflineIs ==
    ASSUME NEW m, MemOK(m), Usage(m) <= ceil, NEW sh, NEW B, NEW codes, codes # <<>>,
           NEW r, r = Made(m, Offline(sh, B, codes))
    PROVE  /\ Good(r, m) /\ r.w # <<>> /\ r.w[1].sh = sh /\ r.w[1].holds = B /\ r.w[1].codes = codes
           /\ r.mem = m
<1>1. PICK w : w = Offline(sh, B, codes)
  OBVIOUS
<1>2. w = [sh |-> sh, holds |-> B, Bb |-> <<>>, Bf |-> <<>>, owns |-> TRUE, own |-> <<>>, codes |-> codes]
  BY <1>1 DEF Offline, Weight
<1>3. /\ w.sh = sh /\ w.holds = B /\ w.Bb = <<>> /\ w.Bf = <<>> /\ w.owns = TRUE /\ w.own = <<>>
      /\ w.codes = codes
  BY <1>2
<1>4. r.mem = m /\ r.w = <<w>> /\ r.w[1] = w /\ r.w # <<>>
  BY <1>1 DEF Made
<1>5. DOMAIN w.Bb = {} /\ DOMAIN w.Bf = {} /\ DOMAIN w.own = {}
  BY <1>3, OwnIs
<1>6. ObjectsOf(w.Bb) = {} /\ ObjectsOf(w.Bf) = {}
  BY <1>5 DEF ObjectsOf
<1>7. IsInjective(Destroyed(w)) /\ Range(Destroyed(w)) = Objects(w)
  <2>1. ObjectsOf(w.Bb) \cap ObjectsOf(w.Bf) = {} /\ w.owns \in BOOLEAN /\ w.owns
    BY <1>3, <1>6
  <2> QED BY <1>5, <2>1, DestroyedOnce
<1>8. IsWeight(w)
  BY <1>2, <1>3 DEF IsWeight
<1>9. Buffers(w.Bb, 0, m) /\ Buffers(w.Bf, 0, m)
  BY <1>3, NoBuffers
<1>10. Sound(w, m)
  BY <1>3, <1>6, <1>7, <1>8, <1>9 DEF Sound
<1>11. Objects(w) = {}
  BY <1>6, ObjectsAre
<1>12. Grown(m, m, Objects(w))
  BY <1>11, GrownNone
<1> QED BY <1>3, <1>4, <1>10, <1>12 DEF Good

(* OfflinePack.                                                            *)
LEMMA OfflinePackInv ==
    ASSUME PkInv, NEW sh \in Shapes, NEW v, NEW soc \in Socs, OfflinePack(sh, v, soc)
    PROVE  PkInv'
<1>1. Shaped(sh)
  BY PackedAssumption
<1>2. PICK codes : codes = <<Elements(Filled(sh, v)), soc>>
  OBVIOUS
<1>3. codes # <<>> /\ codes[2] = soc
  BY <1>2
<1>4. PICK r : r = Made(mem, Offline(sh, Filled(sh, v), codes))
  OBVIOUS
<1>5. Good(r, mem) /\ r.w[1].sh = sh /\ r.w[1].codes = codes
  BY <1>3, <1>4, OfflineIs DEF PkInv
<1>6. WellFormed(r.w[1])
  BY <1>1, <1>3, <1>5 DEF WellFormed
<1>7. /\ wt = <<>> /\ mem' = r.mem /\ wt' = r.w
      /\ UNCHANGED <<limbo, kv, file, views, ceil>> /\ refused' \in BOOLEAN
  BY <1>2, <1>4 DEF OfflinePack, Keep, PkInv
<1> QED BY <1>5, <1>6, <1>7, MakesInv

(* OfflineLoad.                                                            *)
LEMMA OfflineLoadInv ==
    ASSUME PkInv, NEW f \in file, NEW sh \in Shapes, NEW soc \in Socs, OfflineLoad(f, sh, soc)
    PROVE  PkInv'
<1>1. Shaped(sh)
  BY PackedAssumption
<1>2. PICK codes : codes = <<Untiled(f.body, sh, NMAX[soc]), soc>>
  OBVIOUS
<1>3. codes # <<>> /\ codes[2] = soc
  BY <1>2
<1>4. PICK r : r = Made(mem, Offline(sh, f.holds, codes))
  OBVIOUS
<1>5. Good(r, mem) /\ r.w[1].sh = sh /\ r.w[1].codes = codes
  BY <1>3, <1>4, OfflineIs DEF PkInv
<1>6. WellFormed(r.w[1])
  BY <1>1, <1>3, <1>5 DEF WellFormed
<1>7. /\ wt = <<>> /\ mem' = r.mem /\ wt' = r.w
      /\ UNCHANGED <<limbo, kv, file, views, ceil>> /\ refused' \in BOOLEAN
  BY <1>2, <1>4 DEF OfflineLoad, Keep, PkInv
<1> QED BY <1>5, <1>6, <1>7, MakesInv

(* The dumps.                                                              *)
LEMMA FilesInv ==
    ASSUME PkInv, UNCHANGED <<mem, limbo, wt, kv, views, ceil, refused>>,
           \A f \in file' : FileOK(f)
    PROVE  PkInv'
BY DEF PkInv, Usage

(* A header is one record.                                                 *)
LEMMA HeaderIs ==
    ASSUME NEW soc, NEW sh
    PROVE  Len(PackHeader(soc, sh)) \in {0, 1} /\ Len(<<>>) \in {0, 1}
BY DEF PackHeader

(* The tiles of codes.                                                     *)
LEMMA CodesTiles ==
    ASSUME NEW sh, Shaped(sh), NEW soc \in Socs, NEW E
    PROVE  \E n : Slices(SlicesOf(sh, orki_int8_ks, NMAX[soc]), n)
                  /\ Tiles(TileSet(E, SlicesOf(sh, orki_int8_ks, NMAX[soc])), n)
<1>1. PICK n : Slices(SlicesOf(sh, orki_int8_ks, NMAX[soc]), n)
  BY FullExists
<1> QED BY <1>1, TileSetIs

(* ork_i8_w_dump_cpu.                                                      *)
LEMMA DumpCpuInv ==
    ASSUME PkInv, NEW sh \in Shapes, NEW v, NEW soc \in Socs, NEW st \in BOOLEAN,
           ork_i8_w_dump_cpu(sh, v, soc, st)
    PROVE  PkInv'
<1>1. Shaped(sh)
  BY PackedAssumption
<1>2. PICK B, hdr : B = Filled(sh, v) /\ hdr = IF st THEN <<>> ELSE PackHeader(soc, sh)
  OBVIOUS
<1>3. PICK c : c = TileSet(Elements(B), SlicesOf(sh, orki_int8_ks, NMAX[soc]))
  OBVIOUS
<1>4. PICK n : Tiles(c, n)
  BY <1>1, <1>3, CodesTiles
<1>5. PICK f : f = Dumped(hdr, B, c)
  OBVIOUS
<1>6. FileOK(f)
  <2>1. Len(hdr) \in {0, 1}
    BY <1>2, HeaderIs
  <2> QED BY <1>4, <1>5, <2>1, DumpedIs
<1>7. file' = file \cup {f}
  BY <1>2, <1>3, <1>5 DEF ork_i8_w_dump_cpu
<1>8. \A g \in file' : FileOK(g)
  BY <1>6, <1>7 DEF PkInv
<1> QED BY <1>8, FilesInv DEF ork_i8_w_dump_cpu

(* ork_w_dump.                                                             *)
LEMMA DumpInv ==
    ASSUME PkInv, ork_w_dump
    PROVE  PkInv'
<1>1. PICK w : w = wt[1]
  OBVIOUS
<1>2. wt = <<w>> /\ Sound(w, mem) /\ WellFormed(w)
  <2>1. wt = <<wt[1]>> /\ HeldOK(wt, mem)
    BY DEF ork_w_dump, PkInv, Owned
  <2> QED BY <1>1, <2>1, OwnIs DEF HeldOK
<1>3. ASSUME w.codes # <<>> PROVE \A f \in file' : FileOK(f)
  <2>1. PICK soc : soc = w.codes[2]
    OBVIOUS
  <2>2. soc \in Socs /\ Shaped(w.sh)
    BY <1>2, <1>3, <2>1 DEF WellFormed
  <2>3. PICK c : c = TileSet(w.codes[1], SlicesOf(w.sh, orki_int8_ks, NMAX[soc]))
    OBVIOUS
  <2>4. PICK n : Tiles(c, n)
    BY <2>2, <2>3, CodesTiles
  <2>5. PICK f, hdr : f = Dumped(hdr, w.holds, c) /\ hdr = PackHeader(soc, w.sh)
    OBVIOUS
  <2>6. FileOK(f)
    <3>1. Len(hdr) \in {0, 1}
      BY <2>5, HeaderIs
    <3> QED BY <2>4, <2>5, <3>1, DumpedIs
  <2>7. file' = file \cup {f}
    BY <1>1, <1>3, <2>1, <2>3, <2>5 DEF ork_w_dump
  <2> QED BY <2>6, <2>7 DEF PkInv
<1>4. ASSUME w.codes = <<>> PROVE \A f \in file' : FileOK(f)
  <2>1. PICK n \in Nat : Buffers(w.Bb, n, mem) /\ n # 0
    BY <1>2, <1>4 DEF Sound
  <2>2. PICK c : c = Bytes(mem, w.Bb)
    OBVIOUS
  <2>3. Tiles(c, n)
    <3>1. n \in Nat \ {0} /\ Row(w.Bb, n)
      BY <2>1 DEF Buffers
    <3>2. \A i \in 1..n : w.Bb[i].off \in Nat /\ w.Bb[i].size \in Nat /\ w.Bb[i].size % PAGE = 0
      BY <2>1 DEF Buffers
    <3> QED BY <2>2, <3>1, <3>2, BytesAre
  <2>4. PICK f, hdr : f = Dumped(hdr, w.holds, c) /\ hdr = PackHeader(Here, w.sh)
    OBVIOUS
  <2>5. FileOK(f)
    <3>1. Len(hdr) \in {0, 1}
      BY <2>4, HeaderIs
    <3> QED BY <2>3, <2>4, <3>1, DumpedIs
  <2>6. file' = file \cup {f}
    BY <1>1, <1>4, <2>2, <2>4 DEF ork_w_dump
  <2> QED BY <2>5, <2>6 DEF PkInv
<1>5. \A f \in file' : FileOK(f)
  BY <1>3, <1>4
<1> QED BY <1>5, FilesInv DEF ork_w_dump

(* Forget.                                                                 *)
LEMMA ForgetInv ==
    ASSUME PkInv, NEW f \in file, Forget(f)
    PROVE  PkInv'
<1>1. \A g \in file' : FileOK(g)
  BY DEF Forget, PkInv
<1> QED BY <1>1, FilesInv DEF Forget

-----------------------------------------------------------------------------
(* Each operation keeps it: repack, free and the resident pair.            *)

(* A weight with new contents, in its slot.                                *)
LEMMA HeldRenewed ==
    ASSUME NEW w, NEW m, NEW B, Sound(w, m), WellFormed(w), NEW x, x = [w EXCEPT !.holds = B]
    PROVE  Sound(x, m) /\ WellFormed(x) /\ Objects(x) = Objects(w)
<1>1. Sound(x, m) /\ Objects(x) = Objects(w) /\ x.sh = w.sh /\ x.codes = w.codes
  BY SoundRenewed
<1> QED BY <1>1 DEF WellFormed

(* ork_i8_mm_repack.                                                       *)
LEMMA RepackInv ==
    ASSUME PkInv, NEW v, ork_i8_mm_repack(v)
    PROVE  PkInv'
<1>1. PICK w, B : w = wt[1] /\ B = Filled(w.sh, v)
  OBVIOUS
<1>2. wt = <<w>>
  BY <1>1 DEF ork_i8_mm_repack, PkInv
<1>3. Owned(mem, limbo, <<w>>, kv) /\ MemOK(mem) /\ Usage(mem) <= ceil
  BY <1>2 DEF PkInv
<1>4. Sound(w, mem) /\ WellFormed(w)
  BY <1>3, OwnIs DEF Owned, HeldOK
<1>5. PICK x : x = [w EXCEPT !.holds = B]
  OBVIOUS
<1>6. Sound(x, mem) /\ WellFormed(x) /\ Objects(x) = Objects(w)
  BY <1>4, <1>5, HeldRenewed
<1>7. wt' = <<x>>
  BY <1>1, <1>5 DEF ork_i8_mm_repack
<1>8. PICK c1, c2 : c1 = NewTiles(w, B) /\ c2 = NewFull(w, B)
  OBVIOUS
<1>9. PICK m1 : m1 = WrittenAll(mem, w.Bb, c1)
  OBVIOUS
<1>10. PICK m2 : m2 = WrittenAll(m1, w.Bf, c2)
  OBVIOUS
<1>11. mem' = m2
  BY <1>1, <1>8, <1>9, <1>10 DEF ork_i8_mm_repack
<1>12. Alike(mem, m2)
  <2>1. Alike(mem, m1)
    BY <1>3, <1>9, WrittenAlike
  <2>2. Alike(m1, m2)
    BY <1>10, <2>1, WrittenAlike DEF Alike
  <2> QED BY <2>1, <2>2, AlikeTwice
<1>13. Owned(m2, limbo, <<x>>, kv)
  <2>1. HeldOK(<<x>>, mem)
    BY <1>6, OwnIs DEF HeldOK
  <2>2. Own(<<x>>) = Own(<<w>>)
    BY <1>6, OwnIs
  <2>3. HeldOK(kv, mem)
    BY <1>3 DEF Owned
  <2> QED BY <1>3, <1>12, <2>1, <2>2, <2>3, OwnedAlike
<1>14. MemOK(m2) /\ Usage(m2) <= ceil
  <2>1. Usage(m2) = Usage(mem)
    BY <1>12, AlikeUsage
  <2> QED BY <1>3, <1>12, <2>1 DEF Alike
<1>15. wt' = <<wt'[1]>>
  BY <1>7
<1> QED BY <1>7, <1>11, <1>13, <1>14, <1>15 DEF ork_i8_mm_repack, PkInv, Usage

(* Destroying a weight leaves the others whole.                            *)
LEMMA MinusIs ==
    ASSUME NEW m, NEW objs, MemOK(m)
    PROVE  /\ MemOK(Minus(m, objs)) /\ DOMAIN Minus(m, objs) = DOMAIN m \ objs
           /\ \A o \in DOMAIN m \ objs : Minus(m, objs)[o] = m[o]
           /\ Usage(Minus(m, objs)) <= Usage(m)
<1> SUFFICES ASSUME NEW x, x = Minus(m, objs)
             PROVE  /\ MemOK(x) /\ DOMAIN x = DOMAIN m \ objs
                    /\ \A o \in DOMAIN m \ objs : x[o] = m[o]
                    /\ Usage(x) <= Usage(m)
  OBVIOUS
<1>1. x = [o \in DOMAIN m \ objs |-> m[o]]
  BY DEF Minus, Restrict
<1>2. DOMAIN x = DOMAIN m \ objs /\ \A o \in DOMAIN x : x[o] = m[o]
  BY <1>1
<1>3. MemOK(x)
  <2>1. x = [o \in DOMAIN x |-> x[o]]
    BY <1>1
  <2> QED BY <1>2, <2>1 DEF MemOK
<1>4. Usage(x) <= Usage(m)
  <2>1. PICK f, g : f = Lengths(m) /\ g = Lengths(x)
    OBVIOUS
  <2>2. DOMAIN f = DOMAIN m /\ Sized(f) /\ DOMAIN g = DOMAIN x
        /\ (\A o \in DOMAIN m : f[o] = Len(m[o])) /\ \A o \in DOMAIN x : g[o] = Len(x[o])
    BY <1>3, <2>1, UsageIs
  <2>3. DOMAIN g \subseteq DOMAIN f /\ \A o \in DOMAIN g : g[o] = f[o]
    BY <1>2, <2>2
  <2>4. Total(g) <= Total(f)
    BY <2>2, <2>3, TotalWithin
  <2> QED BY <2>1, <2>4 DEF Usage
<1> QED BY <1>2, <1>3, <1>4

(* ork_mm_free_held.                                                       *)
LEMMA FreeInv ==
    ASSUME PkInv, ork_mm_free_held
    PROVE  PkInv'
<1>1. PICK w : w = wt[1]
  OBVIOUS
<1>2. wt = <<w>>
  BY <1>1 DEF ork_mm_free_held, PkInv
<1>3. Owned(mem, limbo, <<w>>, kv) /\ MemOK(mem) /\ Usage(mem) <= ceil
  BY <1>2 DEF PkInv
<1>4. Range(Destroyed(w)) = Objects(w) /\ Own(<<w>>) = Objects(w)
  BY <1>3, OwnIs DEF Owned, HeldOK, Sound
<1>5. PICK x : x = Minus(mem, Objects(w))
  OBVIOUS
<1>6. /\ MemOK(x) /\ DOMAIN x = DOMAIN mem \ Objects(w) /\ \A o \in DOMAIN x : x[o] = mem[o]
      /\ Usage(x) <= Usage(mem)
  <2>1. PICK objs : objs = Objects(w)
    OBVIOUS
  <2>2. x = Minus(mem, objs)
    BY <1>5, <2>1
  <2>3. /\ MemOK(Minus(mem, objs)) /\ DOMAIN Minus(mem, objs) = DOMAIN mem \ objs
        /\ \A o \in DOMAIN mem \ objs : Minus(mem, objs)[o] = mem[o]
        /\ Usage(Minus(mem, objs)) <= Usage(mem)
    BY <1>3, MinusIs
  <2> QED BY <2>1, <2>2, <2>3
<1>7. mem' = x /\ wt' = <<>>
  BY <1>1, <1>4, <1>5 DEF ork_mm_free_held
<1>8. Owned(x, limbo, <<>>, kv)
  <2>1. /\ HeldOK(kv, mem) /\ Own(kv) \cap Objects(w) = {} /\ Objects(w) \cap limbo = {}
        /\ Own(kv) \cap limbo = {} /\ DOMAIN mem = limbo \cup Objects(w) \cup Own(kv)
    BY <1>3, <1>4 DEF Owned
  <2>2. DOMAIN x = limbo \cup Own(kv)
    BY <1>6, <2>1
  <2>3. HeldOK(kv, x)
    BY <1>6, <2>1, <2>2, HeldMoved
  <2> QED BY <2>1, <2>2, <2>3, OwnIs, NothingHeld DEF Owned
<1>9. Usage(x) <= ceil
  <2>1. Usage(x) \in Nat /\ Usage(mem) \in Nat
    BY <1>3, <1>6, UsageIs
  <2>2. ceil \in Nat
    BY DEF PkInv
  <2> QED BY <1>3, <1>6, <2>1, <2>2
<1> QED BY <1>6, <1>7, <1>8, <1>9 DEF ork_mm_free_held, PkInv, Usage

Kept(m, x) ==
    /\ MemOK(x) /\ Usage(x) <= ceil /\ DOMAIN m \subseteq DOMAIN x
    /\ \A o \in DOMAIN m : x[o] = m[o]

(* A good call keeps what was there.                                       *)
LEMMA GoodKeeps ==
    ASSUME NEW m, NEW r, MemOK(m), Usage(m) <= ceil, Good(r, m)
    PROVE  Kept(m, r.mem)
BY DEF Good, Grown, Kept

(* The resident pair.                                                      *)
LEMMA KvAllocInv ==
    ASSUME PkInv, ork_kv_resident_alloc
    PROVE  PkInv'
<1>1. /\ kv = <<>> /\ limbo = {} /\ MemOK(mem) /\ Usage(mem) <= ceil /\ views \in BOOLEAN
      /\ Owned(mem, {}, wt, <<>>)
  BY DEF ork_kv_resident_alloc, PkInv
<1>2. Shaped(KtShape) /\ Shaped(VShape)
  BY PackedAssumption
<1>3. PICK kt : kt = Packed(mem, KtShape, Filled(KtShape, 0))
  OBVIOUS
<1>4. Good(kt, mem) /\ (kt.w # <<>> => WellFormed(kt.w[1]))
  <2>1. PICK n, n1, n2 : /\ Slices(SlicesOf(KtShape, orki_int8_ks, NMAX[Here]), n)
                         /\ Slices(FullK(KtShape, NMAX[Here]), n2)
    BY <1>2, ShapesAre
  <2>2. /\ Good(kt, mem)
        /\ Builds(kt, KtShape, Filled(KtShape, 0),
                  TileSet(Elements(Filled(KtShape, 0)), SlicesOf(KtShape, orki_int8_ks, NMAX[Here])), n,
                  TileSet(Elements(Filled(KtShape, 0)), FullK(KtShape, NMAX[Here])), n2)
    BY <1>1, <1>2, <1>3, <2>1, PackedIs
  <2> QED BY <1>2, <2>2, BuiltIsFormed
<1>5. PICK m1 : m1 = kt.mem
  OBVIOUS
<1>6. Kept(mem, m1)
  BY <1>1, <1>4, <1>5, GoodKeeps
<1>7. PICK v : v = Packed(m1, VShape, Filled(VShape, 0))
  OBVIOUS
<1>8. Good(v, m1) /\ (v.w # <<>> => WellFormed(v.w[1]))
  <2>1. PICK n, n1, n2 : /\ Slices(SlicesOf(VShape, orki_int8_ks, NMAX[Here]), n)
                         /\ Slices(FullK(VShape, NMAX[Here]), n2)
    BY <1>2, ShapesAre
  <2>2. MemOK(m1) /\ Usage(m1) <= ceil
    BY <1>6 DEF Kept
  <2>3. /\ Good(v, m1)
        /\ Builds(v, VShape, Filled(VShape, 0),
                  TileSet(Elements(Filled(VShape, 0)), SlicesOf(VShape, orki_int8_ks, NMAX[Here])), n,
                  TileSet(Elements(Filled(VShape, 0)), FullK(VShape, NMAX[Here])), n2)
    BY <1>1, <1>2, <1>7, <2>1, <2>2, PackedIs
  <2> QED BY <1>2, <2>3, BuiltIsFormed
<1>9. PICK m2 : m2 = v.mem
  OBVIOUS
<1>10. Kept(m1, m2)
  BY <1>6, <1>8, <1>9, GoodKeeps DEF Kept
<1>11. Kept(mem, m2)
  BY <1>6, <1>10 DEF Kept
<1>12. HeldOK(wt, m2) /\ DOMAIN mem = Own(wt)
  <2>1. HeldOK(wt, mem) /\ DOMAIN mem = Own(wt)
    BY <1>1, OwnIs DEF Owned
  <2> QED BY <1>11, <2>1, HeldMoved DEF Kept
<1>13. /\ mem' = m2 /\ kv' = (IF kt.w = <<>> \/ v.w = <<>> THEN <<>> ELSE <<kt.w[1], v.w[1]>>)
       /\ limbo' = IF kv' = <<>> THEN limbo \cup (DOMAIN mem' \ DOMAIN mem) ELSE limbo
       /\ UNCHANGED <<wt, file, views, ceil, refused>>
  BY <1>3, <1>5, <1>7, <1>9 DEF ork_kv_resident_alloc
<1>14. CASE kt.w = <<>> \/ v.w = <<>>
  <2>1. kv' = <<>> /\ limbo' = DOMAIN m2 \ DOMAIN mem
    BY <1>1, <1>13, <1>14
  <2>2. Owned(m2, limbo', wt, <<>>)
    BY <1>11, <1>12, <2>1, OwnIs, NothingHeld DEF Owned, Kept
  <2> QED BY <1>11, <1>13, <2>1, <2>2 DEF PkInv, Usage, Kept
<1>15. CASE kt.w # <<>> /\ v.w # <<>>
  <2>1. PICK a, b : a = kt.w[1] /\ b = v.w[1]
    OBVIOUS
  <2>2. /\ kt.w = <<a>> /\ Sound(a, m1) /\ Grown(mem, m1, Objects(a)) /\ WellFormed(a)
        /\ v.w = <<b>> /\ Sound(b, m2) /\ Grown(m1, m2, Objects(b)) /\ WellFormed(b)
    BY <1>4, <1>5, <1>8, <1>9, <1>15, <2>1 DEF Good
  <2>3. kv' = <<a, b>>
    BY <1>13, <1>15, <2>1
  <2>4. <<a, b>> # <<>>
    OBVIOUS
  <2>5. limbo' = {}
    BY <1>1, <1>13, <2>3, <2>4
  <2>6. /\ DOMAIN m1 = DOMAIN mem \cup Objects(a) /\ DOMAIN m2 = DOMAIN m1 \cup Objects(b)
        /\ Objects(a) \cap DOMAIN mem = {} /\ Objects(b) \cap DOMAIN m1 = {}
    BY <2>2 DEF Grown
  <2>7. Sound(a, m2)
    <3>1. \A o \in Objects(a) : o \in DOMAIN m2 /\ Len(m2[o]) = Len(m1[o])
      BY <2>2, <2>6 DEF Grown
    <3> QED BY <2>2, <3>1, SoundMoved
  <2>8. HeldOK(<<a, b>>, m2)
    <3>1. Objects(a) \cap Objects(b) = {}
      BY <2>6
    <3>2. DOMAIN <<a, b>> = {1, 2} /\ <<a, b>>[1] = a /\ <<a, b>>[2] = b
      BY OwnIs
    <3>3. \A i \in DOMAIN <<a, b>> : Sound(<<a, b>>[i], m2) /\ WellFormed(<<a, b>>[i])
      BY <2>2, <2>7, <3>2
    <3>4. \A i, j \in {1, 2} : i # j => Objects(<<a, b>>[i]) \cap Objects(<<a, b>>[j]) = {}
      BY <3>1, <3>2
    <3> QED BY <3>2, <3>3, <3>4 DEF HeldOK
  <2>9. Own(<<a, b>>) = Objects(a) \cup Objects(b)
    BY OwnIs
  <2>10. Owned(m2, {}, wt, <<a, b>>)
    BY <1>12, <2>6, <2>8, <2>9 DEF Owned
  <2>11. kv' = <<kv'[1], kv'[2]>>
    BY <2>3
  <2> QED BY <1>11, <1>13, <2>3, <2>5, <2>10, <2>11 DEF PkInv, Usage, Kept
<1> QED BY <1>14, <1>15

(* ork_kv_append.                                                          *)
LEMMA KvAppendInv ==
    ASSUME PkInv, NEW key, NEW v, ork_kv_append(key, v)
    PROVE  PkInv'
<1>1. PICK kt, va : kt = kv[1] /\ va = kv[2]
  OBVIOUS
<1>2. kv = <<kt, va>>
  BY <1>1 DEF ork_kv_append, PkInv
<1>3. Owned(mem, limbo, wt, <<kt, va>>) /\ MemOK(mem) /\ Usage(mem) <= ceil
  BY <1>2 DEF PkInv
<1>4. /\ Sound(kt, mem) /\ WellFormed(kt) /\ Sound(va, mem) /\ WellFormed(va)
      /\ Objects(kt) \cap Objects(va) = {}
  <2>1. HeldOK(<<kt, va>>, mem)
    BY <1>3 DEF Owned
  <2>2. DOMAIN <<kt, va>> = {1, 2} /\ <<kt, va>>[1] = kt /\ <<kt, va>>[2] = va
    BY OwnIs
  <2>3. \A i \in {1, 2} : Sound(<<kt, va>>[i], mem) /\ WellFormed(<<kt, va>>[i])
    BY <2>1, <2>2 DEF HeldOK
  <2>4. \A i, j \in {1, 2} : i # j => Objects(<<kt, va>>[i]) \cap Objects(<<kt, va>>[j]) = {}
    BY <2>1, <2>2 DEF HeldOK
  <2> QED BY <2>2, <2>3, <2>4
<1>5. PICK B1, B2 : /\ B1 = [at \in DOMAIN kt.holds |->
                                 IF at[2] = key /\ at[1] < KvShape[3] THEN v ELSE kt.holds[at]]
                    /\ B2 = [at \in DOMAIN va.holds |-> IF at[1] = key THEN v ELSE va.holds[at]]
  OBVIOUS
<1>6. PICK x, y : x = [kt EXCEPT !.holds = B1] /\ y = [va EXCEPT !.holds = B2]
  OBVIOUS
<1>7. /\ Sound(x, mem) /\ WellFormed(x) /\ Objects(x) = Objects(kt)
      /\ Sound(y, mem) /\ WellFormed(y) /\ Objects(y) = Objects(va)
  <2>1. Sound(x, mem) /\ WellFormed(x) /\ Objects(x) = Objects(kt)
    BY <1>4, <1>6, HeldRenewed
  <2>2. Sound(y, mem) /\ WellFormed(y) /\ Objects(y) = Objects(va)
    BY <1>4, <1>6, HeldRenewed
  <2> QED BY <2>1, <2>2
<1>8. kv' = <<x, y>>
  BY <1>1, <1>5, <1>6 DEF ork_kv_append
<1>9. ASSUME NEW m, NEW b, NEW at, Alike(mem, m) PROVE Alike(mem, Written(m, b, at))
  <2>1. PICK bs, cs : bs = <<b>> /\ cs = <<at>>
    OBVIOUS
  <2>2. Alike(m, WrittenAll(m, bs, cs))
    BY <1>9, WrittenAlike DEF Alike
  <2> QED BY <1>9, <2>1, <2>2, AlikeTwice DEF Written
<1>10. Alike(mem, mem')
  <2>1. Alike(mem, mem)
    BY <1>3 DEF Alike
  <2>2. PICK col, ix : /\ col = [o \in {Spot(k, key, KvShape[1]) + 1 : k \in 0..(KvShape[3] - 1)} |->
                                   <<v, RowOf(o - 1, KvShape[1]), key>>]
                       /\ ix = (key \div orki_int8_ks) + 1
    OBVIOUS
  <2>3. PICK rows, lk : /\ rows = SlicesOf(VShape, orki_int8_ks, NMAX[Here])[ix].Kp
                        /\ lk = key - (ix - 1) * orki_int8_ks
    OBVIOUS
  <2>4. PICK r1, r2 : /\ r1 = [o \in {Spot(key, e, KvShape[2]) + 1 : e \in 0..(KvShape[3] - 1)} |->
                                  <<v, key, ColOf(o - 1, KvShape[2])>>]
                      /\ r2 = [o \in {Spot(lk, e, rows) + 1 : e \in 0..(KvShape[3] - 1)} |->
                                  <<v, key, ColOf(o - 1, rows)>>]
    OBVIOUS
  <2>5. PICK m1 : m1 = IF kt.Bf # <<>> THEN Written(mem, kt.Bf[1], col) ELSE mem
    OBVIOUS
  <2>6. PICK m2 : m2 = Written(m1, kt.Bb[1], col)
    OBVIOUS
  <2>7. PICK m3 : m3 = IF va.Bf # <<>> THEN Written(m2, va.Bf[1], r1) ELSE m2
    OBVIOUS
  <2>8. mem' = Written(m3, va.Bb[ix], r2)
    BY <1>1, <2>2, <2>3, <2>4, <2>5, <2>6, <2>7 DEF ork_kv_append
  <2>9. Alike(mem, m1)
    BY <1>9, <2>1, <2>5
  <2>10. Alike(mem, m2)
    BY <1>9, <2>6, <2>9
  <2>11. Alike(mem, m3)
    BY <1>9, <2>7, <2>10
  <2> QED BY <1>9, <2>8, <2>11
<1>11. Owned(mem', limbo, wt, <<x, y>>)
  <2>1. HeldOK(<<x, y>>, mem)
    <3>2. DOMAIN <<x, y>> = {1, 2} /\ <<x, y>>[1] = x /\ <<x, y>>[2] = y
      BY OwnIs
    <3>3. \A i \in DOMAIN <<x, y>> : Sound(<<x, y>>[i], mem) /\ WellFormed(<<x, y>>[i])
      BY <1>7, <3>2
    <3>4. \A i, j \in {1, 2} : i # j => Objects(<<x, y>>[i]) \cap Objects(<<x, y>>[j]) = {}
      BY <1>4, <1>7, <3>2
    <3> QED BY <3>2, <3>3, <3>4 DEF HeldOK
  <2>2. Own(<<x, y>>) = Own(<<kt, va>>)
    <3>1. Own(<<x, y>>) = Objects(x) \cup Objects(y)
      BY OwnIs
    <3>2. Own(<<kt, va>>) = Objects(kt) \cup Objects(va)
      BY OwnIs
    <3> QED BY <1>7, <3>1, <3>2
  <2>3. HeldOK(wt, mem)
    BY <1>3 DEF Owned
  <2> QED BY <1>3, <1>10, <2>1, <2>2, <2>3, OwnedAlike
<1>12. MemOK(mem') /\ (Usage(mem) <= ceil)'
  <2>1. PICK m2 : m2 = mem'
    OBVIOUS
  <2>2. Usage(m2) = Usage(mem)
    BY <1>10, <2>1, AlikeUsage
  <2>3. ceil' = ceil
    BY DEF ork_kv_append
  <2> QED BY <1>3, <1>10, <2>1, <2>2, <2>3 DEF Alike, Usage
<1>13. kv' = <<kv'[1], kv'[2]>>
  BY <1>8
<1> QED BY <1>8, <1>11, <1>12, <1>13 DEF ork_kv_append, PkInv

(* ork_kv_resident_free.                                                   *)
LEMMA KvFreeInv ==
    ASSUME PkInv, ork_kv_resident_free
    PROVE  PkInv'
<1>1. PICK kt, va : kt = kv[1] /\ va = kv[2]
  OBVIOUS
<1>2. kv = <<kt, va>>
  BY <1>1 DEF ork_kv_resident_free, PkInv
<1>3. Own(kv) = Objects(kt) \cup Objects(va)
  BY <1>2, OwnIs
<1>4. kv' = <<>> /\ limbo' = limbo \cup Own(kv) /\ UNCHANGED <<mem, wt, file, views, ceil, refused>>
  BY <1>1, <1>3 DEF ork_kv_resident_free
<1>5. Owned(mem, limbo, wt, kv)
  BY DEF PkInv
<1>6. Owned(mem, limbo', wt, <<>>)
  BY <1>4, <1>5, OwnIs, NothingHeld DEF Owned
<1> QED BY <1>4, <1>6 DEF PkInv, Usage

(* Every step keeps it.                                                    *)
LEMMA StepInv ==
    ASSUME PkInv, [PkNext]_pkVars
    PROVE  PkInv'
<1>1. CASE UNCHANGED pkVars
  BY <1>1 DEF pkVars, PkInv, Usage
<1>2. CASE \E sh \in Shapes, v \in Versions :
              \/ ork_i8_mm_pack(sh, v)
              \/ ork_i8_mm_pack_import(sh, v)
              \/ \E soc \in Socs : \/ OfflinePack(sh, v, soc)
                                   \/ \E st \in BOOLEAN : ork_i8_w_dump_cpu(sh, v, soc, st)
  BY <1>2, PackInv, PackImportInv, OfflinePackInv, DumpCpuInv
<1>3. CASE \E f \in file, sh \in Shapes :
              \/ \E full \in BOOLEAN : ork_i8_mm_load(f, sh, full)
              \/ \E soc \in Socs : OfflineLoad(f, sh, soc)
              \/ ork_i8_mm_load_import(f, sh)
              \/ ork_i8_mm_import(f, sh)
  BY <1>3, LoadInv, OfflineLoadInv, LoadImportInv, ImportInv
<1>4. CASE \E f \in file : Forget(f)
  BY <1>4, ForgetInv
<1>5. CASE ork_w_dump
  BY <1>5, DumpInv
<1>6. CASE ork_mm_free_held
  BY <1>6, FreeInv
<1>7. CASE \E v \in Refills : ork_i8_mm_repack(v)
  BY <1>7, RepackInv
<1>8. CASE ork_kv_resident_alloc
  BY <1>8, KvAllocInv
<1>9. CASE ork_kv_resident_free
  BY <1>9, KvFreeInv
<1>10. CASE \E key \in Keys, v \in Versions : ork_kv_append(key, v)
  BY <1>10, KvAppendInv
<1> QED BY <1>1, <1>2, <1>3, <1>4, <1>5, <1>6, <1>7, <1>8, <1>9, <1>10 DEF PkNext

(* BuffersExact for every value of the constants: whichever way weights    *)
(* are packed, loaded, imported, adopted, repacked and freed, each live    *)
(* object belongs to one of them, which destroys it once, or to limbo; a   *)
(* call that fails leaves nothing behind, and the window is never          *)
(* overdrawn.                                                              *)
THEOREM BuffersAreExact == PkSpec => []BuffersExact
<1>1. PkInit => PkInv
  BY InitInv
<1>2. PkInv /\ [PkNext]_pkVars => PkInv'
  BY StepInv
<1>3. PkInv => BuffersExact
  BY BuffersOfInv
<1> QED BY <1>1, <1>2, <1>3, PTL DEF PkSpec

-----------------------------------------------------------------------------
(* The address of an element in a tile.                                    *)

(* Quotient and remainder.                                                 *)
LEMMA DivIs ==
    ASSUME NEW k \in Nat \ {0}, NEW q \in Nat, NEW r \in 0..(k - 1)
    PROVE  (q * k + r) \div k = q /\ (q * k + r) % k = r
<1>1. PICK x, d : x = q * k + r /\ d = x \div k
  OBVIOUS
<1>2. q * k \in Nat /\ x \in Nat
  BY <1>1
<1>3. d \in Nat /\ k * d <= x /\ x < k * d + k
  BY <1>1, <1>2, Quotient
<1>4. k * d < k * q + k /\ k * q < k * d + k
  BY <1>1, <1>2, <1>3
<1>5. d <= q /\ q <= d
  BY <1>3, <1>4, QuotientBelow
<1>6. d = q
  BY <1>3, <1>5
<1>7. x % k = x - k * d
  BY <1>1, <1>2
<1> QED BY <1>1, <1>2, <1>6, <1>7

(* Element a, b of block c of block column d, in a tile of Q blocks a      *)
(* column.                                                                 *)
Addr(a, b, c, d, Q) == d * (Q * T * T) + c * (T * T) + b * T + a

(* What the parts of an address are.                                       *)
LEMMA AddrIs ==
    ASSUME NEW a \in 0..(T - 1), NEW b \in 0..(T - 1), NEW Q \in Nat \ {0}, NEW c \in 0..(Q - 1),
           NEW d \in Nat
    PROVE  /\ Addr(a, b, c, d, Q) \in Nat /\ (Q * T) \div T = Q /\ Q * T \in Nat
           /\ Addr(a, b, c, d, Q) % T = a /\ (Addr(a, b, c, d, Q) \div T) % T = b
           /\ (Addr(a, b, c, d, Q) \div (T * T)) % Q = c /\ Addr(a, b, c, d, Q) \div (Q * T * T) = d
           /\ Addr(a, b, c, d, Q) % (T * T) = b * T + a
<1>1. T \in Nat \ {0}
  BY Constants
<1>2. PICK TT, QT, QTT, p : TT = T * T /\ QT = Q * T /\ QTT = Q * TT /\ p = Addr(a, b, c, d, Q)
  OBVIOUS
<1>3. TT \in Nat \ {0} /\ QT \in Nat \ {0} /\ QTT \in Nat \ {0}
  BY <1>1, <1>2
<1>4. QTT = Q * T * T
  BY <1>1, <1>2
<1>5. PICK u, v, w : u = b * T + a /\ v = d * Q + c /\ w = v * T + b
  OBVIOUS
<1>6. u \in Nat /\ v \in Nat /\ w \in Nat
  <2>1. b * T \in Nat /\ d * Q \in Nat
    BY <1>1
  <2>2. v \in Nat
    BY <2>1, <1>5
  <2>3. v * T \in Nat
    BY <1>1, <2>2
  <2> QED BY <1>5, <2>1, <2>2, <2>3
<1>7. u < TT
  <2>1. (b + 1) * T <= T * T
    BY <1>1
  <2>2. b * T + T = (b + 1) * T
    BY <1>1
  <2> QED BY <1>1, <1>2, <1>5, <2>1, <2>2
<1>8. p = d * QTT + (c * TT + u) /\ p = v * TT + u /\ p = w * T + a
  <2>1. p = d * QTT + c * TT + b * T + a
    BY <1>2, <1>4 DEF Addr
  <2>2. d * QTT \in Nat /\ c * TT \in Nat /\ b * T \in Nat
    BY <1>1, <1>3
  <2>3. p = d * QTT + (c * TT + u)
    BY <1>5, <2>1, <2>2
  <2>4. v * TT = d * QTT + c * TT
    BY <1>2, <1>3, <1>5
  <2>5. p = v * TT + u
    BY <1>5, <1>6, <2>1, <2>2, <2>4
  <2>6. w * T = v * TT + b * T
    BY <1>1, <1>2, <1>5, <1>6
  <2> QED BY <1>5, <1>6, <2>2, <2>3, <2>5, <2>6, <1>3
<1>9. p \in Nat
  BY <1>1, <1>3, <1>6, <1>8
<1>10. p % T = a /\ p \div T = w
  BY <1>1, <1>6, <1>8, DivIs
<1>11. w % T = b
  BY <1>1, <1>5, <1>6, DivIs
<1>12. p \div TT = v /\ p % TT = u
  <2>1. u \in 0..(TT - 1)
    BY <1>3, <1>6, <1>7
  <2> QED BY <1>3, <1>6, <1>8, <2>1, DivIs
<1>13. v % Q = c
  BY <1>5, DivIs
<1>14. p \div QTT = d
  <2>1. c * TT + u \in 0..(QTT - 1)
    <3>1. (c + 1) * TT <= Q * TT
      BY <1>3
    <3>2. c * TT + TT = (c + 1) * TT /\ c * TT \in Nat
      BY <1>3
    <3> QED BY <1>2, <1>3, <1>6, <1>7, <3>1, <3>2
  <2> QED BY <1>3, <1>8, <2>1, DivIs
<1>15. QT \div T = Q
  <2>1. QT = Q * T + 0 /\ 0 \in 0..(T - 1)
    BY <1>1, <1>2
  <2> QED BY <1>1, <2>1, DivIs
<1> QED BY <1>2, <1>3, <1>4, <1>5, <1>9, <1>10, <1>11, <1>12, <1>13, <1>14, <1>15

(* Every element has an address.                                           *)
LEMMA AddrExists ==
    ASSUME NEW p \in Nat, NEW Q \in Nat \ {0}, NEW M \in Nat, p < M * (Q * T * T)
    PROVE  \E a, b \in 0..(T - 1), c \in 0..(Q - 1), d \in 0..(M - 1) : p = Addr(a, b, c, d, Q)
<1>1. T \in Nat \ {0}
  BY Constants
<1>2. PICK w, a : w = p \div T /\ a = p % T
  OBVIOUS
<1>3. w \in Nat /\ a \in 0..(T - 1) /\ p = w * T + a
  BY <1>1, <1>2, Quotient
<1>4. PICK v, b : v = w \div T /\ b = w % T
  OBVIOUS
<1>5. v \in Nat /\ b \in 0..(T - 1) /\ w = v * T + b
  BY <1>1, <1>3, <1>4, Quotient
<1>6. PICK d, c : d = v \div Q /\ c = v % Q
  OBVIOUS
<1>7. d \in Nat /\ c \in 0..(Q - 1) /\ v = d * Q + c
  BY <1>5, <1>6, Quotient
<1>8. PICK TT, QTT : TT = T * T /\ QTT = Q * T * T
  OBVIOUS
<1>9. TT \in Nat /\ QTT \in Nat \ {0} /\ QTT = Q * TT
  BY <1>1, <1>8
<1>10. p = d * QTT + c * TT + b * T + a
  <2>1. w * T = v * TT + b * T
    BY <1>1, <1>5, <1>8
  <2>2. v * TT = d * QTT + c * TT
    BY <1>7, <1>9
  <2>3. v * TT \in Nat /\ b * T \in Nat /\ d * QTT \in Nat /\ c * TT \in Nat
    BY <1>1, <1>5, <1>7, <1>9
  <2> QED BY <1>3, <2>1, <2>2, <2>3
<1>11. p = Addr(a, b, c, d, Q)
  BY <1>8, <1>10 DEF Addr
<1>12. d < M
  <2>1. d * QTT <= p
    <3>1. c * TT \in Nat /\ b * T \in Nat /\ d * QTT \in Nat
      BY <1>1, <1>5, <1>7, <1>9
    <3> QED BY <1>3, <1>10, <3>1
  <2>2. p < M * QTT
    BY <1>8
  <2>3. ~ (M <= d)
    <3>1. M <= d => M * QTT <= d * QTT
      BY <1>7, <1>9
    <3>2. M * QTT \in Nat /\ d * QTT \in Nat
      BY <1>7, <1>9
    <3> QED BY <2>1, <2>2, <3>1, <3>2
  <2> QED BY <1>7, <2>3
<1> QED BY <1>3, <1>5, <1>7, <1>11, <1>12

-----------------------------------------------------------------------------
(* Rows, columns and places of a tile are the same thing twice.            *)

(* A whole number of blocks.                                               *)
Blocks(n) == n \in Nat \ {0} /\ n % T = 0

(* Whole blocks are a number of blocks.                                    *)
LEMMA BlocksIs ==
    ASSUME NEW n, Blocks(n)
    PROVE  n \div T \in Nat \ {0} /\ n = (n \div T) * T
<1>1. T \in Nat \ {0} /\ n \in Nat \ {0} /\ n % T = 0
  BY Constants DEF Blocks
<1>2. PICK q : q = n \div T
  OBVIOUS
<1>3. q \in Nat /\ n = T * q
  BY <1>1, <1>2, Quotient
<1>4. q # 0 /\ T * q = q * T
  BY <1>1, <1>3
<1> QED BY <1>2, <1>3, <1>4

(* The element in row k, column n of a tile, and where it is.              *)
InTile(p, k, n, Kp, Nc) ==
    /\ p \in 0..(Kp * Nc - 1) /\ k \in 0..(Kp - 1) /\ n \in 0..(Nc - 1)
    /\ RowOf(p, Kp) = k /\ ColOf(p, Kp) = n /\ Spot(k, n, Kp) = p

(* An address is a row and a column.                                       *)
LEMMA AddrInTile ==
    ASSUME NEW Q \in Nat \ {0}, NEW M \in Nat \ {0}, NEW a \in 0..(T - 1), NEW b \in 0..(T - 1),
           NEW c \in 0..(Q - 1), NEW d \in 0..(M - 1)
    PROVE  InTile(Addr(a, b, c, d, Q), c * T + a, d * T + b, Q * T, M * T)
<1>1. T \in Nat \ {0} /\ d \in Nat
  BY Constants
<1>2. PICK p, k, n : p = Addr(a, b, c, d, Q) /\ k = c * T + a /\ n = d * T + b
  OBVIOUS
<1>3. /\ p \in Nat /\ (Q * T) \div T = Q /\ Q * T \in Nat
      /\ p % T = a /\ (p \div T) % T = b
      /\ (p \div (T * T)) % Q = c /\ p \div (Q * T * T) = d
  BY <1>1, <1>2, AddrIs
<1>4. c * T \in Nat /\ d * T \in Nat /\ Q * T \in Nat /\ M * T \in Nat
  BY <1>1
<1>5. k \in 0..(Q * T - 1) /\ n \in 0..(M * T - 1)
  <2>1. (c + 1) * T <= Q * T /\ (d + 1) * T <= M * T
    BY <1>1
  <2>2. (c + 1) * T = c * T + T /\ (d + 1) * T = d * T + T
    BY <1>1
  <2> QED BY <1>1, <1>2, <1>4, <2>1, <2>2
<1>6. k \div T = c /\ k % T = a /\ n \div T = d /\ n % T = b
  <2>1. c \in Nat /\ k = c * T + a /\ n = d * T + b
    BY <1>2
  <2>2. k \div T = c /\ k % T = a
    BY <1>1, <2>1, DivIs
  <2> QED BY <1>1, <2>1, <2>2, DivIs
<1>7. RowOf(p, Q * T) = k /\ ColOf(p, Q * T) = n
  BY <1>2, <1>3 DEF RowOf, ColOf
<1>8. Spot(k, n, Q * T) = p
  BY <1>2, <1>3, <1>6 DEF Spot, Addr
<1>9. p < (Q * T) * (M * T)
  <2>1. PICK QTT, TT : TT = T * T /\ QTT = Q * T * T
    OBVIOUS
  <2>2. TT \in Nat /\ QTT \in Nat /\ QTT = Q * TT
    BY <1>1, <2>1
  <2>3. (Q * T) * (M * T) = M * QTT
    BY <1>1, <2>1
  <2>4. p = d * QTT + c * TT + b * T + a
    BY <1>2, <2>1 DEF Addr
  <2>5. (d + 1) * QTT <= M * QTT /\ (d + 1) * QTT = d * QTT + QTT
    BY <1>1, <2>2
  <2>6. (c + 1) * TT <= Q * TT /\ (c + 1) * TT = c * TT + TT
    BY <1>1, <2>2
  <2>7. (b + 1) * T <= TT /\ (b + 1) * T = b * T + T
    BY <1>1, <2>1
  <2>8. d * QTT \in Nat /\ c * TT \in Nat /\ b * T \in Nat /\ M * QTT \in Nat
    BY <1>1, <2>2
  <2> QED BY <1>1, <2>2, <2>3, <2>4, <2>5, <2>6, <2>7, <2>8
<1>10. p \in 0..((Q * T) * (M * T) - 1)
  <2>1. PICK z : z = (Q * T) * (M * T)
    OBVIOUS
  <2>2. z \in Nat
    BY <1>4, <2>1
  <2> QED BY <1>3, <1>9, <2>1, <2>2
<1> QED BY <1>2, <1>5, <1>7, <1>8, <1>10 DEF InTile

(* Spot, RowOf and ColOf: from row and column.                             *)
LEMMA SpotIs ==
    ASSUME NEW Kp, NEW Nc, Blocks(Kp), Blocks(Nc), NEW k \in 0..(Kp - 1), NEW n \in 0..(Nc - 1)
    PROVE  InTile(Spot(k, n, Kp), k, n, Kp, Nc)
<1>1. PICK Q, M : Q = Kp \div T /\ M = Nc \div T
  OBVIOUS
<1>2. Q \in Nat \ {0} /\ Kp = Q * T /\ M \in Nat \ {0} /\ Nc = M * T /\ T \in Nat \ {0}
  BY <1>1, BlocksIs, Constants
<1>3. PICK a, c : a = k % T /\ c = k \div T
  OBVIOUS
<1>4. a \in 0..(T - 1) /\ c \in Nat /\ k = c * T + a /\ k < Q * T
  <2>1. k \in Nat /\ k < Q * T
    BY <1>2
  <2> QED BY <1>2, <1>3, <2>1, Quotient
<1>5. PICK b, d : b = n % T /\ d = n \div T
  OBVIOUS
<1>6. b \in 0..(T - 1) /\ d \in Nat /\ n = d * T + b /\ n < M * T
  <2>1. n \in Nat /\ n < M * T
    BY <1>2
  <2> QED BY <1>2, <1>5, <2>1, Quotient
<1>7. \A x, y \in Nat : x * T < y * T => x < y
  <2>1. ASSUME NEW x \in Nat, NEW y \in Nat, x * T < y * T PROVE x < y
    <3>1. y <= x => y * T <= x * T
      BY <1>2
    <3>2. x * T \in Nat /\ y * T \in Nat
      BY <1>2
    <3> QED BY <2>1, <3>1, <3>2
  <2> QED BY <2>1
<1>8. c < Q /\ d < M
  <2>1. c * T \in Nat /\ d * T \in Nat /\ Q * T \in Nat /\ M * T \in Nat
    BY <1>2, <1>4, <1>6
  <2>2. c * T < Q * T /\ d * T < M * T
    BY <1>4, <1>6, <2>1
  <2> QED BY <1>2, <1>4, <1>6, <1>7, <2>2
<1>9. c \in 0..(Q - 1) /\ d \in 0..(M - 1)
  BY <1>2, <1>4, <1>6, <1>8
<1>10. PICK p : p = Addr(a, b, c, d, Q)
  OBVIOUS
<1>11. InTile(p, k, n, Kp, Nc)
  <2>1. InTile(Addr(a, b, c, d, Q), c * T + a, d * T + b, Q * T, M * T)
    BY <1>2, <1>4, <1>6, <1>9, AddrInTile
  <2> QED BY <1>2, <1>4, <1>6, <1>10, <2>1
<1> QED BY <1>11 DEF InTile

(* And from the place.                                                     *)
LEMMA PlaceIs ==
    ASSUME NEW Kp, NEW Nc, Blocks(Kp), Blocks(Nc), NEW p \in 0..(Kp * Nc - 1)
    PROVE  InTile(p, RowOf(p, Kp), ColOf(p, Kp), Kp, Nc)
<1>1. PICK Q, M : Q = Kp \div T /\ M = Nc \div T
  OBVIOUS
<1>2. Q \in Nat \ {0} /\ Kp = Q * T /\ M \in Nat \ {0} /\ Nc = M * T /\ T \in Nat \ {0}
  BY <1>1, BlocksIs, Constants
<1>3. Kp * Nc = M * (Q * T * T) /\ Kp * Nc \in Nat
  BY <1>2
<1>4. p \in Nat /\ p < M * (Q * T * T)
  <2>1. PICK z : z = Kp * Nc
    OBVIOUS
  <2>2. z \in Nat /\ p \in 0..(z - 1) /\ z = M * (Q * T * T)
    BY <1>3, <2>1
  <2> QED BY <2>2
<1>5. PICK a \in 0..(T - 1), b \in 0..(T - 1), c \in 0..(Q - 1), d \in 0..(M - 1) : p = Addr(a, b, c, d, Q)
  <2>1. \E a, b \in 0..(T - 1), c \in 0..(Q - 1), d \in 0..(M - 1) : p = Addr(a, b, c, d, Q)
    BY <1>2, <1>4, AddrExists
  <2> QED BY <2>1
<1>6. InTile(p, c * T + a, d * T + b, Kp, Nc)
  <2>1. InTile(Addr(a, b, c, d, Q), c * T + a, d * T + b, Q * T, M * T)
    BY <1>2, AddrInTile
  <2> QED BY <1>2, <1>5, <2>1
<1> QED BY <1>6 DEF InTile

-----------------------------------------------------------------------------
(* The slices cover the matrix.                                            *)

(* What is left of whole blocks is whole blocks.                           *)
LEMMA BlocksRest ==
    ASSUME NEW a, NEW b, Blocks(a), Blocks(b), NEW q \in Nat, a - q * b > 0
    PROVE  Blocks(a - q * b) /\ Blocks(Lesser(a - q * b, b))
<1>1. PICK x, y : x = a \div T /\ y = b \div T
  OBVIOUS
<1>2. x \in Nat \ {0} /\ a = x * T /\ y \in Nat \ {0} /\ b = y * T /\ T \in Nat \ {0}
  BY <1>1, BlocksIs, Constants
<1>3. PICK z, r : z = x - q * y /\ r = a - q * b
  OBVIOUS
<1>4. z \in Int /\ r \in Nat \ {0} /\ r = z * T
  <2>1. q * b = (q * y) * T /\ q * b \in Nat /\ q * y \in Nat
    BY <1>2
  <2>2. (x - q * y) * T = x * T - (q * y) * T
    BY <1>2, <2>1
  <2> QED BY <1>2, <1>3, <2>1, <2>2
<1>5. z \in Nat
  <2>1. z < 0 => z * T <= 0
    BY <1>2, <1>4
  <2> QED BY <1>4, <2>1
<1>6. r % T = 0
  <2>1. r = z * T + 0 /\ 0 \in 0..(T - 1)
    BY <1>2, <1>4
  <2> QED BY <1>2, <1>5, <2>1, DivIs
<1>7. Blocks(r)
  BY <1>4, <1>6 DEF Blocks
<1> QED BY <1>3, <1>7 DEF Lesser

(* A slice of a matrix: whole blocks, inside it.                           *)
IsSlice(s, sh) ==
    /\ Blocks(s.Kp) /\ Blocks(s.Nc) /\ s.k0 \in Nat /\ s.n0 \in Nat
    /\ s.k0 + s.Kp <= sh[1] /\ s.n0 + s.Nc <= sh[2] /\ s.Kp * s.Nc \in Nat \ {0}

(* The number of its slices.                                               *)
SlicesIn(sh, ks, nmax) == CeilDiv(sh[1], ks) * CeilDiv(sh[2], nmax)

(* Every slice lies in the matrix.                                         *)
LEMMA SlicesFit ==
    ASSUME NEW sh, Shaped(sh), NEW ks, NEW nmax, Blocks(ks), Blocks(nmax),
           NEW n, Slices(SlicesOf(sh, ks, nmax), n)
    PROVE  /\ n = SlicesIn(sh, ks, nmax) /\ n \in Nat \ {0}
           /\ CeilDiv(sh[1], ks) \in Nat \ {0} /\ CeilDiv(sh[2], nmax) \in Nat \ {0}
           /\ \A i \in 1..n : IsSlice(SlicesOf(sh, ks, nmax)[i], sh)
<1>1. /\ sh[1] \in Nat \ {0} /\ sh[2] \in Nat \ {0} /\ Blocks(sh[1]) /\ Blocks(sh[2])
      /\ ks \in Nat \ {0} /\ nmax \in Nat \ {0}
  BY DEF Shaped, Blocks
<1>2. PICK sl, Sk, Sn, k : /\ sl = SlicesOf(sh, ks, nmax) /\ Sk = CeilDiv(sh[1], ks)
                           /\ Sn = CeilDiv(sh[2], nmax) /\ k = Sk * CeilDiv(sh[2], nmax)
  OBVIOUS
<1>3. Sk \in Nat \ {0} /\ k \in Nat \ {0} /\ Row(sl, k)
  BY <1>1, <1>2, SlicesAre
<1>4. Sn \in Nat \ {0}
  BY <1>1, <1>2, Pieces
<1>5. n = k
  <2>1. Len(sl) = n /\ Len(sl) = k
    BY <1>2, <1>3, RowIs DEF Slices
  <2> QED BY <2>1
<1>6. ASSUME NEW i \in 1..n PROVE IsSlice(sl[i], sh)
  <2>1. PICK s, kq, nq : s = sl[i] /\ kq = (i - 1) % Sk /\ nq = (i - 1) \div Sk
    OBVIOUS
  <2>2. /\ kq \in Nat /\ nq \in Nat /\ s.k0 = kq * ks /\ s.n0 = nq * nmax
        /\ s.Kp = Lesser(sh[1] - kq * ks, ks) /\ s.Nc = Lesser(sh[2] - nq * nmax, nmax)
        /\ s.k0 \in Nat /\ s.n0 \in Nat /\ s.Kp * s.Nc \in Nat \ {0}
        /\ s.Kp \in Nat \ {0} /\ s.Nc \in Nat \ {0}
        /\ s.k0 + s.Kp <= sh[1] /\ s.n0 + s.Nc <= sh[2]
    BY <1>1, <1>2, <1>5, <2>1, SlicesAre
  <2>3. sh[1] - kq * ks > 0 /\ sh[2] - nq * nmax > 0
    BY <1>1, <2>2
  <2>4. Blocks(s.Kp) /\ Blocks(s.Nc)
    BY <1>1, <2>2, <2>3, BlocksRest
  <2> QED BY <2>1, <2>2, <2>4 DEF IsSlice
<1> QED BY <1>2, <1>3, <1>4, <1>5, <1>6 DEF SlicesIn

(* Slice kq along K and nq along N.                                        *)
SliceAt(s, sh, ks, nmax, kq, nq) ==
    /\ s.k0 = kq * ks /\ s.n0 = nq * nmax
    /\ s.Kp = Lesser(sh[1] - kq * ks, ks) /\ s.Nc = Lesser(sh[2] - nq * nmax, nmax)

(* Slice i is where its number says.                                       *)
LEMMA SlicesAt ==
    ASSUME NEW sh, sh[1] \in Nat \ {0}, sh[2] \in Nat \ {0},
           NEW ks \in Nat \ {0}, NEW nmax \in Nat \ {0},
           NEW Sk, Sk = CeilDiv(sh[1], ks), NEW n, n = Sk * CeilDiv(sh[2], nmax), NEW i \in 1..n
    PROVE  SliceAt(SlicesOf(sh, ks, nmax)[i], sh, ks, nmax, (i - 1) % Sk, (i - 1) \div Sk)
<1>1. n \in Nat
  BY SlicesAre
<1>2. PICK f : f = [j \in 1..n |->
            [k0 |-> ((j - 1) % Sk) * ks, n0 |-> ((j - 1) \div Sk) * nmax,
             Kp |-> Lesser(sh[1] - ((j - 1) % Sk) * ks, ks),
             Nc |-> Lesser(sh[2] - ((j - 1) \div Sk) * nmax, nmax)]]
  OBVIOUS
<1>3. Row(f, n)
  BY <1>1, <1>2 DEF Row
<1>4. SlicesOf(sh, ks, nmax) = f
  <2>1. SlicesOf(sh, ks, nmax) = AsSeq(f)
    BY <1>2 DEF SlicesOf
  <2> QED BY <1>3, <2>1, RowIs
<1>5. PICK s : s = f[i]
  OBVIOUS
<1>6. PICK kq, nq : kq = (i - 1) % Sk /\ nq = (i - 1) \div Sk
  OBVIOUS
<1>7. s = [k0 |-> kq * ks, n0 |-> nq * nmax,
           Kp |-> Lesser(sh[1] - kq * ks, ks), Nc |-> Lesser(sh[2] - nq * nmax, nmax)]
  BY <1>2, <1>5, <1>6
<1>8. SliceAt(s, sh, ks, nmax, kq, nq)
  BY <1>7 DEF SliceAt
<1> QED BY <1>4, <1>5, <1>6, <1>8

(* The slice with number kq along K and nq along N.                        *)
LEMMA SliceIs ==
    ASSUME NEW sh, Shaped(sh), NEW ks, NEW nmax, Blocks(ks), Blocks(nmax),
           NEW n, Slices(SlicesOf(sh, ks, nmax), n),
           NEW kq \in Nat, kq < CeilDiv(sh[1], ks), NEW nq \in Nat, nq < CeilDiv(sh[2], nmax)
    PROVE  /\ nq * CeilDiv(sh[1], ks) + kq + 1 \in 1..n
           /\ SliceAt(SlicesOf(sh, ks, nmax)[nq * CeilDiv(sh[1], ks) + kq + 1], sh, ks, nmax, kq, nq)
<1>1. /\ sh[1] \in Nat \ {0} /\ sh[2] \in Nat \ {0}
      /\ ks \in Nat \ {0} /\ nmax \in Nat \ {0}
  BY DEF Shaped, Blocks
<1>2. PICK sl, Sk, Sn, i : /\ sl = SlicesOf(sh, ks, nmax) /\ Sk = CeilDiv(sh[1], ks)
                           /\ Sn = CeilDiv(sh[2], nmax) /\ i = nq * CeilDiv(sh[1], ks) + kq + 1
  OBVIOUS
<1>3. Sk \in Nat \ {0} /\ Sn \in Nat \ {0} /\ n = Sk * Sn /\ kq < Sk /\ nq < Sn
  BY <1>2, SlicesFit DEF SlicesIn
<1>4. nq * Sk \in Nat /\ i = nq * Sk + kq + 1
  BY <1>2, <1>3
<1>5. i \in 1..n
  <2>1. (nq + 1) * Sk <= Sn * Sk
    BY <1>3
  <2>2. (nq + 1) * Sk = nq * Sk + Sk /\ Sn * Sk = n /\ n \in Nat
    BY <1>3
  <2> QED BY <1>3, <1>4, <2>1, <2>2
<1>6. (i - 1) % Sk = kq /\ (i - 1) \div Sk = nq
  <2>1. i - 1 = nq * Sk + kq /\ kq \in 0..(Sk - 1)
    BY <1>3, <1>4
  <2> QED BY <1>3, <2>1, DivIs
<1>7. SliceAt(sl[i], sh, ks, nmax, kq, nq)
  BY <1>1, <1>2, <1>3, <1>5, <1>6, SlicesAt
<1> QED BY <1>2, <1>5, <1>7

(* Row or column a is in the piece a falls into.                           *)
LEMMA PieceOf ==
    ASSUME NEW a \in Nat \ {0}, NEW b \in Nat \ {0}, NEW x \in 0..(a - 1)
    PROVE  /\ x \div b \in Nat /\ x \div b < CeilDiv(a, b)
           /\ x - (x \div b) * b \in 0..(Lesser(a - (x \div b) * b, b) - 1)
<1>1. PICK q : q = x \div b
  OBVIOUS
<1>2. q \in Nat /\ b * q <= x /\ x < b * q + b
  BY <1>1, Quotient
<1>3. PICK d : d = CeilDiv(a, b)
  OBVIOUS
<1>4. d \in Nat \ {0} /\ b * d >= a
  BY <1>3, Pieces
<1>5. q < d
  <2>1. d <= q => b * d <= b * q
    BY <1>2, <1>4
  <2>2. b * d \in Nat /\ b * q \in Nat
    BY <1>2, <1>4
  <2> QED BY <1>2, <1>4, <2>1, <2>2
<1>6. q * b = b * q /\ b * q \in Nat
  BY <1>2
<1>7. x - q * b \in 0..(Lesser(a - q * b, b) - 1)
  BY <1>2, <1>6 DEF Lesser
<1> QED BY <1>1, <1>2, <1>3, <1>5, <1>7

(* Each place is in the slice its row and column fall into.                *)
LEMMA SliceOf ==
    ASSUME NEW sh, Shaped(sh), NEW ks, NEW nmax, Blocks(ks), Blocks(nmax),
           NEW n, Slices(SlicesOf(sh, ks, nmax), n), NEW at \in Places(sh),
           NEW i, i = (at[2] \div nmax) * CeilDiv(sh[1], ks) + (at[1] \div ks) + 1,
           NEW s, s = SlicesOf(sh, ks, nmax)[i]
    PROVE  /\ i \in 1..n /\ at[1] - s.k0 \in 0..(s.Kp - 1) /\ at[2] - s.n0 \in 0..(s.Nc - 1)
           /\ at = <<at[1], at[2]>> /\ at[1] \in Nat /\ at[2] \in Nat
<1>1. /\ sh[1] \in Nat \ {0} /\ sh[2] \in Nat \ {0}
      /\ ks \in Nat \ {0} /\ nmax \in Nat \ {0}
  BY DEF Shaped, Blocks
<1>2. at = <<at[1], at[2]>> /\ at[1] \in 0..(sh[1] - 1) /\ at[2] \in 0..(sh[2] - 1)
  BY DEF Places
<1>3. PICK kq, nq : kq = at[1] \div ks /\ nq = at[2] \div nmax
  OBVIOUS
<1>4. /\ kq \in Nat /\ kq < CeilDiv(sh[1], ks)
      /\ at[1] - kq * ks \in 0..(Lesser(sh[1] - kq * ks, ks) - 1)
  BY <1>1, <1>2, <1>3, PieceOf
<1>5. /\ nq \in Nat /\ nq < CeilDiv(sh[2], nmax)
      /\ at[2] - nq * nmax \in 0..(Lesser(sh[2] - nq * nmax, nmax) - 1)
  BY <1>1, <1>2, <1>3, PieceOf
<1>6. i = nq * CeilDiv(sh[1], ks) + kq + 1
  BY <1>3
<1>7. /\ i \in 1..n /\ s.k0 = kq * ks /\ s.n0 = nq * nmax
      /\ s.Kp = Lesser(sh[1] - kq * ks, ks) /\ s.Nc = Lesser(sh[2] - nq * nmax, nmax)
  BY <1>4, <1>5, <1>6, SliceIs DEF SliceAt
<1>8. at[1] \in Nat /\ at[2] \in Nat
  BY <1>1, <1>2
<1> QED BY <1>2, <1>4, <1>5, <1>7, <1>8

-----------------------------------------------------------------------------
(* Tiles hold the elements of a matrix.                                    *)

(* The element of E at place o of its slice s, and tiles c that hold the   *)
(* slices sl of E.                                                         *)
Cell(E, s, o) == E[<<s.k0 + RowOf(o - 1, s.Kp), s.n0 + ColOf(o - 1, s.Kp)>>]

TileHolds(t, s, E) ==
    /\ Len(t) = PgUp(s.Kp * s.Nc) /\ s.Kp * s.Nc <= Len(t)
    /\ \A o \in 1..(s.Kp * s.Nc) : t[o] = Cell(E, s, o)

TilesHold(c, sl, n, E) == \A i \in 1..n : TileHolds(c[i], sl[i], E)

(* A padded tile holds its slice.                                          *)
LEMMA TileHolding ==
    ASSUME NEW E, NEW s, s.Kp * s.Nc \in Nat
    PROVE  TileHolds(Padded(Tiled(E, s)), s, E)
<1>1. PICK t, k, p : t = Tiled(E, s) /\ k = s.Kp * s.Nc /\ p = Padded(t)
  OBVIOUS
<1>2. Row(t, k) /\ k \in Nat
  BY <1>1, TiledIs
<1>3. Len(p) = PgUp(k) /\ k <= PgUp(k) /\ \A o \in 1..k : p[o] = t[o]
  BY <1>1, <1>2, PaddedIs
<1>4. \A o \in 1..k : t[o] = Cell(E, s, o)
  BY <1>1, TiledIs DEF Cell
<1> QED BY <1>1, <1>3, <1>4 DEF TileHolds

(* TileSet holds every slice.                                              *)
LEMMA TileSetHolds ==
    ASSUME NEW E, NEW sl, NEW n, Slices(sl, n)
    PROVE  TilesHold(TileSet(E, sl), sl, n, E)
<1>1. n \in Nat \ {0} /\ Row(sl, n) /\ DOMAIN sl = 1..n
  BY RowIs DEF Slices
<1>2. PICK f : f = [i \in 1..n |-> Padded(Tiled(E, sl[i]))]
  OBVIOUS
<1>3. Row(f, n)
  BY <1>1, <1>2 DEF Row
<1>4. TileSet(E, sl) = f
  BY <1>1, <1>2, <1>3, RowIs DEF TileSet
<1>5. ASSUME NEW i \in 1..n PROVE TileHolds(f[i], sl[i], E)
  <2>1. PICK s : s = sl[i]
    OBVIOUS
  <2>2. s.Kp * s.Nc \in Nat
    BY <2>1 DEF Slices
  <2> QED BY <1>2, <2>1, <2>2, TileHolding
<1> QED BY <1>4, <1>5 DEF TilesHold

(* The cell of row r and column q of a slice.                              *)
LEMMA CellOf ==
    ASSUME NEW E, NEW s, NEW sh, IsSlice(s, sh), NEW r \in 0..(s.Kp - 1), NEW q \in 0..(s.Nc - 1),
           NEW o, o = Spot(r, q, s.Kp) + 1
    PROVE  o \in 1..(s.Kp * s.Nc) /\ Cell(E, s, o) = E[<<s.k0 + r, s.n0 + q>>]
<1>1. Blocks(s.Kp) /\ Blocks(s.Nc)
  BY DEF IsSlice
<1>2. PICK z, p : z = s.Kp * s.Nc /\ p = Spot(r, q, s.Kp)
  OBVIOUS
<1>3. z \in Nat \ {0}
  BY <1>2 DEF IsSlice
<1>4. InTile(p, r, q, s.Kp, s.Nc)
  BY <1>1, <1>2, SpotIs
<1>5. p \in 0..(z - 1) /\ RowOf(p, s.Kp) = r /\ ColOf(p, s.Kp) = q
  BY <1>2, <1>4 DEF InTile
<1>6. o \in 1..z /\ o - 1 = p
  BY <1>2, <1>3, <1>5
<1> QED BY <1>2, <1>5, <1>6 DEF Cell

(* orki_i8_untile_blob undoes the tiling.                                  *)
LEMMA UntiledIs ==
    ASSUME NEW sh, Shaped(sh), NEW soc \in Socs, NEW body, NEW E, E = [at \in Places(sh) |-> E[at]],
           NEW n, Slices(SlicesOf(sh, orki_int8_ks, NMAX[soc]), n),
           TilesHold(Cut(body, TileSizes(sh, orki_int8_ks, NMAX[soc])),
                     SlicesOf(sh, orki_int8_ks, NMAX[soc]), n, E)
    PROVE  Untiled(body, sh, NMAX[soc]) = E
<1>1. PICK ks, nmax : ks = orki_int8_ks /\ nmax = NMAX[soc]
  OBVIOUS
<1>2. Blocks(ks) /\ Blocks(nmax)
  BY <1>1, Constants, PackedAssumption DEF Blocks
<1>3. PICK sl, c, Sk : /\ sl = SlicesOf(sh, ks, nmax) /\ c = Cut(body, TileSizes(sh, ks, nmax))
                       /\ Sk = CeilDiv(sh[1], ks)
  OBVIOUS
<1>4. TilesHold(c, sl, n, E) /\ Slices(sl, n)
  BY <1>1, <1>3
<1>5. PICK u : u = Untiled(body, sh, NMAX[soc])
  OBVIOUS
<1>6. u = [at \in Places(sh) |->
             c[(at[2] \div nmax) * Sk + (at[1] \div ks) + 1]
              [Spot(at[1] - sl[(at[2] \div nmax) * Sk + (at[1] \div ks) + 1].k0,
                    at[2] - sl[(at[2] \div nmax) * Sk + (at[1] \div ks) + 1].n0,
                    sl[(at[2] \div nmax) * Sk + (at[1] \div ks) + 1].Kp) + 1]]
  BY <1>1, <1>3, <1>5 DEF Untiled
<1>7. ASSUME NEW at \in Places(sh) PROVE u[at] = E[at]
  <2>1. PICK i : i = (at[2] \div nmax) * Sk + (at[1] \div ks) + 1
    OBVIOUS
  <2>2. PICK s : s = sl[i]
    OBVIOUS
  <2>3. PICK r, q : r = at[1] - s.k0 /\ q = at[2] - s.n0
    OBVIOUS
  <2>4. /\ i \in 1..n /\ r \in 0..(s.Kp - 1) /\ q \in 0..(s.Nc - 1)
        /\ at = <<at[1], at[2]>> /\ at[1] \in Nat /\ at[2] \in Nat
    <3>1. i = (at[2] \div nmax) * CeilDiv(sh[1], ks) + (at[1] \div ks) + 1
      BY <1>3, <2>1
    <3>2. s = SlicesOf(sh, ks, nmax)[i] /\ Slices(SlicesOf(sh, ks, nmax), n)
      BY <1>3, <1>4, <2>2
    <3> QED BY <1>2, <2>3, <3>1, <3>2, SliceOf
  <2>5. IsSlice(s, sh)
    BY <1>2, <1>3, <1>4, <2>2, <2>4, SlicesFit
  <2>6. PICK o : o = Spot(r, q, s.Kp) + 1
    OBVIOUS
  <2>7. o \in 1..(s.Kp * s.Nc) /\ Cell(E, s, o) = E[<<s.k0 + r, s.n0 + q>>]
    BY <2>4, <2>5, <2>6, CellOf
  <2>8. u[at] = c[i][o]
    BY <1>6, <2>1, <2>2, <2>3, <2>6
  <2>9. c[i][o] = Cell(E, s, o)
    <3>1. TileHolds(c[i], s, E)
      BY <1>4, <2>2, <2>4 DEF TilesHold
    <3> QED BY <2>7, <3>1 DEF TileHolds
  <2>10. s.k0 + r = at[1] /\ s.n0 + q = at[2]
    BY <2>3, <2>4, <2>5 DEF IsSlice
  <2> QED BY <2>4, <2>7, <2>8, <2>9, <2>10
<1>8. u = [at \in Places(sh) |-> u[at]]
  BY <1>6
<1> QED BY <1>5, <1>7, <1>8

-----------------------------------------------------------------------------
(* Block rows of the full copy.                                            *)

(* The slices over the full K, one for each N-slice.                       *)
LEMMA FullAt ==
    ASSUME NEW sh, Shaped(sh), NEW nmax, Blocks(nmax), NEW n, Slices(FullK(sh, nmax), n), NEW j \in 1..n
    PROVE  /\ SliceAt(FullK(sh, nmax)[j], sh, sh[1], nmax, 0, j - 1)
           /\ j - 1 \in Nat /\ j - 1 < CeilDiv(sh[2], nmax) /\ n = CeilDiv(sh[2], nmax)
           /\ IsSlice(FullK(sh, nmax)[j], sh) /\ FullK(sh, nmax)[j].Kp = sh[1]
<1>1. sh[1] \in Nat \ {0} /\ sh[2] \in Nat \ {0} /\ nmax \in Nat \ {0} /\ Blocks(sh[1])
  BY DEF Shaped, Blocks
<1>2. PICK k, a : k = CeilDiv(sh[2], nmax) /\ a = sh[1]
  OBVIOUS
<1>3. k \in Nat \ {0} /\ a \in Nat \ {0}
  BY <1>1, <1>2, Pieces
<1>4. CeilDiv(a, a) = 1
  <2>1. a + a - 1 = 1 * a + (a - 1) /\ a - 1 \in 0..(a - 1)
    BY <1>3
  <2>2. (1 * a + (a - 1)) \div a = 1
    BY <1>3, <2>1, DivIs
  <2> QED BY <2>1, <2>2 DEF CeilDiv
<1>5. Slices(SlicesOf(sh, sh[1], nmax), n)
  BY DEF FullK
<1>6. n = SlicesIn(sh, sh[1], nmax) /\ IsSlice(SlicesOf(sh, sh[1], nmax)[j], sh)
  BY <1>1, <1>5, SlicesFit
<1>7. n = k
  BY <1>2, <1>3, <1>4, <1>6 DEF SlicesIn
<1>8. j - 1 \in Nat /\ j - 1 < k
  BY <1>3, <1>7
<1>9. SliceAt(SlicesOf(sh, sh[1], nmax)[j], sh, sh[1], nmax, (j - 1) % 1, (j - 1) \div 1)
  <2>1. 1 = CeilDiv(sh[1], sh[1]) /\ n = 1 * CeilDiv(sh[2], nmax)
    BY <1>2, <1>3, <1>4, <1>7
  <2> QED BY <1>1, <2>1, SlicesAt
<1>10. (j - 1) % 1 = 0 /\ (j - 1) \div 1 = j - 1
  BY <1>8
<1>11. SliceAt(FullK(sh, nmax)[j], sh, sh[1], nmax, 0, j - 1)
  BY <1>9, <1>10 DEF FullK
<1>12. PICK s : s = FullK(sh, nmax)[j]
  OBVIOUS
<1>13. s.Kp = Lesser(a - 0 * a, a)
  BY <1>2, <1>11, <1>12 DEF SliceAt
<1>14. s.Kp = a
  BY <1>3, <1>13 DEF Lesser
<1> QED BY <1>2, <1>6, <1>7, <1>8, <1>11, <1>12, <1>14 DEF FullK

(* Block row c of the full copy is block row c - kq * (KS \div T) of       *)
(* K-slice kq.                                                             *)
LEMMA BlockRow ==
    ASSUME NEW K, Blocks(K), NEW c \in Nat, c < K \div T, NEW kq, kq = (c * T) \div KS
    PROVE  /\ kq \in Nat /\ kq < CeilDiv(K, KS)
           /\ c - kq * (KS \div T) \in 0..(Lesser(K - kq * KS, KS) \div T - 1)
           /\ kq * KS + (c - kq * (KS \div T)) * T = c * T
<1>1. Blocks(KS) /\ K \in Nat \ {0}
  BY Constants DEF Blocks
<1>2. PICK Q, QS : Q = K \div T /\ QS = KS \div T
  OBVIOUS
<1>3. Q \in Nat \ {0} /\ K = Q * T /\ QS \in Nat \ {0} /\ KS = QS * T /\ T \in Nat \ {0} /\ KS \in Nat \ {0}
  BY <1>1, <1>2, BlocksIs, Constants
<1>4. PICK x : x = c * T
  OBVIOUS
<1>5. x \in 0..(K - 1)
  <2>1. c + 1 <= Q
    BY <1>2, <1>3
  <2>2. (c + 1) * T <= Q * T /\ (c + 1) * T = c * T + T
    BY <1>3, <2>1
  <2>3. c * T \in Nat
    BY <1>3
  <2> QED BY <1>3, <1>4, <2>2, <2>3
<1>6. PICK r : r = Lesser(K - kq * KS, KS)
  OBVIOUS
<1>7. kq \in Nat /\ kq < CeilDiv(K, KS) /\ x - kq * KS \in 0..(r - 1)
  <2>1. kq = x \div KS
    BY <1>4
  <2> QED BY <1>1, <1>3, <1>5, <1>6, <2>1, PieceOf
<1>8. Blocks(r)
  <2>1. kq * KS \in Nat
    BY <1>3, <1>7
  <2>2. K - kq * KS > 0
    BY <1>1, <1>5, <1>7, <2>1
  <2> QED BY <1>1, <1>6, <1>7, <2>2, BlocksRest
<1>9. PICK u : u = r \div T
  OBVIOUS
<1>10. u \in Nat \ {0} /\ r = u * T
  BY <1>8, <1>9, BlocksIs
<1>11. PICK d : d = c - kq * QS
  OBVIOUS
<1>12. d \in Int /\ d * T = x - kq * KS /\ kq * KS \in Nat
  <2>1. kq * QS \in Nat /\ kq * KS \in Nat
    BY <1>3, <1>7
  <2>2. (kq * QS) * T = kq * KS
    BY <1>3, <1>7
  <2>3. (c - kq * QS) * T = c * T - (kq * QS) * T
    BY <1>3, <2>1
  <2> QED BY <1>4, <1>11, <2>1, <2>2, <2>3
<1>13. d * T >= 0 /\ d * T < u * T
  BY <1>5, <1>7, <1>10, <1>12
<1>14. d >= 0 /\ d < u
  <2>1. d < 0 => d * T < 0
    BY <1>3, <1>12
  <2>2. u <= d => u * T <= d * T
    BY <1>3, <1>10, <1>12
  <2>3. u * T \in Nat /\ d * T \in Int
    BY <1>3, <1>10, <1>12
  <2> QED BY <1>10, <1>12, <1>13, <2>1, <2>2, <2>3
<1>15. kq * KS + d * T = c * T
  BY <1>4, <1>5, <1>12
<1>16. d \in 0..(u - 1)
  BY <1>10, <1>12, <1>14
<1> QED BY <1>2, <1>6, <1>7, <1>9, <1>11, <1>15, <1>16

-----------------------------------------------------------------------------
(* The full copy is rebuilt from the tiles.                                *)

(* What goes to a, b of block c of block column d is the element there.    *)
LEMMA InterleavedIs ==
    ASSUME NEW sh, Shaped(sh), NEW nmax, Blocks(nmax), NEW n, Slices(SlicesOf(sh, KS, nmax), n),
           NEW bb, NEW E, TilesHold(bb, SlicesOf(sh, KS, nmax), n, E),
           NEW ns \in Nat, ns < CeilDiv(sh[2], nmax), NEW a \in 0..(T - 1), NEW b \in 0..(T - 1),
           NEW c \in 0..(sh[1] \div T - 1), NEW d \in 0..(Lesser(sh[2] - ns * nmax, nmax) \div T - 1)
    PROVE  Interleaved(bb, sh, nmax, ns, Addr(a, b, c, d, sh[1] \div T))
              = E[<<c * T + a, ns * nmax + d * T + b>>]
<1>1. /\ Blocks(KS) /\ Blocks(sh[1]) /\ Blocks(sh[2]) /\ T \in Nat \ {0} /\ KS \in Nat \ {0}
      /\ sh[1] \in Nat \ {0} /\ sh[2] \in Nat \ {0} /\ nmax \in Nat \ {0}
  BY Constants DEF Blocks, Shaped
<1>2. PICK Q, QS, p : Q = sh[1] \div T /\ QS = KS \div T /\ p = Addr(a, b, c, d, Q)
  OBVIOUS
<1>3. Q \in Nat \ {0} /\ QS \in Nat \ {0} /\ c \in 0..(Q - 1) /\ c \in Nat /\ d \in Nat
  BY <1>1, <1>2, BlocksIs
<1>4. p % (T * T) = b * T + a /\ (p \div (T * T)) % Q = c /\ p \div (Q * T * T) = d
  BY <1>2, <1>3, AddrIs
<1>5. PICK kq : kq = (c * T) \div KS
  OBVIOUS
<1>6. PICK i : i = ns * CeilDiv(sh[1], KS) + kq + 1
  OBVIOUS
<1>7. PICK s : s = SlicesOf(sh, KS, nmax)[i]
  OBVIOUS
<1>8. PICK e : e = c - kq * QS
  OBVIOUS
<1>9. PICK u : u = s.Kp \div T
  OBVIOUS
<1>10. Interleaved(bb, sh, nmax, ns, p) = bb[i][d * (u * T * T) + e * (T * T) + (b * T + a) + 1]
  BY <1>2, <1>4, <1>5, <1>6, <1>7, <1>8, <1>9 DEF Interleaved
<1>11. /\ kq \in Nat /\ kq < CeilDiv(sh[1], KS)
       /\ e \in 0..(Lesser(sh[1] - kq * KS, KS) \div T - 1) /\ kq * KS + e * T = c * T
  <2>1. PICK K : K = sh[1]
    OBVIOUS
  <2>2. Blocks(K) /\ c < K \div T
    BY <1>1, <1>2, <1>3, <2>1
  <2>3. /\ kq \in Nat /\ kq < CeilDiv(K, KS)
        /\ c - kq * (KS \div T) \in 0..(Lesser(K - kq * KS, KS) \div T - 1)
        /\ kq * KS + (c - kq * (KS \div T)) * T = c * T
    BY <1>3, <1>5, <2>2, BlockRow
  <2>4. e = c - kq * (KS \div T)
    BY <1>2, <1>8
  <2> QED BY <2>1, <2>3, <2>4
<1>12. i \in 1..n /\ SliceAt(s, sh, KS, nmax, kq, ns)
  BY <1>1, <1>6, <1>7, <1>11, SliceIs
<1>13. /\ s.k0 = kq * KS /\ s.n0 = ns * nmax /\ s.Kp = Lesser(sh[1] - kq * KS, KS)
       /\ s.Nc = Lesser(sh[2] - ns * nmax, nmax)
  BY <1>12 DEF SliceAt
<1>14. IsSlice(s, sh)
  BY <1>1, <1>7, <1>12, SlicesFit
<1>15. PICK v : v = s.Nc \div T
  OBVIOUS
<1>16. u \in Nat \ {0} /\ s.Kp = u * T /\ v \in Nat \ {0} /\ s.Nc = v * T
  BY <1>9, <1>14, <1>15, BlocksIs DEF IsSlice
<1>17. e \in 0..(u - 1) /\ d \in 0..(v - 1)
  BY <1>9, <1>11, <1>13, <1>15
<1>18. PICK q : q = Addr(a, b, e, d, u)
  OBVIOUS
<1>19. InTile(q, e * T + a, d * T + b, s.Kp, s.Nc)
  <2>1. InTile(Addr(a, b, e, d, u), e * T + a, d * T + b, u * T, v * T)
    BY <1>16, <1>17, AddrInTile
  <2> QED BY <1>16, <1>18, <2>1
<1>20. PICK r, t, z : r = e * T + a /\ t = d * T + b /\ z = s.Kp * s.Nc
  OBVIOUS
<1>21. InTile(q, r, t, s.Kp, s.Nc) /\ z \in Nat \ {0}
  BY <1>14, <1>19, <1>20 DEF IsSlice
<1>22. q \in 0..(z - 1) /\ RowOf(q, s.Kp) = r /\ ColOf(q, s.Kp) = t
  BY <1>20, <1>21 DEF InTile
<1>23. TileHolds(bb[i], s, E)
  BY <1>7, <1>12 DEF TilesHold
<1>24. q + 1 \in 1..z /\ (q + 1) - 1 = q
  BY <1>21, <1>22
<1>25. bb[i][q + 1] = Cell(E, s, q + 1)
  BY <1>20, <1>23, <1>24 DEF TileHolds
<1>26. Cell(E, s, q + 1) = E[<<s.k0 + r, s.n0 + t>>]
  BY <1>22, <1>24 DEF Cell
<1>27. q + 1 = d * (u * T * T) + e * (T * T) + (b * T + a) + 1
  <2>1. PICK x, y, w : x = d * (u * T * T) /\ y = e * (T * T) /\ w = b * T
    OBVIOUS
  <2>2. x \in Nat /\ y \in Nat /\ w \in Nat
    <3>1. u * T * T \in Nat /\ T * T \in Nat
      BY <1>1, <1>16
    <3> QED BY <1>1, <1>3, <1>17, <2>1, <3>1
  <2>3. q = x + y + w + a
    BY <1>18, <2>1 DEF Addr
  <2> QED BY <2>1, <2>2, <2>3
<1>28. s.k0 + r = c * T + a /\ s.n0 + t = ns * nmax + d * T + b
  <2>1. kq * KS \in Nat /\ e * T \in Nat /\ c * T \in Nat /\ ns * nmax \in Nat /\ d * T \in Nat
    BY <1>1, <1>3, <1>11, <1>17
  <2> QED BY <1>11, <1>13, <1>20, <2>1
<1>29. Interleaved(bb, sh, nmax, ns, p) = bb[i][q + 1]
  BY <1>10, <1>27
<1> QED BY <1>2, <1>25, <1>26, <1>28, <1>29

(* The rebuild of Bf: the tiles of the matrix over the full K.             *)
LEMMA RebuiltHolds ==
    ASSUME NEW sh, Shaped(sh), NEW nmax, Blocks(nmax), NEW n, Slices(SlicesOf(sh, KS, nmax), n),
           NEW bb, NEW E, TilesHold(bb, SlicesOf(sh, KS, nmax), n, E),
           NEW n2, Slices(FullK(sh, nmax), n2)
    PROVE  TilesHold(Rebuilt(bb, sh, nmax), FullK(sh, nmax), n2, E)
<1>1. PICK full, K : full = FullK(sh, nmax) /\ K = sh[1]
  OBVIOUS
<1>2. /\ n2 \in Nat \ {0} /\ Row(full, n2) /\ DOMAIN full = 1..n2 /\ Blocks(K) /\ K \in Nat \ {0}
      /\ T \in Nat \ {0} /\ sh[2] \in Nat \ {0} /\ nmax \in Nat \ {0}
  BY <1>1, RowIs, Constants DEF Slices, Shaped, Blocks
<1>3. PICK g : g = [j \in 1..n2 |-> AsSeq([o \in 1..(K * full[j].Nc) |->
                                              Interleaved(bb, sh, nmax, j - 1, o - 1)])]
  OBVIOUS
<1>4. PICK f : f = [j \in 1..n2 |-> Padded(g[j])]
  OBVIOUS
<1>5. Row(f, n2)
  BY <1>2, <1>4 DEF Row
<1>6. Rebuilt(bb, sh, nmax) = f
  <2>1. Rebuilt(bb, sh, nmax) = AsSeq([j \in 1..n2 |-> Padded(AsSeq([o \in 1..(K * full[j].Nc) |->
                                              Interleaved(bb, sh, nmax, j - 1, o - 1)]))])
    BY <1>1, <1>2 DEF Rebuilt
  <2>2. Rebuilt(bb, sh, nmax) = AsSeq(f)
    BY <1>3, <1>4, <2>1
  <2> QED BY <1>5, <2>2, RowIs
<1>7. ASSUME NEW j \in 1..n2 PROVE TileHolds(f[j], full[j], E)
  <2>1. PICK s, ns : s = full[j] /\ ns = j - 1
    OBVIOUS
  <2>2. /\ SliceAt(s, sh, K, nmax, 0, ns) /\ ns \in Nat /\ ns < CeilDiv(sh[2], nmax)
        /\ IsSlice(s, sh) /\ s.Kp = K
    BY <1>1, <2>1, FullAt
  <2>3. PICK k : k = K * s.Nc
    OBVIOUS
  <2>4. k \in Nat \ {0} /\ k = s.Kp * s.Nc /\ Blocks(s.Nc)
    BY <2>2, <2>3 DEF IsSlice
  <2>5. PICK t : t = [o \in 1..k |-> Interleaved(bb, sh, nmax, ns, o - 1)]
    OBVIOUS
  <2>6. Row(t, k)
    BY <2>4, <2>5 DEF Row
  <2>7. g[j] = t
    <3>1. g[j] = AsSeq([o \in 1..(K * full[j].Nc) |-> Interleaved(bb, sh, nmax, j - 1, o - 1)])
      BY <1>3
    <3>2. g[j] = AsSeq(t)
      BY <2>1, <2>3, <2>5, <3>1
    <3> QED BY <2>6, <3>2, RowIs
  <2>8. f[j] = Padded(t)
    BY <1>4, <2>7
  <2>9. Len(f[j]) = PgUp(k) /\ k <= PgUp(k) /\ \A o \in 1..k : f[j][o] = t[o]
    BY <2>6, <2>8, PaddedIs
  <2>10. PICK Q, M : Q = K \div T /\ M = s.Nc \div T
    OBVIOUS
  <2>11. Q \in Nat \ {0} /\ K = Q * T /\ M \in Nat \ {0} /\ s.Nc = M * T
    BY <1>2, <2>4, <2>10, BlocksIs
  <2>12. s.k0 = 0 /\ s.n0 = ns * nmax /\ s.Nc = Lesser(sh[2] - ns * nmax, nmax)
    <3>1. s.k0 = 0 * K /\ s.n0 = ns * nmax /\ s.Nc = Lesser(sh[2] - ns * nmax, nmax)
      BY <2>2 DEF SliceAt
    <3> QED BY <1>2, <3>1
  <2>13. ASSUME NEW o \in 1..k PROVE t[o] = Cell(E, s, o)
    <3>1. PICK p : p = o - 1
      OBVIOUS
    <3>2. p \in Nat /\ p < k
      BY <2>4, <3>1
    <3>3. k = M * (Q * T * T)
      BY <1>2, <2>3, <2>11
    <3>4. PICK a \in 0..(T - 1), b \in 0..(T - 1), c \in 0..(Q - 1), d \in 0..(M - 1) : p = Addr(a, b, c, d, Q)
      BY <2>11, <3>2, <3>3, AddrExists
    <3>5. t[o] = Interleaved(bb, sh, nmax, ns, p)
      BY <2>5, <3>1
    <3>6. Interleaved(bb, sh, nmax, ns, Addr(a, b, c, d, sh[1] \div T))
              = E[<<c * T + a, ns * nmax + d * T + b>>]
      <4>1. c \in 0..(sh[1] \div T - 1)
        BY <1>1, <2>10
      <4>2. d \in 0..(Lesser(sh[2] - ns * nmax, nmax) \div T - 1)
        BY <2>10, <2>12
      <4> QED BY <2>2, <4>1, <4>2, InterleavedIs
    <3>7. t[o] = E[<<c * T + a, ns * nmax + d * T + b>>]
      BY <1>1, <2>10, <3>4, <3>5, <3>6
    <3>8. InTile(p, c * T + a, d * T + b, s.Kp, s.Nc)
      <4>1. InTile(Addr(a, b, c, d, Q), c * T + a, d * T + b, Q * T, M * T)
        BY <2>11, AddrInTile
      <4> QED BY <2>2, <2>11, <3>4, <4>1
    <3>9. PICK r, q : r = c * T + a /\ q = d * T + b
      OBVIOUS
    <3>10. RowOf(o - 1, s.Kp) = r /\ ColOf(o - 1, s.Kp) = q
      BY <3>1, <3>8, <3>9 DEF InTile
    <3>11. Cell(E, s, o) = E[<<s.k0 + r, s.n0 + q>>]
      BY <3>10 DEF Cell
    <3>12. s.k0 + r = c * T + a /\ s.n0 + q = ns * nmax + d * T + b
      <4>1. c * T \in Nat /\ d * T \in Nat /\ ns * nmax \in Nat
        BY <1>2, <2>2
      <4> QED BY <2>12, <3>9, <4>1
    <3> QED BY <3>7, <3>11, <3>12
  <2>14. TileHolds(f[j], s, E)
    <3>1. \A o \in 1..k : f[j][o] = Cell(E, s, o)
      BY <2>9, <2>13
    <3> QED BY <2>4, <2>9, <3>1 DEF TileHolds
  <2> QED BY <2>1, <2>14
<1> QED BY <1>1, <1>6, <1>7 DEF TilesHold

-----------------------------------------------------------------------------
(* Buffers hold the elements of a matrix.                                  *)

(* The slices of a shape on a SoC, and over the full K.                    *)
Tiling(sh, soc) == SlicesOf(sh, KS, NMAX[soc])
Whole(sh) == FullK(sh, NMAX[Here])

(* The slices of a shape.                                                  *)
LEMMA TilingIs ==
    ASSUME NEW sh, Shaped(sh), NEW soc \in Socs
    PROVE  /\ Slices(Tiling(sh, soc), Len(Tiling(sh, soc))) /\ Slices(Whole(sh), Len(Whole(sh)))
           /\ \A n : Slices(Tiling(sh, soc), n) => n = Len(Tiling(sh, soc))
           /\ \A n : Slices(Whole(sh), n) => n = Len(Whole(sh))
           /\ Blocks(KS) /\ Blocks(NMAX[soc]) /\ Blocks(NMAX[Here])
<1>1. Here \in Socs
  BY PackedAssumption
<1>2. ASSUME NEW sl, NEW n, Slices(sl, n) PROVE n = Len(sl)
  BY <1>2, RowIs DEF Slices
<1>3. PICK n : Slices(Tiling(sh, soc), n)
  BY FullExists DEF Tiling
<1>4. PICK k : Slices(Whole(sh), k)
  BY <1>1, FullExists DEF Whole
<1>5. Blocks(KS) /\ Blocks(NMAX[soc]) /\ Blocks(NMAX[Here])
  BY <1>1, Constants, PackedAssumption DEF Blocks
<1> QED BY <1>2, <1>3, <1>4, <1>5

(* A pack cuts as the loads do.                                            *)
LEMMA KsIs ==
    ASSUME KTILE \in {0, KS}
    PROVE  orki_int8_ks = KS
BY Constants DEF orki_int8_ks

(* A matrix of a shape, and its elements.                                  *)
Matrix(B, sh) == B = [at \in Places(sh) |-> B[at]]

(* Filled is a matrix.                                                     *)
LEMMA FilledIs ==
    ASSUME NEW sh, NEW v
    PROVE  Matrix(Filled(sh, v), sh)
BY DEF Matrix, Filled

(* The elements of a matrix.                                               *)
LEMMA ElementsAre ==
    ASSUME NEW B, NEW sh, Matrix(B, sh)
    PROVE  /\ Elements(B) = [at \in Places(sh) |-> Elements(B)[at]] /\ DOMAIN B = Places(sh)
           /\ \A at \in Places(sh) : Elements(B)[at] = IF B[at] = 0 THEN Zero ELSE <<B[at], at[1], at[2]>>
<1>1. DOMAIN B = Places(sh)
  BY DEF Matrix
<1>2. Elements(B) = [at \in Places(sh) |-> IF B[at] = 0 THEN Zero ELSE <<B[at], at[1], at[2]>>]
  BY <1>1 DEF Elements
<1> QED BY <1>1, <1>2

(* Buffers that hold slices sl of E, each at its start.                    *)
BufferHolds(m, b, s, E) ==
    /\ b.off \in Nat /\ b.size = PgUp(s.Kp * s.Nc) /\ s.Kp * s.Nc <= b.size
    /\ \A o \in 1..(s.Kp * s.Nc) : m[b.obj][b.off + o] = Cell(E, s, o)

BuffersHold(m, bufs, sl, n, E) == \A i \in 1..n : BufferHolds(m, bufs[i], sl[i], E)

(* Buffers that read as tiles hold what the tiles hold.                    *)
LEMMA ReadsHold ==
    ASSUME NEW m, NEW bufs, NEW c, NEW n, NEW sl, NEW E, NEW k, k \in {0, n}, Slices(sl, n),
           Buffers(bufs, k, m), Reads(m, bufs, c, k), TilesHold(c, sl, n, E)
    PROVE  BuffersHold(m, bufs, sl, k, E)
<1>1. ASSUME NEW i \in 1..k PROVE BufferHolds(m, bufs[i], sl[i], E)
  <2>1. PICK b, s, t : b = bufs[i] /\ s = sl[i] /\ t = c[i]
    OBVIOUS
  <2>2. b.size = Len(t) /\ \A o \in 1..Len(t) : m[b.obj][b.off + o] = t[o]
    BY <2>1 DEF Reads
  <2>3. b.off \in Nat
    BY <2>1 DEF Buffers
  <2>4. i \in 1..n
    OBVIOUS
  <2>5. TileHolds(t, s, E)
    BY <2>1, <2>4 DEF TilesHold
  <2>6. PICK z : z = s.Kp * s.Nc
    OBVIOUS
  <2>7. z \in Nat
    BY <2>1, <2>4, <2>6 DEF Slices
  <2>8. Len(t) = PgUp(z) /\ z <= Len(t) /\ \A o \in 1..z : t[o] = Cell(E, s, o)
    BY <2>5, <2>6 DEF TileHolds
  <2>9. Len(t) \in Nat
    BY <2>7, <2>8, Rounded
  <2>10. \A o \in 1..z : o \in 1..Len(t)
    BY <2>7, <2>8, <2>9
  <2>11. \A o \in 1..z : m[b.obj][b.off + o] = Cell(E, s, o)
    BY <2>2, <2>8, <2>10
  <2> QED BY <2>1, <2>2, <2>3, <2>6, <2>8, <2>11 DEF BufferHolds
<1> QED BY <1>1 DEF BuffersHold

(* A weight reads as its matrix.                                           *)
Exactly(w, m) ==
    /\ Matrix(w.holds, w.sh)
    /\ w.codes # <<>> => w.codes[1] = Elements(w.holds)
    /\ w.codes = <<>> =>
          /\ Row(w.Bb, Len(Tiling(w.sh, Here)))
          /\ BuffersHold(m, w.Bb, Tiling(w.sh, Here), Len(Tiling(w.sh, Here)), Elements(w.holds))
          /\ \E k \in {0, Len(Whole(w.sh))} :
                Row(w.Bf, k) /\ BuffersHold(m, w.Bf, Whole(w.sh), k, Elements(w.holds))

(* A weight that is built reads as its matrix.                             *)
LEMMA BuiltExact ==
    ASSUME NEW r, NEW sh, Shaped(sh), NEW B, Matrix(B, sh), NEW c, NEW n, NEW c2, NEW n2,
           Builds(r, sh, B, c, n, c2, n2), r.w # <<>>,
           Slices(Tiling(sh, Here), n), Slices(Whole(sh), n2),
           TilesHold(c, Tiling(sh, Here), n, Elements(B)),
           TilesHold(c2, Whole(sh), n2, Elements(B))
    PROVE  Exactly(r.w[1], r.mem)
<1>1. PICK w, m : w = r.w[1] /\ m = r.mem
  OBVIOUS
<1>2. /\ w.sh = sh /\ w.holds = B /\ w.codes = <<>>
      /\ Buffers(w.Bb, n, m) /\ Reads(m, w.Bb, c, n)
  BY <1>1 DEF Builds
<1>3. PICK k \in {0, n2} : Buffers(w.Bf, k, m) /\ Reads(m, w.Bf, c2, k)
  BY <1>1 DEF Builds
<1>4. Here \in Socs
  BY PackedAssumption
<1>5. n = Len(Tiling(sh, Here)) /\ n2 = Len(Whole(sh))
  BY <1>4, TilingIs
<1>6. BuffersHold(m, w.Bb, Tiling(sh, Here), n, Elements(B)) /\ Row(w.Bb, n)
  BY <1>2, ReadsHold DEF Buffers
<1>7. BuffersHold(m, w.Bf, Whole(sh), k, Elements(B)) /\ Row(w.Bf, k)
  BY <1>3, ReadsHold DEF Buffers
<1> QED BY <1>1, <1>2, <1>3, <1>5, <1>6, <1>7 DEF Exactly

(* It does in every memory where its objects hold the same.                *)
LEMMA HoldsMoved ==
    ASSUME NEW m, NEW x, NEW bufs, NEW sl, NEW n, NEW E, BuffersHold(m, bufs, sl, n, E),
           \A i \in 1..n : x[bufs[i].obj] = m[bufs[i].obj]
    PROVE  BuffersHold(x, bufs, sl, n, E)
<1>1. ASSUME NEW i \in 1..n PROVE BufferHolds(x, bufs[i], sl[i], E)
  <2>1. PICK b, s : b = bufs[i] /\ s = sl[i]
    OBVIOUS
  <2>2. BufferHolds(m, b, s, E) /\ x[b.obj] = m[b.obj]
    BY <2>1 DEF BuffersHold
  <2>3. BufferHolds(x, b, s, E)
    BY <2>2 DEF BufferHolds
  <2> QED BY <2>1, <2>3
<1> QED BY <1>1 DEF BuffersHold

(* A weight in a memory where its objects are the same.                    *)
LEMMA ExactMoved ==
    ASSUME NEW w, NEW m, NEW x, Exactly(w, m), \A o \in Objects(w) : x[o] = m[o]
    PROVE  Exactly(w, x)
<1>1. \A i \in DOMAIN w.Bb : w.Bb[i].obj \in Objects(w)
  BY DEF Objects
<1>2. \A i \in DOMAIN w.Bf : w.Bf[i].obj \in Objects(w)
  BY DEF Objects
<1>3. CASE w.codes = <<>>
  <2>1. PICK n, E, sl : n = Len(Tiling(w.sh, Here)) /\ E = Elements(w.holds) /\ sl = Tiling(w.sh, Here)
    OBVIOUS
  <2>2. Row(w.Bb, n) /\ BuffersHold(m, w.Bb, sl, n, E)
    BY <1>3, <2>1 DEF Exactly
  <2>3. DOMAIN w.Bb = 1..n
    BY <2>2, RowIs
  <2>4. BuffersHold(x, w.Bb, sl, n, E)
    BY <1>1, <2>2, <2>3, HoldsMoved
  <2>5. PICK k \in {0, Len(Whole(w.sh))} : Row(w.Bf, k) /\ BuffersHold(m, w.Bf, Whole(w.sh), k, E)
    BY <1>3, <2>1 DEF Exactly
  <2>6. DOMAIN w.Bf = 1..k
    BY <2>5, RowIs
  <2>7. BuffersHold(x, w.Bf, Whole(w.sh), k, E)
    BY <1>2, <2>5, <2>6, HoldsMoved
  <2> QED BY <1>3, <2>1, <2>2, <2>4, <2>5, <2>7 DEF Exactly
<1>4. CASE w.codes # <<>>
  BY <1>4 DEF Exactly
<1> QED BY <1>3, <1>4

(* And it reads as LayoutExact says.                                       *)
LEMMA HoldsReads ==
    ASSUME NEW m, NEW b, NEW s, NEW E, BufferHolds(m, b, s, E), s.Kp * s.Nc \in Nat
    PROVE  Read(m, b, s.Kp * s.Nc) = Tiled(E, s)
<1>1. PICK z, t, a, x : z = s.Kp * s.Nc /\ t = Tiled(E, s) /\ a = b.off /\ x = m[b.obj]
  OBVIOUS
<1>2. z \in Nat /\ a \in Int /\ \A o \in 1..z : x[a + o] = Cell(E, s, o)
  BY <1>1 DEF BufferHolds
<1>3. Row(t, z) /\ \A o \in 1..z : t[o] = Cell(E, s, o)
  BY <1>1, TiledIs DEF Cell
<1>4. SubSeq(x, a + 1, a + z) = [o \in 1..z |-> x[a + o]]
  BY <1>2, CutIs
<1>5. t = [o \in 1..z |-> t[o]]
  BY <1>3 DEF Row
<1>6. [o \in 1..z |-> x[a + o]] = [o \in 1..z |-> t[o]]
  BY <1>2, <1>3
<1> QED BY <1>1, <1>4, <1>5, <1>6 DEF Read

(* A weight reads as its matrix.                                           *)
LEMMA ExactReads ==
    ASSUME KTILE \in {0, KS}, NEW w, Shaped(w.sh), Exactly(w, mem)
    PROVE  ReadsAs(w)
<1>1. Here \in Socs /\ orki_int8_ks = KS
  BY PackedAssumption, KsIs
<1>2. CASE w.codes # <<>>
  BY <1>2 DEF Exactly, ReadsAs
<1>3. CASE w.codes = <<>>
  <2>1. PICK bb, bf, n, n2, E : /\ bb = Tiling(w.sh, Here) /\ bf = Whole(w.sh) /\ n = Len(bb)
                                /\ n2 = Len(bf) /\ E = Elements(w.holds)
    OBVIOUS
  <2>2. Slices(bb, n) /\ Slices(bf, n2)
    BY <1>1, <2>1, TilingIs
  <2>3. BuffersHold(mem, w.Bb, bb, n, E)
    BY <1>3, <2>1 DEF Exactly
  <2>4. PICK k \in {0, n2} : Row(w.Bf, k) /\ BuffersHold(mem, w.Bf, bf, k, E)
    BY <1>3, <2>1 DEF Exactly
  <2>5. DOMAIN bb = 1..n /\ DOMAIN w.Bf = 1..k
    BY <2>2, <2>4, RowIs DEF Slices
  <2>6. ASSUME NEW i \in DOMAIN bb PROVE Read(mem, w.Bb[i], bb[i].Kp * bb[i].Nc) = Tiled(E, bb[i])
    <3>1. BufferHolds(mem, w.Bb[i], bb[i], E)
      BY <2>3, <2>5 DEF BuffersHold
    <3>2. PICK s : s = bb[i]
      OBVIOUS
    <3>3. s.Kp * s.Nc \in Nat
      BY <2>2, <2>5, <3>2 DEF Slices
    <3> QED BY <3>1, <3>2, <3>3, HoldsReads
  <2>7. ASSUME NEW i \in DOMAIN w.Bf PROVE Read(mem, w.Bf[i], bf[i].Kp * bf[i].Nc) = Tiled(E, bf[i])
    <3>1. BufferHolds(mem, w.Bf[i], bf[i], E)
      BY <2>4, <2>5 DEF BuffersHold
    <3>2. PICK s : s = bf[i]
      OBVIOUS
    <3>3. i \in 1..n2
      BY <2>4, <2>5
    <3>4. s.Kp * s.Nc \in Nat
      BY <2>2, <3>2, <3>3 DEF Slices
    <3> QED BY <3>1, <3>2, <3>4, HoldsReads
  <2>8. bb = SlicesOf(w.sh, orki_int8_ks, NMAX[Here]) /\ bf = FullK(w.sh, NMAX[Here])
    BY <1>1, <2>1 DEF Tiling, Whole
  <2> QED BY <1>3, <2>1, <2>6, <2>7, <2>8 DEF ReadsAs
<1> QED BY <1>2, <1>3

-----------------------------------------------------------------------------
(* What weights and dumps hold: the inductive invariant.                   *)

(* What the tiles cut from a body hold.                                    *)
BodyHolds(body, sh, soc, E) ==
    TilesHold(Cut(body, TileSizes(sh, KS, NMAX[soc])), Tiling(sh, soc), Len(Tiling(sh, soc)), E)

(* What the tiles of a body hold.                                          *)
LEMMA BodyIs ==
    ASSUME NEW sh, Shaped(sh), NEW soc \in Socs, NEW c, NEW n, Slices(Tiling(sh, soc), n), NEW E,
           Tiles(c, n), TilesHold(c, Tiling(sh, soc), n, E), NEW body,
           \A i \in 1..n : \A o \in 1..Len(c[i]) : body[Ahead(Lengths(c), i) + o] = c[i][o]
    PROVE  BodyHolds(body, sh, soc, E)
<1>1. PICK sl, z, d : sl = Tiling(sh, soc) /\ z = TileSizes(sh, KS, NMAX[soc]) /\ d = Cut(body, z)
  OBVIOUS
<1>2. n = Len(sl) /\ n \in Nat \ {0} /\ Row(sl, n) /\ DOMAIN sl = 1..n
  BY <1>1, TilingIs, RowIs DEF Slices
<1>3. Paged(Lengths(c), n) /\ \A i \in 1..n : Lengths(c)[i] = Len(c[i]) /\ Len(c[i]) \in Nat
  BY LengthsArePaged
<1>4. z = Lengths(c)
  <2>1. PICK f : f = [i \in 1..n |-> PgUp(sl[i].Kp * sl[i].Nc)]
    OBVIOUS
  <2>2. Row(f, n)
    BY <1>2, <2>1 DEF Row
  <2>3. z = f
    BY <1>1, <1>2, <2>1, <2>2, RowIs DEF TileSizes, Tiling
  <2>4. ASSUME NEW i \in 1..n PROVE f[i] = Lengths(c)[i]
    <3>1. PICK s, t : s = sl[i] /\ t = c[i]
      OBVIOUS
    <3>2. TileHolds(t, s, E)
      BY <1>1, <3>1 DEF TilesHold
    <3>3. Len(t) = PgUp(s.Kp * s.Nc)
      BY <3>2 DEF TileHolds
    <3> QED BY <1>3, <2>1, <3>1, <3>3
  <2>5. Row(Lengths(c), n)
    BY <1>3 DEF Paged
  <2> QED BY <2>2, <2>3, <2>4, <2>5 DEF Row
<1>5. ASSUME NEW i \in 1..n PROVE TileHolds(d[i], sl[i], E)
  <2>1. PICK s, t, u, k : s = sl[i] /\ t = c[i] /\ u = d[i] /\ k = s.Kp * s.Nc
    OBVIOUS
  <2>2. TileHolds(t, s, E)
    BY <1>1, <2>1 DEF TilesHold
  <2>3. k \in Nat
    BY <1>1, <2>1 DEF Slices
  <2>4. Len(t) = PgUp(k) /\ k <= Len(t) /\ Len(t) \in Nat /\ \A o \in 1..k : t[o] = Cell(E, s, o)
    BY <1>3, <2>1, <2>2 DEF TileHolds
  <2>5. Len(u) = Len(t) /\ \A o \in 1..Len(t) : u[o] = body[Ahead(Lengths(c), i) + o]
    <3>1. Paged(z, n) /\ z[i] = Len(t)
      BY <1>3, <1>4, <2>1
    <3>2. Len(Cut(body, z)[i]) = z[i] /\ \A o \in 1..z[i] : Cut(body, z)[i][o] = body[Ahead(z, i) + o]
      BY <1>2, <3>1, CutsAre
    <3> QED BY <1>1, <1>4, <2>1, <3>1, <3>2
  <2>6. \A o \in 1..Len(t) : u[o] = t[o]
    BY <2>1, <2>5
  <2>7. \A o \in 1..k : o \in 1..Len(t)
    BY <2>3, <2>4
  <2>8. \A o \in 1..k : u[o] = Cell(E, s, o)
    BY <2>4, <2>6, <2>7
  <2> QED BY <2>1, <2>4, <2>5, <2>8 DEF TileHolds
<1> QED BY <1>1, <1>2, <1>5 DEF TilesHold, BodyHolds

(* A dump that has a header holds a weight, as the SoC it is for tiles it. *)
FileExact(f) ==
    f.hdr # <<>> =>
       \E soc, sh : /\ soc \in Socs /\ Shaped(sh) /\ f.hdr = PackHeader(soc, sh)
                    /\ Matrix(f.holds, sh) /\ BodyHolds(f.body, sh, soc, Elements(f.holds))

(* The header that a reader checks says what the body holds.               *)
LEMMA HeaderSays ==
    ASSUME NEW f, FileExact(f), NEW soc, NEW sh, orki_pack_check(f, soc, sh)
    PROVE  soc \in Socs /\ Shaped(sh) /\ Matrix(f.holds, sh) /\ BodyHolds(f.body, sh, soc, Elements(f.holds))
<1>1. f.hdr = <<[soc |-> soc, sh |-> sh]>>
  BY DEF orki_pack_check, PackHeader
<1>2. f.hdr # <<>>
  BY <1>1
<1>3. PICK soc2, sh2 : /\ soc2 \in Socs /\ Shaped(sh2) /\ f.hdr = PackHeader(soc2, sh2)
                      /\ Matrix(f.holds, sh2) /\ BodyHolds(f.body, sh2, soc2, Elements(f.holds))
  BY <1>2 DEF FileExact
<1>4. PICK a, b : a = [soc |-> soc, sh |-> sh] /\ b = [soc |-> soc2, sh |-> sh2]
  OBVIOUS
<1>5. <<a>> = <<b>>
  BY <1>1, <1>3, <1>4 DEF PackHeader
<1>6. a = b
  <2>1. <<a>>[1] = <<b>>[1]
    BY <1>5
  <2> QED BY <2>1
<1>7. soc = soc2 /\ sh = sh2
  BY <1>4, <1>6
<1> QED BY <1>3, <1>7

(* A dump holds what was dumped.                                           *)
LEMMA DumpedExact ==
    ASSUME NEW sh, Shaped(sh), NEW soc \in Socs, NEW hdr, hdr \in {<<>>, PackHeader(soc, sh)},
           NEW B, Matrix(B, sh), NEW c, NEW n,
           Slices(Tiling(sh, soc), n), Tiles(c, n), TilesHold(c, Tiling(sh, soc), n, Elements(B))
    PROVE  FileExact(Dumped(hdr, B, c))
<1>1. PICK f : f = Dumped(hdr, B, c)
  OBVIOUS
<1>2. Len(hdr) \in {0, 1}
  BY HeaderIs
<1>3. /\ f.hdr = hdr /\ f.holds = B
      /\ \A i \in 1..n : \A o \in 1..Len(c[i]) : f.body[Ahead(Lengths(c), i) + o] = c[i][o]
  BY <1>1, <1>2, DumpedIs
<1>4. BodyHolds(f.body, sh, soc, Elements(B))
  BY <1>3, BodyIs
<1>5. CASE hdr = <<>>
  BY <1>1, <1>3, <1>5 DEF FileExact
<1>6. CASE hdr = PackHeader(soc, sh)
  BY <1>1, <1>3, <1>4, <1>6 DEF FileExact
<1> QED BY <1>5, <1>6

-----------------------------------------------------------------------------
(* The invariant: weights read as their matrices, dumps hold theirs, and   *)
(* the resident pair has its shapes.                                       *)
AllExact(ws, m) == \A i \in DOMAIN ws : Exactly(ws[i], m)

LyInv ==
    /\ AllExact(wt, mem) /\ AllExact(kv, mem)
    /\ kv # <<>> => /\ kv[1].sh = KtShape /\ kv[1].codes = <<>>
                    /\ kv[2].sh = VShape /\ kv[2].codes = <<>>
    /\ \A f \in file : FileExact(f)

(* Weights in a memory where their objects are the same.                   *)
LEMMA AllMoved ==
    ASSUME NEW ws, NEW m, NEW x, AllExact(ws, m), \A o \in Own(ws) : x[o] = m[o]
    PROVE  AllExact(ws, x)
<1>1. ASSUME NEW i \in DOMAIN ws PROVE Exactly(ws[i], x)
  <2>1. \A o \in Objects(ws[i]) : x[o] = m[o]
    BY DEF Own
  <2>2. Exactly(ws[i], m)
    BY DEF AllExact
  <2> QED BY <2>1, <2>2, ExactMoved
<1> QED BY <1>1 DEF AllExact

(* What the invariant says of the layout.                                  *)
LEMMA LayoutOfInv ==
    ASSUME KTILE \in {0, KS}, PkInv, LyInv
    PROVE  LayoutExact
<1>1. ASSUME NEW ws, ws \in {wt, kv}, NEW i \in DOMAIN ws PROVE ReadsAs(ws[i])
  <2>1. Exactly(ws[i], mem)
    BY <1>1 DEF LyInv, AllExact
  <2>2. Shaped(ws[i].sh)
    BY <1>1 DEF PkInv, Owned, HeldOK, WellFormed
  <2> QED BY <2>1, <2>2, ExactReads
<1> QED BY <1>1 DEF LayoutExact, Held, Range

(* A call that made a weight, or NULL.                                     *)
LEMMA MakesLy ==
    ASSUME PkInv, LyInv, wt = <<>>, NEW r, Good(r, mem), r.w # <<>> => Exactly(r.w[1], r.mem),
           mem' = r.mem, wt' = r.w, UNCHANGED <<kv, file>>
    PROVE  LyInv'
<1>1. Kept(mem, r.mem)
  BY GoodKeeps DEF PkInv
<1>2. \A o \in Own(kv) : o \in DOMAIN mem
  BY DEF PkInv, Owned
<1>3. AllExact(kv, r.mem)
  <2>1. \A o \in Own(kv) : r.mem[o] = mem[o]
    BY <1>1, <1>2 DEF Kept
  <2> QED BY <2>1, AllMoved DEF LyInv
<1>4. AllExact(r.w, r.mem)
  <2>1. CASE r.w = <<>>
    BY <2>1 DEF AllExact
  <2>2. CASE r.w # <<>>
    <3>1. r.w = <<r.w[1]>>
      BY <2>2 DEF Good
    <3>2. DOMAIN r.w = {1}
      BY <3>1
    <3> QED BY <2>2, <3>2 DEF AllExact
  <2> QED BY <2>1, <2>2
<1>5. AllExact(wt', mem') /\ AllExact(kv', mem')
  BY <1>3, <1>4
<1> QED BY <1>5 DEF LyInv

-----------------------------------------------------------------------------
(* Each operation keeps it: the calls that make a weight.                  *)

(* Tiles c of a matrix, made into a weight with a copy rebuilt from them.  *)
LEMMA RebuiltExact ==
    ASSUME NEW r, NEW sh, Shaped(sh), NEW B, Matrix(B, sh), NEW c, NEW n, NEW n2,
           Builds(r, sh, B, c, n, Rebuilt(c, sh, NMAX[Here]), n2), r.w # <<>>,
           Slices(Tiling(sh, Here), n), Slices(Whole(sh), n2),
           TilesHold(c, Tiling(sh, Here), n, Elements(B))
    PROVE  Exactly(r.w[1], r.mem)
<1>1. Here \in Socs
  BY PackedAssumption
<1>2. Blocks(NMAX[Here])
  BY <1>1, TilingIs
<1>3. PICK E : E = Elements(B)
  OBVIOUS
<1>4. TilesHold(Rebuilt(c, sh, NMAX[Here]), FullK(sh, NMAX[Here]), n2, E)
  <2>1. Slices(SlicesOf(sh, KS, NMAX[Here]), n) /\ TilesHold(c, SlicesOf(sh, KS, NMAX[Here]), n, E)
    BY <1>3 DEF Tiling
  <2>2. Slices(FullK(sh, NMAX[Here]), n2)
    BY DEF Whole
  <2> QED BY <1>2, <2>1, <2>2, RebuiltHolds
<1>5. TilesHold(Rebuilt(c, sh, NMAX[Here]), Whole(sh), n2, Elements(B))
  BY <1>3, <1>4 DEF Whole
<1> QED BY <1>5, BuiltExact

(* orki_pack makes a weight that reads as its matrix.                      *)
LEMMA PackedExact ==
    ASSUME KTILE \in {0, KS}, NEW m, MemOK(m), Usage(m) <= ceil, views \in BOOLEAN, NEW sh, Shaped(sh),
           NEW B, Matrix(B, sh), NEW r, r = Packed(m, sh, B)
    PROVE  Good(r, m) /\ (r.w # <<>> => /\ Exactly(r.w[1], r.mem) /\ r.w[1].sh = sh
                                        /\ r.w[1].codes = <<>> /\ r.w[1].holds = B)
<1>1. Here \in Socs /\ orki_int8_ks = KS
  BY PackedAssumption, KsIs
<1>2. PICK n, n2 : n = Len(Tiling(sh, Here)) /\ n2 = Len(Whole(sh))
  OBVIOUS
<1>3. Slices(Tiling(sh, Here), n) /\ Slices(Whole(sh), n2)
  BY <1>1, <1>2, TilingIs
<1>4. PICK c, c2 : c = TileSet(Elements(B), Tiling(sh, Here)) /\ c2 = TileSet(Elements(B), Whole(sh))
  OBVIOUS
<1>5. Tiling(sh, Here) = SlicesOf(sh, orki_int8_ks, NMAX[Here]) /\ Whole(sh) = FullK(sh, NMAX[Here])
  BY <1>1 DEF Tiling, Whole
<1>6. Good(r, m) /\ Builds(r, sh, B, c, n, c2, n2)
  BY <1>3, <1>4, <1>5, PackedIs
<1>7. TilesHold(c, Tiling(sh, Here), n, Elements(B)) /\ TilesHold(c2, Whole(sh), n2, Elements(B))
  BY <1>3, <1>4, TileSetHolds
<1>8. ASSUME r.w # <<>> PROVE Exactly(r.w[1], r.mem)
  BY <1>3, <1>6, <1>7, <1>8, BuiltExact
<1> QED BY <1>6, <1>8 DEF Builds

(* ork_i8_mm_pack.                                                         *)
LEMMA PackLy ==
    ASSUME KTILE \in {0, KS}, PkInv, LyInv, NEW sh \in Shapes, NEW v, ork_i8_mm_pack(sh, v)
    PROVE  LyInv'
<1>1. Shaped(sh) /\ Matrix(Filled(sh, v), sh)
  BY PackedAssumption, FilledIs
<1>2. PICK r : r = Packed(mem, sh, Filled(sh, v))
  OBVIOUS
<1>3. Good(r, mem) /\ (r.w # <<>> => Exactly(r.w[1], r.mem))
  BY <1>1, <1>2, PackedExact DEF PkInv
<1>4. wt = <<>> /\ mem' = r.mem /\ wt' = r.w /\ UNCHANGED <<kv, file>>
  BY <1>2 DEF ork_i8_mm_pack, Keep
<1> QED BY <1>3, <1>4, MakesLy

(* ork_i8_mm_pack_import.                                                  *)
LEMMA PackImportLy ==
    ASSUME PkInv, LyInv, NEW sh \in Shapes, NEW v, ork_i8_mm_pack_import(sh, v)
    PROVE  LyInv'
<1>1. Shaped(sh) /\ Here \in Socs
  BY PackedAssumption
<1>2. PICK n, n2, B : n = Len(Tiling(sh, Here)) /\ n2 = Len(Whole(sh)) /\ B = Filled(sh, v)
  OBVIOUS
<1>3. Slices(Tiling(sh, Here), n) /\ Slices(Whole(sh), n2) /\ Matrix(B, sh)
  BY <1>1, <1>2, TilingIs, FilledIs
<1>4. PICK c : c = TileSet(Elements(B), Tiling(sh, Here))
  OBVIOUS
<1>5. Tiles(c, n) /\ TilesHold(c, Tiling(sh, Here), n, Elements(B))
  BY <1>3, <1>4, TileSetIs, TileSetHolds
<1>6. PICK r : r = Imported(sh, B, c)
  OBVIOUS
<1>7. Slices(FullK(sh, NMAX[Here]), n2)
  BY <1>3 DEF Whole
<1>8. Good(r, mem) /\ Builds(r, sh, B, c, n, Rebuilt(c, sh, NMAX[Here]), n2)
  BY <1>1, <1>5, <1>6, <1>7, ImportedIs DEF PkInv, Sound_State
<1>9. ASSUME r.w # <<>> PROVE Exactly(r.w[1], r.mem)
  BY <1>1, <1>3, <1>5, <1>8, <1>9, RebuiltExact
<1>10. wt = <<>> /\ mem' = r.mem /\ wt' = r.w /\ UNCHANGED <<kv, file>>
  BY <1>2, <1>4, <1>6 DEF ork_i8_mm_pack_import, Keep, Tiling
<1> QED BY <1>8, <1>9, <1>10, MakesLy

(* A dump that passes the check of its header.                             *)
LEMMA ReaderHas ==
    ASSUME LyInv, NEW f \in file, NEW soc, NEW sh, orki_pack_check(f, soc, sh)
    PROVE  /\ soc \in Socs /\ Shaped(sh) /\ Matrix(f.holds, sh)
           /\ Slices(Tiling(sh, soc), Len(Tiling(sh, soc))) /\ Slices(Whole(sh), Len(Whole(sh)))
           /\ TilesHold(Cut(f.body, TileSizes(sh, KS, NMAX[soc])), Tiling(sh, soc),
                        Len(Tiling(sh, soc)), Elements(f.holds))
           /\ Tiles(Cut(f.body, TileSizes(sh, KS, NMAX[soc])), Len(Tiling(sh, soc)))
<1>1. soc \in Socs /\ Shaped(sh) /\ Matrix(f.holds, sh) /\ BodyHolds(f.body, sh, soc, Elements(f.holds))
  BY HeaderSays DEF LyInv
<1>2. PICK n : n = Len(Tiling(sh, soc))
  OBVIOUS
<1>3. Slices(Tiling(sh, soc), n) /\ Slices(Whole(sh), Len(Whole(sh)))
  BY <1>1, <1>2, TilingIs
<1>4. Tiles(Cut(f.body, TileSizes(sh, KS, NMAX[soc])), n)
  <2>1. Slices(SlicesOf(sh, KS, NMAX[soc]), n) /\ n \in Nat \ {0}
    BY <1>3 DEF Tiling, Slices
  <2>2. Paged(TileSizes(sh, KS, NMAX[soc]), n)
    BY <2>1, TileSizesAre
  <2> QED BY <2>1, <2>2, CutsAre
<1> QED BY <1>1, <1>2, <1>3, <1>4 DEF BodyHolds

(* ork_i8_mm_load.                                                         *)
LEMMA LoadLy ==
    ASSUME PkInv, LyInv, NEW f \in file, NEW sh \in Shapes, NEW full, ork_i8_mm_load(f, sh, full)
    PROVE  LyInv'
<1>1. Shaped(sh) /\ Here \in Socs
  BY PackedAssumption
<1>2. PICK n, n2, B, c : /\ n = Len(Tiling(sh, Here)) /\ n2 = Len(Whole(sh)) /\ B = f.holds
                         /\ c = Cut(f.body, TileSizes(sh, KS, NMAX[Here]))
  OBVIOUS
<1>3. PICK r : r = Loaded(f, sh, full)
  OBVIOUS
<1>4. /\ Good(r, mem) /\ Builds(r, sh, B, c, n, Rebuilt(c, sh, NMAX[Here]), n2)
      /\ r.w # <<>> => orki_pack_check(f, Here, sh)
  <2>1. Slices(SlicesOf(sh, KS, NMAX[Here]), n) /\ Slices(FullK(sh, NMAX[Here]), n2)
    BY <1>1, <1>2, TilingIs DEF Tiling, Whole
  <2> QED BY <1>1, <1>2, <1>3, <2>1, LoadedIs DEF PkInv, Sound_State
<1>5. ASSUME r.w # <<>> PROVE Exactly(r.w[1], r.mem)
  <2>1. /\ Matrix(B, sh) /\ Slices(Tiling(sh, Here), n) /\ Slices(Whole(sh), n2)
        /\ TilesHold(c, Tiling(sh, Here), n, Elements(B))
    BY <1>2, <1>4, <1>5, ReaderHas
  <2> QED BY <1>1, <1>4, <1>5, <2>1, RebuiltExact
<1>6. wt = <<>> /\ mem' = r.mem /\ wt' = r.w /\ UNCHANGED <<kv, file>>
  BY <1>3 DEF ork_i8_mm_load, Keep
<1> QED BY <1>4, <1>5, <1>6, MakesLy

(* ork_i8_mm_load_import.                                                  *)
LEMMA LoadImportLy ==
    ASSUME PkInv, LyInv, NEW f \in file, NEW sh \in Shapes, ork_i8_mm_load_import(f, sh)
    PROVE  LyInv'
<1>1. PICK n, n2, B, c : /\ n = Len(Tiling(sh, Here)) /\ n2 = Len(Whole(sh)) /\ B = f.holds
                         /\ c = Cut(f.body, TileSizes(sh, KS, NMAX[Here]))
  OBVIOUS
<1>2. /\ Shaped(sh) /\ Matrix(B, sh) /\ Slices(Tiling(sh, Here), n) /\ Slices(Whole(sh), n2)
      /\ TilesHold(c, Tiling(sh, Here), n, Elements(B)) /\ Tiles(c, n)
  BY <1>1, ReaderHas DEF ork_i8_mm_load_import
<1>3. PICK r : r = Imported(sh, B, c)
  OBVIOUS
<1>4. Slices(FullK(sh, NMAX[Here]), n2)
  BY <1>2 DEF Whole
<1>5. Good(r, mem) /\ Builds(r, sh, B, c, n, Rebuilt(c, sh, NMAX[Here]), n2)
  BY <1>2, <1>3, <1>4, ImportedIs DEF PkInv, Sound_State
<1>6. ASSUME r.w # <<>> PROVE Exactly(r.w[1], r.mem)
  BY <1>2, <1>5, <1>6, RebuiltExact
<1>7. wt = <<>> /\ mem' = r.mem /\ wt' = r.w /\ UNCHANGED <<kv, file>>
  BY <1>1, <1>3 DEF ork_i8_mm_load_import, Keep
<1> QED BY <1>5, <1>6, <1>7, MakesLy

(* ork_i8_mm_import.                                                       *)
LEMMA ImportLy ==
    ASSUME PkInv, LyInv, NEW f \in file, NEW sh \in Shapes, ork_i8_mm_import(f, sh)
    PROVE  LyInv'
<1>1. PICK n, n2, B, c : /\ n = Len(Tiling(sh, Here)) /\ n2 = Len(Whole(sh)) /\ B = f.holds
                         /\ c = Cut(f.body, TileSizes(sh, KS, NMAX[Here]))
  OBVIOUS
<1>2. /\ Shaped(sh) /\ Matrix(B, sh) /\ Slices(Tiling(sh, Here), n) /\ Slices(Whole(sh), n2)
      /\ TilesHold(c, Tiling(sh, Here), n, Elements(B)) /\ Tiles(c, n)
  BY <1>1, ReaderHas DEF ork_i8_mm_import
<1>3. PICK sent : sent = [f EXCEPT !.hdr = <<>>]
  OBVIOUS
<1>4. PICK r : r = IF views THEN Adopted(sent, sh) ELSE Loaded(sent, sh, TRUE)
  OBVIOUS
<1>5. sent.body = f.body /\ sent.holds = B
  <2>1. f = [hdr |-> f.hdr, holds |-> f.holds, body |-> f.body]
    BY DEF PkInv, FileOK
  <2> QED BY <1>1, <1>3, <2>1
<1>6. Row(sent.body, Len(sent.body))
  BY <1>5 DEF PkInv, FileOK
<1>7. Good(r, mem) /\ Builds(r, sh, B, c, n, Rebuilt(c, sh, NMAX[Here]), n2)
  <2>1. Sound_State
    BY DEF PkInv, Sound_State
  <2>2. /\ Slices(SlicesOf(sh, KS, NMAX[Here]), n) /\ Slices(FullK(sh, NMAX[Here]), n2)
        /\ c = Cut(sent.body, TileSizes(sh, KS, NMAX[Here]))
    BY <1>1, <1>2, <1>5 DEF Tiling, Whole
  <2>3. CASE views
    BY <1>2, <1>4, <1>5, <1>6, <2>1, <2>2, <2>3, AdoptedIs
  <2>4. CASE ~ views
    BY <1>2, <1>4, <1>5, <2>1, <2>2, <2>4, LoadedIs
  <2> QED BY <2>3, <2>4
<1>8. ASSUME r.w # <<>> PROVE Exactly(r.w[1], r.mem)
  BY <1>2, <1>7, <1>8, RebuiltExact
<1>9. wt = <<>> /\ mem' = r.mem /\ wt' = r.w /\ UNCHANGED <<kv, file>>
  BY <1>3, <1>4 DEF ork_i8_mm_import
<1> QED BY <1>7, <1>8, <1>9, MakesLy

(* Without a device the weight is its codes.                               *)
LEMMA CodesExact ==
    ASSUME NEW m, NEW sh, NEW B, Matrix(B, sh), NEW codes, codes # <<>>, codes[1] = Elements(B),
           NEW w, w.sh = sh, w.holds = B, w.codes = codes
    PROVE  Exactly(w, m)
BY DEF Exactly

(* OfflinePack.                                                            *)
LEMMA OfflinePackLy ==
    ASSUME PkInv, LyInv, NEW sh \in Shapes, NEW v, NEW soc \in Socs, OfflinePack(sh, v, soc)
    PROVE  LyInv'
<1>1. PICK B, codes : B = Filled(sh, v) /\ codes = <<Elements(B), soc>>
  OBVIOUS
<1>2. codes # <<>> /\ codes[1] = Elements(B) /\ Matrix(B, sh)
  BY <1>1, FilledIs
<1>3. PICK r : r = Made(mem, Offline(sh, B, codes))
  OBVIOUS
<1>4. Good(r, mem) /\ r.w[1].sh = sh /\ r.w[1].holds = B /\ r.w[1].codes = codes
  BY <1>2, <1>3, OfflineIs DEF PkInv
<1>5. Exactly(r.w[1], r.mem)
  BY <1>2, <1>4, CodesExact
<1>6. wt = <<>> /\ mem' = r.mem /\ wt' = r.w /\ UNCHANGED <<kv, file>>
  BY <1>1, <1>3 DEF OfflinePack, Keep
<1> QED BY <1>4, <1>5, <1>6, MakesLy

(* OfflineLoad.                                                            *)
LEMMA OfflineLoadLy ==
    ASSUME KTILE \in {0, KS}, PkInv, LyInv, NEW f \in file, NEW sh \in Shapes, NEW soc \in Socs,
           OfflineLoad(f, sh, soc)
    PROVE  LyInv'
<1>1. PICK B, n : B = f.holds /\ n = Len(Tiling(sh, soc))
  OBVIOUS
<1>2. /\ Shaped(sh) /\ Matrix(B, sh) /\ Slices(Tiling(sh, soc), n)
      /\ TilesHold(Cut(f.body, TileSizes(sh, KS, NMAX[soc])), Tiling(sh, soc), n, Elements(B))
  BY <1>1, ReaderHas DEF OfflineLoad
<1>3. Untiled(f.body, sh, NMAX[soc]) = Elements(B)
  <2>1. PICK E : E = Elements(B)
    OBVIOUS
  <2>2. E = [at \in Places(sh) |-> E[at]]
    BY <1>2, <2>1, ElementsAre
  <2>3. orki_int8_ks = KS
    BY KsIs
  <2>4. Slices(SlicesOf(sh, orki_int8_ks, NMAX[soc]), n)
    BY <1>2, <2>3 DEF Tiling
  <2>5. TilesHold(Cut(f.body, TileSizes(sh, orki_int8_ks, NMAX[soc])),
                  SlicesOf(sh, orki_int8_ks, NMAX[soc]), n, E)
    BY <1>2, <2>1, <2>3 DEF Tiling
  <2> QED BY <1>2, <2>1, <2>2, <2>4, <2>5, UntiledIs
<1>4. PICK codes : codes = <<Untiled(f.body, sh, NMAX[soc]), soc>>
  OBVIOUS
<1>5. codes # <<>> /\ codes[1] = Elements(B)
  BY <1>3, <1>4
<1>6. PICK r : r = Made(mem, Offline(sh, B, codes))
  OBVIOUS
<1>7. Good(r, mem) /\ r.w[1].sh = sh /\ r.w[1].holds = B /\ r.w[1].codes = codes
  BY <1>5, <1>6, OfflineIs DEF PkInv
<1>8. Exactly(r.w[1], r.mem)
  BY <1>2, <1>5, <1>7, CodesExact
<1>9. wt = <<>> /\ mem' = r.mem /\ wt' = r.w /\ UNCHANGED <<kv, file>>
  BY <1>1, <1>4, <1>6 DEF OfflineLoad, Keep
<1> QED BY <1>7, <1>8, <1>9, MakesLy

-----------------------------------------------------------------------------
(* Each operation keeps it: the dumps and the frees.                       *)

(* The dumps.                                                              *)
LEMMA FilesLy ==
    ASSUME LyInv, UNCHANGED <<mem, limbo, wt, kv, views, ceil, refused>>, \A f \in file' : FileExact(f)
    PROVE  LyInv'
<1>1. AllExact(wt', mem') /\ AllExact(kv', mem')
  BY DEF LyInv
<1> QED BY <1>1 DEF LyInv

(* ork_i8_w_dump_cpu.                                                      *)
LEMMA DumpCpuLy ==
    ASSUME KTILE \in {0, KS}, LyInv, NEW sh \in Shapes, NEW v, NEW soc \in Socs, NEW st \in BOOLEAN,
           ork_i8_w_dump_cpu(sh, v, soc, st)
    PROVE  LyInv'
<1>1. Shaped(sh) /\ orki_int8_ks = KS
  BY PackedAssumption, KsIs
<1>2. PICK B, hdr, n : /\ B = Filled(sh, v) /\ hdr = IF st THEN <<>> ELSE PackHeader(soc, sh)
                       /\ n = Len(Tiling(sh, soc))
  OBVIOUS
<1>3. PICK c : c = TileSet(Elements(B), Tiling(sh, soc))
  OBVIOUS
<1>4. Matrix(B, sh) /\ Slices(Tiling(sh, soc), n) /\ hdr \in {<<>>, PackHeader(soc, sh)}
  BY <1>1, <1>2, FilledIs, TilingIs
<1>5. Tiles(c, n) /\ TilesHold(c, Tiling(sh, soc), n, Elements(B))
  BY <1>3, <1>4, TileSetIs, TileSetHolds
<1>6. PICK f : f = Dumped(hdr, B, c)
  OBVIOUS
<1>7. FileExact(f)
  BY <1>1, <1>4, <1>5, <1>6, DumpedExact
<1>8. file' = file \cup {f}
  BY <1>1, <1>2, <1>3, <1>6 DEF ork_i8_w_dump_cpu, Tiling
<1>9. \A g \in file' : FileExact(g)
  BY <1>7, <1>8 DEF LyInv
<1> QED BY <1>9, FilesLy DEF ork_i8_w_dump_cpu

(* The bytes of buffers are tiles that hold what they hold.                *)
LEMMA BytesHold ==
    ASSUME NEW m, NEW bufs, NEW n, Buffers(bufs, n, m), NEW sl, Slices(sl, n), NEW E,
           BuffersHold(m, bufs, sl, n, E)
    PROVE  Tiles(Bytes(m, bufs), n) /\ TilesHold(Bytes(m, bufs), sl, n, E)
<1>1. PICK c : c = Bytes(m, bufs)
  OBVIOUS
<1>2. n \in Nat \ {0} /\ Row(bufs, n)
  BY DEF Slices, Buffers
<1>3. \A i \in 1..n : bufs[i].off \in Nat /\ bufs[i].size \in Nat /\ bufs[i].size % PAGE = 0
  BY DEF Buffers
<1>4. /\ Tiles(c, n)
      /\ \A i \in 1..n : Len(c[i]) = bufs[i].size
      /\ \A i \in 1..n : \A o \in 1..bufs[i].size : c[i][o] = m[bufs[i].obj][bufs[i].off + o]
  BY <1>1, <1>2, <1>3, BytesAre
<1>5. ASSUME NEW i \in 1..n PROVE TileHolds(c[i], sl[i], E)
  <2>1. PICK b, s, t, k : b = bufs[i] /\ s = sl[i] /\ t = c[i] /\ k = s.Kp * s.Nc
    OBVIOUS
  <2>2. BufferHolds(m, b, s, E)
    BY <2>1 DEF BuffersHold
  <2>3. b.size = PgUp(k) /\ k <= b.size /\ \A o \in 1..k : m[b.obj][b.off + o] = Cell(E, s, o)
    BY <2>1, <2>2 DEF BufferHolds
  <2>4. k \in Nat /\ b.size \in Nat
    BY <1>3, <2>1 DEF Slices
  <2>5. \A o \in 1..k : o \in 1..b.size
    BY <2>3, <2>4
  <2>6. \A o \in 1..b.size : t[o] = m[b.obj][b.off + o]
    BY <1>4, <2>1
  <2>7. \A o \in 1..k : t[o] = Cell(E, s, o)
    BY <2>3, <2>5, <2>6
  <2>8. Len(t) = b.size
    BY <1>4, <2>1
  <2> QED BY <2>1, <2>3, <2>7, <2>8 DEF TileHolds
<1> QED BY <1>1, <1>4, <1>5 DEF TilesHold

(* ork_w_dump.                                                             *)
LEMMA DumpLy ==
    ASSUME KTILE \in {0, KS}, PkInv, LyInv, ork_w_dump
    PROVE  LyInv'
<1>1. PICK w : w = wt[1]
  OBVIOUS
<1>2. wt = <<w>> /\ Sound(w, mem) /\ WellFormed(w) /\ Exactly(w, mem)
  <2>1. wt = <<wt[1]>> /\ HeldOK(wt, mem)
    BY DEF ork_w_dump, PkInv, Owned
  <2>2. DOMAIN wt = {1}
    BY <2>1
  <2> QED BY <1>1, <2>1, <2>2 DEF HeldOK, LyInv, AllExact
<1>3. PICK B, sh : B = w.holds /\ sh = w.sh
  OBVIOUS
<1>4. Matrix(B, sh) /\ Shaped(sh) /\ orki_int8_ks = KS /\ Here \in Socs
  BY <1>2, <1>3, KsIs, PackedAssumption DEF Exactly, WellFormed
<1>5. ASSUME w.codes # <<>> PROVE \A f \in file' : FileExact(f)
  <2>1. PICK soc, n : soc = w.codes[2] /\ n = Len(Tiling(sh, soc))
    OBVIOUS
  <2>2. soc \in Socs /\ w.codes[1] = Elements(B)
    BY <1>2, <1>3, <1>5, <2>1 DEF WellFormed, Exactly
  <2>3. PICK c : c = TileSet(Elements(B), Tiling(sh, soc))
    OBVIOUS
  <2>4. Slices(Tiling(sh, soc), n)
    BY <1>4, <2>1, <2>2, TilingIs
  <2>5. Tiles(c, n) /\ TilesHold(c, Tiling(sh, soc), n, Elements(B))
    BY <2>3, <2>4, TileSetIs, TileSetHolds
  <2>6. PICK f, hdr : f = Dumped(hdr, B, c) /\ hdr = PackHeader(soc, sh)
    OBVIOUS
  <2>7. FileExact(f)
    BY <1>4, <2>2, <2>4, <2>5, <2>6, DumpedExact
  <2>8. file' = file \cup {f}
    BY <1>1, <1>3, <1>4, <1>5, <2>1, <2>2, <2>3, <2>6 DEF ork_w_dump, Tiling
  <2> QED BY <2>7, <2>8 DEF LyInv
<1>6. ASSUME w.codes = <<>> PROVE \A f \in file' : FileExact(f)
  <2>1. PICK n, c : n = Len(Tiling(sh, Here)) /\ c = Bytes(mem, w.Bb)
    OBVIOUS
  <2>2. /\ Row(w.Bb, n) /\ BuffersHold(mem, w.Bb, Tiling(sh, Here), n, Elements(B))
        /\ Slices(Tiling(sh, Here), n)
    BY <1>2, <1>3, <1>4, <1>6, <2>1, TilingIs DEF Exactly
  <2>3. Buffers(w.Bb, n, mem)
    <3>1. PICK k \in Nat : Buffers(w.Bb, k, mem)
      BY <1>2 DEF Sound
    <3>2. Len(w.Bb) = n
      BY <2>2, RowIs
    <3>3. Row(w.Bb, k)
      BY <3>1 DEF Buffers
    <3>4. Len(w.Bb) = k
      BY <3>3, RowIs
    <3> QED BY <3>1, <3>2, <3>4
  <2>4. Tiles(c, n) /\ TilesHold(c, Tiling(sh, Here), n, Elements(B))
    BY <2>1, <2>2, <2>3, BytesHold
  <2>5. PICK f, hdr : f = Dumped(hdr, B, c) /\ hdr = PackHeader(Here, sh)
    OBVIOUS
  <2>6. FileExact(f)
    BY <1>4, <2>2, <2>4, <2>5, DumpedExact
  <2>7. file' = file \cup {f}
    BY <1>1, <1>3, <1>6, <2>1, <2>5 DEF ork_w_dump
  <2> QED BY <2>6, <2>7 DEF LyInv
<1>7. \A f \in file' : FileExact(f)
  BY <1>5, <1>6
<1> QED BY <1>7, FilesLy DEF ork_w_dump

(* Forget.                                                                 *)
LEMMA ForgetLy ==
    ASSUME LyInv, NEW f \in file, Forget(f)
    PROVE  LyInv'
<1>1. \A g \in file' : FileExact(g)
  BY DEF Forget, LyInv
<1> QED BY <1>1, FilesLy DEF Forget

(* Weights that are freed.                                                 *)
LEMMA FreeLy ==
    ASSUME PkInv, LyInv, ork_mm_free_held
    PROVE  LyInv'
<1>1. PICK w : w = wt[1]
  OBVIOUS
<1>2. wt = <<w>> /\ Range(Destroyed(w)) = Objects(w) /\ Own(wt) = Objects(w)
  <2>1. wt = <<wt[1]>> /\ HeldOK(wt, mem)
    BY DEF ork_mm_free_held, PkInv, Owned
  <2>2. DOMAIN wt = {1}
    BY <2>1
  <2>3. Own(wt) = Objects(w)
    BY <1>1, <2>1, OwnIs
  <2> QED BY <1>1, <2>1, <2>2, <2>3 DEF HeldOK, Sound
<1>3. mem' = Minus(mem, Objects(w)) /\ wt' = <<>> /\ UNCHANGED <<kv, file>>
  BY <1>1, <1>2 DEF ork_mm_free_held
<1>4. \A o \in Own(kv) : o \in DOMAIN mem /\ o \notin Objects(w)
  BY <1>2 DEF PkInv, Owned
<1>5. \A o \in Own(kv) : Minus(mem, Objects(w))[o] = mem[o]
  BY <1>4, MinusIs DEF PkInv
<1>6. AllExact(kv, Minus(mem, Objects(w)))
  BY <1>5, AllMoved DEF LyInv
<1>7. AllExact(<<>>, mem')
  BY OwnIs DEF AllExact
<1>8. AllExact(wt', mem') /\ AllExact(kv', mem')
  BY <1>3, <1>6, <1>7
<1> QED BY <1>3, <1>8 DEF LyInv

(* ork_kv_resident_free.                                                   *)
LEMMA KvFreeLy ==
    ASSUME LyInv, ork_kv_resident_free
    PROVE  LyInv'
<1>1. mem' = mem /\ wt' = wt /\ kv' = <<>> /\ file' = file
  BY DEF ork_kv_resident_free
<1>2. AllExact(<<>>, mem')
  BY OwnIs DEF AllExact
<1>3. AllExact(wt', mem') /\ AllExact(kv', mem')
  BY <1>1, <1>2 DEF LyInv
<1> QED BY <1>1, <1>3 DEF LyInv

-----------------------------------------------------------------------------
(* What a write through a buffer leaves.                                   *)

(* Piece i is the only one, or none is, that has something for p.          *)
Hit(c, at, in, p, i) == {j \in in : p - at[j].off \in DOMAIN c[j]} = {i}
Miss(c, at, in, p) == {j \in in : p - at[j].off \in DOMAIN c[j]} = {}

(* One piece has something.                                                *)
LEMMA PutHit ==
    ASSUME NEW c, NEW at, NEW in, NEW p, NEW old, NEW i, i \in Int, Hit(c, at, in, p, i)
    PROVE  Put(c, at, in, p, old) = c[i][p - at[i].off]
<1>1. PICK there : there = {i}
  OBVIOUS
<1>2. there = {j \in in : p - at[j].off \in DOMAIN c[j]} /\ there # {}
  BY <1>1 DEF Hit
<1>3. (CHOOSE k \in there : \A j \in there : j <= k) = i
  BY <1>1
<1> QED BY <1>2, <1>3 DEF Put

(* None has.                                                               *)
LEMMA PutMiss ==
    ASSUME NEW c, NEW at, NEW in, NEW p, NEW old, Miss(c, at, in, p)
    PROVE  Put(c, at, in, p, old) = old
BY DEF Put, Miss

(* The buffers in an object, and what is written there.                    *)
Sharing(bufs, obj) == {i \in DOMAIN bufs : bufs[i].obj = obj}

(* What a write leaves at a place.                                         *)
LEMMA WrittenAt ==
    ASSUME NEW m, MemOK(m), NEW bufs, NEW c, NEW obj, obj \in DOMAIN m,
           Sharing(bufs, obj) # {}, NEW q, q \in 1..Len(m[obj])
    PROVE  WrittenAll(m, bufs, c)[obj][q] = Put(c, bufs, Sharing(bufs, obj), q, m[obj][q])
<1>1. PICK old, x, in : old = m[obj] /\ x = WrittenAll(m, bufs, c) /\ in = Sharing(bufs, obj)
  OBVIOUS
<1>2. Row(old, Len(old)) /\ DOMAIN old = 1..Len(old)
  BY <1>1, RowIs DEF MemOK
<1>3. x[obj] = AsSeq([p \in DOMAIN old |-> Put(c, bufs, in, p, old[p])])
  BY <1>1 DEF WrittenAll, Sharing
<1>4. PICK new : new = [p \in 1..Len(old) |-> Put(c, bufs, in, p, old[p])]
  OBVIOUS
<1>5. Row(new, Len(old))
  BY <1>2, <1>4 DEF Row
<1>6. x[obj] = new
  BY <1>2, <1>3, <1>4, <1>5, RowIs
<1> QED BY <1>1, <1>4, <1>6

(* What writing c through buffers leaves where a buffer is, and elsewhere. *)
LEMMA WrittenThere ==
    ASSUME NEW m, MemOK(m), NEW bufs, NEW n, Buffers(bufs, n, m), NEW c,
           \A i \in 1..n : DOMAIN c[i] \subseteq 1..bufs[i].size,
           NEW i \in 1..n, NEW p \in 1..bufs[i].size
    PROVE  WrittenAll(m, bufs, c)[bufs[i].obj][bufs[i].off + p]
              = IF p \in DOMAIN c[i] THEN c[i][p] ELSE m[bufs[i].obj][bufs[i].off + p]
<1>1. PICK b, obj, q : b = bufs[i] /\ obj = b.obj /\ q = b.off + p
  OBVIOUS
<1>2. n \in Nat /\ DOMAIN bufs = 1..n
  BY RowIs DEF Buffers, Row
<1>3. /\ \A j \in 1..n : bufs[j].off \in Nat /\ bufs[j].size \in Nat
      /\ \A j, k \in 1..n : j < k /\ bufs[j].obj = bufs[k].obj =>
                               bufs[j].off + bufs[j].size <= bufs[k].off
      /\ obj \in DOMAIN m /\ b.off \in Nat /\ b.size \in Nat /\ b.off + b.size <= Len(m[obj])
  BY <1>1 DEF Buffers
<1>4. PICK in, was : in = Sharing(bufs, obj) /\ was = m[obj][q]
  OBVIOUS
<1>5. i \in in /\ i \in Int /\ in \subseteq 1..n /\ \A j \in in : bufs[j].obj = obj
  BY <1>1, <1>2, <1>4 DEF Sharing
<1>6. p \in Nat \ {0} /\ p <= b.size
  BY <1>1, <1>3
<1>7. q \in 1..Len(m[obj])
  <2>1. Row(m[obj], Len(m[obj]))
    BY <1>3 DEF MemOK
  <2>2. Len(m[obj]) \in Nat
    BY <2>1 DEF Row
  <2> QED BY <1>1, <1>3, <1>6, <2>2
<1>8. WrittenAll(m, bufs, c)[obj][q] = Put(c, bufs, in, q, was)
  <2>1. in # {}
    BY <1>5
  <2>2. WrittenAll(m, bufs, c)[obj][q] = Put(c, bufs, Sharing(bufs, obj), q, m[obj][q])
    BY <1>3, <1>4, <1>7, <2>1, WrittenAt
  <2> QED BY <1>4, <2>2
<1>9. ASSUME NEW j \in in, q - bufs[j].off \in DOMAIN c[j] PROVE j = i
  <2>1. PICK y, o, z : y = q - bufs[j].off /\ o = bufs[j].off /\ z = bufs[j].size
    OBVIOUS
  <2>2. j \in 1..n /\ o \in Nat /\ z \in Nat /\ y \in 1..z /\ j \in Nat
    <3>1. j \in 1..n
      BY <1>5
    <3>2. DOMAIN c[j] \subseteq 1..bufs[j].size
      BY <3>1
    <3> QED BY <1>3, <1>9, <2>1, <3>1, <3>2
  <2>3. y = b.off + p - o
    <3>1. PICK e : e = b.off + p
      OBVIOUS
    <3>2. y = e - o
      BY <1>1, <2>1, <3>1
    <3> QED BY <1>3, <1>6, <2>2, <3>1, <3>2
  <2>4. j < i => o + z <= b.off
    BY <1>1, <1>3, <1>5, <2>1, <2>2
  <2>5. i < j => b.off + b.size <= o
    BY <1>1, <1>3, <1>5, <2>1, <2>2
  <2> QED BY <1>3, <1>5, <1>6, <2>2, <2>3, <2>4, <2>5
<1>10. q - bufs[i].off = p
  BY <1>1, <1>3, <1>6
<1>11. CASE p \in DOMAIN c[i]
  <2>1. Hit(c, bufs, in, q, i)
    BY <1>5, <1>9, <1>10, <1>11 DEF Hit
  <2>2. Put(c, bufs, in, q, was) = c[i][q - bufs[i].off]
    BY <1>5, <2>1, PutHit
  <2> QED BY <1>1, <1>8, <1>10, <1>11, <2>2
<1>12. CASE p \notin DOMAIN c[i]
  <2>1. Miss(c, bufs, in, q)
    BY <1>9, <1>10, <1>12 DEF Miss
  <2>2. Put(c, bufs, in, q, was) = was
    BY <2>1, PutMiss
  <2> QED BY <1>1, <1>4, <1>8, <1>12, <2>2
<1> QED BY <1>11, <1>12

(* Other objects stay.                                                     *)
LEMMA WrittenElsewhere ==
    ASSUME NEW m, MemOK(m), NEW bufs, NEW c, NEW obj \in DOMAIN m, obj \notin ObjectsOf(bufs)
    PROVE  WrittenAll(m, bufs, c)[obj] = m[obj]
<1>1. \A i \in DOMAIN bufs : bufs[i].obj # obj
  BY DEF ObjectsOf
<1> QED BY <1>1, WrittenObject

(* A write through one buffer.                                             *)
LEMMA WrittenOne ==
    ASSUME NEW m, MemOK(m), NEW b, b.obj \in DOMAIN m, b.off \in Int, NEW at
    PROVE  /\ \A obj \in DOMAIN m : obj # b.obj => Written(m, b, at)[obj] = m[obj]
           /\ \A q \in 1..Len(m[b.obj]) :
                 Written(m, b, at)[b.obj][q] =
                    IF q - b.off \in DOMAIN at THEN at[q - b.off] ELSE m[b.obj][q]
<1>1. PICK bufs, c : bufs = <<b>> /\ c = <<at>>
  OBVIOUS
<1>2. DOMAIN bufs = {1} /\ bufs[1] = b /\ c[1] = at
  BY <1>1
<1>3. Written(m, b, at) = WrittenAll(m, bufs, c)
  BY <1>1 DEF Written
<1>4. ASSUME NEW obj \in DOMAIN m, obj # b.obj PROVE WrittenAll(m, bufs, c)[obj] = m[obj]
  <2>1. obj \notin ObjectsOf(bufs)
    BY <1>2, <1>4 DEF ObjectsOf
  <2> QED BY <2>1, WrittenElsewhere
<1>5. ASSUME NEW q \in 1..Len(m[b.obj])
      PROVE  WrittenAll(m, bufs, c)[b.obj][q] = IF q - b.off \in DOMAIN at THEN at[q - b.off] ELSE m[b.obj][q]
  <2>1. PICK in, obj, was, u : in = {1} /\ obj = b.obj /\ was = m[obj][q] /\ u = q - b.off
    OBVIOUS
  <2>2. in = Sharing(bufs, obj) /\ Sharing(bufs, obj) # {} /\ obj \in DOMAIN m /\ q \in 1..Len(m[obj])
    BY <1>2, <2>1 DEF Sharing
  <2>3. WrittenAll(m, bufs, c)[obj][q] = Put(c, bufs, in, q, was)
    <3>1. WrittenAll(m, bufs, c)[obj][q] = Put(c, bufs, Sharing(bufs, obj), q, m[obj][q])
      BY <2>2, WrittenAt
    <3> QED BY <2>1, <2>2, <3>1
  <2>4. u = q - bufs[1].off
    BY <1>2, <2>1
  <2>5. CASE u \in DOMAIN at
    <3>1. Hit(c, bufs, in, q, 1)
      BY <1>2, <2>1, <2>4, <2>5 DEF Hit
    <3>2. Put(c, bufs, in, q, was) = c[1][q - bufs[1].off]
      BY <3>1, PutHit
    <3> QED BY <1>2, <2>1, <2>3, <2>4, <2>5, <3>2
  <2>6. CASE u \notin DOMAIN at
    <3>1. Miss(c, bufs, in, q)
      BY <1>2, <2>1, <2>4, <2>6 DEF Miss
    <3>2. Put(c, bufs, in, q, was) = was
      BY <3>1, PutMiss
    <3> QED BY <2>1, <2>3, <2>6, <3>2
  <2> QED BY <2>5, <2>6
<1> QED BY <1>3, <1>4, <1>5

-----------------------------------------------------------------------------
(* Each operation keeps it: repack.                                        *)

(* New tiles written over buffers that hold the slices of a matrix.        *)
LEMMA NewHold ==
    ASSUME NEW m, MemOK(m), NEW bufs, NEW k, Buffers(bufs, k, m), NEW sl, NEW n, Slices(sl, n),
           k \in {0, n}, NEW E, BuffersHold(m, bufs, sl, k, E),
           NEW F, NEW c, \A i \in 1..k : c[i] = Tiled(F, sl[i])
    PROVE  BuffersHold(WrittenAll(m, bufs, c), bufs, sl, k, F)
<1>1. PICK x : x = WrittenAll(m, bufs, c)
  OBVIOUS
<1>2. \A i \in 1..k : i \in 1..n
  OBVIOUS
<1>3. ASSUME NEW i \in 1..k
      PROVE  /\ BufferHolds(m, bufs[i], sl[i], E) /\ Row(c[i], sl[i].Kp * sl[i].Nc)
             /\ DOMAIN c[i] \subseteq 1..bufs[i].size
             /\ \A o \in 1..(sl[i].Kp * sl[i].Nc) : c[i][o] = Cell(F, sl[i], o)
  <2>1. PICK s, b, t, z : s = sl[i] /\ b = bufs[i] /\ t = c[i] /\ z = s.Kp * s.Nc
    OBVIOUS
  <2>2. z \in Nat
    BY <1>2, <2>1 DEF Slices
  <2>3. BufferHolds(m, b, s, E)
    BY <2>1 DEF BuffersHold
  <2>4. t = Tiled(F, s)
    BY <2>1
  <2>5. Row(t, z) /\ \A o \in 1..z : t[o] = Cell(F, s, o)
    BY <2>1, <2>2, <2>4, TiledIs DEF Cell
  <2>6. DOMAIN t \subseteq 1..b.size
    <3>1. DOMAIN t = 1..z
      BY <2>5, RowIs
    <3>2. z <= b.size
      BY <2>1, <2>3 DEF BufferHolds
    <3>3. b.size \in Nat
      BY <2>1 DEF Buffers
    <3> QED BY <2>2, <3>1, <3>2, <3>3
  <2> QED BY <2>1, <2>3, <2>5, <2>6
<1>4. ASSUME NEW i \in 1..k PROVE BufferHolds(x, bufs[i], sl[i], F)
  <2>1. PICK s, b, t, z : s = sl[i] /\ b = bufs[i] /\ t = c[i] /\ z = s.Kp * s.Nc
    OBVIOUS
  <2>2. z \in Nat /\ BufferHolds(m, b, s, E) /\ Row(t, z) /\ \A o \in 1..z : t[o] = Cell(F, s, o)
    BY <1>2, <1>3, <2>1 DEF Slices
  <2>3. b.off \in Nat /\ b.size = PgUp(z) /\ z <= b.size /\ b.size \in Nat
    <3>1. b.size \in Nat
      BY <2>1 DEF Buffers
    <3> QED BY <2>1, <2>2, <3>1 DEF BufferHolds
  <2>4. DOMAIN t = 1..z
    BY <2>2, RowIs
  <2>5. ASSUME NEW o \in 1..z PROVE x[b.obj][b.off + o] = Cell(F, s, o)
    <3>1. o \in 1..bufs[i].size
      BY <2>1, <2>2, <2>3
    <3>2. \A j \in 1..k : DOMAIN c[j] \subseteq 1..bufs[j].size
      BY <1>3
    <3>3. WrittenAll(m, bufs, c)[bufs[i].obj][bufs[i].off + o]
             = IF o \in DOMAIN c[i] THEN c[i][o] ELSE m[bufs[i].obj][bufs[i].off + o]
      BY <3>1, <3>2, WrittenThere
    <3>4. WrittenAll(m, bufs, c)[bufs[i].obj][bufs[i].off + o] = c[i][o]
      BY <2>1, <2>4, <3>3
    <3> QED BY <1>1, <2>1, <2>2, <3>4
  <2> QED BY <2>1, <2>3, <2>5 DEF BufferHolds
<1> QED BY <1>1, <1>4 DEF BuffersHold

(* Buffers in a memory of the same lengths.                                *)
LEMMA BuffersAlike ==
    ASSUME NEW bufs, NEW n, NEW m, NEW x, Buffers(bufs, n, m), Alike(m, x)
    PROVE  Buffers(bufs, n, x)
<1>1. ASSUME NEW i \in 1..n
      PROVE  /\ bufs[i].obj \in DOMAIN x /\ bufs[i].off \in Nat
             /\ bufs[i].size \in Nat /\ bufs[i].size % PAGE = 0
             /\ bufs[i].off + bufs[i].size <= Len(x[bufs[i].obj])
  <2>1. bufs[i].obj \in DOMAIN m
    BY DEF Buffers
  <2>2. Len(x[bufs[i].obj]) = Len(m[bufs[i].obj]) /\ bufs[i].obj \in DOMAIN x
    BY <2>1 DEF Alike
  <2> QED BY <2>2 DEF Buffers
<1> QED BY <1>1 DEF Buffers

(* The buffers of a weight with tiles, and their number.                   *)
LEMMA ExactBuffers ==
    ASSUME NEW w, NEW m, Sound(w, m), WellFormed(w), Exactly(w, m), w.codes = <<>>
    PROVE  \E n, n2 : \E k \in {0, n2} :
              /\ n = Len(Tiling(w.sh, Here)) /\ n2 = Len(Whole(w.sh)) /\ n \in Nat \ {0}
              /\ Slices(Tiling(w.sh, Here), n) /\ Slices(Whole(w.sh), n2)
              /\ Buffers(w.Bb, n, m) /\ BuffersHold(m, w.Bb, Tiling(w.sh, Here), n, Elements(w.holds))
              /\ Buffers(w.Bf, k, m) /\ BuffersHold(m, w.Bf, Whole(w.sh), k, Elements(w.holds))
              /\ DOMAIN w.Bb = 1..n /\ DOMAIN w.Bf = 1..k
<1>1. PICK n, n2 : n = Len(Tiling(w.sh, Here)) /\ n2 = Len(Whole(w.sh))
  OBVIOUS
<1>2. Slices(Tiling(w.sh, Here), n) /\ Slices(Whole(w.sh), n2) /\ n \in Nat \ {0}
  <2>1. Here \in Socs /\ Shaped(w.sh)
    BY PackedAssumption DEF WellFormed
  <2>2. Slices(Tiling(w.sh, Here), n) /\ Slices(Whole(w.sh), n2)
    BY <1>1, <2>1, TilingIs
  <2> QED BY <2>2 DEF Slices
<1>3. Row(w.Bb, n) /\ BuffersHold(m, w.Bb, Tiling(w.sh, Here), n, Elements(w.holds))
  BY <1>1 DEF Exactly
<1>4. PICK k \in {0, n2} : Row(w.Bf, k) /\ BuffersHold(m, w.Bf, Whole(w.sh), k, Elements(w.holds))
  BY <1>1 DEF Exactly
<1>5. Buffers(w.Bb, n, m)
  <2>1. PICK a \in Nat : Buffers(w.Bb, a, m)
    BY DEF Sound
  <2>2. Row(w.Bb, a)
    BY <2>1 DEF Buffers
  <2>3. Len(w.Bb) = a /\ Len(w.Bb) = n
    BY <1>3, <2>2, RowIs
  <2> QED BY <2>1, <2>3
<1>6. Buffers(w.Bf, k, m)
  <2>1. PICK a \in Nat : Buffers(w.Bf, a, m)
    BY DEF Sound
  <2>2. Row(w.Bf, a)
    BY <2>1 DEF Buffers
  <2>3. Len(w.Bf) = a /\ Len(w.Bf) = k
    BY <1>4, <2>2, RowIs
  <2> QED BY <2>1, <2>3
<1>7. DOMAIN w.Bb = 1..n /\ DOMAIN w.Bf = 1..k
  BY <1>3, <1>4, RowIs
<1> QED BY <1>1, <1>2, <1>3, <1>4, <1>5, <1>6, <1>7

(* ork_i8_mm_repack.                                                       *)
LEMMA RepackLy ==
    ASSUME PkInv, LyInv, NEW v, ork_i8_mm_repack(v)
    PROVE  LyInv'
<1>1. PICK w, B : w = wt[1] /\ B = Filled(w.sh, v)
  OBVIOUS
<1>2. wt = <<w>> /\ w.codes = <<>> /\ DOMAIN wt = {1}
  BY <1>1 DEF ork_i8_mm_repack, PkInv
<1>3. Sound(w, mem) /\ WellFormed(w) /\ Exactly(w, mem) /\ MemOK(mem) /\ Own(wt) = Objects(w)
  <2>1. HeldOK(wt, mem) /\ AllExact(wt, mem) /\ MemOK(mem)
    BY DEF PkInv, Owned, LyInv
  <2> QED BY <1>1, <1>2, <2>1, OwnIs DEF HeldOK, AllExact
<1>4. PICK n, n2 : \E k \in {0, n2} :
              /\ n = Len(Tiling(w.sh, Here)) /\ n2 = Len(Whole(w.sh)) /\ n \in Nat \ {0}
              /\ Slices(Tiling(w.sh, Here), n) /\ Slices(Whole(w.sh), n2)
              /\ Buffers(w.Bb, n, mem) /\ BuffersHold(mem, w.Bb, Tiling(w.sh, Here), n, Elements(w.holds))
              /\ Buffers(w.Bf, k, mem) /\ BuffersHold(mem, w.Bf, Whole(w.sh), k, Elements(w.holds))
              /\ DOMAIN w.Bb = 1..n /\ DOMAIN w.Bf = 1..k
  BY <1>2, <1>3, ExactBuffers
<1>5. PICK k \in {0, n2} :
              /\ n = Len(Tiling(w.sh, Here)) /\ n2 = Len(Whole(w.sh)) /\ n \in Nat \ {0}
              /\ Slices(Tiling(w.sh, Here), n) /\ Slices(Whole(w.sh), n2)
              /\ Buffers(w.Bb, n, mem) /\ BuffersHold(mem, w.Bb, Tiling(w.sh, Here), n, Elements(w.holds))
              /\ Buffers(w.Bf, k, mem) /\ BuffersHold(mem, w.Bf, Whole(w.sh), k, Elements(w.holds))
              /\ DOMAIN w.Bb = 1..n /\ DOMAIN w.Bf = 1..k
  BY <1>4
<1>6. PICK c1, c2 : c1 = NewTiles(w, B) /\ c2 = NewFull(w, B)
  OBVIOUS
<1>7. PICK F, sl, full : F = Elements(B) /\ sl = Tiling(w.sh, Here) /\ full = Whole(w.sh)
  OBVIOUS
<1>8. \A i \in 1..n : c1[i] = Tiled(F, sl[i])
  <2>1. PICK f : f = [i \in 1..n |-> Tiled(F, sl[i])]
    OBVIOUS
  <2>2. Row(f, n)
    BY <1>5, <2>1 DEF Row
  <2>3. c1 = AsSeq(f)
    BY <1>5, <1>6, <1>7, <2>1 DEF NewTiles, Tiling
  <2>4. AsSeq(f) = f
    BY <2>2, RowIs
  <2> QED BY <2>1, <2>3, <2>4
<1>9. \A i \in 1..k : c2[i] = Tiled(F, full[i])
  <2>1. PICK f : f = [i \in 1..k |-> Tiled(F, full[i])]
    OBVIOUS
  <2>2. Row(f, k)
    BY <1>5, <2>1 DEF Row, Buffers
  <2>3. c2 = AsSeq(f)
    BY <1>5, <1>6, <1>7, <2>1 DEF NewFull, Whole
  <2>4. AsSeq(f) = f
    BY <2>2, RowIs
  <2> QED BY <2>1, <2>3, <2>4
<1>10. PICK m1 : m1 = WrittenAll(mem, w.Bb, c1)
  OBVIOUS
<1>11. PICK m2 : m2 = WrittenAll(m1, w.Bf, c2)
  OBVIOUS
<1>12. PICK x : x = [w EXCEPT !.holds = B]
  OBVIOUS
<1>13. mem' = m2 /\ wt' = <<x>> /\ UNCHANGED <<kv, file>>
  BY <1>1, <1>6, <1>10, <1>11, <1>12 DEF ork_i8_mm_repack
<1>14. x.sh = w.sh /\ x.codes = w.codes /\ x.holds = B /\ x.Bb = w.Bb /\ x.Bf = w.Bf
  BY <1>3, <1>12, SoundRenewed
<1>15. Alike(mem, m1) /\ MemOK(m1) /\ DOMAIN m1 = DOMAIN mem
  BY <1>3, <1>10, WrittenAlike DEF Alike
<1>16. BuffersHold(m1, w.Bb, sl, n, F)
  BY <1>3, <1>5, <1>7, <1>8, <1>10, NewHold
<1>17. ObjectsOf(w.Bb) \cap ObjectsOf(w.Bf) = {}
  BY <1>3 DEF Sound
<1>18. \A i \in 1..k : w.Bf[i].obj \in ObjectsOf(w.Bf) /\ w.Bf[i].obj \in DOMAIN mem
  BY <1>5 DEF ObjectsOf, Buffers
<1>19. \A i \in 1..n : w.Bb[i].obj \in ObjectsOf(w.Bb) /\ w.Bb[i].obj \in DOMAIN mem
  BY <1>5 DEF ObjectsOf, Buffers
<1>20. BuffersHold(m1, w.Bf, full, k, Elements(w.holds))
  <2>1. ASSUME NEW i \in 1..k PROVE m1[w.Bf[i].obj] = mem[w.Bf[i].obj]
    <3>1. w.Bf[i].obj \in DOMAIN mem /\ w.Bf[i].obj \notin ObjectsOf(w.Bb)
      BY <1>17, <1>18
    <3> QED BY <1>3, <1>10, <3>1, WrittenElsewhere
  <2> QED BY <1>5, <1>7, <2>1, HoldsMoved
<1>21. Buffers(w.Bf, k, m1)
  BY <1>5, <1>15, BuffersAlike
<1>22. BuffersHold(m2, w.Bf, full, k, F)
  BY <1>5, <1>7, <1>9, <1>11, <1>15, <1>20, <1>21, NewHold
<1>23. BuffersHold(m2, w.Bb, sl, n, F)
  <2>1. ASSUME NEW i \in 1..n PROVE m2[w.Bb[i].obj] = m1[w.Bb[i].obj]
    <3>1. w.Bb[i].obj \in DOMAIN m1 /\ w.Bb[i].obj \notin ObjectsOf(w.Bf)
      BY <1>15, <1>17, <1>19
    <3> QED BY <1>11, <1>15, <3>1, WrittenElsewhere
  <2> QED BY <1>16, <2>1, HoldsMoved
<1>24. Exactly(x, m2)
  <2>1. Matrix(B, w.sh)
    BY <1>1, FilledIs
  <2>2. Row(w.Bb, n) /\ Row(w.Bf, k)
    BY <1>5 DEF Buffers
  <2> QED BY <1>2, <1>5, <1>7, <1>14, <1>22, <1>23, <2>1, <2>2 DEF Exactly
<1>25. AllExact(kv, m2)
  <2>1. ASSUME NEW o \in Own(kv) PROVE m2[o] = mem[o]
    <3>1. o \in DOMAIN mem /\ o \notin Objects(w)
      BY <1>3 DEF PkInv, Owned
    <3>2. o \notin ObjectsOf(w.Bb) /\ o \notin ObjectsOf(w.Bf)
      BY <3>1, ObjectsAre
    <3>3. m1[o] = mem[o]
      BY <1>3, <1>10, <3>1, <3>2, WrittenElsewhere
    <3>4. m2[o] = m1[o]
      BY <1>11, <1>15, <3>1, <3>2, WrittenElsewhere
    <3> QED BY <3>3, <3>4
  <2> QED BY <2>1, AllMoved DEF LyInv
<1>26. AllExact(wt', mem') /\ AllExact(kv', mem')
  BY <1>13, <1>24, <1>25, OwnIs DEF AllExact
<1> QED BY <1>13, <1>26 DEF LyInv

-----------------------------------------------------------------------------
(* One tile is patched.                                                    *)

(* Where at has an element it is that of E2 in slice s, and elsewhere E2   *)
(* is E there; E2 is E all over s; and both, of slice i and of the others. *)
Patch(at, s, E, E2) ==
    /\ DOMAIN at \subseteq 1..(s.Kp * s.Nc)
    /\ \A o \in 1..(s.Kp * s.Nc) : Cell(E2, s, o) = IF o \in DOMAIN at THEN at[o] ELSE Cell(E, s, o)

Same(s, E, E2) == \A o \in 1..(s.Kp * s.Nc) : Cell(E2, s, o) = Cell(E, s, o)

Patches(at, i, sl, n, E, E2) ==
    /\ i \in 1..n /\ Patch(at, sl[i], E, E2)
    /\ \A j \in 1..n : j # i => Same(sl[j], E, E2)

(* One buffer after a patch.                                               *)
LEMMA PatchedOne ==
    ASSUME NEW m, MemOK(m), NEW bufs, NEW k, Buffers(bufs, k, m), NEW sl, NEW E, NEW E2, NEW i,
           NEW at, Patches(at, i, sl, k, E, E2), BuffersHold(m, bufs, sl, k, E),
           NEW j \in 1..k, NEW z \in Nat, z = sl[j].Kp * sl[j].Nc,
           NEW y \in Nat, y = sl[i].Kp * sl[i].Nc
    PROVE  BufferHolds(Written(m, bufs[i], at), bufs[j], sl[j], E2)
<1>1. PICK b, s, p, x : b = bufs[j] /\ s = sl[j] /\ p = bufs[i] /\ x = Written(m, p, at)
  OBVIOUS
<1>2. i \in 1..k /\ k \in Nat /\ z = s.Kp * s.Nc
  BY <1>1 DEF Patches, Buffers, Row
<1>3. BufferHolds(m, b, s, E) /\ BufferHolds(m, p, sl[i], E)
  BY <1>1, <1>2 DEF BuffersHold
<1>4. /\ b.obj \in DOMAIN m /\ b.off \in Nat /\ b.size \in Nat /\ b.off + b.size <= Len(m[b.obj])
      /\ p.obj \in DOMAIN m /\ p.off \in Nat /\ p.size \in Nat
  BY <1>1, <1>2 DEF Buffers
<1>5. /\ i < j /\ p.obj = b.obj => p.off + p.size <= b.off
      /\ j < i /\ p.obj = b.obj => b.off + b.size <= p.off
  BY <1>1, <1>2 DEF Buffers
<1>6. /\ \A obj \in DOMAIN m : obj # p.obj => x[obj] = m[obj]
      /\ \A q \in 1..Len(m[p.obj]) : x[p.obj][q] = IF q - p.off \in DOMAIN at THEN at[q - p.off] ELSE m[p.obj][q]
  <2>1. p.off \in Int
    BY <1>4
  <2>2. /\ \A obj \in DOMAIN m : obj # p.obj => Written(m, p, at)[obj] = m[obj]
        /\ \A q \in 1..Len(m[p.obj]) :
              Written(m, p, at)[p.obj][q] = IF q - p.off \in DOMAIN at THEN at[q - p.off] ELSE m[p.obj][q]
    BY <1>4, <2>1, WrittenOne
  <2>3. x = Written(m, p, at)
    BY <1>1
  <2> QED BY <2>2, <2>3
<1>7. z <= b.size /\ \A o \in 1..z : m[b.obj][b.off + o] = Cell(E, s, o)
  BY <1>2, <1>3 DEF BufferHolds
<1>8. DOMAIN at \subseteq 1..y /\ y <= p.size
  BY <1>3 DEF Patches, Patch, BufferHolds
<1>9. ASSUME NEW o \in 1..z PROVE x[b.obj][b.off + o] = Cell(E2, s, o)
  <2>1. PICK q, u : q = b.off + o /\ u = q - p.off
    OBVIOUS
  <2>2. q \in 1..Len(m[b.obj]) /\ q \in Nat
    <3>1. Row(m[b.obj], Len(m[b.obj]))
      BY <1>4 DEF MemOK
    <3>2. PICK len, off, size : len = Len(m[b.obj]) /\ off = b.off /\ size = b.size
      OBVIOUS
    <3>3. len \in Nat /\ off \in Nat /\ size \in Nat /\ off + size <= len
      BY <1>4, <3>1, <3>2 DEF Row
    <3>4. z <= size /\ q = off + o
      BY <1>7, <2>1, <3>2
    <3>5. q \in 1..len
      BY <3>3, <3>4
    <3> QED BY <3>2, <3>5
  <2>3. CASE i = j
    <3>1. b = p /\ u = o
      BY <1>1, <1>4, <2>1, <2>3
    <3>2. Cell(E2, s, o) = IF o \in DOMAIN at THEN at[o] ELSE Cell(E, s, o)
      BY <1>1, <1>2, <2>3 DEF Patches, Patch
    <3>3. x[b.obj][q] = IF o \in DOMAIN at THEN at[o] ELSE m[b.obj][q]
      BY <1>6, <2>1, <2>2, <3>1
    <3> QED BY <1>7, <2>1, <3>2, <3>3
  <2>4. CASE i # j
    <3>1. Cell(E2, s, o) = Cell(E, s, o)
      BY <1>1, <1>2, <2>4 DEF Patches, Same
    <3>2. CASE b.obj # p.obj
      BY <1>4, <1>6, <1>7, <2>1, <3>1, <3>2
    <3>3. CASE b.obj = p.obj
      <4>1. u \notin 1..y
        <5>1. PICK bo, bs, po, ps : bo = b.off /\ bs = b.size /\ po = p.off /\ ps = p.size
          OBVIOUS
        <5>2. /\ bo \in Nat /\ bs \in Nat /\ po \in Nat /\ ps \in Nat /\ z <= bs /\ y <= ps
              /\ q = bo + o /\ u = q - po
          BY <1>4, <1>7, <1>8, <2>1, <5>1
        <5>3. po + ps <= bo \/ bo + bs <= po
          <6>1. i \in Int /\ j \in Int
            BY <1>2
          <6>2. i < j \/ j < i
            BY <2>4, <6>1
          <6> QED BY <1>5, <3>3, <5>1, <6>2
        <5> QED BY <5>2, <5>3
      <4>2. u \notin DOMAIN at
        BY <1>8, <4>1
      <4>3. x[b.obj][q] = m[b.obj][q]
        BY <1>6, <2>1, <2>2, <3>3, <4>2
      <4> QED BY <1>7, <2>1, <3>1, <4>3
    <3> QED BY <3>2, <3>3
  <2> QED BY <2>3, <2>4
<1> QED BY <1>1, <1>2, <1>3, <1>9 DEF BufferHolds

(* The buffers after a patch.                                              *)
LEMMA Patched ==
    ASSUME NEW m, MemOK(m), NEW bufs, NEW k, Buffers(bufs, k, m), NEW sl, Slices(sl, k), NEW E, NEW E2,
           NEW i, NEW at, Patches(at, i, sl, k, E, E2), BuffersHold(m, bufs, sl, k, E)
    PROVE  BuffersHold(Written(m, bufs[i], at), bufs, sl, k, E2)
<1>1. PICK y : y = sl[i].Kp * sl[i].Nc
  OBVIOUS
<1>2. y \in Nat
  BY <1>1 DEF Patches, Slices
<1>3. ASSUME NEW j \in 1..k PROVE BufferHolds(Written(m, bufs[i], at), bufs[j], sl[j], E2)
  <2>1. PICK z : z = sl[j].Kp * sl[j].Nc
    OBVIOUS
  <2>2. z \in Nat
    BY <2>1 DEF Slices
  <2> QED BY <1>1, <1>2, <2>1, <2>2, PatchedOne
<1> QED BY <1>3 DEF BuffersHold

(* One buffer written: what is in other objects stays.                     *)
LEMMA WrittenBeside ==
    ASSUME NEW m, MemOK(m), NEW b, b.obj \in DOMAIN m, b.off \in Nat, NEW at
    PROVE  /\ Alike(m, Written(m, b, at)) /\ MemOK(Written(m, b, at))
           /\ \A obj \in DOMAIN m : obj # b.obj => Written(m, b, at)[obj] = m[obj]
<1>1. PICK bufs, c : bufs = <<b>> /\ c = <<at>>
  OBVIOUS
<1>2. Alike(m, WrittenAll(m, bufs, c))
  BY WrittenAlike
<1>3. Written(m, b, at) = WrittenAll(m, bufs, c)
  BY <1>1 DEF Written
<1>4. b.off \in Int
  OBVIOUS
<1> QED BY <1>2, <1>3, <1>4, WrittenOne DEF Alike

(* New elements of a weight, written over Bf and over one of its tiles.    *)
Refreshed(w, m, at) == IF w.Bf # <<>> THEN Written(m, w.Bf[1], at) ELSE m
Appended(w, m, full, i, at) == Written(Refreshed(w, m, full), w.Bb[i], at)

(* A patch of a weight.                                                    *)
LEMMA AppendTo ==
    ASSUME NEW w, NEW m, MemOK(m), Sound(w, m), WellFormed(w), Exactly(w, m), w.codes = <<>>,
           NEW B, Matrix(B, w.sh), NEW i, NEW at, NEW full,
           Patches(full, 1, Whole(w.sh), Len(Whole(w.sh)), Elements(w.holds), Elements(B)),
           Patches(at, i, Tiling(w.sh, Here), Len(Tiling(w.sh, Here)), Elements(w.holds), Elements(B)),
           NEW m2, m2 = Appended(w, m, full, i, at), NEW x, x = [w EXCEPT !.holds = B]
    PROVE  /\ Alike(m, m2) /\ MemOK(m2) /\ Exactly(x, m2)
           /\ \A o \in DOMAIN m \ Objects(w) : m2[o] = m[o]
<1>1. PICK m1 : m1 = IF w.Bf # <<>> THEN Written(m, w.Bf[1], full) ELSE m
  OBVIOUS
<1>2. m2 = Written(m1, w.Bb[i], at)
  BY <1>1 DEF Appended, Refreshed
<1>3. PICK E, F, sl, fl : /\ E = Elements(w.holds) /\ F = Elements(B)
                          /\ sl = Tiling(w.sh, Here) /\ fl = Whole(w.sh)
  OBVIOUS
<1>4. PICK n, n2 : \E k \in {0, n2} :
              /\ n = Len(sl) /\ n2 = Len(fl) /\ n \in Nat \ {0}
              /\ Slices(sl, n) /\ Slices(fl, n2)
              /\ Buffers(w.Bb, n, m) /\ BuffersHold(m, w.Bb, sl, n, E)
              /\ Buffers(w.Bf, k, m) /\ BuffersHold(m, w.Bf, fl, k, E)
              /\ DOMAIN w.Bb = 1..n /\ DOMAIN w.Bf = 1..k
  BY <1>3, ExactBuffers
<1>5. PICK k \in {0, n2} :
              /\ n = Len(sl) /\ n2 = Len(fl) /\ n \in Nat \ {0}
              /\ Slices(sl, n) /\ Slices(fl, n2)
              /\ Buffers(w.Bb, n, m) /\ BuffersHold(m, w.Bb, sl, n, E)
              /\ Buffers(w.Bf, k, m) /\ BuffersHold(m, w.Bf, fl, k, E)
              /\ DOMAIN w.Bb = 1..n /\ DOMAIN w.Bf = 1..k
  BY <1>4
<1>6. Patches(full, 1, fl, n2, E, F) /\ Patches(at, i, sl, n, E, F)
  BY <1>3, <1>5
<1>7. ObjectsOf(w.Bb) \cap ObjectsOf(w.Bf) = {} /\ Objects(w) = ObjectsOf(w.Bb) \cup ObjectsOf(w.Bf)
  BY ObjectsAre DEF Sound
<1>8. \A j \in 1..k : w.Bf[j].obj \in ObjectsOf(w.Bf) /\ w.Bf[j].obj \in DOMAIN m /\ w.Bf[j].off \in Nat
  BY <1>5 DEF ObjectsOf, Buffers
<1>9. \A j \in 1..n : w.Bb[j].obj \in ObjectsOf(w.Bb) /\ w.Bb[j].obj \in DOMAIN m /\ w.Bb[j].off \in Nat
  BY <1>5 DEF ObjectsOf, Buffers
<1>10. /\ Alike(m, m1) /\ MemOK(m1) /\ BuffersHold(m1, w.Bf, fl, k, F)
      /\ \A o \in DOMAIN m : o \notin ObjectsOf(w.Bf) => m1[o] = m[o]
  <2>1. CASE w.Bf = <<>>
    <3>1. m1 = m /\ Len(w.Bf) = 0 /\ Len(w.Bf) = k
      BY <1>1, <1>5, <2>1, RowIs DEF Buffers
    <3>2. Alike(m, m)
      BY DEF Alike
    <3>3. BuffersHold(m, w.Bf, fl, k, F)
      BY <3>1 DEF BuffersHold
    <3> QED BY <3>1, <3>2, <3>3
  <2>2. CASE w.Bf # <<>>
    <3>1. k = n2 /\ 1 \in 1..k
      <4>1. k # 0
        <5>1. ASSUME k = 0 PROVE FALSE
          <6>1. w.Bf = [j \in 1..0 |-> w.Bf[j]]
            BY <1>5, <5>1 DEF Buffers, Row
          <6>2. w.Bf = <<>>
            BY <6>1
          <6> QED BY <2>2, <6>2
        <5> QED BY <5>1
      <4>2. k = n2
        BY <4>1
      <4> QED BY <1>5, <4>2 DEF Slices
    <3>2. m1 = Written(m, w.Bf[1], full)
      BY <1>1, <2>2
    <3>3. PICK b : b = w.Bf[1]
      OBVIOUS
    <3>4. b.obj \in DOMAIN m /\ b.off \in Nat /\ b.obj \in ObjectsOf(w.Bf)
      BY <1>8, <3>1, <3>3
    <3>5. /\ Alike(m, Written(m, b, full)) /\ MemOK(Written(m, b, full))
          /\ \A obj \in DOMAIN m : obj # b.obj => Written(m, b, full)[obj] = m[obj]
      BY <3>4, WrittenBeside
    <3>6. BuffersHold(m1, w.Bf, fl, k, F)
      BY <1>5, <1>6, <3>1, <3>2, Patched
    <3> QED BY <3>2, <3>3, <3>4, <3>5, <3>6
  <2> QED BY <2>1, <2>2
<1>11. DOMAIN m1 = DOMAIN m /\ i \in 1..n
  BY <1>6, <1>10 DEF Alike, Patches
<1>12. Buffers(w.Bb, n, m1)
  BY <1>5, <1>10, BuffersAlike
<1>13. BuffersHold(m1, w.Bb, sl, n, E)
  <2>1. \A j \in 1..n : m1[w.Bb[j].obj] = m[w.Bb[j].obj]
    BY <1>7, <1>9, <1>10
  <2> QED BY <1>5, <2>1, HoldsMoved
<1>14. BuffersHold(m2, w.Bb, sl, n, F)
  BY <1>2, <1>5, <1>6, <1>10, <1>12, <1>13, Patched
<1>15. PICK b : b = w.Bb[i]
  OBVIOUS
<1>16. b.obj \in DOMAIN m1 /\ b.off \in Nat /\ b.obj \in ObjectsOf(w.Bb)
  BY <1>9, <1>11, <1>15
<1>17. /\ Alike(m1, m2) /\ MemOK(m2) /\ \A o \in DOMAIN m1 : o # b.obj => m2[o] = m1[o]
  <2>1. m2 = Written(m1, b, at)
    BY <1>2, <1>15
  <2>2. /\ Alike(m1, Written(m1, b, at)) /\ MemOK(Written(m1, b, at))
        /\ \A obj \in DOMAIN m1 : obj # b.obj => Written(m1, b, at)[obj] = m1[obj]
    BY <1>10, <1>16, WrittenBeside
  <2> QED BY <2>1, <2>2
<1>18. BuffersHold(m2, w.Bf, fl, k, F)
  <2>1. \A j \in 1..k : m2[w.Bf[j].obj] = m1[w.Bf[j].obj]
    BY <1>7, <1>8, <1>11, <1>16, <1>17
  <2> QED BY <1>10, <2>1, HoldsMoved
<1>19. x.sh = w.sh /\ x.codes = w.codes /\ x.holds = B /\ x.Bb = w.Bb /\ x.Bf = w.Bf
  BY SoundRenewed
<1>20. Exactly(x, m2)
  <2>1. Row(w.Bb, n) /\ Row(w.Bf, k)
    BY <1>5 DEF Buffers
  <2> QED BY <1>3, <1>5, <1>14, <1>18, <1>19, <2>1 DEF Exactly
<1>21. Alike(m, m2)
  BY <1>10, <1>17, AlikeTwice
<1>22. ASSUME NEW o \in DOMAIN m \ Objects(w) PROVE m2[o] = m[o]
  <2>1. o \notin ObjectsOf(w.Bb) /\ o \notin ObjectsOf(w.Bf) /\ o \in DOMAIN m1
    BY <1>7, <1>11
  <2>2. m2[o] = m1[o] /\ m1[o] = m[o]
    BY <1>10, <1>16, <1>17, <2>1
  <2> QED BY <2>2
<1> QED BY <1>17, <1>20, <1>21, <1>22

-----------------------------------------------------------------------------
(* A column or a row of a matrix is patched.                               *)

(* A place of a slice is one of the matrix, and what is there.             *)
LEMMA PlaceInSlice ==
    ASSUME NEW sh, NEW s, IsSlice(s, sh), sh[1] \in Nat, sh[2] \in Nat,
           NEW r \in 0..(s.Kp - 1), NEW q \in 0..(s.Nc - 1)
    PROVE  <<s.k0 + r, s.n0 + q>> \in Places(sh)
<1>1. PICK a, b, k0, n0, kp, nc : /\ a = sh[1] /\ b = sh[2] /\ k0 = s.k0 /\ n0 = s.n0
                                  /\ kp = s.Kp /\ nc = s.Nc
  OBVIOUS
<1>2. /\ k0 \in Nat /\ n0 \in Nat /\ kp \in Nat \ {0} /\ nc \in Nat \ {0} /\ a \in Nat /\ b \in Nat
      /\ k0 + kp <= a /\ n0 + nc <= b
  BY <1>1 DEF IsSlice, Blocks
<1>3. r \in 0..(kp - 1) /\ q \in 0..(nc - 1)
  BY <1>1
<1>4. k0 + r \in 0..(a - 1) /\ n0 + q \in 0..(b - 1)
  BY <1>2, <1>3
<1>5. PICK k, n : k = k0 + r /\ n = n0 + q
  OBVIOUS
<1>6. <<k, n>> \in Places(sh)
  BY <1>1, <1>4, <1>5 DEF Places
<1> QED BY <1>1, <1>5, <1>6

(* The row and the column of a place.                                      *)
IsAt(s, o, r, q) == r \in 0..(s.Kp - 1) /\ q \in 0..(s.Nc - 1) /\ InTile(o - 1, r, q, s.Kp, s.Nc)

(* A place has them.                                                       *)
LEMMA RowColumnOf ==
    ASSUME NEW s, NEW sh, IsSlice(s, sh), NEW o \in 1..(s.Kp * s.Nc),
           NEW r, NEW q, r = RowOf(o - 1, s.Kp), q = ColOf(o - 1, s.Kp)
    PROVE  IsAt(s, o, r, q) /\ o \in Int
<1>1. PICK z : z = s.Kp * s.Nc
  OBVIOUS
<1>2. z \in Nat \ {0} /\ Blocks(s.Kp) /\ Blocks(s.Nc)
  BY <1>1 DEF IsSlice
<1>3. o - 1 \in 0..(s.Kp * s.Nc - 1)
  BY <1>1, <1>2
<1>4. InTile(o - 1, RowOf(o - 1, s.Kp), ColOf(o - 1, s.Kp), s.Kp, s.Nc)
  BY <1>2, <1>3, PlaceIs
<1>5. o \in Int
  BY <1>1, <1>2
<1>6. IsAt(s, o, r, q)
  <2>1. InTile(o - 1, r, q, s.Kp, s.Nc)
    BY <1>4
  <2>2. r \in 0..(s.Kp - 1) /\ q \in 0..(s.Nc - 1)
    BY <2>1 DEF InTile
  <2> QED BY <2>1, <2>2 DEF IsAt
<1> QED BY <1>5, <1>6

(* An element of a matrix.                                                 *)
LEMMA ElementIs ==
    ASSUME NEW sh, NEW B, Matrix(B, sh), NEW at \in Places(sh), NEW v, v = B[at], v # 0
    PROVE  Elements(B)[at] = <<v, at[1], at[2]>>
BY ElementsAre

(* An element that is what it was.                                         *)
LEMMA ChangedIs ==
    ASSUME NEW sh, NEW B, Matrix(B, sh), NEW B2, Matrix(B2, sh), NEW at \in Places(sh), B2[at] = B[at]
    PROVE  Elements(B2)[at] = Elements(B)[at]
<1>1. Elements(B)[at] = IF B[at] = 0 THEN Zero ELSE <<B[at], at[1], at[2]>>
  BY ElementsAre
<1>2. Elements(B2)[at] = IF B2[at] = 0 THEN Zero ELSE <<B2[at], at[1], at[2]>>
  BY ElementsAre
<1>3. PICK e : e = B[at]
  OBVIOUS
<1>4. B2[at] = e
  BY <1>3
<1> QED BY <1>1, <1>2, <1>3, <1>4

(* A new column, and a new row of a slice: the elements that are written,  *)
(* and the matrix after it.                                                *)
Column(sh, key, H, v) ==
    [o \in {Spot(k, key, sh[1]) + 1 : k \in 0..(H - 1)} |-> <<v, RowOf(o - 1, sh[1]), key>>]
ColumnSet(B, B2, sh, key, H, v) ==
    \A at \in Places(sh) : B2[at] = IF at[2] = key /\ at[1] < H THEN v ELSE B[at]

RowIn(Kp, lk, sh, key, v) ==
    [o \in {Spot(lk, e, Kp) + 1 : e \in 0..(sh[2] - 1)} |-> <<v, key, ColOf(o - 1, Kp)>>]
RowSet(B, B2, sh, key, v) ==
    \A at \in Places(sh) : B2[at] = IF at[1] = key THEN v ELSE B[at]

(* A new column of a matrix that is one slice.                             *)
LEMMA ColumnPatch ==
    ASSUME NEW sh, Shaped(sh), NEW s, IsSlice(s, sh), s.k0 = 0, s.n0 = 0, s.Kp = sh[1], s.Nc = sh[2],
           NEW H \in Nat, H <= sh[1], NEW key \in 0..(sh[2] - 1), NEW v, v # 0,
           NEW B, Matrix(B, sh), NEW B2, Matrix(B2, sh),
           ColumnSet(B, B2, sh, key, H, v), NEW col, col = Column(sh, key, H, v)
    PROVE  Patch(col, s, Elements(B), Elements(B2))
<1>1. PICK a, b : a = sh[1] /\ b = sh[2]
  OBVIOUS
<1>2. a \in Nat \ {0} /\ b \in Nat \ {0} /\ Blocks(a) /\ Blocks(b) /\ H <= a /\ key \in 0..(b - 1)
      /\ s.Kp = a /\ s.Nc = b
  BY <1>1 DEF Shaped, Blocks
<1>3. PICK S : S = {Spot(k, key, a) + 1 : k \in 0..(H - 1)}
  OBVIOUS
<1>4. col = [o \in S |-> <<v, RowOf(o - 1, a), key>>] /\ DOMAIN col = S
  BY <1>1, <1>3 DEF Column
<1>5. ASSUME NEW k \in 0..(H - 1)
      PROVE  /\ Spot(k, key, a) + 1 \in 1..(s.Kp * s.Nc) /\ Spot(k, key, a) \in Int
             /\ RowOf(Spot(k, key, a), a) = k /\ ColOf(Spot(k, key, a), a) = key
  <2>1. PICK p, z : p = Spot(k, key, a) /\ z = a * b
    OBVIOUS
  <2>2. k \in 0..(a - 1)
    BY <1>2
  <2>3. InTile(p, k, key, a, b)
    BY <1>2, <2>1, <2>2, SpotIs
  <2>4. p \in 0..(z - 1) /\ RowOf(p, a) = k /\ ColOf(p, a) = key
    BY <2>1, <2>3 DEF InTile
  <2>5. z \in Nat
    BY <1>2, <2>1
  <2>6. p + 1 \in 1..z
    BY <2>4, <2>5
  <2> QED BY <1>2, <2>1, <2>4, <2>6
<1>6. DOMAIN col \subseteq 1..(s.Kp * s.Nc)
  BY <1>3, <1>5, <1>4
<1>7. ASSUME NEW o \in 1..(s.Kp * s.Nc)
      PROVE  Cell(Elements(B2), s, o) = IF o \in DOMAIN col THEN col[o] ELSE Cell(Elements(B), s, o)
  <2>1. PICK r, q : r = RowOf(o - 1, s.Kp) /\ q = ColOf(o - 1, s.Kp)
    OBVIOUS
  <2>2. IsAt(s, o, r, q) /\ o \in Int
    BY <2>1, RowColumnOf
  <2>3. PICK at : at = <<r, q>>
    OBVIOUS
  <2>4. RowOf(o - 1, a) = r /\ ColOf(o - 1, a) = q /\ Spot(r, q, a) = o - 1 /\ r \in Int /\ q \in Int
    BY <1>2, <2>2 DEF InTile, IsAt
  <2>5. s.k0 + r = r /\ s.n0 + q = q
    BY <2>4
  <2>6. at = <<s.k0 + r, s.n0 + q>> /\ at \in Places(sh) /\ at[1] = r /\ at[2] = q
    <3>1. at = <<s.k0 + r, s.n0 + q>>
      BY <2>3, <2>5
    <3>2. <<s.k0 + r, s.n0 + q>> \in Places(sh)
      BY <1>2, <2>2, PlaceInSlice DEF IsAt
    <3> QED BY <2>3, <3>1, <3>2
  <2>7. Cell(Elements(B2), s, o) = Elements(B2)[at] /\ Cell(Elements(B), s, o) = Elements(B)[at]
    <3>1. /\ Cell(Elements(B2), s, o) = Elements(B2)[<<s.k0 + r, s.n0 + q>>]
          /\ Cell(Elements(B), s, o) = Elements(B)[<<s.k0 + r, s.n0 + q>>]
      BY <1>2, <2>4 DEF Cell
    <3> QED BY <2>6, <3>1
  <2>8. o \in Int /\ (o - 1) + 1 = o
    BY <2>2
  <2>9. CASE q = key /\ r < H
    <3>1. r \in 0..(H - 1)
      BY <1>2, <2>2, <2>9 DEF IsAt
    <3>2. o = Spot(r, key, a) + 1
      BY <2>4, <2>8, <2>9
    <3>3. o \in DOMAIN col /\ col[o] = <<v, RowOf(o - 1, a), key>>
      BY <1>3, <1>4, <3>1, <3>2
    <3>4. Elements(B2)[at] = <<v, r, key>>
      <4>1. B2[at] = v
        BY <2>6, <2>9 DEF ColumnSet
      <4> QED BY <2>6, <2>9, <4>1, ElementIs
    <3> QED BY <2>4, <2>7, <3>3, <3>4
  <2>10. CASE ~(q = key /\ r < H)
    <3>1. ASSUME o \in DOMAIN col PROVE FALSE
      <4>1. PICK k \in 0..(H - 1) : o = Spot(k, key, a) + 1
        BY <1>3, <1>4, <3>1
      <4>2. o - 1 = Spot(k, key, a)
        BY <1>5, <4>1
      <4>3. r = k /\ q = key
        BY <1>5, <2>4, <4>2
      <4> QED BY <2>10, <4>3
    <3>2. B2[at] = B[at]
      BY <2>6, <2>10 DEF ColumnSet
    <3>3. Elements(B2)[at] = Elements(B)[at]
      BY <2>6, <3>2, ChangedIs
    <3> QED BY <2>7, <3>1, <3>3
  <2> QED BY <2>9, <2>10
<1> QED BY <1>6, <1>7 DEF Patch

(* A new row of a slice as wide as the matrix, and one of another slice.   *)
LEMMA RowPatch ==
    ASSUME NEW sh, Shaped(sh), NEW s, IsSlice(s, sh), s.n0 = 0, s.Nc = sh[2],
           NEW lk \in 0..(s.Kp - 1), NEW key, key = s.k0 + lk, NEW v, v # 0,
           NEW B, Matrix(B, sh), NEW B2, Matrix(B2, sh),
           RowSet(B, B2, sh, key, v), NEW row, row = RowIn(s.Kp, lk, sh, key, v)
    PROVE  Patch(row, s, Elements(B), Elements(B2))
<1>1. PICK a, b, k0 : a = s.Kp /\ b = sh[2] /\ k0 = s.k0
  OBVIOUS
<1>2. /\ a \in Nat \ {0} /\ b \in Nat \ {0} /\ Blocks(a) /\ Blocks(b) /\ lk \in 0..(a - 1) /\ k0 \in Nat
      /\ s.Kp = a /\ s.Nc = b /\ sh[1] \in Nat /\ sh[2] \in Nat
  BY <1>1 DEF Shaped, Blocks, IsSlice
<1>3. PICK S : S = {Spot(lk, e, a) + 1 : e \in 0..(b - 1)}
  OBVIOUS
<1>4. row = [o \in S |-> <<v, key, ColOf(o - 1, a)>>] /\ DOMAIN row = S
  BY <1>1, <1>3 DEF RowIn
<1>5. ASSUME NEW e \in 0..(b - 1)
      PROVE  /\ Spot(lk, e, a) + 1 \in 1..(s.Kp * s.Nc) /\ Spot(lk, e, a) \in Int
             /\ RowOf(Spot(lk, e, a), a) = lk /\ ColOf(Spot(lk, e, a), a) = e
  <2>1. PICK p, z : p = Spot(lk, e, a) /\ z = a * b
    OBVIOUS
  <2>2. InTile(p, lk, e, a, b)
    BY <1>2, <2>1, SpotIs
  <2>3. p \in 0..(z - 1) /\ RowOf(p, a) = lk /\ ColOf(p, a) = e
    BY <2>1, <2>2 DEF InTile
  <2>4. z \in Nat
    BY <1>2, <2>1
  <2>5. p + 1 \in 1..z
    BY <2>3, <2>4
  <2> QED BY <1>2, <2>1, <2>3, <2>5
<1>6. DOMAIN row \subseteq 1..(s.Kp * s.Nc)
  BY <1>3, <1>5, <1>4
<1>7. ASSUME NEW o \in 1..(s.Kp * s.Nc)
      PROVE  Cell(Elements(B2), s, o) = IF o \in DOMAIN row THEN row[o] ELSE Cell(Elements(B), s, o)
  <2>1. PICK r, q : r = RowOf(o - 1, s.Kp) /\ q = ColOf(o - 1, s.Kp)
    OBVIOUS
  <2>2. IsAt(s, o, r, q) /\ o \in Int
    BY <2>1, RowColumnOf
  <2>3. PICK at : at = <<k0 + r, q>>
    OBVIOUS
  <2>4. /\ RowOf(o - 1, a) = r /\ ColOf(o - 1, a) = q /\ Spot(r, q, a) = o - 1 /\ r \in Int /\ q \in Int
        /\ q \in 0..(b - 1)
    BY <1>2, <2>2 DEF InTile, IsAt
  <2>5. s.k0 + r = k0 + r /\ s.n0 + q = q
    BY <1>1, <2>4
  <2>6. at = <<s.k0 + r, s.n0 + q>> /\ at \in Places(sh) /\ at[1] = k0 + r /\ at[2] = q
    <3>1. at = <<s.k0 + r, s.n0 + q>>
      BY <2>3, <2>5
    <3>2. <<s.k0 + r, s.n0 + q>> \in Places(sh)
      BY <1>2, <2>2, PlaceInSlice DEF IsAt
    <3> QED BY <2>3, <3>1, <3>2
  <2>7. Cell(Elements(B2), s, o) = Elements(B2)[at] /\ Cell(Elements(B), s, o) = Elements(B)[at]
    <3>1. /\ Cell(Elements(B2), s, o) = Elements(B2)[<<s.k0 + r, s.n0 + q>>]
          /\ Cell(Elements(B), s, o) = Elements(B)[<<s.k0 + r, s.n0 + q>>]
      BY <1>2, <2>4 DEF Cell
    <3> QED BY <2>6, <3>1
  <2>8. o \in Int /\ (o - 1) + 1 = o
    BY <2>2
  <2>9. CASE r = lk
    <3>1. o = Spot(lk, q, a) + 1
      BY <2>4, <2>8, <2>9
    <3>2. o \in DOMAIN row /\ row[o] = <<v, key, ColOf(o - 1, a)>>
      BY <1>3, <1>4, <2>4, <3>1
    <3>3. at[1] = key
      BY <1>1, <2>6, <2>9
    <3>4. Elements(B2)[at] = <<v, key, q>>
      <4>1. B2[at] = v
        BY <2>6, <3>3 DEF RowSet
      <4> QED BY <2>6, <3>3, <4>1, ElementIs
    <3> QED BY <2>4, <2>7, <3>2, <3>4
  <2>10. CASE r # lk
    <3>1. ASSUME o \in DOMAIN row PROVE FALSE
      <4>1. PICK e \in 0..(b - 1) : o = Spot(lk, e, a) + 1
        BY <1>3, <1>4, <3>1
      <4>2. o - 1 = Spot(lk, e, a)
        BY <1>5, <4>1
      <4>3. r = lk
        BY <1>5, <2>4, <4>2
      <4> QED BY <2>10, <4>3
    <3>2. at[1] # key
      BY <1>1, <1>2, <2>4, <2>6, <2>10
    <3>3. B2[at] = B[at]
      BY <2>6, <3>2 DEF RowSet
    <3>4. Elements(B2)[at] = Elements(B)[at]
      BY <2>6, <3>3, ChangedIs
    <3> QED BY <2>7, <3>1, <3>4
  <2> QED BY <2>9, <2>10
<1> QED BY <1>6, <1>7 DEF Patch

(* A slice the row is not in.                                              *)
LEMMA RowSame ==
    ASSUME NEW sh, Shaped(sh), NEW s, IsSlice(s, sh), NEW key, key \notin s.k0..(s.k0 + s.Kp - 1),
           NEW v, NEW B, Matrix(B, sh), NEW B2, Matrix(B2, sh),
           RowSet(B, B2, sh, key, v)
    PROVE  Same(s, Elements(B), Elements(B2))
<1>1. ASSUME NEW o \in 1..(s.Kp * s.Nc) PROVE Cell(Elements(B2), s, o) = Cell(Elements(B), s, o)
  <2>1. PICK r, q : r = RowOf(o - 1, s.Kp) /\ q = ColOf(o - 1, s.Kp)
    OBVIOUS
  <2>2. IsAt(s, o, r, q) /\ o \in Int
    BY <2>1, RowColumnOf
  <2>3. PICK at : at = <<s.k0 + r, s.n0 + q>>
    OBVIOUS
  <2>4. RowOf(o - 1, s.Kp) = r /\ ColOf(o - 1, s.Kp) = q
    BY <2>1
  <2>5. at \in Places(sh)
    <3>1. sh[1] \in Nat /\ sh[2] \in Nat
      BY DEF Shaped
    <3> QED BY <2>2, <2>3, <3>1, PlaceInSlice DEF IsAt
  <2>6. at[1] # key
    <3>1. PICK k0, kp : k0 = s.k0 /\ kp = s.Kp
      OBVIOUS
    <3>2. k0 \in Nat /\ kp \in Nat /\ r \in 0..(kp - 1) /\ key \notin k0..(k0 + kp - 1)
      BY <2>2, <3>1 DEF IsSlice, Blocks, IsAt
    <3>3. k0 + r \in k0..(k0 + kp - 1)
      BY <3>2
    <3>4. at[1] = k0 + r
      BY <2>3, <3>1
    <3> QED BY <3>2, <3>3, <3>4
  <2>7. Elements(B2)[at] = Elements(B)[at]
    <3>1. B2[at] = B[at]
      BY <2>5, <2>6 DEF RowSet
    <3> QED BY <2>5, <3>1, ChangedIs
  <2>8. Cell(Elements(B2), s, o) = Elements(B2)[at] /\ Cell(Elements(B), s, o) = Elements(B)[at]
    BY <2>3, <2>4 DEF Cell
  <2> QED BY <2>7, <2>8
<1> QED BY <1>1 DEF Same

-----------------------------------------------------------------------------
(* The slices of K^T and V.                                                *)

(* One slice is enough.                                                    *)
LEMMA CeilOne ==
    ASSUME NEW a \in Nat \ {0}, NEW b \in Nat \ {0}, a <= b
    PROVE  CeilDiv(a, b) = 1
<1>1. PICK c, d : c = a + b - 1 /\ d = c \div b
  OBVIOUS
<1>2. c \in Nat /\ b <= c /\ c < b + b /\ d \in Nat /\ b * d <= c /\ c < b * d + b
  BY <1>1, Quotient
<1>3. d # 0
  BY <1>2
<1>4. ASSUME d >= 2 PROVE FALSE
  <2>1. b * d >= b * 2
    BY <1>2, <1>4
  <2>2. b * 2 = b + b /\ b * d \in Nat
    BY <1>2
  <2> QED BY <1>2, <2>1, <2>2
<1>5. d = 1
  BY <1>2, <1>3, <1>4
<1> QED BY <1>1, <1>5 DEF CeilDiv

(* The slice that is the whole of a matrix.                                *)
AllOf(s, sh) == IsSlice(s, sh) /\ s.k0 = 0 /\ s.n0 = 0 /\ s.Kp = sh[1] /\ s.Nc = sh[2]

(* The first slice is the only one.                                        *)
LEMMA FirstIs ==
    ASSUME NEW sh, Shaped(sh), NEW ks \in Nat \ {0}, NEW nmax \in Nat \ {0}, sh[1] <= ks, sh[2] <= nmax,
           NEW s, IsSlice(s, sh), SliceAt(s, sh, ks, nmax, 0, 0)
    PROVE  AllOf(s, sh)
<1>1. PICK a, b : a = sh[1] /\ b = sh[2]
  OBVIOUS
<1>2. a \in Nat /\ b \in Nat
  BY <1>1 DEF Shaped
<1>3. s.k0 = 0 * ks /\ s.n0 = 0 * nmax /\ s.Kp = Lesser(a - 0 * ks, ks) /\ s.Nc = Lesser(b - 0 * nmax, nmax)
  BY <1>1 DEF SliceAt
<1>4. 0 * ks = 0 /\ 0 * nmax = 0 /\ a - 0 = a /\ b - 0 = b
  BY <1>2
<1>5. s.k0 = 0 /\ s.n0 = 0 /\ s.Kp = a /\ s.Nc = b
  BY <1>1, <1>2, <1>3, <1>4 DEF Lesser
<1> QED BY <1>1, <1>5 DEF AllOf

(* Over the full K.                                                        *)
LEMMA WholeIsOne ==
    ASSUME NEW sh, Shaped(sh), sh[2] <= NMAX[Here]
    PROVE  Len(Whole(sh)) = 1 /\ AllOf(Whole(sh)[1], sh)
<1>1. Here \in Socs
  BY PackedAssumption
<1>2. PICK n, nmax : n = Len(Whole(sh)) /\ nmax = NMAX[Here]
  OBVIOUS
<1>3. Slices(Whole(sh), n) /\ Blocks(nmax)
  BY <1>1, <1>2, TilingIs
<1>4. sh[1] \in Nat \ {0} /\ sh[2] \in Nat \ {0} /\ nmax \in Nat \ {0} /\ n \in Nat \ {0}
  BY <1>3 DEF Shaped, Blocks, Slices
<1>5. Slices(FullK(sh, nmax), n) /\ 1 \in 1..n
  BY <1>2, <1>3, <1>4 DEF Whole
<1>6. /\ SliceAt(FullK(sh, nmax)[1], sh, sh[1], nmax, 0, 1 - 1) /\ n = CeilDiv(sh[2], nmax)
      /\ IsSlice(FullK(sh, nmax)[1], sh)
  BY <1>3, <1>5, FullAt
<1>7. n = 1
  BY <1>2, <1>4, <1>6, CeilOne
<1>8. PICK s : s = FullK(sh, nmax)[1]
  OBVIOUS
<1>9. SliceAt(s, sh, sh[1], nmax, 0, 0) /\ IsSlice(s, sh)
  BY <1>6, <1>8
<1>10. AllOf(s, sh)
  BY <1>2, <1>4, <1>9, FirstIs
<1> QED BY <1>2, <1>7, <1>8, <1>10 DEF Whole

(* The slices of a matrix with one N-slice: one after the other along K.   *)
AlongK(sl, sh, n) ==
    \A j \in 1..n : IsSlice(sl[j], sh) /\ SliceAt(sl[j], sh, KS, NMAX[Here], j - 1, 0)

(* In tiles.                                                               *)
LEMMA TilingAlongK ==
    ASSUME NEW sh, Shaped(sh), sh[2] <= NMAX[Here]
    PROVE  /\ Len(Tiling(sh, Here)) = CeilDiv(sh[1], KS) /\ Len(Tiling(sh, Here)) \in Nat \ {0}
           /\ AlongK(Tiling(sh, Here), sh, Len(Tiling(sh, Here)))
<1>1. Here \in Socs
  BY PackedAssumption
<1>2. PICK n, nmax, Sk : n = Len(Tiling(sh, Here)) /\ nmax = NMAX[Here] /\ Sk = CeilDiv(sh[1], KS)
  OBVIOUS
<1>3. Slices(Tiling(sh, Here), n) /\ Blocks(nmax) /\ Blocks(KS)
  BY <1>1, <1>2, TilingIs
<1>4. /\ sh[1] \in Nat \ {0} /\ sh[2] \in Nat \ {0} /\ nmax \in Nat \ {0} /\ KS \in Nat \ {0}
      /\ n \in Nat \ {0}
  BY <1>3 DEF Shaped, Blocks, Slices
<1>5. Slices(SlicesOf(sh, KS, nmax), n)
  BY <1>2, <1>3 DEF Tiling
<1>6. n = SlicesIn(sh, KS, nmax) /\ Sk \in Nat \ {0} /\ \A j \in 1..n : IsSlice(SlicesOf(sh, KS, nmax)[j], sh)
  BY <1>2, <1>3, <1>5, SlicesFit
<1>7. CeilDiv(sh[2], nmax) = 1
  BY <1>2, <1>4, CeilOne
<1>8. n = Sk * CeilDiv(sh[2], nmax)
  BY <1>2, <1>6 DEF SlicesIn
<1>9. n = Sk
  BY <1>6, <1>7, <1>8
<1>10. ASSUME NEW j \in 1..n PROVE SliceAt(SlicesOf(sh, KS, nmax)[j], sh, KS, nmax, j - 1, 0)
  <2>1. SliceAt(SlicesOf(sh, KS, nmax)[j], sh, KS, nmax, (j - 1) % Sk, (j - 1) \div Sk)
    BY <1>2, <1>4, <1>8, SlicesAt
  <2>2. j - 1 \in 0..(Sk - 1) /\ 0 * Sk + (j - 1) = j - 1
    BY <1>4, <1>6, <1>9
  <2>3. (0 * Sk + (j - 1)) \div Sk = 0 /\ (0 * Sk + (j - 1)) % Sk = j - 1
    BY <1>6, <2>2, DivIs
  <2> QED BY <2>1, <2>2, <2>3
<1>11. AlongK(Tiling(sh, Here), sh, n)
  BY <1>2, <1>6, <1>10 DEF AlongK, Tiling
<1> QED BY <1>2, <1>4, <1>9, <1>11

(* What PackedAssumption says of the pair.                                 *)
LEMMA KvSizes ==
    /\ KvShape[1] \in Nat \ {0} /\ KvShape[2] \in Nat \ {0} /\ KvShape[3] \in Nat \ {0}
    /\ KvShape[1] <= KS /\ KvShape[2] <= NMAX[Here] /\ KvShape[3] <= KvShape[1]
    /\ KvShape[3] <= NMAX[Here] /\ Shaped(KtShape) /\ Shaped(VShape)
    /\ KtShape[1] = KvShape[1] /\ KtShape[2] = KvShape[2]
    /\ VShape[1] = KvShape[2] /\ VShape[2] = KvShape[3]
    /\ Keys \subseteq 0..(KvShape[2] - 1) /\ 0 \notin Versions
<1>1. /\ Shaped(KtShape) /\ Shaped(VShape)
      /\ KvShape[1] <= KS /\ KvShape[1] <= NMAX[Here] /\ KvShape[2] <= NMAX[Here]
      /\ KvShape[3] <= KvShape[1] /\ Keys \subseteq 0..(KvShape[2] - 1) /\ 0 \notin Versions
      /\ Here \in Socs /\ NMAX \in [Socs -> Nat \ {0}]
  BY PackedAssumption
<1>2. PICK a, b, c, d : a = KvShape[1] /\ b = KvShape[2] /\ c = KvShape[3] /\ d = NMAX[Here]
  OBVIOUS
<1>3. /\ KtShape[1] = KvShape[1] /\ KtShape[2] = KvShape[2]
      /\ VShape[1] = KvShape[2] /\ VShape[2] = KvShape[3]
  BY DEF KtShape, VShape
<1>4. a \in Nat \ {0} /\ b \in Nat \ {0} /\ c \in Nat \ {0}
  BY <1>1, <1>2, <1>3 DEF Shaped
<1>5. c <= d
  <2>1. c <= a /\ a <= d
    BY <1>1, <1>2
  <2>2. d \in Nat
    BY <1>1, <1>2
  <2> QED BY <1>4, <2>1, <2>2
<1> QED BY <1>1, <1>2, <1>3, <1>4, <1>5

(* A key's column of K^T.                                                  *)
LEMMA KtPatches ==
    ASSUME NEW key \in Keys, NEW v \in Versions, NEW B, Matrix(B, KtShape),
           NEW B2, B2 = [at \in DOMAIN B |-> IF at[2] = key /\ at[1] < KvShape[3] THEN v ELSE B[at]],
           NEW col, col = [o \in {Spot(k, key, KvShape[1]) + 1 : k \in 0..(KvShape[3] - 1)} |->
                              <<v, RowOf(o - 1, KvShape[1]), key>>]
    PROVE  /\ Matrix(B2, KtShape)
           /\ Patches(col, 1, Whole(KtShape), Len(Whole(KtShape)), Elements(B), Elements(B2))
           /\ Patches(col, 1, Tiling(KtShape, Here), Len(Tiling(KtShape, Here)), Elements(B), Elements(B2))
<1>1. PICK sh, H : sh = KtShape /\ H = KvShape[3]
  OBVIOUS
<1>2. /\ Shaped(sh) /\ sh[1] = KvShape[1] /\ sh[2] = KvShape[2] /\ sh[1] <= KS /\ sh[2] <= NMAX[Here]
      /\ sh[1] \in Nat \ {0} /\ sh[2] \in Nat \ {0} /\ H \in Nat /\ H <= sh[1]
      /\ key \in 0..(sh[2] - 1) /\ v # 0
  BY <1>1, KvSizes
<1>3. DOMAIN B = Places(sh) /\ Matrix(B, sh)
  BY <1>1 DEF Matrix
<1>4. B2 = [at \in Places(sh) |-> IF at[2] = key /\ at[1] < H THEN v ELSE B[at]]
  BY <1>1, <1>3
<1>5. Matrix(B2, sh) /\ ColumnSet(B, B2, sh, key, H, v)
  BY <1>4 DEF Matrix, ColumnSet
<1>6. col = Column(sh, key, H, v)
  BY <1>1, <1>2 DEF Column
<1>7. ASSUME NEW s, AllOf(s, sh) PROVE Patch(col, s, Elements(B), Elements(B2))
  <2>1. IsSlice(s, sh) /\ s.k0 = 0 /\ s.n0 = 0 /\ s.Kp = sh[1] /\ s.Nc = sh[2]
    BY <1>7 DEF AllOf
  <2> QED BY <1>2, <1>3, <1>5, <1>6, <2>1, ColumnPatch
<1>8. ASSUME NEW sl, AllOf(sl[1], sh) PROVE Patches(col, 1, sl, 1, Elements(B), Elements(B2))
  <2>1. Patch(col, sl[1], Elements(B), Elements(B2))
    BY <1>7, <1>8
  <2> QED BY <2>1 DEF Patches
<1>9. Len(Whole(sh)) = 1 /\ AllOf(Whole(sh)[1], sh)
  BY <1>2, WholeIsOne
<1>10. Len(Tiling(sh, Here)) = 1 /\ AllOf(Tiling(sh, Here)[1], sh)
  <2>1. PICK n, s, nmax : n = Len(Tiling(sh, Here)) /\ s = Tiling(sh, Here)[1] /\ nmax = NMAX[Here]
    OBVIOUS
  <2>2. n = CeilDiv(sh[1], KS) /\ AlongK(Tiling(sh, Here), sh, n)
    BY <1>2, <2>1, TilingAlongK
  <2>3. KS \in Nat \ {0} /\ nmax \in Nat \ {0}
    BY <2>1, Constants, PackedAssumption
  <2>4. n = 1
    BY <1>2, <2>2, <2>3, CeilOne
  <2>5. IsSlice(s, sh) /\ SliceAt(s, sh, KS, nmax, 1 - 1, 0)
    BY <2>1, <2>2, <2>4 DEF AlongK
  <2>6. AllOf(s, sh)
    BY <1>2, <2>1, <2>3, <2>5, FirstIs
  <2> QED BY <2>1, <2>4, <2>6
<1>11. Patches(col, 1, Whole(sh), 1, Elements(B), Elements(B2))
  BY <1>8, <1>9
<1>12. Patches(col, 1, Tiling(sh, Here), 1, Elements(B), Elements(B2))
  BY <1>8, <1>10
<1> QED BY <1>1, <1>5, <1>9, <1>10, <1>11, <1>12

(* A key's row of V, over the full K and in the tile it falls into.        *)
LEMMA VPatches ==
    ASSUME NEW key \in Keys, NEW v \in Versions, NEW B, Matrix(B, VShape),
           NEW B2, B2 = [at \in DOMAIN B |-> IF at[1] = key THEN v ELSE B[at]],
           NEW full, full = RowIn(KvShape[2], key, VShape, key, v),
           NEW i, i = (key \div KS) + 1,
           NEW row, row = RowIn(Tiling(VShape, Here)[i].Kp, key - (i - 1) * KS, VShape, key, v)
    PROVE  /\ Matrix(B2, VShape)
           /\ Patches(full, 1, Whole(VShape), Len(Whole(VShape)), Elements(B), Elements(B2))
           /\ Patches(row, i, Tiling(VShape, Here), Len(Tiling(VShape, Here)), Elements(B), Elements(B2))
<1>1. PICK sh, K : sh = VShape /\ K = KvShape[2]
  OBVIOUS
<1>2. /\ Shaped(sh) /\ sh[1] = K /\ sh[2] <= NMAX[Here]
      /\ K \in Nat \ {0} /\ sh[2] \in Nat \ {0} /\ key \in 0..(K - 1) /\ v # 0 /\ KS \in Nat \ {0}
  BY <1>1, KvSizes, Constants
<1>3. DOMAIN B = Places(sh) /\ Matrix(B, sh)
  BY <1>1 DEF Matrix
<1>4. B2 = [at \in Places(sh) |-> IF at[1] = key THEN v ELSE B[at]]
  BY <1>1, <1>3
<1>5. Matrix(B2, sh) /\ RowSet(B, B2, sh, key, v)
  BY <1>4 DEF Matrix, RowSet
<1>6. Patches(full, 1, Whole(sh), Len(Whole(sh)), Elements(B), Elements(B2))
  <2>1. PICK s : s = Whole(sh)[1]
    OBVIOUS
  <2>2. Len(Whole(sh)) = 1 /\ AllOf(Whole(sh)[1], sh)
    BY <1>2, WholeIsOne
  <2>3. IsSlice(s, sh) /\ s.k0 = 0 /\ s.n0 = 0 /\ s.Kp = K /\ s.Nc = sh[2]
    BY <1>2, <2>1, <2>2 DEF AllOf
  <2>4. key \in 0..(s.Kp - 1) /\ key = s.k0 + key /\ full = RowIn(s.Kp, key, sh, key, v)
    BY <1>1, <1>2, <2>3
  <2>5. Patch(full, s, Elements(B), Elements(B2))
    BY <1>2, <1>3, <1>5, <2>3, <2>4, RowPatch
  <2>6. Patches(full, 1, Whole(sh), 1, Elements(B), Elements(B2))
    BY <2>1, <2>5 DEF Patches
  <2> QED BY <2>2, <2>6
<1>7. Patches(row, i, Tiling(sh, Here), Len(Tiling(sh, Here)), Elements(B), Elements(B2))
  <2>1. PICK n, sl, kq, nmax : n = Len(Tiling(sh, Here)) /\ sl = Tiling(sh, Here) /\ kq = key \div KS /\ nmax = NMAX[Here]
    OBVIOUS
  <2>2. n = CeilDiv(K, KS) /\ n \in Nat \ {0} /\ AlongK(sl, sh, n)
    BY <1>2, <2>1, TilingAlongK
  <2>3. nmax \in Nat \ {0}
    BY <2>1, PackedAssumption
  <2>4. kq \in Nat /\ kq < n /\ key - kq * KS \in 0..(Lesser(K - kq * KS, KS) - 1)
    BY <1>2, <2>1, <2>2, PieceOf
  <2>5. i \in 1..n /\ i - 1 = kq /\ i = kq + 1
    BY <2>1, <2>2, <2>4
  <2>6. ASSUME NEW j \in 1..n
        PROVE  /\ IsSlice(sl[j], sh) /\ sl[j].k0 = (j - 1) * KS /\ sl[j].n0 = 0
               /\ sl[j].Kp = Lesser(K - (j - 1) * KS, KS) /\ sl[j].Nc = sh[2]
    <3>1. PICK s : s = sl[j]
      OBVIOUS
    <3>2. IsSlice(s, sh) /\ SliceAt(s, sh, KS, nmax, j - 1, 0)
      BY <2>1, <2>2, <3>1 DEF AlongK
    <3>3. /\ s.k0 = (j - 1) * KS /\ s.n0 = 0 * nmax
          /\ s.Kp = Lesser(K - (j - 1) * KS, KS) /\ s.Nc = Lesser(sh[2] - 0 * nmax, nmax)
      BY <1>2, <3>2 DEF SliceAt
    <3>4. 0 * nmax = 0 /\ sh[2] - 0 = sh[2]
      BY <1>2, <2>3
    <3>5. s.n0 = 0 /\ s.Nc = sh[2]
      BY <1>2, <2>1, <3>3, <3>4 DEF Lesser
    <3> QED BY <3>1, <3>2, <3>3, <3>5
  <2>7. Patch(row, sl[i], Elements(B), Elements(B2))
    <3>1. PICK s, lk : s = sl[i] /\ lk = key - (i - 1) * KS
      OBVIOUS
    <3>2. /\ IsSlice(s, sh) /\ s.k0 = kq * KS /\ s.n0 = 0
          /\ s.Kp = Lesser(K - kq * KS, KS) /\ s.Nc = sh[2]
      BY <2>5, <2>6, <3>1
    <3>3. lk = key - kq * KS /\ lk \in 0..(s.Kp - 1)
      BY <2>4, <2>5, <3>1, <3>2
    <3>4. key = s.k0 + lk
      <4>1. kq * KS \in Nat /\ key \in Nat
        BY <1>2, <2>4
      <4> QED BY <3>2, <3>3, <4>1
    <3>5. row = RowIn(s.Kp, lk, sh, key, v)
      BY <1>1, <2>1, <3>1
    <3>6. Patch(row, s, Elements(B), Elements(B2))
      BY <1>2, <1>3, <1>5, <3>2, <3>3, <3>4, <3>5, RowPatch
    <3> QED BY <3>1, <3>6
  <2>8. ASSUME NEW j \in 1..n, j # i PROVE Same(sl[j], Elements(B), Elements(B2))
    <3>1. PICK s, jq : s = sl[j] /\ jq = j - 1
      OBVIOUS
    <3>2. IsSlice(s, sh) /\ s.k0 = jq * KS /\ s.Kp = Lesser(K - jq * KS, KS)
      BY <2>6, <3>1
    <3>3. jq \in Nat /\ jq # kq
      BY <2>2, <2>5, <2>8, <3>1
    <3>4. PICK x, y : x = jq * KS /\ y = kq * KS
      OBVIOUS
    <3>5. x \in Nat /\ y \in Nat /\ (jq < kq => x + KS <= y) /\ (kq < jq => y + KS <= x)
      <4>1. \A a, b \in Nat : a < b => a * KS + KS <= b * KS
        <5> SUFFICES ASSUME NEW a \in Nat, NEW b \in Nat, a < b PROVE a * KS + KS <= b * KS
          OBVIOUS
        <5>1. PICK d : d = b - a - 1
          OBVIOUS
        <5>2. d \in Nat /\ b = a + 1 + d
          BY <5>1
        <5>3. b * KS = a * KS + KS + d * KS /\ d * KS \in Nat /\ a * KS \in Nat
          BY <1>2, <5>2
        <5> QED BY <1>2, <5>3
      <4> QED BY <1>2, <2>4, <3>3, <3>4, <4>1
    <3>6. key - y \in 0..(KS - 1)
      BY <1>2, <2>4, <3>4, <3>5 DEF Lesser
    <3>7. PICK z : z = s.Kp
      OBVIOUS
    <3>8. z \in Nat /\ z <= KS /\ s.k0 = x
      <4>1. z = Lesser(K - x, KS) /\ K - x \in Int
        BY <1>2, <3>2, <3>4, <3>5, <3>7
      <4>2. z <= KS
        BY <1>2, <4>1 DEF Lesser
      <4>3. z \in Nat
        BY <3>2, <3>7 DEF IsSlice, Blocks
      <4> QED BY <3>2, <3>4, <4>2, <4>3
    <3>9. key \notin x..(x + z - 1)
      <4>1. key \in Nat /\ key - y \in 0..(KS - 1) /\ x \in Nat /\ y \in Nat /\ z \in Nat /\ z <= KS
        BY <1>2, <3>5, <3>6, <3>8
      <4>2. y <= key /\ key < y + KS
        BY <1>2, <4>1
      <4>3. jq < kq \/ kq < jq
        BY <2>4, <3>3
      <4>4. CASE jq < kq
        <5>1. x + KS <= y
          BY <3>5, <4>4
        <5> QED BY <1>2, <4>1, <4>2, <5>1
      <4>5. CASE kq < jq
        <5>1. y + KS <= x
          BY <3>5, <4>5
        <5> QED BY <1>2, <4>1, <4>2, <5>1
      <4> QED BY <4>3, <4>4, <4>5
    <3>10. key \notin s.k0..(s.k0 + s.Kp - 1)
      BY <3>7, <3>8, <3>9
    <3> QED BY <1>2, <1>3, <1>5, <3>1, <3>2, <3>10, RowSame
  <2>9. Patches(row, i, sl, n, Elements(B), Elements(B2))
    BY <2>5, <2>7, <2>8 DEF Patches
  <2> QED BY <2>1, <2>9
<1> QED BY <1>1, <1>5, <1>6, <1>7

-----------------------------------------------------------------------------
(* Each operation keeps it: the resident pair.                             *)

(* The first state.                                                        *)
LEMMA InitLy ==
    ASSUME PkInit
    PROVE  LyInv
<1>1. wt = <<>> /\ kv = <<>> /\ file = {}
  BY DEF PkInit
<1>2. AllExact(wt, mem) /\ AllExact(kv, mem)
  BY <1>1, OwnIs DEF AllExact
<1> QED BY <1>1, <1>2 DEF LyInv

(* The resident pair.                                                      *)
LEMMA KvAllocLy ==
    ASSUME KTILE \in {0, KS}, PkInv, LyInv, ork_kv_resident_alloc
    PROVE  LyInv'
<1>1. MemOK(mem) /\ Usage(mem) <= ceil /\ views \in BOOLEAN /\ \A o \in Own(wt) : o \in DOMAIN mem
  BY DEF PkInv, Owned
<1>2. /\ Shaped(KtShape) /\ Shaped(VShape) /\ Matrix(Filled(KtShape, 0), KtShape)
      /\ Matrix(Filled(VShape, 0), VShape)
  BY PackedAssumption, FilledIs
<1>3. PICK kt : kt = Packed(mem, KtShape, Filled(KtShape, 0))
  OBVIOUS
<1>4. Good(kt, mem) /\ (kt.w # <<>> => /\ Exactly(kt.w[1], kt.mem) /\ kt.w[1].sh = KtShape
                                       /\ kt.w[1].codes = <<>> /\ kt.w[1].holds = Filled(KtShape, 0))
  BY <1>1, <1>2, <1>3, PackedExact
<1>5. PICK m1 : m1 = kt.mem
  OBVIOUS
<1>6. Kept(mem, m1)
  BY <1>1, <1>4, <1>5, GoodKeeps
<1>7. PICK v : v = Packed(m1, VShape, Filled(VShape, 0))
  OBVIOUS
<1>8. Good(v, m1) /\ (v.w # <<>> => /\ Exactly(v.w[1], v.mem) /\ v.w[1].sh = VShape
                                    /\ v.w[1].codes = <<>> /\ v.w[1].holds = Filled(VShape, 0))
  <2>1. MemOK(m1) /\ Usage(m1) <= ceil
    BY <1>6 DEF Kept
  <2> QED BY <1>1, <1>2, <1>7, <2>1, PackedExact
<1>9. PICK m2 : m2 = v.mem
  OBVIOUS
<1>10. Kept(m1, m2)
  BY <1>6, <1>8, <1>9, GoodKeeps DEF Kept
<1>11. mem' = m2 /\ UNCHANGED <<wt, file>>
       /\ kv' = (IF kt.w = <<>> \/ v.w = <<>> THEN <<>> ELSE <<kt.w[1], v.w[1]>>)
  BY <1>3, <1>5, <1>7, <1>9 DEF ork_kv_resident_alloc
<1>12. AllExact(wt, m2)
  <2>1. \A o \in Own(wt) : m2[o] = mem[o]
    BY <1>1, <1>6, <1>10 DEF Kept
  <2> QED BY <2>1, AllMoved DEF LyInv
<1>13. AllExact(wt', mem')
  BY <1>11, <1>12
<1>14. CASE kt.w = <<>> \/ v.w = <<>>
  <2>1. kv' = <<>>
    BY <1>11, <1>14
  <2>2. AllExact(kv', mem')
    BY <2>1, OwnIs DEF AllExact
  <2> QED BY <1>11, <1>13, <2>1, <2>2 DEF LyInv
<1>15. CASE kt.w # <<>> /\ v.w # <<>>
  <2>1. PICK a, b : a = kt.w[1] /\ b = v.w[1]
    OBVIOUS
  <2>2. kv' = <<a, b>>
    BY <1>11, <1>15, <2>1
  <2>3. Exactly(a, m1) /\ a.sh = KtShape /\ a.codes = <<>> /\ Exactly(b, m2) /\ b.sh = VShape /\ b.codes = <<>>
    BY <1>4, <1>5, <1>8, <1>9, <1>15, <2>1
  <2>4. \A o \in Objects(a) : o \in DOMAIN m1
    BY <1>4, <1>5, <1>15, <2>1 DEF Good, Grown
  <2>5. Exactly(a, m2)
    <3>1. \A o \in Objects(a) : m2[o] = m1[o]
      BY <1>10, <2>4 DEF Kept
    <3> QED BY <2>3, <3>1, ExactMoved
  <2>6. DOMAIN <<a, b>> = {1, 2} /\ <<a, b>>[1] = a /\ <<a, b>>[2] = b
    BY OwnIs
  <2>7. AllExact(<<a, b>>, m2)
    BY <2>3, <2>5, <2>6 DEF AllExact
  <2>8. AllExact(kv', mem')
    BY <1>11, <2>2, <2>7
  <2>9. kv'[1].sh = KtShape /\ kv'[1].codes = <<>> /\ kv'[2].sh = VShape /\ kv'[2].codes = <<>>
    BY <2>2, <2>3, <2>6
  <2> QED BY <1>11, <1>13, <2>8, <2>9 DEF LyInv
<1> QED BY <1>14, <1>15

(* A key is appended to both of them.                                      *)
LEMMA KvAppendLy ==
    ASSUME KTILE \in {0, KS}, PkInv, LyInv, NEW key \in Keys, NEW v \in Versions, ork_kv_append(key, v)
    PROVE  LyInv'
<1>1. PICK kt, va : kt = kv[1] /\ va = kv[2]
  OBVIOUS
<1>2. kv = <<kt, va>> /\ kv # <<>>
  BY <1>1 DEF ork_kv_append, PkInv
<1>3. Owned(mem, limbo, wt, <<kt, va>>) /\ MemOK(mem)
  BY <1>2 DEF PkInv
<1>4. DOMAIN <<kt, va>> = {1, 2} /\ <<kt, va>>[1] = kt /\ <<kt, va>>[2] = va
      /\ Own(<<kt, va>>) = Objects(kt) \cup Objects(va)
  BY OwnIs
<1>5. /\ Sound(kt, mem) /\ WellFormed(kt) /\ Sound(va, mem) /\ WellFormed(va)
      /\ Objects(kt) \cap Objects(va) = {}
  <2>1. HeldOK(<<kt, va>>, mem)
    BY <1>3 DEF Owned
  <2>2. \A i \in {1, 2} : Sound(<<kt, va>>[i], mem) /\ WellFormed(<<kt, va>>[i])
    BY <1>4, <2>1 DEF HeldOK
  <2>3. \A i, j \in {1, 2} : i # j => Objects(<<kt, va>>[i]) \cap Objects(<<kt, va>>[j]) = {}
    BY <1>4, <2>1 DEF HeldOK
  <2> QED BY <1>4, <2>2, <2>3
<1>6. /\ \A o \in Objects(kt) : o \in DOMAIN mem
      /\ \A o \in Objects(va) : o \in DOMAIN mem
      /\ \A o \in Own(wt) : o \in DOMAIN mem /\ o \notin Objects(kt) /\ o \notin Objects(va)
  BY <1>3, <1>4 DEF Owned
<1>7. /\ Exactly(kt, mem) /\ kt.sh = KtShape /\ kt.codes = <<>>
      /\ Exactly(va, mem) /\ va.sh = VShape /\ va.codes = <<>>
  BY <1>1, <1>2, <1>4 DEF LyInv, AllExact
<1>8. PICK B1, B2 : /\ B1 = [at \in DOMAIN kt.holds |->
                                IF at[2] = key /\ at[1] < KvShape[3] THEN v ELSE kt.holds[at]]
                    /\ B2 = [at \in DOMAIN va.holds |-> IF at[1] = key THEN v ELSE va.holds[at]]
  OBVIOUS
<1>9. PICK col, i : /\ col = [o \in {Spot(k, key, KvShape[1]) + 1 : k \in 0..(KvShape[3] - 1)} |->
                                  <<v, RowOf(o - 1, KvShape[1]), key>>]
                    /\ i = (key \div orki_int8_ks) + 1
  OBVIOUS
<1>10. PICK rows, lk : /\ rows = SlicesOf(VShape, orki_int8_ks, NMAX[Here])[i].Kp
                       /\ lk = key - (i - 1) * orki_int8_ks
  OBVIOUS
<1>11. PICK full, row : /\ full = [o \in {Spot(key, e, KvShape[2]) + 1 : e \in 0..(KvShape[3] - 1)} |->
                                      <<v, key, ColOf(o - 1, KvShape[2])>>]
                        /\ row = [o \in {Spot(lk, e, rows) + 1 : e \in 0..(KvShape[3] - 1)} |->
                                     <<v, key, ColOf(o - 1, rows)>>]
  OBVIOUS
<1>12. PICK m1 : m1 = IF kt.Bf # <<>> THEN Written(mem, kt.Bf[1], col) ELSE mem
  OBVIOUS
<1>13. PICK m2 : m2 = Written(m1, kt.Bb[1], col)
  OBVIOUS
<1>14. PICK m3 : m3 = IF va.Bf # <<>> THEN Written(m2, va.Bf[1], full) ELSE m2
  OBVIOUS
<1>15. PICK m4 : m4 = Written(m3, va.Bb[i], row)
  OBVIOUS
<1>16. PICK x, y : x = [kt EXCEPT !.holds = B1] /\ y = [va EXCEPT !.holds = B2]
  OBVIOUS
<1>17. mem' = m4 /\ kv' = <<x, y>> /\ UNCHANGED <<wt, file>>
  <2>1. mem' = m4
    BY <1>1, <1>9, <1>10, <1>11, <1>12, <1>13, <1>14, <1>15 DEF ork_kv_append
  <2>2. kv' = <<x, y>>
    BY <1>1, <1>8, <1>16 DEF ork_kv_append
  <2> QED BY <2>1, <2>2 DEF ork_kv_append
<1>18. Matrix(kt.holds, KtShape) /\ Matrix(va.holds, VShape)
  BY <1>7 DEF Exactly
<1>19. PICK sk, sv : sk = kt.sh /\ sv = va.sh
  OBVIOUS
<1>20. Matrix(B1, sk)
       /\ Patches(col, 1, Whole(sk), Len(Whole(sk)), Elements(kt.holds), Elements(B1))
       /\ Patches(col, 1, Tiling(sk, Here), Len(Tiling(sk, Here)), Elements(kt.holds), Elements(B1))
  <2>1. /\ Matrix(B1, KtShape)
        /\ Patches(col, 1, Whole(KtShape), Len(Whole(KtShape)), Elements(kt.holds), Elements(B1))
        /\ Patches(col, 1, Tiling(KtShape, Here), Len(Tiling(KtShape, Here)), Elements(kt.holds), Elements(B1))
    BY <1>8, <1>9, <1>18, KtPatches
  <2>2. sk = KtShape
    BY <1>7, <1>19
  <2> QED BY <2>1, <2>2
<1>21. Matrix(B2, sv)
       /\ Patches(full, 1, Whole(sv), Len(Whole(sv)), Elements(va.holds), Elements(B2))
       /\ Patches(row, i, Tiling(sv, Here), Len(Tiling(sv, Here)), Elements(va.holds), Elements(B2))
  <2>1. orki_int8_ks = KS /\ VShape[2] = KvShape[3]
    BY KsIs, KvSizes
  <2>2. i = (key \div KS) + 1 /\ rows = Tiling(VShape, Here)[i].Kp /\ lk = key - (i - 1) * KS
    BY <1>9, <1>10, <2>1 DEF Tiling
  <2>3. full = RowIn(KvShape[2], key, VShape, key, v) /\ row = RowIn(rows, lk, VShape, key, v)
    BY <1>11, <2>1 DEF RowIn
  <2>4. row = RowIn(Tiling(VShape, Here)[i].Kp, key - (i - 1) * KS, VShape, key, v)
    BY <2>2, <2>3
  <2>5. /\ Matrix(B2, VShape)
        /\ Patches(full, 1, Whole(VShape), Len(Whole(VShape)), Elements(va.holds), Elements(B2))
        /\ Patches(row, i, Tiling(VShape, Here), Len(Tiling(VShape, Here)), Elements(va.holds), Elements(B2))
    BY <1>8, <1>18, <2>2, <2>3, <2>4, VPatches
  <2>6. sv = VShape
    BY <1>7, <1>19
  <2> QED BY <2>5, <2>6
<1>22. /\ Alike(mem, m2) /\ MemOK(m2) /\ Exactly(x, m2)
       /\ \A o \in DOMAIN mem \ Objects(kt) : m2[o] = mem[o]
  <2>1. /\ Matrix(B1, kt.sh)
        /\ Patches(col, 1, Whole(kt.sh), Len(Whole(kt.sh)), Elements(kt.holds), Elements(B1))
        /\ Patches(col, 1, Tiling(kt.sh, Here), Len(Tiling(kt.sh, Here)), Elements(kt.holds), Elements(B1))
    BY <1>19, <1>20
  <2>2. PICK one : one = 1
    OBVIOUS
  <2>3. m2 = Appended(kt, mem, col, one, col)
    BY <1>12, <1>13, <2>2 DEF Appended, Refreshed
  <2>4. Patches(col, one, Tiling(kt.sh, Here), Len(Tiling(kt.sh, Here)), Elements(kt.holds), Elements(B1))
    BY <2>1, <2>2
  <2> QED BY <1>3, <1>5, <1>7, <1>16, <2>1, <2>3, <2>4, AppendTo
<1>23. \A o \in Objects(va) : o \in DOMAIN m2 /\ m2[o] = mem[o]
  BY <1>5, <1>6, <1>22 DEF Alike
<1>24. Sound(va, m2) /\ Exactly(va, m2)
  BY <1>5, <1>7, <1>23, SoundMoved, ExactMoved
<1>25. /\ Alike(m2, m4) /\ Exactly(y, m4)
       /\ \A o \in DOMAIN m2 \ Objects(va) : m4[o] = m2[o]
  <2>1. /\ Matrix(B2, va.sh)
        /\ Patches(full, 1, Whole(va.sh), Len(Whole(va.sh)), Elements(va.holds), Elements(B2))
        /\ Patches(row, i, Tiling(va.sh, Here), Len(Tiling(va.sh, Here)), Elements(va.holds), Elements(B2))
    BY <1>19, <1>21
  <2>2. m4 = Appended(va, m2, full, i, row)
    BY <1>14, <1>15 DEF Appended, Refreshed
  <2> QED BY <1>5, <1>7, <1>16, <1>22, <1>24, <2>1, <2>2, AppendTo
<1>26. /\ Objects(x) = Objects(kt) /\ x.sh = kt.sh /\ x.codes = kt.codes
       /\ y.sh = va.sh /\ y.codes = va.codes
  <2>1. Objects(x) = Objects(kt) /\ x.sh = kt.sh /\ x.codes = kt.codes
    BY <1>5, <1>16, SoundRenewed
  <2>2. y.sh = va.sh /\ y.codes = va.codes
    BY <1>5, <1>16, SoundRenewed
  <2> QED BY <2>1, <2>2
<1>27. Exactly(x, m4)
  <2>1. \A o \in Objects(x) : m4[o] = m2[o]
    BY <1>5, <1>6, <1>22, <1>25, <1>26 DEF Alike
  <2> QED BY <1>22, <2>1, ExactMoved
<1>28. AllExact(wt, m4)
  <2>1. \A o \in Own(wt) : m4[o] = mem[o]
    BY <1>6, <1>22, <1>25 DEF Alike
  <2> QED BY <2>1, AllMoved DEF LyInv
<1>29. DOMAIN <<x, y>> = {1, 2} /\ <<x, y>>[1] = x /\ <<x, y>>[2] = y
  BY OwnIs
<1>30. AllExact(<<x, y>>, m4)
  BY <1>25, <1>27, <1>29 DEF AllExact
<1>31. AllExact(wt', mem') /\ AllExact(kv', mem')
  BY <1>17, <1>28, <1>30
<1>32. kv'[1].sh = KtShape /\ kv'[1].codes = <<>> /\ kv'[2].sh = VShape /\ kv'[2].codes = <<>>
  BY <1>7, <1>17, <1>26, <1>29
<1> QED BY <1>17, <1>31, <1>32 DEF LyInv

-----------------------------------------------------------------------------
(* The layout is exact.                                                    *)

(* Every step keeps it.                                                    *)
LEMMA StepLy ==
    ASSUME KTILE \in {0, KS}, PkInv, LyInv, [PkNext]_pkVars
    PROVE  LyInv'
<1>1. CASE UNCHANGED pkVars
  <2>1. AllExact(wt', mem') /\ AllExact(kv', mem')
    BY <1>1 DEF pkVars, LyInv
  <2> QED BY <1>1, <2>1 DEF pkVars, LyInv
<1>2. CASE \E sh \in Shapes, v \in Versions :
              \/ ork_i8_mm_pack(sh, v)
              \/ ork_i8_mm_pack_import(sh, v)
              \/ \E soc \in Socs : \/ OfflinePack(sh, v, soc)
                                   \/ \E st \in BOOLEAN : ork_i8_w_dump_cpu(sh, v, soc, st)
  BY <1>2, PackLy, PackImportLy, OfflinePackLy, DumpCpuLy
<1>3. CASE \E f \in file, sh \in Shapes :
              \/ \E full \in BOOLEAN : ork_i8_mm_load(f, sh, full)
              \/ \E soc \in Socs : OfflineLoad(f, sh, soc)
              \/ ork_i8_mm_load_import(f, sh)
              \/ ork_i8_mm_import(f, sh)
  BY <1>3, LoadLy, OfflineLoadLy, LoadImportLy, ImportLy
<1>4. CASE \E f \in file : Forget(f)
  BY <1>4, ForgetLy
<1>5. CASE ork_w_dump
  BY <1>5, DumpLy
<1>6. CASE ork_mm_free_held
  BY <1>6, FreeLy
<1>7. CASE \E v \in Refills : ork_i8_mm_repack(v)
  BY <1>7, RepackLy
<1>8. CASE ork_kv_resident_alloc
  BY <1>8, KvAllocLy
<1>9. CASE ork_kv_resident_free
  BY <1>9, KvFreeLy
<1>10. CASE \E key \in Keys, v \in Versions : ork_kv_append(key, v)
  BY <1>10, KvAppendLy
<1> QED BY <1>1, <1>2, <1>3, <1>4, <1>5, <1>6, <1>7, <1>8, <1>9, <1>10 DEF PkNext

(* LayoutExact for every value of the constants: whichever way a weight    *)
(* was packed, loaded, imported, adopted, repacked or appended to, each    *)
(* tile of it reads as its slice of the matrix, and so does Bf.  ORK_KTILE *)
(* is unset, or is the KS the loads cut by.                                *)
THEOREM LayoutsAreExact ==
    ASSUME KTILE \in {0, KS}
    PROVE  PkSpec => []LayoutExact
<1>1. PkInit => PkInv /\ LyInv
  BY InitInv, InitLy
<1>2. PkInv /\ LyInv /\ [PkNext]_pkVars => PkInv' /\ LyInv'
  BY StepInv, StepLy
<1>3. PkInv /\ LyInv => LayoutExact
  BY LayoutOfInv
<1> QED BY <1>1, <1>2, <1>3, PTL DEF PkSpec
=============================================================================
