---------------------------- MODULE SavesProofs ------------------------------
(***************************************************************************)
(* Theorems about what outlives a session.  First the battery saves, for   *)
(* any cartridge, any page and sector, any limit of the list of blocks and *)
(* of their lengths; then the format of a save state, for any two builds   *)
(* of the core, any lists of sections and variables, any length of the     *)
(* image and any cut.                                                      *)
(***************************************************************************)
EXTENDS FlashStore, StateFormat, FiniteSetTheorems, SequenceTheorems, NaturalsInduction,
        WellFoundedInduction, TLAPS

\* No two blocks start at one address.
Distinct(bs) ==
  \A i, j \in DOMAIN bs : bs[i].start = bs[j].start => i = j

ListOK(bs) == bs \in Seq(Block) /\ Len(bs) <= FLASH_MAX_BLOCKS /\ Distinct(bs)

\* In order, neither overlapping nor touching.
Separate(bs) ==
  \A i, j \in DOMAIN bs : i < j => bs[i].start + bs[i].len < bs[j].start

Within(b, c) == c.start <= b.start /\ b.start + b.len <= c.start + c.len

Reaches(b, x) == b.start <= x /\ x < b.start + b.len

\* No LenMod consecutive bytes are all in these blocks, so no join is cut off.
Gaps(bs) ==
  \A x \in Addr : \E y \in x..(x + LenMod - 1) :
    \A i \in DOMAIN bs : ~Reaches(bs[i], y)

LEMMA BlockParts ==
  ASSUME NEW b \in Block
  PROVE  /\ b.start \in Addr /\ b.start \in Nat /\ b.len \in 0..(LenMod - 1) /\ b.len \in Nat
         /\ b = [start |-> b.start, len |-> b.len]
BY FlashAssumption DEF Block, Addr

-----------------------------------------------------------------------------
(* Sorting: the rank of a block is the number of blocks that start before it. *)
LEMMA SortedSorts ==
  ASSUME NEW bs \in Seq(Block), Distinct(bs)
  PROVE  /\ Sorted(bs) \in Seq(Block) /\ Len(Sorted(bs)) = Len(bs)
         /\ Range(Sorted(bs)) = Range(bs)
         /\ \A i, j \in 1..Len(bs) : i < j => Sorted(bs)[i].start <= Sorted(bs)[j].start
<1> DEFINE n == Len(bs)
           below(i) == {j \in 1..n : bs[j].start < bs[i].start}
           rank == [i \in 1..n |-> Cardinality(below(i)) + 1]
<1>1. n \in Nat /\ DOMAIN bs = 1..n /\ bs \in [1..n -> Block]
  OBVIOUS
<1>2. \A i \in 1..n : bs[i].start \in Nat
  BY <1>1, BlockParts
<1>3. IsFiniteSet(1..n) /\ Cardinality(1..n) = n
  <2>1. 1 \in Int /\ n \in Int
    BY <1>1
  <2> HIDE DEF n
  <2> QED BY <1>1, <2>1, FS_Interval
<1> HIDE DEF n
<1>4. ASSUME NEW i \in 1..n
      PROVE  /\ IsFiniteSet(below(i)) /\ Cardinality(below(i)) \in 0..(n - 1)
  <2>1. below(i) \subseteq (1..n) \ {i}
    BY <1>2
  <2>2. IsFiniteSet((1..n) \ {i}) /\ Cardinality((1..n) \ {i}) = n - 1
    BY <1>3, FS_RemoveElement
  <2>3. IsFiniteSet(below(i)) /\ Cardinality(below(i)) <= n - 1
    BY <2>1, <2>2, FS_Subset
  <2>4. Cardinality(below(i)) \in Nat
    BY <2>3, FS_CardinalityType
  <2> HIDE DEF below
  <2> QED BY <1>1, <2>3, <2>4
<1>5. rank \in [1..n -> 1..n]
  <2> HIDE DEF below
  <2>1. \A i \in 1..n : Cardinality(below(i)) + 1 \in 1..n
    BY <1>1, <1>4
  <2> QED BY <2>1
<1>6. ASSUME NEW i \in 1..n, NEW j \in 1..n, bs[i].start < bs[j].start
      PROVE  rank[i] < rank[j]
  <2>1. below(i) \subseteq below(j) /\ i \in below(j) /\ i \notin below(i)
    BY <1>2, <1>6
  <2>2. /\ Cardinality(below(i)) <= Cardinality(below(j))
        /\ Cardinality(below(i)) # Cardinality(below(j))
    <3>1. IsFiniteSet(below(j))
      BY <1>4
    <3> HIDE DEF below
    <3> QED BY <2>1, <3>1, FS_Subset
  <2>3. rank[i] = Cardinality(below(i)) + 1 /\ rank[j] = Cardinality(below(j)) + 1
    OBVIOUS
  <2>4. Cardinality(below(i)) \in Nat /\ Cardinality(below(j)) \in Nat
    <3> HIDE DEF below
    <3> QED BY <1>1, <1>4
  <2> HIDE DEF rank, below
  <2> QED BY <2>2, <2>3, <2>4
<1> HIDE DEF rank
<1>7. \A k \in 1..n : \E i \in 1..n : rank[i] = k
  <2>1. \A i, j \in 1..n : rank[i] = rank[j] => i = j
    <3> SUFFICES ASSUME NEW i \in 1..n, NEW j \in 1..n, rank[i] = rank[j], i # j PROVE FALSE
      OBVIOUS
    <3>1. bs[i].start # bs[j].start
      BY <1>1 DEF Distinct
    <3>2. bs[i].start < bs[j].start \/ bs[j].start < bs[i].start
      BY <1>2, <3>1
    <3>3. rank[i] \in Nat /\ rank[j] \in Nat /\ (rank[i] < rank[j] \/ rank[j] < rank[i])
      BY <1>5, <1>6, <3>2
    <3> QED BY <3>3
  <2>2. rank \in Injection(1..n, 1..n)
    BY <1>5, <2>1 DEF Injection, IsInjective
  <2>3. rank \in Surjection(1..n, 1..n)
    BY <1>3, <2>2, FS_Injection
  <2> QED BY <2>3 DEF Surjection
<1> DEFINE p == [k \in 1..n |-> CHOOSE i \in 1..n : rank[i] = k]
           s == [k \in 1..n |-> bs[p[k]]]
<1>8. \A k \in 1..n : p[k] \in 1..n /\ rank[p[k]] = k
  BY <1>7
<1>9. \A i \in 1..n : rank[i] \in 1..n /\ bs[p[rank[i]]] = bs[i]
  <2> TAKE i \in 1..n
  <2> DEFINE j == p[rank[i]]
  <2>1. rank[i] \in 1..n /\ rank[j] = rank[i] /\ j \in 1..n
    BY <1>5, <1>8
  <2> HIDE DEF j
  <2>2. rank[i] \in Nat /\ bs[j].start \in Nat /\ bs[i].start \in Nat
    BY <1>2, <2>1
  <2>3. ~(bs[j].start < bs[i].start) /\ ~(bs[i].start < bs[j].start)
    <3>1. ~(rank[j] < rank[i]) /\ ~(rank[i] < rank[j])
      BY <2>1, <2>2
    <3> QED BY <1>6, <2>1, <3>1, Zenon
  <2>4. bs[j].start = bs[i].start
    BY <2>2, <2>3
  <2> QED BY <1>1, <2>1, <2>4 DEF Distinct, j
<1> HIDE DEF p
<1>10. s \in [1..n -> Range(bs)] /\ DOMAIN s = 1..n
  BY <1>1, <1>8 DEF Range
<1>11. Range(s) = Range(bs)
  <2>1. Range(bs) \subseteq Range(s)
    <3> SUFFICES ASSUME NEW i \in 1..n PROVE bs[i] \in Range(s)
      BY <1>1 DEF Range
    <3>1. rank[i] \in DOMAIN s /\ s[rank[i]] = bs[i]
      BY <1>9
    <3> QED BY <3>1 DEF Range
  <2>2. Range(s) \subseteq Range(bs)
    BY <1>10 DEF Range
  <2> QED BY <2>1, <2>2
<1>12. ASSUME NEW k \in 1..n, NEW l \in 1..n, k < l PROVE s[k].start <= s[l].start
  <2>1. /\ p[k] \in 1..n /\ p[l] \in 1..n /\ rank[p[k]] = k /\ rank[p[l]] = l
        /\ s[k] = bs[p[k]] /\ s[l] = bs[p[l]]
    BY <1>8
  <2>2. bs[p[k]].start \in Nat /\ bs[p[l]].start \in Nat /\ k \in Nat /\ l \in Nat
    BY <1>2, <2>1
  <2>3. ~(bs[p[l]].start < bs[p[k]].start)
    <3>1. ~(l < k)
      BY <1>12, <2>2
    <3> QED BY <1>6, <2>1, <3>1, Zenon
  <2> QED BY <2>1, <2>2, <2>3
<1> HIDE DEF s
<1>13. \E t \in [DOMAIN bs -> Range(bs)] :
         Range(t) = Range(bs) /\ \A i, j \in DOMAIN t : i < j => t[i].start <= t[j].start
  BY <1>1, <1>10, <1>11, <1>12
<1>14. /\ Sorted(bs) \in [1..n -> Range(bs)] /\ Range(Sorted(bs)) = Range(bs)
       /\ \A i, j \in DOMAIN Sorted(bs) : i < j => Sorted(bs)[i].start <= Sorted(bs)[j].start
  BY <1>1, <1>13, Zenon DEF Sorted
<1>15. Range(bs) \subseteq Block
  BY <1>1 DEF Range
<1>16. Sorted(bs) \in [1..n -> Block]
  BY <1>14, <1>15
<1>17. Sorted(bs) \in Seq(Block) /\ Len(Sorted(bs)) = n
  BY <1>1, <1>16
<1> QED BY <1>14, <1>17 DEF n

-----------------------------------------------------------------------------
(* Joining, block by block of the sorted list. *)

\* A nonempty set of naturals has a least element.
LEMMA LeastExists ==
  ASSUME NEW S, S \subseteq Nat, S # {}
  PROVE  \E x \in S : \A y \in S : x <= y
<1>1. PICK x \in S : \A y \in S : ~(<<y, x>> \in OpToRel(<, Nat))
  <2>1. IsWellFoundedOn(OpToRel(<, Nat), Nat)
    BY NatLessThanWellFounded
  <2> QED BY <2>1, WFMin, Zenon
<1>2. \A y \in S : x <= y
  <2> SUFFICES ASSUME NEW y \in S, ~(x <= y) PROVE FALSE
    OBVIOUS
  <2>1. x \in Nat /\ y \in Nat /\ y < x
    OBVIOUS
  <2>2. <<y, x>> \in OpToRel(<, Nat)
    BY <2>1 DEF OpToRel
  <2> QED BY <2>2, <1>1
<1> QED BY <1>2

\* f holds the lists after the first n blocks of s, for each n up to k.
JoinsUpTo(s, k, f) ==
  f = [n \in 0..k |-> IF n = 0 THEN <<>> ELSE JoinNext(f[n - 1], s[n])]

LEMMA JoinsExist ==
  ASSUME NEW s, NEW k \in Nat
  PROVE  \E f : JoinsUpTo(s, k, f)
<1> SUFFICES ASSUME ~ \E f : JoinsUpTo(s, k, f) PROVE FALSE
  OBVIOUS
<1> DEFINE bad == {m \in Nat : ~ \E f : JoinsUpTo(s, m, f)}
<1>1. PICK m \in bad : \A l \in bad : m <= l
  <2>1. bad \subseteq Nat /\ k \in bad
    OBVIOUS
  <2> HIDE DEF bad
  <2> QED BY <2>1, LeastExists
<1>2. CASE m = 0
  <2> DEFINE f == [n \in 0..0 |-> <<>>]
  <2>1. f = [n \in 0..0 |-> IF n = 0 THEN <<>> ELSE JoinNext(f[n - 1], s[n])]
    OBVIOUS
  <2> HIDE DEF f
  <2>2. JoinsUpTo(s, 0, f)
    BY <2>1 DEF JoinsUpTo
  <2> QED BY <1>2, <2>2
<1>3. CASE m # 0
  <2>1. m \in Nat /\ m - 1 \in Nat /\ m - 1 \notin bad
    BY <1>1, <1>3
  <2>2. PICK f : JoinsUpTo(s, m - 1, f)
    BY <2>1
  <2> DEFINE g == [n \in 0..m |-> IF n < m THEN f[n] ELSE JoinNext(f[m - 1], s[m])]
             h == [n \in 0..m |-> IF n = 0 THEN <<>> ELSE JoinNext(g[n - 1], s[n])]
  <2>3. ASSUME NEW n \in 0..m PROVE g[n] = h[n]
    <3>1. CASE n = m
      <4>1. m - 1 \in 0..m /\ m - 1 < m
        BY <2>1
      <4>2. g[m - 1] = f[m - 1]
        BY <4>1, Zenon
      <4>3. h[n] = JoinNext(g[m - 1], s[m])
        BY <1>3, <3>1, Zenon
      <4>4. g[n] = JoinNext(f[m - 1], s[m])
        <5>1. ~(n < m)
          BY <2>1, <3>1
        <5> QED BY <5>1, Zenon
      <4> QED BY <4>2, <4>3, <4>4, Zenon
    <3>2. CASE n < m
      <4>1. n \in 0..(m - 1)
        BY <2>1, <3>2
      <4>2. g[n] = f[n]
        BY <3>2, Zenon
      <4>3. f[n] = IF n = 0 THEN <<>> ELSE JoinNext(f[n - 1], s[n])
        BY <2>2, <4>1, Zenon DEF JoinsUpTo
      <4>4. h[n] = IF n = 0 THEN <<>> ELSE JoinNext(g[n - 1], s[n])
        BY Zenon
      <4>5. n # 0 => g[n - 1] = f[n - 1]
        <5>1. n # 0 => n - 1 \in 0..m /\ n - 1 < m
          BY <2>1, <4>1
        <5> QED BY <5>1, Zenon
      <4> QED BY <4>2, <4>3, <4>4, <4>5, Zenon
    <3> QED BY <2>1, <3>1, <3>2
  <2>4. g = h
    BY <2>3, Zenon
  <2>5. JoinsUpTo(s, m, g)
    BY <2>4, Zenon DEF JoinsUpTo
  <2> QED BY <2>5
<1> QED BY <1>2, <1>3

LEMMA JoiningDefined ==
  ASSUME NEW s, Len(s) \in Nat
  PROVE  \A n \in 0..Len(s) :
           Joining(s)[n] = IF n = 0 THEN <<>> ELSE JoinNext(Joining(s)[n - 1], s[n])
<1>1. PICK f : JoinsUpTo(s, Len(s), f)
  BY JoinsExist
<1>2. JoinsUpTo(s, Len(s), Joining(s))
  BY <1>1, Zenon DEF Joining, JoinsUpTo
<1> QED BY <1>2, Zenon DEF JoinsUpTo

LEMMA JoinedParts ==
  ASSUME NEW b \in Block, NEW c \in Block, b.start <= c.start, c.start <= b.start + b.len
  PROVE  /\ Joined(b, c) \in Block /\ Joined(b, c).start = b.start
         /\ \A x \in Nat : Reaches(Joined(b, c), x) => Reaches(b, x) \/ Reaches(c, x)
         /\ \/ Within(b, Joined(b, c)) /\ Within(c, Joined(b, c))
            \/ \A y \in b.start..(b.start + LenMod - 1) : Reaches(b, y) \/ Reaches(c, y)
<1> DEFINE new == c.start + c.len - b.start
           len == IF new < b.len THEN b.len ELSE new
           cut == IF len >= LenMod THEN LenMod - 1 ELSE len
<1>1. /\ b.start \in Addr /\ b.start \in Nat /\ b.len \in 0..(LenMod - 1) /\ b.len \in Nat
      /\ c.start \in Nat /\ c.len \in Nat /\ LenMod \in Nat \ {0, 1}
  BY BlockParts, FlashAssumption
<1>2. cut \in 0..(LenMod - 1) /\ cut <= len /\ (new < LenMod => cut = len)
  BY <1>1
<1>3. Joined(b, c) = [b EXCEPT !.len = cut]
  BY DEF Joined
<1>4. new >= LenMod => c.start + c.len >= b.start + LenMod
  BY <1>1
<1>5. \A x \in Nat : b.start <= x /\ x < b.start + len => Reaches(b, x) \/ Reaches(c, x)
  BY <1>1 DEF Reaches
<1>6. /\ Joined(b, c) \in Block /\ Joined(b, c).start = b.start /\ Joined(b, c).len = cut
  <2> HIDE DEF cut
  <2> QED BY <1>2, <1>3 DEF Block
<1>7. \A x \in Nat : Reaches(Joined(b, c), x) => Reaches(b, x) \/ Reaches(c, x)
  <2> HIDE DEF cut, len
  <2> SUFFICES ASSUME NEW x \in Nat, b.start <= x, x < b.start + cut PROVE x < b.start + len
    BY <1>5, <1>6 DEF Reaches
  <2>1. cut \in Nat /\ len \in Int
    <3> USE DEF cut, len
    <3> QED BY <1>1, <1>2
  <2> QED BY <1>1, <1>2, <2>1
<1>8. CASE new < LenMod
  <2>1. Within(b, Joined(b, c)) /\ Within(c, Joined(b, c))
    BY <1>1, <1>2, <1>6, <1>8 DEF Within
  <2> QED BY <1>6, <1>7, <2>1
<1>9. CASE ~(new < LenMod)
  <2>1. new \in Int
    BY <1>1
  <2>2. c.start + c.len >= b.start + LenMod
    BY <1>1, <1>4, <1>9, <2>1
  <2> HIDE DEF new, len, cut
  <2>3. \A y \in b.start..(b.start + LenMod - 1) : Reaches(b, y) \/ Reaches(c, y)
    BY <1>1, <2>2 DEF Reaches
  <2> QED BY <1>6, <1>7, <2>3
<1> QED BY <1>8, <1>9

LEMMA EndsBefore ==
  ASSUME NEW i \in Nat, NEW j \in Nat, NEW k \in Nat, NEW l \in Nat, NEW m \in Nat,
         i + j < k, k + l < m
  PROVE  i + j < m
OBVIOUS

\* One block more keeps the list in order and apart, and whatever it covered.
LEMMA JoinStep ==
  ASSUME NEW bs \in Seq(Block), Separate(bs), NEW c \in Block,
         bs # <<>> => bs[Len(bs)].start <= c.start
  PROVE  /\ JoinNext(bs, c) \in Seq(Block) /\ Separate(JoinNext(bs, c))
         /\ Len(JoinNext(bs, c)) \in {Len(bs), Len(bs) + 1} /\ Len(JoinNext(bs, c)) > 0
         /\ JoinNext(bs, c)[Len(JoinNext(bs, c))].start <= c.start
         /\ \A i \in 1..Len(JoinNext(bs, c)), x \in Nat : Reaches(JoinNext(bs, c)[i], x) =>
              Reaches(c, x) \/ (i \in 1..Len(bs) /\ Reaches(bs[i], x))
         /\ \/ /\ \A i \in 1..Len(bs) : Within(bs[i], JoinNext(bs, c)[i])
               /\ Within(c, JoinNext(bs, c)[Len(JoinNext(bs, c))])
            \/ /\ bs # <<>>
               /\ \A y \in bs[Len(bs)].start..(bs[Len(bs)].start + LenMod - 1) :
                    Reaches(bs[Len(bs)], y) \/ Reaches(c, y)
<1> DEFINE n == Len(bs)
           new == JoinNext(bs, c)
           last == bs[n]
<1>1. n \in Nat /\ DOMAIN bs = 1..n /\ (bs = <<>> <=> n = 0) /\ Last(bs) = last
  BY EmptySeq DEF Last
<1>2. \A i \in 1..n : bs[i] \in Block /\ bs[i].start \in Nat /\ bs[i].len \in Nat
  BY <1>1, BlockParts
<1>3. c.start \in Nat /\ c.len \in Nat
  BY BlockParts
<1> HIDE DEF n
<1>4. \A i, j \in 1..n : i < j => bs[i].start + bs[i].len < bs[j].start
  BY <1>1 DEF Separate
<1>5. CASE bs # <<>> /\ c.start <= last.start + last.len
  <2> DEFINE joined == Joined(last, c)
  <2>1. new = [bs EXCEPT ![n] = joined] /\ n \in 1..n /\ n > 0
    BY <1>1, <1>5 DEF JoinNext, n
  <2>2. last \in Block /\ last.start <= c.start
    BY <1>1, <1>2, <1>5, <2>1 DEF n
  <2>3. /\ joined \in Block /\ joined.start = last.start
        /\ \A x \in Nat : Reaches(joined, x) => Reaches(last, x) \/ Reaches(c, x)
        /\ \/ Within(last, joined) /\ Within(c, joined)
           \/ \A y \in last.start..(last.start + LenMod - 1) : Reaches(last, y) \/ Reaches(c, y)
    BY <1>5, <2>2, JoinedParts
  <2> HIDE DEF joined
  <2>5. /\ new \in Seq(Block) /\ Len(new) = n /\ DOMAIN new = 1..n
        /\ \A i \in 1..n : new[i] = IF i = n THEN joined ELSE bs[i]
    <3>1. /\ [bs EXCEPT ![n] = joined] \in Seq(Block) /\ Len([bs EXCEPT ![n] = joined]) = Len(bs)
          /\ \A i \in 1..Len(bs) : [bs EXCEPT ![n] = joined][i] = IF i = n THEN joined ELSE bs[i]
      BY <2>1, <2>3, ExceptSeq DEF n
    <3> QED BY <2>1, <3>1 DEF n
  <2> HIDE DEF new, last
  <2>6. Separate(new)
    <3> SUFFICES ASSUME NEW i \in 1..n, NEW j \in 1..n, i < j
                 PROVE  new[i].start + new[i].len < new[j].start
      BY <2>5 DEF Separate
    <3>1. i # n /\ new[i] = bs[i]
      BY <1>1, <2>5
    <3>2. new[j].start = bs[j].start
      BY <2>3, <2>5 DEF last
    <3> QED BY <1>4, <3>1, <3>2
  <2>7. new[n].start <= c.start
    BY <2>1, <2>2, <2>3, <2>5 DEF last
  <2>8. ASSUME NEW i \in 1..n, NEW x \in Nat, Reaches(new[i], x)
        PROVE  Reaches(c, x) \/ Reaches(bs[i], x)
    <3>1. CASE i = n
      BY <2>3, <2>5, <2>8, <3>1 DEF last
    <3>2. CASE i # n
      BY <2>5, <2>8, <3>2
    <3> QED BY <3>1, <3>2
  <2>9. ASSUME Within(last, joined), Within(c, joined)
        PROVE  Within(c, new[n]) /\ \A i \in 1..n : Within(bs[i], new[i])
    <3>1. Within(c, new[n])
      BY <2>1, <2>5, <2>9
    <3>2. ASSUME NEW i \in 1..n PROVE Within(bs[i], new[i])
      <4>1. CASE i = n
        BY <2>5, <2>9, <4>1 DEF last
      <4>2. CASE i # n
        <5>1. new[i] = bs[i] /\ bs[i].start \in Nat /\ bs[i].len \in Nat
          BY <1>2, <2>5, <4>2
        <5> QED BY <5>1 DEF Within
      <4> QED BY <4>1, <4>2
    <3> QED BY <3>1, <3>2
  <2>10. Len(new) > 0 /\ Len(new) = n /\ Len(bs) = n
    BY <2>1, <2>5 DEF n
  <2>11. \/ Within(c, new[n]) /\ \A i \in 1..n : Within(bs[i], new[i])
         \/ /\ bs # <<>>
            /\ \A y \in last.start..(last.start + LenMod - 1) : Reaches(last, y) \/ Reaches(c, y)
    BY <1>5, <2>3, <2>9
  <2> QED BY <2>5, <2>6, <2>7, <2>8, <2>10, <2>11 DEF new, last
<1>6. CASE ~(bs # <<>> /\ c.start <= last.start + last.len)
  <2>1. new = Append(bs, c)
    BY <1>1, <1>6 DEF JoinNext
  <2>2. /\ new \in Seq(Block) /\ Len(new) = n + 1 /\ DOMAIN new = 1..(n + 1)
        /\ \A i \in 1..n : new[i] = bs[i]
        /\ new[n + 1] = c
    BY <1>1, <2>1, AppendProperties DEF n
  <2> HIDE DEF new
  <2>3. \A i \in 1..n : bs[i].start + bs[i].len < c.start
    <3> TAKE i \in 1..n
    <3>0. n \in 1..n /\ bs # <<>>
      BY <1>1
    <3>1. last.start + last.len < c.start /\ last.start \in Nat /\ last.len \in Nat
      <4>1. ~(c.start <= last.start + last.len) /\ last.start \in Nat /\ last.len \in Nat
        BY <1>2, <1>6, <3>0
      <4> HIDE DEF last
      <4> QED BY <1>3, <4>1
    <3>2. i = n \/ i < n
      BY <1>1
    <3>3. i < n => bs[i].start + bs[i].len < last.start
      BY <1>4, <3>0
    <3>4. bs[i].start \in Nat /\ bs[i].len \in Nat /\ (i = n => bs[i] = last)
      BY <1>2
    <3> HIDE DEF last
    <3>5. CASE i = n
      BY <3>1, <3>4, <3>5
    <3>6. CASE i < n
      <4>1. bs[i].start + bs[i].len < last.start /\ last.start + last.len < c.start
        BY <3>1, <3>3, <3>6
      <4> QED BY <1>3, <3>1, <3>4, <4>1, EndsBefore
    <3> QED BY <3>2, <3>5, <3>6
  <2>4. Separate(new)
    <3> SUFFICES ASSUME NEW i \in 1..(n + 1), NEW j \in 1..(n + 1), i < j
                 PROVE  new[i].start + new[i].len < new[j].start
      BY <2>2 DEF Separate
    <3>1. i \in 1..n /\ (j \in 1..n \/ j = n + 1)
      BY <1>1
    <3> QED BY <1>4, <2>2, <2>3, <3>1
  <2>5. ASSUME NEW i \in 1..n
        PROVE  new[i] = bs[i] /\ Within(bs[i], new[i])
    BY <1>1, <1>2, <2>2 DEF Within
  <2>6. new[Len(new)] = c /\ Within(c, c) /\ Len(new) > 0 /\ c.start <= c.start
    BY <1>1, <1>3, <2>2 DEF Within
  <2>7. \A i \in 1..Len(new) : i \in 1..n \/ new[i] = c
    <3>1. \A i \in 1..(n + 1) : i \in 1..n \/ i = n + 1
      BY <1>1
    <3> QED BY <2>2, <3>1
  <2>8. Len(new) = Len(bs) + 1
    BY <2>2 DEF n
  <2> QED BY <2>2, <2>4, <2>5, <2>6, <2>7, <2>8 DEF new, n
<1> QED BY <1>5, <1>6

\* What f, the list after the first n blocks of s, has of them.
Joins(s, n, f) ==
  /\ f \in Seq(Block) /\ Separate(f) /\ Len(f) <= n
  /\ n > 0 => Len(f) > 0 /\ f[Len(f)].start <= s[n].start
  /\ \A i \in 1..Len(f), x \in Nat : Reaches(f[i], x) => \E m \in 1..n : Reaches(s[m], x)
  /\ Gaps(s) => \A m \in 1..n : \E i \in 1..Len(f) : Within(s[m], f[i])

Ordered(s) == \A i, j \in 1..Len(s) : i < j => s[i].start <= s[j].start

LEMMA WithinTransitive ==
  ASSUME NEW b \in Block, NEW c \in Block, NEW d \in Block, Within(b, c), Within(c, d)
  PROVE  Within(b, d)
<1>1. /\ b.start \in Nat /\ c.start \in Nat /\ d.start \in Nat
      /\ b.len \in Nat /\ c.len \in Nat /\ d.len \in Nat
  BY BlockParts
<1> QED BY <1>1 DEF Within

LEMMA JoinsNext ==
  ASSUME NEW s \in Seq(Block), Ordered(s), NEW n \in 1..Len(s), NEW f, Joins(s, n - 1, f)
  PROVE  Joins(s, n, JoinNext(f, s[n]))
<1> DEFINE c == s[n]
           g == JoinNext(f, c)
           last == f[Len(f)]
<1>1. /\ f \in Seq(Block) /\ Separate(f) /\ Len(f) <= n - 1 /\ Len(f) \in Nat
      /\ c \in Block /\ n \in Nat /\ n - 1 \in Nat /\ Len(s) \in Nat
      /\ \A m \in 1..(n - 1) : m \in 1..n /\ m \in 1..Len(s)
  BY ElementOfSeq DEF Joins
<1>2. f # <<>> => last.start <= c.start
  <2> SUFFICES ASSUME f # <<>> PROVE last.start <= c.start
    OBVIOUS
  <2>1. Len(f) > 0 /\ n - 1 > 0 /\ n - 1 \in 1..Len(s) /\ n - 1 < n
    BY <1>1, EmptySeq
  <2>2. last.start <= s[n - 1].start /\ s[n - 1].start <= c.start
    BY <2>1 DEF Joins, Ordered
  <2>3. last \in Block /\ s[n - 1] \in Block
    BY <1>1, <2>1, ElementOfSeq
  <2>4. last.start \in Nat /\ s[n - 1].start \in Nat /\ c.start \in Nat
    BY <1>1, <2>3, BlockParts
  <2> HIDE DEF last, c
  <2> QED BY <2>2, <2>4
<1> HIDE DEF c
<1>3. /\ g \in Seq(Block) /\ Separate(g) /\ Len(g) \in {Len(f), Len(f) + 1} /\ Len(g) > 0
      /\ g[Len(g)].start <= c.start
      /\ \A i \in 1..Len(g), x \in Nat : Reaches(g[i], x) =>
           Reaches(c, x) \/ (i \in 1..Len(f) /\ Reaches(f[i], x))
  BY <1>1, <1>2, JoinStep
<1>4. \/ /\ \A i \in 1..Len(f) : Within(f[i], g[i])
         /\ Within(c, g[Len(g)])
      \/ /\ f # <<>>
         /\ \A y \in last.start..(last.start + LenMod - 1) : Reaches(last, y) \/ Reaches(c, y)
  BY <1>1, <1>2, JoinStep
<1> HIDE DEF g
<1>5. Len(g) <= n /\ Len(g) \in Nat
  BY <1>1, <1>3
<1>6. ASSUME NEW i \in 1..Len(g), NEW x \in Nat, Reaches(g[i], x)
      PROVE  \E m \in 1..n : Reaches(s[m], x)
  <2>1. CASE Reaches(c, x)
    BY <2>1 DEF c
  <2>2. CASE i \in 1..Len(f) /\ Reaches(f[i], x)
    <3>1. PICK m \in 1..(n - 1) : Reaches(s[m], x)
      BY <2>2 DEF Joins
    <3> QED BY <1>1, <3>1
  <2> QED BY <1>3, <1>6, <2>1, <2>2
<1>7. ASSUME Gaps(s), NEW m \in 1..n
      PROVE  \E i \in 1..Len(g) : Within(s[m], g[i])
  <2>1. /\ \A i \in 1..Len(f) : Within(f[i], g[i])
        /\ Within(c, g[Len(g)])
    <3> SUFFICES ASSUME f # <<>>, \A y \in last.start..(last.start + LenMod - 1) :
                                    Reaches(last, y) \/ Reaches(c, y)
                 PROVE  FALSE
      BY <1>4
    <3>1. Len(f) \in 1..Len(f)
      BY <1>1, EmptySeq
    <3>2. last.start \in Addr /\ last.start \in Nat
      BY <1>1, <3>1, ElementOfSeq, BlockParts
    <3> HIDE DEF last
    <3>3. PICK y \in last.start..(last.start + LenMod - 1) : \A i \in DOMAIN s : ~Reaches(s[i], y)
      BY <1>7, <3>2 DEF Gaps
    <3>4. y \in Nat
      BY <3>2, FlashAssumption
    <3>5. \A i \in 1..n : i \in DOMAIN s
      BY <1>1
    <3>6. CASE Reaches(last, y)
      <4>1. PICK i \in 1..(n - 1) : Reaches(s[i], y)
        BY <3>1, <3>4, <3>6 DEF Joins, last
      <4> QED BY <1>1, <3>3, <3>5, <4>1
    <3>7. CASE Reaches(c, y)
      <4>1. n \in 1..n
        BY <1>1
      <4> QED BY <3>3, <3>5, <3>7, <4>1 DEF c
    <3> QED BY <3>3, <3>6, <3>7
  <2>2. CASE m = n
    <3>1. Len(g) \in 1..Len(g)
      BY <1>3, <1>5
    <3> QED BY <2>1, <2>2, <3>1 DEF c
  <2>3. CASE m # n
    <3>1. m \in 1..(n - 1)
      BY <1>1, <2>3
    <3>2. PICK i \in 1..Len(f) : Within(s[m], f[i])
      BY <1>7, <3>1 DEF Joins
    <3>3. i \in 1..Len(g) /\ Within(f[i], g[i])
      BY <1>1, <1>3, <1>5, <2>1
    <3>4. s[m] \in Block /\ f[i] \in Block /\ g[i] \in Block
      BY <1>1, <1>3, <3>1, <3>3, ElementOfSeq
    <3> QED BY <3>2, <3>3, <3>4, WithinTransitive
  <2> QED BY <2>2, <2>3
<1> QED BY <1>3, <1>5, <1>6, <1>7 DEF Joins, g, c

LEMMA JoiningJoins ==
  ASSUME NEW s \in Seq(Block), Ordered(s)
  PROVE  Joins(s, Len(s), Joining(s)[Len(s)])
<1> DEFINE bad == {m \in 0..Len(s) : ~Joins(s, m, Joining(s)[m])}
<1>1. Len(s) \in Nat
  OBVIOUS
<1> SUFFICES ASSUME bad # {} PROVE FALSE
  BY <1>1
<1>2. PICK m \in bad : \A l \in bad : m <= l
  <2>1. bad \subseteq Nat
    BY <1>1
  <2> HIDE DEF bad
  <2> QED BY <2>1, LeastExists
<1>3. CASE m = 0
  <2>1. Joining(s)[0] = <<>>
    BY <1>1, JoiningDefined
  <2>2. <<>> \in Seq(Block) /\ Len(<<>>) = 0 /\ 1..0 = {} /\ DOMAIN <<>> = {}
    BY EmptySeq
  <2>3. Joins(s, 0, <<>>)
    BY <2>2 DEF Joins, Separate
  <2> QED BY <1>2, <1>3, <2>1, <2>3
<1>4. CASE m # 0
  <2>1. m \in 1..Len(s) /\ m \in 0..Len(s) /\ m - 1 \in 0..Len(s) /\ m - 1 < m
    BY <1>1, <1>2, <1>4
  <2>2. Joins(s, m - 1, Joining(s)[m - 1])
    BY <1>1, <1>2, <2>1
  <2>3. Joining(s)[m] = JoinNext(Joining(s)[m - 1], s[m])
    BY <1>1, <1>4, <2>1, JoiningDefined
  <2>4. Joins(s, m, Joining(s)[m])
    BY <2>1, <2>2, <2>3, JoinsNext
  <2> QED BY <1>2, <2>4
<1> QED BY <1>3, <1>4

\* flash_optimise_blocks(): the list it leaves is in order and apart and reaches no byte
\* that the list did not; if no join was cut off, each block is within one of it.
LEMMA OptimiseKeeps ==
  ASSUME NEW bs, ListOK(bs)
  PROVE  /\ ListOK(Optimise(bs)) /\ Separate(Optimise(bs)) /\ Len(Optimise(bs)) <= Len(bs)
         /\ \A k \in 1..Len(Optimise(bs)), x \in Nat :
              Reaches(Optimise(bs)[k], x) => \E i \in 1..Len(bs) : Reaches(bs[i], x)
         /\ Gaps(bs) =>
              \A i \in 1..Len(bs) : \E k \in 1..Len(Optimise(bs)) : Within(bs[i], Optimise(bs)[k])
<1> DEFINE s == Sorted(bs)
           o == Optimise(bs)
<1>1. bs \in Seq(Block) /\ Distinct(bs) /\ Len(bs) <= FLASH_MAX_BLOCKS /\ Len(bs) \in Nat
  BY DEF ListOK
<1>2. s \in Seq(Block) /\ Len(s) = Len(bs) /\ Range(s) = Range(bs) /\ Ordered(s)
  BY <1>1, SortedSorts DEF Ordered
<1>3. Joins(s, Len(s), o)
  BY <1>2, JoiningJoins DEF Optimise
<1>4. /\ \A m \in 1..Len(s) : \E i \in 1..Len(bs) : s[m] = bs[i]
      /\ \A i \in 1..Len(bs) : \E m \in 1..Len(s) : bs[i] = s[m]
  <2>1. DOMAIN s = 1..Len(s) /\ DOMAIN bs = 1..Len(bs)
    BY <1>1, <1>2, LenProperties
  <2> QED BY <1>2, <2>1 DEF Range
<1>5. Gaps(bs) => Gaps(s)
  <2>1. DOMAIN s = 1..Len(s) /\ DOMAIN bs = 1..Len(bs)
    BY <1>1, <1>2, LenProperties
  <2> HIDE DEF s
  <2> SUFFICES ASSUME Gaps(bs), NEW x \in Addr
               PROVE  \E y \in x..(x + LenMod - 1) : \A m \in DOMAIN s : ~Reaches(s[m], y)
    BY DEF Gaps
  <2>2. PICK y \in x..(x + LenMod - 1) : \A i \in DOMAIN bs : ~Reaches(bs[i], y)
    BY DEF Gaps
  <2> QED BY <1>4, <2>1, <2>2
<1> HIDE DEF s, o
<1>6. o \in Seq(Block) /\ Separate(o) /\ Len(o) <= Len(bs) /\ Len(o) \in Nat
  BY <1>2, <1>3 DEF Joins
<1>7. Distinct(o)
  <2> SUFFICES ASSUME NEW i \in 1..Len(o), NEW j \in 1..Len(o), o[i].start = o[j].start, i # j
               PROVE  FALSE
    BY <1>6, LenProperties DEF Distinct
  <2>1. i \in DOMAIN o /\ j \in DOMAIN o /\ (i < j \/ j < i)
    BY <1>6, LenProperties
  <2>2. /\ o[i].start \in Nat /\ o[i].len \in Nat
        /\ o[j].start \in Nat /\ o[j].len \in Nat
    BY <1>6, ElementOfSeq, BlockParts
  <2>3. o[i].start + o[i].len < o[j].start \/ o[j].start + o[j].len < o[i].start
    BY <1>6, <2>1 DEF Separate
  <2> QED BY <2>2, <2>3
<1>8. ListOK(o)
  BY <1>1, <1>6, <1>7, FlashAssumption DEF ListOK
<1>9. ASSUME NEW k \in 1..Len(o), NEW x \in Nat, Reaches(o[k], x)
      PROVE  \E i \in 1..Len(bs) : Reaches(bs[i], x)
  <2>1. PICK m \in 1..Len(s) : Reaches(s[m], x)
    BY <1>3, <1>9 DEF Joins
  <2> QED BY <1>4, <2>1
<1>10. ASSUME Gaps(bs), NEW i \in 1..Len(bs) PROVE \E k \in 1..Len(o) : Within(bs[i], o[k])
  <2>1. PICK m \in 1..Len(s) : bs[i] = s[m]
    BY <1>4
  <2>2. \E k \in 1..Len(o) : Within(s[m], o[k])
    BY <1>3, <1>5, <1>10 DEF Joins
  <2> QED BY <2>1, <2>2
<1> QED BY <1>6, <1>8, <1>9, <1>10 DEF o

-----------------------------------------------------------------------------
(* The invariants.  Shape holds whatever the game writes; Kept holds as long *)
(* as the blocks fit.                                                      *)
Heads(im) == [i \in DOMAIN im |-> [start |-> im[i].start, len |-> im[i].len]]

Sound(im) == ListOK(Heads(im)) /\ Separate(Heads(im)) /\ ImageOK(im)

Shape ==
  /\ TypeOK
  /\ ListOK(blocks)
  /\ Sound(file) /\ Sound(out) /\ Sound(slot.image)
  /\ out # <<>> => running /\ Separate(blocks) /\ out = Image(blocks)

Kept ==
  /\ Gaps(Heads(file)) /\ Gaps(Heads(slot.image))
  /\ Covered
  /\ intact => Overlay(Orig, file) = saved
  /\ slot.clean => Overlay(Orig, slot.image) = slot.rom

Sector == [start |-> SectorStart, len |-> SectorLen]

\* The list is not full, and no join of its blocks is longer than a block can be.
RoomLeft == Len(blocks) < FLASH_MAX_BLOCKS /\ Gaps(blocks)

EraseFits == [][BiosErase => Gaps(Append(blocks, Sector))]_vars

-----------------------------------------------------------------------------
(* The list and the bytes it covers. *)
LEMMA SpansOf ==
  ASSUME NEW bs \in Seq(Block)
  PROVE  /\ Spans(bs) \subseteq Addr
         /\ \A a \in Addr : a \in Spans(bs) <=>
              \E i \in 1..Len(bs) : bs[i].start <= a /\ a < bs[i].start + bs[i].len
<1>1. DOMAIN bs = 1..Len(bs)
  OBVIOUS
<1> QED BY <1>1 DEF Spans, Span

LEMMA WithinSpan ==
  ASSUME NEW bs \in Seq(Block), NEW b \in Block, NEW i \in 1..Len(bs), Within(b, bs[i]),
         NEW a \in Addr, b.start <= a, a < b.start + b.len
  PROVE  a \in Spans(bs)
<1>1. bs[i] \in Block
  BY ElementOfSeq
<1>2. /\ b.start \in Nat /\ b.len \in Nat /\ bs[i].start \in Nat /\ bs[i].len \in Nat
      /\ a \in Int
  BY <1>1, BlockParts DEF Addr
<1>3. bs[i].start <= a /\ a < bs[i].start + bs[i].len
  BY <1>2 DEF Within
<1> QED BY <1>3, SpansOf

LEMMA OptimiseCovers ==
  ASSUME NEW bs, ListOK(bs), Gaps(bs)
  PROVE  Spans(bs) \subseteq Spans(Optimise(bs))
<1>1. bs \in Seq(Block) /\ Optimise(bs) \in Seq(Block)
  BY OptimiseKeeps DEF ListOK
<1> SUFFICES ASSUME NEW a \in Addr, a \in Spans(bs) PROVE a \in Spans(Optimise(bs))
  BY <1>1, SpansOf
<1>2. PICK i \in 1..Len(bs) : bs[i].start <= a /\ a < bs[i].start + bs[i].len
  BY <1>1, SpansOf
<1>3. PICK k \in 1..Len(Optimise(bs)) : Within(bs[i], Optimise(bs)[k])
  BY OptimiseKeeps
<1>4. bs[i] \in Block
  BY <1>1, ElementOfSeq
<1> QED BY <1>1, <1>2, <1>3, <1>4, WithinSpan

\* A list that reaches no further has the gaps of the other one.
LEMMA GapsStay ==
  ASSUME NEW bs \in Seq(Block), NEW cs \in Seq(Block), Gaps(bs),
         \A k \in 1..Len(cs), x \in Nat :
           Reaches(cs[k], x) => \E i \in 1..Len(bs) : Reaches(bs[i], x)
  PROVE  Gaps(cs)
<1> SUFFICES ASSUME NEW x \in Addr
             PROVE  \E y \in x..(x + LenMod - 1) : \A k \in DOMAIN cs : ~Reaches(cs[k], y)
  BY DEF Gaps
<1>1. PICK y \in x..(x + LenMod - 1) : \A i \in DOMAIN bs : ~Reaches(bs[i], y)
  BY DEF Gaps
<1>2. y \in Nat
  BY FlashAssumption DEF Addr
<1>3. DOMAIN bs = 1..Len(bs) /\ DOMAIN cs = 1..Len(cs)
  BY LenProperties
<1> QED BY <1>1, <1>2, <1>3

LEMMA OptimiseGaps ==
  ASSUME NEW bs, ListOK(bs), Gaps(bs)
  PROVE  Gaps(Optimise(bs))
BY OptimiseKeeps, GapsStay DEF ListOK

\* flash_write(): the list keeps what it has, and takes the block if it is not full.
LEMMA RegisterKeeps ==
  ASSUME NEW bs, ListOK(bs), NEW start \in Addr, NEW len \in 0..(LenMod - 1)
  PROVE  /\ ListOK(Register(bs, start, len))
         /\ Len(bs) <= Len(Register(bs, start, len))
         /\ \A i \in 1..Len(bs) : Within(bs[i], Register(bs, start, len)[i])
         /\ Len(bs) < FLASH_MAX_BLOCKS =>
              \E i \in 1..Len(Register(bs, start, len)) :
                 Within([start |-> start, len |-> len], Register(bs, start, len)[i])
         /\ \A i \in 1..Len(Register(bs, start, len)) :
              \/ i \in 1..Len(bs) /\ Register(bs, start, len)[i] = bs[i]
              \/ Register(bs, start, len)[i] = [start |-> start, len |-> len]
<1> DEFINE n == Len(bs)
           b == [start |-> start, len |-> len]
           new == Register(bs, start, len)
           same == {i \in DOMAIN bs : bs[i].start = start}
<1>1. /\ bs \in Seq(Block) /\ n <= FLASH_MAX_BLOCKS /\ n \in Nat /\ DOMAIN bs = 1..n
      /\ b \in Block /\ len \in Nat /\ start \in Nat /\ b.start = start /\ b.len = len
      /\ FLASH_MAX_BLOCKS \in Nat
  BY FlashAssumption DEF ListOK, Block, Addr
<1>2. \A i \in 1..n : bs[i] \in Block /\ bs[i].start \in Nat /\ bs[i].len \in Nat
                      /\ bs[i] = [start |-> bs[i].start, len |-> bs[i].len]
  BY <1>1, ElementOfSeq, BlockParts
<1>3. \A i, j \in 1..n : bs[i].start = bs[j].start => i = j
  BY <1>1 DEF ListOK, Distinct
<1>4. \A c \in Block : Within(c, c)
  BY BlockParts DEF Within
<1>5. CASE same # {}
  <2>1. new = [i \in 1..n |-> IF i \in same /\ bs[i].len < len
                              THEN [bs[i] EXCEPT !.len = len] ELSE bs[i]]
    BY <1>1, <1>5, Zenon DEF Register
  <2>2. ASSUME NEW i \in 1..n
        PROVE  /\ new[i] \in Block /\ new[i].start = bs[i].start
               /\ new[i] = bs[i] \/ (new[i] = b /\ i \in same /\ bs[i].len < len)
               /\ i \in same => new[i].len >= len
               /\ Within(bs[i], new[i])
    <3>1. CASE i \in same /\ bs[i].len < len
      <4>1. new[i] = b
        <5>1. new[i] = [bs[i] EXCEPT !.len = len] /\ bs[i].start = start
          BY <2>1, <3>1
        <5>2. [[start |-> bs[i].start, len |-> bs[i].len] EXCEPT !.len = len]
                = [start |-> bs[i].start, len |-> len]
          OBVIOUS
        <5> QED BY <1>2, <5>1, <5>2
      <4>2. bs[i].start = start
        BY <3>1
      <4> HIDE DEF new, b
      <4>3. Within(bs[i], new[i])
        BY <1>1, <1>2, <3>1, <4>1, <4>2 DEF Within
      <4> QED BY <1>1, <3>1, <4>1, <4>2, <4>3
    <3>2. CASE ~(i \in same /\ bs[i].len < len)
      <4>1. new[i] = bs[i]
        BY <2>1, <3>2
      <4>2. i \in same => bs[i].len >= len
        BY <1>1, <1>2, <3>2
      <4> HIDE DEF new, b
      <4> QED BY <1>2, <1>4, <4>1, <4>2
    <3> QED BY <3>1, <3>2
  <2>3. new \in [1..n -> Block]
    BY <2>1, <2>2, Zenon
  <2> HIDE DEF new, n, b
  <2>4. new \in Seq(Block) /\ Len(new) = n /\ DOMAIN new = 1..n
    BY <1>1, <2>3
  <2>5. ListOK(new)
    BY <1>1, <1>3, <2>2, <2>4 DEF ListOK, Distinct
  <2>6. \E i \in 1..n : Within(b, new[i])
    <3>1. PICK i \in 1..n : i \in same
      BY <1>1, <1>5
    <3>2. new[i].start = start /\ new[i].len >= len /\ new[i].len \in Nat
      BY <2>2, <3>1, BlockParts
    <3>3. Within(b, new[i])
      BY <1>1, <3>2 DEF Within
    <3> QED BY <3>3
  <2>7. n <= Len(new) /\ Len(bs) = n
    BY <1>1, <2>4 DEF n
  <2>8. \A i \in 1..n : Within(bs[i], new[i]) /\ (new[i] = bs[i] \/ new[i] = b)
    BY <2>2
  <2> QED BY <2>4, <2>5, <2>6, <2>7, <2>8 DEF new, b
<1>6. CASE same = {} /\ n < FLASH_MAX_BLOCKS
  <2>1. new = Append(bs, b)
    BY <1>6 DEF Register
  <2> HIDE DEF new, b
  <2>2. /\ new \in Seq(Block) /\ Len(new) = n + 1 /\ DOMAIN new = 1..(n + 1)
        /\ \A i \in 1..n : new[i] = bs[i]
        /\ new[n + 1] = b
    BY <1>1, <2>1, AppendProperties
  <2>3. \A i \in 1..(n + 1) : i \in 1..n \/ i = n + 1
    BY <1>1
  <2>4. \A i \in 1..n : bs[i].start # start
    BY <1>1, <1>6
  <2> HIDE DEF n, same
  <2>5. Distinct(new)
    <3> SUFFICES ASSUME NEW i \in 1..(n + 1), NEW j \in 1..(n + 1), new[i].start = new[j].start
                 PROVE  i = j
      BY <2>2 DEF Distinct
    <3> QED BY <1>1, <1>3, <2>2, <2>3, <2>4
  <2>6. Len(new) <= FLASH_MAX_BLOCKS
    BY <1>1, <1>6, <2>2
  <2>7. ListOK(new)
    BY <2>2, <2>5, <2>6 DEF ListOK
  <2>8. n + 1 \in 1..Len(new) /\ n <= Len(new) /\ Within(b, new[n + 1])
    BY <1>1, <1>4, <2>2
  <2>9. \A i \in 1..n : Within(bs[i], new[i])
    BY <1>2, <1>4, <2>2
  <2> QED BY <2>2, <2>3, <2>7, <2>8, <2>9 DEF new, b, n
<1>7. CASE same = {} /\ ~(n < FLASH_MAX_BLOCKS)
  <2>1. new = bs
    BY <1>7 DEF Register
  <2> QED BY <1>1, <1>2, <1>4, <1>7, <2>1
<1> QED BY <1>5, <1>6, <1>7

LEMMA RegisterCovers ==
  ASSUME NEW bs, ListOK(bs), NEW start \in Addr, NEW len \in 0..(LenMod - 1),
         NEW a \in Addr,
         \/ a \in Spans(bs)
         \/ Len(bs) < FLASH_MAX_BLOCKS /\ start <= a /\ a < start + len
  PROVE  a \in Spans(Register(bs, start, len))
<1> DEFINE new == Register(bs, start, len)
           b == [start |-> start, len |-> len]
<1>0. ListOK(new)
  BY RegisterKeeps
<1>1. /\ bs \in Seq(Block) /\ new \in Seq(Block) /\ Len(bs) \in Nat /\ Len(new) \in Nat
      /\ Len(bs) <= Len(new) /\ \A i \in 1..Len(bs) : Within(bs[i], new[i])
  <2>1. Len(bs) <= Len(new) /\ \A i \in 1..Len(bs) : Within(bs[i], new[i])
    BY RegisterKeeps
  <2> HIDE DEF new
  <2> QED BY <1>0, <2>1 DEF ListOK
<1>2. CASE a \in Spans(bs)
  <2>1. PICK i \in 1..Len(bs) : bs[i].start <= a /\ a < bs[i].start + bs[i].len
    BY <1>1, <1>2, SpansOf
  <2>2. i \in 1..Len(new) /\ Within(bs[i], new[i]) /\ bs[i] \in Block
    BY <1>1, ElementOfSeq
  <2> HIDE DEF new
  <2>3. a \in Spans(new)
    BY <1>1, <2>1, <2>2, WithinSpan
  <2> QED BY <2>3 DEF new
<1>3. CASE Len(bs) < FLASH_MAX_BLOCKS /\ start <= a /\ a < start + len
  <2>1. b \in Block /\ b.start <= a /\ a < b.start + b.len
    BY <1>3 DEF Block
  <2>2. PICK i \in 1..Len(new) : Within(b, new[i])
    BY <1>3, RegisterKeeps
  <2> HIDE DEF new, b
  <2>3. a \in Spans(new)
    BY <1>1, <2>1, <2>2, WithinSpan
  <2> QED BY <2>3 DEF new
<1> QED BY <1>2, <1>3 DEF new

-----------------------------------------------------------------------------
(* Images. *)
LEMMA HeadsParts ==
  ASSUME NEW im
  PROVE  /\ DOMAIN Heads(im) = DOMAIN im /\ Spans(Heads(im)) = Spans(im)
         /\ \A i \in DOMAIN im :
              /\ Heads(im)[i].start = im[i].start /\ Heads(im)[i].len = im[i].len
              /\ Span(Heads(im)[i]) = Span(im[i])
<1>1. DOMAIN Heads(im) = DOMAIN im
  BY DEF Heads
<1>2. ASSUME NEW i \in DOMAIN im
      PROVE  /\ Heads(im)[i].start = im[i].start /\ Heads(im)[i].len = im[i].len
             /\ Span(Heads(im)[i]) = Span(im[i])
  <2>1. Heads(im)[i].start = im[i].start /\ Heads(im)[i].len = im[i].len
    BY DEF Heads
  <2> QED BY <2>1 DEF Span
<1>3. Spans(Heads(im)) = Spans(im)
  BY <1>1, <1>2 DEF Spans
<1> QED BY <1>1, <1>2, <1>3

LEMMA LoadedParts ==
  ASSUME NEW im, Sound(im)
  PROVE  /\ ListOK(BlocksOf(im))
         /\ Gaps(Heads(im)) => Spans(im) \subseteq Spans(BlocksOf(im))
<1>1. BlocksOf(im) = Optimise(Heads(im)) /\ ListOK(Heads(im))
  BY DEF BlocksOf, Heads, Sound
<1> QED BY <1>1, OptimiseKeeps, OptimiseCovers, HeadsParts

LEMMA NotBetween ==
  ASSUME NEW i \in Nat, NEW j \in Nat, NEW k \in Nat, NEW a \in Int, a < i + j, k <= a
  PROVE  ~(i + j < k)
OBVIOUS

\* do_flash_read(): where the image has a byte it is stored, elsewhere nothing is.
LEMMA OverlayParts ==
  ASSUME NEW im, Sound(im), NEW base \in ROM
  PROVE  /\ Overlay(base, im) \in ROM
         /\ \A a \in Addr, i \in DOMAIN im : a \in Span(im[i]) => Overlay(base, im)[a] = im[i].data[a]
         /\ \A a \in Addr : a \notin Spans(im) => Overlay(base, im)[a] = base[a]
<1> DEFINE hits(a) == {i \in DOMAIN im : a \in Span(im[i])}
           r == Overlay(base, im)
<1>1. \A a \in Addr : r[a] = IF hits(a) = {} THEN base[a] ELSE im[Max(hits(a))].data[a]
  BY DEF Overlay
<1>2. /\ Heads(im) \in Seq(Block) /\ DOMAIN im = 1..Len(Heads(im)) /\ DOMAIN im \subseteq Nat
      /\ \A i, j \in DOMAIN im : i < j => im[i].start + im[i].len < im[j].start
  <2>1. Heads(im) \in Seq(Block) /\ DOMAIN Heads(im) = DOMAIN im
    BY HeadsParts DEF Sound, ListOK
  <2>2. DOMAIN im = 1..Len(Heads(im)) /\ Len(Heads(im)) \in Nat
    BY <2>1, LenProperties
  <2>3. \A i, j \in DOMAIN im : i < j =>
          Heads(im)[i].start + Heads(im)[i].len < Heads(im)[j].start
    BY <2>1 DEF Sound, Separate
  <2>4. \A i, j \in DOMAIN im : i < j => im[i].start + im[i].len < im[j].start
    BY <2>3, HeadsParts
  <2> QED BY <2>1, <2>2, <2>4
<1>3. ASSUME NEW i \in DOMAIN im
      PROVE  /\ im[i].start \in Nat /\ im[i].len \in Nat /\ im[i].data \in [Span(im[i]) -> Values]
  <2>1. [start |-> im[i].start, len |-> im[i].len] \in Block
    BY DEF Sound, ImageOK
  <2>2. im[i].start \in Addr /\ im[i].len \in 0..(LenMod - 1)
    BY <2>1 DEF Block
  <2>3. im[i].start \in Nat /\ im[i].len \in Nat
    BY <2>2, FlashAssumption DEF Addr
  <2>4. im[i].data \in [Span(im[i]) -> Values]
    BY DEF Sound, ImageOK
  <2> QED BY <2>3, <2>4
<1>4. ASSUME NEW a \in Addr, NEW i \in DOMAIN im, a \in Span(im[i])
      PROVE  r[a] = im[i].data[a] /\ r[a] \in Values
  <2>1. ASSUME NEW j \in DOMAIN im, a \in Span(im[j]) PROVE j = i
    <3>1. /\ im[i].start <= a /\ a < im[i].start + im[i].len
          /\ im[j].start <= a /\ a < im[j].start + im[j].len
      BY <1>4, <2>1 DEF Span
    <3>2. /\ im[i].start \in Nat /\ im[i].len \in Nat /\ im[j].start \in Nat /\ im[j].len \in Nat
          /\ a \in Int
      BY <1>3 DEF Addr
    <3>3. ~(i < j) /\ ~(j < i)
      <4>1. /\ ~(im[i].start + im[i].len < im[j].start)
            /\ ~(im[j].start + im[j].len < im[i].start)
        BY <3>1, <3>2, NotBetween
      <4> QED BY <1>2, <4>1
    <3>4. i \in Nat /\ j \in Nat
      BY <1>2
    <3> QED BY <3>3, <3>4
  <2>2. hits(a) = {i}
    BY <1>4, <2>1
  <2>3. Max({i}) = i
    <3>1. i \in Nat
      BY <1>2
    <3> QED BY <3>1 DEF Max
  <2>4. r[a] = im[i].data[a]
    BY <1>1, <2>2, <2>3
  <2>5. im[i].data[a] \in Values
    BY <1>3, <1>4
  <2> QED BY <2>4, <2>5
<1>5. ASSUME NEW a \in Addr, a \notin Spans(im) PROVE r[a] = base[a]
  BY <1>1, <1>5 DEF Spans
<1>6. r \in ROM
  <2>1. \A a \in Addr : r[a] \in Values
    <3> TAKE a \in Addr
    <3>1. CASE a \in Spans(im)
      BY <1>4, <3>1 DEF Spans
    <3>2. CASE a \notin Spans(im)
      BY <1>5, <3>2 DEF ROM
    <3> QED BY <3>1, <3>2
  <2>2. r = [a \in Addr |-> r[a]]
    BY DEF Overlay
  <2> HIDE DEF r
  <2> QED BY <2>1, <2>2 DEF ROM
<1> QED BY <1>4, <1>5, <1>6

\* make_flash_commit(): the image has the blocks of the list, with the ROM's bytes if no
\* status read was pending.
LEMMA ImageParts ==
  ASSUME NEW bs, ListOK(bs), Separate(bs), rom \in ROM
  PROVE  /\ Sound(Image(bs)) /\ Heads(Image(bs)) = bs /\ DOMAIN Image(bs) = DOMAIN bs
         /\ ~Disturbed(bs) => \A i \in DOMAIN bs : \A a \in Span(bs[i]) : Image(bs)[i].data[a] = rom[a]
<1> DEFINE seen == IF Disturbed(bs) THEN [rom EXCEPT ![Min(Spans(bs))] = Erased] ELSE rom
           im == Image(bs)
<1>1. bs \in Seq(Block) /\ DOMAIN bs = 1..Len(bs)
  BY LenProperties DEF ListOK
<1>2. seen \in ROM
  <2>1. [rom EXCEPT ![Min(Spans(bs))] = Erased] \in ROM
    BY FlashAssumption DEF ROM
  <2> QED BY <2>1
<1>3. im = [i \in DOMAIN bs |-> [start |-> bs[i].start, len |-> bs[i].len,
                                 data |-> [a \in Span(bs[i]) |-> seen[a]]]]
  BY DEF Image
<1>4. DOMAIN im = DOMAIN bs
  BY <1>3
<1>5. ASSUME NEW i \in DOMAIN bs
      PROVE  /\ im[i].start = bs[i].start /\ im[i].len = bs[i].len
             /\ im[i].data = [a \in Span(bs[i]) |-> seen[a]]
             /\ Span(im[i]) = Span(bs[i])
             /\ bs[i] \in Block /\ bs[i] = [start |-> bs[i].start, len |-> bs[i].len]
  <2>1. /\ im[i].start = bs[i].start /\ im[i].len = bs[i].len
        /\ im[i].data = [a \in Span(bs[i]) |-> seen[a]]
    BY <1>3
  <2>2. Span(im[i]) = Span(bs[i])
    BY <2>1 DEF Span
  <2>3. bs[i] \in Block
    BY <1>1, ElementOfSeq
  <2> QED BY <2>1, <2>2, <2>3, BlockParts
<1> HIDE DEF im, seen
<1>6. Heads(im) = bs
  <2>1. Heads(im) = [i \in DOMAIN bs |-> [start |-> im[i].start, len |-> im[i].len]]
    BY <1>4 DEF Heads
  <2>2. \A i \in DOMAIN bs : [start |-> im[i].start, len |-> im[i].len] = bs[i]
    BY <1>5
  <2>3. bs = [i \in DOMAIN bs |-> bs[i]]
    BY <1>1, LenProperties
  <2> QED BY <2>1, <2>2, <2>3, Zenon
<1>7. ImageOK(im)
  <2> SUFFICES ASSUME NEW i \in DOMAIN bs
               PROVE  /\ [start |-> im[i].start, len |-> im[i].len] \in Block
                      /\ im[i].data \in [Span(im[i]) -> Values]
    BY <1>4 DEF ImageOK
  <2>1. Span(bs[i]) \subseteq Addr
    BY DEF Span
  <2>2. [a \in Span(bs[i]) |-> seen[a]] \in [Span(bs[i]) -> Values]
    BY <1>2, <2>1 DEF ROM
  <2>3. im[i].data \in [Span(im[i]) -> Values]
    <3>1. im[i].data = [a \in Span(bs[i]) |-> seen[a]] /\ Span(im[i]) = Span(bs[i])
      BY <1>5
    <3> QED BY <2>2, <3>1, Zenon
  <2>4. [start |-> im[i].start, len |-> im[i].len] \in Block
    <3>1. /\ im[i].start = bs[i].start /\ im[i].len = bs[i].len /\ bs[i] \in Block
          /\ bs[i] = [start |-> bs[i].start, len |-> bs[i].len]
      BY <1>5
    <3> QED BY <3>1, Zenon
  <2> QED BY <2>3, <2>4
<1>8. Sound(im)
  BY <1>6, <1>7 DEF Sound
<1>9. ASSUME ~Disturbed(bs), NEW i \in DOMAIN bs, NEW a \in Span(bs[i]) PROVE im[i].data[a] = rom[a]
  <2>1. seen = rom
    BY <1>9, Zenon DEF seen
  <2>2. im[i].data = [b \in Span(bs[i]) |-> rom[b]]
    BY <1>5, <2>1, Zenon
  <2> QED BY <1>9, <2>2, Zenon
<1>10. im = Image(bs)
  BY Zenon DEF im
<1>11. ~Disturbed(bs) => \A i \in DOMAIN bs : \A a \in Span(bs[i]) : im[i].data[a] = rom[a]
  BY <1>9, Zenon
<1>12. Sound(Image(bs)) /\ Heads(Image(bs)) = bs
  BY <1>6, <1>8, <1>10, Zenon
<1>13. DOMAIN Image(bs) = DOMAIN bs
  BY <1>4, <1>10, Zenon
<1>14. ~Disturbed(bs) => \A i \in DOMAIN bs : \A a \in Span(bs[i]) : Image(bs)[i].data[a] = rom[a]
  BY <1>10, <1>11, Zenon
<1> QED BY <1>12, <1>13, <1>14, Zenon

\* What is stored of a ROM whose changed bytes are all covered is that ROM.
LEMMA ImageIsWhole ==
  ASSUME NEW bs, ListOK(bs), Separate(bs), rom \in ROM, ~Disturbed(bs),
         {a \in Addr : rom[a] # Pristine} \subseteq Spans(bs)
  PROVE  Overlay(Orig, Image(bs)) = rom
<1> DEFINE im == Image(bs)
           r == Overlay(Orig, im)
<1>1. Orig \in ROM /\ \A a \in Addr : Orig[a] = Pristine
  BY FlashAssumption DEF Orig, ROM
<1>2. /\ Sound(im) /\ Heads(im) = bs /\ DOMAIN im = DOMAIN bs
      /\ \A i \in DOMAIN bs : \A a \in Span(bs[i]) : im[i].data[a] = rom[a]
  BY ImageParts
<1> HIDE DEF im
<1>3. /\ r \in ROM
      /\ \A a \in Addr, i \in DOMAIN im : a \in Span(im[i]) => r[a] = im[i].data[a]
      /\ \A a \in Addr : a \notin Spans(im) => r[a] = Orig[a]
  BY <1>1, <1>2, OverlayParts
<1>4. Spans(im) = Spans(bs) /\ \A i \in DOMAIN im : Span(im[i]) = Span(bs[i])
  BY <1>2, HeadsParts
<1> HIDE DEF r
<1>5. ASSUME NEW a \in Addr PROVE r[a] = rom[a]
  <2>1. CASE a \in Spans(bs)
    <3>1. PICK i \in DOMAIN bs : a \in Span(bs[i])
      BY <2>1 DEF Spans
    <3> QED BY <1>2, <1>3, <1>4, <3>1
  <2>2. CASE a \notin Spans(bs)
    BY <1>1, <1>3, <1>4, <2>2
  <2> QED BY <2>1, <2>2
<1>6. r = rom
  BY <1>3, <1>5 DEF ROM
<1> QED BY <1>6 DEF r, im

-----------------------------------------------------------------------------
(* Shape. *)
LEMMA EmptySound ==
  /\ Sound(<<>>) /\ Gaps(Heads(<<>>)) /\ Spans(<<>>) = {} /\ ListOK(<<>>)
  /\ \A base \in ROM : Overlay(base, <<>>) = base
<1>1. Heads(<<>>) = <<>> /\ <<>> \in Seq(Block) /\ Len(<<>>) = 0 /\ DOMAIN <<>> = {}
  <2>1. <<>> \in Seq(Block) /\ Len(<<>>) = 0 /\ DOMAIN <<>> = {}
    BY EmptySeq
  <2> QED BY <2>1 DEF Heads
<1>2. ListOK(<<>>) /\ Sound(<<>>)
  <2>1. 0 <= FLASH_MAX_BLOCKS
    BY FlashAssumption
  <2>2. Distinct(<<>>) /\ Separate(<<>>)
    BY <1>1, Zenon DEF Distinct, Separate
  <2>3. ImageOK(<<>>)
    BY <1>1, Zenon DEF ImageOK
  <2>4. ListOK(<<>>)
    BY <1>1, <2>1, <2>2 DEF ListOK
  <2> QED BY <1>1, <2>2, <2>3, <2>4 DEF Sound
<1>3. Gaps(<<>>)
  <2> SUFFICES ASSUME NEW x \in Addr PROVE \E y \in x..(x + LenMod - 1) : TRUE
    BY <1>1 DEF Gaps
  <2>1. x \in x..(x + LenMod - 1)
    BY FlashAssumption DEF Addr
  <2> QED BY <2>1
<1>4. Spans(<<>>) = {}
  BY <1>1 DEF Spans
<1>5. \A base \in ROM : Overlay(base, <<>>) = base
  <2> TAKE base \in ROM
  <2>1. \A a \in Addr : Overlay(base, <<>>)[a] = base[a]
    BY <1>2, <1>4, OverlayParts
  <2> QED BY <1>2, <2>1, OverlayParts DEF ROM
<1> QED BY <1>1, <1>2, <1>3, <1>4, <1>5

LEMMA ShapeInit == Init => Shape
<1> SUFFICES ASSUME Init PROVE Shape
  OBVIOUS
<1>1. Orig \in ROM
  BY FlashAssumption DEF Orig, ROM
<1>2. slot.image = <<>> /\ slot.rom = Orig /\ slot.status = FALSE /\ slot.clean = FALSE
  BY DEF Init, Slot
<1>3. blocks \in Seq(Block) /\ Len(blocks) <= FLASH_MAX_BLOCKS
  BY EmptySound DEF Init, ListOK
<1>4. ImageOK(<<>>)
  BY EmptySound DEF Sound
<1>5. TypeOK
  BY <1>1, <1>2, <1>3, <1>4 DEF Init, TypeOK
<1> QED BY <1>2, <1>5, EmptySound DEF Init, Shape

\* What Shape asks of a step that leaves no image being written.
LEMMA ShapeParts ==
  ASSUME {running', cmd', status', closing', intact', forgot', slot.status', slot.clean'} \subseteq BOOLEAN,
         rom' \in ROM, saved' \in ROM, slot.rom' \in ROM,
         ListOK(blocks'), Sound(file'), Sound(slot.image'), out' = <<>>
  PROVE  Shape'
<1>1. Sound(out')
  BY EmptySound
<1>2. /\ ImageOK(file') /\ ImageOK(out') /\ ImageOK(slot.image')
      /\ blocks' \in Seq(Block) /\ Len(blocks') <= FLASH_MAX_BLOCKS
  BY <1>1 DEF Sound, ListOK
<1>3. TypeOK'
  BY <1>2 DEF TypeOK
<1> QED BY <1>1, <1>3 DEF Shape

\* The page of an address.
LEMMA PageOf ==
  ASSUME NEW a \in Addr
  PROVE  /\ (a \div PageSize) * PageSize \in Addr
         /\ (a \div PageSize) * PageSize <= a /\ a < (a \div PageSize) * PageSize + PageSize
<1>1. a \in Nat /\ a < N /\ PageSize \in Nat /\ PageSize > 0 /\ N \in Nat
  BY FlashAssumption DEF Addr
<1> DEFINE p == a \div PageSize
<1>2. p \in Nat /\ PageSize * p <= a /\ a < PageSize * p + PageSize
  BY <1>1, Z3
<1> QED BY <1>1, <1>2 DEF Addr

\* Shape is inductive, whatever is written.
LEMMA ShapeStep == Shape /\ [Next]_vars => Shape'
<1> SUFFICES ASSUME Shape, [Next]_vars PROVE Shape'
  OBVIOUS
<1>1. /\ {running, cmd, status, closing, intact, forgot, slot.status, slot.clean} \subseteq BOOLEAN
      /\ rom \in ROM /\ saved \in ROM /\ slot.rom \in ROM
      /\ ListOK(blocks) /\ Sound(file) /\ Sound(out) /\ Sound(slot.image)
      /\ out # <<>> => running /\ Separate(blocks) /\ out = Image(blocks)
  BY DEF Shape, TypeOK
<1>2. /\ Orig \in ROM /\ Written \subseteq Values /\ Erased \in Values
      /\ SectorStart \in Addr /\ SectorLen % LenMod \in 0..(LenMod - 1)
  <2>1. Orig \in ROM
    BY FlashAssumption DEF Orig, ROM
  <2>2. SectorLen % LenMod \in 0..(LenMod - 1)
    BY FlashAssumption
  <2> QED BY <2>1, <2>2, FlashAssumption DEF Addr
<1>3. ListOK(<<>>) /\ Sound(<<>>)
  BY EmptySound
<1>4. ListOK(Optimise(blocks)) /\ Separate(Optimise(blocks))
  BY <1>1, OptimiseKeeps
<1>5. /\ Overlay(Orig, file) \in ROM /\ Overlay(rom, file) \in ROM /\ ListOK(BlocksOf(file))
      /\ Overlay(Orig, slot.image) \in ROM /\ ListOK(BlocksOf(slot.image))
  BY <1>1, <1>2, OverlayParts, LoadedParts
<1>6. CASE LoadGame
  <2>1. out' = <<>> /\ file' = file /\ slot' = slot /\ saved' = saved /\ intact' = intact
    BY <1>1, <1>6 DEF LoadGame, Host
  <2>2. rom' \in ROM /\ ListOK(blocks')
    BY <1>5, <1>6 DEF LoadGame
  <2>3. {running', cmd', status', closing', intact', forgot', slot.status', slot.clean'} \subseteq BOOLEAN
    BY <1>1, <1>6 DEF LoadGame, Host
  <2> QED BY <1>1, <2>1, <2>2, <2>3, ShapeParts
<1>7. ASSUME NEW a \in Addr, NEW v \in Written, FlashByte(a, v) PROVE Shape'
  <2>1. out' = <<>> /\ file' = file /\ slot' = slot /\ saved' = saved /\ intact' = intact
    BY <1>7 DEF FlashByte, Playing, Host
  <2>2. rom' \in ROM
    BY <1>1, <1>2, <1>7 DEF FlashByte, ROM
  <2>3. ListOK(blocks')
    <3>1. (a \div PageSize) * PageSize \in Addr /\ PageSize \in 0..(LenMod - 1)
      BY PageOf, FlashAssumption
    <3> QED BY <1>1, <1>7, <3>1, RegisterKeeps DEF FlashByte
  <2>4. {running', cmd', status', closing', intact', forgot', slot.status', slot.clean'} \subseteq BOOLEAN
    BY <1>1, <1>7 DEF FlashByte, Host
  <2> QED BY <1>1, <2>1, <2>2, <2>3, <2>4, ShapeParts
<1>8. ASSUME NEW start \in Addr, NEW pages \in 1..MaxPages, NEW v \in Written,
             BiosWrite(start, pages, v)
      PROVE  Shape'
  <2>1. out' = <<>> /\ file' = file /\ slot' = slot /\ saved' = saved /\ intact' = intact
    BY <1>8 DEF BiosWrite, Playing, Host
  <2>2. rom' \in ROM
    <3>1. \A a \in Addr : (IF a \in start..(start + pages * PageSize - 1) THEN v ELSE rom[a]) \in Values
      BY <1>1, <1>2 DEF ROM
    <3> QED BY <1>8, <3>1 DEF BiosWrite, ROM
  <2>3. ListOK(blocks')
    <3>1. (pages * PageSize) % LenMod \in 0..(LenMod - 1)
      <4>1. pages * PageSize \in Int /\ LenMod \in Nat \ {0}
        BY FlashAssumption
      <4> QED BY <4>1
    <3> QED BY <1>1, <1>8, <3>1, RegisterKeeps DEF BiosWrite
  <2>4. {running', cmd', status', closing', intact', forgot', slot.status', slot.clean'} \subseteq BOOLEAN
    BY <1>1, <1>8 DEF BiosWrite, Host
  <2> QED BY <1>1, <2>1, <2>2, <2>3, <2>4, ShapeParts
<1>9. CASE BiosErase
  <2>1. out' = <<>> /\ file' = file /\ slot' = slot /\ saved' = saved /\ intact' = intact
    BY <1>9 DEF BiosErase, Playing, Host
  <2>2. rom' \in ROM
    <3>1. \A a \in Addr : (IF a \in SectorStart..(SectorStart + SectorLen - 1)
                           THEN Erased ELSE rom[a]) \in Values
      BY <1>1, <1>2 DEF ROM
    <3> QED BY <1>9, <3>1 DEF BiosErase, ROM
  <2>3. ListOK(blocks')
    <3>1. ListOK(Register(Optimise(blocks), SectorStart, SectorLen % LenMod))
      BY <1>2, <1>4, RegisterKeeps
    <3> QED BY <1>9, <3>1, OptimiseKeeps DEF BiosErase
  <2>4. {running', cmd', status', closing', intact', forgot', slot.status', slot.clean'} \subseteq BOOLEAN
    BY <1>1, <1>9 DEF BiosErase, Host
  <2> QED BY <1>1, <2>1, <2>2, <2>3, <2>4, ShapeParts
<1>10. ASSUME NEW closes \in BOOLEAN, CommitOpen(closes) PROVE Shape'
  <2>1. /\ running' = running /\ running = TRUE /\ rom' = rom /\ status' = status /\ slot' = slot
        /\ file' = <<>> /\ saved' = Orig
        /\ blocks' = Optimise(blocks) /\ out' = Image(Optimise(blocks))
    BY <1>1, <1>10 DEF CommitOpen, Playing
  <2>2. Sound(out')
    BY <1>1, <1>4, <2>1, ImageParts
  <2>3. Image(blocks)' = Image(Optimise(blocks))
    BY <2>1 DEF Image, Disturbed
  <2>4. {running', cmd', status', closing', intact', forgot', slot.status', slot.clean'} \subseteq BOOLEAN
    BY <1>1, <1>10 DEF CommitOpen
  <2>5. TypeOK'
    <3>1. /\ ImageOK(file') /\ ImageOK(out') /\ ImageOK(slot.image')
          /\ blocks' \in Seq(Block) /\ Len(blocks') <= FLASH_MAX_BLOCKS
      BY <1>1, <1>3, <1>4, <2>1, <2>2 DEF Sound, ListOK
    <3>2. rom' \in ROM /\ saved' \in ROM /\ slot.rom' \in ROM
      BY <1>1, <1>2, <2>1
    <3> QED BY <2>4, <3>1, <3>2 DEF TypeOK
  <2> QED BY <1>1, <1>3, <1>4, <2>1, <2>2, <2>3, <2>5 DEF Shape
<1>11. CASE CommitWrite
  <2>1. out' = <<>> /\ file' = out /\ slot' = slot
    BY <1>11 DEF CommitWrite
  <2>2. rom' \in ROM /\ ListOK(blocks')
    BY <1>1, <1>2, <1>3, <1>11 DEF CommitWrite, EndSession, ContinueSession
  <2>3. saved' \in ROM
    BY <1>1, <1>2, <1>11 DEF CommitWrite
  <2>4. intact' \in BOOLEAN
    BY <1>11 DEF CommitWrite
  <2>5. {running', cmd', status', closing', forgot'} \subseteq BOOLEAN
    BY <1>1, <1>11 DEF CommitWrite, EndSession, ContinueSession, StatusAfterReading
  <2> QED BY <1>1, <2>1, <2>2, <2>3, <2>4, <2>5, ShapeParts
<1>12. CASE UnloadUnsaved \/ PowerOff
  <2>1. out' = <<>> /\ file' = file /\ slot' = slot /\ saved' = saved /\ intact' = intact
    BY <1>12 DEF UnloadUnsaved, PowerOff, Playing
  <2>2. rom' \in ROM /\ ListOK(blocks')
    BY <1>2, <1>3, <1>12 DEF UnloadUnsaved, PowerOff, EndSession
  <2>3. {running', cmd', status', closing', forgot'} \subseteq BOOLEAN
    BY <1>12 DEF UnloadUnsaved, PowerOff, EndSession
  <2> QED BY <1>1, <2>1, <2>2, <2>3, ShapeParts
<1>13. CASE FlashCommand \/ EnableStatus \/ ReadROM \/ Reset
  <2>1. /\ out' = <<>> /\ file' = file /\ slot' = slot /\ saved' = saved /\ intact' = intact
        /\ rom' = rom /\ blocks' = blocks /\ running' = running /\ closing' = closing
        /\ forgot' = forgot
    BY <1>13 DEF FlashCommand, EnableStatus, ReadROM, Reset, Playing, Host
  <2>2. {cmd', status'} \subseteq BOOLEAN
    BY <1>1, <1>13 DEF FlashCommand, EnableStatus, ReadROM, Reset
  <2> QED BY <1>1, <2>1, <2>2, ShapeParts
<1>14. CASE Reload
  <2>1. out' = <<>> /\ file' = file /\ slot' = slot /\ saved' = saved /\ intact' = intact
    BY <1>14 DEF Reload, Playing, Host
  <2>2. rom' \in ROM /\ ListOK(blocks')
    BY <1>5, <1>14 DEF Reload
  <2>3. {running', cmd', status', closing', forgot'} \subseteq BOOLEAN
    BY <1>1, <1>14 DEF Reload, Host
  <2> QED BY <1>1, <2>1, <2>2, <2>3, ShapeParts
<1>15. CASE SaveState
  <2>1. /\ out' = <<>> /\ file' = file /\ saved' = saved /\ intact' = intact /\ rom' = rom
        /\ running' = running /\ cmd' = cmd /\ closing' = closing /\ forgot' = forgot
        /\ blocks' = Optimise(blocks)
    BY <1>15 DEF SaveState, Playing
  <2>2. /\ slot.image' = Image(Optimise(blocks)) /\ slot.rom' \in ROM
        /\ slot.status' = status /\ slot.clean' \in BOOLEAN
    BY <1>1, <1>2, <1>15 DEF SaveState, Slot
  <2>3. Sound(slot.image')
    BY <1>1, <1>4, <2>2, ImageParts
  <2>4. status' \in BOOLEAN
    BY <1>1, <1>15 DEF SaveState, StatusAfterReading
  <2> QED BY <1>1, <1>4, <2>1, <2>2, <2>3, <2>4, ShapeParts
<1>16. CASE LoadState
  <2>1. /\ out' = <<>> /\ file' = file /\ slot' = slot /\ saved' = saved /\ intact' = intact
        /\ running' = running /\ cmd' = cmd /\ closing' = closing /\ status' = slot.status
    BY <1>16 DEF LoadState, Playing, Host
  <2>2. rom' \in ROM /\ ListOK(blocks') /\ forgot' \in BOOLEAN
    BY <1>1, <1>5, <1>16 DEF LoadState
  <2> QED BY <1>1, <2>1, <2>2, ShapeParts
<1>17. CASE UNCHANGED vars
  <2>1. /\ running' = running /\ rom' = rom /\ blocks' = blocks /\ cmd' = cmd /\ status' = status
        /\ file' = file /\ out' = out /\ closing' = closing /\ slot' = slot
        /\ intact' = intact /\ saved' = saved /\ forgot' = forgot
    BY <1>17 DEF vars
  <2>2. TypeOK'
    BY <2>1 DEF Shape, TypeOK
  <2>3. Image(blocks)' = Image(blocks)
    BY <2>1 DEF Image, Disturbed
  <2> QED BY <1>1, <2>1, <2>2, <2>3 DEF Shape
<1> QED BY <1>6, <1>7, <1>8, <1>9, <1>10, <1>11, <1>12, <1>13, <1>14, <1>15, <1>16, <1>17 DEF Next

\* The state of the battery saves is well formed at every moment: no list of blocks, in
\* memory, in the file or in a save state, grows past FLASH_MAX_BLOCKS, and every image has
\* the bytes of its blocks, whatever is written, erased, saved and loaded (flash.c:61-282).
THEOREM TypeCorrect == Spec => []TypeOK
<1>1. Init => Shape
  BY ShapeInit
<1>2. Shape /\ [Next]_vars => Shape'
  BY ShapeStep
<1>3. Shape => TypeOK
  BY DEF Shape
<1> QED BY <1>1, <1>2, <1>3, PTL DEF Spec

-----------------------------------------------------------------------------
(* Kept: nothing that was written is lost. *)

\* No BIOS write is longer than a block can be.
ShortWrites == MaxPages * PageSize < LenMod

Changed(r) == {a \in Addr : r[a] # Pristine}

LEMMA EraseGaps ==
  ASSUME NEW bs, ListOK(bs), Gaps(Append(bs, Sector))
  PROVE  /\ ListOK(Register(Optimise(bs), SectorStart, SectorLen))
         /\ Gaps(Register(Optimise(bs), SectorStart, SectorLen))
<1> DEFINE o == Optimise(bs)
           new == Register(o, SectorStart, SectorLen)
           full == Append(bs, Sector)
           n == Len(bs)
<1>1. SectorStart \in Addr /\ SectorLen \in 0..(LenMod - 1) /\ Sector \in Block
  BY FlashAssumption DEF Addr, Sector, Block
<1>2. /\ ListOK(o) /\ o \in Seq(Block)
      /\ \A k \in 1..Len(o), x \in Nat : Reaches(o[k], x) => \E i \in 1..n : Reaches(bs[i], x)
  BY OptimiseKeeps DEF ListOK
<1>3. /\ full \in Seq(Block) /\ n \in Nat /\ Len(full) = n + 1 /\ full[n + 1] = Sector
      /\ \A i \in 1..n : full[i] = bs[i]
  BY <1>1, AppendProperties DEF ListOK
<1> HIDE DEF o
<1>4. /\ ListOK(new) /\ new \in Seq(Block)
      /\ \A i \in 1..Len(new) : (i \in 1..Len(o) /\ new[i] = o[i]) \/ new[i] = Sector
  BY <1>1, <1>2, RegisterKeeps DEF Sector, ListOK
<1> HIDE DEF new, full, n
<1>5. ASSUME NEW k \in 1..Len(new), NEW x \in Nat, Reaches(new[k], x)
      PROVE  \E i \in 1..Len(full) : Reaches(full[i], x)
  <2>1. CASE k \in 1..Len(o) /\ new[k] = o[k]
    <3>1. PICK i \in 1..n : Reaches(bs[i], x)
      BY <1>2, <1>5, <2>1
    <3>2. i \in 1..Len(full)
      BY <1>3
    <3> QED BY <1>3, <3>1, <3>2
  <2>2. CASE new[k] = Sector
    <3>1. n + 1 \in 1..Len(full)
      BY <1>3
    <3> QED BY <1>3, <1>5, <2>2, <3>1
  <2> QED BY <1>4, <2>1, <2>2
<1>6. Gaps(full)
  BY DEF full
<1>7. Gaps(new)
  BY <1>3, <1>4, <1>5, <1>6, GapsStay
<1> QED BY <1>4, <1>7 DEF new, o

\* What Kept asks of a step that leaves the file and the save state alone.
LEMMA KeptParts ==
  ASSUME Kept, file' = file, slot' = slot, saved' = saved, intact' = intact, Covered'
  PROVE  Kept'
BY DEF Kept

\* A byte that the step did not change, or that is in the block it registers.
LEMMA RegisteredCovers ==
  ASSUME NEW bs, ListOK(bs), Len(bs) < FLASH_MAX_BLOCKS,
         NEW start \in Addr, NEW len \in 0..(LenMod - 1), NEW old, NEW new,
         Changed(old) \subseteq Spans(bs),
         \A a \in Addr : new[a] = old[a] \/ (start <= a /\ a < start + len)
  PROVE  Changed(new) \subseteq Spans(Register(bs, start, len))
<1> SUFFICES ASSUME NEW a \in Addr, new[a] # Pristine PROVE a \in Spans(Register(bs, start, len))
  BY DEF Changed
<1>1. CASE new[a] = old[a]
  <2>1. a \in Spans(bs)
    BY <1>1 DEF Changed
  <2> QED BY <2>1, RegisterCovers
<1>2. CASE start <= a /\ a < start + len
  BY <1>2, RegisterCovers
<1> QED BY <1>1, <1>2

LEMMA KeptInit == Init => Kept
<1> SUFFICES ASSUME Init PROVE Kept
  OBVIOUS
<1>1. Orig \in ROM
  BY FlashAssumption DEF Orig, ROM
<1>2. file = <<>> /\ saved = Orig /\ slot.image = <<>> /\ slot.clean = FALSE /\ running = FALSE
  BY DEF Init, Slot
<1>3. Covered
  BY <1>2 DEF Covered
<1> QED BY <1>1, <1>2, <1>3, EmptySound DEF Kept

\* Kept is inductive as long as the blocks fit.
LEMMA KeptStep ==
  ASSUME ShortWrites, Shape, Kept, RoomLeft, [Next]_vars,
         [BiosErase => Gaps(Append(blocks, Sector))]_vars
  PROVE  Kept'
<1>1. /\ rom \in ROM /\ slot.rom \in ROM /\ saved \in ROM
      /\ ListOK(blocks) /\ Sound(file) /\ Sound(slot.image)
      /\ out # <<>> => running /\ Separate(blocks) /\ out = Image(blocks)
  BY DEF Shape, TypeOK
<1>2. Len(blocks) < FLASH_MAX_BLOCKS /\ Gaps(blocks)
  BY DEF RoomLeft
<1>3. /\ Gaps(Heads(file)) /\ Gaps(Heads(slot.image))
      /\ running /\ ~forgot => Changed(rom) \subseteq Spans(blocks)
  BY DEF Kept, Covered, Changed
<1>4. Orig \in ROM /\ \A a \in Addr : Orig[a] = Pristine
  BY FlashAssumption DEF Orig, ROM
<1>5. /\ ListOK(Optimise(blocks)) /\ Separate(Optimise(blocks)) /\ Gaps(Optimise(blocks))
      /\ Spans(blocks) \subseteq Spans(Optimise(blocks))
      /\ Len(Optimise(blocks)) < FLASH_MAX_BLOCKS
  <2>1. /\ ListOK(Optimise(blocks)) /\ Separate(Optimise(blocks))
        /\ Len(Optimise(blocks)) <= Len(blocks)
    BY <1>1, OptimiseKeeps
  <2>2. Len(blocks) \in Nat /\ Len(Optimise(blocks)) \in Nat
    BY <1>1, <2>1, LenProperties DEF ListOK
  <2>3. Len(Optimise(blocks)) < FLASH_MAX_BLOCKS
    BY <1>2, <2>1, <2>2, FlashAssumption
  <2> QED BY <1>1, <1>2, <2>1, <2>3, OptimiseGaps, OptimiseCovers
<1>6. Spans(file) \subseteq Spans(BlocksOf(file)) /\ Spans(slot.image) \subseteq Spans(BlocksOf(slot.image))
  BY <1>1, <1>3, LoadedParts
<1>7. /\ \A a \in Addr : a \notin Spans(file) => Overlay(Orig, file)[a] = Pristine
      /\ \A a \in Addr : a \notin Spans(file) => Overlay(rom, file)[a] = rom[a]
      /\ \A a \in Addr : a \notin Spans(slot.image) => Overlay(Orig, slot.image)[a] = Pristine
  BY <1>1, <1>4, OverlayParts
<1>8. CASE LoadGame
  <2>1. file' = file /\ slot' = slot /\ saved' = saved /\ intact' = intact
    BY <1>8 DEF LoadGame, Host
  <2>2. Changed(rom') \subseteq Spans(blocks')
    BY <1>6, <1>7, <1>8 DEF LoadGame, Changed
  <2> QED BY <2>1, <2>2, KeptParts DEF Covered, Changed
<1>9. ASSUME NEW a \in Addr, NEW v \in Written, FlashByte(a, v) PROVE Kept'
  <2>1. /\ file' = file /\ slot' = slot /\ saved' = saved /\ intact' = intact
        /\ running' = running /\ forgot' = forgot
    BY <1>9 DEF FlashByte, Host
  <2> DEFINE start == (a \div PageSize) * PageSize
  <2>2. start \in Addr /\ start <= a /\ a < start + PageSize /\ PageSize \in 0..(LenMod - 1)
    BY PageOf, FlashAssumption
  <2>3. \A b \in Addr : rom'[b] = rom[b] \/ (start <= b /\ b < start + PageSize)
    <3> HIDE DEF start
    <3> QED BY <1>1, <1>9, <2>2 DEF FlashByte, ROM
  <2>4. blocks' = Register(blocks, start, PageSize)
    BY <1>9 DEF FlashByte
  <2> HIDE DEF start
  <2>5. running /\ ~forgot => Changed(rom') \subseteq Spans(blocks')
    BY <1>1, <1>2, <1>3, <2>2, <2>3, <2>4, RegisteredCovers
  <2> QED BY <2>1, <2>5, KeptParts DEF Covered, Changed
<1>10. ASSUME NEW start \in Addr, NEW pages \in 1..MaxPages, NEW v \in Written,
              BiosWrite(start, pages, v)
       PROVE  Kept'
  <2>1. /\ file' = file /\ slot' = slot /\ saved' = saved /\ intact' = intact
        /\ running' = running /\ forgot' = forgot
    BY <1>10 DEF BiosWrite, Host
  <2> DEFINE len == pages * PageSize
  <2>2. len \in 0..(LenMod - 1) /\ len % LenMod = len
    <3>1. len \in Nat /\ MaxPages * PageSize \in Nat /\ len <= MaxPages * PageSize
      <4>1. /\ pages \in Nat /\ MaxPages \in Nat /\ pages <= MaxPages
            /\ PageSize \in Nat /\ PageSize > 0
        BY FlashAssumption
      <4> QED BY <4>1
    <3> HIDE DEF len
    <3>2. len < LenMod /\ LenMod \in Nat
      BY <3>1, FlashAssumption DEF ShortWrites
    <3> QED BY <3>1, <3>2
  <2>3. /\ \A b \in Addr : rom'[b] = rom[b] \/ b \in start..(start + len - 1)
        /\ blocks' = Register(blocks, start, len % LenMod)
    BY <1>10 DEF BiosWrite
  <2> HIDE DEF len
  <2>4. \A b \in Addr : rom'[b] = rom[b] \/ (start <= b /\ b < start + len)
    BY <2>2, <2>3, FlashAssumption DEF Addr
  <2>5. running /\ ~forgot => Changed(rom') \subseteq Spans(blocks')
    BY <1>1, <1>2, <1>3, <2>2, <2>3, <2>4, RegisteredCovers
  <2> QED BY <2>1, <2>5, KeptParts DEF Covered, Changed
<1>11. CASE UNCHANGED vars
  <2>1. /\ file' = file /\ slot' = slot /\ saved' = saved /\ intact' = intact
        /\ running' = running /\ forgot' = forgot /\ rom' = rom /\ blocks' = blocks
    BY <1>11 DEF vars
  <2>2. Covered'
    BY <2>1 DEF Kept, Covered
  <2> QED BY <2>1, <2>2, KeptParts
<1>12. CASE BiosErase /\ ~UNCHANGED vars
  <2>1. /\ file' = file /\ slot' = slot /\ saved' = saved /\ intact' = intact
        /\ running' = running /\ forgot' = forgot
    BY <1>12 DEF BiosErase, Host
  <2> DEFINE reg == Register(Optimise(blocks), SectorStart, SectorLen)
  <2>2. SectorStart \in Addr /\ SectorLen \in 0..(LenMod - 1) /\ SectorLen % LenMod = SectorLen
    BY FlashAssumption DEF Addr
  <2>3. ListOK(reg) /\ Gaps(reg)
    BY <1>1, <1>12, EraseGaps
  <2>4. \A b \in Addr : rom'[b] = rom[b] \/ b \in SectorStart..(SectorStart + SectorLen - 1)
    BY <1>12 DEF BiosErase
  <2>5. \A b \in Addr : rom'[b] = rom[b] \/ (SectorStart <= b /\ b < SectorStart + SectorLen)
    BY <2>2, <2>4, FlashAssumption DEF Addr
  <2>6. blocks' = Optimise(reg)
    BY <1>12, <2>2 DEF BiosErase
  <2>7. running /\ ~forgot => Changed(rom') \subseteq Spans(reg)
    <3>1. running /\ ~forgot => Changed(rom) \subseteq Spans(Optimise(blocks))
      BY <1>3, <1>5
    <3> QED BY <1>5, <2>2, <2>5, <3>1, RegisteredCovers
  <2> HIDE DEF reg
  <2>8. running /\ ~forgot => Changed(rom') \subseteq Spans(blocks')
    BY <2>3, <2>6, <2>7, OptimiseCovers
  <2> QED BY <2>1, <2>8, KeptParts DEF Covered, Changed
<1>13. ASSUME NEW closes \in BOOLEAN, CommitOpen(closes) PROVE Kept'
  <2>1. /\ file' = <<>> /\ slot' = slot /\ intact' = FALSE
        /\ running' = running /\ forgot' = forgot /\ rom' = rom /\ blocks' = Optimise(blocks)
    BY <1>13 DEF CommitOpen
  <2>2. Covered'
    BY <1>3, <1>5, <2>1 DEF Covered, Changed
  <2> QED BY <2>1, <2>2, EmptySound DEF Kept
<1>14. CASE CommitWrite
  <2>1. /\ running /\ out = Image(blocks) /\ file' = Image(blocks) /\ slot' = slot
        /\ Separate(blocks)
    BY <1>1, <1>14 DEF CommitWrite
  <2>2. Gaps(Heads(Image(blocks)))
    BY <1>1, <1>2, <2>1, ImageParts
  <2>3. intact' => ~forgot /\ ~Disturbed(blocks) /\ saved' = rom
    BY <1>14 DEF CommitWrite
  <2>4. intact' => Overlay(Orig, Image(blocks)) = saved'
    BY <1>1, <1>3, <2>1, <2>3, ImageIsWhole DEF Changed
  <2>5. Covered'
    <3>1. CASE closing
      <4>1. running' = FALSE
        BY <1>14, <3>1 DEF CommitWrite, EndSession
      <4> QED BY <4>1 DEF Covered
    <3>2. CASE ~closing
      <4>1. running' = running /\ forgot' = forgot /\ rom' = rom /\ blocks' = blocks
        BY <1>14, <3>2 DEF CommitWrite, ContinueSession
      <4> QED BY <4>1 DEF Kept, Covered
    <3> QED BY <3>1, <3>2
  <2> QED BY <2>1, <2>2, <2>4, <2>5 DEF Kept
<1>15. CASE UnloadUnsaved \/ PowerOff
  <2>1. file' = file /\ slot' = slot /\ saved' = saved /\ intact' = intact /\ running' = FALSE
    BY <1>15 DEF UnloadUnsaved, PowerOff, EndSession
  <2>2. Covered'
    BY <2>1 DEF Covered
  <2> QED BY <2>1, <2>2, KeptParts
<1>16. CASE FlashCommand \/ EnableStatus \/ ReadROM \/ Reset
  <2>1. /\ file' = file /\ slot' = slot /\ saved' = saved /\ intact' = intact
        /\ rom' = rom /\ blocks' = blocks /\ running' = running /\ forgot' = forgot
    BY <1>16 DEF FlashCommand, EnableStatus, ReadROM, Reset, Host
  <2>2. Covered'
    BY <2>1 DEF Kept, Covered
  <2> QED BY <2>1, <2>2, KeptParts
<1>17. CASE Reload
  <2>1. /\ file' = file /\ slot' = slot /\ saved' = saved /\ intact' = intact
        /\ running' = running /\ rom' = Overlay(rom, file) /\ blocks' = BlocksOf(file)
        /\ forgot' = (forgot \/ ~(Spans(blocks) \subseteq Spans(blocks')))
    BY <1>17 DEF Reload, Host
  <2>2. ASSUME running', ~forgot' PROVE Changed(rom') \subseteq Spans(blocks')
    <3>1. Spans(blocks) \subseteq Spans(blocks') /\ Changed(rom) \subseteq Spans(blocks)
      BY <1>3, <2>1, <2>2
    <3> QED BY <1>6, <1>7, <2>1, <3>1 DEF Changed
  <2> QED BY <2>1, <2>2, KeptParts DEF Covered, Changed
<1>18. CASE SaveState
  <2>1. /\ running /\ file' = file /\ saved' = saved /\ intact' = intact /\ rom' = rom
        /\ running' = running /\ forgot' = forgot /\ blocks' = Optimise(blocks)
    BY <1>18 DEF SaveState, Playing
  <2>2. /\ slot.image' = Image(Optimise(blocks))
        /\ slot.clean' => ~forgot /\ ~Disturbed(Optimise(blocks)) /\ slot.rom' = rom
    BY <1>18 DEF SaveState, Slot
  <2>3. Gaps(Heads(Image(Optimise(blocks))))
    BY <1>1, <1>5, ImageParts
  <2>4. slot.clean' => Overlay(Orig, slot.image') = slot.rom'
    BY <1>1, <1>3, <1>5, <2>1, <2>2, ImageIsWhole DEF Changed
  <2>5. Covered'
    BY <1>3, <1>5, <2>1 DEF Covered, Changed
  <2> QED BY <2>1, <2>2, <2>3, <2>4, <2>5 DEF Kept
<1>19. CASE LoadState
  <2>1. /\ file' = file /\ slot' = slot /\ saved' = saved /\ intact' = intact /\ running' = running
    BY <1>19 DEF LoadState, Host
  <2>2. Covered'
    <3>1. CASE slot.image = <<>>
      BY <1>19, <2>1, <3>1 DEF LoadState, Kept, Covered
    <3>2. CASE slot.image # <<>>
      <4>1. rom' = Overlay(Orig, slot.image) /\ blocks' = BlocksOf(slot.image)
        BY <1>19, <3>2 DEF LoadState
      <4>2. Changed(rom') \subseteq Spans(blocks')
        BY <1>6, <1>7, <4>1 DEF Changed
      <4> QED BY <4>2 DEF Covered, Changed
    <3> QED BY <3>1, <3>2
  <2> QED BY <2>1, <2>2, KeptParts
<1> QED BY <1>8, <1>9, <1>10, <1>11, <1>12, <1>13, <1>14, <1>15, <1>16, <1>17, <1>18, <1>19 DEF Next

-----------------------------------------------------------------------------
(* The theorems.  Two things the code does not check are their hypotheses:  *)
(* the list of blocks is never full and LenMod consecutive bytes are never  *)
(* all in blocks (RoomLeft, and EraseFits for the list VECT_FLASHERS makes on   *)
(* the way).  ShortWrites bounds a BIOS write; without it the run of        *)
(* FlashStore_length_doc loses one.                                        *)

LEMMA KeptAlways ==
  ShortWrites => (Spec /\ []RoomLeft /\ EraseFits => [](Shape /\ Kept))
<1> SUFFICES ASSUME ShortWrites PROVE Spec /\ []RoomLeft /\ EraseFits => [](Shape /\ Kept)
  OBVIOUS
<1>1. Init => Shape /\ Kept
  BY ShapeInit, KeptInit
<1>2. Shape /\ Kept /\ RoomLeft /\ [Next]_vars /\ [BiosErase => Gaps(Append(blocks, Sector))]_vars
        => (Shape /\ Kept)'
  BY ShapeStep, KeptStep
<1> QED BY <1>1, <1>2, PTL DEF Spec, EraseFits

\* Every byte of the running game that differs from the cartridge as sold is in a block,
\* so the next file will have it, unless a reload dropped the block.  It needs that
\* flash_optimise_blocks() joins blocks without losing a byte (flash.c:61-121) and that
\* flash_write() enlarges a block that is too short (flash.c:188-217).
THEOREM BytesCovered ==
  ShortWrites => (Spec /\ []RoomLeft /\ EraseFits => []Covered)
<1>1. Shape /\ Kept => Covered
  BY DEF Kept
<1> QED BY <1>1, KeptAlways, PTL

\* What was committed is what the next session starts with, after a regular exit or a power
\* cut that did not tear the commit itself (flash_commit() and flash_read() in flash.c).
THEOREM CommitsPersist ==
  ShortWrites => (Spec /\ []RoomLeft /\ EraseFits => FlashPersists)
<1>1. Shape /\ Kept /\ [Next]_vars => [LoadGame /\ intact => rom' = saved]_vars
  BY DEF LoadGame, Kept
<1> QED BY <1>1, KeptAlways, PTL DEF Spec, FlashPersists

\* Loading a save state that has a flash image brings back the ROM it was taken of,
\* whatever was written since (FLASH_StateAction() in system.c and flash.c).
THEOREM StatesRestore ==
  ShortWrites => (Spec /\ []RoomLeft /\ EraseFits => StateRestoresFlash)
<1>1. Shape /\ Kept /\ [Next]_vars
        => [LoadState /\ slot.image # <<>> /\ slot.clean => rom' = slot.rom]_vars
  BY DEF LoadState, Kept
<1> QED BY <1>1, KeptAlways, PTL DEF Spec, StateRestoresFlash

\* A reload puts every byte of the file into the ROM and leaves it in a block, so it is in
\* the next file too (dc_saves_reload_battery() and do_flash_read()).
THEOREM ReloadsRestore ==
  ShortWrites => (Spec /\ []RoomLeft /\ EraseFits => ReloadRestoresFile)
<1>1. ASSUME Shape, Kept, Reload
      PROVE  /\ \A i \in DOMAIN file, a \in Addr : a \in Span(file[i]) => rom'[a] = file[i].data[a]
             /\ Spans(file) \subseteq Spans(blocks')
  <2>1. rom \in ROM /\ Sound(file) /\ Gaps(Heads(file))
    BY <1>1 DEF Shape, TypeOK, Kept
  <2>2. rom' = Overlay(rom, file) /\ blocks' = BlocksOf(file)
    BY <1>1 DEF Reload
  <2> QED BY <2>1, <2>2, OverlayParts, LoadedParts
<1>2. Shape /\ Kept /\ [Next]_vars
        => [Reload => /\ \A i \in DOMAIN file, a \in Addr :
                           a \in Span(file[i]) => rom'[a] = file[i].data[a]
                      /\ Spans(file) \subseteq Spans(blocks')]_vars
  BY <1>1
<1> QED BY <1>2, KeptAlways, PTL DEF Spec, ReloadRestoresFile

-----------------------------------------------------------------------------
(***************************************************************************)
(* The format of a save state.  h[j] is where section j of a recorded      *)
(* state ends and the next begins, e[j][v] where its variable v begins.    *)
(* Recorded says that `written' is what build b saves with m in memory,    *)
(* byte by byte; Loads says where in it a load stands; Mixed what the      *)
(* variables then are if the state was cut off, and Exact if it was not.   *)
(***************************************************************************)
\* x is a sequence of something.
Sequence(x) == \E S : x \in Seq(S)

LEMMA SequenceParts ==
  ASSUME NEW x, Sequence(x)
  PROVE  Len(x) \in Nat /\ DOMAIN x = 1..Len(x) /\ x = [i \in 1..Len(x) |-> x[i]] /\ (Len(x) = 0 => x = <<>>)
BY EmptySeq DEF Sequence

LEMMA SequencesAgree ==
  ASSUME NEW x, NEW y, Sequence(x), Sequence(y), Len(x) = Len(y), \A i \in 1..Len(x) : x[i] = y[i]
  PROVE  x = y
BY SequenceParts

LEMMA Concatenated ==
  ASSUME NEW x, NEW y, Sequence(x), Sequence(y)
  PROVE  /\ Sequence(x \o y) /\ Len(x \o y) = Len(x) + Len(y)
         /\ \A i \in 1..Len(x) : (x \o y)[i] = x[i]
         /\ \A i \in 1..Len(y) : (x \o y)[Len(x) + i] = y[i]
<1>1. PICK S, T : x \in Seq(S) /\ y \in Seq(T)
  BY DEF Sequence
<1> DEFINE U == S \cup T
<1>2. x \in Seq(U) /\ y \in Seq(U)
  BY <1>1, SeqMonotonic
<1> HIDE DEF U
<1>3. /\ x \o y \in Seq(U) /\ Len(x \o y) = Len(x) + Len(y)
      /\ \A i \in 1..Len(x) + Len(y) : (x \o y)[i] = IF i <= Len(x) THEN x[i] ELSE y[i - Len(x)]
  BY <1>2, ConcatProperties
<1>4. Len(x) \in Nat /\ Len(y) \in Nat
  BY SequenceParts
<1>5. \A i \in 1..Len(x) : (x \o y)[i] = x[i]
  BY <1>3, <1>4
<1>6. ASSUME NEW i \in 1..Len(y) PROVE (x \o y)[Len(x) + i] = y[i]
  <2>1. Len(x) + i \in 1..Len(x) + Len(y) /\ ~(Len(x) + i <= Len(x)) /\ (Len(x) + i) - Len(x) = i
    BY <1>4
  <2> QED BY <1>3, <2>1
<1> QED BY <1>3, <1>5, <1>6 DEF Sequence

LEMMA Listed ==
  ASSUME NEW n \in Nat, NEW x, x = [i \in 1..n |-> x[i]]
  PROVE  Sequence(x) /\ Len(x) = n
<1> DEFINE S == {x[i] : i \in 1..n}
<1>1. \A i \in 1..n : x[i] \in S
  OBVIOUS
<1>2. x \in [1..n -> S]
  BY <1>1
<1> HIDE DEF S
<1> QED BY <1>2 DEF Sequence

-----------------------------------------------------------------------------
(* What the lists of a build are. *)
KeyAt(b, j, v) == <<Layouts[b][j].name, Layouts[b][j].vars[v].name>>
LEMMA LayoutParts ==
  ASSUME NEW b \in DOMAIN Layouts
  PROVE  /\ Sequence(Layouts[b]) /\ Len(Layouts[b]) \in Nat \ {0}
         /\ \A i, j \in 1..Len(Layouts[b]) : Layouts[b][i].name = Layouts[b][j].name => i = j
<1>1. /\ Layouts[b] \in Seq(Range(Layouts[b])) /\ Len(Layouts[b]) > 0
      /\ \A i, j \in DOMAIN Layouts[b] : Layouts[b][i].name = Layouts[b][j].name => i = j
  BY LayoutsAssumption DEF LayoutsAssumption
<1>2. Sequence(Layouts[b])
  BY <1>1 DEF Sequence
<1> QED BY <1>1, <1>2, SequenceParts
LEMMA SectionParts ==
  ASSUME NEW b \in DOMAIN Layouts, NEW j \in 1..Len(Layouts[b])
  PROVE  LET s == Layouts[b][j]
         IN  /\ s \in Range(Layouts[b]) /\ Sequence(s.vars) /\ Len(s.vars) \in Nat
             /\ \A v \in 1..Len(s.vars) : s.vars[v].size \in Nat
             /\ \A v, w \in 1..Len(s.vars) : s.vars[v].name = s.vars[w].name => v = w
<1> DEFINE s == Layouts[b][j]
<1>1. s \in Range(Layouts[b])
  BY LayoutParts, SequenceParts DEF Range
<1>2. /\ s.vars \in Seq([name : {v.name : v \in Range(s.vars)}, size : Nat])
      /\ \A i, k \in DOMAIN s.vars : s.vars[i].name = s.vars[k].name => i = k
  BY <1>1, LayoutsAssumption DEF LayoutsAssumption
<1>3. Sequence(s.vars) /\ Len(s.vars) \in Nat /\ DOMAIN s.vars = 1..Len(s.vars)
  BY <1>2, SequenceParts DEF Sequence
<1>4. ASSUME NEW v \in 1..Len(s.vars) PROVE s.vars[v].size \in Nat
  <2> DEFINE Names == {w.name : w \in Range(s.vars)}
  <2>1. s.vars[v] \in [name : Names, size : Nat]
    BY <1>2, ElementOfSeq
  <2> QED BY <2>1
<1> QED BY <1>1, <1>2, <1>3, <1>4
LEMMA SizeOfVariable ==
  ASSUME NEW b \in DOMAIN Layouts, NEW j \in 1..Len(Layouts[b]), NEW v \in 1..Len(Layouts[b][j].vars)
  PROVE  SizeOf(b, KeyAt(b, j, v)) = Layouts[b][j].vars[v].size /\ SizeOf(b, KeyAt(b, j, v)) \in Nat
<1> DEFINE s == Layouts[b][j]
           k == KeyAt(b, j, v)
<1>1. k[1] = s.name /\ k[2] = s.vars[v].name
  BY DEF KeyAt
<1>2. \A t \in Range(Layouts[b]) : t.name = s.name => t = s
  BY LayoutParts, SequenceParts DEF Range
<1>3. s \in Range(Layouts[b]) /\ s.vars[v] \in Range(s.vars)
  BY SectionParts, SequenceParts DEF Range
<1>4. \A w \in Range(s.vars) : w.name = s.vars[v].name => w = s.vars[v]
  <2>1. DOMAIN s.vars = 1..Len(s.vars) /\ \A i, x \in 1..Len(s.vars) : s.vars[i].name = s.vars[x].name => i = x
    BY SectionParts, SequenceParts
  <2>2. v \in 1..Len(s.vars)
    OBVIOUS
  <2> HIDE DEF s
  <2> QED BY <2>1, <2>2 DEF Range
<1> HIDE DEF k, s
<1>5. (CHOOSE t \in Range(Layouts[b]) : t.name = k[1]) = s
  BY <1>1, <1>2, <1>3
<1>6. (CHOOSE w \in Range(s.vars) : w.name = k[2]) = s.vars[v]
  BY <1>1, <1>3, <1>4
<1>7. SizeOf(b, k) = s.vars[v].size
  BY <1>5, <1>6 DEF SizeOf
<1>8. s.vars[v].size \in Nat
  BY SectionParts DEF s
<1> QED BY <1>7, <1>8 DEF k, s

LEMMA KeysAre ==
  ASSUME NEW b \in DOMAIN Layouts, NEW k
  PROVE  k \in Keys(b) <=> k # Length /\ \E j \in 1..Len(Layouts[b]) : \E v \in 1..Len(Layouts[b][j].vars) : k = KeyAt(b, j, v)
<1>1. DOMAIN Layouts[b] = 1..Len(Layouts[b]) /\ \A j \in 1..Len(Layouts[b]) : DOMAIN Layouts[b][j].vars = 1..Len(Layouts[b][j].vars)
  BY LayoutParts, SectionParts, SequenceParts
<1>2. k \in Keys(b) <=> k # Length /\ \E s \in Range(Layouts[b]) : \E v \in DOMAIN s.vars : k = <<s.name, s.vars[v].name>>
  BY DEF Keys
<1>3. (\E s \in Range(Layouts[b]) : \E v \in DOMAIN s.vars : k = <<s.name, s.vars[v].name>>)
        <=> \E j \in 1..Len(Layouts[b]) : \E v \in DOMAIN Layouts[b][j].vars : k = <<Layouts[b][j].name, Layouts[b][j].vars[v].name>>
  BY <1>1 DEF Range
<1> QED BY <1>1, <1>2, <1>3 DEF KeyAt

(* A key tells its section and its variable. *)
LEMMA KeysDiffer ==
  ASSUME NEW b \in DOMAIN Layouts, NEW i \in 1..Len(Layouts[b]), NEW j \in 1..Len(Layouts[b]),
         NEW v \in 1..Len(Layouts[b][i].vars), NEW w \in 1..Len(Layouts[b][j].vars)
  PROVE  KeyAt(b, i, v) = KeyAt(b, j, w) => i = j /\ v = w
<1> SUFFICES ASSUME KeyAt(b, i, v) = KeyAt(b, j, w) PROVE i = j /\ v = w
  OBVIOUS
<1>1. Layouts[b][i].name = Layouts[b][j].name /\ Layouts[b][i].vars[v].name = Layouts[b][j].vars[w].name
  BY DEF KeyAt
<1>2. i = j
  BY <1>1, LayoutParts
<1> QED BY <1>1, <1>2, SectionParts

(* Where the image and its length are in the list. *)
LEMMA FlashSections ==
  ASSUME NEW b \in DOMAIN Layouts
  PROVE  LET last == Len(Layouts[b])
         IN  /\ last \in 1..Len(Layouts[b]) /\ Len(Layouts[b][last].vars) = 1 /\ KeyAt(b, last, 1) = Flash
             /\ \A j \in 1..last : Layouts[b][j].name = Flash[1] => j = last
             /\ \E j \in 1..(last - 1) : \E v \in 1..Len(Layouts[b][j].vars) :
                  KeyAt(b, j, v) = Length /\ Layouts[b][j].vars[v].size = 1
<1> DEFINE last == Len(Layouts[b])
<1>1. /\ last \in 1..last /\ Layouts[b][last].name = Flash[1] /\ Len(Layouts[b][last].vars) = 1
      /\ Layouts[b][last].vars[1].name = Flash[2]
  BY LayoutParts, LayoutsAssumption DEF LayoutsAssumption
<1>2. KeyAt(b, last, 1) = Flash
  BY <1>1 DEF KeyAt, Flash
<1>3. \A j \in 1..last : Layouts[b][j].name = Flash[1] => j = last
  BY <1>1, LayoutParts
<1>4. PICK s \in Range(Layouts[b]) : s.name = Length[1] /\ [name |-> Length[2], size |-> 1] \in Range(s.vars)
  BY LayoutsAssumption DEF LayoutsAssumption
<1>5. PICK j \in 1..last : s = Layouts[b][j]
  BY <1>4, LayoutParts, SequenceParts DEF Range
<1>6. PICK v \in 1..Len(s.vars) : s.vars[v] = [name |-> Length[2], size |-> 1]
  BY <1>4, <1>5, SectionParts, SequenceParts DEF Range
<1>7. KeyAt(b, j, v) = Length /\ Layouts[b][j].vars[v].size = 1
  BY <1>4, <1>5, <1>6 DEF KeyAt, Length
<1>8. j # last
  BY <1>1, <1>4, <1>5 DEF Flash, Length
<1>9. j \in 1..(last - 1)
  BY <1>5, <1>8, LayoutParts
<1> QED BY <1>1, <1>2, <1>3, <1>5, <1>7, <1>9

LEMMA SpecialKeys ==
  ASSUME NEW b \in DOMAIN Layouts
  PROVE  Flash # Length /\ Flash \in Keys(b)
<1>1. Flash # Length
  BY DEF Flash, Length
<1>2. Len(Layouts[b]) \in 1..Len(Layouts[b]) /\ 1 \in 1..Len(Layouts[b][Len(Layouts[b])].vars)
      /\ KeyAt(b, Len(Layouts[b]), 1) = Flash
  <2>1. /\ Len(Layouts[b]) \in 1..Len(Layouts[b]) /\ Len(Layouts[b][Len(Layouts[b])].vars) = 1
        /\ KeyAt(b, Len(Layouts[b]), 1) = Flash
    BY FlashSections
  <2> QED BY <2>1
<1> QED BY <1>1, <1>2, KeysAre

-----------------------------------------------------------------------------
(* What the memory holds for a variable, and the length of the image. *)
Held(m, k) == IF k = Length THEN << <<k, Len(m[Flash]), 1>> >> ELSE m[k]

LEMMA MemoryParts ==
  ASSUME NEW b \in DOMAIN Layouts, NEW m \in Memories(b)
  PROVE  /\ m = [k \in Keys(b) |-> m[k]]
         /\ \A k \in Keys(b) : /\ Sequence(m[k]) /\ Len(m[k]) \in Nat /\ \A i \in 1..Len(m[k]) : m[k][i][1] = k
                               /\ k # Flash => Len(m[k]) = SizeOf(b, k)
<1>1. PICK p \in Patterns, n \in 0..MaxFlash : m = [k \in Keys(b) |-> Bytes(k, p, IF k = Flash THEN n ELSE SizeOf(b, k))]
  BY DEF Memories
<1>2. n \in Nat
  BY LayoutsAssumption DEF LayoutsAssumption
<1>3. ASSUME NEW k \in Keys(b)
      PROVE  /\ Sequence(m[k]) /\ Len(m[k]) \in Nat /\ \A i \in 1..Len(m[k]) : m[k][i][1] = k
             /\ k # Flash => Len(m[k]) = SizeOf(b, k)
  <2> DEFINE size == IF k = Flash THEN n ELSE SizeOf(b, k)
  <2>1. SizeOf(b, k) \in Nat
    <3>1. PICK j \in 1..Len(Layouts[b]) : \E v \in 1..Len(Layouts[b][j].vars) : k = KeyAt(b, j, v)
      BY KeysAre
    <3> QED BY <3>1, SizeOfVariable
  <2>2. size \in Nat
    BY <1>2, <2>1
  <2>3. m[k] = [i \in 1..size |-> <<k, p, i>>]
    BY <1>1 DEF Bytes
  <2>4. k # Flash => size = SizeOf(b, k)
    OBVIOUS
  <2> HIDE DEF size
  <2>5. Sequence(m[k]) /\ Len(m[k]) = size
    BY <2>2, <2>3, Listed
  <2>6. \A i \in 1..size : m[k][i] = <<k, p, i>>
    BY <2>3
  <2>7. \A i \in 1..size : m[k][i][1] = k
    BY <2>6
  <2> QED BY <2>2, <2>4, <2>5, <2>7
<1> QED BY <1>1, <1>3

LEMMA HeldParts ==
  ASSUME NEW b \in DOMAIN Layouts, NEW m \in Memories(b), NEW k \in Keys(b) \cup {Length}
  PROVE  /\ Sequence(Held(m, k)) /\ Len(Held(m, k)) \in Nat
         /\ \A i \in 1..Len(Held(m, k)) : Held(m, k)[i][1] = k
         /\ k = Length => Len(Held(m, k)) = 1 /\ Held(m, k)[1][2] = Len(m[Flash])
         /\ k # Length => Held(m, k) = m[k]
<1>1. CASE k = Length
  <2> DEFINE x == <<k, Len(m[Flash]), 1>>
             c == <<x>>
  <2>1. Held(m, k) = c
    BY <1>1 DEF Held
  <2>2. x[1] = k /\ x[2] = Len(m[Flash])
    OBVIOUS
  <2> HIDE DEF x
  <2>3. Len(c) = 1 /\ c[1] = x /\ c \in Seq({x})
    OBVIOUS
  <2>4. \A i \in 1..Len(c) : c[i] = x
    BY <2>3
  <2> QED BY <1>1, <2>1, <2>2, <2>3, <2>4 DEF Sequence
<1>2. CASE k # Length
  BY <1>2, MemoryParts DEF Held
<1> QED BY <1>1, <1>2

-----------------------------------------------------------------------------
LEMMA Upwards ==
  ASSUME NEW n \in Nat, NEW T, n > 0 => 1 \in T, \A k \in 1..(n - 1) : k \in T => k + 1 \in T
  PROVE  \A k \in 1..n : k \in T
<1> SUFFICES ASSUME NEW c \in 1..n, c \notin T PROVE FALSE
  OBVIOUS
<1> DEFINE bad == {k \in 1..n : k \notin T}
<1>1. bad \in SUBSET Nat /\ bad # {}
  OBVIOUS
<1> HIDE DEF bad
<1>2. PICK x \in bad : \A y \in bad : x <= y
  BY <1>1, LeastExists
<1>3. x \in 1..n /\ x \notin T
  BY <1>2 DEF bad
<1>4. x # 1
  BY <1>3
<1>5. x - 1 \in 1..(n - 1) /\ x - 1 \in 1..n /\ (x - 1) + 1 = x /\ ~(x <= x - 1)
  BY <1>3, <1>4
<1>6. x - 1 \notin T
  BY <1>3, <1>5
<1>7. x - 1 \in bad
  BY <1>5, <1>6 DEF bad
<1> QED BY <1>2, <1>5, <1>7

LEMMA JoinedAs ==
  ASSUME NEW x, NEW y, NEW z, Sequence(x), Sequence(y), z = x \o y
  PROVE  /\ Sequence(z) /\ Len(z) = Len(x) + Len(y)
         /\ \A i \in 1..Len(x) : z[i] = x[i]
         /\ \A i \in 1..Len(y) : z[Len(x) + i] = y[i]
BY Concatenated

(* The sequences one after the other, as FlattenSeq() makes them. *)
Flattens(n, seqs, g) == g = [i \in 1..n |-> IF i = 1 THEN seqs[i] ELSE g[i - 1] \o seqs[i]]
LEMMA FlattensExists ==
  ASSUME NEW n \in Nat, NEW seqs, \A j \in 1..n : Sequence(seqs[j])
  PROVE  \E g : Flattens(n, seqs, g)
<1> DEFINE Goes(i, g) == \A k \in 1..i : Sequence(g[k]) /\ g[k] = IF k = 1 THEN seqs[k] ELSE g[k - 1] \o seqs[k]
           T == {i \in 1..n : \E g : Goes(i, g)}
<1>1. n > 0 => 1 \in T
  <2> SUFFICES ASSUME n > 0 PROVE 1 \in T
    OBVIOUS
  <2>1. Goes(1, seqs)
    OBVIOUS
  <2> HIDE DEF Goes
  <2> QED BY <2>1
<1>2. ASSUME NEW i \in 1..(n - 1), i \in T PROVE i + 1 \in T
  <2>1. PICK g : Goes(i, g)
    BY <1>2
  <2> DEFINE y == g[i] \o seqs[i + 1]
             h == [k \in 1..(i + 1) |-> IF k <= i THEN g[k] ELSE y]
  <2>2. i \in 1..i /\ i + 1 \in 1..n /\ i + 1 # 1
    OBVIOUS
  <2>3. Sequence(y)
    BY <2>1, <2>2, Concatenated
  <2>4. ASSUME NEW k \in 1..(i + 1) PROVE Sequence(h[k]) /\ h[k] = IF k = 1 THEN seqs[k] ELSE h[k - 1] \o seqs[k]
    <3>1. CASE k <= i
      <4>1. k \in 1..i /\ h[k] = g[k]
        BY <3>1
      <4>2. k # 1 => h[k - 1] = g[k - 1]
        BY <3>1
      <4> QED BY <2>1, <4>1, <4>2
    <3>2. CASE ~(k <= i)
      <4>0. k = i + 1 /\ k - 1 = i /\ i \in 1..(i + 1) /\ i <= i
        BY <3>2
      <4>1. h[k] = y /\ h[k - 1] = g[i]
        BY <3>2, <4>0
      <4> QED BY <2>2, <2>3, <4>0, <4>1
    <3> QED BY <3>1, <3>2
  <2>5. Goes(i + 1, h)
    <3> HIDE DEF h
    <3> QED BY <2>4
  <2> HIDE DEF Goes, h
  <2> QED BY <2>2, <2>5
<1>3. CASE n = 0
  <2>1. \A g : g = [i \in 1..n |-> <<>>] => g = [i \in 1..n |-> IF i = 1 THEN seqs[i] ELSE g[i - 1] \o seqs[i]]
    BY <1>3
  <2> QED BY <2>1 DEF Flattens
<1>4. CASE n # 0
  <2>1. n \in T
    <3> HIDE DEF T
    <3>1. \A k \in 1..n : k \in T
      BY <1>1, <1>2, Upwards
    <3> QED BY <3>1, <1>4
  <2>2. PICK g : Goes(n, g)
    BY <2>1
  <2> DEFINE h == [k \in 1..n |-> g[k]]
  <2>3. \A k \in 1..n : h[k] = IF k = 1 THEN seqs[k] ELSE h[k - 1] \o seqs[k]
    <3> SUFFICES ASSUME NEW k \in 1..n PROVE h[k] = IF k = 1 THEN seqs[k] ELSE h[k - 1] \o seqs[k]
      OBVIOUS
    <3>1. k # 1 => k - 1 \in 1..n
      OBVIOUS
    <3> QED BY <2>2, <3>1
  <2>4. h = [i \in 1..n |-> h[i]]
    OBVIOUS
  <2> HIDE DEF h
  <2>5. Flattens(n, seqs, h)
    BY <2>3, <2>4 DEF Flattens
  <2> QED BY <2>5
<1> QED BY <1>3, <1>4

(* c says where each of them begins in the whole. *)
Places0(n, seqs, all, c) ==
  /\ c \in [1..(n + 1) -> Nat] /\ c[1] = 0 /\ c[n + 1] = Len(all)
  /\ \A j \in 1..n : /\ c[j + 1] = c[j] + Len(seqs[j]) /\ c[j + 1] <= Len(all)
                     /\ \A i \in 1..Len(seqs[j]) : all[c[j] + i] = seqs[j][i]
LEMMA Flattened ==
  ASSUME NEW n \in Nat, NEW seqs, seqs = [j \in 1..n |-> seqs[j]], \A j \in 1..n : Sequence(seqs[j])
  PROVE  Sequence(FlattenSeq(seqs)) /\ \E c : Places0(n, seqs, FlattenSeq(seqs), c)
<1>0. Len(seqs) = n /\ Sequence(seqs)
  BY Listed
<1>1. CASE n = 0
  <2>1. FlattenSeq(seqs) = seqs
    BY <1>0, <1>1 DEF FlattenSeq
  <2> DEFINE c == [j \in 1..1 |-> 0]
  <2>2. c \in [1..(n + 1) -> Nat] /\ c[1] = 0 /\ n + 1 = 1
    BY <1>1
  <2> HIDE DEF c
  <2>3. Places0(n, seqs, seqs, c)
    BY <1>0, <1>1, <2>2 DEF Places0
  <2> QED BY <1>0, <2>1, <2>3
<1>2. CASE n # 0
  <2> DEFINE f == CHOOSE g : Flattens(n, seqs, g)
  <2>1. FlattenSeq(seqs) = f[n]
    BY <1>0, <1>2 DEF FlattenSeq, Flattens
  <2>2. Flattens(n, seqs, f)
    BY FlattensExists
  <2> HIDE DEF f
  <2>3. f[1] = seqs[1] /\ \A i \in 1..(n - 1) : f[i + 1] = f[i] \o seqs[i + 1]
    <3>1. \A i \in 1..n : f[i] = IF i = 1 THEN seqs[i] ELSE f[i - 1] \o seqs[i]
      BY <2>2, Zenon DEF Flattens
    <3>2. f[1] = seqs[1]
      BY <1>2, <3>1
    <3>3. ASSUME NEW i \in 1..(n - 1) PROVE f[i + 1] = f[i] \o seqs[i + 1]
      <4>1. i + 1 \in 1..n /\ i + 1 # 1 /\ (i + 1) - 1 = i
        OBVIOUS
      <4> QED BY <3>1, <4>1
    <3> QED BY <3>2, <3>3
  <2> DEFINE T == {i \in 1..n : Sequence(f[i])}
  <2>4. \A i \in 1..n : i \in T
    <3>1. 1 \in T
      BY <1>2, <2>3
    <3>2. ASSUME NEW i \in 1..(n - 1), i \in T PROVE i + 1 \in T
      <4>1. i + 1 \in 1..n
        OBVIOUS
      <4>2. Sequence(f[i]) /\ Sequence(seqs[i + 1])
        BY <3>2, <4>1
      <4> DEFINE x == f[i]
                 y == seqs[i + 1]
                 z == f[i + 1]
      <4>3. z = x \o y /\ Sequence(x) /\ Sequence(y)
        BY <2>3, <4>2
      <4> HIDE DEF x, y, z
      <4>5. Sequence(z)
        BY <4>3, JoinedAs
      <4>4. Sequence(f[i + 1])
        BY <4>5 DEF z
      <4> QED BY <4>1, <4>4
    <3> HIDE DEF T
    <3> QED BY <3>1, <3>2, Upwards
  <2>5. \A i \in 1..n : Sequence(f[i]) /\ Len(f[i]) \in Nat /\ Len(seqs[i]) \in Nat
    BY <2>4, SequenceParts
  <2> HIDE DEF T
  <2> DEFINE c == [i \in 1..(n + 1) |-> IF i = 1 THEN 0 ELSE Len(f[i - 1])]
  <2>6. c \in [1..(n + 1) -> Nat] /\ c[1] = 0 /\ \A j \in 1..n : c[j + 1] = Len(f[j])
    <3>1. ASSUME NEW i \in 1..(n + 1), i # 1 PROVE i - 1 \in 1..n
      BY <3>1
    <3>2. c \in [1..(n + 1) -> Nat]
      BY <2>5, <3>1
    <3>3. ASSUME NEW j \in 1..n PROVE c[j + 1] = Len(f[j])
      <4>1. j + 1 \in 1..(n + 1) /\ j + 1 # 1 /\ (j + 1) - 1 = j
        OBVIOUS
      <4> QED BY <4>1
    <3>4. c[1] = 0
      OBVIOUS
    <3> HIDE DEF c
    <3> QED BY <3>2, <3>3, <3>4
  <2> HIDE DEF c
  <2>7. \A j \in 1..n : c[j + 1] = c[j] + Len(seqs[j]) /\ c[j] \in Nat
    <3> SUFFICES ASSUME NEW j \in 1..n PROVE c[j + 1] = c[j] + Len(seqs[j]) /\ c[j] \in Nat
      OBVIOUS
    <3>1. CASE j = 1
      BY <2>3, <2>5, <2>6, <3>1
    <3>2. CASE j # 1
      <4>1. j - 1 \in 1..(n - 1) /\ (j - 1) + 1 = j /\ j - 1 \in 1..n
        BY <3>2
      <4>2. f[j] = f[j - 1] \o seqs[j]
        BY <2>3, <4>1
      <4>3. Len(f[j]) = Len(f[j - 1]) + Len(seqs[j])
        BY <2>5, <4>1, <4>2, Concatenated
      <4>4. c[j] = Len(f[j - 1])
        BY <2>6, <4>1
      <4> QED BY <2>5, <2>6, <4>1, <4>3, <4>4
    <3> QED BY <3>1, <3>2
  <2> DEFINE Whole(i) == \A j \in 1..i : /\ c[j + 1] <= Len(f[i])
                                         /\ \A x \in 1..Len(seqs[j]) : f[i][c[j] + x] = seqs[j][x]
             U == {i \in 1..n : Whole(i)}
  <2>8. \A i \in 1..n : i \in U
    <3>1. 1 \in U
      <4>1. \A j \in 1..1 : j = 1
        OBVIOUS
      <4>2. c[1 + 1] = Len(f[1])
        BY <1>2, <2>6
      <4>3. \A x \in 1..Len(seqs[1]) : c[1] + x = x
        BY <2>6
      <4>4. Len(f[1]) \in Nat /\ 1 \in 1..n
        BY <1>2, <2>5
      <4>5. Whole(1)
        BY <2>3, <4>1, <4>2, <4>3, <4>4
      <4> HIDE DEF Whole
      <4> QED BY <4>4, <4>5
    <3>2. ASSUME NEW i \in 1..(n - 1), i \in U PROVE i + 1 \in U
      <4>1. i \in 1..n /\ i + 1 \in 1..n
        OBVIOUS
      <4>2. f[i + 1] = f[i] \o seqs[i + 1] /\ Sequence(f[i]) /\ Sequence(seqs[i + 1])
        BY <2>3, <2>5, <4>1
      <4>3. /\ Len(f[i + 1]) = Len(f[i]) + Len(seqs[i + 1])
            /\ \A x \in 1..Len(f[i]) : f[i + 1][x] = f[i][x]
            /\ \A x \in 1..Len(seqs[i + 1]) : f[i + 1][Len(f[i]) + x] = seqs[i + 1][x]
        <5> DEFINE x == f[i]
                   y == seqs[i + 1]
                   z == f[i + 1]
        <5>1. z = x \o y /\ Sequence(x) /\ Sequence(y)
          BY <4>2
        <5> HIDE DEF x, y, z
        <5>2. /\ Len(z) = Len(x) + Len(y)
              /\ \A k \in 1..Len(x) : z[k] = x[k]
              /\ \A k \in 1..Len(y) : z[Len(x) + k] = y[k]
          BY <5>1, JoinedAs
        <5> QED BY <5>2 DEF x, y, z
      <4>4. Len(f[i]) \in Nat /\ Len(seqs[i + 1]) \in Nat /\ c[i + 1] = Len(f[i])
        BY <2>5, <2>6, <4>1
      <4>5. ASSUME NEW j \in 1..i
            PROVE  /\ c[j + 1] <= Len(f[i + 1])
                   /\ \A x \in 1..Len(seqs[j]) : f[i + 1][c[j] + x] = seqs[j][x]
        <5>1. j \in 1..n /\ c[j + 1] <= Len(f[i]) /\ \A x \in 1..Len(seqs[j]) : f[i][c[j] + x] = seqs[j][x]
          <6>1. c[j + 1] <= Len(f[i]) /\ \A x \in 1..Len(seqs[j]) : f[i][c[j] + x] = seqs[j][x]
            BY <3>2
          <6>2. j \in 1..n
            BY <2>5
          <6> QED BY <6>1, <6>2
        <5>2. c[j + 1] = c[j] + Len(seqs[j]) /\ c[j] \in Nat /\ Len(seqs[j]) \in Nat
          BY <2>5, <2>7, <5>1
        <5>3. ASSUME NEW x \in 1..Len(seqs[j]) PROVE c[j] + x \in 1..Len(f[i])
          <6> DEFINE p == c[j]
                     q == Len(seqs[j])
                     r == Len(f[i])
          <6>1. p \in Nat /\ q \in Nat /\ r \in Nat /\ x \in 1..q /\ p + q <= r
            BY <4>4, <5>1, <5>2
          <6> HIDE DEF p, q, r
          <6>2. p + x \in 1..r
            BY <6>1
          <6> QED BY <6>2 DEF p, r
        <5>4. ASSUME NEW x \in 1..Len(seqs[j]) PROVE f[i + 1][c[j] + x] = f[i][c[j] + x]
          <6> DEFINE y == c[j] + x
          <6>1. y \in 1..Len(f[i])
            BY <5>3
          <6> HIDE DEF y
          <6>2. f[i + 1][y] = f[i][y]
            BY <4>3, <6>1
          <6> QED BY <6>2 DEF y
        <5>5. c[j + 1] <= Len(f[i + 1])
          <6>1. Len(f[i + 1]) = Len(f[i]) + Len(seqs[i + 1])
            BY <4>3
          <6>2. c[j + 1] <= Len(f[i])
            BY <5>1
          <6>3. c[j + 1] \in Int
            BY <5>2
          <6> DEFINE x == c[j + 1]
                     y == Len(f[i])
                     z == Len(seqs[i + 1])
                     w == Len(f[i + 1])
          <6>4. x \in Int /\ y \in Nat /\ z \in Nat /\ x <= y /\ w = y + z
            BY <4>4, <6>1, <6>2, <6>3
          <6> HIDE DEF x, y, z, w
          <6>5. x <= w
            BY <6>4
          <6> QED BY <6>5 DEF x, w
        <5> QED BY <5>1, <5>4, <5>5
      <4>6. /\ c[(i + 1) + 1] <= Len(f[i + 1])
            /\ \A x \in 1..Len(seqs[i + 1]) : f[i + 1][c[i + 1] + x] = seqs[i + 1][x]
        <5>1. c[(i + 1) + 1] = Len(f[i + 1]) /\ Len(f[i + 1]) \in Nat
          BY <2>5, <2>6, <4>1
        <5>2. \A x \in 1..Len(seqs[i + 1]) : f[i + 1][c[i + 1] + x] = seqs[i + 1][x]
          <6> DEFINE y == c[i + 1]
                     z == f[i + 1]
                     t == seqs[i + 1]
          <6>1. Len(f[i]) = y
            BY <4>4
          <6>2. \A x \in 1..Len(t) : z[y + x] = t[x]
            BY <4>3, <6>1
          <6> QED BY <6>2
        <5>3. c[(i + 1) + 1] <= Len(f[i + 1])
          BY <5>1
        <5> QED BY <5>2, <5>3
      <4>7. Whole(i + 1)
        <5> SUFFICES ASSUME NEW j \in 1..(i + 1)
                     PROVE  /\ c[j + 1] <= Len(f[i + 1])
                            /\ \A x \in 1..Len(seqs[j]) : f[i + 1][c[j] + x] = seqs[j][x]
          OBVIOUS
        <5>1. j \in 1..i \/ j = i + 1
          OBVIOUS
        <5> QED BY <4>5, <4>6, <5>1
      <4> HIDE DEF Whole
      <4> QED BY <4>1, <4>7
    <3> HIDE DEF U
    <3> QED BY <3>1, <3>2, Upwards
  <2>9. Whole(n) /\ n \in 1..n
    <3>1. n \in 1..n
      BY <1>2
    <3>2. n \in U
      BY <2>8, <3>1
    <3> HIDE DEF Whole
    <3> QED BY <3>1, <3>2
  <2>10. Places0(n, seqs, f[n], c)
    BY <2>6, <2>7, <2>9 DEF Places0
  <2> QED BY <2>1, <2>5, <2>9, <2>10
<1> QED BY <1>1, <1>2

-----------------------------------------------------------------------------
(* The stream of a section of build b from a to z, with m in memory: e says where its variables begin. *)
EntryAt(data, k, c, a, z) ==
  /\ z = a + 2 + Len(c) /\ z <= Len(data)
  /\ data[a + 1] = Name(k[2]) /\ data[a + 2] = Number(Len(c))
  /\ \A i \in 1..Len(c) : data[a + 2 + i] = Byte(c[i])
ChunkAt(data, b, j, m, a, z, e) ==
  LET n == Len(Layouts[b][j].vars)
  IN  /\ a + 2 <= z /\ z <= Len(data)
      /\ data[a + 1] = Name(Layouts[b][j].name) /\ data[a + 2] = Number(z - (a + 2))
      /\ e \in [1..(n + 1) -> Nat] /\ e[1] = a + 2 /\ e[n + 1] = z
      /\ \A v \in 1..n : /\ a + 2 <= e[v] /\ e[v + 1] <= z
                         /\ EntryAt(data, KeyAt(b, j, v), Held(m, KeyAt(b, j, v)), e[v], e[v + 1])

LEMMA KeyIsKey ==
  ASSUME NEW b \in DOMAIN Layouts, NEW j \in 1..Len(Layouts[b]), NEW v \in 1..Len(Layouts[b][j].vars)
  PROVE  KeyAt(b, j, v) \in Keys(b) \cup {Length}
BY KeysAre

LEMMA PairOf ==
  ASSUME NEW x, NEW y
  PROVE  Sequence(<<x, y>>) /\ Len(<<x, y>>) = 2 /\ <<x, y>>[1] = x /\ <<x, y>>[2] = y
<1>1. <<x, y>> \in Seq({x, y})
  OBVIOUS
<1> QED BY <1>1 DEF Sequence

LEMMA EntryWritten ==
  ASSUME NEW b \in DOMAIN Layouts, memory \in Memories(b), NEW k \in Keys(b) \cup {Length}
  PROVE  LET c == Held(memory, k)
         IN  /\ Sequence(Entry(k)) /\ Len(Entry(k)) = 2 + Len(c)
             /\ Entry(k)[1] = Name(k[2]) /\ Entry(k)[2] = Number(Len(c))
             /\ \A i \in 1..Len(c) : Entry(k)[2 + i] = Byte(c[i])
<1> DEFINE c == Held(memory, k)
           n == Len(c)
           head == <<Name(k[2]), Number(n)>>
           rest == [i \in 1..n |-> Byte(c[i])]
<1>1. Sequence(c) /\ n \in Nat /\ DOMAIN c = 1..n
  BY HeldParts, SequenceParts
<1>2. c = Contents(k)
  BY DEF Held, Contents
<1>3. Entry(k) = head \o rest
  BY <1>1, <1>2 DEF Entry
<1>4. Sequence(head) /\ Len(head) = 2 /\ head[1] = Name(k[2]) /\ head[2] = Number(n)
  BY PairOf
<1>5. rest = [i \in 1..n |-> rest[i]] /\ \A i \in 1..n : rest[i] = Byte(c[i])
  OBVIOUS
<1> HIDE DEF rest, head, c
<1>6. Sequence(rest) /\ Len(rest) = n
  BY <1>1, <1>5, Listed
<1>7. /\ Sequence(Entry(k)) /\ Len(Entry(k)) = Len(head) + Len(rest)
      /\ \A i \in 1..Len(head) : Entry(k)[i] = head[i]
      /\ \A i \in 1..Len(rest) : Entry(k)[Len(head) + i] = rest[i]
  <2> DEFINE whole == Entry(k)
  <2>1. whole = head \o rest
    BY <1>3
  <2> HIDE DEF whole
  <2>2. /\ Sequence(whole) /\ Len(whole) = Len(head) + Len(rest)
        /\ \A i \in 1..Len(head) : whole[i] = head[i]
        /\ \A i \in 1..Len(rest) : whole[Len(head) + i] = rest[i]
    <3>1. Sequence(head) /\ Sequence(rest)
      BY <1>4, <1>6
    <3>2. /\ Sequence(head \o rest) /\ Len(head \o rest) = Len(head) + Len(rest)
          /\ \A i \in 1..Len(head) : (head \o rest)[i] = head[i]
          /\ \A i \in 1..Len(rest) : (head \o rest)[Len(head) + i] = rest[i]
      BY <3>1, Concatenated
    <3> QED BY <2>1, <3>2
  <2> QED BY <2>2 DEF whole
<1>8. 1 \in 1..2 /\ 2 \in 1..2
  OBVIOUS
<1>9. Entry(k)[1] = head[1] /\ Entry(k)[2] = head[2]
  BY <1>4, <1>7, <1>8
<1> QED BY <1>4, <1>5, <1>6, <1>7, <1>9 DEF c

LEMMA VariablesWritten ==
  ASSUME NEW b \in DOMAIN Layouts, memory \in Memories(b), NEW j \in 1..Len(Layouts[b])
  PROVE  LET s == Layouts[b][j]
             n == Len(s.vars)
         IN  /\ Sequence(SubWrite(s))
             /\ \E e : /\ e \in [1..(n + 1) -> Nat] /\ e[1] = 0 /\ e[n + 1] = Len(SubWrite(s))
                       /\ \A v \in 1..n : LET k == KeyAt(b, j, v) IN EntryAt(SubWrite(s), k, Held(memory, k), e[v], e[v + 1])
<1> DEFINE s == Layouts[b][j]
           n == Len(s.vars)
           seqs == [v \in 1..n |-> Entry(KeyAt(b, j, v))]
           all == SubWrite(s)
<1>1. n \in Nat /\ DOMAIN s.vars = 1..n
  BY SectionParts, SequenceParts
<1>2. all = FlattenSeq(seqs)
  BY <1>1 DEF SubWrite, KeyAt
<1>3. seqs = [v \in 1..n |-> seqs[v]] /\ \A v \in 1..n : seqs[v] = Entry(KeyAt(b, j, v))
  OBVIOUS
<1> HIDE DEF seqs, all
<1>4. \A v \in 1..n : Sequence(seqs[v])
  BY <1>3, EntryWritten, KeyIsKey
<1>5. Sequence(FlattenSeq(seqs)) /\ \E c : Places0(n, seqs, FlattenSeq(seqs), c)
  BY <1>1, <1>3, <1>4, Flattened
<1>6. PICK e : Places0(n, seqs, all, e)
  BY <1>2, <1>5
<1>7. /\ e \in [1..(n + 1) -> Nat] /\ e[1] = 0 /\ e[n + 1] = Len(all)
      /\ \A v \in 1..n : /\ e[v + 1] = e[v] + Len(seqs[v]) /\ e[v + 1] <= Len(all)
                         /\ \A i \in 1..Len(seqs[v]) : all[e[v] + i] = seqs[v][i]
  BY <1>6 DEF Places0
<1>8. ASSUME NEW v \in 1..n PROVE EntryAt(all, KeyAt(b, j, v), Held(memory, KeyAt(b, j, v)), e[v], e[v + 1])
  <2> DEFINE k == KeyAt(b, j, v)
             c == Held(memory, k)
             a == e[v]
             z == e[v + 1]
  <2>1. k \in Keys(b) \cup {Length}
    BY KeyIsKey
  <2>2. /\ Len(seqs[v]) = 2 + Len(c) /\ seqs[v][1] = Name(k[2]) /\ seqs[v][2] = Number(Len(c))
        /\ \A i \in 1..Len(c) : seqs[v][2 + i] = Byte(c[i])
    BY <1>3, <2>1, EntryWritten
  <2>3. Len(c) \in Nat
    BY <2>1, HeldParts
  <2>4. a \in Nat /\ z = a + Len(seqs[v]) /\ z <= Len(all) /\ \A i \in 1..Len(seqs[v]) : all[a + i] = seqs[v][i]
    <3>1. v \in 1..(n + 1)
      BY <1>1
    <3>2. a \in Nat
      BY <1>7, <3>1
    <3> QED BY <1>7, <3>2
  <2> HIDE DEF k, c, a, z
  <2>5. z = a + 2 + Len(c)
    BY <2>2, <2>3, <2>4
  <2>6. 1 \in 1..Len(seqs[v]) /\ 2 \in 1..Len(seqs[v]) /\ \A i \in 1..Len(c) : 2 + i \in 1..Len(seqs[v]) /\ a + (2 + i) = a + 2 + i
    BY <2>2, <2>3, <2>4
  <2>7. all[a + 1] = Name(k[2]) /\ all[a + 2] = Number(Len(c))
    BY <2>2, <2>4, <2>6
  <2>8. ASSUME NEW i \in 1..Len(c) PROVE all[a + 2 + i] = Byte(c[i])
    <3> DEFINE x == 2 + i
    <3>1. x \in 1..Len(seqs[v]) /\ a + x = a + 2 + i /\ seqs[v][x] = Byte(c[i])
      BY <2>2, <2>6
    <3> HIDE DEF x
    <3>2. all[a + x] = seqs[v][x]
      BY <2>4, <3>1
    <3> QED BY <3>1, <3>2
  <2>9. EntryAt(all, k, c, a, z)
    BY <2>4, <2>5, <2>7, <2>8 DEF EntryAt
  <2> QED BY <2>9 DEF k, c, a, z
<1>9. Sequence(all)
  BY <1>2, <1>5
<1> QED BY <1>7, <1>8, <1>9 DEF all

LEMMA EntryKept ==
  ASSUME NEW x, NEW y, NEW k, NEW c, NEW a \in Nat, NEW z \in Nat, EntryAt(x, k, c, a, z), Len(c) \in Nat, NEW d \in Nat,
         \A i \in 1..Len(x) : y[d + i] = x[i], Len(x) \in Nat, Len(y) \in Nat, d + Len(x) <= Len(y)
  PROVE  EntryAt(y, k, c, d + a, d + z)
<1>1. /\ z = a + 2 + Len(c) /\ z <= Len(x) /\ x[a + 1] = Name(k[2]) /\ x[a + 2] = Number(Len(c))
      /\ \A i \in 1..Len(c) : x[a + 2 + i] = Byte(c[i])
  BY DEF EntryAt
<1>2. d + z = (d + a) + 2 + Len(c) /\ d + z <= Len(y)
  BY <1>1
<1>3. ASSUME NEW n, n \in 1..Len(x) PROVE y[d + n] = x[n]
  BY <1>3
<1>4. a + 1 \in 1..Len(x) /\ a + 2 \in 1..Len(x) /\ d + (a + 1) = (d + a) + 1 /\ d + (a + 2) = (d + a) + 2
  BY <1>1
<1>5. y[(d + a) + 1] = x[a + 1]
  BY <1>3, <1>4
<1>6. y[(d + a) + 2] = x[a + 2]
  BY <1>3, <1>4
<1>7. ASSUME NEW i \in 1..Len(c) PROVE y[(d + a) + 2 + i] = Byte(c[i])
  <2>0. i \in Nat /\ i > 0 /\ a + 2 + i <= z /\ z <= Len(x)
    BY <1>1
  <2>1. a + 2 + i \in 1..Len(x) /\ d + (a + 2 + i) = (d + a) + 2 + i
    BY <2>0
  <2>2. y[d + (a + 2 + i)] = x[a + 2 + i]
    BY <1>3, <2>1
  <2> QED BY <1>1, <2>1, <2>2
<1> QED BY <1>1, <1>2, <1>5, <1>6, <1>7 DEF EntryAt

LEMMA ChunkKept ==
  ASSUME NEW b \in DOMAIN Layouts, NEW j \in 1..Len(Layouts[b]), NEW m \in Memories(b), NEW x, NEW y, NEW a \in Nat, NEW z \in Nat,
         NEW e, ChunkAt(x, b, j, m, a, z, e), Len(x) \in Nat, Len(y) \in Nat, Len(x) <= Len(y), \A i \in 1..Len(x) : y[i] = x[i]
  PROVE  ChunkAt(y, b, j, m, a, z, e)
<1> DEFINE n == Len(Layouts[b][j].vars)
<1>1. /\ a + 2 <= z /\ z <= Len(x)
      /\ x[a + 1] = Name(Layouts[b][j].name) /\ x[a + 2] = Number(z - (a + 2))
      /\ e \in [1..(n + 1) -> Nat] /\ e[1] = a + 2 /\ e[n + 1] = z
      /\ \A v \in 1..n : /\ a + 2 <= e[v] /\ e[v + 1] <= z
                         /\ EntryAt(x, KeyAt(b, j, v), Held(m, KeyAt(b, j, v)), e[v], e[v + 1])
  BY DEF ChunkAt
<1>2. n \in Nat
  BY SectionParts
<1>3. a + 1 \in 1..Len(x) /\ a + 2 \in 1..Len(x) /\ z <= Len(y)
  BY <1>1
<1>4. y[a + 1] = x[a + 1] /\ y[a + 2] = x[a + 2]
  BY <1>3
<1>5. ASSUME NEW v \in 1..n PROVE EntryAt(y, KeyAt(b, j, v), Held(m, KeyAt(b, j, v)), e[v], e[v + 1])
  <2> DEFINE k == KeyAt(b, j, v)
             c == Held(m, k)
  <2>1. Len(c) \in Nat
    BY KeyIsKey, HeldParts
  <2>2. v \in 1..(n + 1) /\ v + 1 \in 1..(n + 1)
    BY <1>2
  <2>3. e[v] \in Nat /\ e[v + 1] \in Nat /\ EntryAt(x, k, c, e[v], e[v + 1])
    BY <1>1, <2>2
  <2> HIDE DEF k, c
  <2>4. 0 \in Nat /\ (\A i \in 1..Len(x) : y[0 + i] = x[i]) /\ 0 + Len(x) <= Len(y)
    OBVIOUS
  <2>5. EntryAt(y, k, c, 0 + e[v], 0 + e[v + 1])
    BY <2>1, <2>3, <2>4, EntryKept
  <2> QED BY <2>3, <2>5 DEF k, c
<1> QED BY <1>1, <1>3, <1>4, <1>5 DEF ChunkAt

LEMMA ChunkWritten ==
  ASSUME NEW b \in DOMAIN Layouts, memory \in Memories(b), NEW j \in 1..Len(Layouts[b]), NEW data, Sequence(data)
  PROVE  LET all == WriteStateChunk(data, Layouts[b][j])
         IN  /\ Sequence(all) /\ Len(data) <= Len(all) /\ \A i \in 1..Len(data) : all[i] = data[i]
             /\ \E e : ChunkAt(all, b, j, memory, Len(data), Len(all), e)
<1> DEFINE s == Layouts[b][j]
           n == Len(s.vars)
           a == Len(data)
           head == <<Name(s.name), Number(0)>>
           body == SubWrite(s)
           begun == data \o head
           plain == begun \o body
           all == WriteStateChunk(data, s)
<1>1. all = [plain EXCEPT ![a + 2] = Number(Len(plain) - (a + 2))]
  BY DEF WriteStateChunk
<1>2. /\ Sequence(body) /\ n \in Nat
      /\ \E e : /\ e \in [1..(n + 1) -> Nat] /\ e[1] = 0 /\ e[n + 1] = Len(body)
                /\ \A v \in 1..n : EntryAt(body, KeyAt(b, j, v), Held(memory, KeyAt(b, j, v)), e[v], e[v + 1])
  BY VariablesWritten, SectionParts
<1>3. Sequence(head) /\ Len(head) = 2 /\ head[1] = Name(s.name)
  BY PairOf
<1>4. a \in Nat /\ Len(body) \in Nat
  BY <1>2, SequenceParts
<1> HIDE DEF all, body, head
<1>5. /\ Sequence(begun) /\ Len(begun) = a + 2 /\ begun[a + 1] = Name(s.name)
      /\ \A i \in 1..a : begun[i] = data[i]
  <2>1. /\ Sequence(begun) /\ Len(begun) = a + Len(head)
        /\ \A i \in 1..a : begun[i] = data[i]
        /\ \A i \in 1..Len(head) : begun[a + i] = head[i]
    <3>1. Sequence(head)
      BY <1>3
    <3> QED BY <3>1, Concatenated
  <2>2. 1 \in 1..Len(head)
    BY <1>3
  <2> QED BY <1>3, <2>1, <2>2
<1> HIDE DEF begun
<1>6. /\ Sequence(plain) /\ Len(plain) = a + 2 + Len(body)
      /\ \A i \in 1..(a + 2) : plain[i] = begun[i]
      /\ \A i \in 1..Len(body) : plain[a + 2 + i] = body[i]
  <2>1. /\ Sequence(plain) /\ Len(plain) = Len(begun) + Len(body)
        /\ \A i \in 1..Len(begun) : plain[i] = begun[i]
        /\ \A i \in 1..Len(body) : plain[Len(begun) + i] = body[i]
    <3>1. Sequence(begun)
      BY <1>5
    <3> QED BY <1>2, <3>1, Concatenated
  <2> QED BY <1>5, <2>1
<1> HIDE DEF plain
<1>7. /\ Sequence(all) /\ Len(all) = Len(plain) /\ all[a + 2] = Number(Len(plain) - (a + 2))
      /\ \A i \in 1..Len(plain) : i # a + 2 => all[i] = plain[i]
  <2>1. Len(plain) \in Nat /\ DOMAIN plain = 1..Len(plain) /\ a + 2 \in 1..Len(plain)
    BY <1>4, <1>6, SequenceParts
  <2>2. all = [i \in 1..Len(plain) |-> all[i]]
    BY <1>1, <2>1
  <2>3. Sequence(all) /\ Len(all) = Len(plain)
    BY <2>1, <2>2, Listed
  <2> QED BY <1>1, <2>1, <2>3
<1>8. \A i \in 1..a : all[i] = data[i]
  <2> SUFFICES ASSUME NEW i \in 1..a PROVE all[i] = data[i]
    OBVIOUS
  <2>1. i \in 1..Len(plain) /\ i # a + 2 /\ i \in 1..(a + 2)
    BY <1>4, <1>6
  <2> QED BY <1>5, <1>6, <1>7, <2>1
<1>9. all[a + 1] = Name(s.name)
  <2>1. a + 1 \in 1..Len(plain) /\ a + 1 # a + 2 /\ a + 1 \in 1..(a + 2)
    BY <1>4, <1>6
  <2> QED BY <1>5, <1>6, <1>7, <2>1
<1>10. ASSUME NEW i \in 1..Len(body) PROVE all[(a + 2) + i] = body[i]
  <2> DEFINE x == (a + 2) + i
  <2>1. x \in 1..Len(plain) /\ x # a + 2 /\ plain[x] = body[i]
    BY <1>4, <1>6
  <2> HIDE DEF x
  <2>2. all[x] = body[i]
    BY <1>7, <2>1
  <2> QED BY <2>2 DEF x
<1>11. PICK e : /\ e \in [1..(n + 1) -> Nat] /\ e[1] = 0 /\ e[n + 1] = Len(body)
                /\ \A v \in 1..n : EntryAt(body, KeyAt(b, j, v), Held(memory, KeyAt(b, j, v)), e[v], e[v + 1])
  BY <1>2
<1> DEFINE g == [v \in 1..(n + 1) |-> (a + 2) + e[v]]
<1>12. g \in [1..(n + 1) -> Nat] /\ g[1] = a + 2 /\ g[n + 1] = Len(all) /\ \A v \in 1..(n + 1) : g[v] = (a + 2) + e[v]
  <2>1. 1 \in 1..(n + 1) /\ n + 1 \in 1..(n + 1)
    BY <1>2
  <2>2. ASSUME NEW v \in 1..(n + 1) PROVE (a + 2) + e[v] \in Nat
    <3>1. e[v] \in Nat
      BY <1>11
    <3> HIDE DEF a
    <3> QED BY <1>4, <3>1
  <2>3. g[1] = (a + 2) + e[1] /\ g[n + 1] = (a + 2) + e[n + 1] /\ g \in [1..(n + 1) -> Nat]
    BY <2>1, <2>2
  <2>4. (a + 2) + e[1] = a + 2 /\ (a + 2) + e[n + 1] = Len(all)
    BY <1>4, <1>6, <1>7, <1>11
  <2> QED BY <2>3, <2>4
<1> HIDE DEF g
<1>13. ASSUME NEW v \in 1..n
       PROVE  /\ a + 2 <= g[v] /\ g[v + 1] <= Len(all)
              /\ EntryAt(all, KeyAt(b, j, v), Held(memory, KeyAt(b, j, v)), g[v], g[v + 1])
  <2> DEFINE k == KeyAt(b, j, v)
             c == Held(memory, k)
             f == e[v]
             z == e[v + 1]
             d == a + 2
  <2>1. Len(c) \in Nat
    BY KeyIsKey, HeldParts
  <2>2. v \in 1..(n + 1) /\ v + 1 \in 1..(n + 1)
    BY <1>2
  <2>3. f \in Nat /\ z \in Nat /\ EntryAt(body, k, c, f, z)
    BY <1>11, <2>2
  <2>4. g[v] = d + f /\ g[v + 1] = d + z
    BY <1>12, <2>2
  <2>5. d \in Nat /\ Len(all) = d + Len(body) /\ Len(all) \in Nat
    BY <1>4, <1>6, <1>7
  <2>6. \A i \in 1..Len(body) : all[d + i] = body[i]
    BY <1>10
  <2> HIDE DEF k, c, f, z, d
  <2>7. EntryAt(all, k, c, d + f, d + z)
    <3>1. d + Len(body) <= Len(all)
      BY <1>4, <2>5
    <3> QED BY <1>4, <2>1, <2>3, <2>5, <2>6, <3>1, EntryKept
  <2>8. d <= d + f /\ d + z <= Len(all)
    <3>1. d + z <= Len(all)
      BY <2>7 DEF EntryAt
    <3> QED BY <2>3, <2>5, <3>1
  <2> QED BY <2>4, <2>7, <2>8 DEF k, c, d
<1>14. a + 2 <= Len(all) /\ Len(all) <= Len(all) /\ a <= Len(all)
  BY <1>4, <1>6, <1>7
<1>15. ChunkAt(all, b, j, memory, a, Len(all), g)
  BY <1>7, <1>9, <1>12, <1>13, <1>14 DEF ChunkAt
<1> QED BY <1>7, <1>8, <1>14, <1>15 DEF all

(* The first d sections of build b one after the other, with m in memory: h says where they begin. *)
Laid(data, b, m, d, h, e) ==
  /\ Sequence(data) /\ d \in 0..Len(Layouts[b]) /\ h \in [1..(d + 1) -> Nat]
  /\ h[1] = 1 /\ h[d + 1] = Len(data) /\ data[1] = Header
  /\ \A j \in 1..d : ChunkAt(data, b, j, m, h[j], h[j + 1], e[j])

LEMMA NothingLaid ==
  ASSUME NEW b \in DOMAIN Layouts, NEW m
  PROVE  \E h, e : Laid(<<Header>>, b, m, 0, h, e)
<1> DEFINE h == [j \in 1..1 |-> 1]
           data == <<Header>>
<1>1. Sequence(data) /\ Len(data) = 1 /\ data[1] = Header
  <2>1. data \in Seq({Header})
    OBVIOUS
  <2> QED BY <2>1 DEF Sequence
<1>2. h \in [1..(0 + 1) -> Nat] /\ h[1] = 1 /\ h[0 + 1] = 1
  OBVIOUS
<1>3. 0 \in 0..Len(Layouts[b])
  BY LayoutParts
<1> HIDE DEF h, data
<1>4. Laid(data, b, m, 0, h, <<>>)
  BY <1>1, <1>2, <1>3 DEF Laid
<1> QED BY <1>4 DEF data

LEMMA OneMoreLaid ==
  ASSUME NEW b \in DOMAIN Layouts, memory \in Memories(b), NEW data, NEW d, NEW h, NEW e,
         Laid(data, b, memory, d, h, e), d < Len(Layouts[b])
  PROVE  \E g, f : Laid(WriteStateChunk(data, Layouts[b][d + 1]), b, memory, d + 1, g, f)
<1>1. /\ Sequence(data) /\ d \in 0..Len(Layouts[b]) /\ h \in [1..(d + 1) -> Nat]
      /\ h[1] = 1 /\ h[d + 1] = Len(data) /\ data[1] = Header
      /\ \A j \in 1..d : ChunkAt(data, b, j, memory, h[j], h[j + 1], e[j])
  BY DEF Laid
<1>2. Len(Layouts[b]) \in Nat
  BY LayoutParts
<1>3. d \in Nat /\ d + 1 \in 1..Len(Layouts[b]) /\ d + 1 \in 0..Len(Layouts[b])
  BY <1>1, <1>2
<1> DEFINE all == WriteStateChunk(data, Layouts[b][d + 1])
<1>4. /\ Sequence(all) /\ Len(data) <= Len(all) /\ \A i \in 1..Len(data) : all[i] = data[i]
      /\ \E f : ChunkAt(all, b, d + 1, memory, Len(data), Len(all), f)
  BY <1>1, <1>3, ChunkWritten
<1>5. PICK f : ChunkAt(all, b, d + 1, memory, Len(data), Len(all), f)
  BY <1>4
<1> HIDE DEF all
<1>6. Len(data) \in Nat /\ Len(all) \in Nat
  BY <1>1, <1>4, SequenceParts
<1> DEFINE g == [j \in 1..((d + 1) + 1) |-> IF j <= d + 1 THEN h[j] ELSE Len(all)]
           k == [j \in 1..(d + 1) |-> IF j <= d THEN e[j] ELSE f]
<1>7. g \in [1..((d + 1) + 1) -> Nat] /\ g[(d + 1) + 1] = Len(all) /\ \A j \in 1..(d + 1) : g[j] = h[j]
  <2>1. \A j \in 1..((d + 1) + 1) : (IF j <= d + 1 THEN h[j] ELSE Len(all)) \in Nat
    BY <1>1, <1>3, <1>6
  <2>2. g \in [1..((d + 1) + 1) -> Nat]
    BY <2>1
  <2>3. (d + 1) + 1 \in 1..((d + 1) + 1) /\ ~((d + 1) + 1 <= d + 1)
    BY <1>3
  <2>4. \A j \in 1..(d + 1) : j \in 1..((d + 1) + 1) /\ j <= d + 1
    BY <1>3
  <2> QED BY <2>2, <2>3, <2>4
<1>8. k[d + 1] = f /\ \A j \in 1..d : k[j] = e[j]
  <2>1. d + 1 \in 1..(d + 1) /\ ~(d + 1 <= d) /\ \A j \in 1..d : j \in 1..(d + 1) /\ j <= d
    BY <1>3
  <2> QED BY <2>1
<1> HIDE DEF g, k
<1>9. g[1] = 1 /\ g[d + 1] = Len(data)
  <2>1. 1 \in 1..(d + 1) /\ d + 1 \in 1..(d + 1)
    BY <1>3
  <2> QED BY <1>1, <1>7, <2>1
<1>10. all[1] = Header
  <2>1. Len(data) >= 1
    <3>1. CASE d = 0
      BY <1>1, <3>1
    <3>2. CASE d # 0
      <4>1. d \in 1..d /\ d \in 1..(d + 1)
        BY <1>3, <3>2
      <4>2. h[d] + 2 <= h[d + 1] /\ h[d] \in Nat
        BY <1>1, <4>1 DEF ChunkAt
      <4> QED BY <1>1, <4>2
    <3> QED BY <3>1, <3>2
  <2>2. 1 \in 1..Len(data)
    BY <1>6, <2>1
  <2> QED BY <1>1, <1>4, <2>2
<1>11. ASSUME NEW j \in 1..(d + 1) PROVE ChunkAt(all, b, j, memory, g[j], g[j + 1], k[j])
  <2>1. CASE j = d + 1
    <3>1. g[j] = Len(data) /\ g[j + 1] = Len(all) /\ k[j] = f
      BY <1>7, <1>8, <1>9, <2>1
    <3> QED BY <1>5, <2>1, <3>1
  <2>2. CASE j # d + 1
    <3>1. j \in 1..d /\ j + 1 \in 1..(d + 1) /\ j \in 1..Len(Layouts[b]) /\ j \in 1..(d + 1)
      BY <1>2, <1>3, <2>2
    <3>2. g[j] = h[j] /\ g[j + 1] = h[j + 1] /\ k[j] = e[j] /\ h[j] \in Nat /\ h[j + 1] \in Nat
      BY <1>1, <1>7, <1>8, <3>1
    <3>3. ChunkAt(data, b, j, memory, h[j], h[j + 1], e[j])
      BY <1>1, <3>1
    <3> DEFINE a == h[j]
               z == h[j + 1]
               t == e[j]
    <3>4. a \in Nat /\ z \in Nat /\ ChunkAt(data, b, j, memory, a, z, t)
      BY <3>2, <3>3
    <3> HIDE DEF a, z, t
    <3>5. ChunkAt(all, b, j, memory, a, z, t)
      BY <1>4, <1>6, <3>1, <3>4, ChunkKept
    <3> QED BY <3>2, <3>5 DEF a, z, t
  <2> QED BY <2>1, <2>2
<1>12. Laid(all, b, memory, d + 1, g, k)
  BY <1>3, <1>4, <1>7, <1>9, <1>10, <1>11 DEF Laid
<1> QED BY <1>12 DEF all

-----------------------------------------------------------------------------
(* One of the steps of a ladder holds i. *)
LEMMA Ladder ==
  ASSUME NEW n \in Nat, NEW c \in [1..(n + 1) -> Nat], NEW i \in Nat, c[1] < i, i <= c[n + 1]
  PROVE  \E w \in 1..n : c[w] < i /\ i <= c[w + 1]
<1> DEFINE D == {w \in 1..(n + 1) : i <= c[w]}
<1>1. D \in SUBSET Nat /\ n + 1 \in D
  OBVIOUS
<1>2. PICK w \in D : \A y \in D : w <= y
  BY <1>1, LeastExists
<1>3. w \in 1..(n + 1) /\ i <= c[w] /\ w # 1
  <2>1. 1 \in 1..(n + 1) /\ c[1] \in Nat
    OBVIOUS
  <2>2. w \in 1..(n + 1) /\ i <= c[w]
    BY <1>2
  <2> QED BY <2>1, <2>2
<1>4. w - 1 \in 1..n /\ w - 1 \in 1..(n + 1) /\ (w - 1) + 1 = w /\ ~(w <= w - 1)
  BY <1>3
<1>5. w - 1 \notin D
  BY <1>2, <1>4
<1>6. c[w - 1] \in Nat /\ ~(i <= c[w - 1])
  BY <1>4, <1>5
<1>7. c[w - 1] < i
  BY <1>6
<1> DEFINE x == w - 1
<1>8. x \in 1..n /\ c[x] < i /\ i <= c[x + 1]
  BY <1>3, <1>4, <1>7
<1> HIDE DEF x
<1> QED BY <1>8

-----------------------------------------------------------------------------
(* The state as written is what a build b saved when m was in memory. *)
Count(b, m) == IF m[Flash] = <<>> THEN Len(Layouts[b]) - 1 ELSE Len(Layouts[b])
Recorded(b, m, h, e) == b \in DOMAIN Layouts /\ m \in Memories(b) /\ Laid(written, b, m, Count(b, m), h, e)

LEMMA CountParts ==
  ASSUME NEW b \in DOMAIN Layouts, NEW m
  PROVE  Count(b, m) \in Nat /\ Count(b, m) <= Len(Layouts[b]) /\ Count(b, m) >= Len(Layouts[b]) - 1
BY LayoutParts DEF Count

LEMMA SectionRecorded ==
  ASSUME NEW b, NEW m, NEW h, NEW e, Recorded(b, m, h, e), NEW j \in 1..Count(b, m)
  PROVE  LET n == Len(Layouts[b][j].vars)
         IN  /\ j \in 1..Len(Layouts[b])
             /\ h[j] \in Nat /\ h[j + 1] \in Nat /\ h[j] >= 1 /\ h[j] + 2 <= h[j + 1] /\ h[j + 1] <= Len(written)
             /\ written[h[j] + 1] = Name(Layouts[b][j].name)
             /\ written[h[j] + 2] = Number(h[j + 1] - (h[j] + 2))
             /\ n \in Nat /\ e[j] \in [1..(n + 1) -> Nat] /\ e[j][1] = h[j] + 2 /\ e[j][n + 1] = h[j + 1]
<1> DEFINE n == Len(Layouts[b][j].vars)
           d == Count(b, m)
<1>0. b \in DOMAIN Layouts /\ m \in Memories(b) /\ Laid(written, b, m, d, h, e)
  BY DEF Recorded
<1>1. d \in Nat /\ d <= Len(Layouts[b]) /\ Len(Layouts[b]) \in Nat
  BY <1>0, CountParts, LayoutParts
<1>2. /\ h \in [1..(d + 1) -> Nat] /\ h[1] = 1
      /\ \A i \in 1..d : ChunkAt(written, b, i, m, h[i], h[i + 1], e[i])
  BY <1>0 DEF Laid
<1> HIDE DEF d
<1>3. ASSUME NEW i \in 1..d PROVE i \in 1..(d + 1) /\ i + 1 \in 1..(d + 1) /\ h[i] \in Nat /\ h[i + 1] \in Nat /\ h[i] + 2 <= h[i + 1]
  <2>1. i \in 1..(d + 1) /\ i + 1 \in 1..(d + 1)
    BY <1>1
  <2> QED BY <1>2, <2>1 DEF ChunkAt
<1> DEFINE T == {i \in 1..(d + 1) : h[i] >= 1}
<1>4. \A i \in 1..(d + 1) : i \in T
  <2>1. 1 \in T
    BY <1>1, <1>2
  <2>2. ASSUME NEW i \in 1..((d + 1) - 1), i \in T PROVE i + 1 \in T
    <3>1. i \in 1..d
      BY <1>1
    <3>2. h[i] \in Nat /\ h[i + 1] \in Nat /\ h[i] + 2 <= h[i + 1] /\ i + 1 \in 1..(d + 1) /\ h[i] >= 1
      BY <1>3, <2>2, <3>1
    <3> QED BY <3>2
  <2>3. d + 1 \in Nat
    BY <1>1
  <2> HIDE DEF T
  <2> QED BY <2>1, <2>2, <2>3, Upwards
<1>5. j \in 1..d /\ j \in 1..Len(Layouts[b])
  BY <1>1 DEF d
<1>6. h[j] >= 1 /\ h[j] \in Nat /\ h[j + 1] \in Nat
  BY <1>3, <1>4, <1>5
<1>7. n \in Nat
  BY <1>0, <1>5, SectionParts
<1>8. ChunkAt(written, b, j, m, h[j], h[j + 1], e[j])
  BY <1>2, <1>5
<1> QED BY <1>5, <1>6, <1>7, <1>8 DEF ChunkAt

LEMMA HeadRecorded ==
  ASSUME NEW b, NEW m, NEW h, NEW e, Recorded(b, m, h, e), NEW j \in 1..Count(b, m)
  PROVE  written[h[j] + 1] = Name(Layouts[b][j].name) /\ written[h[j] + 2] = Number(h[j + 1] - (h[j] + 2))
<1>1. written[h[j] + 1] = Name(Layouts[b][j].name)
  BY SectionRecorded
<1>2. written[h[j] + 2] = Number(h[j + 1] - (h[j] + 2))
  BY SectionRecorded
<1> QED BY <1>1, <1>2

LEMMA EntryRecorded ==
  ASSUME NEW b, NEW m, NEW h, NEW e, Recorded(b, m, h, e), NEW j \in 1..Count(b, m), NEW v \in 1..Len(Layouts[b][j].vars)
  PROVE  LET k == KeyAt(b, j, v)
             c == Held(m, k)
         IN  /\ k \in Keys(b) \cup {Length} /\ Sequence(c) /\ Len(c) \in Nat /\ \A i \in 1..Len(c) : c[i][1] = k
             /\ e[j][v] \in Nat /\ e[j][v] >= h[j] + 2 /\ e[j][v + 1] = e[j][v] + 2 + Len(c)
             /\ e[j][v + 1] <= h[j + 1] /\ h[j + 1] <= Len(written) /\ h[j] >= 1
             /\ written[e[j][v] + 1] = Name(k[2]) /\ written[e[j][v] + 2] = Number(Len(c))
             /\ \A i \in 1..Len(c) : written[e[j][v] + 2 + i] = Byte(c[i])
<1> DEFINE k == KeyAt(b, j, v)
           c == Held(m, k)
           n == Len(Layouts[b][j].vars)
<1>0. b \in DOMAIN Layouts /\ m \in Memories(b) /\ Laid(written, b, m, Count(b, m), h, e)
  BY DEF Recorded
<1>1. /\ j \in 1..Len(Layouts[b]) /\ n \in Nat /\ e[j] \in [1..(n + 1) -> Nat]
      /\ h[j + 1] <= Len(written) /\ h[j] >= 1 /\ h[j] \in Nat /\ h[j + 1] \in Nat
  BY SectionRecorded
<1>2. v \in 1..(n + 1) /\ v + 1 \in 1..(n + 1)
  BY <1>1
<1>3. e[j][v] \in Nat
  BY <1>1, <1>2
<1>4. ChunkAt(written, b, j, m, h[j], h[j + 1], e[j])
  BY <1>0 DEF Laid
<1>5. h[j] + 2 <= e[j][v] /\ e[j][v + 1] <= h[j + 1] /\ EntryAt(written, k, c, e[j][v], e[j][v + 1])
  BY <1>4 DEF ChunkAt
<1>6. k \in Keys(b) \cup {Length}
  BY <1>0, <1>1, KeyIsKey
<1>7. Sequence(c) /\ Len(c) \in Nat /\ \A i \in 1..Len(c) : c[i][1] = k
  BY <1>0, <1>6, HeldParts
<1> HIDE DEF k, c
<1>8. /\ e[j][v + 1] = e[j][v] + 2 + Len(c)
      /\ written[e[j][v] + 1] = Name(k[2]) /\ written[e[j][v] + 2] = Number(Len(c))
      /\ \A i \in 1..Len(c) : written[e[j][v] + 2 + i] = Byte(c[i])
  BY <1>5 DEF EntryAt
<1>9. e[j][v] >= h[j] + 2
  BY <1>1, <1>3, <1>5
<1> QED BY <1>1, <1>3, <1>5, <1>6, <1>7, <1>8, <1>9 DEF k, c

(* Place i is a byte of variable v of section j; every byte of the state is in one. *)
HoldsAt(b, m, e, j, v, i) == \E x \in 1..Len(Held(m, KeyAt(b, j, v))) : i = e[j][v] + 2 + x

LEMMA BytesRecorded ==
  ASSUME NEW b, NEW m, NEW h, NEW e, Recorded(b, m, h, e), NEW i \in DOMAIN written, written[i].cell = "byte"
  PROVE  \E j \in 1..Count(b, m) : \E v \in 1..Len(Layouts[b][j].vars) : HoldsAt(b, m, e, j, v, i)
<1> DEFINE d == Count(b, m)
<1>1. /\ b \in DOMAIN Layouts /\ Sequence(written) /\ d \in Nat /\ h \in [1..(d + 1) -> Nat]
      /\ h[1] = 1 /\ h[d + 1] = Len(written) /\ written[1] = Header
  BY CountParts DEF Recorded, Laid
<1>2. i \in 1..Len(written) /\ Len(written) \in Nat
  BY <1>1, SequenceParts
<1>3. i # 1
  BY <1>1 DEF Header, Name
<1>4. i \in Nat /\ h[1] < i /\ i <= h[d + 1]
  BY <1>1, <1>2, <1>3
<1>5. PICK j \in 1..d : h[j] < i /\ i <= h[j + 1]
  <2> HIDE DEF d
  <2> QED BY <1>1, <1>4, Ladder
<1> DEFINE n == Len(Layouts[b][j].vars)
<1>a. /\ h[j] \in Nat /\ h[j + 1] \in Nat
      /\ n \in Nat /\ e[j] \in [1..(n + 1) -> Nat] /\ e[j][1] = h[j] + 2 /\ e[j][n + 1] = h[j + 1]
  <2>1. j \in 1..Count(b, m)
    BY <1>5
  <2> HIDE DEF d
  <2>2. h[j] \in Nat /\ h[j + 1] \in Nat
    BY <2>1, SectionRecorded
  <2>3. n \in Nat /\ e[j] \in [1..(n + 1) -> Nat]
    BY <2>1, SectionRecorded
  <2>4. e[j][1] = h[j] + 2 /\ e[j][n + 1] = h[j + 1]
    BY <2>1, SectionRecorded
  <2> QED BY <2>2, <2>3, <2>4
<1>b. /\ written[h[j] + 1] = Name(Layouts[b][j].name)
      /\ written[h[j] + 2] = Number(h[j + 1] - (h[j] + 2))
  <2>1. j \in 1..Count(b, m)
    BY <1>5
  <2> QED BY <2>1, HeadRecorded
<1>c. written[h[j] + 1].cell = "name" /\ written[h[j] + 2].cell = "number"
  BY <1>b DEF Name, Number
<1>6. /\ h[j] \in Nat /\ h[j + 1] \in Nat
      /\ written[h[j] + 1].cell = "name" /\ written[h[j] + 2].cell = "number"
      /\ n \in Nat /\ e[j] \in [1..(n + 1) -> Nat] /\ e[j][1] = h[j] + 2 /\ e[j][n + 1] = h[j + 1]
  BY <1>a, <1>c
<1>7. i # h[j] + 1 /\ i # h[j] + 2
  BY <1>6
<1>8. e[j][1] < i /\ i <= e[j][n + 1]
  <2> DEFINE p == h[j]
             q == h[j + 1]
  <2>1. i \in Nat /\ p \in Nat /\ q \in Nat /\ p < i /\ i <= q /\ i # p + 1 /\ i # p + 2
    BY <1>4, <1>5, <1>6, <1>7
  <2>2. e[j][1] = p + 2 /\ e[j][n + 1] = q
    BY <1>6
  <2> HIDE DEF p, q
  <2>3. p + 2 < i
    BY <2>1
  <2> QED BY <2>1, <2>2, <2>3
<1>9. PICK v \in 1..n : e[j][v] < i /\ i <= e[j][v + 1]
  <2> DEFINE t == e[j]
  <2>1. t \in [1..(n + 1) -> Nat] /\ t[1] < i /\ i <= t[n + 1]
    BY <1>6, <1>8
  <2> HIDE DEF t, n
  <2>2. \E v \in 1..n : t[v] < i /\ i <= t[v + 1]
    BY <1>4, <1>6, <2>1, Ladder
  <2> QED BY <2>2 DEF t
<1> DEFINE c == Held(m, KeyAt(b, j, v))
<1>d. /\ Len(c) \in Nat /\ e[j][v] \in Nat /\ e[j][v + 1] = e[j][v] + 2 + Len(c)
      /\ written[e[j][v] + 1] = Name(KeyAt(b, j, v)[2]) /\ written[e[j][v] + 2] = Number(Len(c))
  BY <1>5, <1>9, EntryRecorded
<1>10. /\ Len(c) \in Nat /\ e[j][v] \in Nat /\ e[j][v + 1] = e[j][v] + 2 + Len(c)
       /\ written[e[j][v] + 1].cell = "name" /\ written[e[j][v] + 2].cell = "number"
  BY <1>d DEF Name, Number
<1>11. i # e[j][v] + 1 /\ i # e[j][v] + 2
  BY <1>10
<1> HIDE DEF c
<1> DEFINE x == i - (e[j][v] + 2)
<1>12. x \in 1..Len(c) /\ i = e[j][v] + 2 + x
  <2> DEFINE a == e[j][v]
             z == e[j][v + 1]
  <2>1. a \in Nat /\ z = a + 2 + Len(c) /\ a < i /\ i <= z /\ i # a + 1 /\ i # a + 2
    BY <1>9, <1>10, <1>11
  <2> HIDE DEF a, z
  <2>2. i - (a + 2) \in 1..Len(c) /\ i = a + 2 + (i - (a + 2))
    <3>1. Len(c) \in Nat /\ i \in Nat
      BY <1>4, <1>10
    <3> HIDE DEF d, n
    <3> QED BY <2>1, <3>1
  <2> QED BY <2>2 DEF a
<1> HIDE DEF x
<1>13. HoldsAt(b, m, e, j, v, i)
  BY <1>12 DEF HoldsAt, c
<1>14. j \in 1..Count(b, m) /\ v \in 1..Len(Layouts[b][j].vars)
  BY <1>5, <1>9
<1> QED BY <1>13, <1>14

(* A place of a variable is in its entry. *)
LEMMA PlaceRecorded ==
  ASSUME NEW b, NEW m, NEW h, NEW e, Recorded(b, m, h, e), NEW k, NEW i \in Places(k)
  PROVE  \E j \in 1..Count(b, m) : \E v \in 1..Len(Layouts[b][j].vars) :
           k = KeyAt(b, j, v) /\ \E x \in 1..Len(Held(m, k)) : i = e[j][v] + 2 + x
<1>1. i \in DOMAIN written /\ written[i].cell = "byte" /\ written[i].of[1] = k
  BY DEF Places
<1>2. PICK j \in 1..Count(b, m) : \E v \in 1..Len(Layouts[b][j].vars) : HoldsAt(b, m, e, j, v, i)
  BY <1>1, BytesRecorded
<1>3. PICK v \in 1..Len(Layouts[b][j].vars) : HoldsAt(b, m, e, j, v, i)
  BY <1>2
<1> DEFINE l == KeyAt(b, j, v)
           c == Held(m, l)
<1>4. PICK x \in 1..Len(c) : i = e[j][v] + 2 + x
  BY <1>3 DEF HoldsAt
<1>5. \A y \in 1..Len(c) : written[e[j][v] + 2 + y] = Byte(c[y])
  BY EntryRecorded
<1>8. b \in DOMAIN Layouts /\ m \in Memories(b) /\ l \in Keys(b) \cup {Length}
  BY EntryRecorded DEF Recorded
<1> HIDE DEF l
<1>9. \A y \in 1..Len(c) : c[y][1] = l
  BY <1>8, HeldParts
<1> HIDE DEF c
<1>10. written[i] = Byte(c[x])
  BY <1>4, <1>5
<1>11. written[i].of = c[x]
  BY <1>10 DEF Byte
<1>6. written[i].of[1] = l
  BY <1>9, <1>11
<1>7. k = l
  BY <1>1, <1>6
<1> QED BY <1>4, <1>7 DEF l, c

LEMMA NotRecorded ==
  ASSUME NEW b, NEW m, NEW h, NEW e, Recorded(b, m, h, e), NEW k,
         \A j \in 1..Count(b, m) : \A v \in 1..Len(Layouts[b][j].vars) : k # KeyAt(b, j, v)
  PROVE  Places(k) = {}
BY PlaceRecorded

(* Where the bytes of a variable are, and what they are. *)
LEMMA PlacesRecorded ==
  ASSUME NEW b, NEW m, NEW h, NEW e, Recorded(b, m, h, e), NEW j \in 1..Count(b, m), NEW v \in 1..Len(Layouts[b][j].vars)
  PROVE  LET k == KeyAt(b, j, v)
             c == Held(m, k)
         IN  /\ Places(k) = (e[j][v] + 3) .. (e[j][v] + 2 + Len(c))
             /\ Cardinality(Places(k)) = Len(c)
             /\ Places(k) # {} <=> Len(c) # 0
             /\ Places(k) # {} => BytesAt(Places(k)) = c
<1> DEFINE k == KeyAt(b, j, v)
           c == Held(m, k)
           a == e[j][v]
<1>1. /\ Sequence(c) /\ Len(c) \in Nat /\ \A i \in 1..Len(c) : c[i][1] = k
      /\ a \in Nat /\ a + 2 + Len(c) <= Len(written)
      /\ \A i \in 1..Len(c) : written[a + 2 + i] = Byte(c[i])
  <2>a. Sequence(c) /\ Len(c) \in Nat /\ a \in Nat
    BY EntryRecorded
  <2>b. \A i \in 1..Len(c) : c[i][1] = k
    <3>1. b \in DOMAIN Layouts /\ m \in Memories(b) /\ k \in Keys(b) \cup {Length}
      BY EntryRecorded DEF Recorded
    <3> HIDE DEF k
    <3> QED BY <3>1, HeldParts
  <2>c. \A i \in 1..Len(c) : written[a + 2 + i] = Byte(c[i])
    BY EntryRecorded
  <2>f. e[j][v + 1] = a + 2 + Len(c)
    BY EntryRecorded
  <2>g. e[j][v + 1] <= h[j + 1] /\ h[j + 1] <= Len(written)
    BY EntryRecorded
  <2>1. /\ Sequence(c) /\ Len(c) \in Nat /\ \A i \in 1..Len(c) : c[i][1] = k
        /\ \A i \in 1..Len(c) : written[a + 2 + i] = Byte(c[i])
        /\ a \in Nat /\ e[j][v + 1] = a + 2 + Len(c) /\ e[j][v + 1] <= h[j + 1] /\ h[j + 1] <= Len(written)
    BY <2>a, <2>b, <2>c, <2>f, <2>g
  <2>2. h[j + 1] \in Nat
    BY SectionRecorded
  <2>3. Len(written) \in Nat
    BY SequenceParts DEF Recorded, Laid
  <2>4. a + 2 + Len(c) <= Len(written)
    <3> HIDE DEF a, c
    <3> QED BY <2>1, <2>2, <2>3
  <2> QED BY <2>1, <2>4
<1>2. DOMAIN written = 1..Len(written) /\ Len(written) \in Nat /\ b \in DOMAIN Layouts
  BY SequenceParts DEF Recorded, Laid
<1>3. ASSUME NEW i \in Places(k) PROVE i \in (a + 3)..(a + 2 + Len(c))
  <2>1. \E p \in 1..Count(b, m) : \E w \in 1..Len(Layouts[b][p].vars) :
           k = KeyAt(b, p, w) /\ \E x \in 1..Len(Held(m, k)) : i = e[p][w] + 2 + x
    <3> HIDE DEF k
    <3> QED BY PlaceRecorded
  <2>2. PICK p \in 1..Count(b, m) : \E w \in 1..Len(Layouts[b][p].vars) :
           k = KeyAt(b, p, w) /\ \E x \in 1..Len(Held(m, k)) : i = e[p][w] + 2 + x
    BY <2>1
  <2>3. PICK w \in 1..Len(Layouts[b][p].vars) : k = KeyAt(b, p, w) /\ \E x \in 1..Len(Held(m, k)) : i = e[p][w] + 2 + x
    BY <2>2
  <2>7. p \in 1..Len(Layouts[b]) /\ j \in 1..Len(Layouts[b])
    BY SectionRecorded
  <2>8. p = j /\ w = v
    <3>1. KeyAt(b, p, w) = KeyAt(b, j, v)
      BY <2>3
    <3>2. b \in DOMAIN Layouts
      BY <1>2
    <3>3. w \in 1..Len(Layouts[b][p].vars) /\ v \in 1..Len(Layouts[b][j].vars)
      OBVIOUS
    <3> HIDE DEF k, c, a
    <3>4. KeyAt(b, p, w) = KeyAt(b, j, v) => p = j /\ w = v
      BY <2>7, <3>2, <3>3, KeysDiffer
    <3> QED BY <3>1, <3>4
  <2>4. PICK x \in 1..Len(c) : i = e[p][w] + 2 + x
    BY <2>3
  <2>9. x \in 1..Len(c) /\ i = a + 2 + x
    <3>1. e[p][w] = a
      BY <2>8
    <3> QED BY <2>4, <3>1
  <2> HIDE DEF a, c
  <2> QED BY <1>1, <2>9
<1>4. ASSUME NEW i \in (a + 3)..(a + 2 + Len(c))
      PROVE  i \in Places(k) /\ written[i].of = c[i - (a + 2)] /\ i - (a + 2) \in 1..Len(c)
  <2> DEFINE x == i - (a + 2)
  <2>0. k = k /\ Len(c) \in Nat /\ a \in Nat
    BY <1>1
  <2> HIDE DEF a, c, k
  <2>1. x \in 1..Len(c) /\ a + 2 + x = i /\ i \in 1..Len(written)
    <3>1. i \in Nat /\ a + 3 <= i /\ i <= a + 2 + Len(c)
      BY <2>0
    <3>2. i <= Len(written) /\ 1 <= i
      <4>1. a + 2 + Len(c) <= Len(written) /\ Len(written) \in Nat
        BY <1>1, <1>2
      <4> QED BY <2>0, <3>1, <4>1
    <3>3. x \in Nat /\ 1 <= x /\ x <= Len(c) /\ a + 2 + x = i
      BY <2>0, <3>1
    <3> QED BY <1>2, <3>1, <3>2, <3>3
  <2> HIDE DEF x
  <2>2. written[i] = Byte(c[x]) /\ c[x][1] = k
    <3>1. written[a + 2 + x] = Byte(c[x])
      BY <1>1, <2>1
    <3> QED BY <1>1, <2>1, <3>1
  <2>3. i \in Places(k) /\ written[i].of = c[x]
    BY <1>2, <2>1, <2>2 DEF Places, Byte
  <2> QED BY <2>1, <2>3 DEF x
<1>5. Places(k) = (a + 3)..(a + 2 + Len(c))
  <2> HIDE DEF a, c, k
  <2>1. Places(k) \subseteq (a + 3)..(a + 2 + Len(c))
    BY <1>3
  <2>2. (a + 3)..(a + 2 + Len(c)) \subseteq Places(k)
    BY <1>4
  <2> QED BY <2>1, <2>2
<1> HIDE DEF a, c, k
<1>6. Cardinality(Places(k)) = Len(c)
  <2>1. a + 3 \in Int /\ a + 2 + Len(c) \in Int
    BY <1>1
  <2>2. Cardinality((a + 3)..(a + 2 + Len(c))) = IF a + 3 > a + 2 + Len(c) THEN 0 ELSE (a + 2 + Len(c)) - (a + 3) + 1
    BY <2>1, FS_Interval
  <2>3. (IF a + 3 > a + 2 + Len(c) THEN 0 ELSE (a + 2 + Len(c)) - (a + 3) + 1) = Len(c)
    BY <1>1
  <2> QED BY <1>5, <2>2, <2>3
<1>7. Places(k) # {} <=> Len(c) # 0
  <2>1. CASE Len(c) = 0
    <3>1. (a + 3)..(a + 2 + Len(c)) = {}
      BY <1>1, <2>1
    <3> QED BY <1>5, <2>1, <3>1
  <2>2. CASE Len(c) # 0
    <3>1. a + 3 \in (a + 3)..(a + 2 + Len(c))
      BY <1>1, <2>2
    <3> QED BY <1>5, <2>2, <3>1
  <2> QED BY <2>1, <2>2
<1>8. ASSUME Places(k) # {} PROVE BytesAt(Places(k)) = c
  <2>1. Len(c) # 0
    BY <1>7, <1>8
  <2>2. Min(Places(k)) = a + 3
    <3>1. a + 3 \in Places(k) /\ \A i \in Places(k) : a + 3 <= i /\ i \in Int
      BY <1>1, <1>5, <2>1
    <3> DEFINE x == CHOOSE x \in Places(k) : \A y \in Places(k) : x <= y
    <3>2. x \in Places(k) /\ \A y \in Places(k) : x <= y
      BY <3>1
    <3>3. Min(Places(k)) = x
      BY DEF Min
    <3> HIDE DEF x
    <3>4. x <= a + 3 /\ a + 3 <= x /\ x \in Int
      BY <3>1, <3>2
    <3>5. x = a + 3
      BY <1>1, <3>4
    <3> QED BY <3>3, <3>5
  <2>3. BytesAt(Places(k)) = [i \in 1..Len(c) |-> written[(a + 3) + i - 1].of]
    BY <1>6, <2>2 DEF BytesAt
  <2>4. ASSUME NEW i \in 1..Len(c) PROVE written[(a + 3) + i - 1].of = c[i]
    <3> DEFINE x == (a + 3) + i - 1
    <3>1. x \in (a + 3)..(a + 2 + Len(c)) /\ x - (a + 2) = i
      BY <1>1
    <3> HIDE DEF x
    <3>2. written[x].of = c[x - (a + 2)]
      BY <1>4, <3>1
    <3> QED BY <3>1, <3>2 DEF x
  <2>5. c = [i \in 1..Len(c) |-> c[i]]
    BY <1>1, SequenceParts
  <2> QED BY <2>3, <2>4, <2>5
<1> QED BY <1>5, <1>6, <1>7, <1>8 DEF k, c, a

-----------------------------------------------------------------------------
(* What is known of a call under way, of the StateMem s. *)
Fields(s) == s = [mode |-> s.mode, data |-> s.data, loc |-> s.loc, todo |-> s.todo,
                  total |-> s.total, end |-> s.end, length |-> s.length]

Cut == /\ Sequence(stream) /\ Sequence(written) /\ Len(stream) <= Len(written)
       /\ \A i \in 1..Len(stream) : stream[i] = written[i]

(* The sections that are still to be looked for are the last ones of the list. *)
Done(s) == Len(Layouts[build]) - Len(s.todo)
Sought(s) == Layouts[build][Done(s) + 1].name
Listing(s) ==
  /\ s.data = stream /\ s.loc \in 1..Len(stream) /\ s.total \in Nat /\ s.end \in Nat
  /\ Sequence(s.todo) /\ Len(s.todo) <= Len(Layouts[build])
  /\ \A i \in 1..Len(s.todo) : s.todo[i] = Layouts[build][Done(s) + i]

(* Between two sections: the search began at section i and has passed none of the name sought. *)
AtSection(s, b, m, h) ==
  \E j \in 1..(Count(b, m) + 1) :
    /\ s.loc = h[j]
    /\ \E i \in 1..j : /\ s.loc - s.total = h[i]
                       /\ s.todo # <<>> => /\ stream = written => i = 1
                                           /\ \A x \in i..(j - 1) : Layouts[b][x].name # Sought(s)

(* Between two variables of the section sought. *)
AtVariable(s, b, m, h, e) ==
  \E j \in 1..Count(b, m) :
    /\ Layouts[b][j].name = Sought(s) /\ s.end = h[j + 1]
    /\ \E v \in 1..(Len(Layouts[b][j].vars) + 1) : s.loc = e[j][v]
    /\ \E i \in 1..j : s.end - s.total = h[i] /\ (stream = written => i = 1)

(* The state was cut off, and what is left of it is the rest of a variable. *)
OnlyBytes(s) ==
  /\ stream # written /\ \A i \in (s.loc + 1)..Len(stream) : stream[i].cell = "byte"
  /\ s.loc < Len(stream) => CutInside

Position(s, b, m, h, e) ==
  \/ s.mode = "find" /\ (AtSection(s, b, m, h) \/ (OnlyBytes(s) /\ s.total = 0))
  \/ s.mode = "read" /\ s.todo # <<>> /\ (AtVariable(s, b, m, h, e) \/ (OnlyBytes(s) /\ s.loc < s.end))

Loads(s, b, m, h, e) ==
  build \in DOMAIN Layouts /\ Cut /\ Recorded(b, m, h, e) /\ Fields(s) /\ Listing(s) /\ Position(s, b, m, h, e)

LEMMA EndRecorded ==
  ASSUME NEW b, NEW m, NEW h, NEW e, Recorded(b, m, h, e)
  PROVE  /\ b \in DOMAIN Layouts /\ m \in Memories(b) /\ Count(b, m) \in Nat /\ Count(b, m) <= Len(Layouts[b])
         /\ Sequence(written) /\ Len(written) \in Nat
         /\ h[1] = 1 /\ h[Count(b, m) + 1] = Len(written) /\ \A j \in 1..(Count(b, m) + 1) : h[j] \in Nat
BY CountParts, SequenceParts DEF Recorded, Laid

LEMMA NextSectionIs ==
  ASSUME NEW l, Fields(st), NextSection(l)
  PROVE  /\ Fields(st') /\ st'.mode = "find" /\ st'.data = st.data /\ st'.loc = l /\ st'.todo = Tail(st.todo)
         /\ st'.total = 0 /\ st'.end = 0 /\ st'.length = st.length
BY DEF Fields, NextSection

(* The section sought is the first of those that are left. *)
LEMMA SectionSought ==
  ASSUME build \in DOMAIN Layouts, NEW s, Listing(s), s.todo # <<>>
  PROVE  /\ Len(s.todo) \in Nat \ {0} /\ Done(s) \in Nat /\ Done(s) + 1 \in 1..Len(Layouts[build])
         /\ Head(s.todo) = Layouts[build][Done(s) + 1] /\ Head(s.todo).name = Sought(s)
<1>1. Len(s.todo) \in Nat /\ Len(s.todo) # 0 /\ Len(s.todo) <= Len(Layouts[build]) /\ Len(Layouts[build]) \in Nat
  BY SequenceParts, LayoutParts DEF Listing
<1>2. 1 \in 1..Len(s.todo)
  BY <1>1
<1>3. s.todo[1] = Layouts[build][Done(s) + 1]
  BY <1>2 DEF Listing
<1>4. Head(s.todo) = s.todo[1]
  BY DEF Listing, Sequence
<1>5. Done(s) \in Nat /\ Done(s) + 1 \in 1..Len(Layouts[build])
  BY <1>1 DEF Done
<1> QED BY <1>1, <1>3, <1>4, <1>5 DEF Sought

LEMMA RestOfList ==
  ASSUME build \in DOMAIN Layouts, NEW s, NEW t, Listing(s), s.todo # <<>>, t.todo = Tail(s.todo), t.data = s.data,
         t.loc \in 1..Len(stream), t.total \in Nat, t.end \in Nat
  PROVE  Listing(t) /\ Done(t) = Done(s) + 1
<1>1. PICK S : s.todo \in Seq(S)
  BY Zenon DEF Listing, Sequence
<1>2. Len(s.todo) \in Nat \ {0} /\ Len(s.todo) <= Len(Layouts[build]) /\ Len(Layouts[build]) \in Nat
  BY SectionSought, LayoutParts DEF Listing
<1> DEFINE x == s.todo
           y == t.todo
<1>3. y \in Seq(S) /\ Len(y) = Len(x) - 1 /\ \A i \in 1..Len(y) : y[i] = x[i + 1]
  BY <1>1, <1>2
<1> HIDE DEF x, y
<1>4. Done(t) = Done(s) + 1 /\ Done(s) \in Int
  <2>1. Len(x) \in Nat /\ Len(y) = Len(x) - 1 /\ Len(Layouts[build]) \in Nat
    BY <1>2, <1>3 DEF x
  <2> HIDE DEF x, y
  <2>2. Len(Layouts[build]) - Len(y) = (Len(Layouts[build]) - Len(x)) + 1
    BY <2>1
  <2>3. Done(s) = Len(Layouts[build]) - Len(x) /\ Done(t) = Len(Layouts[build]) - Len(y)
    BY DEF Done, x, y
  <2> QED BY <2>1, <2>2, <2>3
<1>5. ASSUME NEW i \in 1..Len(y) PROVE y[i] = Layouts[build][Done(t) + i]
  <2> DEFINE n == i + 1
  <2>0. Len(x) \in Nat /\ Len(y) = Len(x) - 1
    BY <1>2, <1>3 DEF x
  <2>1. n \in 1..Len(x) /\ Done(s) + n = Done(t) + i
    <3>1. i \in Nat /\ 1 <= i /\ i <= Len(x) - 1
      BY <2>0
    <3>2. n \in 1..Len(x)
      BY <2>0, <3>1
    <3>3. Done(s) + n = Done(t) + i
      BY <1>4, <3>1
    <3> QED BY <3>2, <3>3
  <2>2. y[i] = x[n]
    BY <1>3
  <2> HIDE DEF n
  <2>3. x[n] = Layouts[build][Done(s) + n]
    BY <2>1 DEF Listing, x
  <2> QED BY <2>1, <2>2, <2>3
<1>6. Sequence(y) /\ Len(y) <= Len(Layouts[build])
  BY <1>2, <1>3 DEF Sequence, x
<1>7. t.data = stream
  BY DEF Listing
<1> QED BY <1>4, <1>5, <1>6, <1>7 DEF Listing, y

(* What a search finds: the head of a section, or no more of the state. *)
LEMMA HeadFound ==
  ASSUME NEW b, NEW m, NEW h, NEW e, Recorded(b, m, h, e), Cut, NEW s, Listing(s), NEW j \in 1..(Count(b, m) + 1), s.loc = h[j],
         Len(stream) - s.loc > 0
  PROVE  /\ j \in 1..Count(b, m) /\ j + 1 \in 1..(Count(b, m) + 1)
         /\ stream[s.loc + 1] = Name(Layouts[b][j].name)
         /\ Len(stream) - s.loc > 1 => stream[s.loc + 2] = Number(h[j + 1] - (s.loc + 2))
         /\ h[j + 1] \in Nat /\ s.loc + 2 <= h[j + 1] /\ e[j][1] = s.loc + 2
<1>1. /\ Count(b, m) \in Nat /\ Len(written) \in Nat /\ h[Count(b, m) + 1] = Len(written)
      /\ s.loc \in 1..Len(stream) /\ Len(stream) \in Nat /\ Len(stream) <= Len(written)
  BY EndRecorded, SequenceParts DEF Cut, Listing
<1>2. j # Count(b, m) + 1
  BY <1>1
<1>3. j \in 1..Count(b, m) /\ j + 1 \in 1..(Count(b, m) + 1)
  BY <1>1, <1>2
<1>a. /\ written[h[j] + 1] = Name(Layouts[b][j].name)
      /\ written[h[j] + 2] = Number(h[j + 1] - (h[j] + 2))
  BY <1>3, SectionRecorded
<1>4. /\ written[h[j] + 1] = Name(Layouts[b][j].name)
      /\ written[h[j] + 2] = Number(h[j + 1] - (h[j] + 2))
      /\ h[j + 1] \in Nat /\ h[j] + 2 <= h[j + 1] /\ e[j][1] = h[j] + 2
  BY <1>3, <1>a, SectionRecorded
<1>5. s.loc + 1 \in 1..Len(stream) /\ (Len(stream) - s.loc > 1 => s.loc + 2 \in 1..Len(stream))
  BY <1>1
<1>6. stream[s.loc + 1] = written[s.loc + 1]
  BY <1>5 DEF Cut
<1>7. Len(stream) - s.loc > 1 => stream[s.loc + 2] = written[s.loc + 2]
  BY <1>5 DEF Cut
<1> QED BY <1>3, <1>4, <1>6, <1>7

-----------------------------------------------------------------------------
(* Steps between sections. *)
Keeps == UNCHANGED <<build, stream, written>>

LEMMA LoadsOn ==
  ASSUME NEW b, NEW m, NEW h, NEW e, Loads(st, b, m, h, e), Keeps, Fields(st'), Listing(st'), Position(st', b, m, h, e)
  PROVE  Loads(st, b, m, h, e)'
<1>1. build \in DOMAIN Layouts /\ Cut /\ Recorded(b, m, h, e) /\ build' = build /\ stream' = stream /\ written' = written
  BY DEF Loads, Keeps
<1>2. (build \in DOMAIN Layouts)' /\ Cut' /\ Recorded(b, m, h, e)' /\ Fields(st)'
  BY <1>1 DEF Cut, Recorded, Fields
<1>3. Done(st)' = Done(st') /\ Sought(st)' = Sought(st')
  BY <1>1 DEF Done, Sought
<1>4. Listing(st)'
  BY <1>1, <1>3 DEF Listing
<1>5. Position(st, b, m, h, e)'
  BY <1>1, <1>3 DEF Position, AtSection, AtVariable, OnlyBytes, CutInside
<1> QED BY <1>2, <1>4, <1>5 DEF Loads

LEMMA NextAtSection ==
  ASSUME NEW b, NEW m, NEW h, NEW e, Loads(st, b, m, h, e), Keeps, st.todo # <<>>, NEW j \in 1..(Count(b, m) + 1), NEW l,
         l = h[j], l <= Len(stream), l >= 1, NextSection(l), stream = written /\ Tail(st.todo) # <<>> => j = 1
  PROVE  Loads(st, b, m, h, e)'
<1>1. Recorded(b, m, h, e) /\ Listing(st) /\ Fields(st) /\ build \in DOMAIN Layouts /\ Cut
  BY DEF Loads
<1>2. /\ Fields(st') /\ st'.mode = "find" /\ st'.data = st.data /\ st'.loc = l /\ st'.todo = Tail(st.todo)
      /\ st'.total = 0 /\ st'.end = 0
  BY <1>1, NextSectionIs
<1>3. Count(b, m) \in Nat /\ l \in Nat
  BY <1>1, EndRecorded
<1>4. l \in 1..Len(stream)
  <2>1. Len(stream) \in Nat
    BY <1>1, SequenceParts DEF Cut
  <2> QED BY <1>3, <2>1
<1>5. Listing(st')
  BY <1>1, <1>2, <1>4, RestOfList
<1>6. AtSection(st', b, m, h)
  <2>1. j \in 1..j /\ j..(j - 1) = {} /\ st'.loc = h[j] /\ st'.loc - st'.total = h[j]
    BY <1>2, <1>3
  <2>2. st'.todo # <<>> => (stream = written => j = 1)
    BY <1>2
  <2>3. /\ st'.loc - st'.total = h[j]
        /\ st'.todo # <<>> => /\ stream = written => j = 1
                              /\ \A x \in j..(j - 1) : Layouts[b][x].name # Sought(st')
    BY <2>1, <2>2
  <2> QED BY <2>1, <2>3, Zenon DEF AtSection
<1>7. Position(st', b, m, h, e)
  BY <1>2, <1>6 DEF Position
<1> QED BY <1>2, <1>5, <1>7, LoadsOn

LEMMA NextBroken ==
  ASSUME NEW b, NEW m, NEW h, NEW e, Loads(st, b, m, h, e), Keeps, st.todo # <<>>, NEW l \in 1..Len(stream),
         stream # written, \A i \in (l + 1)..Len(stream) : stream[i].cell = "byte", l < Len(stream) => CutInside,
         NextSection(l)
  PROVE  Loads(st, b, m, h, e)'
<1>1. Listing(st) /\ Fields(st) /\ build \in DOMAIN Layouts
  BY DEF Loads
<1>2. /\ Fields(st') /\ st'.mode = "find" /\ st'.data = st.data /\ st'.loc = l /\ st'.todo = Tail(st.todo)
      /\ st'.total = 0 /\ st'.end = 0
  BY <1>1, NextSectionIs
<1>3. Listing(st')
  BY <1>1, <1>2, RestOfList
<1>4. OnlyBytes(st')
  BY <1>2 DEF OnlyBytes
<1>5. Position(st', b, m, h, e)
  BY <1>2, <1>4 DEF Position
<1> QED BY <1>2, <1>3, <1>5, LoadsOn

(* The image is looked for last. *)
LEMMA FlashIsLast ==
  ASSUME build \in DOMAIN Layouts, Listing(st), st.todo # <<>>, Section.name = Flash[1]
  PROVE  Done(st) + 1 = Len(Layouts[build]) /\ Tail(st.todo) = <<>>
<1>1. /\ Len(st.todo) \in Nat \ {0} /\ Done(st) + 1 \in 1..Len(Layouts[build]) /\ Done(st) \in Nat
      /\ Section = Layouts[build][Done(st) + 1]
  BY SectionSought DEF Section
<1>2. \A j \in 1..Len(Layouts[build]) : Layouts[build][j].name = Flash[1] => j = Len(Layouts[build])
  BY FlashSections
<1>3. Done(st) + 1 = Len(Layouts[build])
  BY <1>1, <1>2
<1>4. Len(st.todo) = 1
  <2>1. Len(Layouts[build]) \in Nat
    BY LayoutParts
  <2> DEFINE x == Len(st.todo)
             y == Len(Layouts[build])
             w == Done(st)
  <2>2. x \in Nat /\ y \in Nat /\ w = y - x /\ w + 1 = y
    BY <1>1, <1>3, <2>1 DEF Done
  <2> HIDE DEF x, y, w
  <2>3. x = 1
    BY <2>2
  <2> QED BY <2>3 DEF x
<1>5. PICK S : st.todo \in Seq(S)
  BY Zenon DEF Listing, Sequence
<1>6. Tail(st.todo) \in Seq(S) /\ Len(Tail(st.todo)) = 0
  BY <1>4, <1>5
<1>7. Tail(st.todo) = <<>>
  BY <1>6, EmptySeq
<1> QED BY <1>3, <1>7

LEMMA SkipFlashStep ==
  ASSUME NEW b, NEW m, NEW h, NEW e, Loads(st, b, m, h, e), SkipFlash
  PROVE  Loads(st, b, m, h, e)'
<1>1. /\ build \in DOMAIN Layouts /\ Listing(st) /\ st.todo # <<>> /\ Section.name = Flash[1] /\ st.mode = "find"
      /\ NextSection(st.loc) /\ Keeps /\ Position(st, b, m, h, e)
  BY DEF Loads, SkipFlash, Finding, Keeps
<1>2. Tail(st.todo) = <<>>
  BY <1>1, FlashIsLast
<1>3. st.loc \in 1..Len(stream)
  BY <1>1 DEF Listing
<1>4. CASE AtSection(st, b, m, h)
  <2>1. PICK j \in 1..(Count(b, m) + 1) : st.loc = h[j]
    BY <1>4 DEF AtSection
  <2> QED BY <1>1, <1>2, <1>3, <2>1, NextAtSection
<1>5. CASE OnlyBytes(st)
  BY <1>1, <1>3, <1>5, NextBroken DEF OnlyBytes
<1> QED BY <1>1, <1>4, <1>5 DEF Position

LEMMA LooksParts ==
  ASSUME NEW b, NEW m, NEW h, NEW e, Loads(st, b, m, h, e), Looks
  PROVE  /\ build \in DOMAIN Layouts /\ Cut /\ Recorded(b, m, h, e) /\ Fields(st) /\ Listing(st)
         /\ Keeps /\ st.todo # <<>> /\ st.mode = "find" /\ st.data = stream /\ st.loc \in 1..Len(stream)
         /\ Len(stream) \in Nat /\ Len(written) \in Nat /\ Len(stream) <= Len(written) /\ st.total \in Nat
         /\ AtSection(st, b, m, h) \/ (OnlyBytes(st) /\ st.total = 0)
BY SequenceParts DEF Loads, Looks, Finding, Keeps, Position, Listing, Cut

LEMMA NotFoundStep ==
  ASSUME NEW b, NEW m, NEW h, NEW e, Loads(st, b, m, h, e), NotFound
  PROVE  Loads(st, b, m, h, e)'
<1>1. Looks /\ Left = 0 /\ NextSection(st.loc - st.total)
  BY DEF NotFound
<1>2. /\ Recorded(b, m, h, e) /\ Keeps /\ st.todo # <<>> /\ st.loc \in 1..Len(stream) /\ st.total \in Nat
      /\ Len(stream) \in Nat /\ (AtSection(st, b, m, h) \/ (OnlyBytes(st) /\ st.total = 0))
  BY <1>1, LooksParts
<1>3. CASE AtSection(st, b, m, h)
  <2>1. PICK j \in 1..(Count(b, m) + 1) : \E i \in 1..j : st.loc - st.total = h[i] /\ (stream = written => i = 1)
    BY <1>2, <1>3, Zenon DEF AtSection
  <2>2. PICK i \in 1..j : st.loc - st.total = h[i] /\ (stream = written => i = 1)
    BY <2>1
  <2>3. i \in 1..(Count(b, m) + 1) /\ h[i] \in Nat
    BY <1>2, EndRecorded
  <2>4. h[i] >= 1 /\ h[i] <= Len(stream)
    <3>1. h[i] >= 1
      <4>1. CASE i \in 1..Count(b, m)
        BY <1>2, <4>1, SectionRecorded
      <4>2. CASE i = Count(b, m) + 1
        <5>1. h[i] = Len(written) /\ Len(stream) <= Len(written) /\ Len(written) \in Nat
          BY <1>1, <1>2, <4>2, EndRecorded, LooksParts
        <5> QED BY <1>2, <5>1
      <4> QED BY <1>2, <2>3, <4>1, <4>2, EndRecorded
    <3>2. h[i] <= st.loc
      BY <1>2, <2>2
    <3> QED BY <1>2, <2>3, <3>1, <3>2
  <2> DEFINE l == st.loc - st.total
  <2>5. l = h[i] /\ l >= 1 /\ l <= Len(stream) /\ NextSection(l) /\ (stream = written => i = 1)
    BY <1>1, <2>2, <2>4
  <2> HIDE DEF l
  <2> QED BY <1>2, <2>3, <2>5, NextAtSection
<1>4. CASE OnlyBytes(st) /\ st.total = 0
  <2>1. st.loc - st.total = st.loc
    BY <1>2, <1>4
  <2>2. NextSection(st.loc)
    BY <1>1, <2>1
  <2> QED BY <1>2, <1>4, <2>2, NextBroken DEF OnlyBytes
<1> QED BY <1>2, <1>3, <1>4

LEMMA BrokenHeadStep ==
  ASSUME NEW b, NEW m, NEW h, NEW e, Loads(st, b, m, h, e), BrokenHead
  PROVE  Loads(st, b, m, h, e)'
<1>1. Looks /\ Left = 1 /\ NextSection(Len(st.data))
  BY DEF BrokenHead
<1>2. /\ Recorded(b, m, h, e) /\ Keeps /\ st.todo # <<>> /\ st.loc \in 1..Len(stream) /\ st.data = stream
      /\ Len(stream) \in Nat /\ Len(written) \in Nat /\ Len(stream) <= Len(written) /\ Cut /\ Listing(st)
      /\ AtSection(st, b, m, h) \/ (OnlyBytes(st) /\ st.total = 0)
  BY <1>1, LooksParts
<1>3. Len(stream) - st.loc > 0 /\ Left = Len(stream) - st.loc /\ Next1 = stream[st.loc + 1]
  BY <1>1, <1>2 DEF Left, Next1
<1>6. Len(stream) \in 1..Len(stream) /\ NextSection(Len(stream))
      /\ \A i \in (Len(stream) + 1)..Len(stream) : stream[i].cell = "byte"
  BY <1>1, <1>2
<1>7. ~(Len(stream) < Len(stream))
  BY <1>2
<1>4. CASE OnlyBytes(st)
  <2>1. stream # written
    BY <1>4 DEF OnlyBytes
  <2> QED BY <1>2, <1>6, <1>7, <2>1, NextBroken
<1>5. CASE AtSection(st, b, m, h)
  <2>1. PICK j \in 1..(Count(b, m) + 1) : st.loc = h[j]
    BY <1>5 DEF AtSection
  <2>2. /\ stream[st.loc + 1] = Name(Layouts[b][j].name) /\ j \in 1..Count(b, m)
        /\ h[j + 1] \in Nat /\ st.loc + 2 <= h[j + 1]
    BY <1>2, <1>3, <2>1, HeadFound
  <2>5. stream # written
    <3>1. h[j + 1] <= Len(written)
      BY <1>2, <2>2, SectionRecorded
    <3> QED BY <1>1, <1>2, <1>3, <2>2, <3>1
  <2> QED BY <1>2, <1>6, <1>7, <2>5, NextBroken
<1> QED BY <1>2, <1>4, <1>5

LEMMA AtHeadParts ==
  ASSUME NEW b, NEW m, NEW h, NEW e, Loads(st, b, m, h, e), AtHead
  PROVE  \E j \in 1..Count(b, m) :
           /\ st.loc = h[j] /\ j + 1 \in 1..(Count(b, m) + 1)
           /\ Next1.of = Layouts[b][j].name /\ st.loc + 2 + Next2.of = h[j + 1] /\ Next2.of \in Nat
           /\ h[j + 1] \in Nat /\ e[j][1] = st.loc + 2 /\ st.loc + 2 <= Len(stream) /\ st.loc + 2 <= h[j + 1]
           /\ \E i \in 1..j : /\ st.loc - st.total = h[i]
                              /\ stream = written => i = 1
                              /\ \A x \in i..(j - 1) : Layouts[b][x].name # Sought(st)
<1>1. Looks /\ Left > 1 /\ Next1.cell = "name"
  BY DEF AtHead
<1>2. /\ Recorded(b, m, h, e) /\ st.todo # <<>> /\ st.loc \in 1..Len(stream) /\ st.data = stream
      /\ Len(stream) \in Nat /\ Cut /\ Listing(st)
      /\ AtSection(st, b, m, h) \/ (OnlyBytes(st) /\ st.total = 0)
  BY <1>1, LooksParts
<1>3. Len(stream) - st.loc > 1 /\ Next1 = stream[st.loc + 1] /\ Next2 = stream[st.loc + 2]
  BY <1>1, <1>2 DEF Left, Next1, Next2
<1>4. ~OnlyBytes(st)
  <2>1. st.loc + 1 \in (st.loc + 1)..Len(stream)
    BY <1>2, <1>3
  <2> QED BY <1>1, <1>3, <2>1 DEF OnlyBytes
<1>5. PICK j \in 1..(Count(b, m) + 1) :
        /\ st.loc = h[j]
        /\ \E i \in 1..j : /\ st.loc - st.total = h[i]
                           /\ stream = written => i = 1
                           /\ \A x \in i..(j - 1) : Layouts[b][x].name # Sought(st)
  BY <1>2, <1>4, Zenon DEF AtSection
<1>6. Len(stream) - st.loc > 0
  BY <1>2, <1>3
<1>7. /\ j \in 1..Count(b, m) /\ j + 1 \in 1..(Count(b, m) + 1)
      /\ stream[st.loc + 1] = Name(Layouts[b][j].name)
      /\ stream[st.loc + 2] = Number(h[j + 1] - (st.loc + 2))
      /\ h[j + 1] \in Nat /\ st.loc + 2 <= h[j + 1] /\ e[j][1] = st.loc + 2
  BY <1>2, <1>3, <1>5, <1>6, HeadFound
<1>8. Next1.of = Layouts[b][j].name /\ Next2.of = h[j + 1] - (st.loc + 2)
  BY <1>3, <1>7 DEF Name, Number
<1>9. st.loc + 2 + Next2.of = h[j + 1] /\ Next2.of \in Nat /\ st.loc + 2 <= Len(stream)
  <2> DEFINE p == st.loc
             q == Len(stream)
             r == h[j + 1]
             n == Next2.of
  <2>1. p \in 1..q /\ q \in Nat /\ q - p > 1 /\ r \in Nat /\ p + 2 <= r /\ n = r - (p + 2)
    BY <1>2, <1>3, <1>7, <1>8
  <2> HIDE DEF p, q, r, n
  <2>2. p + 2 + n = r /\ n \in Nat /\ p + 2 <= q
    BY <2>1
  <2> QED BY <2>2 DEF p, q, r, n
<1> QED BY <1>5, <1>7, <1>8, <1>9

LEMMA FoundStep ==
  ASSUME NEW b, NEW m, NEW h, NEW e, Loads(st, b, m, h, e), Found
  PROVE  Loads(st, b, m, h, e)'
<1>1. /\ AtHead /\ Next1.of = Section.name
      /\ st' = [st EXCEPT !.mode = "read", !.loc = @ + 2, !.end = st.loc + 2 + Next2.of, !.total = @ + 2 + Next2.of]
  BY DEF Found
<1>2. /\ Recorded(b, m, h, e) /\ Keeps /\ st.todo # <<>> /\ st.loc \in 1..Len(stream) /\ Fields(st) /\ Listing(st)
      /\ build \in DOMAIN Layouts /\ Len(stream) \in Nat /\ st.total \in Nat
  BY <1>1, LooksParts DEF AtHead
<1>3. PICK j \in 1..Count(b, m) :
           /\ st.loc = h[j] /\ j + 1 \in 1..(Count(b, m) + 1)
           /\ Next1.of = Layouts[b][j].name /\ st.loc + 2 + Next2.of = h[j + 1] /\ Next2.of \in Nat
           /\ h[j + 1] \in Nat /\ e[j][1] = st.loc + 2 /\ st.loc + 2 <= Len(stream)
           /\ \E i \in 1..j : st.loc - st.total = h[i] /\ (stream = written => i = 1)
  BY <1>1, AtHeadParts
<1>4. /\ Fields(st') /\ st'.mode = "read" /\ st'.loc = st.loc + 2 /\ st'.end = h[j + 1] /\ st'.total = st.total + 2 + Next2.of
      /\ st'.todo = st.todo /\ st'.data = st.data
  BY <1>1, <1>2, <1>3 DEF Fields
<1>5. Listing(st') /\ Sought(st') = Sought(st)
  <2>1. st'.loc \in 1..Len(stream) /\ st'.end \in Nat /\ st'.total \in Nat
    <3> DEFINE p == st.loc
               q == Len(stream)
               n == Next2.of
               t == st.total
    <3>1. p \in 1..q /\ q \in Nat /\ p + 2 <= q /\ n \in Nat /\ t \in Nat
      BY <1>2, <1>3
    <3>2. st'.loc = p + 2 /\ st'.end \in Nat /\ st'.total = t + 2 + n
      BY <1>3, <1>4
    <3> HIDE DEF p, q, n, t
    <3>3. p + 2 \in 1..q /\ t + 2 + n \in Nat
      BY <3>1
    <3> QED BY <3>2, <3>3 DEF q
  <2>2. Done(st') = Done(st)
    BY <1>4 DEF Done
  <2> QED BY <1>2, <1>4, <2>1, <2>2 DEF Listing, Sought
<1>6. Layouts[b][j].name = Sought(st')
  <2>1. Section.name = Sought(st)
    BY <1>2, SectionSought DEF Section
  <2> QED BY <1>1, <1>3, <1>5, <2>1
<1>7. \E i \in 1..j : st'.end - st'.total = h[i] /\ (stream = written => i = 1)
  <2>1. PICK i \in 1..j : st.loc - st.total = h[i] /\ (stream = written => i = 1)
    BY <1>3
  <2>2. st'.end - st'.total = st.loc - st.total
    <3> DEFINE a == st.loc
               t == st.total
               n == Next2.of
               z == h[j + 1]
    <3>1. a \in Nat /\ t \in Nat /\ n \in Nat /\ a + 2 + n = z /\ st'.end = z /\ st'.total = t + 2 + n
      BY <1>2, <1>3, <1>4
    <3> HIDE DEF a, t, n, z
    <3>2. z - (t + 2 + n) = a - t
      BY <3>1
    <3> QED BY <3>1, <3>2 DEF a, t
  <2> QED BY <2>1, <2>2
<1>8. \E v \in 1..(Len(Layouts[b][j].vars) + 1) : st'.loc = e[j][v]
  <2>1. Len(Layouts[b][j].vars) \in Nat
    BY <1>2, SectionRecorded
  <2>2. 1 \in 1..(Len(Layouts[b][j].vars) + 1)
    BY <2>1
  <2> QED BY <1>3, <1>4, <2>2
<1>9. AtVariable(st', b, m, h, e)
  BY <1>4, <1>6, <1>7, <1>8, Zenon DEF AtVariable
<1>10. Position(st', b, m, h, e)
  <2>1. st'.mode = "read" /\ st'.todo # <<>>
    BY <1>2, <1>4
  <2> QED BY <1>9, <2>1 DEF Position
<1> QED BY <1>2, <1>4, <1>5, <1>10, LoadsOn

LEMMA OtherSectionStep ==
  ASSUME NEW b, NEW m, NEW h, NEW e, Loads(st, b, m, h, e), OtherSection
  PROVE  Loads(st, b, m, h, e)'
<1> DEFINE l == st.loc + 2 + Next2.of
<1>1. /\ AtHead /\ Next1.of # Section.name
      /\ IF Beyond(l) THEN NextSection(SeekTo(l)) ELSE st' = [st EXCEPT !.loc = l, !.total = @ + 2 + Next2.of]
  BY DEF OtherSection
<1>2. /\ Recorded(b, m, h, e) /\ Keeps /\ st.todo # <<>> /\ st.loc \in 1..Len(stream) /\ Fields(st) /\ Listing(st) /\ st.mode = "find"
      /\ build \in DOMAIN Layouts /\ Len(stream) \in Nat /\ Len(written) \in Nat /\ st.total \in Nat /\ st.data = stream
  BY <1>1, LooksParts DEF AtHead
<1>3. PICK j \in 1..Count(b, m) :
           /\ st.loc = h[j] /\ j + 1 \in 1..(Count(b, m) + 1)
           /\ Next1.of = Layouts[b][j].name /\ l = h[j + 1] /\ Next2.of \in Nat
           /\ h[j + 1] \in Nat /\ st.loc + 2 <= h[j + 1]
           /\ \E i \in 1..j : /\ st.loc - st.total = h[i]
                              /\ stream = written => i = 1
                              /\ \A x \in i..(j - 1) : Layouts[b][x].name # Sought(st)
  BY <1>1, AtHeadParts
<1>4. Layouts[b][j].name # Sought(st)
  BY <1>1, <1>2, <1>3, SectionSought DEF Section
<1> HIDE DEF l
<1>5. CASE Beyond(l)
  <2>1. l > Len(stream) /\ NextSection(Len(stream))
    BY <1>1, <1>2, <1>5 DEF Beyond, SeekTo
  <2>2. stream # written
    <3>1. h[j + 1] <= Len(written)
      BY <1>2, SectionRecorded
    <3> QED BY <1>2, <1>3, <2>1, <3>1
  <2>3. /\ Len(stream) \in 1..Len(stream) /\ \A i \in (Len(stream) + 1)..Len(stream) : stream[i].cell = "byte"
        /\ ~(Len(stream) < Len(stream))
    BY <1>2
  <2> QED BY <1>2, <2>1, <2>2, <2>3, NextBroken
<1>6. CASE ~Beyond(l)
  <2>1. l <= Len(stream) /\ st' = [st EXCEPT !.loc = l, !.total = @ + 2 + Next2.of]
    BY <1>1, <1>2, <1>3, <1>6 DEF Beyond
  <2>2. /\ Fields(st') /\ st'.mode = "find" /\ st'.loc = l /\ st'.total = st.total + 2 + Next2.of
        /\ st'.todo = st.todo /\ st'.data = st.data /\ st'.end = st.end
    BY <1>2, <2>1 DEF Fields
  <2>3. Listing(st') /\ Sought(st') = Sought(st)
    <3>1. st'.loc \in 1..Len(stream) /\ st'.total \in Nat
      <4>1. l \in 1..Len(stream)
        BY <1>2, <1>3, <2>1
      <4>2. st.total \in Nat /\ Next2.of \in Nat
        BY <1>2, <1>3
      <4> QED BY <2>2, <4>1, <4>2
    <3>2. Done(st') = Done(st)
      BY <2>2 DEF Done
    <3> QED BY <1>2, <2>2, <3>1, <3>2 DEF Listing, Sought
  <2>4. PICK i \in 1..j : /\ st.loc - st.total = h[i]
                          /\ stream = written => i = 1
                          /\ \A x \in i..(j - 1) : Layouts[b][x].name # Sought(st)
    BY <1>3
  <2>5. st'.loc - st'.total = h[i]
    <3> DEFINE a == st.loc
               t == st.total
               n == Next2.of
    <3>1. a \in Nat /\ t \in Nat /\ n \in Nat /\ l = a + 2 + n /\ st'.loc = l /\ st'.total = t + 2 + n /\ a - t = h[i]
      BY <1>2, <1>3, <2>2, <2>4 DEF l
    <3> HIDE DEF a, t, n
    <3>2. (a + 2 + n) - (t + 2 + n) = a - t
      BY <3>1
    <3> QED BY <3>1, <3>2
  <2>6. i \in 1..(j + 1) /\ Count(b, m) \in Nat
    BY <1>2, EndRecorded
  <2>7. \A x \in i..((j + 1) - 1) : Layouts[b][x].name # Sought(st')
    <3> SUFFICES ASSUME NEW x \in i..((j + 1) - 1) PROVE Layouts[b][x].name # Sought(st')
      OBVIOUS
    <3>1. x = j \/ x \in i..(j - 1)
      BY <2>6
    <3> QED BY <1>4, <2>3, <2>4, <3>1
  <2> DEFINE k == j + 1
  <2>8. /\ k \in 1..(Count(b, m) + 1) /\ st'.loc = h[k] /\ i \in 1..k /\ st'.loc - st'.total = h[i]
        /\ \A x \in i..(k - 1) : Layouts[b][x].name # Sought(st')
    BY <1>3, <2>2, <2>5, <2>6, <2>7
  <2> HIDE DEF k
  <2>9. AtSection(st', b, m, h)
    BY <2>4, <2>8, Zenon DEF AtSection
  <2>10. Position(st', b, m, h, e)
    <3>1. st'.mode = "find"
      BY <2>2
    <3> QED BY <2>9, <3>1 DEF Position
  <2> QED BY <1>2, <2>2, <2>3, <2>10, LoadsOn
<1> QED BY <1>5, <1>6

-----------------------------------------------------------------------------
(* Steps within a section. *)
LEMMA ReadingParts ==
  ASSUME NEW b, NEW m, NEW h, NEW e, Loads(st, b, m, h, e), st.mode = "read", UNCHANGED <<build, stream, written, before>>
  PROVE  /\ build \in DOMAIN Layouts /\ Cut /\ Recorded(b, m, h, e) /\ Fields(st) /\ Listing(st)
         /\ Keeps /\ st.todo # <<>> /\ st.data = stream /\ st.loc \in 1..Len(stream) /\ st.end \in Nat
         /\ Len(stream) \in Nat /\ Len(written) \in Nat /\ Len(stream) <= Len(written) /\ st.total \in Nat
         /\ AtVariable(st, b, m, h, e) \/ (OnlyBytes(st) /\ st.loc < st.end)
         /\ Left = Len(stream) - st.loc /\ Next1 = stream[st.loc + 1] /\ Next2 = stream[st.loc + 2]
         /\ Section.name = Sought(st)
<1>1. /\ build \in DOMAIN Layouts /\ Cut /\ Recorded(b, m, h, e) /\ Fields(st) /\ Listing(st)
      /\ Keeps /\ st.todo # <<>> /\ st.data = stream /\ st.loc \in 1..Len(stream) /\ st.end \in Nat
      /\ Len(stream) \in Nat /\ Len(written) \in Nat /\ Len(stream) <= Len(written) /\ st.total \in Nat
      /\ AtVariable(st, b, m, h, e) \/ (OnlyBytes(st) /\ st.loc < st.end)
  BY SequenceParts DEF Loads, Keeps, Position, Listing, Cut
<1>2. Section.name = Sought(st)
  BY <1>1, SectionSought DEF Section
<1> QED BY <1>1, <1>2 DEF Left, Next1, Next2

(* The next variable is the v-th of section j. *)
Here(b, m, h, e, j, v) ==
  LET c == Held(m, KeyAt(b, j, v))
  IN  /\ st.loc = e[j][v] /\ st.end = h[j + 1] /\ Layouts[b][j].name = Sought(st)
      /\ \E i \in 1..j : st.end - st.total = h[i] /\ (stream = written => i = 1)
      /\ Len(c) \in Nat /\ e[j][v + 1] = st.loc + 2 + Len(c) /\ e[j][v + 1] <= st.end /\ h[j + 1] <= Len(written)
      /\ Left > 0 => Next1 = Name(Layouts[b][j].vars[v].name)
      /\ Left > 1 => Next2 = Number(Len(c))
      /\ \A i \in 1..Len(c) : st.loc + 2 + i <= Len(stream) => stream[st.loc + 2 + i] = Byte(c[i])

LEMMA VariableHere ==
  ASSUME NEW b, NEW m, NEW h, NEW e, Loads(st, b, m, h, e), Reading, AtVariable(st, b, m, h, e)
  PROVE  \E j \in 1..Count(b, m) : \E v \in 1..Len(Layouts[b][j].vars) : Here(b, m, h, e, j, v)
<1>1. /\ Recorded(b, m, h, e) /\ Cut /\ st.loc \in 1..Len(stream) /\ Len(stream) \in Nat
      /\ Left = Len(stream) - st.loc /\ Next1 = stream[st.loc + 1] /\ Next2 = stream[st.loc + 2]
      /\ st.loc < st.end
  BY ReadingParts DEF Reading
<1>2. PICK j \in 1..Count(b, m) :
        /\ Layouts[b][j].name = Sought(st) /\ st.end = h[j + 1]
        /\ \E v \in 1..(Len(Layouts[b][j].vars) + 1) : st.loc = e[j][v]
        /\ \E i \in 1..j : st.end - st.total = h[i] /\ (stream = written => i = 1)
  BY Zenon DEF AtVariable
<1>3. PICK v \in 1..(Len(Layouts[b][j].vars) + 1) : st.loc = e[j][v]
  BY <1>2
<1>4. v \in 1..Len(Layouts[b][j].vars)
  <2>1. Len(Layouts[b][j].vars) \in Nat /\ e[j][Len(Layouts[b][j].vars) + 1] = h[j + 1] /\ h[j + 1] \in Nat
    BY <1>1, SectionRecorded
  <2>2. v # Len(Layouts[b][j].vars) + 1
    <3> SUFFICES ASSUME v = Len(Layouts[b][j].vars) + 1 PROVE FALSE
      OBVIOUS
    <3>1. st.loc = h[j + 1] /\ st.end = h[j + 1]
      BY <1>2, <1>3, <2>1
    <3> QED BY <1>1, <2>1, <3>1
  <2> QED BY <2>1, <2>2
<1> DEFINE k == KeyAt(b, j, v)
           c == Held(m, k)
<1>5. /\ Len(c) \in Nat /\ e[j][v] \in Nat /\ e[j][v + 1] = e[j][v] + 2 + Len(c)
      /\ e[j][v + 1] <= h[j + 1] /\ h[j + 1] <= Len(written)
  <2>3. Len(c) \in Nat /\ e[j][v] \in Nat
    BY <1>1, <1>4, EntryRecorded
  <2>4. e[j][v + 1] = e[j][v] + 2 + Len(c)
    BY <1>1, <1>4, EntryRecorded
  <2>1. Len(c) \in Nat /\ e[j][v] \in Nat /\ e[j][v + 1] = e[j][v] + 2 + Len(c)
    BY <2>3, <2>4
  <2>2. e[j][v + 1] <= h[j + 1] /\ h[j + 1] <= Len(written)
    BY <1>1, <1>4, EntryRecorded
  <2> QED BY <2>1, <2>2
<1>6. /\ written[e[j][v] + 1] = Name(k[2]) /\ written[e[j][v] + 2] = Number(Len(c))
  BY <1>1, <1>4, EntryRecorded
<1>7. \A i \in 1..Len(c) : written[e[j][v] + 2 + i] = Byte(c[i])
  <2>1. Recorded(b, m, h, e)
    BY <1>1
  <2> QED BY <2>1, <1>4, EntryRecorded
<1>8. k[2] = Layouts[b][j].vars[v].name
  BY DEF KeyAt
<1> HIDE DEF k, c
<1>9. \A i \in 1..Len(stream) : stream[i] = written[i]
  BY <1>1 DEF Cut
<1>10. Left > 0 => Next1 = Name(Layouts[b][j].vars[v].name)
  <2>1. Left > 0 => st.loc + 1 \in 1..Len(stream)
    BY <1>1
  <2> QED BY <1>1, <1>3, <1>6, <1>8, <1>9, <2>1
<1>11. Left > 1 => Next2 = Number(Len(c))
  <2>1. Left > 1 => st.loc + 2 \in 1..Len(stream)
    BY <1>1
  <2> QED BY <1>1, <1>3, <1>6, <1>9, <2>1
<1>12. ASSUME NEW i \in 1..Len(c), st.loc + 2 + i <= Len(stream) PROVE stream[st.loc + 2 + i] = Byte(c[i])
  <2> DEFINE x == st.loc + 2 + i
  <2>1. x \in 1..Len(stream)
    <3>1. st.loc \in Nat /\ Len(stream) \in Nat
      BY <1>1
    <3>2. i \in Nat /\ i >= 1
      BY <1>5
    <3> QED BY <1>12, <3>1, <3>2
  <2>2. written[x] = Byte(c[i])
    BY <1>3, <1>7
  <2> HIDE DEF x
  <2>3. stream[x] = Byte(c[i])
    BY <1>9, <2>1, <2>2
  <2> QED BY <2>3 DEF x
<1>13. Here(b, m, h, e, j, v)
  BY <1>2, <1>3, <1>5, <1>10, <1>11, <1>12 DEF Here, c, k
<1> QED BY <1>4, <1>13

LEMMA OnToNext ==
  ASSUME NEW b, NEW m, NEW h, NEW e, Loads(st, b, m, h, e), Reading, NEW j \in 1..Count(b, m), NEW v \in 1..Len(Layouts[b][j].vars),
         Here(b, m, h, e, j, v), e[j][v + 1] <= Len(stream), NEW length,
         st' = [st EXCEPT !.loc = e[j][v + 1], !.length = length]
  PROVE  Loads(st, b, m, h, e)'
<1>1. /\ Recorded(b, m, h, e) /\ Keeps /\ Fields(st) /\ Listing(st) /\ st.todo # <<>> /\ st.mode = "read"
      /\ st.loc \in 1..Len(stream) /\ Len(stream) \in Nat /\ st.end \in Nat /\ st.total \in Nat
  BY ReadingParts DEF Reading
<1> DEFINE l == e[j][v + 1]
<1>2. /\ st.end = h[j + 1] /\ Layouts[b][j].name = Sought(st)
      /\ \E i \in 1..j : st.end - st.total = h[i] /\ (stream = written => i = 1)
  BY DEF Here
<1>3. l \in 1..Len(stream)
  <2> DEFINE n == Len(Held(m, KeyAt(b, j, v)))
  <2>1. n \in Nat /\ l = st.loc + 2 + n
    BY DEF Here
  <2> HIDE DEF n, l
  <2>2. l <= Len(stream)
    BY DEF l
  <2> QED BY <1>1, <2>1, <2>2
<1>4. /\ Fields(st') /\ st'.mode = "read" /\ st'.loc = l /\ st'.end = st.end /\ st'.total = st.total
      /\ st'.todo = st.todo /\ st'.data = st.data
  BY <1>1 DEF Fields
<1> HIDE DEF l
<1>5. Listing(st') /\ Sought(st') = Sought(st)
  <2>1. Done(st') = Done(st)
    BY <1>4 DEF Done
  <2> QED BY <1>1, <1>3, <1>4, <2>1 DEF Listing, Sought
<1>6. \E w \in 1..(Len(Layouts[b][j].vars) + 1) : st'.loc = e[j][w]
  <2>1. Len(Layouts[b][j].vars) \in Nat
    BY <1>1, SectionRecorded
  <2>2. v + 1 \in 1..(Len(Layouts[b][j].vars) + 1)
    BY <2>1
  <2> QED BY <1>4, <2>2 DEF l
<1>7. AtVariable(st', b, m, h, e)
  <2>1. Layouts[b][j].name = Sought(st') /\ st'.end = h[j + 1]
    BY <1>2, <1>4, <1>5
  <2>2. \E i \in 1..j : st'.end - st'.total = h[i] /\ (stream = written => i = 1)
    BY <1>2, <1>4
  <2> QED BY <1>6, <2>1, <2>2, Zenon DEF AtVariable
<1>8. Position(st', b, m, h, e)
  <2>1. st'.mode = "read" /\ st'.todo # <<>>
    BY <1>1, <1>4
  <2> QED BY <1>7, <2>1 DEF Position
<1> QED BY <1>1, <1>4, <1>5, <1>8, LoadsOn

(* The state ends within a variable: what is left of it will be passed over. *)
LEMMA OnToRest ==
  ASSUME NEW b, NEW m, NEW h, NEW e, Loads(st, b, m, h, e), Reading, NEW l \in 1..Len(stream), l < st.end,
         stream # written, \A i \in (l + 1)..Len(stream) : stream[i].cell = "byte", l < Len(stream) => CutInside, NEW length,
         st' = [st EXCEPT !.loc = l, !.length = length]
  PROVE  Loads(st, b, m, h, e)'
<1>1. /\ Keeps /\ Fields(st) /\ Listing(st) /\ st.todo # <<>> /\ st.mode = "read"
  BY ReadingParts DEF Reading
<1>2. /\ Fields(st') /\ st'.mode = "read" /\ st'.loc = l /\ st'.end = st.end /\ st'.total = st.total
      /\ st'.todo = st.todo /\ st'.data = st.data
  BY <1>1 DEF Fields
<1>3. Listing(st')
  <2>1. Done(st') = Done(st)
    BY <1>2 DEF Done
  <2> QED BY <1>1, <1>2, <2>1 DEF Listing
<1>4. OnlyBytes(st') /\ st'.loc < st'.end
  BY <1>2 DEF OnlyBytes
<1>5. Position(st', b, m, h, e)
  <2>1. st'.mode = "read" /\ st'.todo # <<>>
    BY <1>1, <1>2
  <2> QED BY <1>4, <2>1 DEF Position
<1> QED BY <1>1, <1>2, <1>3, <1>5, LoadsOn

LEMMA AtName ==
  ASSUME NEW b, NEW m, NEW h, NEW e, Loads(st, b, m, h, e), Reading, Left > 0, Next1.cell = "name"
  PROVE  \E j \in 1..Count(b, m) : \E v \in 1..Len(Layouts[b][j].vars) : Here(b, m, h, e, j, v)
<1>1. /\ st.loc \in 1..Len(stream) /\ Len(stream) \in Nat /\ (AtVariable(st, b, m, h, e) \/ (OnlyBytes(st) /\ st.loc < st.end))
      /\ Left = Len(stream) - st.loc /\ Next1 = stream[st.loc + 1]
  BY ReadingParts DEF Reading
<1>2. ~OnlyBytes(st)
  <2>1. st.loc + 1 \in (st.loc + 1)..Len(stream)
    BY <1>1
  <2> QED BY <1>1, <2>1 DEF OnlyBytes
<1> QED BY <1>1, <1>2, VariableHere

LEMMA BrokenEntryStep ==
  ASSUME NEW b, NEW m, NEW h, NEW e, Loads(st, b, m, h, e), BrokenEntry
  PROVE  Loads(st, b, m, h, e)'
<1>1. Reading /\ Left = 0 /\ NextSection(st.loc)
  BY DEF BrokenEntry
<1>2. /\ Keeps /\ st.todo # <<>> /\ st.loc \in 1..Len(stream) /\ Len(stream) \in Nat /\ Len(written) \in Nat /\ st.data = stream
      /\ AtVariable(st, b, m, h, e) \/ (OnlyBytes(st) /\ st.loc < st.end)
      /\ Left = Len(stream) - st.loc /\ Recorded(b, m, h, e)
  BY <1>1, ReadingParts DEF Reading
<1>5. ~(st.loc < Len(stream))
  BY <1>1, <1>2
<1>3. CASE OnlyBytes(st)
  BY <1>1, <1>2, <1>3, NextBroken DEF OnlyBytes
<1>4. CASE AtVariable(st, b, m, h, e)
  <2>1. PICK j \in 1..Count(b, m) : \E v \in 1..Len(Layouts[b][j].vars) : Here(b, m, h, e, j, v)
    BY <1>1, <1>4, VariableHere
  <2>2. PICK v \in 1..Len(Layouts[b][j].vars) : Here(b, m, h, e, j, v)
    BY <2>1
  <2>5. stream # written
    <3> DEFINE n == Len(Held(m, KeyAt(b, j, v)))
               z == e[j][v + 1]
               y == h[j + 1]
    <3>1. n \in Nat /\ z = st.loc + 2 + n /\ z <= st.end /\ st.end = y /\ y <= Len(written)
      BY <2>2 DEF Here
    <3>2. y \in Nat
      BY <1>2, SectionRecorded
    <3> HIDE DEF n, z, y
    <3>3. st.loc = Len(stream)
      BY <1>1, <1>2
    <3>4. Len(stream) < Len(written)
      BY <1>2, <3>1, <3>2, <3>3
    <3> QED BY <1>2, <3>4
  <2>6. \A i \in (st.loc + 1)..Len(stream) : stream[i].cell = "byte"
    BY <1>1, <1>2
  <2> QED BY <1>1, <1>2, <1>5, <2>5, <2>6, NextBroken
<1> QED BY <1>2, <1>3, <1>4

(* The numbers of the place where the next variable is. *)
LEMMA HereNumbers ==
  ASSUME NEW b, NEW m, NEW h, NEW e, Loads(st, b, m, h, e), Reading, NEW j \in 1..Count(b, m), NEW v \in 1..Len(Layouts[b][j].vars),
         Here(b, m, h, e, j, v)
  PROVE  LET n == Len(Held(m, KeyAt(b, j, v)))
         IN  /\ n \in Nat /\ st.loc \in Nat /\ st.loc >= 1 /\ Len(stream) \in Nat /\ Len(written) \in Nat /\ st.end \in Nat
             /\ Left = Len(stream) - st.loc /\ e[j][v + 1] = st.loc + 2 + n /\ st.loc + 2 + n <= st.end
             /\ st.loc + 2 + n <= Len(written) /\ st.end <= Len(written)
<1> DEFINE n == Len(Held(m, KeyAt(b, j, v)))
           z == e[j][v + 1]
           y == h[j + 1]
<1>1. /\ st.loc \in 1..Len(stream) /\ Len(stream) \in Nat /\ Len(written) \in Nat
      /\ Left = Len(stream) - st.loc /\ Recorded(b, m, h, e) /\ st.end \in Nat
  BY ReadingParts DEF Reading
<1>2. n \in Nat /\ z = st.loc + 2 + n /\ z <= st.end /\ st.end = y /\ y <= Len(written)
  BY DEF Here
<1>3. y \in Nat
  BY <1>1, SectionRecorded
<1> HIDE DEF n, y, z
<1>4. st.loc \in Nat /\ st.loc >= 1 /\ st.loc + 2 + n <= st.end /\ st.loc + 2 + n <= Len(written) /\ st.end <= Len(written)
  BY <1>1, <1>2, <1>3
<1> QED BY <1>1, <1>2, <1>4 DEF n, z

LEMMA NoSizeStep ==
  ASSUME NEW b, NEW m, NEW h, NEW e, Loads(st, b, m, h, e), NoSize
  PROVE  Loads(st, b, m, h, e)'
<1>1. Reading /\ Left = 1 /\ Next1.cell = "name" /\ st' = [st EXCEPT !.loc = @ + 1]
  BY DEF NoSize
<1>2. PICK j \in 1..Count(b, m) : \E v \in 1..Len(Layouts[b][j].vars) : Here(b, m, h, e, j, v)
  BY <1>1, AtName
<1>3. PICK v \in 1..Len(Layouts[b][j].vars) : Here(b, m, h, e, j, v)
  BY <1>2
<1> DEFINE n == Len(Held(m, KeyAt(b, j, v)))
           l == st.loc + 1
<1>4. /\ n \in Nat /\ st.loc \in Nat /\ st.loc >= 1 /\ Len(stream) \in Nat /\ Len(written) \in Nat /\ st.end \in Nat
      /\ Left = Len(stream) - st.loc /\ st.loc + 2 + n <= st.end
      /\ st.loc + 2 + n <= Len(written)
  BY <1>1, <1>3, HereNumbers
<1> HIDE DEF n
<1>5. l = Len(stream) /\ l \in 1..Len(stream) /\ l < st.end /\ Len(stream) < Len(written)
  <2> DEFINE p == st.loc
             q == Len(stream)
             r == Len(written)
             t == st.end
  <2>1. n \in Nat /\ p \in Nat /\ q \in Nat /\ r \in Nat /\ t \in Nat /\ q - p = 1 /\ p + 2 + n <= t /\ p + 2 + n <= r
    BY <1>1, <1>4
  <2> HIDE DEF p, q, r, t
  <2>2. p + 1 = q /\ p + 1 \in 1..q /\ p + 1 < t /\ q < r
    BY <2>1
  <2> QED BY <2>2 DEF p, q, r, t
<1>6. stream # written
  BY <1>4, <1>5
<1>7. \A i \in (l + 1)..Len(stream) : stream[i].cell = "byte"
  BY <1>4, <1>5
<1>8. st' = [st EXCEPT !.loc = l, !.length = st.length]
  <2>1. Fields(st)
    BY DEF Loads
  <2> QED BY <1>1, <2>1 DEF Fields
<1>9. ~(l < Len(stream))
  BY <1>4, <1>5
<1> HIDE DEF l
<1> QED BY <1>1, <1>5, <1>6, <1>7, <1>8, <1>9, OnToRest

LEMMA PassOverStep ==
  ASSUME NEW b, NEW m, NEW h, NEW e, Loads(st, b, m, h, e), PassOver
  PROVE  Loads(st, b, m, h, e)'
<1> DEFINE l == st.loc + 2 + Next2.of
<1>1. /\ Reading /\ Left > 1 /\ Left > 0 /\ Next1.cell = "name"
      /\ IF Beyond(l) THEN NextSection(SeekTo(l)) ELSE st' = [st EXCEPT !.loc = l]
  <2>1. /\ Reading /\ Left > 1 /\ Next1.cell = "name"
        /\ IF Beyond(l) THEN NextSection(SeekTo(l)) ELSE st' = [st EXCEPT !.loc = l]
    BY DEF PassOver, AtEntry
  <2>2. Left \in Int
    <3>1. /\ st.loc \in 1..Len(stream) /\ Len(stream) \in Nat /\ Left = Len(stream) - st.loc
      BY <2>1, ReadingParts DEF Reading
    <3> QED BY <3>1
  <2> QED BY <2>1, <2>2
<1>2. PICK j \in 1..Count(b, m) : \E v \in 1..Len(Layouts[b][j].vars) : Here(b, m, h, e, j, v)
  BY <1>1, AtName
<1>3. PICK v \in 1..Len(Layouts[b][j].vars) : Here(b, m, h, e, j, v)
  BY <1>2
<1> DEFINE n == Len(Held(m, KeyAt(b, j, v)))
<1>4. /\ n \in Nat /\ st.loc \in Nat /\ st.loc >= 1 /\ Len(stream) \in Nat /\ Len(written) \in Nat /\ st.end \in Nat
      /\ Left = Len(stream) - st.loc /\ st.loc + 2 + n <= st.end /\ e[j][v + 1] = st.loc + 2 + n
      /\ st.loc + 2 + n <= Len(written)
  BY <1>1, <1>3, HereNumbers
<1>5. Next2 = Number(n)
  BY <1>1, <1>3 DEF Here
<1>6. Next2.of = n
  BY <1>5 DEF Number
<1>7. l = e[j][v + 1] /\ l \in Nat /\ l <= Len(written)
  <2> HIDE DEF n
  <2>1. l = st.loc + 2 + n
    BY <1>6
  <2> QED BY <1>4, <2>1
<1>8. st.data = stream /\ Keeps /\ st.todo # <<>> /\ Fields(st)
  BY <1>1, ReadingParts DEF Reading
<1> HIDE DEF l, n
<1>9. CASE Beyond(l)
  <2>1. l > Len(stream) /\ NextSection(Len(stream))
    BY <1>1, <1>8, <1>9 DEF Beyond, SeekTo
  <2>2. stream # written /\ Len(stream) \in 1..Len(stream) /\ \A i \in (Len(stream) + 1)..Len(stream) : stream[i].cell = "byte"
    <3>1. Len(stream) >= 1
      BY <1>1, <1>4
    <3> QED BY <1>4, <1>7, <2>1, <3>1
  <2>3. ~(Len(stream) < Len(stream))
    BY <1>4
  <2> QED BY <1>8, <2>1, <2>2, <2>3, NextBroken
<1>10. CASE ~Beyond(l)
  <2>1. l <= Len(stream) /\ st' = [st EXCEPT !.loc = l]
    BY <1>1, <1>4, <1>7, <1>8, <1>10 DEF Beyond
  <2>2. st' = [st EXCEPT !.loc = e[j][v + 1], !.length = st.length]
    BY <1>7, <1>8, <2>1 DEF Fields
  <2>3. e[j][v + 1] <= Len(stream)
    BY <1>7, <2>1
  <2> QED BY <1>1, <1>3, <2>2, <2>3, OnToNext
<1> QED BY <1>9, <1>10

LEMMA EndChunkParts ==
  ASSUME NEW b, NEW m, NEW h, NEW e, Loads(st, b, m, h, e), EndChunk
  PROVE  \E j \in 1..Count(b, m) :
           /\ st.loc = h[j + 1] /\ Layouts[b][j].name = Sought(st)
           /\ \E i \in 1..j : st.loc - st.total = h[i] /\ (stream = written => i = 1)
<1>1. st.mode = "read" /\ st.loc >= st.end /\ UNCHANGED <<build, stream, written, before>>
  BY DEF EndChunk
<1>2. /\ Recorded(b, m, h, e) /\ (AtVariable(st, b, m, h, e) \/ (OnlyBytes(st) /\ st.loc < st.end))
      /\ st.loc \in 1..Len(stream) /\ Len(stream) \in Nat /\ st.end \in Nat
  BY <1>1, ReadingParts
<1>3. AtVariable(st, b, m, h, e)
  BY <1>1, <1>2
<1>4. PICK j \in 1..Count(b, m) :
        /\ Layouts[b][j].name = Sought(st) /\ st.end = h[j + 1]
        /\ \E v \in 1..(Len(Layouts[b][j].vars) + 1) : st.loc = e[j][v]
        /\ \E i \in 1..j : st.end - st.total = h[i] /\ (stream = written => i = 1)
  BY <1>3, Zenon DEF AtVariable
<1>5. PICK v \in 1..(Len(Layouts[b][j].vars) + 1) : st.loc = e[j][v]
  BY <1>4
<1> DEFINE n == Len(Layouts[b][j].vars)
<1>6. n \in Nat /\ e[j][n + 1] = h[j + 1]
  BY <1>2, SectionRecorded
<1>7. v = n + 1
  <2> SUFFICES ASSUME v # n + 1 PROVE FALSE
    OBVIOUS
  <2>1. v \in 1..n
    BY <1>6
  <2> DEFINE c == Len(Held(m, KeyAt(b, j, v)))
             a == e[j][v]
             z == e[j][v + 1]
  <2>2. c \in Nat /\ a \in Nat
    BY <1>2, <2>1, EntryRecorded
  <2>3. z = a + 2 + c
    BY <1>2, <2>1, EntryRecorded
  <2>4. z <= h[j + 1]
    BY <1>2, <2>1, EntryRecorded
  <2>5. z <= st.end /\ st.end <= a /\ st.end \in Nat
    BY <1>1, <1>2, <1>4, <1>5, <2>4
  <2> HIDE DEF c, a, z
  <2> QED BY <2>2, <2>3, <2>5
<1>8. st.loc = h[j + 1] /\ st.end = st.loc
  BY <1>4, <1>5, <1>6, <1>7
<1> QED BY <1>4, <1>8

LEMMA EndChunkStep ==
  ASSUME NEW b, NEW m, NEW h, NEW e, Loads(st, b, m, h, e), EndChunk
  PROVE  Loads(st, b, m, h, e)'
<1>1. st.mode = "read" /\ NextSection(st.loc - st.total) /\ UNCHANGED <<build, stream, written, before>>
  BY DEF EndChunk
<1>2. /\ Recorded(b, m, h, e) /\ st.loc \in 1..Len(stream) /\ Len(stream) \in Nat /\ st.total \in Nat /\ Keeps /\ st.todo # <<>>
  BY <1>1, ReadingParts
<1>3. PICK j \in 1..Count(b, m) : \E i \in 1..j : st.loc - st.total = h[i] /\ (stream = written => i = 1)
  BY EndChunkParts
<1>4. PICK i \in 1..j : st.loc - st.total = h[i] /\ (stream = written => i = 1)
  BY <1>3
<1>5. i \in 1..Count(b, m) /\ i \in 1..(Count(b, m) + 1)
  BY <1>2, EndRecorded
<1>6. h[i] \in Nat /\ h[i] >= 1
  BY <1>2, <1>5, SectionRecorded
<1>7. h[i] <= Len(stream) /\ NextSection(h[i])
  <2>1. h[i] <= st.loc
    BY <1>2, <1>4
  <2> QED BY <1>1, <1>2, <1>4, <1>6, <2>1
<1> DEFINE l == h[i]
<1>8. l = h[i] /\ l >= 1 /\ l <= Len(stream) /\ NextSection(l)
  BY <1>6, <1>7
<1> HIDE DEF l
<1> QED BY <1>2, <1>4, <1>5, <1>8, NextAtSection

LEMMA KeyHere ==
  ASSUME NEW b, NEW m, NEW h, NEW e, Loads(st, b, m, h, e), Reading, NEW j \in 1..Count(b, m), NEW v \in 1..Len(Layouts[b][j].vars),
         Here(b, m, h, e, j, v), Left > 1
  PROVE  Key = KeyAt(b, j, v) /\ Next2.of = Len(Held(m, KeyAt(b, j, v))) /\ Next1.of = Layouts[b][j].vars[v].name
<1>1. Section.name = Sought(st) /\ Left \in Int
  <2>1. Section.name = Sought(st) /\ st.loc \in 1..Len(stream) /\ Len(stream) \in Nat /\ Left = Len(stream) - st.loc
    BY ReadingParts DEF Reading
  <2> QED BY <2>1
<1>2. Layouts[b][j].name = Sought(st) /\ Next1 = Name(Layouts[b][j].vars[v].name) /\ Next2 = Number(Len(Held(m, KeyAt(b, j, v))))
  <2>1. Left > 0
    BY <1>1
  <2> QED BY <2>1 DEF Here
<1>3. Next1.of = Layouts[b][j].vars[v].name /\ Next2.of = Len(Held(m, KeyAt(b, j, v)))
  BY <1>2 DEF Name, Number
<1> QED BY <1>1, <1>2, <1>3 DEF Key, KeyAt

(* All of a variable's bytes are read, or none. *)
Read(b, m, e, j, v) ==
  LET k == KeyAt(b, j, v)
      c == Held(m, k)
  IN  \/ /\ Len(c) > Left - 2 /\ memory' = memory
         /\ st' = [st EXCEPT !.loc = st.loc + 2, !.length = st.length]
      \/ /\ Len(c) <= Left - 2 /\ memory' = IF k = Length \/ c = <<>> THEN memory ELSE [memory EXCEPT ![k] = c]
         /\ st' = [st EXCEPT !.loc = e[j][v + 1], !.length = IF k = Length /\ c # <<>> THEN c[1][2] ELSE st.length]

LEMMA VariableRead ==
  ASSUME NEW b, NEW m, NEW h, NEW e, Loads(st, b, m, h, e), ReadVariable
  PROVE  /\ Reading /\ Left > 1 /\ Fits
         /\ \E j \in 1..Count(b, m) : \E v \in 1..Len(Layouts[b][j].vars) : Here(b, m, h, e, j, v) /\ Read(b, m, e, j, v)
<1> DEFINE bytes == SmemRead(Next2.of)
<1>1. /\ Reading /\ Left > 1 /\ Next1.cell = "name" /\ Fits
      /\ memory' = IF Key = Length \/ bytes = <<>> THEN memory ELSE [memory EXCEPT ![Key] = bytes]
      /\ st' = [st EXCEPT !.loc = @ + 2 + Len(bytes),
                          !.length = IF Key = Length /\ bytes # <<>> THEN bytes[1][2] ELSE @]
  BY DEF ReadVariable, AtEntry
<1>2. /\ st.data = stream /\ Fields(st) /\ Left = Len(stream) - st.loc /\ Left > 0 /\ Recorded(b, m, h, e)
      /\ Left \in Int
  <2>1. /\ st.data = stream /\ Fields(st) /\ Left = Len(stream) - st.loc /\ Recorded(b, m, h, e)
        /\ st.loc \in 1..Len(stream) /\ Len(stream) \in Nat
    BY <1>1, ReadingParts DEF Reading
  <2> QED BY <1>1, <2>1
<1>3. PICK j \in 1..Count(b, m) : \E v \in 1..Len(Layouts[b][j].vars) : Here(b, m, h, e, j, v)
  BY <1>1, <1>2, AtName
<1>4. PICK v \in 1..Len(Layouts[b][j].vars) : Here(b, m, h, e, j, v)
  BY <1>3
<1> DEFINE k == KeyAt(b, j, v)
           c == Held(m, k)
           n == Len(c)
<1>5. /\ n \in Nat /\ st.loc \in Nat /\ Len(stream) \in Nat /\ e[j][v + 1] = st.loc + 2 + n
  BY <1>1, <1>4, HereNumbers
<1>6. Key = k /\ Next2.of = n
  BY <1>1, <1>4, KeyHere
<1>7. bytes = [i \in 1 .. (IF n > Left - 2 THEN 0 ELSE n) |-> stream[st.loc + 2 + i].of]
  BY <1>2, <1>6 DEF SmemRead
<1>8. Sequence(c)
  BY <1>2, EntryRecorded
<1>9. \A i \in 1..n : st.loc + 2 + i <= Len(stream) => stream[st.loc + 2 + i] = Byte(c[i])
  BY <1>4 DEF Here
<1> HIDE DEF bytes, k, c
<1>10. CASE n > Left - 2
  <2>1. bytes = [i \in 1..0 |-> stream[st.loc + 2 + i].of]
    BY <1>7, <1>10
  <2>2. 0 \in Nat /\ bytes = [i \in 1..0 |-> bytes[i]]
    BY <2>1
  <2>3. Sequence(bytes) /\ Len(bytes) = 0
    BY <2>2, Listed
  <2>4. bytes = <<>>
    BY <2>3, SequenceParts
  <2>5. memory' = memory
    BY <1>1, <2>4
  <2>8. st' = [st EXCEPT !.loc = @ + 2 + Len(bytes), !.length = @]
    BY <1>1, <2>4
  <2>9. st' = [st EXCEPT !.loc = @ + 2 + 0, !.length = @]
    BY <2>3, <2>8
  <2>6. st' = [st EXCEPT !.loc = st.loc + 2, !.length = st.length]
    <3>1. st' = [st EXCEPT !.loc = st.loc + 2 + 0, !.length = st.length]
      <4>1. Fields(st)
        BY <1>2
      <4> QED BY <2>9, <4>1 DEF Fields
    <3>2. st.loc + 2 + 0 = st.loc + 2
      BY <1>5
    <3> QED BY <3>1, <3>2
  <2>7. Read(b, m, e, j, v)
    BY <1>10, <2>5, <2>6 DEF Read, k, c
  <2> QED BY <1>1, <1>4, <2>7
<1>11. CASE ~(n > Left - 2)
  <2>1. bytes = [i \in 1..n |-> stream[st.loc + 2 + i].of]
    BY <1>7, <1>11
  <2>2. ASSUME NEW i \in 1..n PROVE stream[st.loc + 2 + i].of = c[i]
    <3>1. st.loc + 2 + i <= Len(stream)
      BY <1>2, <1>5, <1>11
    <3>2. stream[st.loc + 2 + i] = Byte(c[i])
      BY <1>9, <3>1
    <3> QED BY <3>2 DEF Byte
  <2>3. c = [i \in 1..n |-> c[i]]
    BY <1>8, SequenceParts
  <2>4. bytes = c
    BY <2>1, <2>2, <2>3
  <2>5. memory' = IF k = Length \/ c = <<>> THEN memory ELSE [memory EXCEPT ![k] = c]
    BY <1>1, <1>6, <2>4
  <2>6. st' = [st EXCEPT !.loc = @ + 2 + n, !.length = IF k = Length /\ c # <<>> THEN c[1][2] ELSE @]
    BY <1>1, <1>6, <2>4
  <2>7. st' = [st EXCEPT !.loc = e[j][v + 1], !.length = IF k = Length /\ c # <<>> THEN c[1][2] ELSE st.length]
    BY <1>2, <1>5, <2>6 DEF Fields
  <2>8. n <= Left - 2
    BY <1>2, <1>5, <1>11
  <2>9. Read(b, m, e, j, v)
    BY <2>5, <2>7, <2>8 DEF Read, k, c
  <2> QED BY <1>1, <1>4, <2>9
<1> QED BY <1>10, <1>11

LEMMA ReadVariableStep ==
  ASSUME NEW b, NEW m, NEW h, NEW e, Loads(st, b, m, h, e), ReadVariable
  PROVE  Loads(st, b, m, h, e)'
<1>1. Reading /\ Left > 1
  BY VariableRead
<1>2. PICK j \in 1..Count(b, m) : \E v \in 1..Len(Layouts[b][j].vars) : Here(b, m, h, e, j, v) /\ Read(b, m, e, j, v)
  BY VariableRead
<1>3. PICK v \in 1..Len(Layouts[b][j].vars) : Here(b, m, h, e, j, v) /\ Read(b, m, e, j, v)
  BY <1>2
<1> DEFINE c == Held(m, KeyAt(b, j, v))
           n == Len(c)
           l == st.loc + 2
<1>4. /\ n \in Nat /\ st.loc \in Nat /\ st.loc >= 1 /\ Len(stream) \in Nat /\ Len(written) \in Nat /\ st.end \in Nat
      /\ Left = Len(stream) - st.loc /\ st.loc + 2 + n <= st.end /\ e[j][v + 1] = st.loc + 2 + n
      /\ st.loc + 2 + n <= Len(written)
  BY <1>1, <1>3, HereNumbers
<1>5. \A i \in 1..n : st.loc + 2 + i <= Len(stream) => stream[st.loc + 2 + i] = Byte(c[i])
  BY <1>3 DEF Here
<1>6. CASE n > Left - 2 /\ st' = [st EXCEPT !.loc = l, !.length = st.length]
  <2>0. n > Left - 2 /\ l = st.loc + 2
    BY <1>6
  <2> HIDE DEF n, c, l
  <2>1. l \in 1..Len(stream) /\ l < st.end /\ Len(stream) < Len(written)
    <3> DEFINE p == st.loc
               q == Len(stream)
               r == Len(written)
               t == st.end
    <3>1. n \in Nat /\ p \in Nat /\ q \in Nat /\ r \in Nat /\ t \in Nat /\ q - p > 1 /\ p + 2 + n <= t /\ p + 2 + n <= r
      BY <1>1, <1>4
    <3>2. n > (q - p) - 2 /\ l = p + 2
      BY <1>4, <2>0
    <3> HIDE DEF p, q, r, t
    <3>3. l \in 1..q /\ l < t /\ q < r
      BY <3>1, <3>2
    <3> QED BY <3>3 DEF q, r, t
  <2>2. stream # written
    BY <1>4, <2>1
  <2>3. ASSUME NEW i \in (l + 1)..Len(stream) PROVE stream[i].cell = "byte"
    <3> DEFINE x == i - l
    <3>3. l = st.loc + 2 /\ st.loc \in Nat /\ Len(stream) \in Nat /\ n \in Nat /\ n > (Len(stream) - st.loc) - 2
      BY <1>4, <2>0
    <3>1. x \in 1..n /\ st.loc + 2 + x <= Len(stream) /\ st.loc + 2 + x = i
      <4> DEFINE p == st.loc
                 q == Len(stream)
      <4>1. p \in Nat /\ q \in Nat /\ n \in Nat /\ l = p + 2 /\ n > (q - p) - 2 /\ i \in (l + 1)..q
        BY <3>3
      <4> HIDE DEF p, q
      <4>2. i - l \in 1..n /\ p + 2 + (i - l) <= q /\ p + 2 + (i - l) = i
        BY <4>1
      <4> QED BY <4>2 DEF p, q
    <3> HIDE DEF x
    <3>2. stream[st.loc + 2 + x] = Byte(c[x])
      BY <1>5, <3>1
    <3> QED BY <3>1, <3>2 DEF Byte
  <2>4. ASSUME l < Len(stream) PROVE CutInside
    <3> DEFINE a == e[j][v]
               p == Len(stream)
               x == (p + 1) - l
    <3>1. a = st.loc
      BY <1>3 DEF Here
    <3>2. x \in 1..n /\ a + 2 + x = p + 1 /\ p \in (l + 1)..p /\ p > 0
      <4>1. st.loc \in Nat /\ p \in Nat /\ n \in Nat /\ l = a + 2 /\ a \in Nat /\ n > (p - a) - 2 /\ l < p
        BY <1>4, <2>0, <2>4, <3>1
      <4> HIDE DEF a, p
      <4> QED BY <4>1
    <3> HIDE DEF x
    <3>3. Recorded(b, m, h, e)
      BY DEF Loads
    <3>4. \A y \in 1..Len(c) : written[a + 2 + y] = Byte(c[y])
      BY <3>3, EntryRecorded DEF c
    <3>5. written[a + 2 + x] = Byte(c[x])
      BY <3>2, <3>4 DEF n
    <3>6. written[p + 1].cell = "byte"
      BY <3>2, <3>5 DEF Byte
    <3>7. stream[p].cell = "byte"
      BY <2>3, <3>2
    <3> QED BY <2>1, <3>2, <3>6, <3>7 DEF CutInside
  <2> QED BY <1>1, <1>6, <2>1, <2>2, <2>3, <2>4, OnToRest
<1>7. CASE n <= Left - 2 /\ \E length : st' = [st EXCEPT !.loc = e[j][v + 1], !.length = length]
  <2>1. e[j][v + 1] <= Len(stream)
    <3> HIDE DEF n
    <3> QED BY <1>4, <1>7
  <2>2. PICK length : st' = [st EXCEPT !.loc = e[j][v + 1], !.length = length]
    BY <1>7
  <2> QED BY <1>1, <1>3, <2>1, <2>2, OnToNext
<1> QED BY <1>3, <1>6, <1>7 DEF Read

(* Every step of a load but LoseWay leaves it well. *)
LEMMA LoadStep ==
  ASSUME NEW b, NEW m, NEW h, NEW e, Loads(st, b, m, h, e), Load, ~Loaded, ~LoseWay
  PROVE  Loads(st, b, m, h, e)'
BY SkipFlashStep, NotFoundStep, BrokenHeadStep, FoundStep, OtherSectionStep, BrokenEntryStep, NoSizeStep, ReadVariableStep,
   PassOverStep, EndChunkStep DEF Load

-----------------------------------------------------------------------------
(* No variable is a mixture: it is as before the load or as it was saved, or as one of its *)
(* name was saved if the state was cut inside a variable.                                  *)
Unmixed(k, bytes) ==
  \/ bytes = before[k] \/ InFull(k, bytes)
  \/ CutInside /\ \E j \in Stored : j[2] = k[2] /\ InFull(j, bytes)
Mixed == memory = [k \in Keys(build) |-> memory[k]] /\ \A k \in Keys(build) : Unmixed(k, memory[k])

LEMMA MixedSame ==
  ASSUME UNCHANGED <<build, stream, written, before>>
  PROVE  Keys(build)' = Keys(build) /\ CutInside' = CutInside /\ \A k, bytes : Unmixed(k, bytes)' <=> Unmixed(k, bytes)
<1>1. Keys(build)' = Keys(build) /\ CutInside' = CutInside /\ Stored' = Stored
  BY DEF Keys, CutInside, Stored
<1>2. \A k : Places(k)' = Places(k)
  BY DEF Places
<1>3. \A k : BytesAt(Places(k))' = BytesAt(Places(k))
  BY <1>2 DEF BytesAt
<1>4. \A k, bytes : InFull(k, bytes)' <=> InFull(k, bytes)
  BY <1>2, <1>3 DEF InFull
<1> QED BY <1>1, <1>4 DEF Unmixed

LEMMA MixedStep ==
  ASSUME NEW b, NEW m, NEW h, NEW e, Loads(st, b, m, h, e), Load, ~Loaded, ~LoseWay, Mixed
  PROVE  Mixed'
<1>1. UNCHANGED <<build, stream, written, before>>
  BY DEF Load, SkipFlash, NotFound, BrokenHead, Found, OtherSection, AtHead, Looks, Finding, BrokenEntry, NoSize, ReadVariable, PassOver,
         AtEntry, Reading, EndChunk, Loaded
<1>2. Keys(build)' = Keys(build) /\ \A k, bytes : Unmixed(k, bytes)' <=> Unmixed(k, bytes)
  BY <1>1, MixedSame
<1>3. CASE memory' = memory
  BY <1>1, <1>2, <1>3 DEF Mixed
<1>4. CASE ReadVariable
  <2>1. Reading /\ \E j \in 1..Count(b, m) : \E v \in 1..Len(Layouts[b][j].vars) : Here(b, m, h, e, j, v) /\ Read(b, m, e, j, v)
    BY <1>4, VariableRead
  <2>2. PICK j \in 1..Count(b, m) : \E v \in 1..Len(Layouts[b][j].vars) : Here(b, m, h, e, j, v) /\ Read(b, m, e, j, v)
    BY <2>1
  <2>3. PICK v \in 1..Len(Layouts[b][j].vars) : Here(b, m, h, e, j, v) /\ Read(b, m, e, j, v)
    BY <2>2
  <2> DEFINE k == KeyAt(b, j, v)
             c == Held(m, k)
  <2>4. CASE memory' # memory
    <3>1. Len(c) <= Left - 2 /\ c # <<>> /\ memory' = [memory EXCEPT ![k] = c]
      BY <2>3, <2>4 DEF Read
    <3>2. /\ Sequence(c) /\ Places(k) = (e[j][v] + 3) .. (e[j][v] + 2 + Len(c))
          /\ Places(k) # {} <=> Len(c) # 0
          /\ Places(k) # {} => BytesAt(Places(k)) = c
      <4>1. Recorded(b, m, h, e)
        BY DEF Loads
      <4>2. Sequence(c)
        BY <4>1, EntryRecorded
      <4>3. Places(k) = (e[j][v] + 3) .. (e[j][v] + 2 + Len(c))
        BY <4>1, PlacesRecorded
      <4>4. /\ Places(k) # {} <=> Len(c) # 0
            /\ Places(k) # {} => BytesAt(Places(k)) = c
        BY <4>1, PlacesRecorded
      <4> QED BY <4>2, <4>3, <4>4
    <3>3. BytesAt(Places(k)) = c
      <4>1. Len(c) # 0
        BY <3>1, <3>2, SequenceParts
      <4> QED BY <3>2, <4>1
    <3>4. Places(k) \subseteq DOMAIN stream
      <4> DEFINE n == Len(c)
                 a == e[j][v]
      <4>1. n \in Nat /\ Len(stream) \in Nat /\ st.loc \in Nat /\ Left = Len(stream) - st.loc
        BY <2>1, <2>3, HereNumbers
      <4>2. a = st.loc
        BY <2>3 DEF Here
      <4>3. DOMAIN stream = 1..Len(stream)
        BY SequenceParts DEF Loads, Cut
      <4>4. Places(k) = (a + 3)..(a + 2 + n) /\ n <= Left - 2
        BY <3>1, <3>2
      <4> DEFINE q == Len(stream)
      <4>5. n \in Nat /\ q \in Nat /\ a \in Nat /\ n <= (q - a) - 2
        BY <4>1, <4>2, <4>4
      <4>6. Places(k) = (a + 3)..(a + 2 + n) /\ DOMAIN stream = 1..q
        BY <4>3, <4>4
      <4> HIDE DEF n, a, c, k, q
      <4> QED BY <4>5, <4>6
    <3> HIDE DEF c, k
    <3>5. memory' = [l \in Keys(build) |-> IF l = k THEN c ELSE memory[l]]
      BY <3>1 DEF Mixed
    <3>6. memory' = [l \in Keys(build) |-> memory'[l]]
      BY <3>5
    <3>7. ASSUME NEW l \in Keys(build)
          PROVE  Unmixed(l, memory'[l])
      <4>1. CASE l = k
        BY <3>3, <3>4, <3>5, <4>1 DEF Unmixed, InFull
      <4>2. CASE l # k
        BY <3>5, <4>2 DEF Mixed
      <4> QED BY <4>1, <4>2
    <3> QED BY <1>1, <1>2, <3>6, <3>7 DEF Mixed
  <2> QED BY <1>3, <2>4
<1>5. memory' = memory \/ ReadVariable
  BY DEF Load, SkipFlash, NotFound, BrokenHead, Found, OtherSection, AtHead, Looks, Finding, BrokenEntry, NoSize, PassOver,
         AtEntry, Reading, EndChunk, Loaded
<1> QED BY <1>3, <1>4, <1>5

-----------------------------------------------------------------------------
(* The whole state: each variable that was passed has what the state has for it. *)
Final(k) == IF Offers(k) THEN BytesAt(Places(k)) ELSE before[k]
Earlier(s, k) == \E i \in 1..Done(s) : Layouts[build][i].name = k[1]
Passed(s, k) == Earlier(s, k) \/ (s.mode = "read" /\ Sought(s) = k[1] /\ Places(k) \subseteq 1..s.loc)
Exact(s, b, m) ==
  /\ \A k \in Keys(build) : memory[k] = IF Passed(s, k) THEN Final(k) ELSE before[k]
  /\ Passed(s, Length) => s.length = Len(m[Flash])

LEMMA PlacesInSection ==
  ASSUME NEW b, NEW m, NEW h, NEW e, Recorded(b, m, h, e), NEW j \in 1..Count(b, m), NEW k, k[1] = Layouts[b][j].name
  PROVE  Places(k) \subseteq (h[j] + 3)..h[j + 1]
<1> SUFFICES ASSUME NEW i \in Places(k) PROVE i \in (h[j] + 3)..h[j + 1]
  OBVIOUS
<1>1. PICK x \in 1..Count(b, m) : \E v \in 1..Len(Layouts[b][x].vars) :
        k = KeyAt(b, x, v) /\ \E y \in 1..Len(Held(m, k)) : i = e[x][v] + 2 + y
  BY PlaceRecorded
<1>2. PICK v \in 1..Len(Layouts[b][x].vars) : k = KeyAt(b, x, v) /\ \E y \in 1..Len(Held(m, k)) : i = e[x][v] + 2 + y
  BY <1>1
<1>3. x = j
  <2>1. Layouts[b][x].name = Layouts[b][j].name
    BY <1>2 DEF KeyAt
  <2>2. x \in 1..Len(Layouts[b]) /\ j \in 1..Len(Layouts[b]) /\ b \in DOMAIN Layouts
    BY EndRecorded, SectionRecorded
  <2> QED BY <2>1, <2>2, LayoutParts
<1> DEFINE c == Held(m, KeyAt(b, j, v))
           a == e[j][v]
           z == e[j][v + 1]
<1>4. PICK y \in 1..Len(c) : i = a + 2 + y
  BY <1>2, <1>3
<1>5. v \in 1..Len(Layouts[b][j].vars)
  BY <1>3
<1>6. Len(c) \in Nat /\ a \in Nat
  BY <1>5, EntryRecorded
<1>7. a >= h[j] + 2 /\ z = a + 2 + Len(c)
  BY <1>5, EntryRecorded
<1>8. z <= h[j + 1] /\ h[j] \in Nat /\ h[j + 1] \in Nat
  BY <1>5, EntryRecorded, SectionRecorded
<1> DEFINE p == h[j]
           q == h[j + 1]
           n == Len(c)
<1>9. /\ n \in Nat /\ a \in Nat /\ a >= p + 2 /\ z = a + 2 + n /\ z <= q /\ p \in Nat /\ q \in Nat
      /\ y \in 1..n /\ i = a + 2 + y
  BY <1>4, <1>6, <1>7, <1>8
<1> HIDE DEF c, a, z, p, q, n
<1>10. i \in (p + 3)..q
  BY <1>9
<1> QED BY <1>10 DEF p, q

LEMMA NoSuchSection ==
  ASSUME NEW b, NEW m, NEW h, NEW e, Recorded(b, m, h, e), NEW k, \A j \in 1..Count(b, m) : Layouts[b][j].name # k[1]
  PROVE  Places(k) = {}
<1>1. \A j \in 1..Count(b, m) : \A v \in 1..Len(Layouts[b][j].vars) : k # KeyAt(b, j, v)
  BY DEF KeyAt
<1> QED BY <1>1, NotRecorded

(* The length of the image is always recorded. *)
LEMMA LengthRecorded ==
  ASSUME NEW b, NEW m, NEW h, NEW e, Recorded(b, m, h, e)
  PROVE  Places(Length) # {} /\ \E j \in 1..Count(b, m) : Layouts[b][j].name = Length[1]
<1>1. b \in DOMAIN Layouts /\ m \in Memories(b)
  BY EndRecorded
<1>2. PICK j \in 1..(Len(Layouts[b]) - 1) : \E v \in 1..Len(Layouts[b][j].vars) : KeyAt(b, j, v) = Length
  BY <1>1, FlashSections
<1>3. PICK v \in 1..Len(Layouts[b][j].vars) : KeyAt(b, j, v) = Length
  BY <1>2
<1>4. j \in 1..Count(b, m)
  BY <1>1, CountParts, LayoutParts
<1>5. Len(Held(m, Length)) = 1
  BY <1>1, HeldParts
<1>6. Places(Length) # {} <=> Len(Held(m, Length)) # 0
  BY <1>3, <1>4, PlacesRecorded
<1>7. Layouts[b][j].name = Length[1]
  BY <1>3 DEF KeyAt
<1> QED BY <1>4, <1>5, <1>6, <1>7

LEMMA NotOffered ==
  ASSUME NEW k, Places(k) = {}
  PROVE  Final(k) = before[k]
BY DEF Final, Offers

LEMMA ExactOn ==
  ASSUME NEW b, NEW m, UNCHANGED <<build, stream, written, before>>,
         \A k \in Keys(build) : memory'[k] = IF Passed(st', k) THEN Final(k) ELSE before[k],
         Passed(st', Length) => st'.length = Len(m[Flash])
  PROVE  Exact(st, b, m)'
<1>1. build' = build /\ written' = written /\ before' = before
  OBVIOUS
<1>2. Keys(build)' = Keys(build) /\ \A k : Passed(st, k)' <=> Passed(st', k)
  BY <1>1 DEF Keys, Passed, Earlier, Sought, Done, Places
<1>3. \A k : Final(k)' = Final(k)
  BY <1>1 DEF Final, Offers, BytesAt, Places
<1> QED BY <1>1, <1>2, <1>3 DEF Exact

LEMMA NextExact ==
  ASSUME NEW b, NEW m, build \in DOMAIN Layouts, Fields(st), Listing(st), st.todo # <<>>, Exact(st, b, m),
         UNCHANGED <<build, stream, written, before>>, memory' = memory, NEW l \in 1..Len(stream), NextSection(l),
         \A k \in Keys(build) : k[1] = Sought(st) => Passed(st, k) \/ Final(k) = before[k],
         Length[1] = Sought(st) => Passed(st, Length)
  PROVE  Exact(st, b, m)'
<1>1. /\ st'.mode = "find" /\ st'.data = st.data /\ st'.loc = l /\ st'.todo = Tail(st.todo)
      /\ st'.total = 0 /\ st'.end = 0 /\ st'.length = st.length
  BY NextSectionIs
<1>2. Done(st') = Done(st) + 1
  BY <1>1, RestOfList
<1>3. Done(st) \in Nat
  BY SectionSought
<1>4. ASSUME NEW k PROVE Passed(st', k) <=> Earlier(st, k) \/ Sought(st) = k[1]
  <2>1. Passed(st', k) <=> \E i \in 1..(Done(st) + 1) : Layouts[build][i].name = k[1]
    BY <1>1, <1>2 DEF Passed, Earlier
  <2>2. \A i : i \in 1..(Done(st) + 1) <=> i \in 1..Done(st) \/ i = Done(st) + 1
    BY <1>3
  <2> QED BY <2>1, <2>2 DEF Earlier, Sought
<1>5. ASSUME NEW k, ~(Sought(st) = k[1]) PROVE Passed(st, k) <=> Earlier(st, k)
  BY <1>5 DEF Passed
<1>6. ASSUME NEW k \in Keys(build) PROVE memory'[k] = IF Passed(st', k) THEN Final(k) ELSE before[k]
  <2>1. memory[k] = IF Passed(st, k) THEN Final(k) ELSE before[k]
    BY DEF Exact
  <2>2. CASE Sought(st) = k[1]
    BY <1>4, <2>1, <2>2
  <2>3. CASE ~(Sought(st) = k[1])
    <3>1. Passed(st', k) <=> Passed(st, k)
      BY <1>4, <1>5, <2>3
    <3> QED BY <2>1, <3>1
  <2> QED BY <2>2, <2>3
<1>7. Passed(st', Length) => st'.length = Len(m[Flash])
  <2>1. Passed(st', Length) => Passed(st, Length)
    BY <1>4, <1>5 DEF Passed
  <2> QED BY <1>1, <2>1 DEF Exact
<1> QED BY <1>6, <1>7, ExactOn

LEMMA WholeSearch ==
  ASSUME NEW b, NEW m, NEW h, NEW e, Loads(st, b, m, h, e), stream = written, Looks
  PROVE  AtSection(st, b, m, h)
BY LooksParts DEF OnlyBytes

LEMMA SkipFlashExact ==
  ASSUME NEW b, NEW m, NEW h, NEW e, Loads(st, b, m, h, e), stream = written, Exact(st, b, m), SkipFlash
  PROVE  Exact(st, b, m)'
<1>1. /\ build \in DOMAIN Layouts /\ Recorded(b, m, h, e) /\ Fields(st) /\ Listing(st) /\ st.todo # <<>> /\ Section.name = Flash[1]
      /\ st.length = 0 /\ NextSection(st.loc) /\ UNCHANGED <<build, stream, written, before>> /\ memory' = memory
  BY DEF Loads, SkipFlash, Finding
<1>2. st.loc \in 1..Len(stream)
  BY <1>1 DEF Listing
<1>3. Done(st) + 1 = Len(Layouts[build]) /\ Section.name = Sought(st) /\ Done(st) \in Nat
  BY <1>1, FlashIsLast, SectionSought DEF Section
<1>4. Sought(st) = Flash[1]
  BY <1>1, <1>3
<1>5. Length[1] # Flash[1]
  BY DEF Length, Flash
<1>6. Passed(st, Length)
  <2>1. PICK j \in 1..(Len(Layouts[build]) - 1) : \E v \in 1..Len(Layouts[build][j].vars) : KeyAt(build, j, v) = Length
    BY <1>1, FlashSections
  <2>2. j \in 1..Done(st) /\ Layouts[build][j].name = Length[1]
    BY <1>3, <2>1 DEF KeyAt
  <2> QED BY <2>2 DEF Passed, Earlier
<1>7. Len(m[Flash]) = 0
  BY <1>1, <1>6 DEF Exact
<1>8. m[Flash] = <<>>
  <2>1. b \in DOMAIN Layouts /\ m \in Memories(b) /\ Flash \in Keys(b)
    BY <1>1, EndRecorded, SpecialKeys
  <2>2. Sequence(m[Flash])
    BY <2>1, MemoryParts
  <2> QED BY <1>7, <2>2, SequenceParts
<1>9. ASSUME NEW j \in 1..Count(b, m) PROVE Layouts[b][j].name # Flash[1]
  <2>1. b \in DOMAIN Layouts /\ Count(b, m) = Len(Layouts[b]) - 1 /\ Len(Layouts[b]) \in Nat
    BY <1>1, <1>8, EndRecorded, LayoutParts DEF Count
  <2>2. \A i \in 1..Len(Layouts[b]) : Layouts[b][i].name = Flash[1] => i = Len(Layouts[b])
    BY <2>1, FlashSections
  <2> QED BY <2>1, <2>2
<1>10. ASSUME NEW k \in Keys(build), k[1] = Sought(st) PROVE Final(k) = before[k]
  <2>1. \A j \in 1..Count(b, m) : Layouts[b][j].name # k[1]
    BY <1>4, <1>9, <1>10
  <2> QED BY <1>1, <2>1, NoSuchSection, NotOffered
<1> QED BY <1>1, <1>2, <1>4, <1>5, <1>10, NextExact

LEMMA NotFoundExact ==
  ASSUME NEW b, NEW m, NEW h, NEW e, Loads(st, b, m, h, e), stream = written, Exact(st, b, m), NotFound
  PROVE  Exact(st, b, m)'
<1>1. Looks /\ Left = 0 /\ NextSection(st.loc - st.total) /\ UNCHANGED <<build, stream, written, before>> /\ memory' = memory
  BY DEF NotFound, Looks, Finding
<1>2. /\ build \in DOMAIN Layouts /\ Recorded(b, m, h, e) /\ Fields(st) /\ Listing(st) /\ st.todo # <<>>
      /\ st.loc \in 1..Len(stream) /\ st.total \in Nat /\ Len(stream) \in Nat /\ st.data = stream /\ AtSection(st, b, m, h)
  BY <1>1, LooksParts, WholeSearch
<1>3. PICK j \in 1..(Count(b, m) + 1) :
        /\ st.loc = h[j]
        /\ \E i \in 1..j : /\ st.loc - st.total = h[i]
                           /\ stream = written => i = 1
                           /\ \A x \in i..(j - 1) : Layouts[b][x].name # Sought(st)
  BY <1>2, Zenon DEF AtSection
<1>4. h[1] = 1 /\ Count(b, m) \in Nat /\ Len(written) \in Nat
  BY <1>2, EndRecorded
<1>5. st.loc - st.total = 1 /\ \A x \in 1..(j - 1) : Layouts[b][x].name # Sought(st)
  BY <1>3, <1>4
<1>6. j = Count(b, m) + 1
  <2> SUFFICES ASSUME j # Count(b, m) + 1 PROVE FALSE
    OBVIOUS
  <2>1. j \in 1..Count(b, m)
    BY <1>4
  <2> DEFINE a == h[j]
             z == h[j + 1]
  <2>2. a \in Nat /\ z \in Nat /\ a + 2 <= z /\ z <= Len(written)
    BY <1>2, <2>1, SectionRecorded
  <2>3. st.loc = a /\ Len(stream) - st.loc = 0
    BY <1>1, <1>2, <1>3 DEF Left
  <2> HIDE DEF a, z
  <2> QED BY <1>4, <2>2, <2>3
<1>7. \A x \in 1..Count(b, m) : Layouts[b][x].name # Sought(st)
  BY <1>4, <1>5, <1>6
<1>8. ASSUME NEW k \in Keys(build), k[1] = Sought(st) PROVE Final(k) = before[k]
  <2>1. \A x \in 1..Count(b, m) : Layouts[b][x].name # k[1]
    BY <1>7, <1>8
  <2> QED BY <1>2, <2>1, NoSuchSection, NotOffered
<1>9. Length[1] # Sought(st)
  BY <1>2, <1>7, LengthRecorded
<1>10. NextSection(1) /\ 1 \in 1..Len(stream)
  BY <1>1, <1>2, <1>5
<1> QED BY <1>1, <1>2, <1>8, <1>9, <1>10, NextExact

LEMMA EndChunkExact ==
  ASSUME NEW b, NEW m, NEW h, NEW e, Loads(st, b, m, h, e), stream = written, Exact(st, b, m), EndChunk
  PROVE  Exact(st, b, m)'
<1>1. st.mode = "read" /\ NextSection(st.loc - st.total) /\ UNCHANGED <<build, stream, written, before>> /\ memory' = memory
  BY DEF EndChunk
<1>2. /\ build \in DOMAIN Layouts /\ Recorded(b, m, h, e) /\ Fields(st) /\ Listing(st) /\ st.todo # <<>>
      /\ st.loc \in 1..Len(stream) /\ st.total \in Nat /\ Len(stream) \in Nat
  BY <1>1, ReadingParts
<1>3. PICK j \in 1..Count(b, m) :
           /\ st.loc = h[j + 1] /\ Layouts[b][j].name = Sought(st)
           /\ \E i \in 1..j : st.loc - st.total = h[i] /\ (stream = written => i = 1)
  BY EndChunkParts
<1>4. st.loc - st.total = 1
  BY <1>2, <1>3, EndRecorded
<1>5. ASSUME NEW k, k[1] = Sought(st) PROVE Passed(st, k)
  <2>1. Places(k) \subseteq (h[j] + 3)..h[j + 1]
    BY <1>2, <1>3, <1>5, PlacesInSection
  <2>2. (h[j] + 3)..h[j + 1] \subseteq 1..st.loc
    <3> DEFINE a == h[j]
               z == h[j + 1]
    <3>1. a \in Nat /\ z \in Nat /\ st.loc = z
      BY <1>2, <1>3, SectionRecorded
    <3> HIDE DEF a, z
    <3>2. (a + 3)..z \subseteq 1..z
      BY <3>1
    <3> QED BY <3>1, <3>2 DEF a, z
  <2> QED BY <1>1, <1>5, <2>1, <2>2 DEF Passed
<1>6. NextSection(1) /\ 1 \in 1..Len(stream)
  BY <1>1, <1>2, <1>4
<1> QED BY <1>1, <1>2, <1>5, <1>6, NextExact

LEMMA FoundExact ==
  ASSUME NEW b, NEW m, NEW h, NEW e, Loads(st, b, m, h, e), stream = written, Exact(st, b, m), Found
  PROVE  Exact(st, b, m)'
<1>1. /\ AtHead /\ Looks /\ Next1.of = Section.name /\ UNCHANGED <<build, stream, written, before>> /\ memory' = memory
      /\ st' = [st EXCEPT !.mode = "read", !.loc = @ + 2, !.end = st.loc + 2 + Next2.of, !.total = @ + 2 + Next2.of]
  BY DEF Found, AtHead, Looks, Finding
<1>2. /\ Recorded(b, m, h, e) /\ Fields(st) /\ Listing(st) /\ st.todo # <<>> /\ build \in DOMAIN Layouts /\ st.mode = "find"
      /\ st.loc \in 1..Len(stream)
  BY <1>1, LooksParts
<1>3. PICK j \in 1..Count(b, m) : st.loc = h[j] /\ Next1.of = Layouts[b][j].name
  BY <1>1, AtHeadParts
<1>4. /\ st'.mode = "read" /\ st'.loc = st.loc + 2 /\ st'.todo = st.todo /\ st'.length = st.length
  BY <1>1, <1>2 DEF Fields
<1>5. Layouts[b][j].name = Sought(st)
  BY <1>1, <1>2, <1>3, SectionSought DEF Section
<1>6. \A k : Earlier(st', k) <=> Earlier(st, k)
  BY <1>4 DEF Earlier, Done
<1>7. Sought(st') = Sought(st)
  BY <1>4 DEF Sought, Done
<1>8. ASSUME NEW k, Sought(st) = k[1], Places(k) \subseteq 1..(st.loc + 2) PROVE Places(k) = {}
  <2>1. Places(k) \subseteq (h[j] + 3)..h[j + 1]
    BY <1>2, <1>5, <1>8, PlacesInSection
  <2>2. 1..(st.loc + 2) \cap (h[j] + 3)..h[j + 1] = {}
    <3> DEFINE a == h[j]
               z == h[j + 1]
    <3>1. a \in Nat /\ z \in Nat /\ st.loc = a
      BY <1>2, <1>3, SectionRecorded
    <3> HIDE DEF a, z
    <3>2. 1..(a + 2) \cap (a + 3)..z = {}
      BY <3>1
    <3> QED BY <3>1, <3>2 DEF a, z
  <2> QED BY <1>8, <2>1, <2>2
<1>9. \A k : Passed(st', k) => Passed(st, k) \/ Places(k) = {}
  BY <1>4, <1>6, <1>7, <1>8 DEF Passed
<1>10. \A k : Passed(st, k) => Passed(st', k)
  BY <1>2, <1>6 DEF Passed
<1>11. ASSUME NEW k \in Keys(build) PROVE memory'[k] = IF Passed(st', k) THEN Final(k) ELSE before[k]
  BY <1>1, <1>9, <1>10, NotOffered DEF Exact
<1>12. Passed(st', Length) => st'.length = Len(m[Flash])
  BY <1>2, <1>4, <1>9, LengthRecorded DEF Exact
<1> QED BY <1>1, <1>11, <1>12, ExactOn

LEMMA OtherSectionExact ==
  ASSUME NEW b, NEW m, NEW h, NEW e, Loads(st, b, m, h, e), stream = written, Exact(st, b, m), OtherSection
  PROVE  Exact(st, b, m)'
<1> DEFINE l == st.loc + 2 + Next2.of
<1>1. /\ AtHead /\ Looks /\ UNCHANGED <<build, stream, written, before>> /\ memory' = memory
      /\ IF Beyond(l) THEN NextSection(SeekTo(l)) ELSE st' = [st EXCEPT !.loc = l, !.total = @ + 2 + Next2.of]
  BY DEF OtherSection, AtHead, Looks, Finding
<1>2. /\ Recorded(b, m, h, e) /\ Fields(st) /\ st.mode = "find" /\ st.data = stream /\ Len(written) \in Nat
  BY <1>1, LooksParts
<1>3. PICK j \in 1..Count(b, m) : l = h[j + 1] /\ h[j + 1] \in Nat
  BY <1>1, AtHeadParts
<1>4. ~Beyond(l)
  <2>1. h[j + 1] <= Len(written)
    BY <1>2, SectionRecorded
  <2> HIDE DEF l
  <2> QED BY <1>2, <1>3, <2>1 DEF Beyond
<1>5. st'.mode = "find" /\ st'.todo = st.todo /\ st'.length = st.length
  BY <1>1, <1>2, <1>4 DEF Fields
<1>6. \A k : Passed(st', k) <=> Passed(st, k)
  BY <1>2, <1>5 DEF Passed, Earlier, Done
<1> QED BY <1>1, <1>5, <1>6, ExactOn DEF Exact

LEMMA BrokenHeadCut ==
  ASSUME NEW b, NEW m, NEW h, NEW e, Loads(st, b, m, h, e), BrokenHead
  PROVE  stream # written
<1> SUFFICES ASSUME stream = written PROVE FALSE
  OBVIOUS
<1>1. Looks /\ Left = 1
  BY DEF BrokenHead
<1>2. /\ Recorded(b, m, h, e) /\ st.loc \in 1..Len(stream) /\ st.data = stream
      /\ Len(stream) \in Nat /\ Cut /\ Listing(st) /\ AtSection(st, b, m, h)
  BY <1>1, LooksParts, WholeSearch
<1>3. Len(stream) - st.loc > 0 /\ Left = Len(stream) - st.loc /\ Next1 = stream[st.loc + 1]
  BY <1>1, <1>2 DEF Left, Next1
<1>4. PICK j \in 1..(Count(b, m) + 1) : st.loc = h[j]
  BY <1>2 DEF AtSection
<1>5. /\ stream[st.loc + 1] = Name(Layouts[b][j].name) /\ j \in 1..Count(b, m)
      /\ h[j + 1] \in Nat /\ st.loc + 2 <= h[j + 1]
  BY <1>2, <1>3, <1>4, HeadFound
<1>7. h[j + 1] <= Len(written)
  BY <1>2, <1>5, SectionRecorded
<1> QED BY <1>1, <1>2, <1>3, <1>5, <1>7

LEMMA WholeEntry ==
  ASSUME NEW b, NEW m, NEW h, NEW e, Loads(st, b, m, h, e), stream = written, Reading
  PROVE  /\ Left > 1 /\ Left \in Int /\ Next1.cell = "name"
         /\ \E j \in 1..Count(b, m) : \E v \in 1..Len(Layouts[b][j].vars) : Here(b, m, h, e, j, v)
<1>1. AtVariable(st, b, m, h, e)
  BY ReadingParts DEF Reading, OnlyBytes
<1>2. PICK j \in 1..Count(b, m) : \E v \in 1..Len(Layouts[b][j].vars) : Here(b, m, h, e, j, v)
  BY <1>1, VariableHere
<1>3. PICK v \in 1..Len(Layouts[b][j].vars) : Here(b, m, h, e, j, v)
  BY <1>2
<1> DEFINE n == Len(Held(m, KeyAt(b, j, v)))
<1>4. /\ n \in Nat /\ st.loc \in Nat /\ Len(stream) \in Nat /\ Left = Len(stream) - st.loc /\ st.loc + 2 + n <= Len(written)
  BY <1>3, HereNumbers
<1> HIDE DEF n
<1>5. Left > 1 /\ Left > 0 /\ Left \in Int
  BY <1>4
<1>6. Next1 = Name(Layouts[b][j].vars[v].name)
  BY <1>3, <1>5 DEF Here
<1>7. Next1.cell = "name"
  BY <1>6 DEF Name
<1> QED BY <1>2, <1>5, <1>7

LEMMA NoBreakInWhole ==
  ASSUME NEW b, NEW m, NEW h, NEW e, Loads(st, b, m, h, e), stream = written
  PROVE  ~BrokenHead /\ ~BrokenEntry /\ ~NoSize /\ ~LoseWay
<1>1. ~BrokenHead
  BY BrokenHeadCut
<1>2. BrokenEntry \/ NoSize \/ LoseWay => Reading
  BY DEF BrokenEntry, NoSize, LoseWay
<1>3. ~BrokenEntry
  <2> SUFFICES ASSUME BrokenEntry PROVE FALSE
    OBVIOUS
  <2>1. Left > 1 /\ Left \in Int /\ Next1.cell = "name"
    BY <1>2, WholeEntry
  <2>2. Left = 0
    BY DEF BrokenEntry
  <2> QED BY <2>1, <2>2
<1>4. ~NoSize
  <2> SUFFICES ASSUME NoSize PROVE FALSE
    OBVIOUS
  <2>1. Left > 1 /\ Left \in Int
    BY <1>2, WholeEntry
  <2>2. Left = 1
    BY DEF NoSize
  <2> QED BY <2>1, <2>2
<1>5. ~LoseWay
  <2> SUFFICES ASSUME LoseWay PROVE FALSE
    OBVIOUS
  <2>1. Next1.cell = "name"
    BY <1>2, WholeEntry
  <2>2. Next1.cell = "byte"
    BY DEF LoseWay
  <2> QED BY <2>1, <2>2
<1> QED BY <1>1, <1>3, <1>4, <1>5

(* Passing an entry passes its variable, and no other. *)
LEMMA EntryPassed ==
  ASSUME NEW b, NEW m, NEW h, NEW e, Loads(st, b, m, h, e), Reading, NEW j \in 1..Count(b, m), NEW v \in 1..Len(Layouts[b][j].vars),
         Here(b, m, h, e, j, v), st'.mode = "read", st'.todo = st.todo, st'.loc = e[j][v + 1]
  PROVE  /\ Passed(st', KeyAt(b, j, v))
         /\ \A k : k # KeyAt(b, j, v) => (Passed(st', k) <=> Passed(st, k))
<1> DEFINE own == KeyAt(b, j, v)
           n == Len(Held(m, own))
           a == e[j][v]
           z == e[j][v + 1]
<1>1. /\ n \in Nat /\ a \in Nat /\ z = a + 2 + n /\ a = st.loc /\ Recorded(b, m, h, e)
      /\ own[1] = Sought(st) /\ st.mode = "read"
  <2>1. Recorded(b, m, h, e)
    BY DEF Loads
  <2>2. n \in Nat /\ a \in Nat
    BY <2>1, EntryRecorded
  <2>3. z = a + 2 + n
    BY <2>1, EntryRecorded
  <2>4. a = st.loc /\ own[1] = Sought(st)
    BY DEF Here, KeyAt
  <2> QED BY <2>1, <2>2, <2>3, <2>4 DEF Reading
<1>2. Places(own) = (a + 3)..(a + 2 + n)
  BY <1>1, PlacesRecorded
<1>3. written[a + 1].cell # "byte" /\ written[a + 2].cell # "byte"
  <2>1. written[a + 1] = Name(own[2]) /\ written[a + 2] = Number(n)
    BY <1>1, EntryRecorded
  <2> QED BY <2>1 DEF Name, Number
<1> HIDE DEF own, n, a, z
<1>4. Sought(st') = Sought(st) /\ \A k : Earlier(st', k) <=> Earlier(st, k)
  BY DEF Sought, Earlier, Done
<1>5. st'.loc = z
  BY DEF z
<1>6. ASSUME NEW k, k # own PROVE Places(k) \subseteq 1..z <=> Places(k) \subseteq 1..a
  <2>1. ASSUME NEW i \in Places(k), i \in 1..z PROVE i \in 1..a
    <3> SUFFICES ASSUME i \notin 1..a PROVE FALSE
      OBVIOUS
    <3>1. written[i].cell = "byte" /\ written[i].of[1] = k
      BY <2>1 DEF Places
    <3>2. i # a + 1 /\ i # a + 2
      BY <1>3, <3>1
    <3>3. i \in (a + 3)..(a + 2 + n)
      <4>1. n \in Nat /\ a \in Nat /\ z = a + 2 + n
        BY <1>1
      <4>2. i \in 1..(a + 2 + n)
        BY <2>1, <4>1
      <4>3. i \in Nat /\ 1 <= i /\ i <= a + 2 + n
        BY <4>1, <4>2
      <4>4. ~(i <= a)
        BY <4>1, <4>3
      <4> QED BY <3>2, <4>1, <4>3, <4>4
    <3>4. i \in Places(own)
      BY <1>2, <3>3
    <3>5. written[i].of[1] = own
      BY <3>4 DEF Places
    <3> QED BY <1>6, <3>1, <3>5
  <2>2. 1..a \subseteq 1..z
    BY <1>1
  <2> QED BY <2>1, <2>2
<1>7. Passed(st', own)
  <2>1. (a + 3)..(a + 2 + n) \subseteq 1..z
    BY <1>1
  <2> QED BY <1>1, <1>2, <1>4, <1>5, <2>1 DEF Passed
<1>8. ASSUME NEW k, k # own PROVE Passed(st', k) <=> Passed(st, k)
  BY <1>1, <1>4, <1>5, <1>6, <1>8 DEF Passed
<1> QED BY <1>7, <1>8 DEF own

(* A variable of the section sought is in its list, with its size. *)
LEMMA SoughtKey ==
  ASSUME build \in DOMAIN Layouts, Listing(st), st.todo # <<>>, NEW k \in Keys(build) \cup {Length}, k[1] = Sought(st)
  PROVE  /\ \E x \in Range(Section.vars) : x.name = k[2]
         /\ k = Length => SizeOf(build, k) = 1
<1> DEFINE p == Done(st) + 1
           last == Len(Layouts[build])
<1>1. p \in 1..last /\ Section = Layouts[build][p] /\ Section.name = Sought(st)
  BY SectionSought DEF Section
<1>2. PICK j \in 1..(last - 1) : \E w \in 1..Len(Layouts[build][j].vars) :
                  KeyAt(build, j, w) = Length /\ Layouts[build][j].vars[w].size = 1
  BY FlashSections
<1>3. PICK w \in 1..Len(Layouts[build][j].vars) : KeyAt(build, j, w) = Length /\ Layouts[build][j].vars[w].size = 1
  BY <1>2
<1>4. j \in 1..last /\ last \in Nat
  BY LayoutParts
<1>5. k = Length => SizeOf(build, k) = 1
  BY <1>3, <1>4, SizeOfVariable
<1>6. \E i \in 1..last : \E x \in 1..Len(Layouts[build][i].vars) : k = KeyAt(build, i, x)
  <2>1. CASE k = Length
    BY <1>3, <1>4, <2>1
  <2>2. CASE k # Length
    BY <2>2, KeysAre
  <2> QED BY <2>1, <2>2
<1>7. PICK i \in 1..last : \E x \in 1..Len(Layouts[build][i].vars) : k = KeyAt(build, i, x)
  BY <1>6
<1>8. PICK x \in 1..Len(Layouts[build][i].vars) : k = KeyAt(build, i, x)
  BY <1>7
<1>9. k[1] = Layouts[build][i].name /\ k[2] = Layouts[build][i].vars[x].name
  BY <1>8 DEF KeyAt
<1>10. i = p
  BY <1>1, <1>7, <1>9, LayoutParts
<1>11. Layouts[build][i].vars[x] \in Range(Section.vars)
  <2>1. Sequence(Layouts[build][i].vars)
    BY <1>7, SectionParts
  <2>2. x \in DOMAIN Layouts[build][i].vars
    BY <1>8, <2>1, SequenceParts
  <2>3. Layouts[build][i].vars[x] \in Range(Layouts[build][i].vars)
    BY <2>2 DEF Range
  <2> QED BY <1>1, <1>10, <2>3
<1> QED BY <1>5, <1>9, <1>11

LEMMA ReadVariableExact ==
  ASSUME NEW b, NEW m, NEW h, NEW e, Loads(st, b, m, h, e), stream = written, Exact(st, b, m), ReadVariable,
         memory = [k \in Keys(build) |-> memory[k]]
  PROVE  Exact(st, b, m)'
<1>1. Reading /\ Left > 1 /\ Fits /\ UNCHANGED <<build, stream, written, before>>
  BY VariableRead DEF ReadVariable, AtEntry, Reading
<1>2. PICK j \in 1..Count(b, m) : \E v \in 1..Len(Layouts[b][j].vars) : Here(b, m, h, e, j, v) /\ Read(b, m, e, j, v)
  BY VariableRead
<1>3. PICK v \in 1..Len(Layouts[b][j].vars) : Here(b, m, h, e, j, v) /\ Read(b, m, e, j, v)
  BY <1>2
<1> DEFINE own == KeyAt(b, j, v)
           c == Held(m, own)
           n == Len(c)
<1>4. /\ n \in Nat /\ st.loc \in Nat /\ Len(stream) \in Nat /\ Left = Len(stream) - st.loc /\ st.loc + 2 + n <= Len(written)
  BY <1>1, <1>3, HereNumbers
<1>5. n <= Left - 2
  <2> HIDE DEF n
  <2> QED BY <1>4
<1>6. /\ memory' = IF own = Length \/ c = <<>> THEN memory ELSE [memory EXCEPT ![own] = c]
      /\ st' = [st EXCEPT !.loc = e[j][v + 1], !.length = IF own = Length /\ c # <<>> THEN c[1][2] ELSE st.length]
  <2>1. ~(n > Left - 2)
    <3>1. Left \in Int
      BY <1>4
    <3> HIDE DEF n
    <3> QED BY <1>4, <1>5, <3>1
  <2> QED BY <1>3, <2>1 DEF Read
<1>7. /\ Fields(st) /\ Recorded(b, m, h, e) /\ st.mode = "read" /\ build \in DOMAIN Layouts
  BY <1>1 DEF Loads, Reading
<1>8. /\ st'.mode = "read" /\ st'.todo = st.todo /\ st'.loc = e[j][v + 1]
      /\ st'.length = IF own = Length /\ c # <<>> THEN c[1][2] ELSE st.length
  BY <1>6, <1>7 DEF Fields
<1>9. Passed(st', own) /\ \A k : k # own => (Passed(st', k) <=> Passed(st, k))
  BY <1>1, <1>3, <1>8, EntryPassed
<1>10. /\ Cardinality(Places(own)) = n /\ (Places(own) # {} <=> n # 0) /\ (Places(own) # {} => BytesAt(Places(own)) = c)
       /\ Sequence(c) /\ own \in Keys(b) \cup {Length}
  <2>1. Cardinality(Places(own)) = n
    BY <1>7, PlacesRecorded
  <2>2. Places(own) # {} <=> n # 0
    BY <1>7, PlacesRecorded
  <2>3. Places(own) # {} => BytesAt(Places(own)) = c
    BY <1>7, PlacesRecorded
  <2>4. Sequence(c) /\ own \in Keys(b) \cup {Length}
    BY <1>7, EntryRecorded
  <2> QED BY <2>1, <2>2, <2>3, <2>4
<1>11. own # Flash => n = SizeOf(build, own)
  <2>1. Key = own /\ Next2.of = n
    BY <1>1, <1>3, KeyHere
  <2> QED BY <1>1, <2>1 DEF Fits, Expected
<1>12. b \in DOMAIN Layouts /\ m \in Memories(b)
  BY <1>7, EndRecorded
<1>13. own = Length => n = 1 /\ c[1][2] = Len(m[Flash])
  BY <1>10, <1>12, HeldParts
<1> HIDE DEF own, c
<1>14. n = 0 <=> c = <<>>
  <2>1. c = <<>> => n = 0
    OBVIOUS
  <2> QED BY <1>10, <2>1, SequenceParts
<1>15. ASSUME NEW k \in Keys(build), k # own PROVE memory'[k] = memory[k]
  BY <1>6, <1>15
<1>16. ASSUME own \in Keys(build) PROVE memory'[own] = Final(own)
  <2>1. own # Length
    BY <1>16 DEF Keys
  <2>2. CASE c = <<>>
    <3>1. Places(own) = {}
      BY <1>10, <1>14, <2>2
    <3>2. memory'[own] = memory[own] /\ Final(own) = before[own]
      BY <1>6, <2>2, <3>1, NotOffered
    <3>3. memory[own] = IF Passed(st, own) THEN Final(own) ELSE before[own]
      BY <1>16 DEF Exact
    <3> QED BY <3>2, <3>3
  <2>3. CASE c # <<>>
    <3>1. Places(own) # {} /\ BytesAt(Places(own)) = c
      BY <1>10, <1>14, <2>3
    <3>2. Offers(own)
      BY <1>10, <1>11, <3>1 DEF Offers
    <3>3. Final(own) = c
      BY <3>1, <3>2 DEF Final
    <3>4. memory' = [memory EXCEPT ![own] = c]
      BY <1>6, <2>1, <2>3
    <3>5. memory' = [k \in Keys(build) |-> IF k = own THEN c ELSE memory[k]]
      BY <3>4
    <3> QED BY <1>16, <3>3, <3>5
  <2> QED BY <2>2, <2>3
<1>17. ASSUME NEW k \in Keys(build) PROVE memory'[k] = IF Passed(st', k) THEN Final(k) ELSE before[k]
  <2>1. CASE k = own
    BY <1>9, <1>16, <2>1
  <2>2. CASE k # own
    BY <1>9, <1>15, <2>2 DEF Exact
  <2> QED BY <2>1, <2>2
<1>18. Passed(st', Length) => st'.length = Len(m[Flash])
  <2>1. CASE own = Length
    <3>1. n = 1
      BY <1>13, <2>1
    <3>2. c # <<>>
      <4> SUFFICES ASSUME c = <<>> PROVE FALSE
        OBVIOUS
      <4>1. n = 0
        BY <1>14
      <4> QED BY <3>1, <4>1
    <3> HIDE DEF n
    <3> QED BY <1>8, <1>13, <2>1, <3>2
  <2>2. CASE own # Length
    BY <1>8, <1>9, <2>2 DEF Exact
  <2> QED BY <2>1, <2>2
<1> QED BY <1>1, <1>17, <1>18, ExactOn

LEMMA PassOverExact ==
  ASSUME NEW b, NEW m, NEW h, NEW e, Loads(st, b, m, h, e), stream = written, Exact(st, b, m), PassOver
  PROVE  Exact(st, b, m)'
<1> DEFINE l == st.loc + 2 + Next2.of
<1>1. /\ Reading /\ ~Fits /\ Left > 1 /\ UNCHANGED <<build, stream, written, before>> /\ memory' = memory
      /\ IF Beyond(l) THEN NextSection(SeekTo(l)) ELSE st' = [st EXCEPT !.loc = l]
  BY DEF PassOver, AtEntry, Reading
<1>2. PICK j \in 1..Count(b, m) : \E v \in 1..Len(Layouts[b][j].vars) : Here(b, m, h, e, j, v)
  BY <1>1, WholeEntry
<1>3. PICK v \in 1..Len(Layouts[b][j].vars) : Here(b, m, h, e, j, v)
  BY <1>2
<1> DEFINE own == KeyAt(b, j, v)
           c == Held(m, own)
           n == Len(c)
<1>4. /\ n \in Nat /\ st.loc \in Nat /\ Len(written) \in Nat /\ e[j][v + 1] = st.loc + 2 + n /\ st.loc + 2 + n <= Len(written)
  BY <1>1, <1>3, HereNumbers
<1>5. Key = own /\ Next2.of = n /\ Next1.of = own[2]
  BY <1>1, <1>3, KeyHere DEF KeyAt
<1>6. /\ Fields(st) /\ Recorded(b, m, h, e) /\ st.mode = "read" /\ build \in DOMAIN Layouts /\ Listing(st) /\ st.todo # <<>>
      /\ st.data = stream
  BY <1>1, ReadingParts DEF Reading
<1>7. own[1] = Sought(st)
  BY <1>3 DEF Here, KeyAt
<1>8. /\ Cardinality(Places(own)) = n /\ (Places(own) # {} <=> n # 0) /\ own \in Keys(b) \cup {Length}
  <2>1. Cardinality(Places(own)) = n
    BY <1>6, PlacesRecorded
  <2>2. Places(own) # {} <=> n # 0
    BY <1>6, PlacesRecorded
  <2>3. own \in Keys(b) \cup {Length}
    BY <1>6, EntryRecorded
  <2> QED BY <2>1, <2>2, <2>3
<1>9. own = Length => n = 1
  BY <1>6, <1>8, EndRecorded, HeldParts
<1>10. own # Length => n = Len(m[own])
  BY DEF Held
<1> HIDE DEF l, c, own
<1>11. ~Beyond(l) /\ l = e[j][v + 1]
  <2> HIDE DEF n
  <2>1. l = st.loc + 2 + n
    BY <1>5 DEF l
  <2> QED BY <1>4, <1>6, <2>1 DEF Beyond
<1>12. /\ st'.mode = "read" /\ st'.todo = st.todo /\ st'.loc = e[j][v + 1] /\ st'.length = st.length
  BY <1>1, <1>6, <1>11 DEF Fields
<1>13. Passed(st', own) /\ \A k : k # own => (Passed(st', k) <=> Passed(st, k))
  BY <1>1, <1>3, <1>12, EntryPassed DEF own
<1>14. ASSUME own \in Keys(build) \cup {Length} PROVE InList /\ (own = Length => SizeOf(build, own) = 1)
  BY <1>5, <1>6, <1>7, <1>14, SoughtKey DEF InList
<1>15. own # Length
  <2> SUFFICES ASSUME own = Length PROVE FALSE
    OBVIOUS
  <2>1. InList /\ SizeOf(build, own) = 1 /\ n = 1
    BY <1>9, <1>14
  <2>2. own # Flash
    BY DEF Length, Flash
  <2> QED BY <1>1, <1>5, <2>1, <2>2 DEF Fits, Expected
<1>16. ASSUME own \in Keys(build) PROVE Final(own) = before[own]
  <2>1. InList
    BY <1>14, <1>16
  <2>2. own # Flash
    <3> SUFFICES ASSUME own = Flash PROVE FALSE
      OBVIOUS
    <3>1. Section.name = Flash[1] /\ Done(st) \in Nat
      BY <1>6, <1>7, SectionSought DEF Section
    <3>2. Done(st) + 1 = Len(Layouts[build])
      BY <1>6, <3>1, FlashIsLast
    <3>3. PICK i \in 1..(Len(Layouts[build]) - 1) : \E w \in 1..Len(Layouts[build][i].vars) : KeyAt(build, i, w) = Length
      BY <1>6, FlashSections
    <3>4. i \in 1..Done(st) /\ Layouts[build][i].name = Length[1]
      BY <3>1, <3>2, <3>3 DEF KeyAt
    <3>5. Passed(st, Length)
      BY <3>4 DEF Passed, Earlier
    <3>6. st.length = n
      BY <1>10, <1>15, <3>5 DEF Exact
    <3> QED BY <1>1, <1>5, <2>1, <3>6 DEF Fits, Expected
  <2>3. n # SizeOf(build, own)
    BY <1>1, <1>5, <2>1, <2>2 DEF Fits, Expected
  <2>4. ~Offers(own)
    BY <1>8, <2>2, <2>3 DEF Offers
  <2> QED BY <2>4 DEF Final
<1>17. ASSUME NEW k \in Keys(build) PROVE memory'[k] = IF Passed(st', k) THEN Final(k) ELSE before[k]
  <2>1. CASE k = own
    <3>1. memory[own] = IF Passed(st, own) THEN Final(own) ELSE before[own]
      BY <1>17, <2>1 DEF Exact
    <3> QED BY <1>1, <1>13, <1>16, <2>1, <3>1
  <2>2. CASE k # own
    BY <1>1, <1>13, <2>2 DEF Exact
  <2> QED BY <2>1, <2>2
<1>18. Passed(st', Length) => st'.length = Len(m[Flash])
  BY <1>12, <1>13, <1>15 DEF Exact
<1> QED BY <1>1, <1>17, <1>18, ExactOn

LEMMA ExactStep ==
  ASSUME NEW b, NEW m, NEW h, NEW e, Loads(st, b, m, h, e), stream = written, Exact(st, b, m), Mixed, Load, ~Loaded
  PROVE  Exact(st, b, m)'
BY SkipFlashExact, NotFoundExact, FoundExact, OtherSectionExact, ReadVariableExact, PassOverExact, EndChunkExact, NoBreakInWhole
   DEF Load, Mixed

-----------------------------------------------------------------------------
(* A save under way: the sections written so far, and those that are left.  A load under way. *)
Saving ==
  /\ st.mode = "write" /\ memory \in Memories(build) /\ Fields(st)
  /\ \E d, h, e : /\ Laid(st.data, build, memory, d, h, e) /\ d <= Count(build, memory)
                  /\ Sequence(st.todo) /\ Len(st.todo) = Count(build, memory) - d
                  /\ \A i \in 1..Len(st.todo) : st.todo[i] = Layouts[build][d + i]

Loading ==
  /\ st.mode \in {"find", "read"} /\ Mixed
  /\ \E b, m, h, e : Loads(st, b, m, h, e) /\ (stream = written => Exact(st, b, m))

SomeRecord == \E b, m, h, e : Recorded(b, m, h, e)

(* A load that has lost its way. *)
Wandering == st.mode = "lost" /\ Fields(st) /\ st.data = stream /\ CutInside /\ Mixed

FormatInv ==
  /\ build \in DOMAIN Layouts
  /\ memory = [k \in Keys(build) |-> memory[k]]
  /\ Cut
  /\ written = <<>> \/ SomeRecord
  /\ st = Idle \/ Saving \/ Loading \/ Wandering

LEMMA IdleIs == st = Idle => st.mode = "play" /\ Fields(st)
BY DEF Idle, Fields

LEMMA ModesApart ==
  ASSUME FormatInv
  PROVE  /\ st.mode = "play" <=> st = Idle
         /\ st.mode = "write" <=> Saving
         /\ st.mode \in {"find", "read"} <=> Loading
         /\ st.mode = "lost" <=> Wandering
BY IdleIs DEF FormatInv, Saving, Loading, Wandering

LEMMA FormatStarts == FormatInit => FormatInv
<1> SUFFICES ASSUME FormatInit PROVE FormatInv
  OBVIOUS
<1>1. build \in DOMAIN Layouts /\ memory \in Memories(build) /\ stream = <<>> /\ written = <<>> /\ st = Idle
  BY DEF FormatInit
<1>2. memory = [k \in Keys(build) |-> memory[k]]
  BY <1>1, MemoryParts
<1>3. Sequence(<<>>) /\ Len(<<>>) = 0
  <2>1. <<>> \in Seq({})
    OBVIOUS
  <2> QED BY <2>1 DEF Sequence
<1>4. Cut
  BY <1>1, <1>3 DEF Cut
<1> QED BY <1>1, <1>2, <1>4 DEF FormatInv

LEMMA PlayKeeps == ASSUME FormatInv, Play PROVE FormatInv'
<1>1. build \in DOMAIN Layouts /\ Cut /\ (written = <<>> \/ SomeRecord) /\ st = Idle
  BY ModesApart DEF FormatInv, Play
<1>2. memory' \in Memories(build) /\ build' = build /\ stream' = stream /\ st' = st /\ written' = written
  BY DEF Play
<1>3. memory' = [k \in Keys(build) |-> memory'[k]]
  BY <1>1, <1>2, MemoryParts
<1>4. (memory = [k \in Keys(build) |-> memory[k]])'
  BY <1>2, <1>3 DEF Keys
<1>5. Cut' /\ (SomeRecord => SomeRecord')
  BY <1>1, <1>2 DEF Cut, SomeRecord, Recorded
<1>6. st' = Idle
  BY <1>1, <1>2
<1> QED BY <1>1, <1>2, <1>4, <1>5, <1>6 DEF FormatInv, Idle

LEMMA RestartKeeps == ASSUME FormatInv, Restart PROVE FormatInv'
<1>1. build \in DOMAIN Layouts /\ Cut /\ (written = <<>> \/ SomeRecord) /\ st = Idle
  BY ModesApart DEF FormatInv, Restart
<1>2. build' \in DOMAIN Layouts /\ memory' \in Memories(build') /\ st' = st /\ written' = written
  BY DEF Restart
<1>3. PICK n \in 0..Len(stream) : stream' = SubSeq(stream, 1, n)
  BY DEF Restart
<1>4. (memory = [k \in Keys(build) |-> memory[k]])'
  <2>1. memory' = [k \in Keys(build') |-> memory'[k]]
    BY <1>2, MemoryParts
  <2> QED BY <2>1 DEF Keys
<1>5. PICK S : stream \in Seq(S)
  BY <1>1, Zenon DEF Cut, Sequence
<1>6. stream' \in Seq(S) /\ Len(stream') = n /\ \A i \in 1..n : stream'[i] = stream[i]
  <2>1. Len(stream) \in Nat
    BY <1>5
  <2>2. n \in Nat /\ n <= Len(stream)
    BY <2>1
  <2>3. n \in (1 - 1)..Len(stream)
    BY <2>1, <2>2
  <2> QED BY <1>3, <1>5, <2>1, <2>2
<1>7. Cut'
  <2>1. Sequence(stream')
    BY <1>6 DEF Sequence
  <2>2. Sequence(stream) /\ Sequence(written) /\ Len(stream) <= Len(written) /\ \A i \in 1..Len(stream) : stream[i] = written[i]
    BY <1>1 DEF Cut
  <2>3. Len(stream) \in Nat /\ Len(written) \in Nat
    BY <2>2, SequenceParts
  <2>4. n <= Len(written) /\ \A i \in 1..n : i \in 1..Len(stream)
    BY <2>2, <2>3
  <2> QED BY <1>2, <1>6, <2>1, <2>2, <2>4 DEF Cut
<1>8. SomeRecord => SomeRecord'
  BY <1>2 DEF SomeRecord, Recorded
<1>9. st' = Idle
  BY <1>1, <1>2
<1> QED BY <1>1, <1>2, <1>4, <1>7, <1>8, <1>9 DEF FormatInv, Idle

LEMMA SaveKeeps == ASSUME FormatInv, SaveSM PROVE FormatInv'
<1> DEFINE todo == IF memory[Flash] = <<>> THEN Front(Layouts[build]) ELSE Layouts[build]
           c == Count(build, memory)
<1>1. /\ build \in DOMAIN Layouts /\ Cut /\ (written = <<>> \/ SomeRecord) /\ memory = [k \in Keys(build) |-> memory[k]]
      /\ memory \in Memories(build)
  BY DEF FormatInv, SaveSM
<1>2. /\ build' = build /\ memory' = memory /\ stream' = stream /\ written' = written
      /\ st' = [Idle EXCEPT !.mode = "write", !.data = <<Header>>, !.todo = todo]
  BY DEF SaveSM
<1> HIDE DEF todo
<1>3. Fields(st') /\ st'.mode = "write" /\ st'.data = <<Header>> /\ st'.todo = todo
  BY <1>2 DEF Fields, Idle
<1>4. Sequence(todo) /\ Len(todo) = c - 0 /\ \A i \in 1..Len(todo) : todo[i] = Layouts[build][0 + i]
  <2> DEFINE x == Layouts[build]
  <2>1. PICK S : x \in Seq(S)
    <3>1. Sequence(x)
      BY <1>1, LayoutParts
    <3> QED BY <3>1, Zenon DEF Sequence
  <2>2. Len(x) \in Nat /\ Len(x) > 0
    BY <1>1, LayoutParts, <2>1, LayoutsAssumption DEF LayoutsAssumption
  <2>3. CASE memory[Flash] = <<>>
    <3>1. todo = SubSeq(x, 1, Len(x) - 1)
      BY <2>3 DEF todo, Front
    <3>2. c = Len(x) - 1
      BY <2>3 DEF Count
    <3> HIDE DEF x, c
    <3>3. todo \in Seq(S) /\ Len(todo) = Len(x) - 1 /\ \A i \in 1..(Len(x) - 1) : todo[i] = x[i]
      <4> DEFINE n == Len(x) - 1
      <4>1. n \in Nat /\ n <= Len(x) /\ n \in (1 - 1)..Len(x)
        BY <2>2
      <4> HIDE DEF n
      <4>2. SubSeq(x, 1, n) \in Seq(S) /\ Len(SubSeq(x, 1, n)) = n /\ \A i \in 1..n : SubSeq(x, 1, n)[i] = x[i]
        BY <2>1, <2>2, <4>1
      <4> QED BY <3>1, <4>2 DEF n
    <3>4. Len(todo) = c - 0 /\ \A i \in 1..Len(todo) : 0 + i = i
      BY <2>2, <3>2, <3>3
    <3> QED BY <3>3, <3>4 DEF Sequence, x
  <2>4. CASE memory[Flash] # <<>>
    <3>1. todo = x
      BY <2>4 DEF todo
    <3>2. c = Len(x)
      BY <2>4 DEF Count
    <3> HIDE DEF x, c
    <3>4. Len(todo) = c - 0 /\ \A i \in 1..Len(todo) : 0 + i = i
      BY <2>2, <3>1, <3>2
    <3> QED BY <2>1, <3>1, <3>4 DEF Sequence, x
  <2> QED BY <2>3, <2>4
<1>5. PICK h, e : Laid(<<Header>>, build, memory, 0, h, e)
  BY <1>1, NothingLaid
<1>6. c \in Nat /\ 0 <= c
  BY <1>1, CountParts
<1>7. /\ Laid(st'.data, build, memory, 0, h, e) /\ 0 <= c /\ Sequence(st'.todo) /\ Len(st'.todo) = c - 0
      /\ \A i \in 1..Len(st'.todo) : st'.todo[i] = Layouts[build][0 + i]
  BY <1>3, <1>4, <1>5, <1>6
<1>8. Saving'
  <2>1. /\ Laid(st'.data, build', memory', 0, h, e) /\ 0 <= Count(build', memory') /\ Sequence(st'.todo)
        /\ Len(st'.todo) = Count(build', memory') - 0
        /\ \A i \in 1..Len(st'.todo) : st'.todo[i] = Layouts[build'][0 + i]
    BY <1>2, <1>7
  <2>2. (memory \in Memories(build))'
    BY <1>1, <1>2
  <2>3. \E d, g, f : /\ Laid(st'.data, build', memory', d, g, f) /\ d <= Count(build', memory') /\ Sequence(st'.todo)
                     /\ Len(st'.todo) = Count(build', memory') - d
                     /\ \A i \in 1..Len(st'.todo) : st'.todo[i] = Layouts[build'][d + i]
    BY <2>1, Zenon
  <2> QED BY <1>3, <2>2, <2>3 DEF Saving, Fields
<1>9. Cut' /\ (SomeRecord => SomeRecord') /\ (memory = [k \in Keys(build) |-> memory[k]])'
  BY <1>1, <1>2 DEF Cut, SomeRecord, Recorded, Keys
<1> QED BY <1>1, <1>2, <1>8, <1>9 DEF FormatInv

LEMMA WriteKeeps == ASSUME FormatInv, WriteSection PROVE FormatInv'
<1> DEFINE c == Count(build, memory)
           x == st.todo
<1>1. /\ build \in DOMAIN Layouts /\ Cut /\ (written = <<>> \/ SomeRecord) /\ memory = [k \in Keys(build) |-> memory[k]]
      /\ Saving /\ x # <<>>
  BY ModesApart DEF FormatInv, WriteSection
<1>2. /\ build' = build /\ memory' = memory /\ stream' = stream /\ written' = written
      /\ st' = [st EXCEPT !.data = WriteStateChunk(st.data, Head(x)), !.todo = Tail(x)]
  BY DEF WriteSection
<1>3. Fields(st) /\ st.mode = "write" /\ memory \in Memories(build)
  BY <1>1 DEF Saving
<1>4. PICK d, h, e : /\ Laid(st.data, build, memory, d, h, e) /\ d <= c
                     /\ Sequence(x) /\ Len(x) = c - d
                     /\ \A i \in 1..Len(x) : x[i] = Layouts[build][d + i]
  BY <1>1, Zenon DEF Saving
<1>5. c \in Nat /\ c <= Len(Layouts[build]) /\ Len(Layouts[build]) \in Nat
  BY <1>1, CountParts, LayoutParts
<1>6. d \in Nat
  <2>1. d \in 0..Len(Layouts[build])
    BY <1>4 DEF Laid
  <2> QED BY <1>5, <2>1
<1>7. PICK S : x \in Seq(S)
  BY <1>4, Zenon DEF Sequence
<1> HIDE DEF x
<1>8. Len(x) \in Nat /\ Len(x) # 0
  BY <1>1, <1>4, <1>7, SequenceParts
<1>9. /\ Tail(x) \in Seq(S) /\ Len(Tail(x)) = Len(x) - 1 /\ \A i \in 1..(Len(x) - 1) : Tail(x)[i] = x[i + 1]
      /\ Head(x) = x[1]
  BY <1>1, <1>7, <1>8
<1> HIDE DEF c
<1>10. Head(x) = Layouts[build][d + 1]
  <2>1. 1 \in 1..Len(x)
    BY <1>8
  <2> QED BY <1>4, <1>9, <2>1
<1>11. PICK g, f : Laid(WriteStateChunk(st.data, Layouts[build][d + 1]), build, memory, d + 1, g, f)
  <2>1. d < Len(Layouts[build])
    BY <1>4, <1>5, <1>6, <1>8
  <2> QED BY <1>1, <1>3, <1>4, <2>1, OneMoreLaid
<1>12. d + 1 <= c /\ Len(Tail(x)) = c - (d + 1)
  BY <1>4, <1>5, <1>6, <1>8, <1>9
<1>13. ASSUME NEW i \in 1..Len(Tail(x)) PROVE Tail(x)[i] = Layouts[build][(d + 1) + i]
  <2> DEFINE n == i + 1
  <2>1. n \in 1..Len(x) /\ d + n = (d + 1) + i /\ i \in 1..(Len(x) - 1)
    BY <1>6, <1>8, <1>9
  <2>2. Tail(x)[i] = x[n]
    BY <1>9, <2>1
  <2> HIDE DEF n
  <2>3. x[n] = Layouts[build][d + n]
    BY <1>4, <2>1
  <2> QED BY <2>1, <2>2, <2>3
<1>14. Fields(st') /\ st'.mode = "write" /\ st'.data = WriteStateChunk(st.data, Layouts[build][d + 1]) /\ st'.todo = Tail(x)
  BY <1>2, <1>3, <1>10 DEF Fields
<1>15. Saving'
  <2>1. Sequence(Tail(x))
    BY <1>9 DEF Sequence
  <2>2. /\ Laid(st'.data, build', memory', d + 1, g, f) /\ d + 1 <= Count(build', memory') /\ Sequence(st'.todo)
        /\ Len(st'.todo) = Count(build', memory') - (d + 1)
        /\ \A i \in 1..Len(st'.todo) : st'.todo[i] = Layouts[build'][(d + 1) + i]
    BY <1>2, <1>11, <1>12, <1>13, <1>14, <2>1 DEF c
  <2>3. (memory \in Memories(build))'
    BY <1>2, <1>3
  <2>4. \E a, k, l : /\ Laid(st'.data, build', memory', a, k, l) /\ a <= Count(build', memory') /\ Sequence(st'.todo)
                     /\ Len(st'.todo) = Count(build', memory') - a
                     /\ \A i \in 1..Len(st'.todo) : st'.todo[i] = Layouts[build'][a + i]
    BY <2>2, Zenon
  <2> QED BY <1>14, <2>3, <2>4 DEF Saving, Fields
<1>16. Cut' /\ (SomeRecord => SomeRecord') /\ (memory = [k \in Keys(build) |-> memory[k]])'
  BY <1>1, <1>2 DEF Cut, SomeRecord, Recorded, Keys
<1> QED BY <1>1, <1>2, <1>15, <1>16 DEF FormatInv

LEMMA SavedKeeps == ASSUME FormatInv, Saved PROVE FormatInv'
<1> DEFINE c == Count(build, memory)
<1>1. /\ build \in DOMAIN Layouts /\ memory = [k \in Keys(build) |-> memory[k]] /\ Saving /\ st.todo = <<>>
  BY ModesApart DEF FormatInv, Saved
<1>2. build' = build /\ memory' = memory /\ stream' = st.data /\ written' = st.data /\ st' = Idle
  BY DEF Saved
<1>3. memory \in Memories(build)
  BY <1>1 DEF Saving
<1>4. PICK d, h, e : Laid(st.data, build, memory, d, h, e) /\ d <= c /\ Len(st.todo) = c - d
  BY <1>1, Zenon DEF Saving
<1>5. d = c
  <2>1. c \in Nat /\ Len(Layouts[build]) \in Nat
    BY <1>1, CountParts, LayoutParts
  <2>2. d \in 0..Len(Layouts[build])
    BY <1>4 DEF Laid
  <2>3. Len(st.todo) = 0
    BY <1>1
  <2> HIDE DEF c
  <2> QED BY <1>4, <2>1, <2>2, <2>3
<1>6. SomeRecord'
  <2>1. Laid(written', build, memory, Count(build, memory), h, e)
    BY <1>2, <1>4, <1>5
  <2>2. \E b, m : b = build /\ m = memory
    OBVIOUS
  <2>3. PICK b, m : b = build /\ m = memory
    BY <2>2
  <2>4. b \in DOMAIN Layouts /\ m \in Memories(b) /\ Laid(written', b, m, Count(b, m), h, e)
    BY <1>1, <1>3, <2>1, <2>3
  <2>5. Recorded(b, m, h, e)'
    BY <2>4 DEF Recorded
  <2> QED BY <2>5 DEF SomeRecord
<1>7. Cut'
  <2>1. Sequence(st.data)
    BY <1>4 DEF Laid
  <2>2. Len(st.data) \in Nat
    BY <2>1, SequenceParts
  <2> QED BY <1>2, <2>1, <2>2 DEF Cut
<1>8. (memory = [k \in Keys(build) |-> memory[k]])'
  BY <1>1, <1>2 DEF Keys
<1> QED BY <1>1, <1>2, <1>6, <1>7, <1>8 DEF FormatInv, Idle

LEMMA BeginKeeps == ASSUME FormatInv, LoadSM PROVE FormatInv'
<1>1. /\ build \in DOMAIN Layouts /\ Cut /\ (written = <<>> \/ SomeRecord) /\ memory = [k \in Keys(build) |-> memory[k]]
      /\ stream # <<>>
  BY DEF FormatInv, LoadSM
<1>2. /\ build' = build /\ memory' = memory /\ stream' = stream /\ written' = written /\ before' = memory
      /\ st' = [Idle EXCEPT !.mode = "find", !.data = stream, !.loc = 1, !.todo = Layouts[build]]
  BY DEF LoadSM
<1>3. /\ Fields(st') /\ st'.mode = "find" /\ st'.data = stream /\ st'.loc = 1 /\ st'.todo = Layouts[build]
      /\ st'.total = 0 /\ st'.end = 0 /\ st'.length = 0
  BY <1>2 DEF Fields, Idle
<1>4. Len(stream) \in Nat /\ Len(stream) >= 1 /\ Len(written) \in Nat /\ Len(stream) <= Len(written)
  <2>1. Sequence(stream) /\ Sequence(written) /\ Len(stream) <= Len(written)
    BY <1>1 DEF Cut
  <2>2. Len(stream) \in Nat /\ Len(stream) # 0 /\ Len(written) \in Nat
    BY <1>1, <2>1, SequenceParts
  <2> QED BY <2>1, <2>2
<1>5. SomeRecord
  <2>1. written # <<>>
    <3> SUFFICES ASSUME written = <<>> PROVE FALSE
      OBVIOUS
    <3>1. Len(written) = 0
      OBVIOUS
    <3> QED BY <1>4, <3>1
  <2> QED BY <1>1, <2>1
<1>6. PICK b, m, h, e : Recorded(b, m, h, e)
  BY <1>5, Zenon DEF SomeRecord
<1>7. Sequence(Layouts[build]) /\ Len(Layouts[build]) \in Nat
  BY <1>1, LayoutParts
<1>8. Done(st)' = 0
  BY <1>2, <1>3, <1>7 DEF Done
<1>9. Listing(st)'
  <2> DEFINE l == Layouts[build]
  <2>1. 1 \in 1..Len(stream) /\ 0 \in Nat
    BY <1>4
  <2>2. \A i \in 1..Len(l) : 0 + i = i
    BY <1>7
  <2>3. st'.todo = l /\ Layouts[build'] = l /\ Sequence(l) /\ Len(l) <= Len(l)
    BY <1>2, <1>3, <1>7
  <2> HIDE DEF l
  <2>4. \A i \in 1..Len(st'.todo) : st'.todo[i] = Layouts[build'][0 + i]
    BY <2>2, <2>3
  <2> QED BY <1>2, <1>3, <1>8, <2>1, <2>3, <2>4 DEF Listing
<1>10. h[1] = 1 /\ Count(b, m) \in Nat
  BY <1>6, EndRecorded
<1>11. AtSection(st, b, m, h)'
  <2>1. 1 \in 1..(Count(b, m) + 1) /\ 1 \in 1..1 /\ \A x : x \notin 1..(1 - 1)
    BY <1>10
  <2>2. st'.loc = h[1] /\ st'.loc - st'.total = h[1]
    BY <1>3, <1>10
  <2> QED BY <2>1, <2>2 DEF AtSection
<1>12. Loads(st, b, m, h, e)'
  <2>1. Cut' /\ Recorded(b, m, h, e)' /\ (build \in DOMAIN Layouts)'
    BY <1>1, <1>2, <1>6 DEF Cut, Recorded
  <2>2. Position(st, b, m, h, e)'
    BY <1>3, <1>11 DEF Position
  <2> QED BY <1>3, <1>9, <2>1, <2>2 DEF Loads, Fields
<1>13. Mixed'
  <2>1. \A k : Unmixed(k, memory[k])'
    BY <1>2 DEF Unmixed
  <2>2. (memory = [k \in Keys(build) |-> memory[k]])'
    BY <1>1, <1>2 DEF Keys
  <2> QED BY <2>1, <2>2 DEF Mixed
<1>14. Exact(st, b, m)'
  <2>1. \A k : ~Passed(st, k)'
    <3>1. \A i : i \notin 1..0
      OBVIOUS
    <3> QED BY <1>3, <1>8, <3>1 DEF Passed, Earlier
  <2>2. \A k \in Keys(build)' : memory'[k] = before'[k]
    BY <1>2
  <2> QED BY <2>1, <2>2 DEF Exact
<1>15. Loading'
  BY <1>3, <1>12, <1>13, <1>14 DEF Loading
<1>16. Cut' /\ (SomeRecord => SomeRecord') /\ (memory = [k \in Keys(build) |-> memory[k]])'
  BY <1>1, <1>2 DEF Cut, SomeRecord, Recorded, Keys
<1> QED BY <1>1, <1>2, <1>15, <1>16 DEF FormatInv

(* In a state that was cut, a name and a number with so many bytes behind them are a *)
(* variable that was saved, and it is whole.                                         *)
LEMMA RunRecorded ==
  ASSUME Cut, SomeRecord, NEW i \in 1..(Len(stream) - 2), NEW n \in 1..Len(stream), NEW x,
         stream[i] = Name(x), stream[i + 1] = Number(n), Run(i, n) \subseteq {y \in DOMAIN stream : stream[y].cell = "byte"}
  PROVE  \E k \in Stored : k[2] = x /\ InFull(k, [y \in 1..n |-> stream[i + 1 + y].of])
<1>1. PICK b, m, h, e : Recorded(b, m, h, e)
  BY Zenon DEF SomeRecord
<1>2. /\ Len(stream) \in Nat /\ Len(written) \in Nat /\ Len(stream) <= Len(written)
      /\ DOMAIN stream = 1..Len(stream) /\ DOMAIN written = 1..Len(written)
      /\ \A y \in 1..Len(stream) : stream[y] = written[y]
  BY SequenceParts DEF Cut
<1>3. i \in 1..Len(stream) /\ i + 1 \in 1..Len(stream) /\ i + 2 \in 1..Len(stream) /\ i + 2 \in 1..Len(written) /\ n \in Nat /\ n >= 1 /\ i \in Nat
  BY <1>2
<1>4. written[i] = Name(x) /\ written[i + 1] = Number(n)
  BY <1>2, <1>3
<1>5. i + 2 \in Run(i, n)
  BY <1>3 DEF Run
<1>6. written[i + 2].cell = "byte"
  <2>1. stream[i + 2].cell = "byte"
    BY <1>5
  <2> QED BY <1>2, <1>3, <2>1
<1>7. PICK j \in 1..Count(b, m) : \E v \in 1..Len(Layouts[b][j].vars) : HoldsAt(b, m, e, j, v, i + 2)
  BY <1>1, <1>2, <1>3, <1>6, BytesRecorded
<1>8. PICK v \in 1..Len(Layouts[b][j].vars) : HoldsAt(b, m, e, j, v, i + 2)
  BY <1>7
<1> DEFINE k == KeyAt(b, j, v)
           c == Held(m, k)
           a == e[j][v]
<1>9. PICK z \in 1..Len(c) : i + 2 = a + 2 + z
  BY <1>8 DEF HoldsAt
<1>10. Sequence(c) /\ Len(c) \in Nat /\ a \in Nat
  BY <1>1, EntryRecorded
<1>11. written[a + 1] = Name(k[2]) /\ written[a + 2] = Number(Len(c))
  BY <1>1, EntryRecorded
<1>12. \A y \in 1..Len(c) : written[a + 2 + y] = Byte(c[y])
  BY <1>1, EntryRecorded
<1>13. Places(k) = (a + 3)..(a + 2 + Len(c)) /\ (Places(k) # {} => BytesAt(Places(k)) = c)
  BY <1>1, PlacesRecorded
<1> HIDE DEF k, c, a
<1>14. z = 1
  <2> SUFFICES ASSUME z # 1 PROVE FALSE
    OBVIOUS
  <2> DEFINE y == z - 1
  <2>1. y \in 1..Len(c) /\ a + 2 + y = i + 1
    <3> DEFINE q == Len(c)
    <3>1. i \in Nat /\ q \in Nat /\ a \in Nat /\ z \in 1..q /\ i + 2 = a + 2 + z
      BY <1>3, <1>9, <1>10
    <3> HIDE DEF q
    <3> QED BY <3>1
  <2> HIDE DEF y
  <2>2. written[i + 1] = Byte(c[y])
    BY <1>12, <2>1
  <2> QED BY <1>4, <2>2 DEF Byte, Number
<1>15. a + 1 = i /\ a + 2 = i + 1
  BY <1>3, <1>9, <1>10, <1>14
<1>16. k[2] = x /\ Len(c) = n
  <2>1. Name(x) = Name(k[2]) /\ Number(n) = Number(Len(c))
    BY <1>4, <1>11, <1>15
  <2> QED BY <2>1 DEF Name, Number
<1>17. Places(k) = Run(i, n)
  <2>1. a + 3 = i + 2 /\ a + 2 + Len(c) = i + 1 + n
    BY <1>3, <1>10, <1>15, <1>16
  <2> QED BY <1>13, <2>1 DEF Run
<1>18. Places(k) \subseteq DOMAIN stream /\ i + 2 \in Places(k)
  BY <1>5, <1>17
<1>19. k \in Stored
  <2>1. i + 2 \in DOMAIN written /\ written[i + 2].of[1] = k
    BY <1>18 DEF Places
  <2> QED BY <1>6, <2>1 DEF Stored
<1>20. [y \in 1..n |-> stream[i + 1 + y].of] = BytesAt(Places(k))
  <2>1. ASSUME NEW y \in 1..n PROVE stream[i + 1 + y].of = c[y]
    <3> DEFINE w == i + 1 + y
    <3>1. w \in Run(i, n)
      BY <1>3 DEF Run
    <3>2. w \in 1..Len(stream)
      BY <1>2, <3>1
    <3>3. a + 2 + y = w
      BY <1>3, <1>10, <1>15
    <3> HIDE DEF w
    <3>4. stream[w] = written[w] /\ written[w] = Byte(c[y])
      BY <1>2, <1>12, <1>16, <3>2, <3>3
    <3> QED BY <3>4 DEF Byte, w
  <2>2. c = [y \in 1..n |-> c[y]]
    BY <1>10, <1>16, SequenceParts
  <2>3. [y \in 1..n |-> stream[i + 1 + y].of] = c
    BY <2>1, <2>2
  <2> QED BY <1>13, <1>18, <2>3
<1> QED BY <1>16, <1>18, <1>19, <1>20 DEF InFull

(* The way is lost within a variable that was cut. *)
LEMMA LosesWay == ASSUME FormatInv, LoseWay PROVE Wandering'
<1>1. /\ Reading /\ Left > 0 /\ Next1.cell = "byte" /\ memory' = memory
      /\ st' = [st EXCEPT !.mode = "lost", !.loc = 0, !.total = 0, !.end = 0]
  BY DEF LoseWay
<1>2. Loading /\ UNCHANGED <<build, stream, written, before>>
  BY <1>1, ModesApart DEF Reading
<1>3. PICK b, m, h, e : Loads(st, b, m, h, e)
  BY <1>2, Zenon DEF Loading
<1>4. /\ Fields(st) /\ st.data = stream /\ st.loc \in 1..Len(stream) /\ Len(stream) \in Nat /\ Left = Len(stream) - st.loc
      /\ AtVariable(st, b, m, h, e) \/ (OnlyBytes(st) /\ st.loc < st.end)
  BY <1>1, <1>3, ReadingParts DEF Reading
<1>5. ~AtVariable(st, b, m, h, e)
  <2> SUFFICES ASSUME AtVariable(st, b, m, h, e) PROVE FALSE
    OBVIOUS
  <2>1. PICK j \in 1..Count(b, m) : \E v \in 1..Len(Layouts[b][j].vars) : Here(b, m, h, e, j, v)
    BY <1>1, <1>3, VariableHere
  <2>2. PICK v \in 1..Len(Layouts[b][j].vars) : Here(b, m, h, e, j, v)
    BY <2>1
  <2>3. Next1 = Name(Layouts[b][j].vars[v].name)
    BY <1>1, <2>2 DEF Here
  <2> QED BY <1>1, <2>3 DEF Name
<1>6. CutInside
  <2>1. st.loc < Len(stream)
    BY <1>1, <1>4
  <2> QED BY <1>4, <1>5, <2>1 DEF OnlyBytes
<1>7. st'.mode = "lost" /\ Fields(st') /\ st'.data = stream
  BY <1>1, <1>4 DEF Fields
<1>8. Mixed
  BY <1>2 DEF Loading
<1>9. Mixed' /\ CutInside'
  BY <1>1, <1>2, <1>6, <1>8, MixedSame DEF Mixed
<1> QED BY <1>2, <1>7, <1>9 DEF Wandering, Fields

(* A step of a load that has lost its way mixes nothing. *)
LEMMA LostKeeps == ASSUME FormatInv, LostVariable \/ LostSection PROVE FormatInv' /\ st'.mode = "lost"
<1>1. st.mode = "lost" /\ UNCHANGED <<build, stream, written, before>>
  BY DEF LostVariable, LostSection, Lost
<1>2. /\ Wandering /\ build \in DOMAIN Layouts /\ Cut /\ (written = <<>> \/ SomeRecord)
  BY <1>1, ModesApart DEF FormatInv
<1>3. Fields(st) /\ st.data = stream /\ CutInside /\ Mixed
  BY <1>2 DEF Wandering
<1>4. Cut' /\ (SomeRecord => SomeRecord')
  BY <1>1, <1>2 DEF Cut, SomeRecord, Recorded
<1>5. SomeRecord
  <2>1. written # <<>>
    <3> SUFFICES ASSUME written = <<>> PROVE FALSE
      OBVIOUS
    <3>1. Len(written) = 0
      OBVIOUS
    <3>2. 0 < Len(stream) /\ Len(stream) < Len(written)
      BY <1>3 DEF CutInside
    <3>3. Len(stream) \in Nat
      BY <1>2, SequenceParts DEF Cut
    <3> QED BY <3>1, <3>2, <3>3
  <2> QED BY <1>2, <2>1
<1>6. /\ Keys(build)' = Keys(build) /\ CutInside' = CutInside
      /\ \A k, bytes : Unmixed(k, bytes)' <=> Unmixed(k, bytes)
  BY <1>1, MixedSame
<1>7. Fields(st') /\ st'.mode = "lost" /\ st'.data = stream
  <2>1. CASE LostSection
    BY <1>1, <1>3, <2>1 DEF LostSection, Fields
  <2>2. CASE LostVariable
    <3>1. \E length : st' = [st EXCEPT !.length = length]
      BY <2>2 DEF LostVariable
    <3> QED BY <1>1, <1>3, <3>1 DEF Fields
  <2> QED BY <2>1, <2>2
<1>8. Mixed'
  <2>1. CASE memory' = memory
    BY <1>3, <1>6, <2>1 DEF Mixed
  <2>2. CASE LostVariable /\ memory' # memory
    <3>8. PICK v \in Range(Section.vars), i \in 1..(Len(st.data) - 2), n \in 1..Len(st.data) :
            /\ st.data[i] = Name(v.name) /\ st.data[i + 1] = Number(n)
            /\ Run(i, n) \subseteq {x \in DOMAIN st.data : st.data[x].cell = "byte"}
            /\ memory' = IF <<Section.name, v.name>> = Length THEN memory
                         ELSE [memory EXCEPT ![<<Section.name, v.name>>] = [x \in 1..n |-> st.data[i + 1 + x].of]]
      BY <2>2, Zenon DEF LostVariable
    <3>9. st.data = stream
      BY <1>3
    <3>1. /\ i \in 1..(Len(stream) - 2) /\ n \in 1..Len(stream)
          /\ stream[i] = Name(v.name) /\ stream[i + 1] = Number(n)
          /\ Run(i, n) \subseteq {x \in DOMAIN stream : stream[x].cell = "byte"}
      BY <3>8, <3>9
    <3>10. memory' = [memory EXCEPT ![<<Section.name, v.name>>] = [x \in 1..n |-> stream[i + 1 + x].of]]
      <4>1. memory' = [memory EXCEPT ![<<Section.name, v.name>>] = [x \in 1..n |-> st.data[i + 1 + x].of]]
        BY <2>2, <3>8
      <4> QED BY <3>9, <4>1
    <3> DEFINE key == <<Section.name, v.name>>
               bytes == [x \in 1..n |-> stream[i + 1 + x].of]
    <3>2. \E k \in Stored : k[2] = v.name /\ InFull(k, bytes)
      BY <1>2, <1>5, <3>1, RunRecorded
    <3>3. key[2] = v.name /\ memory' = [memory EXCEPT ![key] = bytes]
      BY <3>10
    <3> HIDE DEF key, bytes
    <3>4. Unmixed(key, bytes)
      BY <1>3, <3>2, <3>3 DEF Unmixed
    <3>5. memory' = [l \in Keys(build) |-> IF l = key THEN bytes ELSE memory[l]]
      BY <1>3, <3>3 DEF Mixed
    <3>6. ASSUME NEW l \in Keys(build) PROVE Unmixed(l, memory'[l])
      BY <1>3, <3>4, <3>5 DEF Mixed
    <3>7. memory' = [l \in Keys(build) |-> memory'[l]]
      BY <3>5
    <3> QED BY <1>6, <3>6, <3>7 DEF Mixed
  <2>3. CASE LostSection
    BY <2>1, <2>3 DEF LostSection
  <2> QED BY <2>1, <2>2, <2>3
<1>9. Wandering'
  BY <1>1, <1>3, <1>6, <1>7, <1>8 DEF Wandering, Fields
<1> QED BY <1>1, <1>2, <1>4, <1>7, <1>8, <1>9 DEF FormatInv, Mixed

LEMMA LoadKeeps == ASSUME FormatInv, Load PROVE FormatInv'
<1>1. /\ build \in DOMAIN Layouts /\ Cut /\ (written = <<>> \/ SomeRecord) /\ memory = [k \in Keys(build) |-> memory[k]]
  BY DEF FormatInv
<1>9. ASSUME ~Loaded PROVE UNCHANGED <<build, stream, written, before>> /\ st.mode \in {"find", "read"}
  BY <1>9 DEF Load, SkipFlash, NotFound, BrokenHead, Found, OtherSection, AtHead, Looks, Finding, BrokenEntry, NoSize, ReadVariable, LoseWay, PassOver,
         AtEntry, Reading, EndChunk
<1>2. UNCHANGED <<build, stream, written, before>> /\ (Loaded \/ st.mode \in {"find", "read"})
  BY <1>9 DEF Loaded
<1>4. Cut' /\ (SomeRecord => SomeRecord')
  BY <1>1, <1>2 DEF Cut, SomeRecord, Recorded
<1>5. CASE Loaded
  <2>1. st' = Idle /\ memory' = memory
    BY <1>5 DEF Loaded
  <2>2. (memory = [k \in Keys(build) |-> memory[k]])'
    BY <1>1, <1>2, <2>1 DEF Keys
  <2> QED BY <1>1, <1>2, <1>4, <2>1, <2>2 DEF FormatInv, Idle
<1>7. CASE LoseWay
  <2>1. Wandering'
    BY <1>7, LosesWay
  <2> QED BY <1>1, <1>2, <1>4, <2>1 DEF FormatInv, Wandering, Mixed
<1>6. CASE ~Loaded /\ ~LoseWay
  <2>0. Loading
    BY <1>2, <1>6, ModesApart
  <2>1. PICK b, m, h, e : Loads(st, b, m, h, e) /\ (stream = written => Exact(st, b, m))
    BY <2>0, Zenon DEF Loading
  <2>2. Mixed
    BY <2>0 DEF Loading
  <2>3. Loads(st, b, m, h, e)'
    BY <1>6, <2>1, LoadStep
  <2>4. Mixed'
    BY <1>6, <2>1, <2>2, MixedStep
  <2>5. (stream = written => Exact(st, b, m))'
    BY <1>2, <1>6, <2>1, <2>2, ExactStep
  <2>6. (st.mode \in {"find", "read"})'
    BY <2>3 DEF Loads, Position
  <2>7. Loading'
    BY <2>3, <2>4, <2>5, <2>6 DEF Loading
  <2> QED BY <1>1, <1>2, <1>4, <2>4, <2>7 DEF FormatInv, Mixed
<1> QED BY <1>5, <1>6, <1>7

LEMMA FormatKeeps == ASSUME FormatInv, [FormatNext]_formatVars PROVE FormatInv'
<1>1. CASE UNCHANGED formatVars
  <2>1. UNCHANGED <<build, memory, stream, st, written, before>>
    BY <1>1 DEF formatVars
  <2>2. Cut' = Cut /\ SomeRecord' = SomeRecord /\ Keys(build)' = Keys(build)
    BY <2>1 DEF Cut, SomeRecord, Recorded, Keys
  <2>3. Saving' = Saving
    BY <2>1 DEF Saving, Fields
  <2>4. \A k : Places(k)' = Places(k) /\ BytesAt(Places(k))' = BytesAt(Places(k)) /\ Final(k)' = Final(k)
    BY <2>1 DEF Places, BytesAt, Final, Offers
  <2>12. CutInside' = CutInside /\ \A k, bytes : Unmixed(k, bytes)' <=> Unmixed(k, bytes)
    BY <2>1, MixedSame
  <2>5. Mixed' <=> Mixed
    BY <2>1, <2>2, <2>12 DEF Mixed
  <2>13. Wandering => Wandering'
    BY <2>1, <2>5, <2>12 DEF Wandering, Fields
  <2>6. Done(st)' = Done(st) /\ Sought(st)' = Sought(st)
    BY <2>1 DEF Done, Sought
  <2>7. \A k : Passed(st, k)' = Passed(st, k)
    BY <2>1, <2>4, <2>6 DEF Passed, Earlier
  <2>8. \A b, m : Exact(st, b, m)' = Exact(st, b, m)
    BY <2>1, <2>2, <2>4, <2>7 DEF Exact
  <2>9. ASSUME NEW b, NEW m, NEW h, NEW e, Loads(st, b, m, h, e) PROVE Loads(st, b, m, h, e)'
    <3>1. Position(st, b, m, h, e)' = Position(st, b, m, h, e) /\ Listing(st)' = Listing(st)
      BY <2>1, <2>6 DEF Position, AtSection, AtVariable, OnlyBytes, CutInside, Listing
    <3>2. Recorded(b, m, h, e)' = Recorded(b, m, h, e) /\ Fields(st)' = Fields(st)
      BY <2>1 DEF Recorded, Fields
    <3> QED BY <2>1, <2>2, <2>9, <3>1, <3>2 DEF Loads
  <2>10. ASSUME Loading PROVE Loading'
    <3>1. PICK b, m, h, e : Loads(st, b, m, h, e) /\ (stream = written => Exact(st, b, m))
      BY <2>10, Zenon DEF Loading
    <3>2. Loads(st, b, m, h, e)' /\ (stream = written => Exact(st, b, m))'
      BY <2>1, <2>8, <2>9, <3>1
    <3> QED BY <2>1, <2>5, <2>10, <3>2 DEF Loading
  <2>11. (st = Idle)' = (st = Idle) /\ (memory = [k \in Keys(build) |-> memory[k]])' = (memory = [k \in Keys(build) |-> memory[k]])
    BY <2>1, <2>2 DEF Idle, Keys
  <2> QED BY <2>1, <2>2, <2>3, <2>10, <2>11, <2>13 DEF FormatInv
<1> QED BY <1>1, PlayKeeps, RestartKeeps, SaveKeeps, WriteKeeps, SavedKeeps, BeginKeeps, LoadKeeps, LostKeeps DEF FormatNext

\* FormatHolds: at every step of a save what has been written is the list of sections up to
\* some place, and at every step of a load the stream stands where a section or a variable of
\* the saved state begins, or in the rest of one that the cut has broken; a load loses its way
\* only if the state was cut inside a variable (state.c:268-526).
THEOREM FormatHolds == FormatSpec => []FormatInv
<1>1. FormatInv /\ [FormatNext]_formatVars => FormatInv'
  BY FormatKeeps
<1> QED BY <1>1, FormatStarts, PTL DEF FormatSpec

-----------------------------------------------------------------------------
(* The only step that ends a load is Loaded. *)
LEMMA LoadedEnds ==
  ASSUME FormatInv, [FormatNext]_formatVars, EndsLoad
  PROVE  (Loading \/ Wandering) /\ st.todo = <<>> /\ UNCHANGED <<build, memory, stream, written, before>>
<1>1. (st.mode = "find" /\ Loading) \/ (st.mode = "lost" /\ Wandering)
  BY ModesApart DEF EndsLoad
<1>2. st'.mode = "play" /\ ~UNCHANGED formatVars
  BY DEF EndsLoad, formatVars
<1>3. Loaded
  <2>1. ASSUME Load, ~Loaded PROVE FALSE
    <3>0. ~LoseWay /\ st.mode = "find"
      <4>1. st.mode \in {"find", "read"}
        BY <2>1 DEF Load, SkipFlash, NotFound, BrokenHead, Found, OtherSection, AtHead, Looks, Finding, BrokenEntry, LoseWay, NoSize,
           ReadVariable, PassOver, AtEntry, Reading, EndChunk
      <4> QED BY <1>1, <4>1 DEF LoseWay, Reading
    <3>1. PICK b, m, h, e : Loads(st, b, m, h, e)
      BY <1>1, <3>0, Zenon DEF Loading
    <3>2. Loads(st, b, m, h, e)'
      BY <2>1, <3>0, <3>1, LoadStep
    <3>3. st'.mode \in {"find", "read"}
      BY <3>2 DEF Loads, Position
    <3> QED BY <1>2, <3>3
  <2>2. ~(LostVariable \/ LostSection)
    BY <1>2, LostKeeps
  <2> QED BY <1>1, <1>2, <2>1, <2>2 DEF FormatNext, Play, Restart, SaveSM, WriteSection, Saved, LoadSM
<1> QED BY <1>1, <1>3 DEF Loaded

\* LoadsRestore: a load of a whole state leaves every variable that the state has in this
\* build's section, name and size as it was when it was saved and every other one as it was
\* before, for any two builds and any order of their lists (MDFNSS_StateAction(), state.c).
THEOREM LoadsRestore == FormatSpec => LoadRestores
<1>1. ASSUME FormatInv, [FormatNext]_formatVars
      PROVE  [EndsLoad /\ stream = written =>
                memory' = [k \in DOMAIN memory |-> IF Offers(k) THEN BytesAt(Places(k)) ELSE before[k]]]_formatVars
  <2> SUFFICES ASSUME EndsLoad, stream = written
               PROVE  memory' = [k \in DOMAIN memory |-> IF Offers(k) THEN BytesAt(Places(k)) ELSE before[k]]
    OBVIOUS
  <2>0. ~Wandering
    <3>1. Len(stream) \in Nat
      BY <1>1, SequenceParts DEF FormatInv, Cut
    <3> QED BY <3>1 DEF Wandering, CutInside
  <2>1. Loading /\ st.todo = <<>> /\ UNCHANGED <<build, memory, stream, written, before>>
    BY <1>1, <2>0, LoadedEnds
  <2>2. PICK b, m, h, e : Loads(st, b, m, h, e) /\ Exact(st, b, m)
    BY <2>1, Zenon DEF Loading
  <2>3. memory = [k \in Keys(build) |-> memory[k]] /\ build \in DOMAIN Layouts
    BY <1>1 DEF FormatInv
  <2>4. Done(st) = Len(Layouts[build])
    <3>1. Len(st.todo) = 0 /\ Len(Layouts[build]) \in Nat
      BY <2>1, <2>3, LayoutParts
    <3> QED BY <3>1 DEF Done
  <2>5. ASSUME NEW k \in Keys(build) PROVE memory[k] = Final(k)
    <3>1. PICK j \in 1..Len(Layouts[build]) : \E v \in 1..Len(Layouts[build][j].vars) : k = KeyAt(build, j, v)
      BY <2>3, KeysAre
    <3>2. k[1] = Layouts[build][j].name
      BY <3>1 DEF KeyAt
    <3>3. Passed(st, k)
      BY <2>4, <3>1, <3>2 DEF Passed, Earlier
    <3> QED BY <2>2, <3>3 DEF Exact
  <2>6. memory = [k \in Keys(build) |-> Final(k)]
    BY <2>3, <2>5
  <2>7. DOMAIN memory = Keys(build)
    BY <2>6
  <2> QED BY <2>1, <2>6, <2>7 DEF Final
<1> QED BY <1>1, FormatHolds, PTL DEF FormatSpec, LoadRestores

\* CutLoadsNothingHalf: wherever the state was cut off, no variable is a mixture of the state
\* and of what it was: it keeps its bytes, or has those of one that the state holds in full,
\* its own or, after a cut inside a variable, one of its name (smem_read(), smem_seek()).
THEOREM CutLoadsNothingHalf == FormatSpec => CutLoadsWholeVariables
<1>1. ASSUME FormatInv, [FormatNext]_formatVars
      PROVE  [EndsLoad =>
                \A k \in DOMAIN memory :
                   \/ memory'[k] = before[k] \/ InFull(k, memory'[k])
                   \/ CutInside /\ \E j \in Stored : j[2] = k[2] /\ InFull(j, memory'[k])]_formatVars
  <2> SUFFICES ASSUME EndsLoad, NEW k \in DOMAIN memory PROVE Unmixed(k, memory'[k])
    BY DEF Unmixed
  <2>1. Mixed /\ memory' = memory
    BY <1>1, LoadedEnds DEF Loading, Wandering
  <2>2. k \in Keys(build)
    BY <2>1 DEF Mixed
  <2> QED BY <2>1, <2>2 DEF Mixed
<1> QED BY <1>1, FormatHolds, PTL DEF FormatSpec, CutLoadsWholeVariables

===============================================================================
