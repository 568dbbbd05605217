------------------------ MODULE SettledGroups_proofs ------------------------
(***************************************************************************)
(* What settledGroups computes, for ranges and additions of any number.    *)
(*                                                                         *)
(* Nothing is defined by recursion, so what takes an induction (how far a  *)
(* merge reaches, how many ranges there can be) is proved from the least   *)
(* element of a set of naturals: a least counterexample is impossible.     *)
(***************************************************************************)
EXTENDS SettledAdditions, SequenceTheorems, WellFoundedInduction, TLAPS

LEMMA LeastOf ==
  ASSUME NEW S \in SUBSET Nat, S # {}
  PROVE  \E m \in S : \A n \in S : m <= n
<1> DEFINE R == {ss \in Nat \X Nat : ss[1] < ss[2]}
<1>1. IsWellFoundedOn(R, Nat)
  BY NatLessThanWellFounded DEF OpToRel
<1>2. PICK m \in S : \A n \in S : <<n, m>> \notin R
  <2> HIDE DEF R
  <2> QED
    BY <1>1, WFMin
<1>3. \A n \in S : ~(n < m)
  BY <1>2
<1>4. QED
  BY <1>3

LEMMA GreatestOf ==
  ASSUME NEW S \in SUBSET Nat, S # {}, NEW b \in Nat, \A n \in S : n <= b
  PROVE  \E m \in S : \A n \in S : n <= m
<1> DEFINE D == {d \in Nat : b - d \in S}
<1>1. D # {}
  <2>1. PICK n \in S : TRUE
    OBVIOUS
  <2>2. b - n \in D
    BY <2>1
  <2>3. QED
    BY <2>2
<1>2. PICK d \in D : \A e \in D : d <= e
  BY <1>1, LeastOf
<1>3. \A n \in S : b - n \in D
  OBVIOUS
<1>4. QED
  BY <1>2, <1>3

(* Max is the greatest element of what has a bound. *)
LEMMA MaxIsGreatest ==
  ASSUME NEW S \in SUBSET Nat, S # {}, NEW b \in Nat, \A n \in S : n <= b
  PROVE  Max(S) \in S /\ \A n \in S : n <= Max(S)
<1>1. PICK m \in S : \A n \in S : n <= m
  BY GreatestOf
<1>2. \A n \in S : m >= n
  BY <1>1
<1>3. QED
  BY <1>2 DEF Max

-----------------------------------------------------------------------------
(* The pieces of add *)

Splice(s, k, j, e) == SubSeq(s, 1, k - 1) \o <<e>> \o SubSeq(s, j + 1, Len(s))

(* t is s with the elements from the k-th to the j-th replaced by e. *)
IsSpliced(t, s, k, j, e) ==
    /\ Len(t) = Len(s) - (j - k)
    /\ \A m \in 1..(k - 1) : t[m] = s[m]
    /\ t[k] = e
    /\ \A m \in (k + 1)..(Len(s) - (j - k)) : t[m] = s[m + (j - k)]

LEMMA SpliceIs ==
  ASSUME NEW S, NEW s \in Seq(S), NEW k \in 1..(Len(s) + 1), NEW j \in (k - 1)..Len(s), NEW e \in S
  PROVE  Splice(s, k, j, e) \in Seq(S) /\ IsSpliced(Splice(s, k, j, e), s, k, j, e)
<1> DEFINE a == SubSeq(s, 1, k - 1)
           c == SubSeq(s, j + 1, Len(s))
<1>0. /\ Len(s) \in Nat /\ k \in Nat /\ j \in Nat
      /\ 1 <= k /\ k <= Len(s) + 1 /\ k - 1 <= j /\ j <= Len(s)
      /\ \A m \in 1..Len(s) : s[m] \in S
  BY LenProperties, ElementOfSeq
<1>1. a \in Seq(S) /\ Len(a) = k - 1 /\ \A m \in 1..(k - 1) : a[m] = s[m]
  <2>1. \A m \in 1..(k - 1) : s[m] \in S
    BY <1>0
  <2>2. k - 1 \in Int /\ 1 \in Int
    BY <1>0
  <2>3. /\ a \in Seq(S) /\ Len(a) = IF 1 <= k - 1 THEN (k - 1) - 1 + 1 ELSE 0
        /\ \A m \in 1..((k - 1) - 1 + 1) : a[m] = s[1 + m - 1]
    BY <2>1, <2>2, SubSeqProperties
  <2>4. QED
    BY <1>0, <2>3
<1>2. c \in Seq(S) /\ Len(c) = Len(s) - j /\ \A m \in 1..(Len(s) - j) : c[m] = s[j + m]
  <2>1. \A m \in (j + 1)..Len(s) : s[m] \in S
    BY <1>0
  <2>2. Len(s) \in Int /\ j + 1 \in Int
    BY <1>0
  <2>3. /\ c \in Seq(S) /\ Len(c) = IF j + 1 <= Len(s) THEN Len(s) - (j + 1) + 1 ELSE 0
        /\ \A m \in 1..(Len(s) - (j + 1) + 1) : c[m] = s[(j + 1) + m - 1]
    BY <2>1, <2>2, SubSeqProperties
  <2>4. QED
    BY <1>0, <2>3
<1>3. <<e>> \in Seq(S) /\ Len(<<e>>) = 1 /\ <<e>>[1] = e
  OBVIOUS
<1> HIDE DEF a, c
<1> DEFINE b == a \o <<e>>
<1>4. b \in Seq(S) /\ Len(b) = k /\ (\A m \in 1..(k - 1) : b[m] = s[m]) /\ b[k] = e
  <2>1. /\ b \in Seq(S) /\ Len(b) = Len(a) + Len(<<e>>)
        /\ \A m \in 1..(Len(a) + Len(<<e>>)) : b[m] = IF m <= Len(a) THEN a[m] ELSE <<e>>[m - Len(a)]
    BY <1>1, <1>3, ConcatProperties
  <2>2. Len(a) = k - 1 /\ Len(a) + Len(<<e>>) = k
    BY <1>0, <1>1, <1>3
  <2>3. b[k] = <<e>>[k - (k - 1)] /\ k - (k - 1) = 1
    BY <1>0, <2>1, <2>2
  <2>4. \A m \in 1..(k - 1) : b[m] = a[m]
    BY <1>0, <2>1, <2>2
  <2>5. QED
    BY <1>1, <1>3, <2>1, <2>2, <2>3, <2>4
<1> HIDE DEF b
<1> DEFINE t == b \o c
<1>5. /\ t \in Seq(S) /\ Len(t) = Len(s) - (j - k)
      /\ \A m \in 1..(Len(s) - (j - k)) : t[m] = IF m <= k THEN b[m] ELSE c[m - k]
  <2>1. /\ t \in Seq(S) /\ Len(t) = Len(b) + Len(c)
        /\ \A m \in 1..(Len(b) + Len(c)) : t[m] = IF m <= Len(b) THEN b[m] ELSE c[m - Len(b)]
    BY <1>2, <1>4, ConcatProperties
  <2>2. Len(b) = k /\ Len(b) + Len(c) = Len(s) - (j - k)
    BY <1>0, <1>2, <1>4
  <2>3. QED
    BY <2>1, <2>2
<1>6. Splice(s, k, j, e) = t
  BY DEF Splice, t, b, a, c
<1> HIDE DEF t
<1>7. \A m \in (k + 1)..(Len(s) - (j - k)) : t[m] = s[m + (j - k)]
  <2> SUFFICES ASSUME NEW m \in (k + 1)..(Len(s) - (j - k)) PROVE t[m] = s[m + (j - k)]
    OBVIOUS
  <2>1. m - k \in 1..(Len(s) - j) /\ ~(m <= k) /\ m \in 1..(Len(s) - (j - k))
    BY <1>0
  <2>2. t[m] = c[m - k]
    BY <1>5, <2>1
  <2>3. j + (m - k) = m + (j - k)
    BY <1>0
  <2>4. QED
    BY <1>2, <2>1, <2>2, <2>3
<1>8. ASSUME NEW m \in 1..k PROVE t[m] = b[m]
  <2>1. m \in 1..(Len(s) - (j - k)) /\ m <= k
    BY <1>0
  <2>2. QED
    BY <1>5, <2>1
<1>9. (\A m \in 1..(k - 1) : t[m] = s[m]) /\ t[k] = e
  <2>1. k \in 1..k /\ \A m \in 1..(k - 1) : m \in 1..k
    BY <1>0
  <2>2. QED
    BY <1>4, <1>8, <2>1
<1>10. QED
  BY <1>5, <1>6, <1>7, <1>9 DEF IsSpliced

LEMMA RangesAre ==
  ASSUME NEW s \in Seq(GroupRanges)
  PROVE  /\ Len(s) \in Nat /\ DOMAIN s = 1..Len(s)
         /\ \A m \in 1..Len(s) : s[m] \in GroupRanges /\ s[m].lo \in Nat /\ s[m].hi \in Nat
<1>1. Len(s) \in Nat /\ DOMAIN s = 1..Len(s)
  BY LenProperties
<1>2. ASSUME NEW m \in 1..Len(s) PROVE s[m] \in GroupRanges /\ s[m].lo \in Nat /\ s[m].hi \in Nat
  <2>1. s[m] \in GroupRanges
    BY ElementOfSeq
  <2>2. QED
    BY <2>1 DEF GroupRanges
<1>3. QED
  BY <1>1, <1>2

(* Finitely many ranges have a bound. *)
LEMMA RangesAreBounded ==
  ASSUME NEW s \in Seq(GroupRanges), NEW k \in 1..Len(s), NEW j \in k..Len(s)
  PROVE  \E b \in Nat : \A m \in k..j : s[m].hi <= b
<1> DEFINE Bounded(l) == \E b \in Nat : \A m \in k..l : s[m].hi <= b
           S == {l \in k..Len(s) : ~Bounded(l)}
<1>0. Len(s) \in Nat /\ \A m \in 1..Len(s) : s[m].hi \in Nat
  BY RangesAre
<1>1. SUFFICES S = {}
  OBVIOUS
<1>2. SUFFICES ASSUME S # {} PROVE FALSE
  OBVIOUS
<1>3. S \in SUBSET Nat
  BY <1>0
<1>4. PICK l \in S : \A n \in S : l <= n
  <2> HIDE DEF S
  <2> QED
    BY <1>2, <1>3, LeastOf
<1>5. l # k
  <2>1. s[k].hi \in Nat /\ \A m \in k..k : s[m].hi <= s[k].hi
    BY <1>0
  <2>2. Bounded(k)
    BY <2>1
  <2>3. QED
    BY <2>2
<1>6. l - 1 \in k..Len(s) /\ l - 1 \notin S /\ l \in 1..Len(s)
  <2>1. l \in k..Len(s)
    OBVIOUS
  <2>2. l - 1 \in k..Len(s) /\ ~(l <= l - 1) /\ l \in 1..Len(s)
    BY <1>0, <1>5, <2>1
  <2> HIDE DEF S
  <2>3. QED
    BY <1>4, <2>2
<1>7. PICK b \in Nat : \A m \in k..(l - 1) : s[m].hi <= b
  BY <1>6
<1>8. PICK c \in Nat : b <= c /\ s[l].hi <= c
  <2>1. s[l].hi \in Nat
    BY <1>0, <1>6
  <2>2. b + s[l].hi \in Nat /\ b <= b + s[l].hi /\ s[l].hi <= b + s[l].hi
    <3>1. \A p, q \in Nat : p + q \in Nat /\ p <= p + q /\ q <= p + q
      OBVIOUS
    <3> HIDE DEF S
    <3>2. QED
      BY <2>1, <3>1
  <2>3. QED
    BY <2>2
<1>9. \A m \in k..l : s[m].hi <= c
  <2> SUFFICES ASSUME NEW m \in k..l PROVE s[m].hi <= c
    OBVIOUS
  <2>1. CASE m = l
    BY <1>8, <2>1
  <2>2. CASE m # l
    <3>1. m \in k..(l - 1) /\ m \in 1..Len(s)
      BY <1>0, <1>6, <2>2
    <3>2. s[m].hi \in Nat
      BY <1>0, <3>1
    <3>3. QED
      BY <1>7, <1>8, <3>1, <3>2
  <2>3. QED
    BY <2>1, <2>2
<1>10. QED
  BY <1>4, <1>9

LEMMA ReachIs ==
  ASSUME NEW s \in Seq(GroupRanges), NEW k \in 1..Len(s), NEW j \in k..Len(s)
  PROVE  /\ ReachOf(s, k, j) \in Nat
         /\ \E m \in k..j : s[m].hi = ReachOf(s, k, j)
         /\ \A m \in k..j : s[m].hi <= ReachOf(s, k, j)
<1> DEFINE S == {s[m].hi : m \in k..j}
<1>0. Len(s) \in Nat /\ \A m \in 1..Len(s) : s[m].hi \in Nat
  BY RangesAre
<1>1. S \in SUBSET Nat /\ s[k].hi \in S
  BY <1>0
<1>2. PICK b \in Nat : \A n \in S : n <= b
  BY RangesAreBounded
<1>3. Max(S) \in S /\ \A n \in S : n <= Max(S)
  <2> HIDE DEF S
  <2> QED
    BY <1>1, <1>2, MaxIsGreatest
<1>4. ReachOf(s, k, j) = Max(S)
  BY DEF ReachOf
<1>5. QED
  BY <1>1, <1>3, <1>4

(* The ranges from the k-th to the j-th touch, each what the ones before   *)
(* it reach.                                                               *)
Touch(s, k, j) == \A m \in (k + 1)..j : s[m].lo <= ReachOf(s, k, m - 1) + 1

LEMMA AbsorbedIs ==
  ASSUME NEW s \in Seq(GroupRanges), NEW k \in 1..Len(s)
  PROVE  /\ Absorbed(s, k) \in k..Len(s)
         /\ Touch(s, k, Absorbed(s, k))
         /\ Absorbed(s, k) < Len(s) => s[Absorbed(s, k) + 1].lo > ReachOf(s, k, Absorbed(s, k)) + 1
<1> DEFINE S == {j \in k..Len(s) : Touch(s, k, j)}
<1>0. Len(s) \in Nat /\ \A m \in 1..Len(s) : s[m].lo \in Nat
  BY RangesAre
<1>1. k \in S
  BY <1>0 DEF Touch
<1>2. PICK j \in S : \A n \in S : n <= j
  <2>1. S \in SUBSET Nat /\ \A n \in S : n <= Len(s)
    BY <1>0
  <2> HIDE DEF S
  <2> QED
    BY <1>0, <1>1, <2>1, GreatestOf
<1>3. j < Len(s) => s[j + 1].lo > ReachOf(s, k, j) + 1
  <2> SUFFICES ASSUME j < Len(s), ~(s[j + 1].lo > ReachOf(s, k, j) + 1) PROVE FALSE
    OBVIOUS
  <2>1. ReachOf(s, k, j) \in Nat /\ s[j + 1].lo \in Nat
    BY <1>0, ReachIs
  <2>2. s[j + 1].lo <= ReachOf(s, k, (j + 1) - 1) + 1
    <3>1. (j + 1) - 1 = j
      BY <1>0
    <3>2. QED
      BY <2>1, <3>1
  <2>3. Touch(s, k, j + 1)
    <3> SUFFICES ASSUME NEW m \in (k + 1)..(j + 1) PROVE s[m].lo <= ReachOf(s, k, m - 1) + 1
      BY DEF Touch
    <3>1. m = j + 1 \/ m \in (k + 1)..j
      BY <1>0
    <3>2. QED
      BY <2>2, <3>1 DEF Touch
  <2>4. j + 1 \in S
    BY <1>0, <2>3
  <2>5. QED
    BY <1>0, <1>2, <2>4
<1>4. \E l \in k..Len(s) :
        /\ \A m \in (k + 1)..l : s[m].lo <= ReachOf(s, k, m - 1) + 1
        /\ l < Len(s) => s[l + 1].lo > ReachOf(s, k, l) + 1
  BY <1>2, <1>3 DEF Touch
<1>5. QED
  BY <1>4 DEF Absorbed, Touch

(* What is merged has no hole. *)
LEMMA ReachHasNoHole ==
  ASSUME NEW s \in Seq(GroupRanges), NEW k \in 1..Len(s), NEW j \in k..Len(s), Touch(s, k, j),
         NEW x \in s[k].lo .. ReachOf(s, k, j)
  PROVE  \E m \in k..j : x \in s[m].lo .. s[m].hi
<1> DEFINE S == {m \in k..j : x <= ReachOf(s, k, m)}
<1>0. Len(s) \in Nat /\ \A m \in 1..Len(s) : s[m].hi \in Nat /\ s[m].lo \in Nat
  BY RangesAre
<1>1. x \in Nat /\ j \in S
  BY <1>0, ReachIs
<1>2. PICK m \in S : \A n \in S : m <= n
  <2>1. S \in SUBSET Nat
    BY <1>0
  <2> HIDE DEF S
  <2> QED
    BY <1>1, <2>1, LeastOf
<1>3. m \in k..Len(s) /\ m \in 1..Len(s)
  BY <1>0
<1>4. PICK l \in k..m : s[l].hi = ReachOf(s, k, m)
  BY <1>3, ReachIs
<1>5. s[m].lo <= x
  <2>1. CASE m = k
    BY <2>1
  <2>2. CASE m # k
    <3>1. m - 1 \in k..j /\ m - 1 \notin S /\ m \in (k + 1)..j
      BY <1>0, <1>2, <2>2
    <3>2. ReachOf(s, k, m - 1) \in Nat
      BY <1>0, <3>1, ReachIs
    <3>3. ReachOf(s, k, m - 1) < x
      BY <1>1, <3>1, <3>2
    <3>4. s[m].lo <= ReachOf(s, k, m - 1) + 1
      BY <3>1 DEF Touch
    <3>5. QED
      BY <1>0, <1>1, <1>3, <3>2, <3>3, <3>4
  <2>3. QED
    BY <2>1, <2>2
<1>6. x <= s[m].hi
  <2>1. CASE l = m
    BY <1>4, <2>1
  <2>2. CASE l # m
    <3>1. l \in k..(m - 1) /\ m - 1 \in k..j /\ m - 1 \in k..Len(s)
      BY <1>0, <2>2
    <3>2. ReachOf(s, k, m) <= ReachOf(s, k, m - 1)
      BY <1>4, <3>1, ReachIs
    <3>3. ReachOf(s, k, m - 1) \in Nat /\ ReachOf(s, k, m) \in Nat
      BY <1>3, <3>1, ReachIs
    <3>4. m - 1 \in S
      BY <1>1, <3>1, <3>2, <3>3
    <3>5. QED
      BY <1>0, <1>2, <3>4
  <2>3. QED
    BY <2>1, <2>2
<1>7. QED
  BY <1>0, <1>1, <1>3, <1>5, <1>6

(* t is s with e put in after the i-th element. *)
IsInserted(t, s, i, e) ==
    /\ Len(t) = Len(s) + 1
    /\ \A m \in 1..i : t[m] = s[m]
    /\ t[i + 1] = e
    /\ \A m \in (i + 2)..(Len(s) + 1) : t[m] = s[m - 1]

LEMMA InsertIs ==
  ASSUME NEW S, NEW s \in Seq(S), NEW i \in 0..Len(s), NEW e \in S
  PROVE  InsertAt(s, i + 1, e) \in Seq(S) /\ IsInserted(InsertAt(s, i + 1, e), s, i, e)
<1>1. Len(s) \in Nat /\ i \in Nat /\ i <= Len(s)
  BY LenProperties
<1>2. i + 1 \in 1..(Len(s) + 1) /\ i \in ((i + 1) - 1)..Len(s)
  BY <1>1
<1>3. InsertAt(s, i + 1, e) = Splice(s, i + 1, i, e)
  BY DEF InsertAt, Splice
<1> DEFINE t == Splice(s, i + 1, i, e)
<1>4. /\ t \in Seq(S) /\ Len(t) = Len(s) - (i - (i + 1))
      /\ \A m \in 1..((i + 1) - 1) : t[m] = s[m]
      /\ t[i + 1] = e
      /\ \A m \in ((i + 1) + 1)..(Len(s) - (i - (i + 1))) : t[m] = s[m + (i - (i + 1))]
  <2>1. t \in Seq(S) /\ IsSpliced(t, s, i + 1, i, e)
    BY <1>2, SpliceIs
  <2> HIDE DEF t
  <2>2. QED
    BY <2>1 DEF IsSpliced
<1>5. Len(s) - (i - (i + 1)) = Len(s) + 1 /\ (i + 1) - 1 = i /\ (i + 1) + 1 = i + 2
  BY <1>1
<1>6. \A m \in Nat : m + (i - (i + 1)) = m - 1
  BY <1>1
<1> HIDE DEF t
<1>7. \A m \in (i + 2)..(Len(s) + 1) : t[m] = s[m - 1]
  <2>1. \A m \in (i + 2)..(Len(s) + 1) : m \in Nat
    BY <1>1
  <2>2. QED
    BY <1>4, <1>5, <1>6, <2>1
<1>8. QED
  BY <1>3, <1>4, <1>5, <1>7 DEF t, IsInserted

(* What every range covers, by its index. *)
LEMMA SettledIs ==
  ASSUME NEW s \in Seq(GroupRanges), NEW x
  PROVE  x \in SettledSet(s) <=> \E m \in 1..Len(s) : x \in s[m].lo .. s[m].hi
<1>1. DOMAIN s = 1..Len(s)
  BY RangesAre
<1>2. QED
  BY <1>1 DEF SettledSet

LEMMA PositionIs ==
  ASSUME NEW r \in Seq(GroupRanges), IsNormal(r), NEW lo \in Nat
  PROVE  /\ Position(r, lo) \in 0..Len(r)
         /\ \A m \in 1..Len(r) : m <= Position(r, lo) <=> r[m].lo <= lo
<1> DEFINE S == {0} \cup {m \in DOMAIN r : r[m].lo <= lo}
<1>0. Len(r) \in Nat /\ DOMAIN r = 1..Len(r) /\ \A m \in 1..Len(r) : r[m].lo \in Nat /\ r[m].hi \in Nat
  BY RangesAre
<1>1. Max(S) \in S /\ \A m \in S : m <= Max(S)
  <2>1. S \in SUBSET Nat /\ S # {} /\ \A m \in S : m <= Len(r)
    BY <1>0
  <2> HIDE DEF S
  <2>2. QED
    BY <1>0, <2>1, MaxIsGreatest
<1> DEFINE i == Max(S)
<1>2. i \in 0..Len(r)
  <2> HIDE DEF i
  <2> QED
    BY <1>0, <1>1 DEF i
<1>3. ASSUME NEW m \in 1..Len(r) PROVE m <= i <=> r[m].lo <= lo
  <2>1. CASE r[m].lo <= lo
    <3>1. m \in S
      BY <1>0, <2>1
    <3> HIDE DEF S
    <3>2. QED
      BY <1>1, <2>1, <3>1
  <2>2. CASE ~(r[m].lo <= lo)
    <3>1. SUFFICES ASSUME m <= i PROVE FALSE
      BY <2>2
    <3>2. i \in DOMAIN r /\ r[i].lo <= lo /\ i \in 1..Len(r)
      <4>1. i \in S /\ i # 0
        <5> HIDE DEF S
        <5> QED
          BY <1>1, <1>2, <3>1
      <4> HIDE DEF i
      <4>2. QED
        BY <1>0, <4>1
    <3> HIDE DEF i
    <3>3. m < i
      BY <1>0, <2>2, <3>1, <3>2
    <3>4. r[m].lo <= r[m].hi /\ r[m].hi + 1 < r[i].lo
      BY <1>0, <3>2, <3>3 DEF IsNormal
    <3>5. QED
      BY <1>0, <2>2, <3>2, <3>4
  <2>3. QED
    BY <2>1, <2>2
<1>4. Position(r, lo) = i
  BY DEF Position
<1> HIDE DEF i
<1>5. QED
  BY <1>2, <1>3, <1>4

(* Ranges in the order of their bounds, of which all before the k-th stand *)
(* apart from all others.                                                  *)
Sorted(s, k) ==
    /\ \A m \in 1..Len(s) : s[m].lo <= s[m].hi
    /\ \A m, l \in 1..Len(s) : m < l => s[m].lo <= s[l].lo
    /\ \A m, l \in 1..Len(s) : m < k /\ m < l => s[m].hi + 1 < s[l].lo

LEMMA MergeIs ==
  ASSUME NEW s \in Seq(GroupRanges), NEW k \in 1..Len(s), Sorted(s, k),
         \A m, l \in 1..Len(s) : Absorbed(s, k) < m /\ m < l => s[m].hi + 1 < s[l].lo
  PROVE  LET t == MergeFrom(s, k) IN
         /\ t \in Seq(GroupRanges) /\ Len(t) <= Len(s)
         /\ IsNormal(t)
         /\ \A x : x \in SettledSet(t) <=> x \in SettledSet(s)
<1> DEFINE j == Absorbed(s, k)
           R == ReachOf(s, k, j)
           n == Len(s) - (j - k)
           t == MergeFrom(s, k)
<1>0. Len(s) \in Nat /\ \A m \in 1..Len(s) : s[m].lo \in Nat /\ s[m].hi \in Nat
  BY RangesAre
<1>1. /\ j \in k..Len(s)
      /\ Touch(s, k, j)
      /\ j < Len(s) => s[j + 1].lo > R + 1
  BY AbsorbedIs
<1> HIDE DEF j
<1>2. R \in Nat /\ \A m \in k..j : s[m].hi <= R
  BY <1>1, ReachIs
<1> HIDE DEF R
<1>3. /\ t \in Seq(GroupRanges) /\ Len(t) = n
      /\ \A m \in 1..(k - 1) : t[m] = s[m]
      /\ t[k] = GroupRange(s[k].lo, R)
      /\ \A m \in (k + 1)..n : t[m] = s[m + (j - k)]
  <2>1. GroupRange(s[k].lo, R) \in GroupRanges
    BY <1>0, <1>2 DEF GroupRange, GroupRanges
  <2>2. k \in 1..(Len(s) + 1) /\ j \in (k - 1)..Len(s)
    BY <1>0, <1>1
  <2>3. t = Splice(s, k, j, GroupRange(s[k].lo, R))
    BY DEF MergeFrom, Splice, j, R
  <2> DEFINE g == GroupRange(s[k].lo, R)
  <2> HIDE DEF t, g
  <2>4. g \in GroupRanges /\ t = Splice(s, k, j, g)
    BY <2>1, <2>3 DEF g
  <2>5. t \in Seq(GroupRanges) /\ IsSpliced(t, s, k, j, g)
    BY <2>2, <2>4, SpliceIs
  <2>6. QED
    BY <2>5 DEF IsSpliced, g
<1> HIDE DEF t
<1>4. t[k].lo = s[k].lo /\ t[k].hi = R
  BY <1>3 DEF GroupRange
<1>5. n \in Nat /\ n <= Len(s) /\ k \in 1..n /\ DOMAIN t = 1..n
  BY <1>0, <1>1, <1>3, LenProperties
<1>6. s[k].lo <= R
  BY <1>0, <1>1, <1>2 DEF Sorted
\* The range of t that stands at m is that of s which stands at its old place.
<1>7. ASSUME NEW m \in 1..n, m # k
      PROVE  \E o \in 1..Len(s) : /\ t[m] = s[o]
                                  /\ m < k => o = m
                                  /\ m > k => o = m + (j - k) /\ o > j
  <2>1. CASE m < k
    BY <1>0, <1>3, <1>5, <2>1
  <2>2. CASE m > k
    <3>1. m \in (k + 1)..n /\ m + (j - k) \in 1..Len(s) /\ m + (j - k) > j
      BY <1>0, <1>1, <1>5, <2>2
    <3>2. QED
      BY <1>0, <1>3, <2>2, <3>1
  <2>3. QED
    BY <1>5, <1>7, <2>1, <2>2
<1>8. \A l \in 1..Len(s) : l > j => R + 1 < s[l].lo
  <2> SUFFICES ASSUME NEW l \in 1..Len(s), l > j PROVE R + 1 < s[l].lo
    OBVIOUS
  <2>1. j < Len(s) /\ j + 1 \in 1..Len(s) /\ s[j + 1].lo > R + 1
    BY <1>0, <1>1
  <2>2. s[j + 1].lo <= s[l].lo
    <3>1. l = j + 1 \/ j + 1 < l
      BY <1>0, <1>1
    <3>2. QED
      BY <1>0, <2>1, <3>1 DEF Sorted
  <2>3. QED
    BY <1>0, <1>2, <2>1, <2>2
<1>9. IsNormal(t)
  <2>1. ASSUME NEW m \in 1..n PROVE t[m].lo <= t[m].hi
    <3>1. CASE m = k
      BY <1>4, <1>6, <3>1
    <3>2. CASE m # k
      BY <1>7, <3>2 DEF Sorted
    <3>3. QED
      BY <3>1, <3>2
  <2>2. ASSUME NEW m \in 1..n, NEW l \in 1..n, m < l PROVE t[m].hi + 1 < t[l].lo
    <3>1. CASE m = k
      <4>1. l # k /\ l > k
        BY <1>5, <2>2, <3>1
      <4>2. PICK o \in 1..Len(s) : t[l] = s[o] /\ o > j
        BY <1>7, <4>1
      <4>3. QED
        BY <1>4, <1>8, <3>1, <4>2
    <3>2. CASE m # k /\ l = k
      <4>1. m < k
        BY <1>5, <2>2, <3>2
      <4>2. PICK o \in 1..Len(s) : t[m] = s[o] /\ o = m
        BY <1>7, <3>2, <4>1
      <4>3. s[m].hi + 1 < s[k].lo
        BY <1>0, <4>1, <4>2 DEF Sorted
      <4>4. QED
        BY <1>4, <3>2, <4>2, <4>3
    <3>3. CASE m # k /\ l # k
      <4>1. PICK o \in 1..Len(s) : t[m] = s[o] /\ (m < k => o = m) /\ (m > k => o = m + (j - k) /\ o > j)
        BY <1>7, <3>3
      <4>2. PICK p \in 1..Len(s) : t[l] = s[p] /\ (l < k => p = l) /\ (l > k => p = l + (j - k) /\ p > j)
        BY <1>7, <3>3
      <4>3. o < p /\ (o < k \/ j < o)
        BY <1>0, <1>1, <1>5, <2>2, <3>3, <4>1, <4>2
      <4>4. s[o].hi + 1 < s[p].lo
        BY <4>3 DEF Sorted, j
      <4>5. QED
        BY <4>1, <4>2, <4>4
    <3>4. QED
      BY <3>1, <3>2, <3>3
  <2>3. QED
    BY <1>5, <2>1, <2>2 DEF IsNormal
<1>10. ASSUME NEW x, x \in SettledSet(t) PROVE x \in SettledSet(s)
  <2>1. PICK m \in 1..n : x \in t[m].lo .. t[m].hi
    BY <1>3, <1>10, SettledIs
  <2>2. CASE m = k
    <3>1. x \in s[k].lo .. R
      BY <1>4, <2>1, <2>2
    <3>2. PICK o \in k..j : x \in s[o].lo .. s[o].hi
      BY <1>1, <3>1, ReachHasNoHole DEF R
    <3>3. o \in 1..Len(s)
      BY <1>0, <1>1
    <3>4. QED
      BY <3>2, <3>3, SettledIs
  <2>3. CASE m # k
    BY <1>7, <2>1, <2>3, SettledIs
  <2>4. QED
    BY <2>2, <2>3
<1>11. ASSUME NEW x, x \in SettledSet(s) PROVE x \in SettledSet(t)
  <2>1. PICK o \in 1..Len(s) : x \in s[o].lo .. s[o].hi
    BY <1>11, SettledIs
  <2>2. CASE o < k
    <3>1. t[o] = s[o] /\ o \in 1..n
      BY <1>0, <1>3, <1>5, <2>2
    <3>2. QED
      BY <1>3, <2>1, <3>1, SettledIs
  <2>3. CASE o \in k..j
    <3>1. s[k].lo <= s[o].lo /\ s[o].hi <= R
      BY <1>0, <1>2, <2>3 DEF Sorted
    <3>2. x \in t[k].lo .. t[k].hi
      BY <1>0, <1>2, <1>4, <2>1, <3>1
    <3>3. QED
      BY <1>3, <1>5, <3>2, SettledIs
  <2>4. CASE o > j
    <3>1. o - (j - k) \in (k + 1)..n /\ (o - (j - k)) + (j - k) = o /\ o - (j - k) \in 1..n
      BY <1>0, <1>1, <2>4
    <3>2. t[o - (j - k)] = s[o]
      BY <1>3, <3>1
    <3>3. QED
      BY <1>3, <2>1, <3>1, <3>2, SettledIs
  <2>5. QED
    BY <1>0, <1>1, <2>2, <2>3, <2>4
<1>12. QED
  BY <1>3, <1>5, <1>9, <1>10, <1>11 DEF t

(* s is r with the addition in its place, ready to be merged from k on.    *)
IsReady(s, k, r, lo, hi) ==
    /\ s \in Seq(GroupRanges) /\ Len(s) = Len(r) + 1
    /\ k \in 1..Len(s) /\ Sorted(s, k)
    /\ \A m, l \in 1..Len(s) : Absorbed(s, k) < m /\ m < l => s[m].hi + 1 < s[l].lo
    /\ \A x : x \in SettledSet(s) <=> x \in SettledSet(r) \/ x \in lo..hi

(* add puts the addition where its lower bound belongs.                    *)
LEMMA InsertedIs ==
  ASSUME NEW r \in Seq(GroupRanges), IsNormal(r), NEW lo \in Nat, NEW hi \in Nat, lo <= hi,
         NEW i, i = Position(r, lo),
         NEW s, s = InsertAt(r, i + 1, GroupRange(lo, hi)),
         NEW k, k = IF i > 0 /\ r[i].hi + 1 >= lo THEN i ELSE i + 1
  PROVE  IsReady(s, k, r, lo, hi)
<1>0. /\ Len(r) \in Nat /\ DOMAIN r = 1..Len(r)
      /\ \A m \in 1..Len(r) : r[m].lo \in Nat /\ r[m].hi \in Nat
  BY RangesAre
<1>1. i \in 0..Len(r) /\ \A m \in 1..Len(r) : m <= i <=> r[m].lo <= lo
  BY PositionIs
<1>2. /\ s \in Seq(GroupRanges) /\ Len(s) = Len(r) + 1
      /\ \A m \in 1..i : s[m] = r[m]
      /\ s[i + 1] = GroupRange(lo, hi)
      /\ \A m \in (i + 2)..(Len(r) + 1) : s[m] = r[m - 1]
  <2> DEFINE g == GroupRange(lo, hi)
  <2>1. g \in GroupRanges
    BY DEF GroupRange, GroupRanges
  <2> HIDE DEF g
  <2>2. s = InsertAt(r, i + 1, g)
    BY DEF g
  <2>3. s \in Seq(GroupRanges) /\ IsInserted(s, r, i, g)
    BY <1>1, <2>1, <2>2, InsertIs
  <2>4. QED
    BY <2>3 DEF g, IsInserted
<1>3. s[i + 1].lo = lo /\ s[i + 1].hi = hi
  BY <1>2 DEF GroupRange
<1>4. k \in 1..Len(s) /\ k <= i + 1 /\ i <= k
  BY <1>0, <1>1, <1>2
\* Every other range of s is one of r, in the same order.
<1> DEFINE Old(m) == IF m <= i THEN m ELSE m - 1
<1>5. ASSUME NEW m \in 1..Len(s), m # i + 1
      PROVE  /\ Old(m) \in 1..Len(r) /\ s[m] = r[Old(m)]
             /\ m <= i <=> Old(m) <= i
             /\ s[m].lo \in Nat /\ s[m].hi \in Nat
  <2>1. CASE m <= i
    BY <1>0, <1>1, <1>2, <2>1
  <2>2. CASE ~(m <= i)
    <3>1. m \in (i + 2)..(Len(r) + 1) /\ m - 1 \in 1..Len(r) /\ ~(m - 1 <= i)
      BY <1>0, <1>1, <1>2, <1>5, <2>2
    <3>2. s[m] = r[m - 1]
      BY <1>2, <3>1
    <3>3. QED
      BY <1>0, <2>2, <3>1, <3>2
  <2>3. QED
    BY <2>1, <2>2
<1>6. ASSUME NEW m \in 1..Len(s), NEW l \in 1..Len(s), m < l, m # i + 1, l # i + 1
      PROVE  s[m].hi + 1 < s[l].lo
  <2>1. Old(m) < Old(l)
    BY <1>0, <1>1, <1>2, <1>6
  <2>2. Old(m) \in 1..Len(r) /\ s[m] = r[Old(m)] /\ Old(l) \in 1..Len(r) /\ s[l] = r[Old(l)]
    BY <1>5, <1>6
  <2> HIDE DEF Old
  <2>3. QED
    BY <1>0, <2>1, <2>2 DEF IsNormal
<1>7. ASSUME NEW m \in 1..Len(s) PROVE s[m].lo <= s[m].hi /\ s[m].lo \in Nat /\ s[m].hi \in Nat
  <2>1. CASE m = i + 1
    BY <1>3, <2>1
  <2>2. CASE m # i + 1
    <3> HIDE DEF Old
    <3> QED
      BY <1>0, <1>5, <2>2 DEF IsNormal
  <2>3. QED
    BY <2>1, <2>2
<1>8. ASSUME NEW m \in 1..Len(s), m < i + 1
      PROVE  s[m].lo <= lo /\ (m < k => s[m].hi + 1 < lo)
  <2>1. m \in 1..Len(r) /\ s[m] = r[m] /\ r[m].lo <= lo
    BY <1>0, <1>1, <1>2, <1>8
  <2>2. ASSUME m < k PROVE r[m].hi + 1 < lo
    <3>1. CASE m = i
      BY <1>0, <1>4, <2>1, <2>2, <3>1
    <3>2. CASE m # i
      <4>1. m < i /\ i \in 1..Len(r) /\ r[i].lo <= lo
        BY <1>0, <1>1, <1>8, <2>1, <3>2
      <4>2. r[m].hi + 1 < r[i].lo
        BY <1>0, <2>1, <4>1 DEF IsNormal
      <4>3. QED
        BY <1>0, <2>1, <4>1, <4>2
    <3>3. QED
      BY <3>1, <3>2
  <2>3. QED
    BY <2>1, <2>2
<1>9. ASSUME NEW l \in 1..Len(s), i + 1 < l PROVE lo < s[l].lo
  <2>1. l \in (i + 2)..(Len(r) + 1) /\ l - 1 \in 1..Len(r) /\ ~(l - 1 <= i)
    BY <1>0, <1>1, <1>2, <1>9
  <2>2. s[l] = r[l - 1] /\ ~(r[l - 1].lo <= lo)
    BY <1>1, <1>2, <2>1
  <2>3. QED
    BY <1>0, <2>1, <2>2
<1>10. Sorted(s, k)
  <2>1. ASSUME NEW m \in 1..Len(s), NEW l \in 1..Len(s), m < l
        PROVE  s[m].lo <= s[l].lo /\ (m < k => s[m].hi + 1 < s[l].lo)
    <3>1. CASE m # i + 1 /\ l # i + 1
      BY <1>6, <1>7, <2>1, <3>1
    <3>2. CASE l = i + 1
      BY <1>3, <1>8, <2>1, <3>2
    <3>3. CASE m = i + 1
      BY <1>1, <1>3, <1>4, <1>7, <1>9, <2>1, <3>3
    <3>4. QED
      BY <3>1, <3>2, <3>3
  <2>2. QED
    BY <1>7, <2>1 DEF Sorted
<1>11. Absorbed(s, k) >= i + 1
  <2>1. /\ Absorbed(s, k) \in k..Len(s)
        /\ Absorbed(s, k) < Len(s) => s[Absorbed(s, k) + 1].lo > ReachOf(s, k, Absorbed(s, k)) + 1
    BY <1>2, <1>4, AbsorbedIs
  <2> DEFINE j == Absorbed(s, k)
  <2> HIDE DEF j
  <2>2. SUFFICES ASSUME ~(j >= i + 1) PROVE FALSE
    BY DEF j
  <2>3. j = i /\ k = i /\ i \in 1..Len(r) /\ r[i].hi + 1 >= lo
    BY <1>0, <1>1, <1>2, <1>4, <2>1, <2>2 DEF j
  <2>4. ReachOf(s, i, i) \in Nat /\ s[i].hi <= ReachOf(s, i, i) /\ s[i] = r[i]
    <3>1. i \in 1..Len(s) /\ i \in i..Len(s) /\ i \in i..i
      BY <1>0, <1>2, <2>3
    <3>2. QED
      BY <1>1, <1>2, <2>3, <3>1, ReachIs
  <2>5. s[i + 1].lo > ReachOf(s, i, i) + 1
    BY <1>0, <1>2, <2>1, <2>3 DEF j
  <2>6. QED
    BY <1>0, <1>3, <2>3, <2>4, <2>5
<1>12. \A m, l \in 1..Len(s) : Absorbed(s, k) < m /\ m < l => s[m].hi + 1 < s[l].lo
  <2>1. Absorbed(s, k) \in Nat
    BY <1>2, <1>4, AbsorbedIs
  <2>2. QED
    BY <1>1, <1>2, <1>6, <1>11, <2>1
<1>13. ASSUME NEW x PROVE x \in SettledSet(s) <=> x \in SettledSet(r) \/ x \in lo..hi
  <2>1. ASSUME x \in SettledSet(s) PROVE x \in SettledSet(r) \/ x \in lo..hi
    <3>1. PICK m \in 1..Len(s) : x \in s[m].lo .. s[m].hi
      BY <1>2, <2>1, SettledIs
    <3>2. CASE m = i + 1
      BY <1>3, <3>1, <3>2
    <3>3. CASE m # i + 1
      <4>1. Old(m) \in 1..Len(r) /\ s[m] = r[Old(m)]
        BY <1>5, <3>3
      <4> HIDE DEF Old
      <4>2. QED
        BY <3>1, <4>1, SettledIs
    <3>4. QED
      BY <3>2, <3>3
  <2>2. ASSUME x \in lo..hi PROVE x \in SettledSet(s)
    <3>1. i + 1 \in 1..Len(s)
      BY <1>0, <1>1, <1>2
    <3>2. QED
      BY <1>2, <1>3, <2>2, <3>1, SettledIs
  <2>3. ASSUME x \in SettledSet(r) PROVE x \in SettledSet(s)
    <3>1. PICK o \in 1..Len(r) : x \in r[o].lo .. r[o].hi
      BY <2>3, SettledIs
    <3>2. \E m \in 1..Len(s) : s[m] = r[o]
      <4>1. CASE o <= i
        <5>1. o \in 1..i /\ o \in 1..Len(s)
          BY <1>0, <1>1, <1>2, <4>1
        <5>2. QED
          BY <1>2, <5>1
      <4>2. CASE ~(o <= i)
        <5>1. o + 1 \in (i + 2)..(Len(r) + 1) /\ o + 1 \in 1..Len(s) /\ (o + 1) - 1 = o
          BY <1>0, <1>1, <1>2, <4>2
        <5>2. s[o + 1] = r[(o + 1) - 1]
          BY <1>2, <5>1
        <5>3. QED
          BY <5>1, <5>2
      <4>3. QED
        BY <4>1, <4>2
    <3>3. QED
      BY <1>2, <3>1, <3>2, SettledIs
  <2>4. QED
    BY <2>1, <2>2, <2>3
<1>14. QED
  BY <1>2, <1>4, <1>10, <1>12, <1>13 DEF IsReady

(* Before the oldest gap is given up, what is added is what is settled.    *)
LEMMA AddMerges ==
  ASSUME NEW r \in Seq(GroupRanges), IsNormal(r), NEW lo \in Nat, NEW hi \in Nat, lo <= hi
  PROVE  \E t \in Seq(GroupRanges) :
           /\ IsNormal(t) /\ Len(t) <= Len(r) + 1
           /\ \A x : x \in SettledSet(t) <=> x \in SettledSet(r) \/ x \in lo..hi
           /\ Add(r, lo, hi) = ForgetOldestGap(t)
<1> DEFINE i == Position(r, lo)
           s == InsertAt(r, i + 1, GroupRange(lo, hi))
           k == IF i > 0 /\ r[i].hi + 1 >= lo THEN i ELSE i + 1
           t == MergeFrom(s, k)
<1>1. Add(r, lo, hi) = ForgetOldestGap(t)
  <2>1. ~(hi < lo)
    OBVIOUS
  <2>2. QED
    BY <2>1 DEF Add
<1> HIDE DEF i
<1>2. /\ s \in Seq(GroupRanges) /\ Len(s) = Len(r) + 1
      /\ k \in 1..Len(s) /\ Sorted(s, k)
      /\ \A m, l \in 1..Len(s) : Absorbed(s, k) < m /\ m < l => s[m].hi + 1 < s[l].lo
      /\ \A x : x \in SettledSet(s) <=> x \in SettledSet(r) \/ x \in lo..hi
  <2> HIDE DEF s, k
  <2>1. i = Position(r, lo) /\ s = InsertAt(r, i + 1, GroupRange(lo, hi))
    BY DEF i, s
  <2>2. k = IF i > 0 /\ r[i].hi + 1 >= lo THEN i ELSE i + 1
    BY DEF k
  <2>3. IsReady(s, k, r, lo, hi)
    BY <2>1, <2>2, InsertedIs
  <2>4. QED
    BY <2>3 DEF IsReady
<1> HIDE DEF s, k
<1>3. /\ t \in Seq(GroupRanges) /\ Len(t) <= Len(s)
      /\ IsNormal(t)
      /\ \A x : x \in SettledSet(t) <=> x \in SettledSet(s)
  BY <1>2, MergeIs
<1> HIDE DEF t
<1>4. QED
  BY <1>1, <1>2, <1>3

(* Giving up the oldest gap settles the gap, and nothing else.             *)
LEMMA ForgetIs ==
  ASSUME NEW t \in Seq(GroupRanges), IsNormal(t), Len(t) = MaxRanges + 1
  PROVE  LET f == ForgetOldestGap(t) IN
         /\ f \in Seq(GroupRanges) /\ IsNormal(f) /\ Len(f) = MaxRanges
         /\ \A x : x \in SettledSet(f) <=> x \in SettledSet(t) \/ x \in (t[1].hi + 1)..(t[2].lo - 1)
         /\ \A x \in Nat : x \notin SettledSet(f) => x < t[1].lo \/ t[2].hi < x
<1> DEFINE f == ForgetOldestGap(t)
           g == GroupRange(t[1].lo, t[2].hi)
<1>0. /\ Len(t) \in Nat /\ DOMAIN t = 1..Len(t) /\ MaxRanges \in Nat /\ MaxRanges >= 1
      /\ \A m \in 1..Len(t) : t[m].lo \in Nat /\ t[m].hi \in Nat
  BY RangesAre, MaxRangesAssumption
<1>1. 1 \in 1..Len(t) /\ 2 \in 1..Len(t)
  BY <1>0
<1>2. t[1].lo <= t[1].hi /\ t[1].hi + 1 < t[2].lo /\ t[2].lo <= t[2].hi
  BY <1>0, <1>1 DEF IsNormal
<1>3. g \in GroupRanges
  BY <1>0, <1>1 DEF GroupRange, GroupRanges
<1>4. g.lo = t[1].lo /\ g.hi = t[2].hi
  BY DEF GroupRange
<1>5. f = Splice(t, 1, 2, g)
  <2>1. f = <<g>> \o SubSeq(t, 3, Len(t))
    BY <1>0 DEF ForgetOldestGap
  <2> HIDE DEF f, g
  <2>2. SubSeq(t, 1, 1 - 1) = << >>
    BY SubSeqEmpty
  <2>3. << >> \o <<g>> = <<g>>
    BY <1>3, ConcatEmptySeq
  <2>4. QED
    BY <2>1, <2>2, <2>3 DEF Splice
<1> HIDE DEF f, g
<1>6. f \in Seq(GroupRanges) /\ IsSpliced(f, t, 1, 2, g)
  <2>1. 1 \in 1..(Len(t) + 1) /\ 2 \in (1 - 1)..Len(t)
    BY <1>0
  <2>2. QED
    BY <1>3, <1>5, <2>1, SpliceIs
<1>7. Len(f) = MaxRanges /\ DOMAIN f = 1..MaxRanges /\ f[1] = g /\ \A m \in 2..MaxRanges : f[m] = t[m + 1]
  <2>1. /\ Len(f) = Len(t) - (2 - 1) /\ f[1] = g
        /\ \A m \in (1 + 1)..(Len(t) - (2 - 1)) : f[m] = t[m + (2 - 1)]
    BY <1>6 DEF IsSpliced
  <2>2. Len(t) - (2 - 1) = MaxRanges /\ 1 + 1 = 2 /\ 2 - 1 = 1
    BY <1>0
  <2>3. QED
    BY <1>6, <2>1, <2>2, LenProperties
<1>8. IsNormal(f)
  <2>1. ASSUME NEW m \in 1..MaxRanges PROVE f[m].lo <= f[m].hi
    <3>1. CASE m = 1
      BY <1>0, <1>1, <1>2, <1>4, <1>7, <3>1
    <3>2. CASE m # 1
      <4>1. m \in 2..MaxRanges /\ m + 1 \in 1..Len(t)
        BY <1>0, <3>2
      <4>2. QED
        BY <1>0, <1>7, <4>1 DEF IsNormal
    <3>3. QED
      BY <3>1, <3>2
  <2>2. ASSUME NEW m \in 1..MaxRanges, NEW l \in 1..MaxRanges, m < l PROVE f[m].hi + 1 < f[l].lo
    <3>1. l \in 2..MaxRanges /\ l + 1 \in 1..Len(t) /\ 2 < l + 1
      BY <1>0, <2>2
    <3>2. f[l] = t[l + 1] /\ t[2].hi + 1 < t[l + 1].lo
      BY <1>0, <1>1, <1>7, <3>1 DEF IsNormal
    <3>3. CASE m = 1
      BY <1>4, <1>7, <3>2, <3>3
    <3>4. CASE m # 1
      <4>1. m \in 2..MaxRanges /\ m + 1 \in 1..Len(t) /\ m + 1 < l + 1
        BY <1>0, <2>2, <3>4
      <4>2. QED
        BY <1>0, <1>7, <3>1, <3>2, <4>1 DEF IsNormal
    <3>5. QED
      BY <3>3, <3>4
  <2>3. QED
    BY <1>7, <2>1, <2>2 DEF IsNormal
<1>9. ASSUME NEW x
      PROVE  x \in SettledSet(f) <=> x \in SettledSet(t) \/ x \in (t[1].hi + 1)..(t[2].lo - 1)
  <2>1. ASSUME x \in SettledSet(f)
        PROVE  x \in SettledSet(t) \/ x \in (t[1].hi + 1)..(t[2].lo - 1)
    <3>1. PICK m \in 1..MaxRanges : x \in f[m].lo .. f[m].hi
      BY <1>6, <1>7, <2>1, SettledIs
    <3>2. CASE m = 1
      <4>1. x \in t[1].lo .. t[2].hi
        BY <1>4, <1>7, <3>1, <3>2
      <4>2. x \in t[1].lo .. t[1].hi \/ x \in t[2].lo .. t[2].hi \/ x \in (t[1].hi + 1)..(t[2].lo - 1)
        BY <1>0, <1>1, <4>1
      <4>3. QED
        BY <1>1, <4>2, SettledIs
    <3>3. CASE m # 1
      <4>1. m \in 2..MaxRanges /\ m + 1 \in 1..Len(t)
        BY <1>0, <3>3
      <4>2. QED
        BY <1>7, <3>1, <4>1, SettledIs
    <3>4. QED
      BY <3>2, <3>3
  <2>2. ASSUME x \in SettledSet(t) \/ x \in (t[1].hi + 1)..(t[2].lo - 1)
        PROVE  x \in SettledSet(f)
    <3>1. ASSUME x \in g.lo .. g.hi PROVE x \in SettledSet(f)
      <4>1. 1 \in 1..Len(f)
        BY <1>0, <1>7
      <4>2. QED
        BY <1>6, <1>7, <3>1, <4>1, SettledIs
    <3>2. CASE x \in (t[1].hi + 1)..(t[2].lo - 1)
      BY <1>0, <1>1, <1>2, <1>4, <3>1, <3>2
    <3>3. ASSUME NEW o \in 1..Len(t), x \in t[o].lo .. t[o].hi PROVE x \in SettledSet(f)
      <4>1. CASE o = 1 \/ o = 2
        BY <1>0, <1>1, <1>2, <1>4, <3>1, <3>3, <4>1
      <4>2. CASE o > 2
        <5>1. o - 1 \in 2..MaxRanges /\ (o - 1) + 1 = o /\ o - 1 \in 1..Len(f)
          BY <1>0, <1>7, <4>2
        <5>2. f[o - 1] = t[o]
          BY <1>7, <5>1
        <5>3. QED
          BY <1>6, <3>3, <5>1, <5>2, SettledIs
      <4>3. QED
        BY <1>0, <4>1, <4>2
    <3>4. QED
      BY <2>2, <3>2, <3>3, SettledIs
  <2>3. QED
    BY <2>1, <2>2
<1>10. ASSUME NEW x \in Nat, x \notin SettledSet(f) PROVE x < t[1].lo \/ t[2].hi < x
  <2>1. 1 \in 1..Len(f)
    BY <1>0, <1>7
  <2>2. x \notin g.lo .. g.hi
    BY <1>6, <1>7, <1>10, <2>1, SettledIs
  <2>3. QED
    BY <1>0, <1>1, <1>4, <2>2
<1>11. QED
  BY <1>6, <1>7, <1>8, <1>9, <1>10 DEF f

(* covers, of ranges that are merged as they touch, is whether everything  *)
(* in between is settled.                                                  *)
THEOREM CoversIsExact ==
  ASSUME NEW r \in Seq(GroupRanges), IsNormal(r), NEW lo \in Nat, NEW hi \in Nat, lo <= hi
  PROVE  Covers(r, lo, hi) <=> (lo..hi) \subseteq SettledSet(r)
<1>0. Len(r) \in Nat /\ DOMAIN r = 1..Len(r) /\ \A m \in 1..Len(r) : r[m].lo \in Nat /\ r[m].hi \in Nat
  BY RangesAre
<1>1. ASSUME Covers(r, lo, hi) PROVE (lo..hi) \subseteq SettledSet(r)
  <2>1. PICK m \in 1..Len(r) : r[m].lo <= lo /\ hi <= r[m].hi
    BY <1>0, <1>1 DEF Covers
  <2>2. \A x \in lo..hi : x \in r[m].lo .. r[m].hi
    BY <1>0, <2>1
  <2>3. QED
    BY <2>1, <2>2, SettledIs
<1>2. ASSUME (lo..hi) \subseteq SettledSet(r) PROVE Covers(r, lo, hi)
  <2>1. PICK m \in 1..Len(r) : lo \in r[m].lo .. r[m].hi
    BY <1>2, SettledIs
  <2>2. hi <= r[m].hi
    <3> SUFFICES ASSUME ~(hi <= r[m].hi) PROVE FALSE
      OBVIOUS
    <3>1. r[m].hi + 1 \in lo..hi
      BY <1>0, <2>1
    <3>2. PICK l \in 1..Len(r) : r[m].hi + 1 \in r[l].lo .. r[l].hi
      BY <1>2, <3>1, SettledIs
    <3>3. CASE m < l
      BY <1>0, <3>2, <3>3 DEF IsNormal
    <3>4. CASE l < m
      <4>1. r[l].hi + 1 < r[m].lo
        BY <1>0, <3>4 DEF IsNormal
      <4>2. QED
        BY <1>0, <2>1, <3>2, <4>1
    <3>5. CASE l = m
      BY <1>0, <3>2, <3>5
    <3>6. QED
      BY <1>0, <3>3, <3>4, <3>5
  <2>3. QED
    BY <1>0, <2>1, <2>2 DEF Covers
<1>3. QED
  BY <1>1, <1>2

(* a is r with lo through hi settled and, when p <= q, with the gap from p *)
(* to q given up, which then is the oldest one.                            *)
IsExact(a, r, lo, hi, p, q) ==
    /\ \A x : x \in SettledSet(a) <=> x \in SettledSet(r) \/ x \in lo..hi \/ x \in p..q
    /\ p <= q =>
         /\ Len(a) = MaxRanges
         /\ \A x \in p..q : x \notin SettledSet(r) /\ x \notin lo..hi
         /\ \A g, y \in Nat : g \notin SettledSet(a) /\ y \in SettledSet(a) /\ y < g => q < g

LEMMA ForgetKeeps ==
  ASSUME NEW t \in Seq(GroupRanges), Len(t) <= MaxRanges
  PROVE  ForgetOldestGap(t) = t
<1>1. Len(t) \in Nat /\ MaxRanges \in Nat /\ ~(Len(t) > MaxRanges)
  BY RangesAre, MaxRangesAssumption
<1>2. QED
  BY <1>1 DEF ForgetOldestGap

(* add keeps the ranges sorted, disjoint and merged, and within the bound. *)
(* What it settles is what is added and, only past the bound, the oldest   *)
(* gap: whatever is not settled then and has something settled below it is *)
(* above that gap (track_reader.go:389-440).                               *)
THEOREM AddIsExact ==
  ASSUME NEW r \in Seq(GroupRanges), IsNormal(r), Len(r) <= MaxRanges, NEW lo \in Nat, NEW hi \in Nat
  PROVE  /\ Add(r, lo, hi) \in Seq(GroupRanges) /\ IsNormal(Add(r, lo, hi)) /\ Len(Add(r, lo, hi)) <= MaxRanges
         /\ \E p, q \in Nat : IsExact(Add(r, lo, hi), r, lo, hi, p, q)
<1> DEFINE a == Add(r, lo, hi)
<1>0. Len(r) \in Nat /\ MaxRanges \in Nat /\ MaxRanges >= 1
  BY RangesAre, MaxRangesAssumption
<1> DEFINE Result == /\ a \in Seq(GroupRanges) /\ IsNormal(a) /\ Len(a) <= MaxRanges
                     /\ \E p, q \in Nat : IsExact(a, r, lo, hi, p, q)
<1>1. CASE hi < lo
  <2>1. a = r
    BY <1>1 DEF Add
  <2>2. \A x : x \in SettledSet(r) <=> x \in SettledSet(r) \/ x \in lo..hi \/ x \in 1..0
    BY <1>1
  <2>3. ~(1 <= 0) /\ 1 \in Nat /\ 0 \in Nat
    OBVIOUS
  <2> HIDE DEF a
  <2>4. IsExact(a, r, lo, hi, 1, 0)
    BY <2>1, <2>2, <2>3 DEF IsExact
  <2>5. Result
    BY <2>1, <2>3, <2>4 DEF a
  <2>6. QED
    BY <2>5 DEF a
<1>2. CASE lo <= hi
  <2>1. PICK t \in Seq(GroupRanges) :
           /\ IsNormal(t) /\ Len(t) <= Len(r) + 1
           /\ \A x : x \in SettledSet(t) <=> x \in SettledSet(r) \/ x \in lo..hi
           /\ a = ForgetOldestGap(t)
    BY <1>2, AddMerges
  <2> HIDE DEF a
  <2>2. Len(t) \in Nat /\ DOMAIN t = 1..Len(t) /\ \A m \in 1..Len(t) : t[m].lo \in Nat /\ t[m].hi \in Nat
    BY RangesAre
  <2>3. CASE Len(t) <= MaxRanges
    <3>1. a = t
      BY <2>1, <2>3, ForgetKeeps
    <3>2. \A x : x \in SettledSet(a) <=> x \in SettledSet(r) \/ x \in lo..hi \/ x \in 1..0
      BY <2>1, <3>1
    <3>3. ~(1 <= 0) /\ 1 \in Nat /\ 0 \in Nat
      OBVIOUS
    <3>4. IsExact(a, r, lo, hi, 1, 0)
      BY <3>2, <3>3 DEF IsExact
    <3>5. Result
      BY <2>1, <2>3, <3>1, <3>3, <3>4
    <3>6. QED
      BY <3>5 DEF a
  <2>4. CASE ~(Len(t) <= MaxRanges)
    <3>1. Len(t) = MaxRanges + 1 /\ 1 \in 1..Len(t) /\ 2 \in 1..Len(t)
      <4>1. Len(t) <= Len(r) + 1 /\ Len(t) \in Nat
        BY <2>1, <2>2
      <4>2. QED
        BY <1>0, <2>4, <4>1
    <3> DEFINE p == t[1].hi + 1
               q == t[2].lo - 1
    <3>2. /\ a \in Seq(GroupRanges) /\ IsNormal(a) /\ Len(a) = MaxRanges
          /\ \A x : x \in SettledSet(a) <=> x \in SettledSet(t) \/ x \in p..q
          /\ \A x \in Nat : x \notin SettledSet(a) => x < t[1].lo \/ t[2].hi < x
      BY <2>1, <3>1, ForgetIs
    <3>3. t[1].hi + 1 < t[2].lo /\ t[1].lo <= t[1].hi /\ t[2].lo <= t[2].hi
      BY <2>1, <2>2, <3>1 DEF IsNormal
    <3>4. p \in Nat /\ q \in Nat
      BY <2>2, <3>1, <3>3
    <3>5. ASSUME NEW y \in Nat, y \in SettledSet(a) PROVE t[1].lo <= y
      <4>1. y \in SettledSet(t) \/ y \in p..q
        BY <3>2, <3>5
      <4>2. ASSUME NEW m \in 1..Len(t), y \in t[m].lo .. t[m].hi PROVE t[1].lo <= y
        <5>1. CASE m = 1
          BY <2>2, <3>1, <4>2, <5>1
        <5>2. CASE m # 1
          <6>1. t[1].hi + 1 < t[m].lo
            <7>1. IsNormal(t) /\ DOMAIN t = 1..Len(t) /\ Len(t) \in Nat
              BY <2>1, <2>2
            <7>2. 1 \in 1..Len(t) /\ m \in 1..Len(t) /\ 1 < m
              BY <3>1, <5>2, <7>1
            <7>3. QED
              BY <7>1, <7>2 DEF IsNormal
          <6>2. QED
            BY <2>2, <3>1, <3>3, <4>2, <6>1
        <5>3. QED
          BY <5>1, <5>2
      <4>3. CASE y \in p..q
        BY <2>2, <3>1, <3>3, <4>3
      <4>4. QED
        BY <4>1, <4>2, <4>3, SettledIs
    <3>6. \A g, y \in Nat : g \notin SettledSet(a) /\ y \in SettledSet(a) /\ y < g => q < g
      BY <2>2, <3>1, <3>2, <3>3, <3>5
    <3>7. \A x : x \in SettledSet(a) <=> x \in SettledSet(r) \/ x \in lo..hi \/ x \in p..q
      BY <2>1, <3>2
    <3>8. ASSUME NEW x \in p..q PROVE x \notin SettledSet(r) /\ x \notin lo..hi
      <4>1. x \in Nat /\ t[1].hi < x /\ x < t[2].lo
        BY <2>2, <3>1, <3>4, <3>8
      <4>2. ASSUME NEW m \in 1..Len(t), x \in t[m].lo .. t[m].hi PROVE FALSE
        <5>1. m = 1 \/ m = 2 \/ m > 2
          BY <2>2
        <5>2. CASE m = 1
          BY <2>2, <3>1, <4>1, <4>2, <5>2
        <5>3. CASE m = 2
          BY <2>2, <3>1, <4>1, <4>2, <5>3
        <5>4. CASE m > 2
          <6>1. t[2].hi + 1 < t[m].lo
            <7>1. IsNormal(t) /\ DOMAIN t = 1..Len(t)
              BY <2>1, <2>2
            <7>2. QED
              BY <3>1, <5>4, <7>1 DEF IsNormal
          <6>2. QED
            BY <2>2, <3>1, <3>3, <4>1, <4>2, <6>1
        <5>5. QED
          BY <5>1, <5>2, <5>3, <5>4
      <4>3. x \notin SettledSet(t)
        BY <4>2, SettledIs
      <4>4. QED
        BY <2>1, <4>3
    <3> HIDE DEF p, q
    <3>9. Len(a) <= MaxRanges
      BY <1>0, <3>2
    <3>10. IsExact(a, r, lo, hi, p, q)
      BY <3>2, <3>6, <3>7, <3>8 DEF IsExact
    <3>11. Result
      BY <3>2, <3>4, <3>9, <3>10
    <3>12. QED
      BY <3>11 DEF a
  <2>5. QED
    BY <2>3, <2>4
<1>3. Result
  BY <1>1, <1>2
<1>4. QED
  BY <1>3

-----------------------------------------------------------------------------
(* Ranges that stand apart take room: of the sequences up to n there are   *)
(* no more than n / 2 + 1.                                                 *)
LEMMA RangesTakeRoom ==
  ASSUME NEW r \in Seq(GroupRanges), IsNormal(r), NEW n \in Nat,
         \A m \in 1..Len(r) : r[m].hi <= n
  PROVE  2 * Len(r) <= n + 2
<1> DEFINE S == {m \in 1..Len(r) : r[m].lo < 2 * (m - 1)}
<1>0. Len(r) \in Nat /\ DOMAIN r = 1..Len(r) /\ \A m \in 1..Len(r) : r[m].lo \in Nat /\ r[m].hi \in Nat
  BY RangesAre
<1>1. S = {}
  <2> SUFFICES ASSUME S # {} PROVE FALSE
    OBVIOUS
  <2>1. S \in SUBSET Nat
    BY <1>0
  <2>2. PICK m \in S : \A l \in S : m <= l
    <3> HIDE DEF S
    <3> QED
      BY <2>1, LeastOf
  <2>3. m # 1
    BY <1>0
  <2>4. m - 1 \in 1..Len(r) /\ m \in 1..Len(r) /\ m - 1 \notin S /\ m - 1 < m
    BY <1>0, <2>2, <2>3
  <2>5. r[m - 1].lo >= 2 * ((m - 1) - 1)
    BY <1>0, <2>4
  <2>6. r[m - 1].hi + 1 < r[m].lo /\ r[m - 1].lo <= r[m - 1].hi
    BY <1>0, <2>4 DEF IsNormal
  <2>7. r[m].lo < 2 * (m - 1)
    OBVIOUS
  <2>8. m \in Nat /\ r[m].lo \in Nat /\ r[m - 1].lo \in Nat /\ r[m - 1].hi \in Nat
    BY <1>0, <2>4
  <2> HIDE DEF S
  <2>9. QED
    BY <2>5, <2>6, <2>7, <2>8
<1>2. CASE Len(r) = 0
  BY <1>2
<1>3. CASE Len(r) # 0
  <2>1. Len(r) \in 1..Len(r)
    BY <1>0, <1>3
  <2>2. r[Len(r)].lo >= 2 * (Len(r) - 1)
    BY <1>0, <1>1, <2>1
  <2>3. r[Len(r)].lo <= r[Len(r)].hi /\ r[Len(r)].hi <= n
    BY <1>0, <2>1 DEF IsNormal
  <2>4. QED
    BY <1>0, <2>1, <2>2, <2>3
<1>4. QED
  BY <1>2, <1>3

(* As long as the sequences leave the ranges room, no gap is given up.     *)
THEOREM AddFits ==
  ASSUME NEW n \in Nat, n < 2 * MaxRanges,
         NEW r \in Seq(GroupRanges), IsNormal(r), SettledSet(r) \subseteq 0..n,
         NEW lo \in Nat, NEW hi \in Nat, hi <= n
  PROVE  \A x : x \in SettledSet(Add(r, lo, hi)) <=> x \in SettledSet(r) \/ x \in lo..hi
<1>1. CASE hi < lo
  <2>1. Add(r, lo, hi) = r
    BY <1>1 DEF Add
  <2>2. QED
    BY <1>1, <2>1
<1>2. CASE lo <= hi
  <2>1. PICK t \in Seq(GroupRanges) :
           /\ IsNormal(t) /\ Len(t) <= Len(r) + 1
           /\ \A x : x \in SettledSet(t) <=> x \in SettledSet(r) \/ x \in lo..hi
           /\ Add(r, lo, hi) = ForgetOldestGap(t)
    BY <1>2, AddMerges
  <2>2. /\ Len(t) \in Nat /\ MaxRanges \in Nat /\ DOMAIN t = 1..Len(t)
        /\ \A m \in 1..Len(t) : t[m].lo \in Nat /\ t[m].hi \in Nat
    BY RangesAre, MaxRangesAssumption
  <2>3. ASSUME NEW m \in 1..Len(t) PROVE t[m].hi <= n
    <3>1. t[m].hi \in t[m].lo .. t[m].hi
      BY <2>1, <2>2 DEF IsNormal
    <3>2. t[m].hi \in SettledSet(t)
      BY <3>1, SettledIs
    <3>3. QED
      BY <2>1, <3>2
  <2>4. 2 * Len(t) <= n + 2
    BY <2>1, <2>3, RangesTakeRoom
  <2>5. Len(t) <= MaxRanges
    BY <2>2, <2>4
  <2>6. ForgetOldestGap(t) = t
    BY <2>5, ForgetKeeps
  <2>7. QED
    BY <2>1, <2>6
<1>3. QED
  BY <1>1, <1>2

-----------------------------------------------------------------------------
(* Any number of additions *)

LEMMA SettledAreNat ==
  ASSUME NEW s \in Seq(GroupRanges), NEW x \in SettledSet(s)
  PROVE  x \in Nat
<1>1. PICK m \in 1..Len(s) : x \in s[m].lo .. s[m].hi
  BY SettledIs
<1>2. s[m].lo \in Nat /\ s[m].hi \in Nat
  BY RangesAre
<1>3. QED
  BY <1>1, <1>2

(* The ranges are what add keeps, and hold everything that was added.      *)
RangesInv ==
    /\ ranges \in Seq(GroupRanges) /\ IsNormal(ranges) /\ Len(ranges) <= MaxRanges
    /\ added \subseteq SettledSet(ranges)

LEMMA SettledInitially == SettledInit => RangesInv
<1> SUFFICES ASSUME SettledInit PROVE RangesInv
  OBVIOUS
<1>1. <<>> \in Seq(GroupRanges) /\ Len(<<>>) = 0 /\ DOMAIN <<>> = {}
  OBVIOUS
<1>2. IsNormal(<<>>)
  BY <1>1 DEF IsNormal
<1>3. 0 <= MaxRanges
  BY MaxRangesAssumption
<1>4. QED
  BY <1>1, <1>2, <1>3 DEF SettledInit, RangesInv

LEMMA SettleIsExact ==
  ASSUME RangesInv, NEW lo \in GroupSequences, NEW hi \in GroupSequences, Settle(lo, hi)
  PROVE  RangesInv' /\ OnlyOldestGapGivenUp
<1>1. lo \in Nat /\ hi \in Nat
  BY SequencesAssumption
<1>2. ranges' = Add(ranges, lo, hi) /\ added' = added \cup (lo..hi)
  BY DEF Settle
<1>3. ranges' \in Seq(GroupRanges) /\ IsNormal(ranges') /\ Len(ranges') <= MaxRanges
  BY <1>1, <1>2, AddIsExact DEF RangesInv
<1>4. PICK p \in Nat, q \in Nat : IsExact(ranges', ranges, lo, hi, p, q)
  BY <1>1, <1>2, AddIsExact DEF RangesInv
<1>5. \A x : x \in SettledSet(ranges') <=> x \in SettledSet(ranges) \/ x \in lo..hi \/ x \in p..q
  BY <1>4 DEF IsExact
<1>6. added' \subseteq SettledSet(ranges')
  BY <1>2, <1>5 DEF RangesInv
<1>7. IsNormal(ranges)'
  BY <1>3 DEF IsNormal
<1>8. SettledSet(ranges)' = SettledSet(ranges')
  BY DEF SettledSet
<1>9. RangesInv'
  BY <1>3, <1>6, <1>7, <1>8 DEF RangesInv
<1>10. OnlyOldestGapGivenUp
  <2> DEFINE given == SettledSet(ranges') \ (SettledSet(ranges) \cup added')
  <2>1. ASSUME NEW x PROVE x \in given <=> x \in p..q
    <3>1. ASSUME x \in given PROVE x \in p..q
      BY <1>2, <1>5, <3>1
    <3>2. ASSUME x \in p..q PROVE x \in given
      <4>1. p <= q
        BY <3>2
      <4>2. x \notin SettledSet(ranges) /\ x \notin lo..hi
        BY <1>4, <3>2, <4>1 DEF IsExact
      <4>3. x \notin added'
        BY <1>2, <4>2 DEF RangesInv
      <4>4. QED
        BY <1>5, <3>2, <4>2, <4>3
    <3>3. QED
      BY <3>1, <3>2
  <2> HIDE DEF given
  <2>2. ASSUME given # {}
        PROVE  /\ Len(ranges') = MaxRanges
               /\ \A x \in given, g \in Gaps' : x < g
               /\ \A x, y \in given : (x..y) \subseteq given
    <3>1. p <= q
      BY <2>1, <2>2
    <3>2. /\ Len(ranges') = MaxRanges
          /\ \A g, y \in Nat : g \notin SettledSet(ranges') /\ y \in SettledSet(ranges') /\ y < g => q < g
      BY <1>4, <3>1 DEF IsExact
    <3>3. ASSUME NEW x \in given, NEW g \in Gaps' PROVE x < g
      <4>1. g \in GroupSequences /\ g \notin SettledSet(ranges') /\ \E y \in SettledSet(ranges') : y < g
        BY <1>8, <3>3 DEF Gaps
      <4>2. PICK y \in SettledSet(ranges') : y < g
        BY <4>1
      <4>3. y \in Nat
        BY <1>3, <4>2, SettledAreNat
      <4>4. q < g
        BY <3>2, <4>1, <4>2, <4>3, SequencesAssumption
      <4>5. x \in p..q /\ g \in Nat
        BY <2>1, <3>3, <4>1, SequencesAssumption
      <4>6. QED
        BY <4>4, <4>5
    <3>4. ASSUME NEW x \in given, NEW y \in given PROVE (x..y) \subseteq given
      <4>1. x \in p..q /\ y \in p..q
        BY <2>1
      <4>2. \A z \in x..y : z \in p..q
        BY <4>1
      <4>3. QED
        BY <2>1, <4>2
    <3>5. QED
      BY <3>2, <3>3, <3>4
  <2>3. QED
    BY <2>2 DEF OnlyOldestGapGivenUp, given
<1>11. QED
  BY <1>9, <1>10

(* What was added stays covered, and nothing is but what is settled. *)
LEMMA SettledIsCovered == RangesInv => NormalForm /\ CoversWhatIsSettled
<1> SUFFICES ASSUME RangesInv PROVE NormalForm /\ CoversWhatIsSettled
  OBVIOUS
<1>1. NormalForm
  BY DEF RangesInv, NormalForm
<1>2. ASSUME NEW lo \in GroupSequences, NEW hi \in GroupSequences, lo <= hi
      PROVE  /\ (lo..hi) \subseteq added => Covers(ranges, lo, hi)
             /\ Covers(ranges, lo, hi) => (lo..hi) \subseteq SettledSet(ranges)
  <2>1. lo \in Nat /\ hi \in Nat
    BY SequencesAssumption
  <2>2. Covers(ranges, lo, hi) <=> (lo..hi) \subseteq SettledSet(ranges)
    BY <1>2, <2>1, CoversIsExact DEF RangesInv
  <2>3. QED
    BY <2>2 DEF RangesInv
<1>3. QED
  BY <1>1, <1>2 DEF CoversWhatIsSettled

LEMMA SettledStep ==
  RangesInv /\ [SettledNext]_<<ranges, added>>
    => RangesInv' /\ [OnlyOldestGapGivenUp]_<<ranges, added>>
<1>1. ASSUME RangesInv, SettledNext PROVE RangesInv' /\ OnlyOldestGapGivenUp
  BY <1>1, SettleIsExact DEF SettledNext
<1>2. ASSUME RangesInv, UNCHANGED <<ranges, added>> PROVE RangesInv'
  BY <1>2 DEF RangesInv, IsNormal, SettledSet
<1>3. QED
  BY <1>1, <1>2

(* For any bound, any sequences and any number of additions in any order:  *)
(* settledGroups is the set of the groups that arrived or were dropped,    *)
(* and of the oldest gaps it had no room for (track_reader.go:389-440).    *)
THEOREM SettledStaysExact == SettledSpec => SettledIsExact
<1>1. RangesInv' => NormalForm' /\ CoversWhatIsSettled'
  BY SettledIsCovered, PTL
<1>2. RangesInv /\ [SettledNext]_<<ranges, added>>
        => RangesInv' /\ [NormalForm' /\ CoversWhatIsSettled' /\ OnlyOldestGapGivenUp]_<<ranges, added>>
  BY <1>1, SettledStep
<1>3. QED
  BY <1>2, SettledInitially, PTL DEF SettledSpec, SettledIsExact
=============================================================================
