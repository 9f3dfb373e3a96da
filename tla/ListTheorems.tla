---------------------------- MODULE ListTheorems ----------------------------
(* What the operators of Lists return, for all lists and sets of rows: which *)
(* elements, how often and in which order.                                   *)
EXTENDS Lists, SequenceTheorems, FiniteSetTheorems, WellFoundedInduction, TLAPS

-----------------------------------------------------------------------------
(* Lists                                                                   *)

IsList(s) == s \in Seq(ToSet(s))

LEMMA ListIs ==
    ASSUME NEW s, IsList(s)
    PROVE  /\ Len(s) \in Nat /\ DOMAIN s = 1 .. Len(s)
           /\ \A i \in 1 .. Len(s) : s[i] \in ToSet(s)
           /\ \A x \in ToSet(s) : \E i \in 1 .. Len(s) : x = s[i]
           /\ s = [i \in 1 .. Len(s) |-> s[i]]
<1>1. Len(s) \in Nat /\ s \in [1 .. Len(s) -> ToSet(s)] /\ DOMAIN s = 1 .. Len(s)
  BY LenProperties DEF IsList
<1>2. \A x \in ToSet(s) : \E i \in 1 .. Len(s) : x = s[i]
  BY <1>1 DEF ToSet
<1> QED
  BY <1>1, <1>2

LEMMA ListOf ==
    ASSUME NEW S, NEW s \in Seq(S)
    PROVE  IsList(s) /\ ToSet(s) \subseteq S
<1>1. Len(s) \in Nat /\ s \in [1 .. Len(s) -> S] /\ DOMAIN s = 1 .. Len(s)
  BY LenProperties
<1>2. ToSet(s) \subseteq S
  BY <1>1 DEF ToSet
<1>3. s \in [1 .. Len(s) -> ToSet(s)]
  BY <1>1 DEF ToSet
<1>4. s \in Seq(ToSet(s))
  BY <1>1, <1>3
<1> QED
  BY <1>2, <1>4 DEF IsList

LEMMA ListFun ==
    ASSUME NEW n \in Nat, NEW s, s = [i \in 1 .. n |-> s[i]]
    PROVE  IsList(s) /\ Len(s) = n
<1>1. \A i \in 1 .. n : s[i] \in ToSet(s)
  <2>1. DOMAIN s = 1 .. n
    OBVIOUS
  <2> QED
    BY <2>1 DEF ToSet
<1>2. s \in [1 .. n -> ToSet(s)]
  BY <1>1
<1>3. s \in Seq(ToSet(s))
  BY <1>2
<1> QED
  BY <1>2, <1>3 DEF IsList

LEMMA NoList ==
    /\ IsList(<<>>) /\ Len(<<>>) = 0 /\ ToSet(<<>>) = {}
    /\ \A s : IsList(s) => (s = <<>> <=> Len(s) = 0)
<1>1. IsList(<<>>) /\ Len(<<>>) = 0 /\ ToSet(<<>>) = {}
  BY DEF IsList, ToSet
<1>2. ASSUME NEW s, IsList(s) PROVE s = <<>> <=> Len(s) = 0
  BY <1>2 DEF IsList
<1> QED
  BY <1>1, <1>2

LEMMA AppendList ==
    ASSUME NEW s, IsList(s), NEW x
    PROVE  /\ IsList(Append(s, x)) /\ Len(Append(s, x)) = Len(s) + 1
           /\ \A i \in 1 .. Len(s) : Append(s, x)[i] = s[i]
           /\ Append(s, x)[Len(s) + 1] = x
           /\ ToSet(Append(s, x)) = ToSet(s) \cup {x}
<1> DEFINE S == ToSet(s) \cup {x}
           t == Append(s, x)
<1>1. s \in Seq(S)
  BY SeqMonotonic DEF IsList
<1>2. /\ t \in Seq(S) /\ Len(t) = Len(s) + 1
      /\ \A i \in 1 .. Len(s) : t[i] = s[i]
      /\ t[Len(s) + 1] = x
  <2>1. x \in S
    OBVIOUS
  <2> HIDE DEF S
  <2> QED
    BY <1>1, <2>1, AppendProperties
<1> HIDE DEF t
<1>3. IsList(t) /\ ToSet(t) \subseteq S
  BY <1>2, ListOf
<1>4. S \subseteq ToSet(t)
  <2>1. Len(s) \in Nat
    BY ListIs
  <2>2. ASSUME NEW y \in ToSet(s) PROVE y \in ToSet(t)
    <3>1. PICK i \in 1 .. Len(s) : y = s[i]
      BY ListIs
    <3>2. i \in 1 .. Len(t) /\ t[i] = y
      BY <1>2, <2>1, <3>1
    <3> QED
      BY <1>3, <3>2, ListIs
  <2>3. Len(s) + 1 \in 1 .. Len(t)
    BY <1>2, <2>1
  <2>4. x \in ToSet(t)
    BY <1>2, <1>3, <2>3, ListIs
  <2> QED
    BY <2>2, <2>4
<1> QED
  BY <1>2, <1>3, <1>4 DEF t

LEMMA ConcatList ==
    ASSUME NEW s, NEW t, IsList(s), IsList(t)
    PROVE  /\ IsList(s \o t) /\ Len(s \o t) = Len(s) + Len(t)
           /\ \A i \in 1 .. Len(s) : (s \o t)[i] = s[i]
           /\ \A i \in 1 .. Len(t) : (s \o t)[Len(s) + i] = t[i]
           /\ \A i \in 1 .. Len(s \o t) : (s \o t)[i] = IF i <= Len(s) THEN s[i] ELSE t[i - Len(s)]
           /\ ToSet(s \o t) = ToSet(s) \cup ToSet(t)
<1> DEFINE S == ToSet(s) \cup ToSet(t)
           u == s \o t
<1>1. s \in Seq(S) /\ t \in Seq(S)
  BY SeqMonotonic DEF IsList
<1>2. /\ u \in Seq(S) /\ Len(u) = Len(s) + Len(t)
      /\ \A i \in 1 .. Len(s) + Len(t) : u[i] = IF i <= Len(s) THEN s[i] ELSE t[i - Len(s)]
  <2> HIDE DEF S
  <2> QED
    BY <1>1, ConcatProperties
<1> HIDE DEF u
<1>3. Len(s) \in Nat /\ Len(t) \in Nat
  BY ListIs
<1>4. \A i \in 1 .. Len(s) : i \in 1 .. Len(u) /\ u[i] = s[i]
  BY <1>2, <1>3
<1>5. ASSUME NEW i \in 1 .. Len(t) PROVE Len(s) + i \in 1 .. Len(u) /\ u[Len(s) + i] = t[i]
  <2>1. Len(s) + i \in 1 .. Len(s) + Len(t) /\ ~ (Len(s) + i <= Len(s)) /\ (Len(s) + i) - Len(s) = i
    BY <1>3
  <2> QED
    BY <1>2, <2>1
<1>6. IsList(u) /\ ToSet(u) \subseteq S
  BY <1>2, ListOf
<1>7. ToSet(s) \subseteq ToSet(u)
  <2>1. ASSUME NEW y \in ToSet(s) PROVE y \in ToSet(u)
    <3>1. PICK i \in 1 .. Len(s) : y = s[i]
      BY ListIs
    <3> QED
      BY <1>4, <1>6, <3>1, ListIs
  <2> QED
    BY <2>1
<1>8. ToSet(t) \subseteq ToSet(u)
  <2>1. ASSUME NEW y \in ToSet(t) PROVE y \in ToSet(u)
    <3>1. PICK i \in 1 .. Len(t) : y = t[i]
      BY ListIs
    <3> QED
      BY <1>5, <1>6, <3>1, ListIs
  <2> QED
    BY <2>1
<1> QED
  BY <1>2, <1>4, <1>5, <1>6, <1>7, <1>8 DEF u

LEMMA ReverseList ==
    ASSUME NEW s, IsList(s)
    PROVE  /\ IsList(Reverse(s)) /\ Len(Reverse(s)) = Len(s) /\ ToSet(Reverse(s)) = ToSet(s)
           /\ \A i \in 1 .. Len(s) : Len(s) - i + 1 \in 1 .. Len(s) /\ Reverse(s)[i] = s[Len(s) - i + 1]
<1> DEFINE t == Reverse(s)
<1>1. Len(s) \in Nat
  BY ListIs
<1>2. t = [i \in 1 .. Len(s) |-> s[(Len(s) - i) + 1]]
  BY DEF Reverse
<1>3. IsList(t) /\ Len(t) = Len(s)
  <2>1. t = [i \in 1 .. Len(s) |-> t[i]]
    BY <1>2
  <2> HIDE DEF t
  <2> QED
    BY <1>1, <2>1, ListFun
<1>4. \A i \in 1 .. Len(s) : Len(s) - i + 1 \in 1 .. Len(s) /\ t[i] = s[Len(s) - i + 1]
  BY <1>1, <1>2
<1> HIDE DEF t
<1>5. ASSUME NEW y \in ToSet(t) PROVE y \in ToSet(s)
  <2>1. PICK i \in 1 .. Len(t) : y = t[i]
    BY <1>3, ListIs
  <2> QED
    BY <1>3, <1>4, <2>1, ListIs
<1>6. ASSUME NEW y \in ToSet(s) PROVE y \in ToSet(t)
  <2>1. PICK i \in 1 .. Len(s) : y = s[i]
    BY ListIs
  <2>2. Len(s) - i + 1 \in 1 .. Len(s) /\ Len(s) - (Len(s) - i + 1) + 1 = i
    BY <1>1
  <2>3. t[Len(s) - i + 1] = y
    BY <1>4, <2>1, <2>2
  <2> QED
    BY <1>3, <2>2, <2>3, ListIs
<1> QED
  BY <1>3, <1>4, <1>5, <1>6 DEF t

(* t has places of s, none twice, in some order.                           *)
Drawn(s, t) ==
    \E f \in [1 .. Len(t) -> 1 .. Len(s)] :
        /\ \A i, j \in 1 .. Len(t) : f[i] = f[j] => i = j
        /\ \A i \in 1 .. Len(t) : t[i] = s[f[i]]

LEMMA DrawnTwice ==
    ASSUME NEW s, NEW t, NEW u, Drawn(s, t), Drawn(t, u)
    PROVE  Drawn(s, u)
<1>1. PICK f \in [1 .. Len(t) -> 1 .. Len(s)] :
          /\ \A i, j \in 1 .. Len(t) : f[i] = f[j] => i = j
          /\ \A i \in 1 .. Len(t) : t[i] = s[f[i]]
  BY DEF Drawn
<1>2. PICK g \in [1 .. Len(u) -> 1 .. Len(t)] :
          /\ \A i, j \in 1 .. Len(u) : g[i] = g[j] => i = j
          /\ \A i \in 1 .. Len(u) : u[i] = t[g[i]]
  BY DEF Drawn
<1> DEFINE h == [i \in 1 .. Len(u) |-> f[g[i]]]
<1>3. /\ h \in [1 .. Len(u) -> 1 .. Len(s)]
      /\ \A i \in 1 .. Len(u) : h[i] = f[g[i]] /\ g[i] \in 1 .. Len(t)
  OBVIOUS
<1> HIDE DEF h
<1>4. \A i, j \in 1 .. Len(u) : h[i] = h[j] => i = j
  BY <1>1, <1>2, <1>3
<1>5. \A i \in 1 .. Len(u) : u[i] = s[h[i]]
  BY <1>1, <1>2, <1>3
<1> QED
  BY <1>3, <1>4, <1>5 DEF Drawn

LEMMA DrawnElements ==
    ASSUME NEW s, NEW t, IsList(s), IsList(t), Drawn(s, t)
    PROVE  ToSet(t) \subseteq ToSet(s)
<1>1. PICK f \in [1 .. Len(t) -> 1 .. Len(s)] : \A i \in 1 .. Len(t) : t[i] = s[f[i]]
  BY DEF Drawn
<1>2. ASSUME NEW y \in ToSet(t) PROVE y \in ToSet(s)
  <2>1. PICK i \in 1 .. Len(t) : y = t[i]
    BY ListIs
  <2>2. f[i] \in 1 .. Len(s) /\ y = s[f[i]]
    BY <1>1, <2>1
  <2> QED
    BY <2>2, ListIs
<1> QED
  BY <1>2

LEMMA DrawnSelf ==
    ASSUME NEW s
    PROVE  Drawn(s, s)
<1> DEFINE f == [i \in 1 .. Len(s) |-> i]
<1>1. f \in [1 .. Len(s) -> 1 .. Len(s)] /\ \A i \in 1 .. Len(s) : f[i] = i
  OBVIOUS
<1> HIDE DEF f
<1> QED
  BY <1>1 DEF Drawn

(* A set of natural numbers has a least member, and the subsets of a finite *)
(* set have sizes: what FoldTheorems asks for.                              *)
LEMMA LeastNatural ==
    \A T \in SUBSET Nat : T # {} => \E m \in T : \A k \in T : m <= k
<1> SUFFICES ASSUME NEW T \in SUBSET Nat, T # {}
             PROVE  \E n \in T : \A m \in T : n <= m
  OBVIOUS
<1> DEFINE R == OpToRel(<, Nat)
<1>0. IsWellFoundedOn(R, Nat)
  BY NatLessThanWellFounded
<1> HIDE DEF R
<1>1. PICK n \in T : \A m \in T : <<m, n>> \notin R
  BY <1>0, WFMin
<1>2. n \in Nat /\ \A m \in T : m \in Nat /\ (m < n => <<m, n>> \in R)
  BY DEF R, OpToRel
<1>3. ASSUME NEW m \in T PROVE n <= m
  <2>1. ~ (m < n)
    BY <1>1, <1>2
  <2> QED
    BY <1>2, <2>1
<1> QED
  BY <1>3

LEMMA FiniteImage ==
    ASSUME NEW S, IsFiniteSet(S), NEW f, DOMAIN f = S
    PROVE  IsFiniteSet({f[x] : x \in S})
<1> DEFINE T == {f[x] : x \in S}
           g == [x \in S |-> f[x]]
<1>1. g \in [S -> T] /\ \A t \in T : \E x \in S : g[x] = t
  OBVIOUS
<1> HIDE DEF g, T
<1>2. g \in Surjection(S, T)
  BY <1>1 DEF Surjection
<1>3. IsFiniteSet(T)
  BY <1>2, FS_Surjection
<1> QED
  BY <1>3 DEF T

LEMMA Sizes ==
    ASSUME NEW S, IsFiniteSet(S)
    PROVE  \E size \in [SUBSET S -> Nat] : \A x \in SUBSET S : \A y \in x : size[x \ {y}] < size[x]
<1> DEFINE size == [x \in SUBSET S |-> Cardinality(x)]
<1>1. ASSUME NEW x \in SUBSET S
      PROVE  IsFiniteSet(x) /\ Cardinality(x) \in Nat /\ \A y \in x : Cardinality(x \ {y}) = Cardinality(x) - 1
  <2>1. IsFiniteSet(x)
    BY FS_Subset
  <2> QED
    BY <2>1, FS_CardinalityType, FS_RemoveElement
<1>2. size \in [SUBSET S -> Nat]
  BY <1>1
<1>3. ASSUME NEW x \in SUBSET S, NEW y \in x PROVE size[x \ {y}] < size[x]
  <2>1. x \ {y} \in SUBSET S /\ size[x] = Cardinality(x) /\ size[x \ {y}] = Cardinality(x \ {y})
    OBVIOUS
  <2>2. Cardinality(x) \in Nat /\ Cardinality(x \ {y}) = Cardinality(x) - 1
    BY <1>1
  <2> QED
    BY <2>1, <2>2
<1> QED
  BY <1>2, <1>3

(* filter()                                                                *)
Keep(c, kept, x) == IF x \in c[2] THEN Append(kept, x) ELSE kept

KeptOf(c, k, kept) ==
    /\ IsList(kept)
    /\ \A y : y \in ToSet(kept) <=> y \in c[2] /\ \E i \in 1 .. k : y = c[1][i]
    /\ \E f \in [1 .. Len(kept) -> 1 .. k] :
           /\ \A i, j \in 1 .. Len(kept) : f[i] = f[j] => i = j
           /\ \A i \in 1 .. Len(kept) : kept[i] = c[1][f[i]]

Filter == INSTANCE FoldTheorems WITH Op <- Keep, Inv <- KeptOf

LEMMA ThoseAre ==
    ASSUME NEW s, IsList(s), NEW T
    PROVE  IsList(Those(s, T)) /\ ToSet(Those(s, T)) = ToSet(s) \cap T /\ Drawn(s, Those(s, T))
<1> DEFINE c == <<s, T>>
           n == Len(s)
<1>0. n \in Nat /\ DOMAIN s = 1 .. n
  BY ListIs
<1>1. Those(s, T) = Filter!Fold(c, <<>>, s)
  BY DEF Those, Keep, FoldLeft, MapThenFoldSet, Max,
         Filter!Fold, Filter!Greatest
<1>2. KeptOf(c, 0, <<>>)
  <2>1. 1 .. 0 = {}
    OBVIOUS
  <2>2. <<>> \in [1 .. 0 -> 1 .. 0]
    BY <2>1
  <2> QED
    BY <2>1, <2>2, NoList DEF KeptOf
<1>3. ASSUME NEW k \in 1 .. n, NEW kept, KeptOf(c, k - 1, kept) PROVE KeptOf(c, k, Keep(c, kept, s[k]))
  <2>0. k \in Nat /\ 1 .. k = (1 .. (k - 1)) \cup {k} /\ k \notin 1 .. (k - 1)
    OBVIOUS
  <2>1. /\ IsList(kept)
        /\ \A y : y \in ToSet(kept) <=> y \in T /\ \E i \in 1 .. (k - 1) : y = s[i]
    BY <1>3 DEF KeptOf
  <2>2. PICK f \in [1 .. Len(kept) -> 1 .. (k - 1)] :
            /\ \A i, j \in 1 .. Len(kept) : f[i] = f[j] => i = j
            /\ \A i \in 1 .. Len(kept) : kept[i] = s[f[i]]
    BY <1>3 DEF KeptOf
  <2>3. CASE s[k] \in T
    <3> DEFINE t == Append(kept, s[k])
               g == [i \in 1 .. Len(t) |-> IF i = Len(t) THEN k ELSE f[i]]
    <3>1. Keep(c, kept, s[k]) = t
      BY <2>3 DEF Keep
    <3>2. /\ IsList(t) /\ Len(t) = Len(kept) + 1 /\ ToSet(t) = ToSet(kept) \cup {s[k]}
          /\ \A i \in 1 .. Len(kept) : t[i] = kept[i]
          /\ t[Len(kept) + 1] = s[k]
      BY <2>1, AppendList
    <3>3. Len(kept) \in Nat
      BY <2>1, ListIs
    <3> HIDE DEF t
    <3>4. \A i \in 1 .. Len(t) : IF i = Len(t) THEN g[i] = k ELSE i \in 1 .. Len(kept) /\ g[i] = f[i]
      BY <3>2, <3>3
    <3>5. g \in [1 .. Len(t) -> 1 .. k]
      <4>1. \A i \in 1 .. Len(t) : g[i] \in 1 .. k
        BY <2>0, <3>4
      <4> QED
        BY <4>1
    <3> HIDE DEF g
    <3>6. ASSUME NEW i \in 1 .. Len(t), NEW j \in 1 .. Len(t), g[i] = g[j] PROVE i = j
      <4>1. \A m \in 1 .. Len(kept) : f[m] \in 1 .. (k - 1) /\ f[m] # k
        BY <2>0
      <4>2. CASE i = Len(t)
        BY <3>4, <3>6, <4>1, <4>2
      <4>3. CASE j = Len(t)
        BY <3>4, <3>6, <4>1, <4>3
      <4>4. CASE i # Len(t) /\ j # Len(t)
        BY <2>2, <3>4, <3>6, <4>4
      <4> QED
        BY <4>2, <4>3, <4>4
    <3>7. \A i \in 1 .. Len(t) : t[i] = s[g[i]]
      BY <2>2, <3>2, <3>4
    <3>8. \A y : y \in ToSet(t) <=> y \in T /\ \E i \in 1 .. k : y = s[i]
      BY <2>0, <2>1, <2>3, <3>2
    <3> QED
      BY <3>1, <3>2, <3>5, <3>6, <3>7, <3>8 DEF KeptOf
  <2>4. CASE s[k] \notin T
    <3>1. Keep(c, kept, s[k]) = kept
      BY <2>4 DEF Keep
    <3>2. f \in [1 .. Len(kept) -> 1 .. k]
      BY <2>0
    <3>3. \A y : y \in ToSet(kept) <=> y \in T /\ \E i \in 1 .. k : y = s[i]
      BY <2>0, <2>1, <2>4
    <3>4. \E h \in [1 .. Len(kept) -> 1 .. k] :
              /\ \A i, j \in 1 .. Len(kept) : h[i] = h[j] => i = j
              /\ \A i \in 1 .. Len(kept) : kept[i] = s[h[i]]
      BY <2>2, <3>2
    <3>5. KeptOf(c, k, kept)
      BY <2>1, <3>3, <3>4 DEF KeptOf
    <3> QED
      BY <3>1, <3>5
  <2> QED
    BY <2>3, <2>4
<1>4. KeptOf(c, n, Filter!Fold(c, <<>>, s))
  <2> HIDE DEF c, n
  <2>1. \A k \in 1 .. n : \A kept : KeptOf(c, k - 1, kept) => KeptOf(c, k, Keep(c, kept, s[k]))
    BY <1>3
  <2> QED
    BY <1>0, <1>2, <2>1, LeastNatural, Filter!FoldKeeps
<1>5. KeptOf(c, n, Those(s, T))
  BY <1>1, <1>4
<1> HIDE DEF n
<1>6. ToSet(Those(s, T)) = ToSet(s) \cap T
  <2>1. \A y : y \in ToSet(Those(s, T)) <=> y \in T /\ \E i \in 1 .. n : y = s[i]
    BY <1>5 DEF KeptOf
  <2>2. \A y : y \in ToSet(s) <=> \E i \in 1 .. n : y = s[i]
    BY ListIs DEF n
  <2> QED
    BY <2>1, <2>2
<1>7. Drawn(s, Those(s, T))
  BY <1>5 DEF KeptOf, Drawn, n
<1> QED
  BY <1>5, <1>6, <1>7 DEF KeptOf

-----------------------------------------------------------------------------
(* sort()                                                                  *)
LEMMA MaximumIs ==
    ASSUME NEW n \in Nat, NEW S \in SUBSET (1 .. n), NEW default
    PROVE  Maximum(S, default) \in S \/ (S = {} /\ Maximum(S, default) = default)
<1>1. CASE S = {}
  BY <1>1 DEF Maximum
<1>2. CASE S # {}
  <2>1. Filter!Greatest(S) \in S /\ \A y \in S : Filter!Greatest(S) >= y
    BY <1>2, LeastNatural, Filter!GreatestIs
  <2>2. \E x \in S : \A y \in S : y <= x
    <3>1. \A y \in S : y \in Nat /\ Filter!Greatest(S) \in Nat
      <4>1. \A y \in 1 .. n : y \in Nat
        OBVIOUS
      <4> QED
        BY <2>1, <4>1
    <3>2. \A y \in S : y <= Filter!Greatest(S)
      BY <2>1, <3>1
    <3> QED
      BY <2>1, <3>2
  <2> QED
    BY <1>2, <2>2 DEF Maximum
<1> QED
  BY <1>1, <1>2

(* x comes in at the place p.                                              *)
LEMMA Inserted ==
    ASSUME NEW s, IsList(s), NEW p \in 1 .. (Len(s) + 1), NEW x
    PROVE  /\ IsList(InsertAt(s, p, x)) /\ Len(InsertAt(s, p, x)) = Len(s) + 1
           /\ \A i \in 1 .. (Len(s) + 1) :
                  InsertAt(s, p, x)[i] = IF i < p THEN s[i] ELSE IF i = p THEN x ELSE s[i - 1]
<1> DEFINE l == SubSeq(s, 1, p - 1)
           r == SubSeq(s, p, Len(s))
           m == l \o <<x>>
           t == m \o r
<1>0. Len(s) \in Nat /\ p \in Nat /\ \A i \in 1 .. Len(s) : s[i] \in ToSet(s)
  BY ListIs
<1>1. l \in Seq(ToSet(s)) /\ Len(l) = p - 1 /\ \A i \in 1 .. (p - 1) : l[i] = s[i]
  <2>1. 1 \in Int /\ p - 1 \in Int /\ \A i \in 1 .. (p - 1) : s[i] \in ToSet(s)
    BY <1>0
  <2>2. l \in Seq(ToSet(s)) /\ Len(l) = (IF 1 <= p - 1 THEN (p - 1) - 1 + 1 ELSE 0)
        /\ \A i \in 1 .. (p - 1) - 1 + 1 : l[i] = s[1 + i - 1]
    BY <2>1, SubSeqProperties
  <2> HIDE DEF l
  <2>3. Len(l) = p - 1
    BY <1>0, <2>2
  <2>4. \A i \in 1 .. (p - 1) : i \in 1 .. (p - 1) - 1 + 1 /\ 1 + i - 1 = i
    BY <1>0
  <2> QED
    BY <2>2, <2>3, <2>4
<1>2. r \in Seq(ToSet(s)) /\ Len(r) = Len(s) - p + 1 /\ \A i \in 1 .. (Len(s) - p + 1) : r[i] = s[p + i - 1]
  <2>1. p \in Int /\ Len(s) \in Int /\ \A i \in p .. Len(s) : s[i] \in ToSet(s)
    BY <1>0
  <2>2. r \in Seq(ToSet(s)) /\ Len(r) = (IF p <= Len(s) THEN Len(s) - p + 1 ELSE 0)
        /\ \A i \in 1 .. Len(s) - p + 1 : r[i] = s[p + i - 1]
    BY <2>1, SubSeqProperties
  <2> HIDE DEF r
  <2>3. Len(r) = Len(s) - p + 1
    BY <1>0, <2>2
  <2> QED
    BY <2>2, <2>3
<1>3. IsList(<<x>>) /\ Len(<<x>>) = 1 /\ <<x>>[1] = x
  BY DEF IsList, ToSet
<1> HIDE DEF l, r
<1>4. IsList(l) /\ IsList(r)
  BY <1>1, <1>2, ListOf
<1>5. IsList(m) /\ Len(m) = p /\ \A i \in 1 .. p : m[i] = IF i < p THEN s[i] ELSE x
  <2>1. IsList(m) /\ Len(m) = (p - 1) + 1
        /\ \A i \in 1 .. Len(m) : m[i] = IF i <= p - 1 THEN l[i] ELSE <<x>>[i - (p - 1)]
    BY <1>1, <1>3, <1>4, ConcatList
  <2> HIDE DEF m
  <2>2. Len(m) = p
    BY <1>0, <2>1
  <2>3. ASSUME NEW i \in 1 .. p PROVE m[i] = IF i < p THEN s[i] ELSE x
    <3>1. CASE i < p
      <4>1. i <= p - 1 /\ i \in 1 .. (p - 1) /\ i \in 1 .. Len(m)
        BY <1>0, <2>2, <3>1
      <4> QED
        BY <1>1, <2>1, <3>1, <4>1
    <3>2. CASE i = p
      <4>1. ~ (i <= p - 1) /\ i - (p - 1) = 1 /\ i \in 1 .. Len(m) /\ ~ (i < p)
        BY <1>0, <2>2, <3>2
      <4> QED
        BY <1>3, <2>1, <4>1
    <3> QED
      BY <3>1, <3>2
  <2> QED
    BY <2>1, <2>2, <2>3
<1> HIDE DEF m
<1>6. IsList(t) /\ Len(t) = Len(s) + 1
      /\ \A i \in 1 .. Len(t) : t[i] = IF i <= p THEN m[i] ELSE r[i - p]
  <2>1. IsList(t) /\ Len(t) = Len(m) + Len(r)
        /\ \A i \in 1 .. Len(t) : t[i] = IF i <= Len(m) THEN m[i] ELSE r[i - Len(m)]
    BY <1>4, <1>5, ConcatList
  <2> HIDE DEF t
  <2> QED
    BY <1>0, <1>2, <1>5, <2>1
<1>7. InsertAt(s, p, x) = t
  BY DEF InsertAt, t, m, l, r
<1> HIDE DEF t
<1>8. ASSUME NEW i \in 1 .. (Len(s) + 1)
      PROVE  t[i] = IF i < p THEN s[i] ELSE IF i = p THEN x ELSE s[i - 1]
  <2>1. CASE i <= p
    BY <1>0, <1>5, <1>6, <2>1
  <2>2. CASE i > p
    <3>1. i - p \in 1 .. (Len(s) - p + 1) /\ p + (i - p) - 1 = i - 1 /\ ~ (i <= p)
      BY <1>0, <2>2
    <3> QED
      BY <1>0, <1>2, <1>6, <2>2, <3>1
  <2> QED
    BY <1>0, <2>1, <2>2
<1> QED
  BY <1>6, <1>7, <1>8

PutIn(c, placed, k) ==
    InsertAt(placed, 1 + Maximum({j \in DOMAIN placed : <<k, placed[j]>> \notin c}, 0), k)

PlacedUpto(c, k, placed) ==
    /\ IsList(placed) /\ Len(placed) = k
    /\ \A i \in 1 .. k : placed[i] \in 1 .. k
    /\ \A i, j \in 1 .. k : placed[i] = placed[j] => i = j
    /\ \A p \in 1 .. k : \E i \in 1 .. k : placed[i] = p

Order == INSTANCE FoldTheorems WITH Op <- PutIn, Inv <- PlacedUpto

LEMMA NewOrderIs ==
    ASSUME NEW n \in Nat, NEW before
    PROVE  PlacedUpto(before, n, NewOrder(n, before))
<1> DEFINE s == [k \in 1 .. n |-> k]
<1>0. DOMAIN s = 1 .. n /\ \A k \in 1 .. n : s[k] = k
  OBVIOUS
<1>1. NewOrder(n, before) = Order!Fold(before, <<>>, s)
  BY DEF NewOrder, PutIn, FoldLeft, MapThenFoldSet, Max,
         Order!Fold, Order!Greatest
<1> HIDE DEF s
<1>2. PlacedUpto(before, 0, <<>>)
  <2>1. 1 .. 0 = {}
    OBVIOUS
  <2> QED
    BY <2>1, NoList DEF PlacedUpto
<1>3. ASSUME NEW k \in 1 .. n, NEW a, PlacedUpto(before, k - 1, a) PROVE PlacedUpto(before, k, PutIn(before, a, k))
  <2> DEFINE behind == {j \in DOMAIN a : <<k, a[j]>> \notin before}
             p == 1 + Maximum(behind, 0)
             t == InsertAt(a, p, k)
  <2>0. k \in Nat /\ k - 1 \in Nat /\ (k - 1) + 1 = k
    OBVIOUS
  <2>1. IsList(a) /\ Len(a) = k - 1 /\ DOMAIN a = 1 .. (k - 1)
    BY <1>3, ListIs DEF PlacedUpto
  <2>2. p \in 1 .. k
    <3>1. behind \in SUBSET (1 .. (k - 1))
      BY <2>1
    <3> HIDE DEF behind
    <3>2. Maximum(behind, 0) \in behind \/ Maximum(behind, 0) = 0
      BY <2>0, <3>1, MaximumIs
    <3>3. Maximum(behind, 0) \in 0 .. (k - 1)
      <4>1. CASE Maximum(behind, 0) \in behind
        <5>1. \A m \in 1 .. (k - 1) : m \in 0 .. (k - 1)
          BY <2>0
        <5> QED
          BY <3>1, <4>1, <5>1
      <4>2. CASE Maximum(behind, 0) = 0
        BY <2>0, <4>2
      <4> QED
        BY <3>2, <4>1, <4>2
    <3> HIDE DEF p
    <3>4. PICK m \in 0 .. (k - 1) : Maximum(behind, 0) = m
      BY <3>3
    <3>5. p = 1 + m
      BY <3>4 DEF p
    <3> QED
      BY <2>0, <3>5
  <2>3. PutIn(before, a, k) = t
    BY DEF PutIn
  <2> HIDE DEF p
  <2>4. /\ IsList(t) /\ Len(t) = k
        /\ \A i \in 1 .. k : t[i] = IF i < p THEN a[i] ELSE IF i = p THEN k ELSE a[i - 1]
    <3>1. p \in 1 .. (Len(a) + 1) /\ Len(a) + 1 = k
      BY <2>0, <2>1, <2>2
    <3> QED
      BY <2>1, <3>1, Inserted
  <2> HIDE DEF t
  <2>5. ASSUME NEW i \in 1 .. k
        PROVE  IF i = p THEN t[i] = k
               ELSE \E m \in 1 .. (k - 1) : /\ t[i] = a[m] /\ (m < p => i = m) /\ (m >= p => i = m + 1)
    <3>1. CASE i < p
      <4>1. i \in 1 .. (k - 1) /\ ~ (i >= p) /\ i # p
        BY <2>0, <2>2, <3>1
      <4> QED
        BY <2>4, <3>1, <4>1
    <3>2. CASE i = p
      BY <2>2, <2>4, <3>2
    <3>3. CASE i > p
      <4>1. i - 1 \in 1 .. (k - 1) /\ ~ (i - 1 < p) /\ (i - 1) + 1 = i /\ i # p /\ ~ (i < p)
        BY <2>0, <2>2, <3>3
      <4>2. t[i] = a[i - 1]
        BY <2>4, <4>1
      <4> QED
        BY <4>1, <4>2
    <3> QED
      BY <2>2, <3>1, <3>2, <3>3
  <2>6. \A m \in 1 .. (k - 1) : a[m] \in 1 .. (k - 1) /\ a[m] # k /\ a[m] \in 1 .. k
    <3> SUFFICES ASSUME NEW m \in 1 .. (k - 1) PROVE a[m] \in 1 .. (k - 1) /\ a[m] # k /\ a[m] \in 1 .. k
      OBVIOUS
    <3>1. PICK i \in 1 .. (k - 1) : a[m] = i
      BY <1>3 DEF PlacedUpto
    <3>2. i # k /\ i \in 1 .. k
      BY <2>0
    <3> QED
      BY <3>1, <3>2
  <2>7. \A i \in 1 .. k : t[i] \in 1 .. k
    BY <2>0, <2>5, <2>6
  <2>8. ASSUME NEW i \in 1 .. k, NEW j \in 1 .. k, t[i] = t[j] PROVE i = j
    <3>1. CASE i = p \/ j = p
      BY <2>5, <2>6, <2>8, <3>1
    <3>2. CASE i # p /\ j # p
      <4>1. PICK m \in 1 .. (k - 1) : t[i] = a[m] /\ (m < p => i = m) /\ (m >= p => i = m + 1)
        BY <2>5, <3>2
      <4>2. PICK l \in 1 .. (k - 1) : t[j] = a[l] /\ (l < p => j = l) /\ (l >= p => j = l + 1)
        BY <2>5, <3>2
      <4>3. m = l
        BY <1>3, <2>8, <4>1, <4>2 DEF PlacedUpto
      <4> QED
        BY <2>2, <4>1, <4>2, <4>3
    <3> QED
      BY <3>1, <3>2
  <2>9. ASSUME NEW q \in 1 .. k PROVE \E i \in 1 .. k : t[i] = q
    <3>1. CASE q = k
      BY <2>2, <2>5, <3>1
    <3>2. CASE q # k
      <4>1. q \in 1 .. (k - 1)
        BY <2>0, <3>2
      <4>2. PICK m \in 1 .. (k - 1) : a[m] = q
        BY <1>3, <4>1 DEF PlacedUpto
      <4>3. CASE m < p
        <5>1. m \in 1 .. k
          BY <2>0
        <5> QED
          BY <2>4, <4>2, <4>3, <5>1
      <4>4. CASE m >= p
        <5>1. m + 1 \in 1 .. k /\ ~ (m + 1 < p) /\ m + 1 # p /\ (m + 1) - 1 = m
          BY <2>0, <2>2, <4>4
        <5> QED
          BY <2>4, <4>2, <5>1
      <4> QED
        BY <2>2, <4>3, <4>4
    <3> QED
      BY <3>1, <3>2
  <2> QED
    BY <2>3, <2>4, <2>7, <2>8, <2>9 DEF PlacedUpto
<1>4. PlacedUpto(before, n, Order!Fold(before, <<>>, s))
  <2>1. \A k \in 1 .. n : \A a : PlacedUpto(before, k - 1, a) => PlacedUpto(before, k, PutIn(before, a, s[k]))
    BY <1>0, <1>3
  <2> QED
    BY <1>0, <1>2, <2>1, LeastNatural, Order!FoldKeeps
<1> QED
  BY <1>1, <1>4

LEMMA RearrangedAre ==
    ASSUME NEW s, IsList(s), NEW before
    PROVE  /\ SubSeq(s, 1, Len(s)) = s
           /\ IsList(Rearranged(s, before)) /\ Len(Rearranged(s, before)) = Len(s)
           /\ ToSet(Rearranged(s, before)) = ToSet(s) /\ Drawn(s, Rearranged(s, before))
<1> DEFINE n == Len(s)
           order == NewOrder(n, before)
           t == [i \in 1 .. n |-> s[order[i]]]
<1>0. n \in Nat /\ s \in Seq(ToSet(s))
  BY ListIs DEF IsList
<1>1. PlacedUpto(before, n, order)
  BY <1>0, NewOrderIs
<1>2. Rearranged(s, before) = SubSeq(t, 1, n)
  BY DEF Rearranged
<1> HIDE DEF order, n
<1>3. IsList(t) /\ Len(t) = n /\ \A i \in 1 .. n : t[i] = s[order[i]]
  <2>1. t = [i \in 1 .. n |-> t[i]]
    OBVIOUS
  <2>2. \A i \in 1 .. n : t[i] = s[order[i]]
    OBVIOUS
  <2> HIDE DEF t
  <2> QED
    BY <1>0, <2>1, <2>2, ListFun
<1> HIDE DEF t
<1>4. Rearranged(s, before) = t
  BY <1>2, <1>3, SubSeqFull DEF IsList
<1>5. ToSet(t) = ToSet(s)
  <2>1. ASSUME NEW y \in ToSet(t) PROVE y \in ToSet(s)
    <3>1. PICK i \in 1 .. n : y = t[i]
      BY <1>3, ListIs
    <3>2. order[i] \in 1 .. n /\ y = s[order[i]]
      BY <1>1, <1>3, <3>1 DEF PlacedUpto
    <3> QED
      BY <3>2, ListIs DEF n
  <2>2. ASSUME NEW y \in ToSet(s) PROVE y \in ToSet(t)
    <3>1. PICK p \in 1 .. n : y = s[p]
      BY ListIs DEF n
    <3>2. PICK i \in 1 .. n : order[i] = p
      BY <1>1 DEF PlacedUpto
    <3>3. t[i] = y
      BY <1>3, <3>1, <3>2
    <3> QED
      BY <1>3, <3>3, ListIs
  <2> QED
    BY <2>1, <2>2
<1>6. Drawn(s, t)
  <2> DEFINE f == [i \in 1 .. n |-> order[i]]
  <2>1. f \in [1 .. Len(t) -> 1 .. Len(s)] /\ \A i \in 1 .. n : f[i] = order[i]
    BY <1>1, <1>3 DEF PlacedUpto, n
  <2> HIDE DEF f
  <2>2. \A i, j \in 1 .. Len(t) : f[i] = f[j] => i = j
    BY <1>1, <1>3, <2>1 DEF PlacedUpto
  <2>3. \A i \in 1 .. Len(t) : t[i] = s[f[i]]
    BY <1>3, <2>1
  <2> QED
    BY <2>1, <2>2, <2>3 DEF Drawn
<1>7. SubSeq(s, 1, n) = s
  BY <1>0, SubSeqFull DEF n
<1> QED
  BY <1>3, <1>4, <1>5, <1>6, <1>7 DEF n

(* The elements of a finite set, as a list                                 *)
Enlist(c, listed, x) == Append(listed, x)

ListedUpto(c, done, listed) == IsList(listed) /\ ToSet(listed) = done

Listing == INSTANCE FoldTheorems WITH Op <- Enlist, Inv <- ListedUpto

LEMMA ListedAre ==
    ASSUME NEW S, IsFiniteSet(S)
    PROVE  IsList(Listed(S)) /\ ToSet(Listed(S)) = S
<1>0. PICK size \in [SUBSET S -> Nat] : \A x \in SUBSET S : \A y \in x : size[x \ {y}] < size[x]
  BY Sizes
<1>1. Listed(S) = Listing!SetFold(0, <<>>, S)
  BY DEF Listed, FoldSet, MapThenFoldSet, Enlist,
         Listing!SetFold
<1>2. ListedUpto(0, {}, <<>>)
  BY NoList DEF ListedUpto
<1>3. \A T \in SUBSET S : \A x \in S \ T : \A a : ListedUpto(0, T, a) => ListedUpto(0, T \cup {x}, Enlist(0, a, x))
  <2>1. ASSUME NEW T \in SUBSET S, NEW x \in S \ T, NEW a, ListedUpto(0, T, a)
        PROVE  ListedUpto(0, T \cup {x}, Enlist(0, a, x))
    BY <2>1, AppendList DEF ListedUpto, Enlist
  <2> QED
    BY <2>1
<1>4. ListedUpto(0, S, Listing!SetFold(0, <<>>, S))
  BY ONLY <1>0, <1>2, <1>3, LeastNatural, Listing!SetFoldKeeps
<1> QED
  BY <1>1, <1>4 DEF ListedUpto

-----------------------------------------------------------------------------
(* flat()                                                                  *)
Chain(lists, all, s) == all \o s

(* Every place of the result is a place of one of the lists.               *)
ChainedUpto(lists, k, all) ==
    /\ IsList(all)
    /\ \E h \in [1 .. Len(all) -> 1 .. k], p \in [1 .. Len(all) -> Nat] :
           /\ \A i \in 1 .. Len(all) : p[i] \in 1 .. Len(lists[h[i]]) /\ all[i] = lists[h[i]][p[i]]
           /\ \A i, j \in 1 .. Len(all) : h[i] = h[j] /\ p[i] = p[j] => i = j

Chains == INSTANCE FoldTheorems WITH Op <- Chain, Inv <- ChainedUpto

LEMMA ConcatAre ==
    ASSUME NEW n \in Nat, NEW lists, DOMAIN lists = 1 .. n, \A h \in 1 .. n : IsList(lists[h])
    PROVE  ChainedUpto(lists, n, Concat(lists))
<1>1. Concat(lists) = Chains!Fold(lists, <<>>, lists)
  BY DEF Concat, Chain, FoldLeft, MapThenFoldSet, Max,
         Chains!Fold, Chains!Greatest
<1>2. ChainedUpto(lists, 0, <<>>)
  <2>1. 1 .. 0 = {}
    OBVIOUS
  <2>2. <<>> \in [1 .. 0 -> 1 .. 0] /\ <<>> \in [1 .. 0 -> Nat]
    BY <2>1
  <2> QED
    BY <2>1, <2>2, NoList DEF ChainedUpto
<1>3. ASSUME NEW k \in 1 .. n, NEW all, ChainedUpto(lists, k - 1, all)
      PROVE  ChainedUpto(lists, k, Chain(lists, all, lists[k]))
  <2> DEFINE s == lists[k]
             t == all \o s
  <2>0. k \in Nat /\ k \in 1 .. k /\ (\A m \in 1 .. (k - 1) : m \in 1 .. k /\ m # k)
    OBVIOUS
  <2>1. IsList(all) /\ IsList(s)
    BY <1>3 DEF ChainedUpto
  <2>2. PICK h \in [1 .. Len(all) -> 1 .. (k - 1)], p \in [1 .. Len(all) -> Nat] :
            /\ \A i \in 1 .. Len(all) : p[i] \in 1 .. Len(lists[h[i]]) /\ all[i] = lists[h[i]][p[i]]
            /\ \A i, j \in 1 .. Len(all) : h[i] = h[j] /\ p[i] = p[j] => i = j
    BY <1>3 DEF ChainedUpto
  <2>3. /\ IsList(t) /\ Len(t) = Len(all) + Len(s)
        /\ \A i \in 1 .. Len(t) : t[i] = IF i <= Len(all) THEN all[i] ELSE s[i - Len(all)]
    BY <2>1, ConcatList
  <2>4. Len(all) \in Nat /\ Len(s) \in Nat
    BY <2>1, ListIs
  <2>5. Chain(lists, all, lists[k]) = t
    BY DEF Chain
  <2> DEFINE g == [i \in 1 .. Len(t) |-> IF i <= Len(all) THEN h[i] ELSE k]
             q == [i \in 1 .. Len(t) |-> IF i <= Len(all) THEN p[i] ELSE i - Len(all)]
  <2>6. ASSUME NEW i \in 1 .. Len(t)
        PROVE  IF i <= Len(all) THEN i \in 1 .. Len(all) /\ g[i] = h[i] /\ q[i] = p[i]
               ELSE g[i] = k /\ q[i] = i - Len(all) /\ i - Len(all) \in 1 .. Len(s)
    BY <2>3, <2>4
  <2> HIDE DEF t
  <2>7. g \in [1 .. Len(t) -> 1 .. k]
    <3>1. \A i \in 1 .. Len(t) : g[i] \in 1 .. k
      BY <2>0, <2>6
    <3> QED
      BY <3>1
  <2>8. q \in [1 .. Len(t) -> Nat]
    <3>1. \A i \in 1 .. Len(t) : q[i] \in Nat
      <4>1. \A m \in 1 .. Len(s) : m \in Nat
        BY <2>4
      <4> QED
        BY <2>6, <4>1
    <3> QED
      BY <3>1
  <2> HIDE DEF g, q
  <2>9. ASSUME NEW i \in 1 .. Len(t)
        PROVE  q[i] \in 1 .. Len(lists[g[i]]) /\ t[i] = lists[g[i]][q[i]]
    <3>1. CASE i <= Len(all)
      BY <2>2, <2>3, <2>6, <3>1
    <3>2. CASE ~ (i <= Len(all))
      BY <2>3, <2>6, <3>2
    <3> QED
      BY <3>1, <3>2
  <2>10. ASSUME NEW i \in 1 .. Len(t), NEW j \in 1 .. Len(t), g[i] = g[j] /\ q[i] = q[j] PROVE i = j
    <3>0. \A m \in 1 .. Len(all) : h[m] # k
      BY <2>0
    <3>1. CASE i <= Len(all) /\ j <= Len(all)
      <4>1. i \in 1 .. Len(all) /\ j \in 1 .. Len(all) /\ h[i] = h[j] /\ p[i] = p[j]
        BY <2>6, <2>10, <3>1
      <4> QED
        BY ONLY <2>2, <4>1
    <3>2. CASE ~ (i <= Len(all)) /\ ~ (j <= Len(all))
      <4>1. i - Len(all) = j - Len(all)
        BY <2>6, <2>10, <3>2
      <4>2. i \in Int /\ j \in Int
        BY <2>3, <2>4
      <4> QED
        BY <2>4, <4>1, <4>2
    <3>3. CASE i <= Len(all) /\ ~ (j <= Len(all))
      BY <2>6, <2>10, <3>0, <3>3
    <3>4. CASE ~ (i <= Len(all)) /\ j <= Len(all)
      BY <2>6, <2>10, <3>0, <3>4
    <3> QED
      BY <3>1, <3>2, <3>3, <3>4
  <2>11. ChainedUpto(lists, k, t)
    BY <2>3, <2>7, <2>8, <2>9, <2>10 DEF ChainedUpto
  <2> QED
    BY <2>5, <2>11
<1>4. ChainedUpto(lists, n, Chains!Fold(lists, <<>>, lists))
  <2>1. \A k \in 1 .. n : \A all : ChainedUpto(lists, k - 1, all) => ChainedUpto(lists, k, Chain(lists, all, lists[k]))
    BY <1>3
  <2> QED
    BY <1>2, <2>1, LeastNatural, Chains!FoldKeeps
<1> QED
  BY <1>1, <1>4

-----------------------------------------------------------------------------
(* Orders                                                                  *)

(* Places in an order: how many members of S weigh less.                   *)
Place(S, w, r) == Cardinality({x \in S : w[x] < w[r]})

LEMMA Places ==
    ASSUME NEW S, IsFiniteSet(S), NEW w \in [S -> Int], \A x, y \in S : w[x] = w[y] => x = y
    PROVE  /\ Cardinality(S) \in Nat
           /\ \A r \in S : Place(S, w, r) \in 0 .. Cardinality(S) - 1
           /\ \A r, x \in S : w[r] < w[x] => Place(S, w, r) < Place(S, w, x)
           /\ \A r, x \in S : Place(S, w, r) = Place(S, w, x) => r = x
           /\ \A i \in 1 .. Cardinality(S) : \E r \in S : Place(S, w, r) = i - 1
<1> DEFINE n == Cardinality(S)
           less == [r \in S |-> {x \in S : w[x] < w[r]}]
<1>1. n \in Nat
  BY FS_CardinalityType
<1>0. \A r \in S : less[r] = {x \in S : w[x] < w[r]}
  OBVIOUS
<1> HIDE DEF less
<1>2. ASSUME NEW r \in S
      PROVE  /\ IsFiniteSet(less[r]) /\ Cardinality(less[r]) \in Nat
             /\ IsFiniteSet(less[r] \cup {r}) /\ Cardinality(less[r] \cup {r}) = Cardinality(less[r]) + 1
             /\ Cardinality(less[r]) <= n - 1
  <2>1. less[r] \in SUBSET S /\ less[r] \cup {r} \in SUBSET S /\ r \notin less[r]
    BY <1>0
  <2>2. IsFiniteSet(less[r]) /\ Cardinality(less[r]) \in Nat
    BY <2>1, FS_Subset, FS_CardinalityType
  <2>3. IsFiniteSet(less[r] \cup {r}) /\ Cardinality(less[r] \cup {r}) = Cardinality(less[r]) + 1
    BY <2>1, <2>2, FS_AddElement
  <2>4. Cardinality(less[r] \cup {r}) <= n
    BY <2>1, FS_Subset
  <2> QED
    BY <1>1, <2>2, <2>3, <2>4
<1>3. ASSUME NEW r \in S, NEW x \in S, w[r] < w[x] PROVE Cardinality(less[r]) < Cardinality(less[x])
  <2>1. less[r] \cup {r} \in SUBSET less[x]
    <3>1. ASSUME NEW y \in S, w[y] < w[r] PROVE w[y] < w[x]
      <4>1. w[y] \in Int /\ w[r] \in Int /\ w[x] \in Int
        OBVIOUS
      <4> QED
        BY <1>3, <3>1, <4>1
    <3> QED
      BY <1>0, <1>3, <3>1
  <2>2. Cardinality(less[r] \cup {r}) <= Cardinality(less[x])
    BY <1>2, <2>1, FS_Subset
  <2> QED
    <3>1. Cardinality(less[r]) \in Nat
      BY <1>2
    <3>2. Cardinality(less[x]) \in Nat
      BY <1>2
    <3>3. Cardinality(less[r] \cup {r}) = Cardinality(less[r]) + 1
      BY <1>2
    <3> QED
      BY <2>2, <3>1, <3>2, <3>3
<1> DEFINE count == [r \in S |-> Cardinality(less[r])]
<1>4. \A r \in S : count[r] \in 0 .. n - 1 /\ count[r] = Place(S, w, r)
  <2>1. SUFFICES ASSUME NEW r \in S PROVE count[r] \in 0 .. n - 1 /\ count[r] = Place(S, w, r)
    OBVIOUS
  <2>2. Cardinality(less[r]) \in Nat /\ Cardinality(less[r]) <= n - 1
    BY <1>2
  <2>3. Cardinality(less[r]) \in 0 .. n - 1
    BY ONLY <1>1, <2>2
  <2>4. Place(S, w, r) = Cardinality(less[r])
    BY <1>0 DEF Place
  <2> QED
    BY <2>3, <2>4
<1>5. \A r, x \in S : w[r] < w[x] => count[r] < count[x]
  BY <1>3
<1> HIDE DEF count, n
<1>6. \A r, x \in S : count[r] = count[x] => r = x
  <2>1. SUFFICES ASSUME NEW r \in S, NEW x \in S, r # x PROVE count[r] # count[x]
    OBVIOUS
  <2>2. w[r] < w[x] \/ w[x] < w[r]
    <3>1. w[r] \in Int /\ w[x] \in Int /\ w[r] # w[x]
      BY <2>1
    <3> QED
      BY <3>1
  <2>3. count[r] \in Int /\ count[x] \in Int
    BY <1>1, <1>4
  <2> QED
    BY <1>5, <2>2, <2>3
<1>7. \A i \in 1 .. n : \E r \in S : count[r] = i - 1
  <2> DEFINE T == 1 .. n
             f == [r \in S |-> count[r] + 1]
  <2>1. IsFiniteSet(T) /\ Cardinality(T) = n
    <3>1. IsFiniteSet(1 .. n) /\ Cardinality(1 .. n) = IF 1 > n THEN 0 ELSE n - 1 + 1
      BY <1>1, 1 \in Int, n \in Int, FS_Interval
    <3> QED
      BY <1>1, <3>1
  <2>2. \A r \in S : f[r] \in T
    BY <1>1, <1>4
  <2>20. f \in [S -> T]
    BY <2>2
  <2>3. \A r, x \in S : f[r] = f[x] => r = x
    BY <1>1, <1>4, <1>6
  <2>4. f \in Injection(S, T)
    <3> HIDE DEF f, T
    <3> QED
      BY <2>20, <2>3 DEF Injection, IsInjective
  <2>5. f \in Surjection(S, T)
    <3> HIDE DEF f, T
    <3>1. Cardinality(S) = Cardinality(T)
      BY <2>1 DEF n
    <3> QED
      BY <2>1, <2>4, <3>1, FS_Injection
  <2>6. \A t \in T : \E r \in S : f[r] = t
    <3> HIDE DEF f, T
    <3> QED
      BY <2>5 DEF Surjection
  <2>7. ASSUME NEW i \in 1 .. n PROVE \E r \in S : count[r] = i - 1
    <3>1. PICK r \in S : f[r] = i
      BY <2>6
    <3>2. count[r] + 1 = i /\ count[r] \in Int
      BY <1>1, <1>4, <3>1
    <3> QED
      BY <3>2
  <2> QED
    BY <2>7
<1> QED
  <2>1. n = Cardinality(S)
    BY DEF n
  <2> QED
    BY <1>1, <1>4, <1>5, <1>6, <1>7, <2>1

(* A column by which rows can be ordered.                                  *)
Orders(rows, column) ==
    /\ IsFiniteSet(rows) /\ \A r \in rows : r[column] \in Int
    /\ \A r, x \in rows : r[column] = x[column] => r = x

LEMMA OrderedByIs ==
    ASSUME NEW rows, NEW column, Orders(rows, column)
    PROVE  LET q == OrderedBy(rows, column)
           IN  /\ IsList(q) /\ ToSet(q) = rows /\ Len(q) = Cardinality(rows)
               /\ \A i \in 1 .. Len(q) : Cardinality({x \in rows : x[column] < q[i][column]}) = i - 1
<1> DEFINE w == [r \in rows |-> r[column]]
           c == Cardinality(rows)
           pick(i) == CHOOSE r \in rows : Cardinality({x \in rows : x[column] < r[column]}) = i - 1
           g == [i \in 1 .. c |-> pick(i)]
           q == OrderedBy(rows, column)
<1>1. q = SubSeq(g, 1, c)
  BY DEF OrderedBy
<1>2. w \in [rows -> Int] /\ \A x, y \in rows : w[x] = w[y] => x = y
  BY DEF Orders
<1>3. \A r \in rows : Place(rows, w, r) = Cardinality({x \in rows : x[column] < r[column]})
  <2>1. ASSUME NEW r \in rows PROVE {x \in rows : w[x] < w[r]} = {x \in rows : x[column] < r[column]}
    OBVIOUS
  <2> HIDE DEF w
  <2> QED
    BY <2>1 DEF Place
<1> HIDE DEF w
<1>4. /\ c \in Nat
      /\ \A r \in rows : Place(rows, w, r) \in 0 .. c - 1
      /\ \A r, x \in rows : Place(rows, w, r) = Place(rows, w, x) => r = x
      /\ \A i \in 1 .. c : \E r \in rows : Place(rows, w, r) = i - 1
  <2>1. IsFiniteSet(rows)
    BY DEF Orders
  <2>3. /\ Cardinality(rows) \in Nat
        /\ \A r \in rows : Place(rows, w, r) \in 0 .. Cardinality(rows) - 1
        /\ \A r, x \in rows : Place(rows, w, r) = Place(rows, w, x) => r = x
        /\ \A i \in 1 .. Cardinality(rows) : \E r \in rows : Place(rows, w, r) = i - 1
    BY ONLY <1>2, <2>1, Places
  <2> QED
    BY <2>3
<1>5. \A i \in 1 .. c : g[i] \in rows /\ Place(rows, w, g[i]) = i - 1
  <2>1. SUFFICES ASSUME NEW i \in 1 .. c PROVE g[i] \in rows /\ Place(rows, w, g[i]) = i - 1
    OBVIOUS
  <2>2. \E r \in rows : Cardinality({x \in rows : x[column] < r[column]}) = i - 1
    BY <1>3, <1>4
  <2>3. g[i] \in rows /\ Cardinality({x \in rows : x[column] < g[i][column]}) = i - 1
    BY <2>2
  <2> QED
    BY <1>3, <2>3
<1> HIDE DEF c, pick
<1>6. g = [i \in 1 .. c |-> g[i]]
  OBVIOUS
<1> HIDE DEF g, q
<1>7. IsList(g) /\ Len(g) = c
  <2>1. c \in Nat
    BY <1>4
  <2> QED
    BY ONLY <1>6, <2>1, ListFun
<1>8. q = g
  <2>1. g = SubSeq(g, 1, Len(g))
    BY <1>7, RearrangedAre
  <2> QED
    BY <1>1, <1>7, <2>1
<1>9. ToSet(q) = rows
  <2>1. \A x \in ToSet(q) : x \in rows
    BY <1>5, <1>7, <1>8, ListIs
  <2>2. ASSUME NEW r \in rows PROVE r \in ToSet(q)
    <3>1. PICK i \in 1 .. c : Place(rows, w, r) = i - 1
      <4>1. Place(rows, w, r) \in 0 .. c - 1
        BY <1>4
      <4>2. Place(rows, w, r) + 1 \in 1 .. c /\ Place(rows, w, r) = (Place(rows, w, r) + 1) - 1
        BY <1>4, <4>1
      <4> QED
        BY <4>2
    <3>2. g[i] = r
      BY <1>4, <1>5, <3>1
    <3> QED
      BY <1>7, <1>8, <3>2, ListIs
  <2> QED
    BY <2>1, <2>2
<1>10. \A i \in 1 .. Len(q) : Cardinality({x \in rows : x[column] < q[i][column]}) = i - 1
  BY <1>3, <1>5, <1>7, <1>8
<1> QED
  BY <1>7, <1>8, <1>9, <1>10 DEF c, q

LEMMA SomeRows ==
    ASSUME NEW rows, NEW column, Orders(rows, column), NEW some, some \subseteq rows
    PROVE  Orders(some, column)
<1>1. IsFiniteSet(some)
  BY FS_Subset DEF Orders
<1> QED
  BY <1>1 DEF Orders
=============================================================================
