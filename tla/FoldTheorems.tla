---------------------------- MODULE FoldTheorems ----------------------------
(* What a fold computes: the module that proofs about sums, lists and       *)
(* filters rest on.  The library states induction and recursion for an      *)
(* operator P(_) that is a parameter of the theorem, which none of the      *)
(* provers instantiates.  Here the step of the fold and its invariant are   *)
(* constants of the module, and INSTANCE gives them their values.           *)
(*                                                                         *)
(* An instance copies every definition and lemma the module can see, so it *)
(* sees no more than it needs: the definitions are those of FoldLeft and   *)
(* FoldSet in the community modules, expanded, and that a set of natural   *)
(* numbers has a least member, which the library proves, is a hypothesis.  *)
EXTENDS Integers

CONSTANTS Op(_, _, _),   \* context, what was folded so far, the next element
          Inv(_, _, _)   \* context, how far (a number or a set), what was folded so far

Greatest(s) == CHOOSE x \in s : \A y \in s : x >= y

Fold(c, base, s) ==
    LET iter[x \in SUBSET DOMAIN s] ==
            IF x = {} THEN base ELSE LET i == Greatest(x) IN Op(c, iter[x \ {i}], s[i])
    IN  iter[DOMAIN s]

SetFold(c, base, S) ==
    LET iter[x \in SUBSET S] ==
            IF x = {} THEN base ELSE LET y == CHOOSE y \in x : TRUE IN Op(c, iter[x \ {y}], y)
    IN  iter[S]

(* A set with 0 and the successors of its members has every number.        *)
LEMMA Induction ==
    ASSUME \A T \in SUBSET Nat : T # {} => \E m \in T : \A k \in T : m <= k,
           NEW P, 0 \in P, \A n \in Nat : n \in P => n + 1 \in P
    PROVE  Nat \subseteq P
<1> SUFFICES ASSUME Nat \ P # {} PROVE FALSE
  OBVIOUS
<1>1. PICK n \in Nat \ P : \A m \in Nat \ P : n <= m
  OBVIOUS
<1>2. n # 0 /\ n - 1 \in Nat
  BY <1>1
<1>3. n - 1 \in P
  BY <1>1, <1>2
<1> QED
  BY <1>1, <1>2, <1>3

-----------------------------------------------------------------------------
(* What is defined by recursion along ranks, for no more than its steps.   *)
Recursive(c, D, base, rank, less, at) ==
    \E g : g = [s \in D |-> IF rank[s] = 0 THEN base ELSE Op(c, g[less[s]], at[s])]

LEMMA Recursion ==
    ASSUME \A T \in SUBSET Nat : T # {} => \E m \in T : \A k \in T : m <= k,
           NEW c, NEW D, NEW base, NEW rank \in [D -> Nat], NEW less \in [D -> D], NEW at,
           \A s \in D : rank[s] # 0 => rank[less[s]] < rank[s]
    PROVE  Recursive(c, D, base, rank, less, at)
<1> DEFINE Value(s, g) == IF rank[s] = 0 THEN base ELSE Op(c, g[less[s]], at[s])
           Upto(g, n) == \A s \in D : rank[s] <= n => g[s] = Value(s, g)
           Reached == {n \in Nat : \E g : Upto(g, n)}
<1>0. \A s \in D : rank[s] \in Nat /\ less[s] \in D
  OBVIOUS
<1>01. ASSUME NEW s \in D, NEW n \in Nat, rank[s] # 0, rank[s] <= n + 1
       PROVE  less[s] \in D /\ rank[less[s]] \in Nat /\ rank[less[s]] <= n
  <2>1. less[s] \in D /\ rank[less[s]] < rank[s]
    BY <1>01
  <2>2. rank[s] \in Nat /\ rank[less[s]] \in Nat
    BY <1>0, <2>1
  <2> QED
    BY ONLY <1>01, <2>1, <2>2, n \in Nat
<1>1. 0 \in Reached
  <2> DEFINE g == [s \in D |-> base]
  <2>1. Upto(g, 0)
    BY <1>0
  <2> QED
    BY <2>1
<1>2. ASSUME NEW n \in Nat, n \in Reached PROVE n + 1 \in Reached
  <2>1. PICK g : Upto(g, n)
    BY <1>2
  <2> DEFINE h == [s \in D |-> Value(s, g)]
  <2>2. \A s \in D : h[s] = Value(s, g)
    OBVIOUS
  <2>3. \A s \in D : rank[s] <= n => h[s] = g[s]
    BY <2>1, <2>2
  <2> HIDE DEF h
  <2>4. ASSUME NEW s \in D, rank[s] <= n + 1 PROVE h[s] = Value(s, h)
    <3>1. CASE rank[s] = 0
      BY <2>2, <3>1
    <3>2. CASE rank[s] # 0
      <4>1. less[s] \in D /\ rank[less[s]] <= n
        BY <1>01, <2>4, <3>2
      <4>2. h[less[s]] = g[less[s]]
        BY <2>3, <4>1
      <4> QED
        BY <2>2, <4>2
    <3> QED
      BY <3>1, <3>2
  <2>5. Upto(h, n + 1)
    BY <2>4
  <2> HIDE DEF Upto
  <2> QED
    BY <2>5
<1>3. Nat \subseteq Reached
  <2> HIDE DEF Reached
  <2> QED
    BY <1>1, <1>2, Induction
(* All together: at s, what any function has that is right up to its rank. *)
<1> DEFINE right(n) == CHOOSE g : Upto(g, n)
           all == [s \in D |-> right(rank[s])[s]]
<1>4. ASSUME NEW n \in Nat, NEW s \in D, rank[s] <= n PROVE right(n)[s] = Value(s, right(n))
  <2>1. \E g : Upto(g, n)
    BY <1>3
  <2>2. Upto(right(n), n)
    <3> HIDE DEF Upto
    <3> QED
      BY <2>1
  <2> QED
    BY <1>4, <2>2
<1> HIDE DEF right
<1> DEFINE Same == {n \in Nat : \A s \in D, m \in Nat, k \in Nat :
                       rank[s] <= n /\ rank[s] <= m /\ rank[s] <= k => right(m)[s] = right(k)[s]}
<1>50. ASSUME NEW s \in D, NEW m \in Nat, rank[s] = 0 PROVE right(m)[s] = base
  <2>1. rank[s] <= m
    BY <1>50
  <2> QED
    BY <1>4, <1>50, <2>1
<1>5. 0 \in Same
  <2>1. \A s \in D : rank[s] <= 0 => rank[s] = 0
    BY <1>0
  <2> QED
    BY <1>50, <2>1
<1>6. ASSUME NEW n \in Nat, n \in Same PROVE n + 1 \in Same
  <2>1. ASSUME NEW s \in D, NEW m \in Nat, NEW k \in Nat, rank[s] <= n + 1, rank[s] <= m, rank[s] <= k
        PROVE  right(m)[s] = right(k)[s]
    <3>1. CASE rank[s] = 0
      BY <1>50, <3>1
    <3>2. CASE rank[s] # 0
      <4>1. rank[less[s]] \in Nat /\ rank[less[s]] <= n /\ less[s] \in D
        BY <1>01, <2>1, <3>2
      <4>2. rank[less[s]] <= m /\ rank[less[s]] <= k
        <5>1. rank[less[s]] < rank[s] /\ rank[s] \in Nat
          BY <1>0, <3>2
        <5> QED
          BY ONLY <2>1, <4>1, <5>1, m \in Nat, k \in Nat
      <4>3. right(m)[less[s]] = right(k)[less[s]]
        BY <1>6, <4>1, <4>2
      <4>4. right(m)[s] = Op(c, right(m)[less[s]], at[s])
        BY <1>4, <2>1, <3>2
      <4>5. right(k)[s] = Op(c, right(k)[less[s]], at[s])
        BY <1>4, <2>1, <3>2
      <4> QED
        BY <4>3, <4>4, <4>5
    <3> QED
      BY <3>1, <3>2
  <2> QED
    BY <2>1
<1>7. Nat \subseteq Same
  <2> HIDE DEF Same
  <2> QED
    BY <1>5, <1>6, Induction
<1>8. ASSUME NEW s \in D PROVE all[s] = Value(s, all)
  <2>1. all[s] = right(rank[s])[s] /\ all[less[s]] = right(rank[less[s]])[less[s]]
    BY <1>0
  <2>2. right(rank[s])[s] = Value(s, right(rank[s]))
    BY <1>0, <1>4
  <2>3. CASE rank[s] = 0
    BY <2>1, <2>2, <2>3
  <2>4. CASE rank[s] # 0
    <3>1. right(rank[less[s]])[less[s]] = right(rank[s])[less[s]]
      <4>1. rank[less[s]] \in Nat /\ rank[s] \in Nat /\ rank[less[s]] <= rank[s] /\ less[s] \in D
        BY <1>0, <2>4
      <4> QED
        BY <1>7, <4>1
    <3>2. all[less[s]] = right(rank[s])[less[s]]
      BY <2>1, <3>1
    <3>3. all[s] = Op(c, right(rank[s])[less[s]], at[s])
      BY <2>1, <2>2, <2>4
    <3> HIDE DEF all
    <3> QED
      BY <2>4, <3>2, <3>3
  <2> QED
    BY <2>3, <2>4
<1>9. all = [s \in D |-> Value(s, all)]
  <2>1. all = [s \in D |-> all[s]]
    OBVIOUS
  <2> HIDE DEF all
  <2> QED
    BY <1>8, <2>1
<1> QED
  <2> HIDE DEF all
  <2> QED
    BY <1>9 DEF Recursive

-----------------------------------------------------------------------------
(* Folds of a sequence from the left.  FoldLeft takes the positions as a set *)
(* and the greatest first, so its values are known for sets of positions.    *)
LEMMA GreatestIs ==
    ASSUME \A T \in SUBSET Nat : T # {} => \E m \in T : \A k \in T : m <= k,
           NEW n \in Nat, NEW s \in SUBSET (1 .. n), s # {}
    PROVE  Greatest(s) \in s /\ \A y \in s : Greatest(s) >= y
<1>2. PICK m \in {n - y : y \in s} : \A k \in {n - y : y \in s} : m <= k
  <2> DEFINE T == {n - y : y \in s}
  <2>1. T # {}
    OBVIOUS
  <2>2. ASSUME NEW m \in T PROVE m \in Nat
    <3>1. PICK y \in s : m = n - y
      OBVIOUS
    <3>2. y \in 1 .. n
      OBVIOUS
    <3> QED
      BY <3>1, <3>2
  <2>3. T \in SUBSET Nat
    BY <2>2
  <2> HIDE DEF T
  <2>4. \E m \in T : \A k \in T : m <= k
    BY <2>1, <2>3
  <2> QED
    BY <2>4 DEF T
<1>3. \E x \in s : \A y \in s : x >= y
  <2>1. PICK x \in s : m = n - x
    BY <1>2
  <2>2. \A y \in s : n - x <= n - y
    BY <1>2, <2>1
  <2>3. ASSUME NEW y \in s PROVE x >= y
    <3>1. x \in Nat /\ y \in Nat /\ n - x <= n - y
      BY <2>2
    <3> QED
      BY ONLY <3>1, n \in Nat
  <2> QED
    BY <2>3
<1> QED
  BY <1>3 DEF Greatest

(* The fold of a sequence is what its steps come to, one after the other.  *)
Stepped(c, base, s, n, result) ==
    \E p : p[0] = base /\ (\A k \in 1 .. n : p[k] = Op(c, p[k - 1], s[k])) /\ p[n] = result

LEMMA FoldSteps ==
    ASSUME \A T \in SUBSET Nat : T # {} => \E m \in T : \A k \in T : m <= k,
           NEW c, NEW base, NEW n \in Nat, NEW s, DOMAIN s = 1 .. n
    PROVE  Stepped(c, base, s, n, Fold(c, base, s))
<1> DEFINE D == SUBSET (1 .. n)
           rank == [x \in D |-> IF x = {} THEN 0 ELSE Greatest(x)]
           less == [x \in D |-> IF x = {} THEN {} ELSE x \ {Greatest(x)}]
           at == [x \in D |-> s[Greatest(x)]]
           it == CHOOSE g : g = [x \in D |-> IF x = {} THEN base ELSE Op(c, g[x \ {Greatest(x)}], s[Greatest(x)])]
<1>1. Fold(c, base, s) = it[1 .. n]
  BY DEF Fold
<1>2. ASSUME NEW x \in D, x # {}
      PROVE  /\ Greatest(x) \in 1 .. n /\ x \ {Greatest(x)} \in D
             /\ x \ {Greatest(x)} # {} => Greatest(x \ {Greatest(x)}) < Greatest(x)
  <2>1. Greatest(x) \in x /\ \A y \in x : Greatest(x) >= y
    BY <1>2, GreatestIs
  <2> DEFINE z == x \ {Greatest(x)}
  <2>2. ASSUME z # {} PROVE Greatest(z) < Greatest(x)
    <3>1. Greatest(z) \in z
      BY <2>2, GreatestIs
    <3>2. Greatest(z) \in 1 .. n /\ Greatest(x) \in 1 .. n /\ Greatest(x) >= Greatest(z) /\ Greatest(z) # Greatest(x)
      BY <2>1, <3>1
    <3> QED
      BY ONLY <3>2, n \in Nat
  <2> QED
    BY <2>1, <2>2
<1>3. rank \in [D -> Nat] /\ \A x \in D : rank[x] = 0 <=> x = {}
  <2>1. ASSUME NEW x \in D, x # {} PROVE Greatest(x) \in Nat /\ Greatest(x) # 0
    <3>1. Greatest(x) \in 1 .. n
      BY <1>2, <2>1
    <3> QED
      BY ONLY <3>1, n \in Nat
  <2> QED
    BY <2>1
<1>4. /\ less \in [D -> D]
      /\ \A x \in D : x # {} => less[x] = x \ {Greatest(x)} /\ rank[less[x]] < rank[x]
  <2>1. ASSUME NEW x \in D, x # {}
        PROVE  less[x] = x \ {Greatest(x)} /\ less[x] \in D /\ rank[less[x]] < rank[x]
    <3>1. less[x] = x \ {Greatest(x)} /\ less[x] \in D /\ rank[x] = Greatest(x)
      BY <1>2, <2>1
    <3>2. CASE less[x] = {}
      <4>1. rank[less[x]] = 0 /\ Greatest(x) \in 1 .. n
        BY <1>2, <2>1, <3>2
      <4> QED
        BY <3>1, <4>1
    <3>3. CASE less[x] # {}
      BY <1>2, <2>1, <3>1, <3>3
    <3> QED
      BY <3>1, <3>2, <3>3
  <2>2. \A x \in D : less[x] \in D
    BY <2>1
  <2>3. less \in [D -> D]
    BY <2>2
  <2> QED
    BY <2>1, <2>3
<1>5. \A x \in D : at[x] = s[Greatest(x)]
  OBVIOUS
<1> HIDE DEF rank, less, at
<1>6. it = [x \in D |-> IF x = {} THEN base ELSE Op(c, it[x \ {Greatest(x)}], s[Greatest(x)])]
  <2>1. PICK g : g = [x \in D |-> IF rank[x] = 0 THEN base ELSE Op(c, g[less[x]], at[x])]
    <3>1. \A x \in D : rank[x] # 0 => rank[less[x]] < rank[x]
      BY <1>3, <1>4
    <3>2. rank \in [D -> Nat] /\ less \in [D -> D]
      BY <1>3, <1>4
    <3> HIDE DEF D
    <3>3. Recursive(c, D, base, rank, less, at)
      BY <3>1, <3>2, Recursion
    <3> QED
      BY <3>3 DEF Recursive
  <2>2. \A x \in D : (IF rank[x] = 0 THEN base ELSE Op(c, g[less[x]], at[x]))
                        = IF x = {} THEN base ELSE Op(c, g[x \ {Greatest(x)}], s[Greatest(x)])
    BY <1>3, <1>4, <1>5
  <2>3. g = [x \in D |-> IF x = {} THEN base ELSE Op(c, g[x \ {Greatest(x)}], s[Greatest(x)])]
    BY <2>1, <2>2
  <2> QED
    BY <2>3
<1> HIDE DEF it
<1> DEFINE p == [k \in 0 .. n |-> it[1 .. k]]
<1>7. \A k \in 0 .. n : 1 .. k \in D /\ p[k] = it[1 .. k]
  OBVIOUS
<1>8. p[0] = base
  <2>1. 1 .. 0 = {} /\ {} \in D /\ p[0] = it[1 .. 0]
    OBVIOUS
  <2> QED
    BY <1>6, <2>1
<1>9. ASSUME NEW k \in 1 .. n PROVE p[k] = Op(c, p[k - 1], s[k])
  <2> DEFINE x == 1 .. k
  <2>0. k \in Nat /\ 1 <= k /\ k <= n
    OBVIOUS
  <2>1. x \in D /\ x # {} /\ k \in x /\ \A y \in x : k >= y
    <3>1. \A y \in x : y \in 1 .. n /\ k >= y
      BY ONLY n \in Nat, <2>0
    <3>2. k \in x
      BY ONLY <2>0
    <3> QED
      BY <3>1, <3>2
  <2>2. Greatest(x) \in x /\ \A y \in x : Greatest(x) >= y
    BY <2>1, GreatestIs
  <2>3. Greatest(x) = k
    BY <2>1, <2>2
  <2>4. x \ {k} = 1 .. (k - 1) /\ x \ {k} \in D
    OBVIOUS
  <2> HIDE DEF x
  <2>5. it[x] = Op(c, it[x \ {k}], s[k])
    BY <1>6, <2>1, <2>3
  <2>6. p[k] = it[x] /\ p[k - 1] = it[x \ {k}]
    <3>1. k \in 0 .. n /\ k - 1 \in 0 .. n
      BY <2>0
    <3>2. p[k] = it[1 .. k] /\ p[k - 1] = it[1 .. (k - 1)]
      BY <1>7, <3>1
    <3> QED
      BY <2>4, <3>2 DEF x
  <2> QED
    BY <2>5, <2>6
<1>10. p[n] = it[1 .. n]
  BY <1>7
<1> HIDE DEF p
<1> QED
  BY <1>1, <1>8, <1>9, <1>10 DEF Stepped

(* Another element is one more step.                                       *)
LEMMA FoldAppend ==
    ASSUME \A T \in SUBSET Nat : T # {} => \E m \in T : \A k \in T : m <= k,
           NEW c, NEW base, NEW n \in Nat, NEW s, DOMAIN s = 1 .. n,
           NEW t, DOMAIN t = 1 .. (n + 1), \A k \in 1 .. n : t[k] = s[k]
    PROVE  Fold(c, base, t) = Op(c, Fold(c, base, s), t[n + 1])
<1>1. PICK p : /\ p[0] = base
               /\ \A k \in 1 .. n : p[k] = Op(c, p[k - 1], s[k])
               /\ p[n] = Fold(c, base, s)
  <2>1. Stepped(c, base, s, n, Fold(c, base, s))
    BY FoldSteps
  <2> QED
    BY <2>1 DEF Stepped
<1>2. PICK q : /\ q[0] = base
               /\ \A k \in 1 .. (n + 1) : q[k] = Op(c, q[k - 1], t[k])
               /\ q[n + 1] = Fold(c, base, t)
  <2>1. Stepped(c, base, t, n + 1, Fold(c, base, t))
    BY FoldSteps
  <2> QED
    BY <2>1 DEF Stepped
<1> DEFINE P == {k \in Nat : k <= n => p[k] = q[k]}
<1>3. 0 \in P
  BY <1>1, <1>2
<1>4. ASSUME NEW k \in Nat, k \in P PROVE k + 1 \in P
  <2>1. SUFFICES ASSUME k + 1 <= n PROVE p[k + 1] = q[k + 1]
    OBVIOUS
  <2>2. k + 1 \in 1 .. n /\ k + 1 \in 1 .. (n + 1) /\ (k + 1) - 1 = k /\ k <= n
    BY <2>1
  <2>3. p[k] = q[k]
    BY <1>4, <2>2
  <2>4. p[k + 1] = Op(c, p[k], s[k + 1])
    BY <1>1, <2>2
  <2>5. q[k + 1] = Op(c, q[k], t[k + 1])
    BY <1>2, <2>2
  <2>6. t[k + 1] = s[k + 1]
    BY <2>2
  <2> QED
    BY <2>3, <2>4, <2>5, <2>6
<1>5. p[n] = q[n]
  <2>1. n \in P
    <3> HIDE DEF P
    <3> QED
      BY <1>3, <1>4, Induction
  <2> QED
    BY <2>1
<1>6. q[n + 1] = Op(c, q[n], t[n + 1])
  <2>1. n + 1 \in 1 .. (n + 1) /\ (n + 1) - 1 = n
    OBVIOUS
  <2> QED
    BY <1>2, <2>1
<1> QED
  BY <1>1, <1>2, <1>5, <1>6

(* What holds of the base, and of every step if it held before, holds of   *)
(* the fold.                                                               *)
LEMMA FoldKeeps ==
    ASSUME \A T \in SUBSET Nat : T # {} => \E m \in T : \A k \in T : m <= k,
           NEW c, NEW base, NEW n \in Nat, NEW s, DOMAIN s = 1 .. n, Inv(c, 0, base),
           \A k \in 1 .. n : \A a : Inv(c, k - 1, a) => Inv(c, k, Op(c, a, s[k]))
    PROVE  Inv(c, n, Fold(c, base, s))
<1>1. PICK p : /\ p[0] = base
               /\ \A k \in 1 .. n : p[k] = Op(c, p[k - 1], s[k])
               /\ p[n] = Fold(c, base, s)
  <2>1. Stepped(c, base, s, n, Fold(c, base, s))
    BY FoldSteps
  <2> QED
    BY <2>1 DEF Stepped
<1> DEFINE P == {k \in Nat : k <= n => Inv(c, k, p[k])}
<1>2. 0 \in P
  BY <1>1
<1>3. ASSUME NEW k \in Nat, k \in P PROVE k + 1 \in P
  <2>1. SUFFICES ASSUME k + 1 <= n PROVE Inv(c, k + 1, p[k + 1])
    OBVIOUS
  <2>2. k + 1 \in 1 .. n /\ (k + 1) - 1 = k /\ k <= n
    BY <2>1
  <2>3. Inv(c, k, p[k])
    BY <1>3, <2>2
  <2>4. p[k + 1] = Op(c, p[k], s[k + 1])
    BY <1>1, <2>2
  <2> QED
    BY <2>2, <2>3, <2>4
<1>4. n \in P
  <2> HIDE DEF P
  <2> QED
    BY <1>2, <1>3, Induction
<1> QED
  BY <1>1, <1>4

(* The same of the fold of a finite set, in whatever order.                *)
LEMMA SetFoldKeeps ==
    ASSUME \A T \in SUBSET Nat : T # {} => \E m \in T : \A k \in T : m <= k,
           NEW c, NEW base, NEW S,
           NEW size \in [SUBSET S -> Nat], \A x \in SUBSET S : \A y \in x : size[x \ {y}] < size[x],
           Inv(c, {}, base),
           \A T \in SUBSET S : \A x \in S \ T : \A a : Inv(c, T, a) => Inv(c, T \cup {x}, Op(c, a, x))
    PROVE  Inv(c, S, SetFold(c, base, S))
<1> DEFINE D == SUBSET S
           pick(x) == CHOOSE y \in x : TRUE
           rank == [x \in D |-> IF x = {} THEN 0 ELSE size[x]]
           less == [x \in D |-> IF x = {} THEN {} ELSE x \ {pick(x)}]
           at == [x \in D |-> pick(x)]
           it == CHOOSE g : g = [x \in D |-> IF x = {} THEN base ELSE Op(c, g[x \ {pick(x)}], pick(x))]
<1>1. SetFold(c, base, S) = it[S]
  BY DEF SetFold
<1>2. ASSUME NEW x \in D, x # {}
      PROVE  pick(x) \in x /\ x \ {pick(x)} \in D /\ size[x \ {pick(x)}] < size[x] /\ size[x] # 0
  <2>1. pick(x) \in x
    BY <1>2
  <2> HIDE DEF pick
  <2>2. x \ {pick(x)} \in D /\ size[x \ {pick(x)}] < size[x]
    BY <2>1
  <2>3. size[x] \in Nat /\ size[x \ {pick(x)}] \in Nat
    BY <2>2
  <2> QED
    BY ONLY <2>1, <2>2, <2>3
<1>3. rank \in [D -> Nat] /\ \A x \in D : rank[x] = 0 <=> x = {}
  BY <1>2
<1>4. ASSUME NEW x \in D, x # {} PROVE rank[x \ {pick(x)}] < rank[x]
  <2>1. rank[x] = size[x] /\ size[x] \in Nat /\ size[x] # 0 /\ x \ {pick(x)} \in D
    BY <1>2, <1>4
  <2>2. rank[x \ {pick(x)}] \in {0, size[x \ {pick(x)}]}
    BY <2>1
  <2> QED
    BY <1>2, <1>4, <2>1, <2>2
<1>5. \A x \in D : at[x] = pick(x)
  OBVIOUS
<1> HIDE DEF pick
<1>6. /\ less \in [D -> D]
      /\ \A x \in D : x # {} => less[x] = x \ {pick(x)} /\ rank[less[x]] < rank[x]
  <2>1. ASSUME NEW x \in D, x # {}
        PROVE  less[x] = x \ {pick(x)} /\ less[x] \in D /\ rank[less[x]] < rank[x]
    <3>1. less[x] = x \ {pick(x)}
      BY <2>1
    <3> HIDE DEF less, rank
    <3> QED
      BY <1>2, <1>4, <2>1, <3>1
  <2>2. \A x \in D : less[x] \in D
    BY <2>1
  <2>3. less \in [D -> D]
    BY <2>2
  <2> QED
    BY <2>1, <2>3
<1> HIDE DEF rank, less, at
<1>7. it = [x \in D |-> IF x = {} THEN base ELSE Op(c, it[x \ {pick(x)}], pick(x))]
  <2>1. PICK g : g = [x \in D |-> IF rank[x] = 0 THEN base ELSE Op(c, g[less[x]], at[x])]
    <3>1. \A x \in D : rank[x] # 0 => rank[less[x]] < rank[x]
      BY <1>3, <1>6
    <3>2. rank \in [D -> Nat] /\ less \in [D -> D]
      BY <1>3, <1>6
    <3> HIDE DEF D
    <3>3. Recursive(c, D, base, rank, less, at)
      BY <3>1, <3>2, Recursion
    <3> QED
      BY <3>3 DEF Recursive
  <2>2. \A x \in D : (IF rank[x] = 0 THEN base ELSE Op(c, g[less[x]], at[x]))
                        = IF x = {} THEN base ELSE Op(c, g[x \ {pick(x)}], pick(x))
    BY <1>3, <1>5, <1>6
  <2>3. g = [x \in D |-> IF x = {} THEN base ELSE Op(c, g[x \ {pick(x)}], pick(x))]
    BY <2>1, <2>2
  <2> QED
    BY <2>3
<1> HIDE DEF it
<1> DEFINE P == {n \in Nat : \A x \in D : rank[x] <= n => Inv(c, x, it[x])}
<1>8. 0 \in P
  <2>1. it[{}] = base
    BY <1>7
  <2>2. \A x \in D : rank[x] <= 0 => x = {}
    BY <1>3
  <2> QED
    BY <2>1, <2>2
<1>9. ASSUME NEW n \in Nat, n \in P PROVE n + 1 \in P
  <2>1. SUFFICES ASSUME NEW x \in D, rank[x] <= n + 1 PROVE Inv(c, x, it[x])
    OBVIOUS
  <2>2. CASE x = {}
    <3>1. it[{}] = base
      BY <1>7
    <3> QED
      BY <2>2, <3>1
  <2>3. CASE x # {}
    <3> DEFINE T == x \ {pick(x)}
    <3>0. pick(x) \in x /\ T \in D /\ x \in SUBSET S
      BY <1>2, <2>3
    <3>1. pick(x) \in x /\ T \in D /\ x = T \cup {pick(x)} /\ pick(x) \in S \ T
      BY <3>0
    <3>2. rank[T] < rank[x] /\ rank[T] \in Nat /\ rank[x] \in Nat
      BY <1>3, <1>4, <2>3, <3>1
    <3>3. rank[T] <= n
      BY ONLY <2>1, <3>2, n \in Nat
    <3>4. Inv(c, T, it[T])
      BY <1>9, <3>1, <3>3
    <3>5. it[x] = Op(c, it[T], pick(x))
      BY <1>7, <2>3
    <3> HIDE DEF T
    <3> QED
      BY <3>1, <3>4, <3>5
  <2> QED
    BY <2>2, <2>3
<1>10. Nat \subseteq P
  <2> HIDE DEF P
  <2> QED
    BY <1>8, <1>9, Induction
<1>11. S \in D /\ rank[S] \in Nat /\ rank[S] <= rank[S]
  BY <1>3
<1> QED
  BY <1>1, <1>10, <1>11
=============================================================================
