----------------------- MODULE RetrievalPackingProofs ------------------------
(* What the pure part of MaterializeContextUseCase does to lists of units:  *)
(* no message twice, nothing pinned lost, and every token accounted for,    *)
(* for every context, every hint and every budget.                          *)
EXTENDS ContextMaterialization, ListTheorems

-----------------------------------------------------------------------------
(* Tokens                                                                  *)
AddTokens(c, sum, u) == sum + u.tokens

TokensUpto(units, k, sum) ==
    /\ (\A i \in 1 .. k : units[i].tokens \in Int) => sum \in Int
    /\ (\A i \in 1 .. k : units[i].tokens \in Nat) => sum \in Nat

Tokens == INSTANCE FoldTheorems WITH Op <- AddTokens, Inv <- TokensUpto

LEMMA TokenSumIsFold ==
    ASSUME NEW c, NEW s
    PROVE  TokenSum(s) = Tokens!Fold(c, 0, s)
BY DEF TokenSum, AddTokens, FoldLeft, MapThenFoldSet, Max,
       Tokens!Fold, Tokens!Greatest

LEMMA TokenSumType ==
    ASSUME NEW s, IsList(s)
    PROVE  /\ (\A u \in ToSet(s) : u.tokens \in Int) => TokenSum(s) \in Int
           /\ (\A u \in ToSet(s) : u.tokens \in Nat) => TokenSum(s) \in Nat
<1>0. Len(s) \in Nat /\ DOMAIN s = 1 .. Len(s) /\ \A i \in 1 .. Len(s) : s[i] \in ToSet(s)
  BY ListIs
<1>1. TokensUpto(s, 0, 0)
  BY DEF TokensUpto
<1>2. ASSUME NEW k \in 1 .. Len(s), NEW a, TokensUpto(s, k - 1, a) PROVE TokensUpto(s, k, AddTokens(s, a, s[k]))
  <2>1. k \in Nat /\ k \in 1 .. k /\ \A i \in 1 .. (k - 1) : i \in 1 .. k
    BY <1>0
  <2>2. ASSUME \A i \in 1 .. k : s[i].tokens \in Int PROVE a + s[k].tokens \in Int
    <3>1. a \in Int /\ s[k].tokens \in Int
      BY <1>2, <2>1, <2>2 DEF TokensUpto
    <3> QED
      BY <3>1
  <2>3. ASSUME \A i \in 1 .. k : s[i].tokens \in Nat PROVE a + s[k].tokens \in Nat
    <3>1. a \in Nat /\ s[k].tokens \in Nat
      BY <1>2, <2>1, <2>3 DEF TokensUpto
    <3> QED
      BY <3>1
  <2> QED
    BY <2>2, <2>3 DEF TokensUpto, AddTokens
<1>3. TokensUpto(s, Len(s), Tokens!Fold(s, 0, s))
  <2>1. \A k \in 1 .. Len(s) : \A a : TokensUpto(s, k - 1, a) => TokensUpto(s, k, AddTokens(s, a, s[k]))
    BY <1>2
  <2> QED
    BY <1>0, <1>1, <2>1, LeastNatural, Tokens!FoldKeeps
<1>4. TokensUpto(s, Len(s), TokenSum(s))
  BY <1>3, TokenSumIsFold
<1> QED
  BY <1>0, <1>4 DEF TokensUpto

LEMMA TokenSumAppend ==
    ASSUME NEW s, IsList(s), NEW u
    PROVE  TokenSum(Append(s, u)) = TokenSum(s) + u.tokens /\ TokenSum(<<>>) = 0
<1> DEFINE t == Append(s, u)
           n == Len(s)
<1>0. n \in Nat /\ DOMAIN s = 1 .. n
  BY ListIs
<1>1. IsList(t) /\ Len(t) = n + 1 /\ (\A i \in 1 .. n : t[i] = s[i]) /\ t[n + 1] = u
  BY AppendList
<1>2. DOMAIN t = 1 .. (n + 1)
  BY <1>1, ListIs
<1> HIDE DEF t, n
<1>3. Tokens!Fold(0, 0, t) = AddTokens(0, Tokens!Fold(0, 0, s), t[n + 1])
  BY <1>0, <1>1, <1>2, LeastNatural, Tokens!FoldAppend
<1>4. TokenSum(<<>>) = 0
  <2>1. DOMAIN <<>> = 1 .. 0
    OBVIOUS
  <2>2. Tokens!Stepped(0, 0, <<>>, 0, Tokens!Fold(0, 0, <<>>))
    BY <2>1, LeastNatural, Tokens!FoldSteps
  <2>3. Tokens!Fold(0, 0, <<>>) = 0
    BY <2>2 DEF Tokens!Stepped
  <2> QED
    BY <2>3, TokenSumIsFold
<1>5. TokenSum(t) = TokenSum(s) + u.tokens
  <2>1. TokenSum(t) = Tokens!Fold(0, 0, t) /\ TokenSum(s) = Tokens!Fold(0, 0, s)
    BY TokenSumIsFold
  <2> QED
    BY <1>1, <1>3, <2>1 DEF AddTokens
<1> QED
  BY <1>4, <1>5 DEF t

(* The beginning of a list, which grows by its next element.               *)
LEMMA Beginning ==
    ASSUME NEW s, IsList(s), NEW k \in 1 .. Len(s)
    PROVE  /\ IsList(SubSeq(s, 1, k)) /\ IsList(SubSeq(s, 1, k - 1))
           /\ SubSeq(s, 1, k) = Append(SubSeq(s, 1, k - 1), s[k])
           /\ SubSeq(s, 1, 0) = <<>> /\ SubSeq(s, 1, Len(s)) = s
<1>0. Len(s) \in Nat /\ (\A i \in 1 .. Len(s) : s[i] \in ToSet(s)) /\ k \in Nat /\ k - 1 \in Int /\ s \in Seq(ToSet(s))
  BY ListIs DEF IsList
<1>1. ASSUME NEW m \in Int, 0 <= m, m <= Len(s)
      PROVE  /\ SubSeq(s, 1, m) \in Seq(ToSet(s)) /\ Len(SubSeq(s, 1, m)) = m
             /\ \A i \in 1 .. m : SubSeq(s, 1, m)[i] = s[i]
  <2>1. \A i \in 1 .. m : s[i] \in ToSet(s)
    BY <1>0, <1>1
  <2>2. /\ SubSeq(s, 1, m) \in Seq(ToSet(s)) /\ Len(SubSeq(s, 1, m)) = (IF 1 <= m THEN m - 1 + 1 ELSE 0)
        /\ \A i \in 1 .. m - 1 + 1 : SubSeq(s, 1, m)[i] = s[1 + i - 1]
    BY <2>1, 1 \in Int, SubSeqProperties
  <2>3. \A i \in 1 .. m : i \in 1 .. m - 1 + 1 /\ 1 + i - 1 = i
    OBVIOUS
  <2>4. Len(SubSeq(s, 1, m)) = m
    BY <1>1, <2>2
  <2> QED
    BY <2>2, <2>3, <2>4
<1> DEFINE t == SubSeq(s, 1, k)
           r == SubSeq(s, 1, k - 1)
           e == Append(r, s[k])
<1>2. t \in Seq(ToSet(s)) /\ Len(t) = k /\ \A i \in 1 .. k : t[i] = s[i]
  BY <1>0, <1>1
<1>3. r \in Seq(ToSet(s)) /\ Len(r) = k - 1 /\ \A i \in 1 .. (k - 1) : r[i] = s[i]
  BY <1>0, <1>1
<1> HIDE DEF t, r
<1>4. e \in Seq(ToSet(s)) /\ Len(e) = k /\ (\A i \in 1 .. (k - 1) : e[i] = s[i]) /\ e[k] = s[k]
  <2>1. /\ e \in Seq(ToSet(s)) /\ Len(e) = (k - 1) + 1
        /\ (\A i \in 1 .. Len(r) : e[i] = r[i]) /\ e[Len(r) + 1] = s[k]
    BY <1>0, <1>3, AppendProperties
  <2>2. (k - 1) + 1 = k
    BY <1>0
  <2> QED
    BY <1>3, <2>1, <2>2
<1> HIDE DEF e
<1>5. t = e
  <2>1. ASSUME NEW i \in 1 .. Len(t) PROVE t[i] = e[i]
    <3>1. CASE i = k
      BY <1>2, <1>4, <3>1
    <3>2. CASE i # k
      <4>1. i \in 1 .. (k - 1)
        BY <1>0, <1>2, <3>2
      <4> QED
        BY <1>2, <1>4, <4>1
    <3> QED
      BY <3>1, <3>2
  <2> QED
    BY <1>2, <1>4, <2>1, SeqEqual
<1>6. SubSeq(s, 1, 0) = <<>> /\ SubSeq(s, 1, Len(s)) = s
  BY <1>0, SubSeqEmpty, SubSeqFull
<1> QED
  BY <1>2, <1>3, <1>5, <1>6, ListOf DEF t, r, e

LEMMA PrefixTokens ==
    ASSUME NEW s, IsList(s), NEW k \in 1 .. Len(s), \A u \in ToSet(s) : u.tokens \in Int
    PROVE  /\ TokenSum(SubSeq(s, 1, k)) = TokenSum(SubSeq(s, 1, k - 1)) + s[k].tokens
           /\ TokenSum(SubSeq(s, 1, k - 1)) \in Int /\ s[k].tokens \in Int
           /\ (\A u \in ToSet(s) : u.tokens \in Nat) => s[k].tokens \in Nat
<1>0. s[k] \in ToSet(s)
  BY ListIs
<1>1. IsList(SubSeq(s, 1, k - 1)) /\ SubSeq(s, 1, k) = Append(SubSeq(s, 1, k - 1), s[k])
  BY Beginning
<1>2. ToSet(SubSeq(s, 1, k - 1)) \subseteq ToSet(s)
  <2>1. \A i \in 1 .. k - 1 : s[i] \in ToSet(s)
    <3>1. Len(s) \in Nat /\ \A i \in 1 .. k - 1 : i \in 1 .. Len(s)
      BY ListIs
    <3> QED
      BY <3>1, ListIs
  <2>2. SubSeq(s, 1, k - 1) \in Seq(ToSet(s))
    BY <2>1, 1 \in Int, k - 1 \in Int, SubSeqProperties
  <2> QED
    BY <2>2, ListOf
<1>3. TokenSum(SubSeq(s, 1, k - 1)) \in Int
  BY <1>1, <1>2, TokenSumType
<1> QED
  BY <1>0, <1>1, <1>3, TokenSumAppend

(* One element of a list for another.                                      *)
ExchangedUpto(c, k, sum) == sum = TokenSum(SubSeq(c.list, 1, k)) + (IF k >= c.place THEN c.gain ELSE 0)

Exchange == INSTANCE FoldTheorems WITH Op <- AddTokens, Inv <- ExchangedUpto

LEMMA TokenSumExchange ==
    ASSUME NEW s, IsList(s), NEW t, IsList(t), Len(t) = Len(s), NEW p \in 1 .. Len(s),
           \A u \in ToSet(s) : u.tokens \in Int, t[p].tokens \in Int,
           \A i \in 1 .. Len(s) : i # p => t[i] = s[i]
    PROVE  TokenSum(t) = TokenSum(s) - s[p].tokens + t[p].tokens
<1> DEFINE n == Len(s)
           c == [list |-> s, place |-> p, gain |-> t[p].tokens - s[p].tokens]
           before(k) == TokenSum(SubSeq(s, 1, k))
<1>0. n \in Nat /\ DOMAIN t = 1 .. n /\ s[p].tokens \in Int /\ p \in Nat /\ 1 <= p /\ p <= n
  BY ListIs
<1>1. before(0) = 0 /\ before(n) = TokenSum(s)
  BY Beginning, TokenSumAppend
<1>2. \A k \in 1 .. n : before(k) = before(k - 1) + s[k].tokens /\ before(k - 1) \in Int /\ s[k].tokens \in Int
  BY PrefixTokens
<1>3. TokenSum(s) \in Int
  BY TokenSumType
<1> HIDE DEF before
<1>4. ExchangedUpto(c, 0, 0)
  <2>1. ~ (0 >= p)
    BY <1>0
  <2> QED
    BY <1>1, <2>1 DEF ExchangedUpto, before
<1>5. ASSUME NEW k \in 1 .. n, NEW a, ExchangedUpto(c, k - 1, a) PROVE ExchangedUpto(c, k, AddTokens(c, a, t[k]))
  <2>1. a = before(k - 1) + (IF k - 1 >= p THEN t[p].tokens - s[p].tokens ELSE 0)
    BY <1>5 DEF ExchangedUpto, before
  <2>2. before(k) = before(k - 1) + s[k].tokens /\ before(k - 1) \in Int /\ s[k].tokens \in Int /\ k \in Nat
    BY <1>0, <1>2
  <2>3. a + t[k].tokens = before(k) + (IF k >= p THEN t[p].tokens - s[p].tokens ELSE 0)
    <3>1. CASE k = p
      <4>1. ~ (k - 1 >= p) /\ k >= p
        BY <1>0, <3>1
      <4>2. a = before(k - 1)
        BY <2>1, <2>2, <4>1
      <4> QED
        BY <1>0, <2>2, <3>1, <4>1, <4>2
    <3>2. CASE k < p
      <4>1. ~ (k - 1 >= p) /\ ~ (k >= p) /\ k # p
        BY <1>0, <2>2, <3>2
      <4>2. t[k] = s[k]
        BY <4>1
      <4> QED
        BY <2>1, <2>2, <4>1, <4>2
    <3>3. CASE k > p
      <4>1. k - 1 >= p /\ k >= p /\ k # p
        BY <1>0, <2>2, <3>3
      <4>2. t[k] = s[k]
        BY <4>1
      <4>3. a = before(k - 1) + (t[p].tokens - s[p].tokens)
        BY <2>1, <4>1
      <4> QED
        BY <1>0, <2>2, <4>1, <4>2, <4>3
    <3> QED
      BY <1>0, <2>2, <3>1, <3>2, <3>3
  <2> QED
    BY <2>3 DEF ExchangedUpto, AddTokens, before
<1>6. ExchangedUpto(c, n, Exchange!Fold(c, 0, t))
  <2>1. \A k \in 1 .. n : \A a : ExchangedUpto(c, k - 1, a) => ExchangedUpto(c, k, AddTokens(c, a, t[k]))
    BY <1>5
  <2> HIDE DEF c, n
  <2> QED
    BY <1>0, <1>4, <2>1, LeastNatural, Exchange!FoldKeeps
<1>7. TokenSum(t) = Exchange!Fold(c, 0, t)
  BY DEF TokenSum, AddTokens, FoldLeft, MapThenFoldSet, Max,
         Exchange!Fold, Exchange!Greatest
<1>8. TokenSum(t) = before(n) + (t[p].tokens - s[p].tokens)
  BY <1>0, <1>6, <1>7 DEF ExchangedUpto, before
<1> QED
  BY <1>0, <1>1, <1>3, <1>8

(* What is kept of a list has no more tokens than the list.                *)
KeptTokens(c, k, kept) ==
    IsList(kept) /\ ToSet(kept) \subseteq ToSet(c[1]) /\ TokenSum(kept) <= TokenSum(SubSeq(c[1], 1, k))

KeepTokens == INSTANCE FoldTheorems WITH Op <- Keep, Inv <- KeptTokens

LEMMA ThoseTokens ==
    ASSUME NEW s, IsList(s), \A u \in ToSet(s) : u.tokens \in Nat, NEW T
    PROVE  TokenSum(Those(s, T)) <= TokenSum(s)
<1> DEFINE c == <<s, T>>
           n == Len(s)
<1>0. n \in Nat /\ DOMAIN s = 1 .. n
  BY ListIs
<1>1. Those(s, T) = KeepTokens!Fold(c, <<>>, s)
  BY DEF Those, Keep, FoldLeft, MapThenFoldSet, Max,
         KeepTokens!Fold, KeepTokens!Greatest
<1>2. KeptTokens(c, 0, <<>>)
  <2>1. SubSeq(s, 1, 0) = <<>> /\ c[1] = s
    BY SubSeqEmpty
  <2>2. TokenSum(<<>>) = 0 /\ {} \subseteq ToSet(s) /\ IsList(<<>>) /\ ToSet(<<>>) = {}
    BY NoList, TokenSumAppend
  <2> HIDE DEF c
  <2>4. SubSeq(c[1], 1, 0) = <<>>
    BY <2>1
  <2>5. 0 <= 0
    OBVIOUS
  <2>3. TokenSum(<<>>) <= TokenSum(SubSeq(c[1], 1, 0))
    BY <2>2, <2>4, <2>5
  <2> QED
    BY <2>1, <2>2, <2>3 DEF KeptTokens
<1>3. ASSUME NEW k \in 1 .. n, NEW kept, KeptTokens(c, k - 1, kept) PROVE KeptTokens(c, k, Keep(c, kept, s[k]))
  <2>1. IsList(kept) /\ ToSet(kept) \subseteq ToSet(s) /\ TokenSum(kept) <= TokenSum(SubSeq(s, 1, k - 1))
    BY <1>3 DEF KeptTokens
  <2>2. /\ TokenSum(SubSeq(s, 1, k)) = TokenSum(SubSeq(s, 1, k - 1)) + s[k].tokens
        /\ TokenSum(SubSeq(s, 1, k - 1)) \in Int /\ s[k].tokens \in Nat
    BY PrefixTokens
  <2>3. TokenSum(kept) \in Int /\ s[k] \in ToSet(s)
    BY <2>1, TokenSumType, ListIs
  <2>4. CASE s[k] \in T
    <3>1. Keep(c, kept, s[k]) = Append(kept, s[k])
      BY <2>4 DEF Keep
    <3>2. /\ IsList(Append(kept, s[k])) /\ ToSet(Append(kept, s[k])) = ToSet(kept) \cup {s[k]}
          /\ TokenSum(Append(kept, s[k])) = TokenSum(kept) + s[k].tokens
      BY <2>1, AppendList, TokenSumAppend
    <3>3. TokenSum(kept) + s[k].tokens <= TokenSum(SubSeq(s, 1, k))
      BY <2>1, <2>2, <2>3
    <3>4. ToSet(kept) \cup {s[k]} \subseteq ToSet(s) /\ c[1] = s
      BY <2>1, <2>3
    <3> HIDE DEF c
    <3> QED
      BY <3>1, <3>2, <3>3, <3>4 DEF KeptTokens
  <2>5. CASE s[k] \notin T
    <3>1. Keep(c, kept, s[k]) = kept
      BY <2>5 DEF Keep
    <3>2. TokenSum(kept) <= TokenSum(SubSeq(s, 1, k))
      BY <2>1, <2>2, <2>3
    <3> QED
      BY <2>1, <3>1, <3>2 DEF KeptTokens
  <2> QED
    BY <2>4, <2>5
<1>4. KeptTokens(c, n, KeepTokens!Fold(c, <<>>, s))
  <2> HIDE DEF c, n
  <2>1. \A k \in 1 .. n : \A kept : KeptTokens(c, k - 1, kept) => KeptTokens(c, k, Keep(c, kept, s[k]))
    BY <1>3
  <2> QED
    BY <1>0, <1>2, <2>1, LeastNatural, KeepTokens!FoldKeeps
<1>5. SubSeq(s, 1, n) = s
  BY SubSeqFull DEF IsList
<1> QED
  BY <1>1, <1>4, <1>5 DEF KeptTokens

LEMMA ThoseAppend ==
    ASSUME NEW s, IsList(s), NEW x, NEW T
    PROVE  /\ x \in T => Those(Append(s, x), T) = Append(Those(s, T), x)
           /\ x \notin T => Those(Append(s, x), T) = Those(s, T)
           /\ Those(<<>>, T) = <<>>
<1> DEFINE t == Append(s, x)
           n == Len(s)
           c == <<0, T>>
<1>1. n \in Nat /\ DOMAIN s = 1 .. n
  BY ListIs
<1>2. DOMAIN t = 1 .. (n + 1) /\ (\A i \in 1 .. n : t[i] = s[i]) /\ t[n + 1] = x
  BY AppendList, ListIs
<1>3. \A l : Those(l, T) = Filter!Fold(c, <<>>, l)
  BY DEF Those, Keep, FoldLeft, MapThenFoldSet, Max,
         Filter!Fold, Filter!Greatest
<1> HIDE DEF t, n
<1>4. Filter!Fold(c, <<>>, t) = Keep(c, Filter!Fold(c, <<>>, s), t[n + 1])
  <2> HIDE DEF c
  <2> QED
    BY <1>1, <1>2, LeastNatural, Filter!FoldAppend
<1>5. Those(t, T) = Keep(c, Those(s, T), x)
  BY <1>2, <1>3, <1>4
<1>6. Those(<<>>, T) = <<>>
  <2>1. IsList(Those(<<>>, T)) /\ ToSet(Those(<<>>, T)) = {} \cap T
    BY NoList, ThoseAre
  <2>2. Len(Those(<<>>, T)) \in Nat /\ \A i \in 1 .. Len(Those(<<>>, T)) : FALSE
    BY <2>1, ListIs
  <2>3. Len(Those(<<>>, T)) = 0
    <3> HIDE DEF c
    <3>1. Len(Those(<<>>, T)) # 0 => 1 \in 1 .. Len(Those(<<>>, T))
      BY <2>2
    <3> QED
      BY <2>2, <3>1
  <2> QED
    BY <2>1, <2>3, NoList
<1> QED
  BY <1>5, <1>6 DEF Keep, t

(* Filtering what was filtered.                                            *)
KeptTwice(c, k, kept) == IsList(kept) /\ Those(kept, c[3]) = Those(SubSeq(c[1], 1, k), c[4])

KeepTwice == INSTANCE FoldTheorems WITH Op <- Keep, Inv <- KeptTwice

LEMMA ThoseOfThose ==
    ASSUME NEW s, IsList(s), NEW T, NEW U, NEW V,
           \A x \in ToSet(s) : x \in V <=> x \in T /\ x \in U
    PROVE  Those(Those(s, T), U) = Those(s, V)
<1> DEFINE c == <<s, T, U, V>>
           n == Len(s)
<1>0. n \in Nat /\ DOMAIN s = 1 .. n
  BY ListIs
<1>1. Those(s, T) = KeepTwice!Fold(c, <<>>, s)
  BY DEF Those, Keep, FoldLeft, MapThenFoldSet, Max,
         KeepTwice!Fold, KeepTwice!Greatest
<1>2. KeptTwice(c, 0, <<>>)
  <2>1. SubSeq(s, 1, 0) = <<>>
    BY SubSeqEmpty
  <2>2. Those(<<>>, U) = <<>> /\ Those(<<>>, V) = <<>>
    BY NoList, ThoseAppend
  <2> QED
    BY <2>1, <2>2, NoList DEF KeptTwice
<1>3. ASSUME NEW k \in 1 .. n, NEW kept, KeptTwice(c, k - 1, kept) PROVE KeptTwice(c, k, Keep(c, kept, s[k]))
  <2> DEFINE r == SubSeq(s, 1, k - 1)
  <2>1. IsList(kept) /\ Those(kept, U) = Those(r, V)
    BY <1>3 DEF KeptTwice
  <2>2. s[k] \in ToSet(s)
    BY ListIs
  <2>3. IsList(r) /\ SubSeq(s, 1, k) = Append(r, s[k])
    BY Beginning
  <2> HIDE DEF r
  <2>4. /\ s[k] \in V => Those(SubSeq(s, 1, k), V) = Append(Those(r, V), s[k])
        /\ s[k] \notin V => Those(SubSeq(s, 1, k), V) = Those(r, V)
    <3>1. /\ s[k] \in V => Those(Append(r, s[k]), V) = Append(Those(r, V), s[k])
          /\ s[k] \notin V => Those(Append(r, s[k]), V) = Those(r, V)
      BY <2>3, ThoseAppend
    <3> QED
      BY <2>3, <3>1
  <2>5. CASE s[k] \in T
    <3>1. Keep(c, kept, s[k]) = Append(kept, s[k])
      BY <2>5 DEF Keep
    <3>2. /\ s[k] \in U => Those(Append(kept, s[k]), U) = Append(Those(kept, U), s[k])
          /\ s[k] \notin U => Those(Append(kept, s[k]), U) = Those(kept, U)
      BY <2>1, ThoseAppend
    <3>3. Those(Append(kept, s[k]), U) = Those(SubSeq(s, 1, k), V)
      BY <2>1, <2>2, <2>4, <2>5, <3>2
    <3>4. IsList(Append(kept, s[k]))
      BY <2>1, AppendList
    <3> QED
      BY <3>1, <3>3, <3>4 DEF KeptTwice
  <2>6. CASE s[k] \notin T
    <3>1. Keep(c, kept, s[k]) = kept
      BY <2>6 DEF Keep
    <3>2. Those(kept, U) = Those(SubSeq(s, 1, k), V)
      BY <2>1, <2>2, <2>4, <2>6
    <3> QED
      BY <2>1, <3>1, <3>2 DEF KeptTwice
  <2> QED
    BY <2>5, <2>6
<1>4. KeptTwice(c, n, KeepTwice!Fold(c, <<>>, s))
  <2> HIDE DEF c, n
  <2>1. \A k \in 1 .. n : \A kept : KeptTwice(c, k - 1, kept) => KeptTwice(c, k, Keep(c, kept, s[k]))
    BY <1>3
  <2> QED
    BY <1>0, <1>2, <2>1, LeastNatural, KeepTwice!FoldKeeps
<1>5. SubSeq(s, 1, n) = s
  BY SubSeqFull DEF IsList
<1> QED
  BY <1>1, <1>4, <1>5 DEF KeptTwice

-----------------------------------------------------------------------------
(* No message twice                                                        *)

Apart(s) == \A i, j \in 1 .. Len(s) : i # j => SeqsOf(s[i]) \cap SeqsOf(s[j]) = {}

LEMMA ApartDrawn ==
    ASSUME NEW s, NEW t, Apart(s), Drawn(s, t)
    PROVE  Apart(t)
<1>1. PICK f \in [1 .. Len(t) -> 1 .. Len(s)] :
          /\ \A i, j \in 1 .. Len(t) : f[i] = f[j] => i = j
          /\ \A i \in 1 .. Len(t) : t[i] = s[f[i]]
  BY DEF Drawn
<1>2. ASSUME NEW i \in 1 .. Len(t), NEW j \in 1 .. Len(t), i # j PROVE SeqsOf(t[i]) \cap SeqsOf(t[j]) = {}
  <2>1. f[i] \in 1 .. Len(s) /\ f[j] \in 1 .. Len(s) /\ f[i] # f[j]
    BY <1>1, <1>2
  <2>2. SeqsOf(s[f[i]]) \cap SeqsOf(s[f[j]]) = {}
    BY <2>1 DEF Apart
  <2> QED
    BY <1>1, <2>2
<1> QED
  BY <1>2 DEF Apart

LEMMA ApartElements ==
    ASSUME NEW s, IsList(s), Apart(s), NEW x \in ToSet(s), NEW y \in ToSet(s), x # y
    PROVE  SeqsOf(x) \cap SeqsOf(y) = {}
<1>1. PICK i \in 1 .. Len(s) : x = s[i]
  BY ListIs
<1>2. PICK j \in 1 .. Len(s) : y = s[j]
  BY ListIs
<1> QED
  BY <1>1, <1>2 DEF Apart

LEMMA ApartAppend ==
    ASSUME NEW s, IsList(s), Apart(s), NEW x, \A y \in ToSet(s) : SeqsOf(y) \cap SeqsOf(x) = {}
    PROVE  Apart(Append(s, x))
<1> DEFINE t == Append(s, x)
<1>1. Len(s) \in Nat /\ Len(t) = Len(s) + 1 /\ (\A i \in 1 .. Len(s) : t[i] = s[i] /\ s[i] \in ToSet(s)) /\ t[Len(s) + 1] = x
  BY AppendList, ListIs
<1> HIDE DEF t
<1>2. \A i \in 1 .. Len(t) : i \in 1 .. Len(s) \/ i = Len(s) + 1
  BY <1>1
<1>3. ASSUME NEW i \in 1 .. Len(t), NEW j \in 1 .. Len(t), i # j PROVE SeqsOf(t[i]) \cap SeqsOf(t[j]) = {}
  <2>1. CASE i \in 1 .. Len(s) /\ j \in 1 .. Len(s)
    BY <1>1, <1>3, <2>1 DEF Apart
  <2>2. CASE i \in 1 .. Len(s) /\ j = Len(s) + 1
    <3>1. t[i] \in ToSet(s) /\ t[j] = x
      BY <1>1, <2>2
    <3> QED
      BY <3>1
  <2>3. CASE i = Len(s) + 1 /\ j \in 1 .. Len(s)
    <3>1. t[j] \in ToSet(s) /\ t[i] = x
      BY <1>1, <2>3
    <3> QED
      BY <3>1
  <2> QED
    BY <1>2, <1>3, <2>1, <2>2, <2>3
<1> QED
  BY <1>3 DEF Apart, t

LEMMA ApartConcat ==
    ASSUME NEW s, NEW t, IsList(s), IsList(t), Apart(s), Apart(t),
           \A x \in ToSet(s) : \A y \in ToSet(t) : SeqsOf(x) \cap SeqsOf(y) = {}
    PROVE  Apart(s \o t)
<1> DEFINE u == s \o t
<1>1. /\ Len(s) \in Nat /\ Len(t) \in Nat /\ Len(u) = Len(s) + Len(t)
      /\ \A i \in 1 .. Len(s) : u[i] = s[i] /\ s[i] \in ToSet(s)
      /\ \A i \in 1 .. Len(t) : u[Len(s) + i] = t[i] /\ t[i] \in ToSet(t)
  BY ConcatList, ListIs
<1> HIDE DEF u
<1>2. ASSUME NEW i \in 1 .. Len(u)
      PROVE  \/ i \in 1 .. Len(s)
             \/ i - Len(s) \in 1 .. Len(t) /\ Len(s) + (i - Len(s)) = i
  BY <1>1
<1>3. \A i \in 1 .. Len(u) : i \notin 1 .. Len(s) => i - Len(s) \in 1 .. Len(t) /\ u[i] = t[i - Len(s)]
  <2>1. ASSUME NEW i \in 1 .. Len(u), i \notin 1 .. Len(s)
        PROVE i - Len(s) \in 1 .. Len(t) /\ u[i] = t[i - Len(s)]
    <3>1. i - Len(s) \in 1 .. Len(t) /\ Len(s) + (i - Len(s)) = i
      BY <1>2, <2>1
    <3>2. u[Len(s) + (i - Len(s))] = t[i - Len(s)]
      BY <1>1, <3>1
    <3> QED
      BY <3>1, <3>2
  <2> QED
    BY <2>1
<1>4. ASSUME NEW i \in 1 .. Len(u), NEW j \in 1 .. Len(u), i # j PROVE SeqsOf(u[i]) \cap SeqsOf(u[j]) = {}
  <2>1. CASE i \in 1 .. Len(s) /\ j \in 1 .. Len(s)
    BY <1>1, <1>4, <2>1 DEF Apart
  <2>2. CASE i \in 1 .. Len(s) /\ j \notin 1 .. Len(s)
    <3>1. u[i] \in ToSet(s) /\ u[j] \in ToSet(t)
      BY <1>1, <1>3, <2>2
    <3> QED
      BY <3>1
  <2>3. CASE i \notin 1 .. Len(s) /\ j \in 1 .. Len(s)
    <3>1. u[j] \in ToSet(s) /\ u[i] \in ToSet(t)
      BY <1>1, <1>3, <2>3
    <3> QED
      BY <3>1
  <2>4. CASE i \notin 1 .. Len(s) /\ j \notin 1 .. Len(s)
    <3>1. i - Len(s) \in 1 .. Len(t) /\ j - Len(s) \in 1 .. Len(t) /\ u[i] = t[i - Len(s)] /\ u[j] = t[j - Len(s)]
      BY <1>3, <2>4
    <3>2. i - Len(s) # j - Len(s)
      BY <1>1, <1>4
    <3> QED
      BY <3>1, <3>2 DEF Apart
  <2> QED
    BY <2>1, <2>2, <2>3, <2>4
<1> QED
  BY <1>4 DEF Apart, u

-----------------------------------------------------------------------------
(* How many messages units stand for.                                      *)
LEMMA CountStep ==
    ASSUME NEW S, IsFiniteSet(S), NEW n \in Nat, Cardinality(S) <= n, NEW x, NEW T, IsFiniteSet(T), T # {}
    PROVE  /\ IsFiniteSet(S \cup {x}) /\ Cardinality(T) \in Nat /\ n + Cardinality(T) \in Nat
           /\ Cardinality(S \cup {x}) <= n + Cardinality(T) /\ Cardinality(S) <= n + Cardinality(T)
<1>1. Cardinality(S) \in Nat /\ Cardinality(T) \in Nat /\ Cardinality(T) # 0
  BY FS_CardinalityType, FS_EmptySet
<1>2. IsFiniteSet(S \cup {x}) /\ Cardinality(S \cup {x}) = IF x \in S THEN Cardinality(S) ELSE Cardinality(S) + 1
  BY FS_AddElement
<1>3. Cardinality(S \cup {x}) = Cardinality(S) \/ Cardinality(S \cup {x}) = Cardinality(S) + 1
  BY <1>2
<1> QED
  BY <1>1, <1>2, <1>3

AddMessages(c, n, u) == n + Cardinality(SeqsOf(u))

(* At least one for each of the units in c[2].                             *)
AtLeastMessages(c, k, n) ==
    /\ n \in Nat /\ IsFiniteSet({x \in c[2] : \E i \in 1 .. k : x = c[1][i]})
    /\ Cardinality({x \in c[2] : \E i \in 1 .. k : x = c[1][i]}) <= n

SomeMessages == INSTANCE FoldTheorems WITH Op <- AddMessages, Inv <- AtLeastMessages

LEMMA MessagesAtLeast ==
    ASSUME NEW s, IsList(s), \A u \in ToSet(s) : IsFiniteSet(SeqsOf(u)),
           NEW M \in SUBSET ToSet(s), \A u \in M : SeqsOf(u) # {}
    PROVE  MessagesIn(s) \in Nat /\ IsFiniteSet(M) /\ Cardinality(M) <= MessagesIn(s)
<1> DEFINE c == <<s, M>>
           n == Len(s)
           Upto(k) == {x \in M : \E i \in 1 .. k : x = s[i]}
<1>0. n \in Nat /\ DOMAIN s = 1 .. n /\ c[1] = s /\ c[2] = M
  BY ListIs
<1>1. MessagesIn(s) = SomeMessages!Fold(c, 0, s)
  BY DEF MessagesIn, AddMessages, FoldLeft, MapThenFoldSet, Max,
         SomeMessages!Fold, SomeMessages!Greatest
<1> HIDE DEF c, n
<1>2. \A k, a : AtLeastMessages(c, k, a) <=> a \in Nat /\ IsFiniteSet(Upto(k)) /\ Cardinality(Upto(k)) <= a
  BY <1>0 DEF AtLeastMessages
<1>3. AtLeastMessages(c, 0, 0)
  <2>1. Upto(0) = {}
    OBVIOUS
  <2> HIDE DEF Upto
  <2> QED
    BY <1>2, <2>1, FS_EmptySet
<1>4. ASSUME NEW k \in 1 .. n, NEW a, AtLeastMessages(c, k - 1, a) PROVE AtLeastMessages(c, k, AddMessages(c, a, s[k]))
  <2>1. 1 .. k = (1 .. (k - 1)) \cup {k}
    OBVIOUS
  <2>2. s[k] \in ToSet(s)
    BY ListIs DEF n
  <2>3. Upto(k) = IF s[k] \in M THEN Upto(k - 1) \cup {s[k]} ELSE Upto(k - 1)
    BY <2>1
  <2> HIDE DEF Upto
  <2>4. a \in Nat /\ IsFiniteSet(Upto(k - 1)) /\ Cardinality(Upto(k - 1)) <= a
    BY <1>2, <1>4
  <2> DEFINE m == a + Cardinality(SeqsOf(s[k]))
  <2>5. Cardinality(SeqsOf(s[k])) \in Nat /\ IsFiniteSet(SeqsOf(s[k]))
    BY <2>2, FS_CardinalityType
  <2>6. CASE s[k] \in M
    <3>1. m \in Nat /\ IsFiniteSet(Upto(k - 1) \cup {s[k]}) /\ Cardinality(Upto(k - 1) \cup {s[k]}) <= m
      BY <2>4, <2>5, <2>6, CountStep
    <3> QED
      BY <1>2, <2>3, <2>6, <3>1 DEF AddMessages
  <2>7. CASE s[k] \notin M
    <3>1. Cardinality(Upto(k - 1)) \in Nat
      BY <2>4, FS_CardinalityType
    <3>2. m \in Nat /\ Cardinality(Upto(k - 1)) <= m
      BY <2>4, <2>5, <3>1
    <3> QED
      BY <1>2, <2>3, <2>4, <2>7, <3>2 DEF AddMessages
  <2> QED
    BY <2>6, <2>7
<1>5. AtLeastMessages(c, n, SomeMessages!Fold(c, 0, s))
  <2>1. \A k \in 1 .. n : \A a : AtLeastMessages(c, k - 1, a) => AtLeastMessages(c, k, AddMessages(c, a, s[k]))
    BY <1>4
  <2> QED
    BY <1>0, <1>3, <2>1, LeastNatural, SomeMessages!FoldKeeps
<1>6. Upto(n) = M
  BY ListIs DEF n
<1> HIDE DEF Upto
<1> QED
  BY <1>1, <1>2, <1>5, <1>6

AddSummaries(c, n, u) == n + Cardinality(SummariesOf(u))

AtLeastSummaries(c, k, n) ==
    /\ n \in Nat /\ IsFiniteSet({x \in c[2] : \E i \in 1 .. k : x = c[1][i]})
    /\ Cardinality({x \in c[2] : \E i \in 1 .. k : x = c[1][i]}) <= n

SomeSummaries == INSTANCE FoldTheorems WITH Op <- AddSummaries, Inv <- AtLeastSummaries

LEMMA SummariesAtLeast ==
    ASSUME NEW s, IsList(s), NEW M \in SUBSET ToSet(s), \A u \in M : SummariesOf(u) # {}
    PROVE  SummariesIn(s) \in Nat /\ IsFiniteSet(M) /\ Cardinality(M) <= SummariesIn(s)
<1> DEFINE c == <<s, M>>
           n == Len(s)
           Upto(k) == {x \in M : \E i \in 1 .. k : x = s[i]}
<1>0. n \in Nat /\ DOMAIN s = 1 .. n /\ c[1] = s /\ c[2] = M
  BY ListIs
<1>1. SummariesIn(s) = SomeSummaries!Fold(c, 0, s)
  BY DEF SummariesIn, AddSummaries, FoldLeft, MapThenFoldSet, Max,
         SomeSummaries!Fold, SomeSummaries!Greatest
<1> HIDE DEF c, n
<1>2. \A k, a : AtLeastSummaries(c, k, a) <=> a \in Nat /\ IsFiniteSet(Upto(k)) /\ Cardinality(Upto(k)) <= a
  BY <1>0 DEF AtLeastSummaries
<1>3. AtLeastSummaries(c, 0, 0)
  <2>1. Upto(0) = {}
    OBVIOUS
  <2> HIDE DEF Upto
  <2> QED
    BY <1>2, <2>1, FS_EmptySet
<1>4. ASSUME NEW k \in 1 .. n, NEW a, AtLeastSummaries(c, k - 1, a) PROVE AtLeastSummaries(c, k, AddSummaries(c, a, s[k]))
  <2>1. 1 .. k = (1 .. (k - 1)) \cup {k}
    OBVIOUS
  <2>3. Upto(k) = IF s[k] \in M THEN Upto(k - 1) \cup {s[k]} ELSE Upto(k - 1)
    BY <2>1
  <2> HIDE DEF Upto
  <2>4. a \in Nat /\ IsFiniteSet(Upto(k - 1)) /\ Cardinality(Upto(k - 1)) <= a
    BY <1>2, <1>4
  <2> DEFINE m == a + Cardinality(SummariesOf(s[k]))
  <2>5. Cardinality(SummariesOf(s[k])) \in Nat /\ IsFiniteSet(SummariesOf(s[k]))
    <3>1. IsFiniteSet(SummariesOf(s[k]))
      BY FS_EmptySet, FS_Singleton DEF SummariesOf
    <3> QED
      BY <3>1, FS_CardinalityType
  <2>6. CASE s[k] \in M
    <3>1. m \in Nat /\ IsFiniteSet(Upto(k - 1) \cup {s[k]}) /\ Cardinality(Upto(k - 1) \cup {s[k]}) <= m
      BY <2>4, <2>5, <2>6, CountStep
    <3> QED
      BY <1>2, <2>3, <2>6, <3>1 DEF AddSummaries
  <2>7. CASE s[k] \notin M
    <3>1. Cardinality(Upto(k - 1)) \in Nat
      BY <2>4, FS_CardinalityType
    <3>2. m \in Nat /\ Cardinality(Upto(k - 1)) <= m
      BY <2>4, <2>5, <3>1
    <3> QED
      BY <1>2, <2>3, <2>4, <2>7, <3>2 DEF AddSummaries
  <2> QED
    BY <2>6, <2>7
<1>5. AtLeastSummaries(c, n, SomeSummaries!Fold(c, 0, s))
  <2>1. \A k \in 1 .. n : \A a : AtLeastSummaries(c, k - 1, a) => AtLeastSummaries(c, k, AddSummaries(c, a, s[k]))
    BY <1>4
  <2> QED
    BY <1>0, <1>3, <2>1, LeastNatural, SomeSummaries!FoldKeeps
<1>6. Upto(n) = M
  BY ListIs DEF n
<1> HIDE DEF Upto
<1> QED
  BY <1>1, <1>2, <1>5, <1>6

(* One for each message, if no two units share one.                        *)
SeqsUpto(s, k) == UNION {SeqsOf(s[i]) : i \in 1 .. k}

CountedMessages(s, k, n) == n = Cardinality(SeqsUpto(s, k)) /\ IsFiniteSet(SeqsUpto(s, k))

AllMessages == INSTANCE FoldTheorems WITH Op <- AddMessages, Inv <- CountedMessages

LEMMA MessagesCounted ==
    ASSUME NEW s, IsList(s), Apart(s), \A u \in ToSet(s) : IsFiniteSet(SeqsOf(u))
    PROVE  MessagesIn(s) = Cardinality(UNION {SeqsOf(u) : u \in ToSet(s)})
<1> DEFINE n == Len(s)
<1>0. n \in Nat /\ DOMAIN s = 1 .. n
  BY ListIs
<1>1. MessagesIn(s) = AllMessages!Fold(s, 0, s)
  BY DEF MessagesIn, AddMessages, FoldLeft, MapThenFoldSet, Max,
         AllMessages!Fold, AllMessages!Greatest
<1> HIDE DEF n
<1>2. CountedMessages(s, 0, 0)
  <2>1. SeqsUpto(s, 0) = {}
    BY DEF SeqsUpto
  <2> QED
    BY <2>1, FS_EmptySet DEF CountedMessages
<1>3. ASSUME NEW k \in 1 .. n, NEW a, CountedMessages(s, k - 1, a) PROVE CountedMessages(s, k, AddMessages(s, a, s[k]))
  <2> DEFINE S == SeqsUpto(s, k - 1)
             T == SeqsOf(s[k])
  <2>1. 1 .. k = (1 .. (k - 1)) \cup {k} /\ (\A i \in 1 .. (k - 1) : i # k /\ i \in 1 .. n)
    BY <1>0
  <2>2. SeqsUpto(s, k) = S \cup T
    BY <2>1 DEF SeqsUpto
  <2>3. S \cap T = {}
    <3>1. \A i \in 1 .. (k - 1) : SeqsOf(s[i]) \cap T = {}
      BY <2>1 DEF Apart, n
    <3> QED
      BY <3>1 DEF SeqsUpto
  <2>4. IsFiniteSet(T)
    BY ListIs DEF n
  <2> HIDE DEF S, T
  <2>5. a = Cardinality(S) /\ IsFiniteSet(S)
    BY <1>3 DEF CountedMessages, S
  <2>6. IsFiniteSet(S \cup T) /\ Cardinality(S \cup T) = Cardinality(S) + Cardinality(T) - Cardinality(S \cap T)
    BY <2>4, <2>5, FS_Union
  <2>7. Cardinality(S \cap T) = 0 /\ Cardinality(S) \in Nat /\ Cardinality(T) \in Nat
    BY <2>3, <2>4, <2>5, FS_EmptySet, FS_CardinalityType
  <2>8. Cardinality(S \cup T) = a + Cardinality(T)
    BY <2>5, <2>6, <2>7
  <2> QED
    BY <2>2, <2>6, <2>8 DEF CountedMessages, AddMessages, T
<1>4. CountedMessages(s, n, AllMessages!Fold(s, 0, s))
  <2>1. \A k \in 1 .. n : \A a : CountedMessages(s, k - 1, a) => CountedMessages(s, k, AddMessages(s, a, s[k]))
    BY <1>3
  <2> QED
    BY <1>0, <1>2, <2>1, LeastNatural, AllMessages!FoldKeeps
<1>5. SeqsUpto(s, n) = UNION {SeqsOf(u) : u \in ToSet(s)}
  <2>1. ASSUME NEW q \in SeqsUpto(s, n) PROVE q \in UNION {SeqsOf(u) : u \in ToSet(s)}
    <3>1. PICK i \in 1 .. n : q \in SeqsOf(s[i])
      BY DEF SeqsUpto
    <3> QED
      BY <3>1, ListIs DEF n
  <2>2. ASSUME NEW q \in UNION {SeqsOf(u) : u \in ToSet(s)} PROVE q \in SeqsUpto(s, n)
    <3>1. PICK u \in ToSet(s) : q \in SeqsOf(u)
      OBVIOUS
    <3>2. PICK i \in 1 .. n : u = s[i]
      BY ListIs DEF n
    <3> QED
      BY <3>1, <3>2 DEF SeqsUpto
  <2> QED
    BY <2>1, <2>2
<1> QED
  BY <1>1, <1>4, <1>5 DEF CountedMessages

-----------------------------------------------------------------------------
(* What a summary is compressed to fits.                                   *)

SoundNode(n) == n.tokens \in Nat /\ IsList(n.facts)

LEMMA LongestIs ==
    ASSUME NEW room \in Int, Longest(room) # 0
    PROVE  FactTokens[Longest(room)] \in Nat /\ FactTokens[Longest(room)] <= room
<1> DEFINE I == {i \in 1 .. Len(FactTokens) : FactTokens[i] <= room}
<1>1. Longest(room) = IF I # {} THEN Min(I) ELSE 0
  BY DEF Longest, SelectInSeq
<1>2. I # {} /\ Longest(room) = Min(I)
  BY <1>1
<1>3. FactTokens \in Seq(Nat) /\ Len(FactTokens) \in Nat
  BY PackingAssumption
<1>4. \E n \in I : \A m \in I : n <= m
  <2>1. I \in SUBSET Nat
    BY <1>3
  <2> HIDE DEF I
  <2> QED
    BY <1>2, <2>1, LeastNatural
<1>5. Min(I) \in I
  BY <1>4 DEF Min
<1> QED
  BY <1>2, <1>3, <1>5

AddFact(c, acc, i) ==
    IF i \in acc.facts \/ i \notin c[1] \/ Longest(c[2] - acc.tokens) = 0 THEN acc
    ELSE [facts |-> acc.facts \cup {i}, tokens |-> acc.tokens + FactTokens[Longest(c[2] - acc.tokens)]]

FactsFit(c, k, acc) == acc.tokens \in Int /\ acc.tokens <= c[2]

Facts == INSTANCE FoldTheorems WITH Op <- AddFact, Inv <- FactsFit

LEMMA WithFactsFit ==
    ASSUME NEW max \in Int, NEW start, start.tokens \in Int, start.tokens <= max,
           NEW support, IsList(support), NEW known
    PROVE  LET with == WithFacts(start, support, known, max) IN with.tokens \in Int /\ with.tokens <= max
<1> DEFINE c == <<known, max>>
           n == Len(support)
<1>0. c[2] = max /\ n \in Nat /\ DOMAIN support = 1 .. n
  BY ListIs
<1>1. WithFacts(start, support, known, max) = Facts!Fold(c, start, support)
  BY DEF WithFacts, AddFact, FoldLeft, MapThenFoldSet, Max,
         Facts!Fold, Facts!Greatest
<1> HIDE DEF c, n
<1>2. FactsFit(c, 0, start)
  BY <1>0 DEF FactsFit
<1>3. ASSUME NEW k \in 1 .. n, NEW acc, FactsFit(c, k - 1, acc) PROVE FactsFit(c, k, AddFact(c, acc, support[k]))
  <2>1. acc.tokens \in Int /\ acc.tokens <= max
    BY <1>0, <1>3 DEF FactsFit
  <2> DEFINE room == max - acc.tokens
  <2>2. CASE AddFact(c, acc, support[k]) = acc
    BY <1>3, <2>2 DEF FactsFit
  <2>3. CASE AddFact(c, acc, support[k]) # acc
    <3>1. /\ AddFact(c, acc, support[k]).tokens = acc.tokens + FactTokens[Longest(room)]
          /\ Longest(room) # 0
      BY <1>0, <2>3 DEF AddFact
    <3>2. room \in Int /\ FactTokens[Longest(room)] \in Nat /\ FactTokens[Longest(room)] <= room
      BY <2>1, <3>1, LongestIs
    <3>3. acc.tokens + FactTokens[Longest(room)] \in Int /\ acc.tokens + FactTokens[Longest(room)] <= max
      BY <2>1, <3>2
    <3> QED
      BY <1>0, <3>1, <3>3 DEF FactsFit
  <2> QED
    BY <2>2, <2>3
<1>4. FactsFit(c, n, Facts!Fold(c, start, support))
  <2>1. \A k \in 1 .. n : \A acc : FactsFit(c, k - 1, acc) => FactsFit(c, k, AddFact(c, acc, support[k]))
    BY <1>3
  <2> QED
    BY <1>0, <1>2, <2>1, LeastNatural, Facts!FoldKeeps
<1> QED
  BY <1>0, <1>1, <1>4 DEF FactsFit

LEMMA FactsWithinFit ==
    ASSUME NEW ranked, IsList(ranked), NEW max \in Int, Longest(max) # 0
    PROVE  FactsWithin(ranked, max) \in Int /\ FactsWithin(ranked, max) <= max
<1> DEFINE best == ranked[1].index
           variant == FactTokens[Longest(max)]
           start == variant + (IF HeaderTokens + variant <= max THEN HeaderTokens ELSE 0)
           rest == [i \in DOMAIN ranked |-> ranked[i].index]
           support == <<best - 1, best + 1>> \o rest
           first == [facts |-> {best}, tokens |-> start]
<1>1. FactsWithin(ranked, max) = WithFacts(first, support, DOMAIN ranked, max).tokens
  BY DEF FactsWithin
<1>2. IsList(support)
  <2>1. IsList(<<best - 1, best + 1>>)
    <3> DEFINE two == <<best - 1, best + 1>>
    <3>1. two = [i \in 1 .. 2 |-> two[i]] /\ 2 \in Nat
      OBVIOUS
    <3> HIDE DEF two
    <3>2. IsList(two)
      BY ONLY <3>1, ListFun
    <3> QED
      BY <3>2 DEF two
  <2>2. IsList(rest)
    <3>1. Len(ranked) \in Nat /\ DOMAIN ranked = 1 .. Len(ranked)
      BY ListIs
    <3>2. rest = [i \in 1 .. Len(ranked) |-> rest[i]]
      BY <3>1
    <3> HIDE DEF rest
    <3> QED
      BY ONLY <3>1, <3>2, ListFun
  <2> HIDE DEF rest
  <2> QED
    BY <2>1, <2>2, ConcatList
<1>3. first.tokens \in Int /\ first.tokens <= max
  <2>1. variant \in Nat /\ variant <= max
    BY LongestIs
  <2> HIDE DEF variant
  <2>2. start \in Int /\ start <= max
    BY <2>1, PackingAssumption
  <2> QED
    BY <2>2
<1> HIDE DEF support, first
<1> QED
  BY <1>1, <1>2, <1>3, WithFactsFit

LEMMA RankedFactsAre ==
    ASSUME NEW query, NEW facts, IsList(facts)
    PROVE  IsList(RankedFacts(query, facts))
<1> DEFINE s == [i \in DOMAIN facts |-> FactEvidence(query, facts, i)]
           list == SubSeq(s, 1, Len(s))
           before == {p \in (1 .. Len(list)) \X (1 .. Len(list)) :
                          Precedes(<<-list[p[1]].evidence, -list[p[1]].cues, -list[p[1]].relevance, list[p[1]].index>>,
                                   <<-list[p[2]].evidence, -list[p[2]].cues, -list[p[2]].relevance, list[p[2]].index>>)}
<1>1. IsList(s)
  <2>1. Len(facts) \in Nat /\ DOMAIN facts = 1 .. Len(facts)
    BY ListIs
  <2>2. s = [i \in 1 .. Len(facts) |-> s[i]]
    BY <2>1
  <2> HIDE DEF s
  <2> QED
    BY <2>1, <2>2, ListFun
<1>2. RankedFacts(query, facts) = Rearranged(list, before)
  BY DEF RankedFacts, StableSort
<1> HIDE DEF s, before
<1>3. list = s
  BY <1>1, RearrangedAre
<1> HIDE DEF list
<1>4. IsList(Rearranged(s, before))
  BY <1>1, RearrangedAre
<1> QED
  BY <1>2, <1>3, <1>4

LEMMA CompressedToFits ==
    ASSUME NEW max \in Int, NEW node, SoundNode(node), NEW ranked, IsList(ranked), NEW force \in BOOLEAN
    PROVE  /\ CompressedTo(max, node, ranked, force).tokens \in Int
           /\ CompressedTo(max, node, ranked, force).tokens > 0 => CompressedTo(max, node, ranked, force).tokens <= max
<1> DEFINE m == CompressedTo(max, node, ranked, force)
<1>1. NoSummary.tokens = 0 /\ \A n : WithTokens(n, ranked).tokens = n
  BY DEF NoSummary, WithTokens
<1>2. node.tokens \in Int /\ HeaderTokens \in Int
  BY PackingAssumption DEF SoundNode
<1>3. \/ m = NoSummary
      \/ m = WithTokens(node.tokens, ranked) /\ node.tokens <= max
      \/ m = [NoSummary EXCEPT !.tokens = IF HeaderTokens <= max THEN HeaderTokens ELSE max]
      \/ m = WithTokens(FactsWithin(ranked, max), ranked) /\ Longest(max) # 0
  BY DEF CompressedTo
<1> HIDE DEF m
<1>4. CASE m = NoSummary
  BY <1>1, <1>4 DEF m
<1>5. CASE m = WithTokens(node.tokens, ranked) /\ node.tokens <= max
  BY <1>1, <1>2, <1>5 DEF m
<1>6. CASE m = [NoSummary EXCEPT !.tokens = IF HeaderTokens <= max THEN HeaderTokens ELSE max]
  <2>1. m.tokens = IF HeaderTokens <= max THEN HeaderTokens ELSE max
    BY <1>6 DEF NoSummary
  <2> QED
    BY <1>2, <2>1 DEF m
<1>7. CASE m = WithTokens(FactsWithin(ranked, max), ranked) /\ Longest(max) # 0
  <2>1. FactsWithin(ranked, max) \in Int /\ FactsWithin(ranked, max) <= max
    BY <1>7, FactsWithinFit
  <2> QED
    BY <1>1, <1>7, <2>1 DEF m
<1> QED
  BY <1>3, <1>4, <1>5, <1>6, <1>7

LEMMA CompressFits ==
    ASSUME NEW query, NEW node, SoundNode(node), NEW max \in Int, NEW force \in BOOLEAN
    PROVE  /\ Compress(query, node, max, force).tokens \in Int
           /\ Compress(query, node, max, force).tokens > 0 => Compress(query, node, max, force).tokens <= max
<1>1. IsList(RankedFacts(query, node.facts))
  BY RankedFactsAre DEF SoundNode
<1> QED
  BY <1>1, CompressedToFits DEF Compress

-----------------------------------------------------------------------------
(* Packing                                                                 *)

Sound(u, N) ==
    /\ u.kind \in {"message", "summary", "raw", "bridge"} /\ u.tokens \in Int /\ IsFiniteSet(SeqsOf(u))
    /\ u.kind = "raw" => SeqsOf(u) # {}
    /\ u.kind \in {"summary", "bridge"} => u.node \in N
    /\ u.kind = "bridge" => {"kind", "tokens", "node"} \subseteq DOMAIN u

IsBase(s, N) ==
    /\ IsList(s) /\ Apart(s)
    /\ \A x \in ToSet(s) : Sound(x, N) /\ x.kind \in {"message", "summary"} /\ x.tokens \in Nat

IsRetrieval(s, N, base) ==
    /\ IsList(s) /\ Apart(s)
    /\ \A u \in ToSet(s) : Sound(u, N) /\ u.kind \in {"raw", "bridge"}
    /\ \A u \in ToSet(s) : \A x \in ToSet(base) : SeqsOf(u) \cap SeqsOf(x) = {}

(* What is packed is accounted for, and has what is pinned.                *)
IsPacked(p, N, pins, available) ==
    /\ p = [kept |-> p.kept, used |-> p.used, recompressed |-> p.recompressed]
    /\ IsList(p.kept) /\ Apart(p.kept) /\ (\A u \in ToSet(p.kept) : Sound(u, N))
    /\ p.recompressed \in BOOLEAN
    /\ p.used = TokenSum(p.kept) /\ (p.used <= available \/ p.recompressed)
    /\ pins \subseteq ToSet(p.kept) /\ \A x \in pins : x.kind # "raw"

LEMMA PinnedAre ==
    ASSUME NEW s, IsList(s)
    PROVE  /\ IsList(Pinned(s)) /\ ToSet(Pinned(s)) = {x \in ToSet(s) : x.pinned} /\ Drawn(s, Pinned(s))
           /\ Pinned(s) = Those(s, {x \in ToSet(s) : x.pinned})
BY ThoseAre DEF Pinned, Where

LEMMA UnpinnedAre ==
    ASSUME NEW s, IsList(s), NEW kind
    PROVE  /\ IsList(Reverse(Unpinned(s, kind))) /\ IsList(Unpinned(s, kind))
           /\ ToSet(Unpinned(s, kind)) = {x \in ToSet(s) : ~ x.pinned /\ x.kind = kind}
           /\ ToSet(Reverse(Unpinned(s, kind))) = {x \in ToSet(s) : ~ x.pinned /\ x.kind = kind}
           /\ Drawn(s, Unpinned(s, kind)) /\ Drawn(s, Reverse(Unpinned(s, kind)))
<1> DEFINE T == {x \in ToSet(s) : ~ x.pinned /\ x.kind = kind}
           u == Unpinned(s, kind)
<1>1. u = Those(s, T)
  BY DEF Unpinned, Where
<1>2. ToSet(s) \cap T = T
  OBVIOUS
<1> HIDE DEF u
<1>3. IsList(u) /\ ToSet(u) = T /\ Drawn(s, u)
  BY <1>1, <1>2, ThoseAre
<1>4. IsList(Reverse(u)) /\ ToSet(Reverse(u)) = T
  BY <1>3, ReverseList
<1>5. Drawn(u, Reverse(u))
  <2> DEFINE f == [i \in 1 .. Len(Reverse(u)) |-> Len(u) - i + 1]
  <2>1. /\ Len(u) \in Nat /\ Len(Reverse(u)) = Len(u)
        /\ \A i \in 1 .. Len(u) : Len(u) - i + 1 \in 1 .. Len(u) /\ Reverse(u)[i] = u[Len(u) - i + 1]
    BY <1>3, ListIs, ReverseList
  <2>2. f \in [1 .. Len(Reverse(u)) -> 1 .. Len(u)] /\ \A i \in 1 .. Len(u) : f[i] = Len(u) - i + 1
    BY <2>1
  <2> HIDE DEF f
  <2>3. \A i, j \in 1 .. Len(Reverse(u)) : f[i] = f[j] => i = j
    BY <2>1, <2>2
  <2> QED
    BY <2>1, <2>2, <2>3 DEF Drawn
<1>6. Drawn(s, Reverse(u))
  BY <1>3, <1>5, DrawnTwice
<1> QED
  BY <1>3, <1>4, <1>6 DEF u

TakeUnit(c, acc, u) ==
    IF \/ u.kind \in {"raw", "bridge"} /\ Len(KeptForHint(acc.kept, u)) >= u.limit
       \/ acc.used + u.tokens > c[1]
    THEN acc
    ELSE [acc EXCEPT !.kept = Append(@, u), !.used = @ + u.tokens]

TakenUpto(c, k, acc) ==
    /\ IsPacked(acc, c[2], c[3], c[1]) /\ ~ acc.recompressed
    /\ \A u \in ToSet(acc.kept) : \A j \in (k + 1) .. Len(c[4]) : SeqsOf(u) \cap SeqsOf(c[4][j]) = {}

Takes == INSTANCE FoldTheorems WITH Op <- TakeUnit, Inv <- TakenUpto

LEMMA PackedUnits ==
    ASSUME NEW N, NEW pinned, IsList(pinned), Apart(pinned),
           \A x \in ToSet(pinned) : Sound(x, N) /\ x.kind # "raw",
           NEW ranked, IsList(ranked), Apart(ranked), \A u \in ToSet(ranked) : Sound(u, N),
           \A x \in ToSet(pinned) : \A u \in ToSet(ranked) : SeqsOf(x) \cap SeqsOf(u) = {},
           NEW available \in Int, TokenSum(pinned) <= available
    PROVE  IsPacked(FillUp([kept |-> pinned, used |-> TokenSum(pinned), recompressed |-> FALSE], ranked, available),
                    N, ToSet(pinned), available)
<1> DEFINE c == <<available, N, ToSet(pinned), ranked>>
           start == [kept |-> pinned, used |-> TokenSum(pinned), recompressed |-> FALSE]
           n == Len(ranked)
<1>0. /\ n \in Nat /\ DOMAIN ranked = 1 .. n /\ \A j \in 1 .. n : ranked[j] \in ToSet(ranked)
      /\ c[1] = available /\ c[2] = N /\ c[3] = ToSet(pinned) /\ c[4] = ranked
  BY ListIs
<1>01. FillUp(start, ranked, available) = Takes!Fold(c, start, ranked)
  <2> HIDE DEF start
  <2> QED
    BY DEF FillUp, TakeUnit, FoldLeft, MapThenFoldSet, Max,
           Takes!Fold, Takes!Greatest
<1> HIDE DEF c, n
<1>1. TakenUpto(c, 0, start)
  <2>1. IsPacked(start, N, ToSet(pinned), available)
    BY DEF IsPacked
  <2>2. \A u \in ToSet(pinned) : \A j \in (0 + 1) .. n : SeqsOf(u) \cap SeqsOf(ranked[j]) = {}
    BY <1>0
  <2> QED
    BY <1>0, <2>1, <2>2 DEF TakenUpto, n
<1>2. ASSUME NEW k \in 1 .. n, NEW acc, TakenUpto(c, k - 1, acc) PROVE TakenUpto(c, k, TakeUnit(c, acc, ranked[k]))
  <2> DEFINE u == ranked[k]
             kept == acc.kept
  <2>1. /\ IsPacked(acc, N, ToSet(pinned), available) /\ ~ acc.recompressed
        /\ \A x \in ToSet(kept) : \A j \in ((k - 1) + 1) .. n : SeqsOf(x) \cap SeqsOf(ranked[j]) = {}
    BY <1>0, <1>2 DEF TakenUpto, n
  <2>2. /\ (k - 1) + 1 = k /\ k \in k .. n
        /\ \A j \in (k + 1) .. n : j \in k .. n /\ j \in 1 .. n /\ k # j
    BY <1>0
  <2>3. \A x \in ToSet(kept) : \A j \in k .. n : SeqsOf(x) \cap SeqsOf(ranked[j]) = {}
    BY <2>1, <2>2
  <2>4. CASE TakeUnit(c, acc, u) = acc
    <3>1. \A x \in ToSet(kept) : \A j \in (k + 1) .. n : SeqsOf(x) \cap SeqsOf(ranked[j]) = {}
      BY <2>2, <2>3
    <3> QED
      BY <1>0, <2>1, <2>4, <3>1 DEF TakenUpto, n
  <2>5. CASE TakeUnit(c, acc, u) # acc
    <3> DEFINE new == Append(kept, u)
    <3>1. /\ TakeUnit(c, acc, u) = [acc EXCEPT !.kept = Append(@, u), !.used = @ + u.tokens]
          /\ ~ (acc.used + u.tokens > available)
      BY <1>0, <2>5 DEF TakeUnit
    <3>2. acc = [kept |-> acc.kept, used |-> acc.used, recompressed |-> acc.recompressed]
      BY <2>1 DEF IsPacked
    <3>3. TakeUnit(c, acc, u) = [kept |-> new, used |-> acc.used + u.tokens, recompressed |-> acc.recompressed]
      BY <3>1, <3>2
    <3>4. /\ IsList(kept) /\ Apart(kept) /\ (\A x \in ToSet(kept) : Sound(x, N))
          /\ acc.used = TokenSum(kept) /\ ToSet(pinned) \subseteq ToSet(kept)
          /\ acc.recompressed = FALSE
      BY <2>1 DEF IsPacked
    <3>5. Sound(u, N) /\ u.tokens \in Int
      BY <1>0 DEF Sound
    <3>6. IsList(new) /\ ToSet(new) = ToSet(kept) \cup {u} /\ TokenSum(new) = TokenSum(kept) + u.tokens
      BY <3>4, AppendList, TokenSumAppend
    <3>7. \A x \in ToSet(kept) : SeqsOf(x) \cap SeqsOf(u) = {}
      BY <2>2, <2>3
    <3>8. Apart(new)
      BY <3>4, <3>7, ApartAppend
    <3>9. TokenSum(kept) \in Int
      BY <3>4, TokenSumType DEF Sound
    <3>10. acc.used + u.tokens <= available
      BY <3>1, <3>4, <3>5, <3>9
    <3>11. \A x \in ToSet(new) : Sound(x, N)
      BY <3>4, <3>5, <3>6
    <3>12. \A x \in ToSet(new) : \A j \in (k + 1) .. n : SeqsOf(x) \cap SeqsOf(ranked[j]) = {}
      <4>1. \A j \in (k + 1) .. n : SeqsOf(u) \cap SeqsOf(ranked[j]) = {}
        BY <2>2 DEF Apart, n
      <4> QED
        BY <2>2, <2>3, <3>6, <4>1
    <3> DEFINE t == TakeUnit(c, acc, u)
    <3>13. t.kept = new /\ t.used = acc.used + u.tokens /\ t.recompressed = FALSE
           /\ t = [kept |-> t.kept, used |-> t.used, recompressed |-> t.recompressed]
      BY <3>3, <3>4
    <3> HIDE DEF t, new, kept
    <3>14. ToSet(pinned) \subseteq ToSet(new) /\ t.used = TokenSum(new)
      BY <3>4, <3>6, <3>13
    <3>15. IsPacked(t, N, ToSet(pinned), available)
      BY <3>6, <3>8, <3>10, <3>11, <3>13, <3>14 DEF IsPacked
    <3>16. TakenUpto(c, k, t)
      BY <1>0, <3>12, <3>13, <3>15 DEF TakenUpto, n
    <3> QED
      BY <3>16 DEF t
  <2> QED
    BY <2>4, <2>5
<1>3. TakenUpto(c, n, Takes!Fold(c, start, ranked))
  <2>1. \A k \in 1 .. n : \A acc : TakenUpto(c, k - 1, acc) => TakenUpto(c, k, TakeUnit(c, acc, ranked[k]))
    BY <1>2
  <2> HIDE DEF start
  <2> QED
    BY <1>0, <1>1, <2>1, LeastNatural, Takes!FoldKeeps
<1>4. IsPacked(Takes!Fold(c, start, ranked), N, ToSet(pinned), available)
  BY <1>0, <1>3 DEF TakenUpto
<1> QED
  BY <1>01, <1>4

LEMMA NewestAre ==
    ASSUME NEW s, IsList(s), Apart(s)
    PROVE  /\ IsList(Newest(s)) /\ Apart(Newest(s))
           /\ ToSet(Newest(s)) = {x \in ToSet(s) : ~ x.pinned /\ x.kind \in {"message", "summary"}}
<1> DEFINE messages == Reverse(Unpinned(s, "message"))
           summaries == Reverse(Unpinned(s, "summary"))
<1>1. IsList(messages) /\ ToSet(messages) = {x \in ToSet(s) : ~ x.pinned /\ x.kind = "message"} /\ Apart(messages)
  BY UnpinnedAre, ApartDrawn
<1>2. IsList(summaries) /\ ToSet(summaries) = {x \in ToSet(s) : ~ x.pinned /\ x.kind = "summary"} /\ Apart(summaries)
  BY UnpinnedAre, ApartDrawn
<1>3. Newest(s) = messages \o summaries
  BY DEF Newest
<1> HIDE DEF messages, summaries
<1>4. \A x \in ToSet(messages) : \A y \in ToSet(summaries) : SeqsOf(x) \cap SeqsOf(y) = {}
  <2>1. ASSUME NEW x \in ToSet(messages), NEW y \in ToSet(summaries) PROVE SeqsOf(x) \cap SeqsOf(y) = {}
    <3>1. x \in ToSet(s) /\ y \in ToSet(s) /\ x.kind = "message" /\ y.kind = "summary"
      BY <1>1, <1>2
    <3>2. x # y
      BY <3>1
    <3> QED
      BY <3>1, <3>2, ApartElements
  <2> QED
    BY <2>1
<1>5. IsList(messages \o summaries) /\ Apart(messages \o summaries)
      /\ ToSet(messages \o summaries) = ToSet(messages) \cup ToSet(summaries)
  BY <1>1, <1>2, <1>4, ConcatList, ApartConcat
<1> QED
  BY <1>1, <1>2, <1>3, <1>5

LEMMA PackIs ==
    ASSUME NEW N, NEW base, IsBase(base, N), NEW retrieval, IsRetrieval(retrieval, N, base),
           NEW available \in Int, TokenSum(Pinned(base)) <= available
    PROVE  IsPacked(Pack(base, retrieval, available), N, ToSet(Pinned(base)), available)
<1> DEFINE list == SubSeq(retrieval, 1, Len(retrieval))
           before == {p \in (1 .. Len(list)) \X (1 .. Len(list)) : BeforeInPacking(list[p[1]], list[p[2]])}
           sorted == Rearranged(list, before)
           newest == Newest(base)
           ranked == sorted \o newest
           pinned == Pinned(base)
<1>1. Pack(base, retrieval, available)
        = FillUp([kept |-> pinned, used |-> TokenSum(pinned), recompressed |-> FALSE], ranked, available)
  BY DEF Pack, StableSort
<1>2. /\ IsList(base) /\ Apart(base)
      /\ \A x \in ToSet(base) : Sound(x, N) /\ x.kind \in {"message", "summary"}
      /\ IsList(retrieval) /\ Apart(retrieval)
      /\ \A u \in ToSet(retrieval) : Sound(u, N) /\ u.kind \in {"raw", "bridge"}
      /\ \A u \in ToSet(retrieval) : \A x \in ToSet(base) : SeqsOf(u) \cap SeqsOf(x) = {}
  BY DEF IsBase, IsRetrieval
<1> HIDE DEF before
<1>3. list = retrieval
  BY <1>2, RearrangedAre
<1> HIDE DEF list
<1>4. IsList(sorted) /\ ToSet(sorted) = ToSet(retrieval) /\ Apart(sorted)
  <2>1. IsList(sorted) /\ ToSet(sorted) = ToSet(retrieval) /\ Drawn(retrieval, sorted)
    BY <1>2, <1>3, RearrangedAre
  <2> QED
    BY <1>2, <2>1, ApartDrawn
<1> HIDE DEF sorted
<1>5. /\ IsList(pinned) /\ ToSet(pinned) = {x \in ToSet(base) : x.pinned} /\ Apart(pinned)
  BY <1>2, PinnedAre, ApartDrawn
<1>6. IsList(newest) /\ ToSet(newest) = {x \in ToSet(base) : ~ x.pinned /\ x.kind \in {"message", "summary"}} /\ Apart(newest)
  BY <1>2, NewestAre
<1> HIDE DEF newest, pinned
<1>9. IsList(ranked) /\ ToSet(ranked) = ToSet(sorted) \cup ToSet(newest) /\ Apart(ranked)
  <2>1. \A u \in ToSet(sorted) : \A x \in ToSet(newest) : SeqsOf(u) \cap SeqsOf(x) = {}
    BY <1>2, <1>4, <1>6
  <2> QED
    BY <1>4, <1>6, <2>1, ConcatList, ApartConcat
<1> HIDE DEF ranked
<1>10. \A u \in ToSet(ranked) : Sound(u, N)
  BY <1>2, <1>4, <1>6, <1>9
<1>11. ASSUME NEW x \in ToSet(pinned), NEW u \in ToSet(ranked) PROVE SeqsOf(x) \cap SeqsOf(u) = {}
  <2>1. x \in ToSet(base) /\ x.pinned
    BY <1>5
  <2>2. CASE u \in ToSet(retrieval)
    BY <1>2, <2>1, <2>2
  <2>3. CASE u \notin ToSet(retrieval)
    <3>1. u \in ToSet(base) /\ ~ u.pinned
      BY <1>4, <1>6, <1>9, <2>3
    <3>2. x # u
      BY <2>1, <3>1
    <3> QED
      BY <1>2, <2>1, <3>1, <3>2, ApartElements
  <2> QED
    BY <2>2, <2>3
<1>12. \A x \in ToSet(pinned) : Sound(x, N) /\ x.kind # "raw"
  BY <1>2, <1>5
<1>13. TokenSum(pinned) <= available
  BY DEF pinned
<1>14. IsPacked(FillUp([kept |-> pinned, used |-> TokenSum(pinned), recompressed |-> FALSE], ranked, available),
                N, ToSet(pinned), available)
  BY <1>5, <1>9, <1>10, <1>11, <1>12, <1>13, PackedUnits
<1> QED
  BY <1>1, <1>14 DEF pinned

LEMMA SwapIs ==
    ASSUME NEW N, NEW pins, NEW available \in Int, NEW p, IsPacked(p, N, pins, available),
           NEW raw \in ToSet(p.kept), raw.kind = "raw",
           NEW bridge, Sound(bridge, N), bridge.kind = "bridge", NEW again \in BOOLEAN,
           NEW t, t = [kept |-> [i \in DOMAIN p.kept |-> IF p.kept[i] = raw THEN bridge ELSE p.kept[i]],
                       used |-> p.used - raw.tokens + bridge.tokens, recompressed |-> p.recompressed \/ again],
           p.used - raw.tokens + bridge.tokens <= available \/ t.recompressed
    PROVE  IsPacked(t, N, pins, available)
<1> DEFINE kept == p.kept
           new == [i \in DOMAIN kept |-> IF kept[i] = raw THEN bridge ELSE kept[i]]
           n == Len(kept)
<1>1. /\ IsList(kept) /\ Apart(kept) /\ (\A u \in ToSet(kept) : Sound(u, N)) /\ p.recompressed \in BOOLEAN
      /\ p.used = TokenSum(kept) /\ pins \subseteq ToSet(kept) /\ (\A x \in pins : x.kind # "raw")
  BY DEF IsPacked
<1>2. n \in Nat /\ DOMAIN kept = 1 .. n /\ \A i \in 1 .. n : kept[i] \in ToSet(kept)
  BY <1>1, ListIs
<1>3. IsList(new) /\ Len(new) = n /\ \A i \in 1 .. n : new[i] = IF kept[i] = raw THEN bridge ELSE kept[i]
  <2>1. new = [i \in 1 .. n |-> new[i]] /\ \A i \in 1 .. n : new[i] = IF kept[i] = raw THEN bridge ELSE kept[i]
    BY <1>2
  <2> HIDE DEF new, n
  <2>2. IsList(new) /\ Len(new) = n
    BY ONLY <1>2, <2>1, ListFun
  <2> QED
    BY <2>1, <2>2
<1>4. t.kept = new /\ t.used = p.used - raw.tokens + bridge.tokens /\ t.recompressed \in BOOLEAN
      /\ (p.recompressed => t.recompressed)
      /\ t = [kept |-> t.kept, used |-> t.used, recompressed |-> t.recompressed]
  BY <1>1
<1> HIDE DEF new, n, kept
<1>5. PICK at \in 1 .. n : kept[at] = raw
  BY <1>1, ListIs DEF n, kept
<1>6. \A i \in 1 .. n : i # at => kept[i] # raw
  <2>1. SeqsOf(raw) # {}
    BY <1>1 DEF Sound, kept
  <2>2. ASSUME NEW i \in 1 .. n, i # at PROVE kept[i] # raw
    <3>1. SeqsOf(kept[i]) \cap SeqsOf(kept[at]) = {}
      BY <1>1, <2>2 DEF Apart, n
    <3> QED
      BY <1>5, <2>1, <3>1
  <2> QED
    BY <2>2
<1>7. new[at] = bridge /\ \A i \in 1 .. n : i # at => new[i] = kept[i]
  BY <1>3, <1>5, <1>6
<1>8. SeqsOf(bridge) = {}
  BY DEF SeqsOf
<1>9. Apart(new)
  <2>1. ASSUME NEW i \in 1 .. n, NEW j \in 1 .. n, i # j PROVE SeqsOf(new[i]) \cap SeqsOf(new[j]) = {}
    <3>1. CASE i = at \/ j = at
      BY <1>7, <1>8, <3>1
    <3>2. CASE i # at /\ j # at
      BY <1>1, <1>7, <2>1, <3>2 DEF Apart, n
    <3> QED
      BY <3>1, <3>2
  <2> QED
    BY <1>3, <2>1 DEF Apart
<1>10. \A u \in ToSet(new) : Sound(u, N)
  <2>1. ASSUME NEW u \in ToSet(new) PROVE Sound(u, N)
    <3>1. PICK i \in 1 .. n : u = new[i]
      BY <1>3, ListIs
    <3> QED
      BY <1>1, <1>2, <1>7, <3>1
  <2> QED
    BY <2>1
<1>11. TokenSum(new) = TokenSum(kept) - raw.tokens + bridge.tokens
  <2>1. (\A u \in ToSet(kept) : u.tokens \in Int) /\ new[at].tokens \in Int
    BY <1>1, <1>7 DEF Sound
  <2>2. TokenSum(new) = TokenSum(kept) - kept[at].tokens + new[at].tokens
    BY <1>1, <1>3, <1>7, <2>1, TokenSumExchange DEF n
  <2> QED
    BY <1>5, <1>7, <2>2
<1>12. pins \subseteq ToSet(new)
  <2>1. ASSUME NEW x \in pins PROVE x \in ToSet(new)
    <3>1. PICK i \in 1 .. n : x = kept[i]
      BY <1>1, ListIs DEF n
    <3>2. i # at
      BY <1>1, <1>5, <3>1
    <3>3. new[i] = x /\ i \in 1 .. Len(new)
      BY <1>3, <1>7, <3>1, <3>2
    <3> QED
      BY <1>3, <3>3, ListIs
  <2> QED
    BY <2>1
<1>13. t.used <= available \/ t.recompressed
  BY <1>4
<1> QED
  BY <1>1, <1>3, <1>4, <1>9, <1>10, <1>11, <1>12, <1>13 DEF IsPacked

LEMMA PlaceBridgeKeeps ==
    ASSUME NEW N, \A n \in N : SoundNode(n), NEW pins, NEW available \in Int,
           NEW p, IsPacked(p, N, pins, available), NEW bridge, Sound(bridge, N), bridge.kind = "bridge"
    PROVE  IsPacked(PlaceBridge(p, bridge, available), N, pins, available)
<1> DEFINE ofHint == KeptForHint(p.kept, bridge)
           runs == Where(ofHint, LAMBDA u : u.kind = "raw")
           list == SubSeq(runs, 1, Len(runs))
           before == {q \in (1 .. Len(list)) \X (1 .. Len(list)) : Weaker(list[q[1]], list[q[2]])}
           raws == Rearranged(list, before)
           Fits(r) == p.used - r.tokens + bridge.tokens <= available
           victims == IF Len(raws) < bridge.limit THEN <<>>
                      ELSE Where(raws, LAMBDA r : CanReplace(bridge, r) /\ Fits(r))
           Smaller(r) == Compress(bridge.query, bridge.node, available - (p.used - r.tokens), FALSE)
           swaps == Where(raws, LAMBDA r : CanReplaceCompressed(bridge, r) /\ Smaller(r).tokens > 0)
           less == [bridge EXCEPT !.tokens = Smaller(Last(swaps)).tokens]
<1>1. PlaceBridge(p, bridge, available)
        = IF victims # <<>> THEN Swapped(p, victims[1], bridge)
          ELSE IF swaps = <<>> THEN p
          ELSE [Swapped(p, swaps[1], less) EXCEPT !.recompressed = @ \/ Len(swaps) > 1]
  BY DEF PlaceBridge, StableSort
<1>2. /\ IsList(p.kept) /\ (\A u \in ToSet(p.kept) : Sound(u, N)) /\ p.recompressed \in BOOLEAN
      /\ p.used = TokenSum(p.kept) /\ (p.used <= available \/ p.recompressed)
      /\ p = [kept |-> p.kept, used |-> p.used, recompressed |-> p.recompressed]
  BY DEF IsPacked
<1>3. p.used \in Int
  BY <1>2, TokenSumType DEF Sound
<1>4. IsList(raws) /\ \A u \in ToSet(raws) : u \in ToSet(p.kept) /\ u.kind = "raw" /\ u.tokens \in Int
  <2>1. IsList(ofHint) /\ ToSet(ofHint) \subseteq ToSet(p.kept)
    <3> DEFINE T == {u \in ToSet(p.kept) : u.kind \in {"raw", "bridge"} /\ u.hint = bridge.hint}
    <3>1. ofHint = Those(p.kept, T)
      BY DEF KeptForHint, Where
    <3> HIDE DEF ofHint, T
    <3> QED
      BY <1>2, <3>1, ThoseAre
  <2>2. IsList(runs) /\ ToSet(runs) \subseteq ToSet(p.kept) /\ \A u \in ToSet(runs) : u.kind = "raw"
    <3> DEFINE T == {u \in ToSet(ofHint) : u.kind = "raw"}
    <3>1. runs = Those(ofHint, T)
      BY DEF Where
    <3>2. \A u \in T : u.kind = "raw"
      OBVIOUS
    <3> HIDE DEF ofHint, runs, T
    <3>3. IsList(runs) /\ ToSet(runs) = ToSet(ofHint) \cap T
      BY <2>1, <3>1, ThoseAre
    <3> QED
      BY <2>1, <3>2, <3>3
  <2> HIDE DEF runs, before
  <2>3. list = runs
    BY <2>2, RearrangedAre
  <2> HIDE DEF list
  <2>4. IsList(raws) /\ ToSet(raws) = ToSet(runs)
    BY <2>2, <2>3, RearrangedAre
  <2> QED
    BY <1>2, <2>2, <2>4 DEF Sound
<1> HIDE DEF raws
<1>5. CASE victims # <<>>
  <2> DEFINE T == {r \in ToSet(raws) : CanReplace(bridge, r) /\ Fits(r)}
             r == victims[1]
  <2>1. victims = Those(raws, T)
    BY <1>5 DEF Where
  <2>2. T \subseteq ToSet(raws) /\ \A u \in T : Fits(u)
    OBVIOUS
  <2> HIDE DEF victims, T, Fits
  <2>3. IsList(victims) /\ ToSet(victims) = ToSet(raws) \cap T
    BY <1>4, <2>1, ThoseAre
  <2>4. r \in ToSet(victims)
    <3>1. Len(victims) \in Nat /\ Len(victims) # 0
      BY <1>5, <2>3, ListIs, NoList
    <3>2. 1 \in 1 .. Len(victims)
      BY <3>1
    <3> QED
      BY <2>3, <3>2, ListIs
  <2>5. r \in ToSet(p.kept) /\ r.kind = "raw" /\ p.used - r.tokens + bridge.tokens <= available
    BY <1>4, <2>2, <2>3, <2>4 DEF Fits
  <2> HIDE DEF r
  <2> DEFINE s == Swapped(p, r, bridge)
  <2>6. s = [kept |-> [i \in DOMAIN p.kept |-> IF p.kept[i] = r THEN bridge ELSE p.kept[i]],
             used |-> p.used - r.tokens + bridge.tokens, recompressed |-> p.recompressed \/ FALSE]
    <3>1. s = [p EXCEPT !.kept = [i \in DOMAIN p.kept |-> IF p.kept[i] = r THEN bridge ELSE p.kept[i]],
                        !.used = p.used - r.tokens + bridge.tokens]
      BY DEF Swapped
    <3> HIDE DEF s
    <3>2. (p.recompressed \/ FALSE) = p.recompressed
      BY <1>2
    <3> QED
      BY <1>2, <3>1, <3>2
  <2> HIDE DEF s
  <2>7. IsPacked(s, N, pins, available)
    BY <2>5, <2>6, SwapIs
  <2>8. PlaceBridge(p, bridge, available) = s
    BY <1>1, <1>5 DEF s, r
  <2> QED
    BY <2>7, <2>8
<1>6. CASE victims = <<>> /\ swaps = <<>>
  BY <1>1, <1>6
<1>7. CASE victims = <<>> /\ swaps # <<>>
  <2> DEFINE T == {r \in ToSet(raws) : CanReplaceCompressed(bridge, r) /\ Smaller(r).tokens > 0}
             r == swaps[1]
             last == Last(swaps)
             again == Len(swaps) > 1
  <2>1. swaps = Those(raws, T)
    BY DEF Where
  <2>2. T \subseteq ToSet(raws) /\ \A u \in T : Smaller(u).tokens > 0
    OBVIOUS
  <2>3. \A u \in ToSet(raws) : /\ Smaller(u).tokens \in Int
                               /\ Smaller(u).tokens > 0 => Smaller(u).tokens <= available - (p.used - u.tokens)
    <3>1. ASSUME NEW u \in ToSet(raws)
          PROVE  /\ Smaller(u).tokens \in Int
                 /\ Smaller(u).tokens > 0 => Smaller(u).tokens <= available - (p.used - u.tokens)
      <4>1. available - (p.used - u.tokens) \in Int
        BY <1>3, <1>4
      <4>2. SoundNode(bridge.node)
        BY DEF Sound
      <4> QED
        BY <4>1, <4>2, CompressFits
    <3> QED
      BY <3>1
  <2> HIDE DEF swaps, T, Smaller
  <2>4. IsList(swaps) /\ ToSet(swaps) = ToSet(raws) \cap T
    BY <1>4, <2>1, ThoseAre
  <2>5. Len(swaps) \in Nat /\ Len(swaps) # 0 /\ 1 \in 1 .. Len(swaps) /\ Len(swaps) \in 1 .. Len(swaps)
    <3>1. Len(swaps) \in Nat /\ Len(swaps) # 0
      BY <1>7, <2>4, ListIs, NoList
    <3> QED
      BY <3>1
  <2>6. r \in ToSet(swaps) /\ last \in ToSet(swaps) /\ last = swaps[Len(swaps)]
    BY <2>4, <2>5, ListIs DEF Last
  <2>7. r \in ToSet(p.kept) /\ r.kind = "raw" /\ r.tokens \in Int
    BY <1>4, <2>4, <2>6
  <2>8. Smaller(last).tokens \in Int /\ Smaller(last).tokens <= available - (p.used - last.tokens)
    BY <2>2, <2>3, <2>4, <2>6
  <2>9. less.tokens = Smaller(last).tokens /\ less.kind = "bridge" /\ Sound(less, N)
    <3>1. {"kind", "tokens", "node"} \subseteq DOMAIN bridge /\ bridge.node \in N
      BY DEF Sound
    <3>2. less = [bridge EXCEPT !.tokens = Smaller(last).tokens]
      OBVIOUS
    <3> HIDE DEF less
    <3>3. DOMAIN less = DOMAIN bridge /\ less.tokens = Smaller(last).tokens /\ less.kind = "bridge" /\ less.node = bridge.node
      BY <3>1, <3>2
    <3>4. SeqsOf(less) = {} /\ IsFiniteSet({})
      BY <3>3, FS_EmptySet DEF SeqsOf
    <3> QED
      BY <2>8, <3>1, <3>3, <3>4 DEF Sound
  <2>10. p.used - r.tokens + less.tokens <= available \/ again
    <3>1. CASE again
      BY <3>1
    <3>2. CASE ~ again
      <4>1. Len(swaps) = 1
        <5>1. PICK m \in Nat : m = Len(swaps)
          BY <2>5
        <5>2. m # 0 /\ ~ (m > 1)
          BY <2>5, <3>2, <5>1
        <5>3. m = 1
          BY ONLY <5>2, m \in Nat
        <5> QED
          BY <5>1, <5>3
      <4>2. last = r
        BY <2>6, <4>1
      <4>3. less.tokens \in Int /\ less.tokens <= available - (p.used - r.tokens)
        BY <2>8, <2>9, <4>2
      <4>4. r.tokens \in Int
        BY <2>7
      <4> HIDE DEF less, r, again
      <4>5. p.used - r.tokens + less.tokens <= available
        BY ONLY <1>3, <4>3, <4>4, available \in Int
      <4> QED
        BY <4>5
    <3> QED
      BY <3>1, <3>2
  <2> DEFINE s == [Swapped(p, r, less) EXCEPT !.recompressed = @ \/ again]
  <2>11. PlaceBridge(p, bridge, available) = s
    <3> HIDE DEF less
    <3> QED
      BY <1>1, <1>7
  <2> HIDE DEF less, r, again
  <2>12. s = [kept |-> [i \in DOMAIN p.kept |-> IF p.kept[i] = r THEN less ELSE p.kept[i]],
              used |-> p.used - r.tokens + less.tokens, recompressed |-> p.recompressed \/ again]
    <3> DEFINE w == Swapped(p, r, less)
               new == [i \in DOMAIN p.kept |-> IF p.kept[i] = r THEN less ELSE p.kept[i]]
               used == p.used - r.tokens + less.tokens
    <3>1. w = [p EXCEPT !.kept = new, !.used = used]
      BY DEF Swapped
    <3>2. s = [w EXCEPT !.recompressed = w.recompressed \/ again]
      OBVIOUS
    <3> HIDE DEF s, w, new, used
    <3>3. w = [kept |-> new, used |-> used, recompressed |-> p.recompressed]
      BY <1>2, <3>1
    <3>4. s = [kept |-> new, used |-> used, recompressed |-> p.recompressed \/ again]
      BY <3>2, <3>3
    <3> QED
      BY <3>4 DEF new, used
  <2> HIDE DEF s
  <2>13. s.recompressed = (p.recompressed \/ again) /\ again \in BOOLEAN
    BY <2>12 DEF again
  <2>14. p.used - r.tokens + less.tokens <= available \/ s.recompressed
    BY <2>10, <2>13
  <2>15. IsPacked(s, N, pins, available)
    BY <2>7, <2>9, <2>12, <2>13, <2>14, SwapIs
  <2> QED
    BY <2>11, <2>15
<1> QED
  BY <1>5, <1>6, <1>7

PlaceOne(c, acc, bridge) == PlaceBridge(acc, bridge, c[1])

PlacedBridges(c, k, acc) == IsPacked(acc, c[2], c[3], c[1])

Bridging == INSTANCE FoldTheorems WITH Op <- PlaceOne, Inv <- PlacedBridges

(* Filling the budget and displacing runs by bridges: what is packed is    *)
(* within the budget, shows no message twice and has all that is pinned,   *)
(* and "used" is the sum of its tokens, for every base and retrieval.      *)
THEOREM PackWithBridgesIs ==
    ASSUME NEW N, \A n \in N : SoundNode(n), NEW base, IsBase(base, N),
           NEW retrieval, IsRetrieval(retrieval, N, base),
           NEW available \in Int, TokenSum(Pinned(base)) <= available
    PROVE  IsPacked(PackWithBridges(base, retrieval, available), N, ToSet(Pinned(base)), available)
<1> DEFINE packed == Pack(base, retrieval, available)
           T == {u \in ToSet(retrieval) : u.kind = "bridge" /\ ~ Contains(packed.kept, u)}
           dropped == Those(retrieval, T)
           list == SubSeq(dropped, 1, Len(dropped))
           before == {q \in (1 .. Len(list)) \X (1 .. Len(list)) : BeforeInPacking(list[q[1]], list[q[2]])}
           bridges == Rearranged(list, before)
           c == <<available, N, ToSet(Pinned(base))>>
           n == Len(bridges)
<1>1. PackWithBridges(base, retrieval, available) = PlaceBridges(packed, bridges, available)
  BY DEF PackWithBridges, Where, StableSort
<1>2. \A u \in T : u.kind = "bridge"
  OBVIOUS
<1> HIDE DEF T, before
<1>3. IsList(dropped) /\ ToSet(dropped) = ToSet(retrieval) \cap T
  BY ThoseAre DEF IsRetrieval
<1> HIDE DEF dropped
<1>4. list = dropped
  BY <1>3, RearrangedAre
<1> HIDE DEF list
<1>5. IsList(bridges) /\ ToSet(bridges) = ToSet(dropped)
  BY <1>3, <1>4, RearrangedAre
<1>6. \A u \in ToSet(bridges) : Sound(u, N) /\ u.kind = "bridge"
  BY <1>2, <1>3, <1>5 DEF IsRetrieval
<1>7. IsPacked(packed, N, ToSet(Pinned(base)), available)
  BY PackIs
<1> HIDE DEF bridges, packed
<1>8. PlaceBridges(packed, bridges, available) = Bridging!Fold(c, packed, bridges)
  BY DEF PlaceBridges, PlaceOne, FoldLeft, MapThenFoldSet, Max,
         Bridging!Fold, Bridging!Greatest
<1>9. c[1] = available /\ c[2] = N /\ c[3] = ToSet(Pinned(base))
  OBVIOUS
<1>10. n \in Nat /\ DOMAIN bridges = 1 .. n /\ \A k \in 1 .. n : bridges[k] \in ToSet(bridges)
  BY <1>5, ListIs
<1> HIDE DEF c, n
<1>11. PlacedBridges(c, 0, packed)
  BY <1>7, <1>9 DEF PlacedBridges
<1>12. ASSUME NEW k \in 1 .. n, NEW acc, PlacedBridges(c, k - 1, acc)
       PROVE  PlacedBridges(c, k, PlaceOne(c, acc, bridges[k]))
  <2>1. IsPacked(acc, N, ToSet(Pinned(base)), available)
    BY <1>9, <1>12 DEF PlacedBridges
  <2>2. Sound(bridges[k], N) /\ bridges[k].kind = "bridge"
    BY <1>6, <1>10
  <2>3. IsPacked(PlaceBridge(acc, bridges[k], available), N, ToSet(Pinned(base)), available)
    BY <2>1, <2>2, PlaceBridgeKeeps
  <2> QED
    BY <1>9, <2>3 DEF PlacedBridges, PlaceOne
<1>13. PlacedBridges(c, n, Bridging!Fold(c, packed, bridges))
  <2>1. \A k \in 1 .. n : \A acc : PlacedBridges(c, k - 1, acc) => PlacedBridges(c, k, PlaceOne(c, acc, bridges[k]))
    BY <1>12
  <2> QED
    BY <1>10, <1>11, <2>1, LeastNatural, Bridging!FoldKeeps
<1> QED
  BY <1>1, <1>8, <1>9, <1>13 DEF PlacedBridges

-----------------------------------------------------------------------------
(* Trimming                                                                *)

TakeItem(c, acc, x) ==
    IF acc.used + x.tokens > c[1] THEN acc ELSE [used |-> acc.used + x.tokens, taken |-> acc.taken \cup {x}]

TakenItems(c, k, acc) == c[2] \subseteq acc.taken

TakeItems == INSTANCE FoldTheorems WITH Op <- TakeItem, Inv <- TakenItems

LEMMA TakeWithinKeeps ==
    ASSUME NEW start, NEW units, IsList(units), NEW budget
    PROVE  start.taken \subseteq TakeWithin(start, units, budget).taken
<1> DEFINE c == <<budget, start.taken>>
           n == Len(units)
<1>0. n \in Nat /\ DOMAIN units = 1 .. n /\ c[2] = start.taken
  BY ListIs
<1>1. TakeWithin(start, units, budget) = TakeItems!Fold(c, start, units)
  BY DEF TakeWithin, TakeItem, FoldLeft, MapThenFoldSet, Max,
         TakeItems!Fold, TakeItems!Greatest
<1> HIDE DEF c, n
<1>2. TakenItems(c, 0, start)
  BY <1>0 DEF TakenItems
<1>3. ASSUME NEW k \in 1 .. n, NEW acc, TakenItems(c, k - 1, acc) PROVE TakenItems(c, k, TakeItem(c, acc, units[k]))
  BY <1>3 DEF TakenItems, TakeItem
<1>4. TakenItems(c, n, TakeItems!Fold(c, start, units))
  <2>1. \A k \in 1 .. n : \A acc : TakenItems(c, k - 1, acc) => TakenItems(c, k, TakeItem(c, acc, units[k]))
    BY <1>3
  <2> QED
    BY <1>0, <1>2, <2>1, LeastNatural, TakeItems!FoldKeeps
<1> QED
  BY <1>0, <1>1, <1>4 DEF TakenItems

(* trimResolvedItemsToBudget keeps items of the context and all that are   *)
(* pinned, which fit, for every context and every budget.                  *)
THEOREM TrimToBudgetIs ==
    ASSUME NEW N, NEW items, IsBase(items, N), NEW budget \in Int,
           ~ (TokenSum(items) > budget /\ TokenSum(Pinned(items)) > budget)
    PROVE  LET base == TrimToBudget(items, budget)
           IN  /\ IsBase(base, N) /\ ToSet(base) \subseteq ToSet(items)
               /\ ToSet(Pinned(base)) = ToSet(Pinned(items))
               /\ TokenSum(Pinned(base)) <= budget
<1> DEFINE base == TrimToBudget(items, budget)
           P == {x \in ToSet(items) : x.pinned}
<1>1. IsList(items) /\ Apart(items) /\ \A x \in ToSet(items) : Sound(x, N) /\ x.kind \in {"message", "summary"} /\ x.tokens \in Nat
  BY DEF IsBase
<1>2. IsList(Pinned(items)) /\ ToSet(Pinned(items)) = P /\ Pinned(items) = Those(items, P)
  BY <1>1, PinnedAre
<1>3. TokenSum(items) \in Int /\ TokenSum(Pinned(items)) \in Int
  BY <1>1, <1>2, TokenSumType
<1>4. TokenSum(Pinned(items)) <= TokenSum(items)
  BY <1>1, <1>2, ThoseTokens
<1>5. TokenSum(Pinned(items)) <= budget
  BY <1>3, <1>4
<1>6. CASE TokenSum(items) <= budget
  <2>1. base = items
    BY <1>6 DEF TrimToBudget
  <2> QED
    BY <1>5, <2>1
<1>7. CASE ~ (TokenSum(items) <= budget)
  <2> DEFINE start == [used |-> TokenSum(Pinned(items)), taken |-> ToSet(Pinned(items))]
             T == TakeWithin(start, Newest(items), budget).taken
             U == {x \in ToSet(base) : x.pinned}
  <2>1. base = Those(items, T)
    BY <1>7 DEF TrimToBudget
  <2>2. P \subseteq T
    <3>1. IsList(Newest(items)) /\ start.taken = P
      BY <1>1, <1>2, NewestAre
    <3> HIDE DEF start
    <3> QED
      BY <3>1, TakeWithinKeeps
  <2> HIDE DEF base, T
  <2>3. IsList(base) /\ ToSet(base) = ToSet(items) \cap T /\ Apart(base)
    <3>1. IsList(base) /\ ToSet(base) = ToSet(items) \cap T /\ Drawn(items, base)
      BY <1>1, <2>1, ThoseAre
    <3> QED
      BY <1>1, <3>1, ApartDrawn
  <2>4. IsBase(base, N)
    BY <1>1, <2>3 DEF IsBase
  <2>5. \A x \in ToSet(items) : x \in P <=> x \in T /\ x \in U
    BY <2>2, <2>3
  <2>6. Pinned(base) = Those(base, U)
    BY <2>3, PinnedAre
  <2> HIDE DEF P, U
  <2>7. Pinned(base) = Pinned(items)
    BY <1>1, <1>2, <2>1, <2>5, <2>6, ThoseOfThose
  <2>8. ToSet(base) \subseteq ToSet(items)
    BY <2>3
  <2> QED
    BY <1>5, <2>4, <2>7, <2>8 DEF base
<1> QED
  BY <1>6, <1>7

-----------------------------------------------------------------------------
(* What budgets are offered to a bridge: numbers.                          *)

(* A finite set of numbers that is not empty has a greatest.               *)
Same(c, acc, x) == acc

HasGreatest(c, T, acc) == T # {} => \E x \in T : \A y \in T : y <= x

Greatests == INSTANCE FoldTheorems WITH Op <- Same, Inv <- HasGreatest

LEMMA GreatestOfFinite ==
    ASSUME NEW S, IsFiniteSet(S), \A x \in S : x \in Int, NEW default \in Int
    PROVE  /\ Maximum(S, default) \in Int /\ (S # {} => Maximum(S, default) \in S)
           /\ (S = {} => Maximum(S, default) = default) /\ \A y \in S : y <= Maximum(S, default)
<1>0. PICK size \in [SUBSET S -> Nat] : \A x \in SUBSET S : \A y \in x : size[x \ {y}] < size[x]
  BY Sizes
<1>1. HasGreatest(0, {}, 0)
  BY DEF HasGreatest
<1>2. ASSUME NEW T \in SUBSET S, NEW x \in S \ T, NEW a, HasGreatest(0, T, a)
      PROVE  HasGreatest(0, T \cup {x}, Same(0, a, x))
  <2>1. CASE T = {}
    <3>1. x \in Int /\ x <= x /\ T \cup {x} = {x}
      BY <2>1
    <3> QED
      BY <3>1 DEF HasGreatest
  <2>2. CASE T # {}
    <3>1. PICK z \in T : \A y \in T : y <= z
      BY <1>2, <2>2 DEF HasGreatest
    <3>2. z \in Int /\ x \in Int /\ (\A y \in T : y \in Int)
      OBVIOUS
    <3>3. CASE x <= z
      BY <3>1, <3>3 DEF HasGreatest
    <3>4. CASE ~ (x <= z)
      <4>1. z <= x /\ x <= x /\ \A y \in T : y <= x
        BY <3>1, <3>2, <3>4
      <4> QED
        BY <4>1 DEF HasGreatest
    <3> QED
      BY <3>3, <3>4
  <2> QED
    BY <2>1, <2>2
<1>3. \A T \in SUBSET S : \A x \in S \ T : \A a : HasGreatest(0, T, a) => HasGreatest(0, T \cup {x}, Same(0, a, x))
  BY <1>2
<1>4. HasGreatest(0, S, Greatests!SetFold(0, 0, S))
  BY ONLY <1>0, <1>1, <1>3, LeastNatural, Greatests!SetFoldKeeps
<1>5. S # {} => \E x \in S : \A y \in S : y <= x
  BY <1>4 DEF HasGreatest
<1>6. S # {} => Maximum(S, default) \in S /\ \A y \in S : y <= Maximum(S, default)
  BY <1>5 DEF Maximum
<1>7. S = {} => Maximum(S, default) = default
  BY DEF Maximum
<1> QED
  BY <1>6, <1>7

TakeSlack(c, acc, x) ==
    IF acc.units >= 2 \/ acc.slack + x.tokens > 128 THEN acc
    ELSE [slack |-> acc.slack + x.tokens, units |-> acc.units + 1]

SlackUpto(c, k, acc) == acc.slack \in Int

Slacks == INSTANCE FoldTheorems WITH Op <- TakeSlack, Inv <- SlackUpto

LEMMA SelectionBudgetType ==
    ASSUME NEW N, NEW base, IsBase(base, N), NEW reserve \in Int
    PROVE  SelectionBudget(base, reserve) \in Int
<1> DEFINE units == Newest(base)
           n == Len(units)
           start == [slack |-> 0, units |-> 0]
<1>1. IsList(units) /\ \A x \in ToSet(units) : x.tokens \in Int
  <2>1. ToSet(units) \subseteq ToSet(base) /\ IsList(units)
    BY NewestAre DEF IsBase
  <2> QED
    BY <2>1 DEF IsBase
<1>2. n \in Nat /\ DOMAIN units = 1 .. n /\ \A k \in 1 .. n : units[k].tokens \in Int
  BY <1>1, ListIs
<1> HIDE DEF units
<1>3. SlackOf(units) = Slacks!Fold(0, start, units).slack
  BY DEF SlackOf, TakeSlack, FoldLeft, MapThenFoldSet, Max,
         Slacks!Fold, Slacks!Greatest
<1> HIDE DEF n
<1>4. SlackUpto(0, 0, start)
  BY DEF SlackUpto
<1>5. ASSUME NEW k \in 1 .. n, NEW acc, SlackUpto(0, k - 1, acc) PROVE SlackUpto(0, k, TakeSlack(0, acc, units[k]))
  BY <1>2, <1>5 DEF SlackUpto, TakeSlack
<1>6. SlackUpto(0, n, Slacks!Fold(0, start, units))
  <2>1. \A k \in 1 .. n : \A acc : SlackUpto(0, k - 1, acc) => SlackUpto(0, k, TakeSlack(0, acc, units[k]))
    BY <1>5
  <2> HIDE DEF start
  <2> QED
    BY <1>2, <1>4, <2>1, LeastNatural, Slacks!FoldKeeps
<1>7. SlackOf(units) \in Int
  BY <1>3, <1>6 DEF SlackUpto
<1> QED
  BY <1>7 DEF SelectionBudget, units

LEMMA FitBudgetsType ==
    ASSUME NEW N, NEW base, IsBase(base, N), NEW available \in Int
    PROVE  IsFiniteSet(FitBudgets(base, available)) /\ \A b \in FitBudgets(base, available) : b \in Int
<1> DEFINE droppable == Unpinned(base, "summary") \o Unpinned(base, "message")
           L == Len(droppable)
           Free(n) == available - TokenSum(base) + TokenSum(SubSeq(droppable, 1, n))
           free == [n \in 0 .. L |-> Free(n)]
           all == {free[n] : n \in 0 .. L}
<1>1. FitBudgets(base, available) = {b \in {Free(n) : n \in 0 .. L} : b > 0}
  BY DEF FitBudgets
<1>2. all = {Free(n) : n \in 0 .. L}
  OBVIOUS
<1>3. IsList(base) /\ \A x \in ToSet(base) : x.tokens \in Int
  BY DEF IsBase
<1>4. IsList(droppable) /\ ToSet(droppable) \subseteq ToSet(base)
  <2> DEFINE s == Unpinned(base, "summary")
             m == Unpinned(base, "message")
  <2>1. IsList(s) /\ ToSet(s) \subseteq ToSet(base) /\ IsList(m) /\ ToSet(m) \subseteq ToSet(base)
    BY <1>3, UnpinnedAre
  <2> HIDE DEF s, m
  <2>2. IsList(s \o m) /\ ToSet(s \o m) = ToSet(s) \cup ToSet(m)
    BY <2>1, ConcatList
  <2> QED
    BY <2>1, <2>2 DEF s, m
<1> HIDE DEF droppable
<1>5. L \in Nat /\ \A i \in 1 .. L : droppable[i] \in ToSet(droppable)
  BY <1>4, ListIs
<1>6. TokenSum(base) \in Int
  BY <1>3, TokenSumType
<1> HIDE DEF L
<1>7. ASSUME NEW n \in 0 .. L PROVE Free(n) \in Int
  <2> DEFINE s == SubSeq(droppable, 1, n)
  <2>1. s \in Seq(ToSet(droppable))
    <3>1. 1 \in Int /\ n \in Int /\ \A i \in 1 .. n : droppable[i] \in ToSet(droppable)
      BY <1>5
    <3> QED
      BY <3>1, SubSeqProperties
  <2> HIDE DEF s
  <2>2. IsList(s) /\ \A x \in ToSet(s) : x.tokens \in Int
    BY <1>3, <1>4, <2>1, ListOf
  <2>3. TokenSum(s) \in Int
    BY <2>2, TokenSumType
  <2> QED
    BY <1>6, <2>3 DEF s
<1>8. IsFiniteSet(all) /\ \A b \in all : b \in Int
  <2>1. IsFiniteSet(0 .. L)
    BY <1>5, 0 \in Int, L \in Int, FS_Interval
  <2>2. DOMAIN free = 0 .. L /\ \A n \in 0 .. L : free[n] \in Int
    BY <1>7
  <2> HIDE DEF free
  <2> QED
    BY <2>1, <2>2, FiniteImage
<1>9. FitBudgets(base, available) \subseteq all
  BY <1>1, <1>2
<1> HIDE DEF all
<1> QED
  BY <1>8, <1>9, FS_Subset

LEMMA SelectedTokens ==
    ASSUME NEW fits, IsFiniteSet(fits), \A b \in fits : b \in Int, NEW most \in Int,
           NEW query, NEW node, SoundNode(node), NEW preferred \in Int
    PROVE  SelectedWithin(fits, most, query, node, preferred).tokens \in Int
<1> DEFINE AtMost(n) == IF n <= most THEN n ELSE most
           retrieval == WholeSummary(query, node)
           evidenceOnly == /\ node.facts # node.shown
                           /\ retrieval.evidence >= MinAnswerBearing /\ retrieval.cues > 0
                           /\ retrieval.evidence > WithTokens(0, RankedFacts(query, node.shown)).evidence
           slice == {m \in {Compress(query, node, AtMost(IF preferred >= 1 THEN preferred ELSE 1), TRUE)} :
                         evidenceOnly /\ m.tokens > 0}
           first == IF AtMost(preferred) > 0 THEN <<AtMost(preferred)>> ELSE <<>>
           less == {b \in fits : b < node.tokens}
           list == SubSeq(Listed(less), 1, Len(Listed(less)))
           before == {p \in (1 .. Len(list)) \X (1 .. Len(list)) : list[p[1]] > list[p[2]]}
           sorted == Rearranged(list, before)
           smaller == first \o sorted
           compressed == [i \in DOMAIN smaller |-> Compress(query, node, smaller[i], FALSE)]
           tried == Where(compressed, LAMBDA m : m.tokens > 0)
<1>1. SelectedWithin(fits, most, query, node, preferred)
        = IF slice # {} THEN CHOOSE m \in slice : TRUE
          ELSE IF node.tokens <= AtMost(preferred) THEN retrieval
          ELSE IF tried # <<>> THEN tried[1]
          ELSE IF node.tokens <= most THEN retrieval ELSE NoSummary
  BY DEF SelectedWithin, StableSort
<1>2. retrieval.tokens \in Int /\ NoSummary.tokens \in Int
  BY DEF WholeSummary, WithTokens, NoSummary, SoundNode
<1>3. AtMost(preferred) \in Int /\ AtMost(IF preferred >= 1 THEN preferred ELSE 1) \in Int
  OBVIOUS
<1>4. \A m \in slice : m.tokens \in Int
  <2>1. Compress(query, node, AtMost(IF preferred >= 1 THEN preferred ELSE 1), TRUE).tokens \in Int
    BY <1>3, CompressFits
  <2> QED
    BY <2>1
<1> HIDE DEF retrieval, slice
<1>5. IsList(first) /\ \A b \in ToSet(first) : b \in Int
  <2>1. IsList(<<>>) /\ ToSet(<<>>) = {}
    BY NoList
  <2>2. <<AtMost(preferred)>> \in Seq(Int)
    BY <1>3
  <2>3. IsList(<<AtMost(preferred)>>) /\ \A b \in ToSet(<<AtMost(preferred)>>) : b \in Int
    BY <2>2, ListOf
  <2> HIDE DEF AtMost
  <2> QED
    BY <2>1, <2>3
<1> HIDE DEF AtMost, first
<1>6. IsList(Listed(less)) /\ ToSet(Listed(less)) = less /\ \A b \in less : b \in Int
  <2>1. IsFiniteSet(less)
    BY FS_Subset
  <2> HIDE DEF less
  <2>2. IsList(Listed(less)) /\ ToSet(Listed(less)) = less
    BY <2>1, ListedAre
  <2> QED
    BY <2>2 DEF less
<1> HIDE DEF before, less
<1>7. list = Listed(less)
  BY <1>6, RearrangedAre
<1> HIDE DEF list
<1>8. IsList(sorted) /\ ToSet(sorted) = less
  BY <1>6, <1>7, RearrangedAre
<1> HIDE DEF sorted
<1>9. IsList(smaller) /\ \A b \in ToSet(smaller) : b \in Int
  BY <1>5, <1>6, <1>8, ConcatList
<1> HIDE DEF smaller
<1>10. IsList(compressed) /\ \A m \in ToSet(compressed) : m.tokens \in Int
  <2> DEFINE n == Len(smaller)
  <2>1. n \in Nat /\ DOMAIN smaller = 1 .. n /\ \A i \in 1 .. n : smaller[i] \in Int
    BY <1>9, ListIs
  <2>2. \A i \in 1 .. n : compressed[i].tokens \in Int
    <3>1. \A i \in 1 .. n : Compress(query, node, smaller[i], FALSE).tokens \in Int
      BY <2>1, CompressFits
    <3> QED
      BY <2>1, <3>1
  <2>3. compressed = [i \in 1 .. n |-> compressed[i]]
    BY <2>1
  <2> HIDE DEF compressed, n
  <2>4. IsList(compressed) /\ Len(compressed) = n
    BY ONLY <2>1, <2>3, ListFun
  <2> QED
    BY <2>2, <2>4, ListIs
<1> HIDE DEF compressed
<1>11. tried # <<>> => tried[1].tokens \in Int
  <2> DEFINE T == {m \in ToSet(compressed) : m.tokens > 0}
  <2>1. tried = Those(compressed, T)
    BY DEF Where
  <2> HIDE DEF tried, T
  <2>2. IsList(tried) /\ ToSet(tried) = ToSet(compressed) \cap T
    BY <1>10, <2>1, ThoseAre
  <2>3. ASSUME tried # <<>> PROVE tried[1] \in ToSet(tried)
    <3>1. Len(tried) \in Nat /\ Len(tried) # 0
      BY <2>2, <2>3, NoList, ListIs
    <3>2. 1 \in 1 .. Len(tried)
      BY <3>1
    <3> QED
      BY <2>2, <3>2, ListIs
  <2> QED
    BY <1>10, <2>2, <2>3
<1> HIDE DEF tried
<1>12. CASE slice # {}
  <2>1. (CHOOSE m \in slice : TRUE) \in slice
    BY <1>12
  <2> QED
    BY <1>1, <1>4, <1>12, <2>1
<1>13. CASE slice = {}
  BY <1>1, <1>2, <1>11, <1>13
<1> QED
  BY <1>12, <1>13

LEMMA MaterializeBridgeTokens ==
    ASSUME NEW N, NEW base, IsBase(base, N), NEW available \in Int, NEW query, NEW node, SoundNode(node),
           NEW preferred \in Int
    PROVE  MaterializeBridge(query, node, base, available, preferred).tokens \in Int
<1> DEFINE fits == FitBudgets(base, available)
           m == MaterializeBridge(query, node, base, available, preferred)
<1>1. IsFiniteSet(fits) /\ \A b \in fits : b \in Int
  BY FitBudgetsType
<1>2. m = IF fits = {} THEN NoSummary ELSE SelectedWithin(fits, Maximum(fits, 0), query, node, preferred)
  BY DEF MaterializeBridge
<1> HIDE DEF fits
<1>3. Maximum(fits, 0) \in Int
  BY <1>1, GreatestOfFinite
<1>4. SelectedWithin(fits, Maximum(fits, 0), query, node, preferred).tokens \in Int
  BY <1>1, <1>3, SelectedTokens
<1>5. NoSummary.tokens \in Int
  BY DEF NoSummary
<1> QED
  BY <1>2, <1>4, <1>5

-----------------------------------------------------------------------------
(* The bridge that is chosen is one of the candidates.                     *)

IsOffer(o, candidates) == o.candidate \in candidates /\ o.as.tokens \in Int

LEMMA FirstOfList ==
    ASSUME NEW s, IsList(s), s # <<>>
    PROVE  s[1] \in ToSet(s) /\ 1 \in 1 .. Len(s)
<1>1. Len(s) \in Nat /\ Len(s) # 0
  BY NoList, ListIs
<1>2. 1 \in 1 .. Len(s)
  BY <1>1
<1> QED
  BY <1>2, ListIs

LEMMA PrimaryIs ==
    ASSUME NEW viable, IsList(viable), viable # <<>>, NEW preferred
    PROVE  Primary(viable, preferred) \in ToSet(viable)
<1> DEFINE top == viable[1]
           T == {x \in ToSet(viable) : x.node.tokens <= preferred /\ x.score >= top.score - 10}
           cheap == Those(viable, T)
           list == SubSeq(cheap, 1, Len(cheap))
           before == {p \in (1 .. Len(list)) \X (1 .. Len(list)) :
                          Precedes(<<-list[p[1]].score, list[p[1]].node.tokens, -list[p[1]].node.created>>,
                                   <<-list[p[2]].score, list[p[2]].node.tokens, -list[p[2]].node.created>>)}
           fitting == Rearranged(list, before)
<1>1. Primary(viable, preferred) = IF top.node.tokens <= preferred \/ fitting = <<>> THEN top ELSE fitting[1]
  BY DEF Primary, StableSort, Where
<1> HIDE DEF before, T
<1>2. IsList(cheap) /\ ToSet(cheap) \subseteq ToSet(viable)
  BY ThoseAre
<1> HIDE DEF cheap
<1>3. list = cheap
  BY <1>2, RearrangedAre
<1> HIDE DEF list
<1>4. IsList(fitting) /\ ToSet(fitting) = ToSet(cheap)
  BY <1>2, <1>3, RearrangedAre
<1> HIDE DEF fitting
<1>5. fitting # <<>> => fitting[1] \in ToSet(viable)
  BY <1>2, <1>4, FirstOfList
<1>6. top \in ToSet(viable)
  BY FirstOfList
<1> HIDE DEF top
<1> QED
  BY <1>1, <1>5, <1>6

LEMMA FirstOfferIs ==
    ASSUME NEW C, NEW primary, IsOffer(primary, C), NEW offers, IsList(offers),
           \A o \in ToSet(offers) : IsOffer(o, C), NEW best
    PROVE  FirstOffer(primary, offers, best) # <<>> => IsOffer(FirstOffer(primary, offers, best)[1], C)
<1> DEFINE T == {o \in ToSet(offers) : o.candidate.score >= best - 30 /\ AnswerBearing(o.as)}
           strong == Those(offers, T)
           list == SubSeq(strong, 1, Len(strong))
           before == {p \in (1 .. Len(list)) \X (1 .. Len(list)) :
                          Precedes(<<-list[p[1]].as.evidence, -list[p[1]].as.cues, -list[p[1]].candidate.score,
                                     list[p[1]].as.tokens, -list[p[1]].candidate.node.created>>,
                                   <<-list[p[2]].as.evidence, -list[p[2]].as.cues, -list[p[2]].candidate.score,
                                     list[p[2]].as.tokens, -list[p[2]].candidate.node.created>>)}
           bearing == Rearranged(list, before)
           U == {o \in ToSet(offers) : o.candidate.score < best - 30 /\ o.as.tokens > 0}
           possible == Those(offers, U)
           usable == IF primary.as.tokens > 0 THEN <<primary>> ELSE <<>>
           sure == IF AnswerBearing(primary.as) /\ primary.as.relevance > 0 THEN usable ELSE <<>>
           all == sure \o bearing \o usable \o possible
           O == {o \in ToSet(offers) \cup {primary} : TRUE}
<1>1. FirstOffer(primary, offers, best) = SubSeq(all, 1, IF all = <<>> THEN 0 ELSE 1)
  BY DEF FirstOffer, StableSort, Where
<1> HIDE DEF before, T, U
<1>2. IsList(strong) /\ ToSet(strong) \subseteq ToSet(offers) /\ IsList(possible) /\ ToSet(possible) \subseteq ToSet(offers)
  BY ThoseAre
<1> HIDE DEF strong, possible
<1>3. list = strong
  BY <1>2, RearrangedAre
<1> HIDE DEF list
<1>4. IsList(bearing) /\ ToSet(bearing) = ToSet(strong)
  BY <1>2, <1>3, RearrangedAre
<1> HIDE DEF bearing
<1>5. IsList(usable) /\ ToSet(usable) \subseteq {primary} /\ IsList(sure) /\ ToSet(sure) \subseteq {primary}
  <2>1. IsList(<<>>) /\ ToSet(<<>>) = {}
    BY NoList
  <2>2. <<primary>> \in Seq({primary})
    OBVIOUS
  <2>3. IsList(<<primary>>) /\ ToSet(<<primary>>) \subseteq {primary}
    BY <2>2, ListOf
  <2>4. IsList(usable) /\ ToSet(usable) \subseteq {primary}
    BY <2>1, <2>3
  <2> HIDE DEF usable
  <2> QED
    BY <2>1, <2>4
<1> HIDE DEF usable, sure
<1>6. IsList(sure \o bearing) /\ ToSet(sure \o bearing) \subseteq O
  BY <1>2, <1>4, <1>5, ConcatList
<1>7. IsList((sure \o bearing) \o usable) /\ ToSet((sure \o bearing) \o usable) \subseteq O
  BY <1>5, <1>6, ConcatList
<1>8. IsList(all) /\ ToSet(all) \subseteq O
  BY <1>2, <1>7, ConcatList
<1> HIDE DEF all
<1>9. CASE all = <<>>
  <2>1. SubSeq(all, 1, 0) = <<>>
    BY SubSeqEmpty
  <2> QED
    BY <1>1, <1>9, <2>1
<1>10. CASE all # <<>>
  <2>1. all[1] \in ToSet(all) /\ 1 \in 1 .. Len(all)
    BY <1>8, <1>10, FirstOfList
  <2>2. SubSeq(all, 1, 1) = Append(SubSeq(all, 1, 1 - 1), all[1]) /\ SubSeq(all, 1, 0) = <<>>
    BY <1>8, <2>1, Beginning
  <2>3. SubSeq(all, 1, 1) = Append(<<>>, all[1])
    <3>1. 1 - 1 = 0
      OBVIOUS
    <3> QED
      BY <2>2, <3>1
  <2>4. Append(<<>>, all[1])[1] = all[1]
    <3>1. Append(<<>>, all[1])[Len(<<>>) + 1] = all[1] /\ Len(<<>>) + 1 = 1
      BY NoList, AppendList
    <3> QED
      BY <3>1
  <2>5. IsOffer(all[1], C)
    BY <1>8, <2>1
  <2> QED
    BY <1>1, <1>10, <2>3, <2>4, <2>5
<1> QED
  BY <1>9, <1>10

LEMMA ChosenAmongIs ==
    ASSUME NEW N, \A n \in N : SoundNode(n), NEW base, IsBase(base, N), NEW available \in Int, NEW preferred \in Int,
           NEW query, NEW viable, IsList(viable), \A x \in ToSet(viable) : x.node \in N
    PROVE  LET chosen == ChosenAmong(viable, query, base, available, preferred)
           IN  chosen # <<>> => IsOffer(chosen[1], ToSet(viable))
<1> DEFINE Offer(x) == [candidate |-> x, as |-> MaterializeBridge(query, x.node, base, available, preferred)]
           primary == Primary(viable, preferred)
           T == {x \in ToSet(viable) : x.node.id # primary.node.id}
           others == Those(viable, T)
           offers == [i \in DOMAIN others |-> Offer(others[i])]
           chosen == ChosenAmong(viable, query, base, available, preferred)
<1>1. chosen = IF viable = <<>> THEN <<>> ELSE FirstOffer(Offer(primary), offers, viable[1].score)
  BY DEF ChosenAmong, Where
<1> SUFFICES ASSUME viable # <<>> PROVE chosen # <<>> => IsOffer(chosen[1], ToSet(viable))
  BY <1>1
<1>2. primary \in ToSet(viable)
  BY PrimaryIs
<1> HIDE DEF primary, T, chosen
<1>3. IsList(others) /\ ToSet(others) \subseteq ToSet(viable)
  BY ThoseAre
<1> HIDE DEF others
<1>4. \A x \in ToSet(viable) : IsOffer(Offer(x), ToSet(viable))
  BY MaterializeBridgeTokens DEF IsOffer
<1>5. IsList(offers) /\ \A o \in ToSet(offers) : IsOffer(o, ToSet(viable))
  <2> DEFINE n == Len(others)
  <2>1. n \in Nat /\ DOMAIN others = 1 .. n /\ \A i \in 1 .. n : others[i] \in ToSet(viable)
    BY <1>3, ListIs
  <2>2. offers = [i \in 1 .. n |-> offers[i]] /\ \A i \in 1 .. n : offers[i] = Offer(others[i])
    BY <2>1
  <2>3. \A i \in 1 .. n : IsOffer(offers[i], ToSet(viable))
    BY <1>4, <2>1, <2>2
  <2> HIDE DEF offers, n
  <2>4. IsList(offers) /\ Len(offers) = n
    BY ONLY <2>1, <2>2, ListFun
  <2> QED
    BY <2>3, <2>4, ListIs
<1>6. IsOffer(Offer(primary), ToSet(viable))
  BY <1>2, <1>4
<1> HIDE DEF offers, Offer
<1>7. LET first == FirstOffer(Offer(primary), offers, viable[1].score)
      IN  first # <<>> => IsOffer(first[1], ToSet(viable))
  BY <1>5, <1>6, FirstOfferIs
<1> QED
  BY <1>1, <1>7

LEMMA ChooseBridgeIs ==
    ASSUME NEW N, \A n \in N : SoundNode(n), NEW base, IsBase(base, N), NEW available \in Int, NEW preferred \in Int,
           NEW query, NEW ranked, IsList(ranked), \A x \in ToSet(ranked) : x.node \in N
    PROVE  LET chosen == ChooseBridge(query, ranked, base, available, preferred)
           IN  chosen # <<>> => IsOffer(chosen[1], ToSet(ranked))
<1> DEFINE pinnedTokens == TokenSum(Pinned(base))
           T == {x \in ToSet(ranked) : \/ x.node.tokens + pinnedTokens <= available
                                       \/ pinnedTokens = 0
                                       \/ x.node.facts # <<>>}
           viable == Those(ranked, T)
           chosen == ChosenAmong(viable, query, base, available, preferred)
<1>1. ChooseBridge(query, ranked, base, available, preferred) = chosen
  BY DEF ChooseBridge, Where
<1> HIDE DEF T
<1>2. IsList(viable) /\ ToSet(viable) \subseteq ToSet(ranked)
  BY ThoseAre
<1> HIDE DEF viable
<1>3. chosen # <<>> => IsOffer(chosen[1], ToSet(viable))
  BY <1>2, ChosenAmongIs
<1> QED
  BY <1>1, <1>2, <1>3 DEF IsOffer

-----------------------------------------------------------------------------
(* Runs of messages                                                        *)

AddEvent(c, sum, e) == e.tokens + sum

EventSum(c, T, sum) == sum \in Int

EventSums == INSTANCE FoldTheorems WITH Op <- AddEvent, Inv <- EventSum

LEMMA EventTokensType ==
    ASSUME NEW S, IsFiniteSet(S), \A e \in S : e.tokens \in Int
    PROVE  EventTokens(S) \in Int
<1>0. PICK size \in [SUBSET S -> Nat] : \A x \in SUBSET S : \A y \in x : size[x \ {y}] < size[x]
  BY Sizes
<1>1. EventTokens(S) = EventSums!SetFold(0, 0, S)
  BY DEF EventTokens, MapThenSumSet, MapThenFoldSet, AddEvent,
         EventSums!SetFold
<1>2. EventSum(0, {}, 0)
  BY DEF EventSum
<1>3. \A T \in SUBSET S : \A x \in S \ T : \A a : EventSum(0, T, a) => EventSum(0, T \cup {x}, AddEvent(0, a, x))
  BY DEF EventSum, AddEvent
<1>4. EventSum(0, S, EventSums!SetFold(0, 0, S))
  BY ONLY <1>0, <1>2, <1>3, LeastNatural, EventSums!SetFoldKeeps
<1> QED
  BY <1>1, <1>4 DEF EventSum

Run(u) ==
    /\ u.kind = "raw" /\ {"kind", "hint", "events", "tokens"} \subseteq DOMAIN u /\ u.tokens \in Int
    /\ IsFiniteSet(u.events) /\ u.events # {} /\ \A e \in u.events : e.tokens \in Int

LEMMA RunIs ==
    ASSUME NEW u, Run(u), NEW N
    PROVE  Sound(u, N) /\ SeqsOf(u) = {e.seq : e \in u.events}
<1> DEFINE f == [e \in u.events |-> e.seq]
<1>1. SeqsOf(u) = {e.seq : e \in u.events}
  BY DEF SeqsOf, Run
<1>2. {f[e] : e \in u.events} = {e.seq : e \in u.events} /\ DOMAIN f = u.events
  OBVIOUS
<1> HIDE DEF f
<1>3. IsFiniteSet({f[e] : e \in u.events})
  BY <1>2, FiniteImage DEF Run
<1>4. SeqsOf(u) # {}
  BY <1>1 DEF Run
<1> QED
  BY <1>1, <1>2, <1>3, <1>4 DEF Sound, Run

LEMMA JoinedIs ==
    ASSUME NEW l, NEW r, Run(l), Run(r)
    PROVE  /\ Run(Joined(l, r)) /\ Joined(l, r).hint = l.hint
           /\ SeqsOf(Joined(l, r)) = SeqsOf(l) \cup SeqsOf(r)
<1> DEFINE events == l.events \cup r.events
           u == Joined(l, r)
<1>1. {"kind", "hint", "events", "tokens"} \subseteq DOMAIN l /\ l.kind = "raw"
  BY DEF Run
<1>2. DOMAIN u = DOMAIN l /\ u.kind = l.kind /\ u.hint = l.hint /\ u.events = events /\ u.tokens = EventTokens(events)
  BY <1>1 DEF Joined
<1>3. IsFiniteSet(events) /\ events # {} /\ \A e \in events : e.tokens \in Int
  BY FS_Union DEF Run
<1> HIDE DEF u
<1>4. EventTokens(events) \in Int
  BY <1>3, EventTokensType
<1>5. Run(u)
  BY <1>1, <1>2, <1>3, <1>4 DEF Run
<1>6. SeqsOf(u) = SeqsOf(l) \cup SeqsOf(r)
  BY <1>2, <1>5, RunIs
<1> QED
  BY <1>2, <1>5, <1>6 DEF u

LEMMA FrontIs ==
    ASSUME NEW s, IsList(s), s # <<>>
    PROVE  /\ IsList(Front(s)) /\ Len(Front(s)) = Len(s) - 1 /\ s = Append(Front(s), Last(s))
           /\ Last(s) = s[Len(s)] /\ Last(s) \in ToSet(s) /\ ToSet(Front(s)) \subseteq ToSet(s)
           /\ \A i \in 1 .. (Len(s) - 1) : Front(s)[i] = s[i]
<1> DEFINE n == Len(s)
<1>1. n \in Nat /\ n # 0
  BY NoList, ListIs
<1>2. n \in 1 .. n
  BY <1>1
<1>3. SubSeq(s, 1, n) = Append(SubSeq(s, 1, n - 1), s[n]) /\ IsList(SubSeq(s, 1, n - 1)) /\ SubSeq(s, 1, n) = s
  BY <1>2, Beginning
<1>4. s[n] \in ToSet(s)
  BY <1>2, ListIs
<1>5. Front(s) = SubSeq(s, 1, n - 1) /\ Last(s) = s[n]
  BY DEF Front, Last
<1>6. s = Append(Front(s), s[n]) /\ IsList(Front(s))
  BY <1>3, <1>5
<1>7. Len(s) = Len(Front(s)) + 1 /\ ToSet(s) = ToSet(Front(s)) \cup {s[n]} /\ \A i \in 1 .. Len(Front(s)) : s[i] = Front(s)[i]
  <2> DEFINE f == Front(s)
  <2>1. s = Append(f, s[n]) /\ IsList(f)
    BY <1>6
  <2> HIDE DEF f
  <2>2. /\ Len(Append(f, s[n])) = Len(f) + 1
        /\ \A i \in 1 .. Len(f) : Append(f, s[n])[i] = f[i]
        /\ ToSet(Append(f, s[n])) = ToSet(f) \cup {s[n]}
    BY <2>1, AppendList
  <2> QED
    BY <2>1, <2>2 DEF f
<1>8. Len(Front(s)) \in Nat /\ Len(Front(s)) = n - 1
  BY <1>1, <1>6, <1>7, ListIs
<1> QED
  BY <1>4, <1>5, <1>6, <1>7, <1>8

JoinRun(c, joined, x) ==
    IF joined # <<>> /\ x.from <= Last(joined).to + 1
    THEN Append(Front(joined), Joined(Last(joined), x)) ELSE Append(joined, x)

(* The runs have the messages of the first k, each once.                   *)
JoinedUpto(runs, k, joined) ==
    /\ IsList(joined) /\ Apart(joined)
    /\ \A u \in ToSet(joined) : Run(u) /\ SeqsOf(u) \subseteq UNION {SeqsOf(runs[i]) : i \in 1 .. k}

Joins == INSTANCE FoldTheorems WITH Op <- JoinRun, Inv <- JoinedUpto

LEMMA JoinTouchingIs ==
    ASSUME NEW runs, IsList(runs), Apart(runs), \A u \in ToSet(runs) : Run(u)
    PROVE  JoinedUpto(runs, Len(runs), JoinTouching(runs))
<1> DEFINE n == Len(runs)
           upto(k) == UNION {SeqsOf(runs[i]) : i \in 1 .. k}
<1>0. n \in Nat /\ DOMAIN runs = 1 .. n /\ \A k \in 1 .. n : runs[k] \in ToSet(runs)
  BY ListIs
<1>1. JoinTouching(runs) = Joins!Fold(runs, <<>>, runs)
  BY DEF JoinTouching, JoinRun, FoldLeft, MapThenFoldSet, Max,
         Joins!Fold, Joins!Greatest
<1> HIDE DEF n
<1>2. JoinedUpto(runs, 0, <<>>)
  <2>1. Apart(<<>>) /\ ToSet(<<>>) = {} /\ IsList(<<>>)
    BY NoList DEF Apart
  <2> QED
    BY <2>1 DEF JoinedUpto
<1>3. ASSUME NEW k \in 1 .. n, NEW a, JoinedUpto(runs, k - 1, a) PROVE JoinedUpto(runs, k, JoinRun(runs, a, runs[k]))
  <2> DEFINE x == runs[k]
  <2>1. IsList(a) /\ Apart(a) /\ \A u \in ToSet(a) : Run(u) /\ SeqsOf(u) \subseteq upto(k - 1)
    BY <1>3 DEF JoinedUpto
  <2>2. 1 .. k = (1 .. (k - 1)) \cup {k} /\ \A i \in 1 .. (k - 1) : i # k /\ i \in 1 .. n
    BY <1>0
  <2>3. upto(k) = upto(k - 1) \cup SeqsOf(x)
    BY <2>2
  <2>4. upto(k - 1) \cap SeqsOf(x) = {}
    <3>1. \A i \in 1 .. (k - 1) : SeqsOf(runs[i]) \cap SeqsOf(x) = {}
      BY <2>2 DEF Apart, n
    <3> QED
      BY <3>1
  <2>5. Run(x)
    BY <1>0
  <2> HIDE DEF x, upto
  <2>6. CASE JoinRun(runs, a, x) = Append(a, x)
    <3>1. \A u \in ToSet(a) : SeqsOf(u) \cap SeqsOf(x) = {}
      BY <2>1, <2>4
    <3>2. Apart(Append(a, x)) /\ IsList(Append(a, x)) /\ ToSet(Append(a, x)) = ToSet(a) \cup {x}
      BY <2>1, <3>1, ApartAppend, AppendList
    <3> QED
      BY <2>1, <2>3, <2>5, <2>6, <3>2 DEF JoinedUpto, x, upto
  <2>7. CASE JoinRun(runs, a, x) # Append(a, x)
    <3> DEFINE f == Front(a)
               l == Last(a)
               u == Joined(l, x)
    <3>1. a # <<>> /\ JoinRun(runs, a, x) = Append(f, u)
      BY <2>7 DEF JoinRun
    <3>2. /\ IsList(f) /\ Len(f) = Len(a) - 1 /\ l = a[Len(a)] /\ l \in ToSet(a) /\ ToSet(f) \subseteq ToSet(a)
          /\ \A i \in 1 .. (Len(a) - 1) : f[i] = a[i]
      BY <2>1, <3>1, FrontIs
    <3>3. Run(u) /\ SeqsOf(u) = SeqsOf(l) \cup SeqsOf(x)
      BY <2>1, <2>5, <3>2, JoinedIs
    <3> HIDE DEF f, l, u
    <3>4. Len(a) \in Nat
      BY <2>1, ListIs
    <3>5. Apart(f)
      <4>1. ASSUME NEW i \in 1 .. Len(f), NEW j \in 1 .. Len(f), i # j PROVE SeqsOf(f[i]) \cap SeqsOf(f[j]) = {}
        <5>1. i \in 1 .. Len(a) /\ j \in 1 .. Len(a) /\ f[i] = a[i] /\ f[j] = a[j]
          BY <3>2, <3>4
        <5> QED
          BY <2>1, <4>1, <5>1 DEF Apart
      <4> QED
        BY <4>1 DEF Apart
    <3>6. ASSUME NEW y \in ToSet(f) PROVE SeqsOf(y) \cap SeqsOf(u) = {}
      <4>1. PICK i \in 1 .. Len(f) : y = f[i]
        BY <3>2, ListIs
      <4>2. i \in 1 .. Len(a) /\ Len(a) \in 1 .. Len(a) /\ i # Len(a) /\ y = a[i]
        BY <3>2, <3>4, <4>1
      <4>3. SeqsOf(y) \cap SeqsOf(l) = {}
        BY <2>1, <3>2, <4>2 DEF Apart
      <4>4. SeqsOf(y) \cap SeqsOf(x) = {}
        BY <2>1, <2>4, <3>2
      <4> QED
        BY <3>3, <4>3, <4>4
    <3>7. Apart(Append(f, u)) /\ IsList(Append(f, u)) /\ ToSet(Append(f, u)) = ToSet(f) \cup {u}
      BY <3>2, <3>5, <3>6, ApartAppend, AppendList
    <3>8. \A y \in ToSet(f) \cup {u} : Run(y) /\ SeqsOf(y) \subseteq upto(k)
      BY <2>1, <2>3, <3>2, <3>3
    <3> QED
      BY <3>1, <3>7, <3>8 DEF JoinedUpto, x, upto
  <2> QED
    BY <2>6, <2>7 DEF x
<1>4. JoinedUpto(runs, n, Joins!Fold(runs, <<>>, runs))
  <2>1. \A k \in 1 .. n : \A a : JoinedUpto(runs, k - 1, a) => JoinedUpto(runs, k, JoinRun(runs, a, runs[k]))
    BY <1>3
  <2> QED
    BY <1>0, <1>2, <2>1, LeastNatural, Joins!FoldKeeps
<1> QED
  BY <1>1, <1>4 DEF n

-----------------------------------------------------------------------------
(* Contenders                                                              *)

AreContenders(s, N) ==
    IsList(s) /\ Apart(s) /\ \A u \in ToSet(s) : Run(u) \/ (u.kind = "bridge" /\ Sound(u, N))

LEMMA RunsOfIs ==
    ASSUME NEW N, NEW s, AreContenders(s, N), NEW h
    PROVE  /\ IsList(RunsOf(s, h)) /\ Apart(RunsOf(s, h))
           /\ \A u \in ToSet(RunsOf(s, h)) :
                  Run(u) /\ \A q \in SeqsOf(u) : \E i \in 1 .. Len(s) : s[i].kind = "raw" /\ s[i].hint = h /\ q \in SeqsOf(s[i])
<1> DEFINE T == {x \in ToSet(s) : x.kind = "raw" /\ x.hint = h}
           mine == Those(s, T)
           list == SubSeq(mine, 1, Len(mine))
           before == {p \in (1 .. Len(list)) \X (1 .. Len(list)) :
                          Precedes(<<list[p[1]].from, list[p[1]].to, list[p[1]].order>>,
                                   <<list[p[2]].from, list[p[2]].to, list[p[2]].order>>)}
           sorted == Rearranged(list, before)
           runs == RunsOf(s, h)
<1>1. runs = JoinTouching(sorted)
  BY DEF RunsOf, StableSort, Where
<1>2. T = {x \in ToSet(s) : x.kind = "raw" /\ x.hint = h}
  OBVIOUS
<1> HIDE DEF T, before, runs
<1>3. IsList(s) /\ Apart(s) /\ \A u \in ToSet(s) : Run(u) \/ (u.kind = "bridge" /\ Sound(u, N))
  BY DEF AreContenders
<1>4. IsList(mine) /\ ToSet(mine) = T /\ Drawn(s, mine)
  BY <1>2, <1>3, ThoseAre
<1> HIDE DEF mine
<1>5. list = mine
  BY <1>4, RearrangedAre
<1> HIDE DEF list
<1>6. IsList(sorted) /\ ToSet(sorted) = T /\ Drawn(mine, sorted)
  BY <1>4, <1>5, RearrangedAre
<1> HIDE DEF sorted
<1>7. Apart(sorted)
  BY <1>3, <1>4, <1>6, ApartDrawn
<1>8. \A u \in ToSet(sorted) : Run(u)
  <2>1. ASSUME NEW u \in ToSet(sorted) PROVE Run(u)
    <3>1. u \in ToSet(s) /\ u.kind = "raw"
      BY <1>2, <1>6
    <3>2. u.kind # "bridge"
      BY <3>1
    <3> QED
      BY <1>3, <3>1, <3>2
  <2> QED
    BY <2>1
<1>9. JoinedUpto(sorted, Len(sorted), runs)
  BY <1>1, <1>6, <1>7, <1>8, JoinTouchingIs
<1>10. ASSUME NEW u \in ToSet(runs), NEW q \in SeqsOf(u)
       PROVE  \E i \in 1 .. Len(s) : s[i].kind = "raw" /\ s[i].hint = h /\ q \in SeqsOf(s[i])
  <2>1. q \in UNION {SeqsOf(sorted[i]) : i \in 1 .. Len(sorted)}
    BY <1>9 DEF JoinedUpto
  <2>2. PICK j \in 1 .. Len(sorted) : q \in SeqsOf(sorted[j])
    BY <2>1
  <2>3. sorted[j] \in T
    BY <1>6, ListIs
  <2>4. sorted[j] \in ToSet(s) /\ sorted[j].kind = "raw" /\ sorted[j].hint = h
    BY <1>2, <2>3
  <2>5. PICK i \in 1 .. Len(s) : sorted[j] = s[i]
    BY <1>3, <2>4, ListIs
  <2> QED
    BY <2>2, <2>4, <2>5
<1> QED
  BY <1>9, <1>10 DEF JoinedUpto, runs

(* The runs of all hints, one hint after the other.                        *)
LEMMA AllRunsAre ==
    ASSUME NEW N, NEW s, AreContenders(s, N), NEW n \in Nat
    PROVE  LET all == Concat([h \in 1 .. n |-> RunsOf(s, h)])
           IN  /\ IsList(all) /\ Apart(all)
               /\ \A u \in ToSet(all) : Run(u) /\ \A q \in SeqsOf(u) : \E i \in 1 .. Len(s) : q \in SeqsOf(s[i])
<1> DEFINE lists == [h \in 1 .. n |-> RunsOf(s, h)]
           all == Concat(lists)
<1>1. DOMAIN lists = 1 .. n /\ \A h \in 1 .. n : lists[h] = RunsOf(s, h)
  OBVIOUS
<1> HIDE DEF lists
<1>2. ASSUME NEW h \in 1 .. n
      PROVE  /\ IsList(lists[h]) /\ Apart(lists[h])
             /\ \A u \in ToSet(lists[h]) :
                    /\ Run(u)
                    /\ \A q \in SeqsOf(u) :
                           \E i \in 1 .. Len(s) : s[i].kind = "raw" /\ s[i].hint = h /\ q \in SeqsOf(s[i])
  BY <1>1, RunsOfIs
<1>3. \A h \in 1 .. n : IsList(lists[h])
  BY <1>2
<1>4. ChainedUpto(lists, n, all)
  BY <1>1, <1>3, ConcatAre
<1> HIDE DEF all
<1>5. IsList(all)
  BY <1>4 DEF ChainedUpto
<1>6. PICK h \in [1 .. Len(all) -> 1 .. n], p \in [1 .. Len(all) -> Nat] :
           /\ \A i \in 1 .. Len(all) : p[i] \in 1 .. Len(lists[h[i]]) /\ all[i] = lists[h[i]][p[i]]
           /\ \A i, j \in 1 .. Len(all) : h[i] = h[j] /\ p[i] = p[j] => i = j
  BY <1>4 DEF ChainedUpto
<1>7. ASSUME NEW i \in 1 .. Len(all)
      PROVE  /\ h[i] \in 1 .. n /\ p[i] \in 1 .. Len(lists[h[i]]) /\ all[i] = lists[h[i]][p[i]]
             /\ all[i] \in ToSet(lists[h[i]]) /\ Run(all[i])
             /\ \A q \in SeqsOf(all[i]) :
                    \E k \in 1 .. Len(s) : s[k].hint = h[i] /\ q \in SeqsOf(s[k])
  <2>1. h[i] \in 1 .. n /\ p[i] \in 1 .. Len(lists[h[i]]) /\ all[i] = lists[h[i]][p[i]]
    BY <1>6
  <2>2. all[i] \in ToSet(lists[h[i]])
    BY <1>3, <2>1, ListIs
  <2> QED
    BY <1>2, <2>1, <2>2
<1>8. Apart(all)
  <2>1. ASSUME NEW i \in 1 .. Len(all), NEW j \in 1 .. Len(all), i # j
        PROVE  SeqsOf(all[i]) \cap SeqsOf(all[j]) = {}
    <3>1. CASE h[i] = h[j]
      <4>1. p[i] # p[j]
        BY <1>6, <2>1, <3>1
      <4>2. Apart(lists[h[i]]) /\ p[i] \in 1 .. Len(lists[h[i]]) /\ p[j] \in 1 .. Len(lists[h[i]])
        BY <1>2, <1>7, <3>1
      <4>3. all[i] = lists[h[i]][p[i]] /\ all[j] = lists[h[i]][p[j]]
        BY <1>7, <3>1
      <4> QED
        BY <4>1, <4>2, <4>3 DEF Apart
    <3>2. CASE h[i] # h[j]
      <4>1. ASSUME NEW q, q \in SeqsOf(all[i]), q \in SeqsOf(all[j]) PROVE FALSE
        <5>1. PICK k \in 1 .. Len(s) : s[k].hint = h[i] /\ q \in SeqsOf(s[k])
          BY <1>7, <4>1
        <5>2. PICK m \in 1 .. Len(s) : s[m].hint = h[j] /\ q \in SeqsOf(s[m])
          BY <1>7, <4>1
        <5>3. k # m
          BY <3>2, <5>1, <5>2
        <5>4. Apart(s)
          BY DEF AreContenders
        <5> QED
          BY <5>1, <5>2, <5>3, <5>4 DEF Apart
      <4> QED
        BY <4>1
    <3> QED
      BY <3>1, <3>2
  <2> QED
    BY <2>1 DEF Apart
<1>9. ASSUME NEW u \in ToSet(all)
      PROVE  Run(u) /\ \A q \in SeqsOf(u) : \E i \in 1 .. Len(s) : q \in SeqsOf(s[i])
  <2>1. PICK i \in 1 .. Len(all) : u = all[i]
    BY <1>5, ListIs
  <2> QED
    BY <1>7, <2>1
<1> QED
  BY <1>5, <1>8, <1>9 DEF all, lists

(* What is packed after the contenders have been coalesced.                *)
LEMMA CoalesceIs ==
    ASSUME NEW N, NEW s, AreContenders(s, N), NEW n \in Nat, NEW base,
           \A u \in ToSet(s) : \A x \in ToSet(base) : SeqsOf(u) \cap SeqsOf(x) = {}
    PROVE  IsRetrieval(Coalesce(s, n), N, base)
<1> DEFINE T == {x \in ToSet(s) : x.kind = "bridge"}
           bridges == Those(s, T)
           all == Concat([h \in 1 .. n |-> RunsOf(s, h)])
           both == bridges \o all
           list == SubSeq(both, 1, Len(both))
           before == {p \in (1 .. Len(list)) \X (1 .. Len(list)) : list[p[1]].order < list[p[2]].order}
           sorted == Rearranged(list, before)
<1>1. Coalesce(s, n) = sorted
  BY DEF Coalesce, StableSort, Where
<1>2. IsList(s) /\ Apart(s) /\ \A u \in ToSet(s) : Run(u) \/ (u.kind = "bridge" /\ Sound(u, N))
  BY DEF AreContenders
<1>3. T = {x \in ToSet(s) : x.kind = "bridge"}
  OBVIOUS
<1>4. /\ IsList(all) /\ Apart(all)
      /\ \A u \in ToSet(all) : Run(u) /\ \A q \in SeqsOf(u) : \E i \in 1 .. Len(s) : q \in SeqsOf(s[i])
  BY AllRunsAre
<1> HIDE DEF before, all, T
<1>5. IsList(bridges) /\ ToSet(bridges) = T /\ Drawn(s, bridges)
  BY <1>2, <1>3, ThoseAre
<1> HIDE DEF bridges
<1>6. ASSUME NEW u \in ToSet(bridges) PROVE u.kind = "bridge" /\ Sound(u, N) /\ SeqsOf(u) = {}
  <2>1. u \in ToSet(s) /\ u.kind = "bridge"
    BY <1>3, <1>5
  <2>2. ~ Run(u)
    BY <2>1 DEF Run
  <2>3. SeqsOf(u) = {}
    BY <2>1 DEF SeqsOf
  <2> QED
    BY <1>2, <2>1, <2>2, <2>3
<1>7. Apart(bridges)
  BY <1>2, <1>5, ApartDrawn
<1>8. \A x \in ToSet(bridges) : \A y \in ToSet(all) : SeqsOf(x) \cap SeqsOf(y) = {}
  BY <1>6
<1>9. IsList(both) /\ Apart(both) /\ ToSet(both) = ToSet(bridges) \cup ToSet(all)
  BY <1>4, <1>5, <1>7, <1>8, ApartConcat, ConcatList
<1> HIDE DEF both
<1>10. list = both
  BY <1>9, RearrangedAre
<1> HIDE DEF list
<1>11. IsList(sorted) /\ ToSet(sorted) = ToSet(both) /\ Drawn(both, sorted)
  BY <1>9, <1>10, RearrangedAre
<1> HIDE DEF sorted
<1>12. Apart(sorted)
  BY <1>9, <1>11, ApartDrawn
<1>13. ASSUME NEW u \in ToSet(sorted)
       PROVE  Sound(u, N) /\ u.kind \in {"raw", "bridge"} /\ \A x \in ToSet(base) : SeqsOf(u) \cap SeqsOf(x) = {}
  <2>1. CASE u \in ToSet(bridges)
    BY <1>6, <2>1
  <2>2. CASE u \in ToSet(all)
    <3>1. Run(u) /\ Sound(u, N) /\ u.kind = "raw"
      BY <1>4, <2>2, RunIs DEF Run
    <3>2. ASSUME NEW x \in ToSet(base), NEW q, q \in SeqsOf(u), q \in SeqsOf(x) PROVE FALSE
      <4>1. PICK i \in 1 .. Len(s) : q \in SeqsOf(s[i])
        BY <1>4, <2>2, <3>2
      <4>2. s[i] \in ToSet(s)
        BY <1>2, ListIs
      <4> QED
        BY <3>2, <4>1, <4>2
    <3> QED
      BY <3>1, <3>2
  <2> QED
    BY <1>9, <1>11, <2>1, <2>2
<1> QED
  BY <1>1, <1>11, <1>12, <1>13 DEF IsRetrieval
=============================================================================
