---------------------- MODULE RetrievalUseCasesProofs -----------------------
(* That the three stores keep the same ledger, and that a reader who follows *)
(* the pages of grep gets every match of it once and in order, for every     *)
(* sequence of calls, every set of batches and every number of conversations.*)
EXTENDS RetrievalUseCases, ListTheorems

-----------------------------------------------------------------------------
(* Matches                                                                 *)

Ids(q) == [i \in DOMAIN q |-> q[i].id]

LEMMA IdsAre ==
    ASSUME NEW q, IsList(q)
    PROVE  /\ IsList(Ids(q)) /\ Len(Ids(q)) = Len(q) /\ DOMAIN Ids(q) = 1 .. Len(q)
           /\ \A i \in 1 .. Len(q) : Ids(q)[i] = q[i].id
<1> DEFINE n == Len(q)
           p == Ids(q)
<1>1. n \in Nat /\ DOMAIN q = 1 .. n
  BY ListIs
<1>2. p = [i \in 1 .. n |-> q[i].id]
  BY <1>1 DEF Ids
<1> HIDE DEF p
<1>3. p = [i \in 1 .. n |-> p[i]]
  BY <1>2
<1>4. IsList(p) /\ Len(p) = n
  BY <1>1, <1>3, ListFun
<1> QED
  BY <1>2, <1>4 DEF p

LEMMA SameLists ==
    ASSUME NEW s, NEW t, IsList(s), IsList(t), Len(s) = Len(t), \A i \in 1 .. Len(s) : s[i] = t[i]
    PROVE  s = t
<1>1. s = [i \in 1 .. Len(s) |-> s[i]] /\ t = [i \in 1 .. Len(t) |-> t[i]]
  BY ListIs
<1> QED
  BY <1>1

LEMMA IdsAppend ==
    ASSUME NEW q, IsList(q), NEW x
    PROVE  Ids(Append(q, x)) = Append(Ids(q), x.id)
<1> DEFINE t == Append(q, x)
           n == Len(q)
<1>1. n \in Nat /\ IsList(t) /\ Len(t) = n + 1 /\ t[n + 1] = x /\ \A i \in 1 .. n : t[i] = q[i]
  BY AppendList, ListIs
<1> HIDE DEF t
<1>2. IsList(Ids(t)) /\ Len(Ids(t)) = n + 1 /\ \A i \in 1 .. n + 1 : Ids(t)[i] = t[i].id
  BY <1>1, IdsAre
<1> DEFINE p == Ids(q)
           u == Append(p, x.id)
<1>3. IsList(p) /\ Len(p) = n /\ \A i \in 1 .. n : p[i] = q[i].id
  BY IdsAre
<1> HIDE DEF p
<1>4. IsList(u) /\ Len(u) = n + 1 /\ u[n + 1] = x.id /\ \A i \in 1 .. n : u[i] = p[i]
  BY <1>3, AppendList
<1> HIDE DEF u, n
<1>5. ASSUME NEW i \in 1 .. n + 1 PROVE Ids(t)[i] = u[i]
  <2>1. CASE i = n + 1
    BY <1>1, <1>2, <1>4, <2>1
  <2>2. CASE i \in 1 .. n
    BY <1>1, <1>2, <1>3, <1>4, <2>2
  <2> QED
    BY <1>1, <2>1, <2>2
<1>6. Ids(t) = u
  BY <1>1, <1>2, <1>4, <1>5, SameLists
<1> QED
  BY <1>6 DEF t, u, p

(* A row behind all others comes last.                                     *)
Behind(r, rows, column) == \A x \in rows : x[column] < r[column]

LEMMA OrderedByGrows ==
    ASSUME NEW rows, NEW column, NEW r, Behind(r, rows, column),
           NEW S, Orders(S, column), \A x : x \in S <=> x \in rows \/ x = r
    PROVE  OrderedBy(S, column) = Append(OrderedBy(rows, column), r)
<1> DEFINE n == Cardinality(rows)
           o == OrderedBy(rows, column)
           q == OrderedBy(S, column)
           w == [x \in S |-> x[column]]
           u == Append(o, r)
<1>b. \A x \in rows : x[column] < r[column]
  BY DEF Behind
<1>0. Orders(S, column) /\ IsFiniteSet(S) /\ r[column] \in Int /\ \A x \in rows : x[column] \in Int
  BY DEF Orders
<1>1. Orders(rows, column) /\ r \notin rows
  <2>1. r \notin rows
    BY <1>b, <1>0
  <2>2. rows \subseteq S
    OBVIOUS
  <2> QED
    BY <2>1, <2>2, SomeRows
<1>2. IsFiniteSet(rows) /\ n \in Nat /\ Cardinality(S) = n + 1
  <2>1. S = rows \cup {r}
    OBVIOUS
  <2> QED
    BY <1>1, <2>1, FS_AddElement, FS_CardinalityType DEF Orders
<1>3. /\ IsList(o) /\ ToSet(o) = rows /\ Len(o) = n
      /\ \A i \in 1 .. n : Cardinality({x \in rows : x[column] < o[i][column]}) = i - 1
  BY <1>1, OrderedByIs
<1>4. /\ IsList(q) /\ ToSet(q) = S /\ Len(q) = n + 1
      /\ \A i \in 1 .. n + 1 : Cardinality({x \in S : x[column] < q[i][column]}) = i - 1
  <2>1. /\ IsList(q) /\ ToSet(q) = S /\ Len(q) = Cardinality(S)
        /\ \A i \in 1 .. Len(q) : Cardinality({x \in S : x[column] < q[i][column]}) = i - 1
    BY <1>0, OrderedByIs
  <2> QED
    BY <1>2, <2>1
<1> HIDE DEF o, q, n
<1>5. \A a, b \in S : Place(S, w, a) = Place(S, w, b) => a = b
  <2>1. w \in [S -> Int] /\ \A x, y \in S : w[x] = w[y] => x = y
    BY DEF Orders
  <2> QED
    BY <1>0, <2>1, Places
<1>6. ASSUME NEW a \in S PROVE Place(S, w, a) = Cardinality({x \in S : x[column] < a[column]})
  <2>1. {x \in S : w[x] < w[a]} = {x \in S : x[column] < a[column]}
    OBVIOUS
  <2> QED
    BY <2>1 DEF Place
<1> HIDE DEF w
<1>7. IsList(u) /\ Len(u) = n + 1 /\ u[n + 1] = r /\ \A i \in 1 .. n : u[i] = o[i]
  BY <1>3, AppendList
<1>8. ASSUME NEW i \in 1 .. n + 1 PROVE q[i] \in S /\ u[i] \in S /\ Place(S, w, q[i]) = i - 1 /\ Place(S, w, u[i]) = i - 1
  <2>1. q[i] \in S /\ Place(S, w, q[i]) = i - 1
    <3>1. q[i] \in S
      BY <1>4, ListIs
    <3> QED
      BY <1>4, <1>6, <3>1
  <2>2. CASE i = n + 1
    <3>1. {x \in S : x[column] < r[column]} = rows
      BY <1>b, <1>0, <1>1
    <3>2. Cardinality({x \in S : x[column] < r[column]}) = n
      BY <3>1 DEF n
    <3>3. Place(S, w, r) = n
      BY <1>6, <3>2
    <3>4. u[i] = r /\ r \in S /\ i - 1 = n
      BY <1>2, <1>7, <2>2
    <3> QED
      BY <2>1, <3>3, <3>4
  <2>3. CASE i \in 1 .. n
    <3>1. o[i] \in rows /\ u[i] = o[i]
      BY <1>3, <1>7, <2>3, ListIs
    <3>2. {x \in S : x[column] < o[i][column]} = {x \in rows : x[column] < o[i][column]}
      <4>1. o[i][column] < r[column] /\ o[i][column] \in Int
        BY <1>b, <1>0, <3>1
      <4>2. ~ (r[column] < o[i][column])
        BY <1>0, <4>1
      <4> QED
        BY <4>2
    <3>3. Cardinality({x \in S : x[column] < o[i][column]}) = i - 1
      BY <1>3, <2>3, <3>2
    <3>4. Place(S, w, o[i]) = i - 1
      BY <1>6, <3>1, <3>3
    <3> QED
      BY <2>1, <3>1, <3>4
  <2>4. i = n + 1 \/ i \in 1 .. n
    BY <1>2
  <2> QED
    BY <2>2, <2>3, <2>4
<1>9. \A i \in 1 .. n + 1 : q[i] = u[i]
  BY <1>5, <1>8
<1> HIDE DEF u
<1>10. q = u
  BY <1>4, <1>7, <1>9, SameLists
<1> QED
  BY <1>10 DEF q, u, o

(* The rows that an SQL store finds and the events that the in-memory store *)
(* finds have the same ids, in the same order. c is the list, what is       *)
(* looked for in it, and the rows.                                          *)
SameIds(c, k, kept) == IsList(kept) /\ Ids(kept) = Ids(OrderedBy({r \in c[3] : r.seq <= k}, "seq"))

Matching == INSTANCE FoldTheorems WITH Op <- Keep, Inv <- SameIds

(* The rows hold the elements of T that are in the list, under their places.*)
Holds(rows, s, T) ==
    /\ Orders(rows, "seq")
    /\ \A r \in rows : r.seq \in 1 .. Len(s) /\ s[r.seq] \in T /\ r.id = s[r.seq].id
    /\ \A i \in 1 .. Len(s) : s[i] \in T => \E r \in rows : r.seq = i

LEMMA MatchesAre ==
    ASSUME NEW s, IsList(s), NEW T, NEW rows, Holds(rows, s, T)
    PROVE  Ids(Those(s, T)) = Ids(OrderedBy(rows, "seq"))
<1> DEFINE c == <<s, T, rows>>
           n == Len(s)
           Upto(k) == {r \in rows : r.seq <= k}
<1>0. n \in Nat /\ DOMAIN s = 1 .. n /\ c[2] = T /\ c[3] = rows
  BY ListIs
<1>h. /\ Orders(rows, "seq")
      /\ \A r \in rows : r.seq \in 1 .. n /\ s[r.seq] \in T /\ r.id = s[r.seq].id
      /\ \A i \in 1 .. n : s[i] \in T => \E r \in rows : r.seq = i
      /\ \A r, x \in rows : r.seq = x.seq => r = x
  BY DEF Holds, Orders
<1>1. Those(s, T) = Matching!Fold(c, <<>>, s)
  BY DEF Those, Keep, FoldLeft, MapThenFoldSet, Max, Matching!Fold, Matching!Greatest
<1> HIDE DEF c
<1>s. ASSUME NEW k \in Nat PROVE Orders(Upto(k), "seq")
  <2>1. Upto(k) \subseteq rows
    OBVIOUS
  <2> HIDE DEF Upto
  <2> QED
    BY <1>h, <2>1, SomeRows
<1>2. SameIds(c, 0, <<>>)
  <2>1. Upto(0) = {}
    BY <1>0, <1>h
  <2> DEFINE o == OrderedBy({}, "seq")
  <2>2. IsList(o) /\ ToSet(o) = {} /\ Orders({}, "seq")
    <3>1. Orders({}, "seq")
      BY <1>s, <2>1
    <3> QED
      BY <3>1, OrderedByIs
  <2>3. Len(o) = 0
    BY <2>2, OrderedByIs, FS_EmptySet
  <2> HIDE DEF o
  <2>4. o = <<>>
    BY <2>2, <2>3, NoList
  <2>5. {r \in c[3] : r.seq <= 0} = {}
    BY <1>0, <2>1
  <2> QED
    BY <2>4, <2>5, NoList DEF SameIds, o
<1>3. ASSUME NEW k \in 1 .. n, NEW kept, SameIds(c, k - 1, kept) PROVE SameIds(c, k, Keep(c, kept, s[k]))
  <2>0. k \in Nat /\ k - 1 \in Nat
    BY <1>0
  <2>1. IsList(kept) /\ Ids(kept) = Ids(OrderedBy(Upto(k - 1), "seq"))
    BY <1>0, <1>3 DEF SameIds
  <2>2. CASE s[k] \in T
    <3>1. PICK r \in rows : r.seq = k
      BY <1>h, <2>2
    <3>2. Upto(k) = Upto(k - 1) \cup {r}
      <4>1. ASSUME NEW x \in rows PROVE x.seq <= k <=> x.seq <= k - 1 \/ x = r
        BY <1>h, <2>0, <3>1
      <4> QED
        BY <3>1, <4>1
    <3>3. \A x \in Upto(k - 1) : x["seq"] < r["seq"]
      BY <1>h, <2>0, <3>1
    <3>4. r.id = s[k].id
      BY <1>h, <3>1
    <3> DEFINE before == Upto(k - 1)
               o == OrderedBy(before, "seq")
    <3>5. Orders(before \cup {r}, "seq")
      BY <1>s, <2>0, <3>2
    <3>6. OrderedBy(Upto(k), "seq") = Append(o, r)
      <4> DEFINE seq == "seq"
      <4> DEFINE all == before \cup {r}
      <4>0. Behind(r, before, seq) /\ Orders(all, seq) /\ \A x : x \in all <=> x \in before \/ x = r
        BY <3>3, <3>5 DEF Behind
      <4> HIDE DEF before, seq, all
      <4>1. OrderedBy(all, seq) = Append(OrderedBy(before, seq), r)
        BY ONLY <4>0, OrderedByGrows
      <4> USE DEF before, seq, all
      <4> QED
        BY <3>2, <4>1
    <3>7. IsList(o)
      <4>1. Orders(before, "seq")
        BY <1>s, <2>0
      <4> HIDE DEF before
      <4> QED
        BY <4>1, OrderedByIs
    <3>71. Ids(kept) = Ids(o)
      BY <2>1
    <3> HIDE DEF o, Upto, before
    <3>8. Ids(Append(kept, s[k])) = Ids(Append(o, r))
      <4>1. Ids(Append(kept, s[k])) = Append(Ids(kept), s[k].id)
        BY <2>1, IdsAppend
      <4>2. Ids(Append(o, r)) = Append(Ids(o), r.id)
        BY <3>7, IdsAppend
      <4> QED
        BY ONLY <3>4, <3>71, <4>1, <4>2
    <3>9. Keep(c, kept, s[k]) = Append(kept, s[k]) /\ IsList(Append(kept, s[k]))
      BY <1>0, <2>1, <2>2, AppendList DEF Keep
    <3> QED
      BY <1>0, <3>6, <3>8, <3>9 DEF SameIds, Upto
  <2>3. CASE s[k] \notin T
    <3>1. Upto(k) = Upto(k - 1)
      <4>1. ASSUME NEW x \in rows PROVE x.seq <= k <=> x.seq <= k - 1
        BY <1>h, <2>0, <2>3
      <4> QED
        BY <4>1
    <3>2. Keep(c, kept, s[k]) = kept
      BY <1>0, <2>3 DEF Keep
    <3> QED
      BY <1>0, <2>1, <3>1, <3>2 DEF SameIds
  <2> QED
    BY <2>2, <2>3
<1>4. \A k \in 1 .. n : \A a : SameIds(c, k - 1, a) => SameIds(c, k, Keep(c, a, s[k]))
  BY <1>3
<1>5. SameIds(c, n, Matching!Fold(c, <<>>, s))
  BY ONLY <1>0, <1>2, <1>4, LeastNatural, Matching!FoldKeeps
<1>6. Upto(n) = rows
  BY <1>0, <1>h
<1> QED
  BY <1>0, <1>1, <1>5, <1>6 DEF SameIds

-----------------------------------------------------------------------------
(* Pages                                                                   *)

LEMMA SubSeqIs ==
    ASSUME NEW s, NEW m \in Int, NEW n \in Int
    PROVE  SubSeq(s, m, n) = [i \in 1 .. (n - m + 1) |-> s[i + m - 1]]
OBVIOUS

LEMMA PageIs ==
    ASSUME NEW all, IsList(all), NEW o \in Nat
    PROVE  LET page == Page(all, o, PageSize)
           IN  /\ IsList(page)
               /\ \A i \in 1 .. Len(page) : o + i \in 1 .. Len(all) /\ page[i] = all[o + i]
               /\ IF o < Len(all) THEN Len(page) > 0 /\ o + Len(page) <= Len(all) ELSE page = <<>>
<1> DEFINE n == Len(all)
           end == IF o + 2 < n THEN o + 2 ELSE n
           page == Page(all, o, PageSize)
<1>0. n \in Nat
  BY ListIs
<1>1. page = SubSeq(all, o + 1, end)
  BY DEF Page, PageSize
<1>2. CASE o < n
  <2>1. end \in Int /\ end - o \in Nat /\ end - o > 0 /\ end <= n
    BY <1>0, <1>2
  <2> HIDE DEF end
  <2>2. page = [i \in 1 .. (end - o) |-> all[o + i]]
    <3>1. SubSeq(all, o + 1, end) = [i \in 1 .. (end - (o + 1) + 1) |-> all[i + (o + 1) - 1]]
      BY <2>1, SubSeqIs
    <3>2. end - (o + 1) + 1 = end - o /\ \A i \in 1 .. (end - o) : i + (o + 1) - 1 = o + i
      BY <2>1
    <3> QED
      BY <1>1, <3>1, <3>2
  <2> HIDE DEF page
  <2>3. page = [i \in 1 .. (end - o) |-> page[i]]
    BY <2>2
  <2>4. IsList(page) /\ Len(page) = end - o
    BY <2>1, <2>3, ListFun
  <2>5. \A i \in 1 .. (end - o) : o + i \in 1 .. n /\ page[i] = all[o + i]
    BY <1>0, <2>1, <2>2
  <2> QED
    BY <1>0, <1>2, <2>1, <2>4, <2>5 DEF page
<1>3. CASE ~ (o < n)
  <2>1. end = n /\ n < o + 1
    BY <1>0, <1>3
  <2> HIDE DEF end
  <2>2. page = <<>>
    <3>1. SubSeq(all, o + 1, n) = [i \in 1 .. (n - (o + 1) + 1) |-> all[i + (o + 1) - 1]]
      BY <1>0, SubSeqIs
    <3>2. 1 .. (n - (o + 1) + 1) = {}
      BY <1>0, <2>1
    <3> QED
      BY <1>1, <2>1, <3>1, <3>2
  <2> HIDE DEF page
  <2> QED
    BY <1>3, <2>2, NoList DEF page, n
<1> QED
  BY <1>2, <1>3

(* What is answered for an offset, when these are the ids of all matches.   *)
PageOf(page, ids, o) ==
    /\ IsList(page.groups)
    /\ \A i \in 1 .. Len(page.groups) : o + i \in 1 .. Len(ids) /\ page.groups[i].id = ids[o + i]
    /\ IF o < Len(ids) THEN Len(page.groups) > 0 /\ o + Len(page.groups) <= Len(ids) ELSE page.groups = <<>>
    /\ page.nextOffset = o + Len(page.groups)
    /\ (page.hasMore <=> page.nextOffset < Len(ids))

FollowPage(c, rest, page) == Ids(page.groups) \o (IF page.hasMore THEN rest ELSE <<>>)

Following == INSTANCE FoldTheorems WITH Op <- FollowPage, Inv <- Same

LEMMA RestFollows ==
    ASSUME NEW ids, IsList(ids), NEW o \in Nat, NEW page, PageOf(page, ids, o), NEW rest,
           page.hasMore => rest = SubSeq(ids, page.nextOffset + 1, Len(ids))
    PROVE  FollowPage(0, rest, page) = SubSeq(ids, o + 1, Len(ids))
<1> DEFINE n == Len(ids)
           g == Ids(page.groups)
           k == Len(page.groups)
           tail == IF page.hasMore THEN rest ELSE <<>>
           all == SubSeq(ids, o + 1, n)
<1>0. n \in Nat /\ k \in Nat
  BY ListIs DEF PageOf
<1>1. /\ IsList(g) /\ Len(g) = k
      /\ \A i \in 1 .. k : o + i \in 1 .. n /\ g[i] = ids[o + i]
  BY IdsAre DEF PageOf
<1>2. IF o < n THEN k > 0 /\ o + k <= n ELSE k = 0
  BY NoList DEF PageOf
<1>3. (page.hasMore <=> o + k < n) /\ page.nextOffset = o + k
  BY DEF PageOf
<1>s. ASSUME NEW p \in Nat, p <= n
      PROVE  /\ IsList(SubSeq(ids, p + 1, n)) /\ Len(SubSeq(ids, p + 1, n)) = n - p
             /\ \A i \in 1 .. (n - p) : SubSeq(ids, p + 1, n)[i] = ids[p + i]
  <2> DEFINE t == SubSeq(ids, p + 1, n)
  <2>1. t = [i \in 1 .. (n - (p + 1) + 1) |-> ids[i + (p + 1) - 1]]
    BY <1>0, SubSeqIs
  <2>2. n - (p + 1) + 1 = n - p /\ n - p \in Nat /\ \A i \in 1 .. (n - p) : i + (p + 1) - 1 = p + i
    BY <1>0, <1>s
  <2> HIDE DEF t
  <2>3. t = [i \in 1 .. (n - p) |-> t[i]] /\ \A i \in 1 .. (n - p) : t[i] = ids[p + i]
    BY <2>1, <2>2
  <2>4. IsList(t) /\ Len(t) = n - p
    BY <2>2, <2>3, ListFun
  <2> QED
    BY <2>3, <2>4 DEF t
<1> HIDE DEF g, k
<1>4. CASE o < n
  <2>1. IsList(tail) /\ Len(tail) = n - (o + k) /\ \A i \in 1 .. (n - (o + k)) : tail[i] = ids[o + k + i]
    <3>1. CASE o + k < n
      <4>1. o + k \in Nat /\ o + k <= n
        BY <1>0, <3>1
      <4>2. tail = SubSeq(ids, (o + k) + 1, n)
        BY <1>3, <3>1
      <4> HIDE DEF tail
      <4> QED
        BY <1>s, <4>1, <4>2
    <3>2. CASE o + k = n
      BY <1>0, <1>3, <3>2, NoList
    <3> QED
      BY <1>0, <1>2, <1>4, <3>1, <3>2
  <2> HIDE DEF tail
  <2> DEFINE u == g \o tail
  <2>2. /\ IsList(u) /\ Len(u) = k + (n - (o + k))
        /\ \A i \in 1 .. Len(u) : u[i] = IF i <= k THEN g[i] ELSE tail[i - k]
    <3>0. IsList(g) /\ IsList(tail)
      BY <1>1, <2>1
    <3>1. /\ IsList(u) /\ Len(u) = Len(g) + Len(tail)
          /\ \A i \in 1 .. Len(u) : u[i] = IF i <= Len(g) THEN g[i] ELSE tail[i - Len(g)]
      BY ONLY <3>0, ConcatList
    <3> QED
      BY <1>1, <2>1, <3>1
  <2> HIDE DEF u
  <2>3. k + (n - (o + k)) = n - o /\ o <= n
    BY <1>0, <1>4
  <2>4. ASSUME NEW i \in 1 .. (n - o) PROVE u[i] = ids[o + i]
    <3>1. CASE i <= k
      <4>1. i \in 1 .. k
        BY <1>0, <3>1
      <4> QED
        BY <1>1, <2>2, <2>3, <3>1, <4>1
    <3>2. CASE ~ (i <= k)
      <4>1. i - k \in 1 .. (n - (o + k)) /\ o + k + (i - k) = o + i
        BY <1>0, <3>2
      <4>2. u[i] = tail[i - k]
        BY <2>2, <2>3, <3>2
      <4>3. tail[i - k] = ids[o + k + (i - k)]
        BY <2>1, <4>1
      <4> QED
        BY <4>1, <4>2, <4>3
    <3> QED
      BY <3>1, <3>2
  <2> HIDE DEF all
  <2>5. IsList(all) /\ Len(all) = n - o /\ \A i \in 1 .. (n - o) : all[i] = ids[o + i]
    BY <1>s, <2>3 DEF all
  <2>6. u = all
    BY <2>2, <2>3, <2>4, <2>5, SameLists
  <2> QED
    BY <2>6 DEF u, all, g, tail, FollowPage
<1>5. CASE ~ (o < n)
  <2>1. k = 0 /\ ~ page.hasMore
    BY <1>0, <1>2, <1>3, <1>5
  <2>2. g = <<>> /\ tail = <<>>
    BY <1>1, <2>1, NoList
  <2>3. all = <<>>
    <3>1. all = [i \in 1 .. (n - (o + 1) + 1) |-> ids[i + (o + 1) - 1]]
      BY <1>0, SubSeqIs
    <3>2. 1 .. (n - (o + 1) + 1) = {}
      BY <1>0, <1>5
    <3> QED
      BY <3>1, <3>2
  <2>4. <<>> \o <<>> = <<>>
    <3>1. IsList(<<>> \o <<>>) /\ Len(<<>> \o <<>>) = 0
      BY NoList, ConcatList
    <3> QED
      BY <3>1, NoList
  <2> QED
    BY <2>2, <2>3, <2>4 DEF FollowPage, g, tail, all
<1> QED
  BY <1>4, <1>5

LEMMA FollowedIs ==
    ASSUME NEW ids, IsList(ids), Len(ids) <= MaxEvents,
           NEW pages, \A o \in 0 .. MaxEvents : PageOf(pages[o], ids, o)
    PROVE  Followed(pages) = ids
<1> DEFINE n == Len(ids)
           D == 0 .. MaxEvents
           Step(g) == [offset \in D |->
                          LET page == pages[offset]
                          IN  [i \in DOMAIN page.groups |-> page.groups[i].id]
                              \o (IF page.hasMore THEN g[page.nextOffset] ELSE <<>>)]
           from == CHOOSE g : g = Step(g)
           rank == [o \in D |-> MaxEvents - o]
           less == [o \in D |-> IF pages[o].hasMore THEN pages[o].nextOffset ELSE MaxEvents]
           base == FollowPage(0, <<>>, pages[MaxEvents])
<1>0. MaxEvents \in Nat /\ n \in Nat /\ n <= MaxEvents
  BY StoresAssumption, ListIs
<1>1. ASSUME NEW o \in D
      PROVE  /\ pages[o].hasMore => pages[o].nextOffset \in D /\ pages[o].nextOffset > o /\ o < n
             /\ o = MaxEvents => ~ pages[o].hasMore
  <2> DEFINE k == Len(pages[o].groups)
  <2>1. /\ IsList(pages[o].groups) /\ pages[o].nextOffset = o + k
        /\ pages[o].hasMore <=> o + k < n
        /\ IF o < n THEN k > 0 /\ o + k <= n ELSE pages[o].groups = <<>>
    BY DEF PageOf
  <2>2. k \in Nat /\ (pages[o].groups = <<>> => k = 0)
    BY <2>1, ListIs, NoList
  <2> HIDE DEF k
  <2>3. o \in Nat /\ o <= MaxEvents
    BY <1>0
  <2> QED
    BY <1>0, <2>1, <2>2, <2>3
<1>2. Following!Recursive(0, D, base, rank, less, pages)
  <2>1. rank \in [D -> Nat]
    BY <1>0
  <2>2. less \in [D -> D]
    BY <1>0, <1>1
  <2>3. ASSUME NEW o \in D, rank[o] # 0 PROVE rank[less[o]] < rank[o]
    <3>1. o \in Nat /\ o < MaxEvents /\ rank[o] = MaxEvents - o
      BY <1>0, <2>3
    <3>2. CASE pages[o].hasMore
      <4>1. less[o] = pages[o].nextOffset /\ pages[o].nextOffset \in D /\ pages[o].nextOffset > o
        BY <1>1, <3>2
      <4>2. rank[less[o]] = MaxEvents - pages[o].nextOffset
        BY <4>1
      <4> QED
        BY <1>0, <3>1, <4>1, <4>2
    <3>3. CASE ~ pages[o].hasMore
      <4>1. less[o] = MaxEvents /\ MaxEvents \in D
        BY <1>0, <3>3
      <4>2. rank[less[o]] = 0
        BY <1>0, <4>1
      <4> QED
        BY <1>0, <3>1, <4>2
    <3> QED
      BY <3>2, <3>3
  <2> HIDE DEF D, rank, less, base
  <2> QED
    BY ONLY LeastNatural, <2>1, <2>2, <2>3, Following!Recursion
<1>3. PICK g : g = [o \in D |-> IF rank[o] = 0 THEN base ELSE FollowPage(0, g[less[o]], pages[o])]
  BY <1>2 DEF Following!Recursive
<1>4. ASSUME NEW o \in D, NEW f
      PROVE  Step(f)[o] = FollowPage(0, f[pages[o].nextOffset], pages[o])
  BY DEF FollowPage, Ids
<1>5. ASSUME NEW o \in D, NEW x, NEW y, pages[o].hasMore => x = y
      PROVE  FollowPage(0, x, pages[o]) = FollowPage(0, y, pages[o])
  BY <1>5 DEF FollowPage
<1>6. g = Step(g)
  <2>1. ASSUME NEW o \in D PROVE g[o] = Step(g)[o]
    <3>1. CASE rank[o] = 0
      <4>1. o = MaxEvents /\ g[o] = base
        BY <1>0, <1>3, <3>1
      <4>2. base = FollowPage(0, g[pages[o].nextOffset], pages[o])
        BY <1>1, <1>5, <4>1
      <4> HIDE DEF base, Step
      <4> QED
        BY <1>4, <4>1, <4>2
    <3>2. CASE rank[o] # 0
      <4>1. g[o] = FollowPage(0, g[less[o]], pages[o])
        BY <1>3, <3>2
      <4>2. pages[o].hasMore => g[less[o]] = g[pages[o].nextOffset]
        OBVIOUS
      <4> HIDE DEF Step, less
      <4>3. g[o] = FollowPage(0, g[pages[o].nextOffset], pages[o])
        BY <1>5, <4>1, <4>2
      <4> QED
        BY <1>4, <4>3
    <3> QED
      BY <3>1, <3>2
  <2>2. DOMAIN g = D /\ DOMAIN Step(g) = D /\ g = [o \in D |-> g[o]] /\ Step(g) = [o \in D |-> Step(g)[o]]
    BY <1>3
  <2> HIDE DEF Step, D
  <2> QED
    BY <2>1, <2>2
<1>7. from = Step(from)
  <2> HIDE DEF Step
  <2> QED
    BY <1>6
<1>8. Followed(pages) = from[0]
  BY DEF Followed
<1> HIDE DEF from
<1>9. \A o \in D : from[o] = FollowPage(0, from[pages[o].nextOffset], pages[o])
  <2> HIDE DEF Step
  <2> QED
    BY <1>4, <1>7
<1> HIDE DEF Step
<1>10. ASSUME NEW o \in D PROVE from[o] = SubSeq(ids, o + 1, n)
  <2> DEFINE Wrong == {k \in Nat : \E x \in D : k = MaxEvents - x /\ from[x] # SubSeq(ids, x + 1, n)}
  <2>1. SUFFICES ASSUME from[o] # SubSeq(ids, o + 1, n) PROVE FALSE
    OBVIOUS
  <2>2. MaxEvents - o \in Wrong
    BY <1>0, <2>1
  <2>3. PICK k \in Wrong : \A j \in Wrong : k <= j
    BY <2>2, LeastNatural
  <2>4. PICK x \in D : k = MaxEvents - x /\ from[x] # SubSeq(ids, x + 1, n)
    OBVIOUS
  <2>5. pages[x].hasMore => from[pages[x].nextOffset] = SubSeq(ids, pages[x].nextOffset + 1, n)
    <3>1. SUFFICES ASSUME pages[x].hasMore PROVE from[pages[x].nextOffset] = SubSeq(ids, pages[x].nextOffset + 1, n)
      OBVIOUS
    <3> DEFINE y == pages[x].nextOffset
    <3>2. y \in D /\ y > x
      BY <1>1, <3>1
    <3> HIDE DEF y
    <3>3. MaxEvents - y \in Nat /\ ~ (k <= MaxEvents - y)
      BY <1>0, <2>4, <3>2
    <3>4. MaxEvents - y \notin Wrong
      BY <2>3, <3>3
    <3>5. from[y] = SubSeq(ids, y + 1, n)
      BY <3>2, <3>3, <3>4
    <3> QED
      BY <3>5 DEF y
  <2>6. x \in Nat /\ PageOf(pages[x], ids, x)
    BY <1>0
  <2>7. FollowPage(0, from[pages[x].nextOffset], pages[x]) = SubSeq(ids, x + 1, n)
    BY <2>5, <2>6, RestFollows
  <2> QED
    BY <1>9, <2>4, <2>7
<1>11. SubSeq(ids, 0 + 1, n) = ids
  <2>1. SubSeq(ids, 1, n) = [i \in 1 .. (n - 1 + 1) |-> ids[i + 1 - 1]]
    BY <1>0, SubSeqIs
  <2>2. n - 1 + 1 = n /\ \A i \in 1 .. n : i + 1 - 1 = i
    BY <1>0
  <2>3. SubSeq(ids, 1, n) = [i \in 1 .. n |-> ids[i]]
    BY <2>1, <2>2
  <2> QED
    BY <2>3, ListIs
<1>12. 0 \in D
  BY <1>0
<1> QED
  BY <1>8, <1>10, <1>11, <1>12

-----------------------------------------------------------------------------
(* The greps of the three stores                                           *)

(* The ledger as the in-memory store keeps it: an event has the number of  *)
(* its place, and the hash of all that makes it unique as its id.          *)
EventAt(e, c, i) == e.conv = c /\ e.seq = i /\ e.id = <<c, i, e.text>>

Ledger(events) ==
    /\ DOMAIN events = Conversations
    /\ \A c \in Conversations :
           /\ IsList(events[c]) /\ Len(events[c]) <= MaxEvents
           /\ \A i \in 1 .. Len(events[c]) : EventAt(events[c][i], c, i)

(* The rows of an SQL store are the events, once each, of conversation c   *)
(* the first m of them. Only the first row of a batch has its key.         *)
RowOf(r, e) ==
    /\ r.conv = e.conv /\ r.seq = e.seq /\ r.id = e.id /\ r.text = e.text
    /\ r.keyColumn \in {NoKey, e.key}

Shown(events, c, m, d) == IF d = c THEN m ELSE Len(events[d])

MirrorsUpto(rows, events, c, m) ==
    /\ IsFiniteSet(rows)
    /\ \A r \in rows :
           /\ r.conv \in Conversations /\ r.seq \in 1 .. Shown(events, c, m, r.conv)
           /\ RowOf(r, events[r.conv][r.seq])
    /\ \A d \in Conversations : \A i \in 1 .. Shown(events, c, m, d) : \E r \in rows : r.conv = d /\ r.seq = i
    /\ \A r, x \in rows : r.conv = x.conv /\ r.seq = x.seq => r = x

Mirrors(rows, events) == \A c \in Conversations : MirrorsUpto(rows, events, c, Len(events[c]))

LEMMA FewerAreDrawn ==
    ASSUME NEW s, IsList(s), NEW t, IsList(t), Drawn(s, t)
    PROVE  Len(t) <= Len(s)
<1>1. Len(s) \in Nat /\ Len(t) \in Nat
  BY ListIs
<1>2. PICK f \in [1 .. Len(t) -> 1 .. Len(s)] : \A i, j \in 1 .. Len(t) : f[i] = f[j] => i = j
  BY DEF Drawn
<1>3. f \in Injection(1 .. Len(t), 1 .. Len(s))
  BY <1>2, Zenon DEF Injection, IsInjective
<1>4. IsFiniteSet(1 .. Len(s)) /\ Cardinality(1 .. Len(s)) = Len(s) /\ Cardinality(1 .. Len(t)) = Len(t)
  <2>1. ASSUME NEW n \in Nat PROVE IsFiniteSet(1 .. n) /\ Cardinality(1 .. n) = n
    <3>1. 1 \in Int /\ n \in Int
      OBVIOUS
    <3>2. IsFiniteSet(1 .. n) /\ Cardinality(1 .. n) = IF 1 > n THEN 0 ELSE n - 1 + 1
      BY ONLY <3>1, FS_Interval
    <3> QED
      BY <3>2
  <2> QED
    BY <1>1, <2>1
<1>5. Cardinality(1 .. Len(t)) <= Cardinality(1 .. Len(s))
  BY <1>3, <1>4, FS_Injection
<1> QED
  BY <1>4, <1>5

(* What is grepped for, as the in-memory store finds it.                   *)
Sought(word, s) == {x \in ToSet(s) : word \in x.text}

(* What an SQL store finds are the rows of what the in-memory store finds. *)
LEMMA RowsHold ==
    ASSUME NEW rows, NEW events, Ledger(events), Mirrors(rows, events), NEW c \in Conversations, NEW word,
           NEW found, \A r : r \in found <=> r \in rows /\ r.conv = c /\ word \in r.text
    PROVE  Holds(found, events[c], Sought(word, events[c]))
<1> DEFINE s == events[c]
<1>1. IsList(s) /\ Len(s) \in Nat /\ \A i \in 1 .. Len(s) : s[i] \in ToSet(s) /\ EventAt(s[i], c, i)
  BY ListIs DEF Ledger
<1>2. /\ IsFiniteSet(rows)
      /\ \A r \in rows : r.conv = c => r.seq \in 1 .. Len(s) /\ RowOf(r, s[r.seq])
      /\ \A i \in 1 .. Len(s) : \E r \in rows : r.conv = c /\ r.seq = i
      /\ \A r, x \in rows : r.conv = x.conv /\ r.seq = x.seq => r = x
  BY DEF Mirrors, MirrorsUpto, Shown
<1> HIDE DEF s
<1>3. IsFiniteSet(found)
  <2>1. found \in SUBSET rows
    OBVIOUS
  <2> QED
    BY <1>2, <2>1, FS_Subset
<1>4. \A r \in found : r \in rows /\ r.conv = c /\ word \in r.text /\ r.seq \in 1 .. Len(s) /\ RowOf(r, s[r.seq])
  BY <1>2
<1>5. Orders(found, "seq")
  <2>1. \A r \in found : r["seq"] \in Int
    BY <1>1, <1>4
  <2>2. \A r, x \in found : r["seq"] = x["seq"] => r = x
    BY <1>2, <1>4
  <2> QED
    BY <1>3, <2>1, <2>2 DEF Orders
<1>6. ASSUME NEW r \in found PROVE r.seq \in 1 .. Len(s) /\ s[r.seq] \in Sought(word, s) /\ r.id = s[r.seq].id
  BY <1>1, <1>4 DEF RowOf, Sought
<1>7. ASSUME NEW i \in 1 .. Len(s), s[i] \in Sought(word, s) PROVE \E r \in found : r.seq = i
  <2>1. PICK r \in rows : r.conv = c /\ r.seq = i
    BY <1>2
  <2>2. word \in r.text
    BY <1>2, <1>7, <2>1 DEF RowOf, Sought
  <2> QED
    BY <2>1, <2>2
<1> QED
  BY <1>5, <1>6, <1>7 DEF Holds, s

(* GrepUseCase turns a page of a store into a page of the reader.          *)
LEMMA GrepIs ==
    ASSUME NEW all, IsList(all), NEW ids, IsList(ids), Len(all) = Len(ids),
           \A i \in 1 .. Len(all) : all[i].id = ids[i],
           NEW o \in Nat, NEW page, page.matches = Page(all, o, PageSize),
           \/ page.total = Len(all)
           \/ page.matches = <<>> /\ page.total = 0,
           NEW c, NEW scopeNode
    PROVE  PageOf(Grep(c, NoScope, scopeNode, o, page), ids, o)
<1> DEFINE p == Page(all, o, PageSize)
           g == ToPublicGroups(p)
           answer == Grep(c, NoScope, scopeNode, o, page)
<1>1. /\ IsList(p) /\ \A i \in 1 .. Len(p) : o + i \in 1 .. Len(all) /\ p[i] = all[o + i]
      /\ IF o < Len(all) THEN Len(p) > 0 /\ o + Len(p) <= Len(all) ELSE p = <<>>
  BY PageIs
<1>2. Len(p) \in Nat /\ DOMAIN p = 1 .. Len(p) /\ Len(all) \in Nat /\ Len(ids) \in Nat /\ (p = <<>> => Len(p) = 0)
  BY <1>1, ListIs, NoList
<1> HIDE DEF p
<1>3. /\ g = [i \in 1 .. Len(p) |-> g[i]] /\ \A i \in 1 .. Len(p) : g[i].id = p[i].id
  BY <1>2 DEF ToPublicGroups
<1>4. /\ answer.groups = g /\ answer.nextOffset = o + Len(p)
      /\ (answer.hasMore <=> o + Len(p) < page.total)
  BY DEF Grep, p
<1> HIDE DEF g, answer
<1>5. IsList(g) /\ Len(g) = Len(p) /\ (Len(g) = 0 => g = <<>>)
  BY <1>2, <1>3, ListFun, NoList
<1>6. \A i \in 1 .. Len(g) : o + i \in 1 .. Len(ids) /\ g[i].id = ids[o + i]
  BY <1>1, <1>3, <1>5
<1>7. answer.hasMore <=> answer.nextOffset < Len(ids)
  BY <1>1, <1>2, <1>4 DEF p
<1> QED
  BY <1>1, <1>2, <1>4, <1>5, <1>6, <1>7 DEF PageOf, answer

(* The matches that an SQL store pages through, with their coverage.       *)
WithCoverage(hits, cover) == [i \in DOMAIN hits |-> [id |-> hits[i].id, covering |-> cover[i]]]

LEMMA HitsAre ==
    ASSUME NEW s, IsList(s), NEW T, NEW some, Holds(some, s, T), NEW cover,
           NEW all, all = WithCoverage(OrderedBy(some, "seq"), cover),
           NEW ids, ids = Ids(Those(s, T))
    PROVE  IsList(all) /\ Len(all) = Len(ids) /\ \A i \in 1 .. Len(all) : all[i].id = ids[i]
<1> DEFINE hits == OrderedBy(some, "seq")
<1>1. Ids(hits) = ids
  BY MatchesAre
<1>2. IsList(hits)
  BY OrderedByIs DEF Holds
<1>3. all = WithCoverage(hits, cover)
  OBVIOUS
<1> HIDE DEF hits
<1>4. Len(hits) \in Nat /\ DOMAIN hits = 1 .. Len(hits)
  BY <1>2, ListIs
<1>5. Len(hits) = Len(ids) /\ \A i \in 1 .. Len(hits) : hits[i].id = ids[i]
  BY <1>1, <1>2, IdsAre
<1>6. all = [i \in 1 .. Len(hits) |-> all[i]] /\ \A i \in 1 .. Len(hits) : all[i].id = hits[i].id
  BY <1>3, <1>4 DEF WithCoverage
<1>7. IsList(all) /\ Len(all) = Len(hits)
  BY <1>4, <1>6, ListFun
<1> QED
  BY <1>5, <1>6, <1>7

(* Whatever the offset, each store answers with the next matches.          *)
LEMMA GrepsArePages ==
    ASSUME Ledger(memory.events), Mirrors(sqlite.events, memory.events), Mirrors(postgres.events, memory.events),
           NEW c \in Conversations, NEW word, NEW o \in Nat,
           NEW ids, ids = Ids(Those(memory.events[c], Sought(word, memory.events[c])))
    PROVE  /\ IsList(ids) /\ Len(ids) <= MaxEvents
           /\ PageOf(MemGrep(c, word, NoScope, o, PageSize), ids, o)
           /\ PageOf(LiteGrep(c, word, NoScope, o, PageSize), ids, o)
           /\ PageOf(PgGrep(c, word, NoScope, o, PageSize), ids, o)
<1> DEFINE s == memory.events[c]
           T == Sought(word, s)
           found == Those(s, T)
<1>1. IsList(s) /\ Len(s) \in Nat /\ Len(s) <= MaxEvents /\ MaxEvents \in Nat
  BY ListIs, StoresAssumption DEF Ledger
<1>2. ids = Ids(found)
  OBVIOUS
<1> HIDE DEF T
<1>3. IsList(found) /\ Drawn(s, found)
  BY <1>1, ThoseAre
<1> HIDE DEF found
<1>4. IsList(ids) /\ Len(ids) = Len(found) /\ \A i \in 1 .. Len(found) : ids[i] = found[i].id
  BY <1>2, <1>3, IdsAre
<1>5. Len(ids) <= MaxEvents
  <2>1. Len(found) <= Len(s)
    BY <1>1, <1>3, FewerAreDrawn
  <2> QED
    BY <1>1, <1>3, <1>4, <2>1, ListIs
<1>6. PageOf(MemGrep(c, word, NoScope, o, PageSize), ids, o)
  <2> DEFINE match(e) == [id |-> e.id, covering |-> MemCoverage(memory, c, e.id)]
             all == [i \in DOMAIN found |-> match(found[i])]
             page == MemRegexSearchEvents(memory, c, word, NoScope, o, PageSize)
  <2>1. Where(s, LAMBDA e : (NoScope # NoScope => e.id \in MemScopedMessageIds(memory, NoScope)) /\ word \in e.text)
            = found
    BY DEF Where, found, T, Sought
  <2>2. page = [matches |-> Page(all, o, PageSize), total |-> Len(all)]
    BY <2>1 DEF MemRegexSearchEvents
  <2>3. IsList(all) /\ Len(all) = Len(found) /\ \A i \in 1 .. Len(all) : all[i].id = found[i].id
    <3>1. DOMAIN found = 1 .. Len(found) /\ Len(found) \in Nat
      BY <1>3, ListIs
    <3>2. all = [i \in 1 .. Len(found) |-> all[i]] /\ \A i \in 1 .. Len(found) : all[i].id = found[i].id
      BY <3>1
    <3> QED
      BY <3>1, <3>2, ListFun
  <2>4. page.matches = Page(all, o, PageSize) /\ page.total = Len(all)
    BY <2>2
  <2> HIDE DEF page, all
  <2>5. \A i \in 1 .. Len(all) : all[i].id = ids[i]
    BY <1>4, <2>3
  <2>6. Len(all) = Len(ids)
    BY <1>4, <2>3
  <2>7. PageOf(Grep(c, NoScope, MemGetNode(memory, NoScope), o, page), ids, o)
    BY <1>4, <2>3, <2>4, <2>5, <2>6, GrepIs
  <2> QED
    BY <2>7 DEF MemGrep, page
<1>7. ASSUME NEW rows, Mirrors(rows, memory.events),
             NEW some, \A r : r \in some <=> r \in rows /\ r.conv = c /\ word \in r.text
      PROVE  Holds(some, s, T)
  BY <1>7, RowsHold DEF T
<1>8. PageOf(LiteGrep(c, word, NoScope, o, PageSize), ids, o)
  <2> DEFINE some == {r \in Rows(sqlite.events, "conv", c) :
                         /\ word \in r.text
                         /\ NoScope # NoScope => r.id \in LiteScopedMessageIds(sqlite, NoScope)}
             hits == OrderedBy(some, "seq")
             cover == [i \in DOMAIN hits |-> LiteCoverage(sqlite, c, hits[i].id)]
             all == WithCoverage(hits, cover)
             page == LiteRegexSearchEvents(sqlite, c, word, NoScope, o, PageSize)
  <2>1. \A r : r \in some <=> r \in sqlite.events /\ r.conv = c /\ word \in r.text
    BY DEF Rows
  <2> HIDE DEF some
  <2>2. IsList(all) /\ Len(all) = Len(ids) /\ \A i \in 1 .. Len(all) : all[i].id = ids[i]
    <3> HIDE DEF cover
    <3>1. Holds(some, s, T)
      BY <1>7, <2>1
    <3>2. ids = Ids(Those(s, T))
      BY DEF T
    <3> QED
      BY <1>1, <3>1, <3>2, HitsAre
  <2>3. all = [i \in DOMAIN hits |-> [id |-> hits[i].id, covering |-> LiteCoverage(sqlite, c, hits[i].id)]]
    BY DEF WithCoverage
  <2>4. page = [matches |-> Page(all, o, PageSize), total |-> Len(all)]
    <3> HIDE DEF all
    <3> QED
      BY <2>3 DEF LiteRegexSearchEvents, hits, some
  <2> HIDE DEF page, all
  <2>5. page.matches = Page(all, o, PageSize) /\ page.total = Len(all)
    BY <2>4
  <2>6. PageOf(Grep(c, NoScope, LiteGetNode(sqlite, NoScope), o, page), ids, o)
    BY <1>4, <2>2, <2>5, GrepIs
  <2> QED
    BY <2>6 DEF LiteGrep, page
<1>9. PageOf(PgGrep(c, word, NoScope, o, PageSize), ids, o)
  <2> DEFINE some == {r \in Rows(postgres.events, "conv", c) :
                         /\ NoScope # NoScope => r.id \in ScopedMessages(postgres, NoScope)
                         /\ word \in r.text}
             hits == OrderedBy(some, "seq")
             cover == [i \in DOMAIN hits |-> PgCoverage(postgres, c, hits[i].id)]
             all == WithCoverage(hits, cover)
             page == PgRegexSearchEvents(postgres, c, word, NoScope, o, PageSize)
  <2>1. \A r : r \in some <=> r \in postgres.events /\ r.conv = c /\ word \in r.text
    BY DEF Rows
  <2> HIDE DEF some
  <2>2. IsList(all) /\ Len(all) = Len(ids) /\ \A i \in 1 .. Len(all) : all[i].id = ids[i]
    <3> HIDE DEF cover
    <3>1. Holds(some, s, T)
      BY <1>7, <2>1
    <3>2. ids = Ids(Those(s, T))
      BY DEF T
    <3> QED
      BY <1>1, <3>1, <3>2, HitsAre
  <2>3. all = [i \in DOMAIN hits |-> [id |-> hits[i].id, covering |-> PgCoverage(postgres, c, hits[i].id)]]
    BY DEF WithCoverage
  <2>4. page = [matches |-> Page(all, o, PageSize), total |-> IF Page(all, o, PageSize) = <<>> THEN 0 ELSE Len(all)]
    <3> HIDE DEF all
    <3> QED
      BY <2>3 DEF PgRegexSearchEvents, hits, some
  <2> HIDE DEF page, all
  <2>5. page.matches = Page(all, o, PageSize) /\ (page.total = Len(all) \/ (page.matches = <<>> /\ page.total = 0))
    BY <2>4
  <2>6. PageOf(Grep(c, NoScope, PgGetNode(postgres, NoScope), o, page), ids, o)
    BY <1>4, <2>2, <2>5, GrepIs
  <2> QED
    BY <2>6 DEF PgGrep, page
<1> QED
  BY <1>4, <1>5, <1>6, <1>8, <1>9

(* A page shows what comes next, so pages that follow each other show all. *)
LEMMA PagesFollow ==
    ASSUME Ledger(memory.events), Mirrors(sqlite.events, memory.events), Mirrors(postgres.events, memory.events)
    PROVE  PagesComplete
<1> SUFFICES ASSUME NEW c \in Conversations, NEW word
             PROVE  LET matches == Those(memory.events[c], {x \in ToSet(memory.events[c]) : word \in x.text})
                        all == [i \in DOMAIN matches |-> matches[i].id]
                    IN /\ Followed([o \in 0..MaxEvents |-> MemGrep(c, word, NoScope, o, PageSize)]) = all
                       /\ Followed([o \in 0..MaxEvents |-> LiteGrep(c, word, NoScope, o, PageSize)]) = all
                       /\ Followed([o \in 0..MaxEvents |-> PgGrep(c, word, NoScope, o, PageSize)]) = all
  BY DEF PagesComplete, Where
<1> DEFINE s == memory.events[c]
           ids == Ids(Those(s, Sought(word, s)))
           D == 0 .. MaxEvents
           mem == [o \in D |-> MemGrep(c, word, NoScope, o, PageSize)]
           lite == [o \in D |-> LiteGrep(c, word, NoScope, o, PageSize)]
           pg == [o \in D |-> PgGrep(c, word, NoScope, o, PageSize)]
<1> DEFINE matches == Those(s, {x \in ToSet(s) : word \in x.text})
<1>1. [i \in DOMAIN matches |-> matches[i].id] = ids
  BY DEF Ids, Sought
<1>2. \A o \in Nat : /\ IsList(ids) /\ Len(ids) <= MaxEvents
                     /\ PageOf(MemGrep(c, word, NoScope, o, PageSize), ids, o)
                     /\ PageOf(LiteGrep(c, word, NoScope, o, PageSize), ids, o)
                     /\ PageOf(PgGrep(c, word, NoScope, o, PageSize), ids, o)
  <2>1. ids = Ids(Those(memory.events[c], Sought(word, memory.events[c])))
    OBVIOUS
  <2> HIDE DEF ids
  <2> QED
    BY <2>1, GrepsArePages
<1> HIDE DEF ids
<1>3. IsList(ids) /\ Len(ids) <= MaxEvents
  BY <1>2, 0 \in Nat
<1>4. /\ \A o \in D : PageOf(mem[o], ids, o)
      /\ \A o \in D : PageOf(lite[o], ids, o)
      /\ \A o \in D : PageOf(pg[o], ids, o)
  BY <1>2
<1> HIDE DEF mem, lite, pg
<1>5. Followed(mem) = ids /\ Followed(lite) = ids /\ Followed(pg) = ids
  BY <1>3, <1>4, FollowedIs DEF D
<1> QED
  BY <1>1, <1>5 DEF mem, lite, pg

-----------------------------------------------------------------------------
(* Calls that append nothing                                               *)

(* Whether a call is refused or not, the ledger stays as it is.            *)
SameLedger(s, t) == DOMAIN t = DOMAIN s /\ t.events = s.events
Keeps(s, r) == SameLedger(s, r.store)

LEMMA RefusedKeeps ==
    ASSUME NEW s, NEW error
    PROVE  Refused(s, error).store = s /\ Refused(s, error).error = error
BY DEF Refused

LEMMA DoneIs ==
    ASSUME NEW s, NEW n
    PROVE  Done(s, n).store = s /\ Done(s, n).error = "none"
BY DEF Done

(* A unit of work ends in what its steps made, or where it began.          *)
LEMMA UnitOfWorkIs ==
    ASSUME NEW start, NEW result
    PROVE  /\ UnitOfWork(start, result).store \in {start, result.store}
           /\ result.error = "none" => UnitOfWork(start, result) = result
BY RefusedKeeps DEF UnitOfWork

LEMMA MemoryKeeps ==
    ASSUME NEW s, {"events", "items"} \subseteq DOMAIN s
    PROVE  /\ \A parent : Keeps(s, MemCreate(s, parent)) /\ MemCreate(s, parent).store.items = s.items
           /\ \A node : Keeps(s, MemCreateNode(s, node)) /\ MemCreateNode(s, node).store.items = s.items
           /\ \A n, m : Keeps(s, MemAddLeafEdges(s, n, m)) /\ MemAddLeafEdges(s, n, m).store.items = s.items
           /\ \A n, p : Keeps(s, MemAddCondensedEdges(s, n, p)) /\ MemAddCondensedEdges(s, n, p).store.items = s.items
           /\ \A a : Keeps(s, MemStoreArtifact(s, a)) /\ MemStoreArtifact(s, a).store.items = s.items
           /\ \A a, e : Keeps(s, MemUpdateExploration(s, a, e)) /\ MemUpdateExploration(s, a, e).store.items = s.items
<1>1. \A parent : Keeps(s, MemCreate(s, parent)) /\ MemCreate(s, parent).store.items = s.items
  BY DEF MemCreate, Keeps, SameLedger, Done, Refused
<1>2. \A node : Keeps(s, MemCreateNode(s, node)) /\ MemCreateNode(s, node).store.items = s.items
  BY DEF MemCreateNode, Keeps, SameLedger, Done, Refused
<1>3. \A n, m : Keeps(s, MemAddLeafEdges(s, n, m)) /\ MemAddLeafEdges(s, n, m).store.items = s.items
  BY DEF MemAddLeafEdges, Keeps, SameLedger, Done, Refused
<1>4. \A n, p : Keeps(s, MemAddCondensedEdges(s, n, p)) /\ MemAddCondensedEdges(s, n, p).store.items = s.items
  BY DEF MemAddCondensedEdges, Keeps, SameLedger, Done, Refused
<1>5. \A a : Keeps(s, MemStoreArtifact(s, a)) /\ MemStoreArtifact(s, a).store.items = s.items
  BY DEF MemStoreArtifact, Keeps, SameLedger, Done, Refused
<1>6. \A a, e : Keeps(s, MemUpdateExploration(s, a, e)) /\ MemUpdateExploration(s, a, e).store.items = s.items
  BY DEF MemUpdateExploration, Keeps, SameLedger, Done, Refused
<1> QED
  BY <1>1, <1>2, <1>3, <1>4, <1>5, <1>6

(* Adding edges, one after the other                                       *)
KeptUpto(c, k, acc) == {"t", "answer"} \subseteq DOMAIN acc /\ SameLedger(c[1], acc.t)

LEMMA KeptStep ==
    ASSUME NEW c, "events" \in DOMAIN c[1], NEW k, NEW acc, KeptUpto(c, k, acc), NEW next,
           \/ next = acc
           \/ \E x : next = [acc EXCEPT !.answer = x]
           \/ \E x : next = [acc EXCEPT !.t.leaf = x]
           \/ \E x : next = [acc EXCEPT !.t.parents = x],
           NEW i
    PROVE  KeptUpto(c, i, next)
<1> DEFINE s == acc.t
<1>1. {"t", "answer"} \subseteq DOMAIN acc /\ DOMAIN s = DOMAIN c[1] /\ s.events = c[1].events
  BY DEF KeptUpto, SameLedger
<1>2. CASE next = acc
  BY <1>2 DEF KeptUpto
<1>3. CASE \E x : next = [acc EXCEPT !.answer = x]
  <2>1. next.t = s /\ DOMAIN next = DOMAIN acc
    BY <1>1, <1>3
  <2> QED
    BY <1>1, <2>1 DEF KeptUpto, SameLedger
<1>4. CASE \E x : next = [acc EXCEPT !.t.leaf = x]
  <2>1. PICK x : next.t = [s EXCEPT !.leaf = x] /\ DOMAIN next = DOMAIN acc
    BY <1>1, <1>4
  <2> HIDE DEF s
  <2>2. DOMAIN next.t = DOMAIN s /\ next.t.events = s.events
    BY <1>1, <2>1
  <2> QED
    BY <1>1, <2>1, <2>2 DEF KeptUpto, SameLedger
<1>5. CASE \E x : next = [acc EXCEPT !.t.parents = x]
  <2>1. PICK x : next.t = [s EXCEPT !.parents = x] /\ DOMAIN next = DOMAIN acc
    BY <1>1, <1>5
  <2> HIDE DEF s
  <2>2. DOMAIN next.t = DOMAIN s /\ next.t.events = s.events
    BY <1>1, <2>1
  <2> QED
    BY <1>1, <2>1, <2>2 DEF KeptUpto, SameLedger
<1> QED
  BY <1>2, <1>3, <1>4, <1>5

LiteLinkStep(c, acc, x) == LiteAddLeafEdge(c[1], c[2], acc, x)
LiteLeafEdge == INSTANCE FoldTheorems WITH Op <- LiteLinkStep, Inv <- KeptUpto

LEMMA LiteAddLeafEdgesKeep ==
    ASSUME NEW t, "events" \in DOMAIN t, NEW n, NEW messages, IsList(messages)
    PROVE  Keeps(t, LiteAddLeafEdges(t, n, messages))
<1> DEFINE c == <<t, n>>
           start == [t |-> t, answer |-> "ok"]
           k == Len(messages)
           end == LiteAllLeafEdges(t, n, start, messages)
<1>1. k \in Nat /\ DOMAIN messages = 1 .. k /\ c[1] = t /\ c[2] = n
  BY ListIs
<1>2. KeptUpto(c, 0, start)
  BY <1>1 DEF KeptUpto, SameLedger
<1> HIDE DEF start
<1>3. end = LiteLeafEdge!Fold(c, start, messages)
  BY DEF LiteAllLeafEdges, LiteLinkStep, FoldLeft, MapThenFoldSet, Max, LiteLeafEdge!Fold, LiteLeafEdge!Greatest
<1> HIDE DEF c, k, end
<1>4. ASSUME NEW i \in 1 .. k, NEW acc, KeptUpto(c, i - 1, acc)
      PROVE  KeptUpto(c, i, LiteLinkStep(c, acc, messages[i]))
  <2> DEFINE next == LiteLinkStep(c, acc, messages[i])
  <2>1. \/ next = acc
        \/ \E x : next = [acc EXCEPT !.answer = x]
        \/ \E x : next = [acc EXCEPT !.t.leaf = x]
    BY DEF LiteLinkStep, LiteAddLeafEdge
  <2> HIDE DEF next
  <2>2. "events" \in DOMAIN c[1]
    BY <1>1
  <2>3. KeptUpto(c, i, next)
    BY <1>4, <2>1, <2>2, KeptStep
  <2> QED
    BY <2>3 DEF next
<1>5. KeptUpto(c, k, end)
  <2>1. \A i \in 1 .. k : \A a : KeptUpto(c, i - 1, a) => KeptUpto(c, i, LiteLinkStep(c, a, messages[i]))
    BY <1>4
  <2>2. KeptUpto(c, k, LiteLeafEdge!Fold(c, start, messages))
    BY ONLY <1>1, <1>2, <2>1, LeastNatural, LiteLeafEdge!FoldKeeps
  <2> QED
    BY <1>3, <2>2
<1>6. SameLedger(t, end.t)
  BY <1>1, <1>5 DEF KeptUpto
<1>7. LiteAddLeafEdges(t, n, messages).store \in {t, end.t}
  BY RefusedKeeps, DoneIs DEF LiteAddLeafEdges, end, start
<1> QED
  BY <1>6, <1>7 DEF Keeps, SameLedger

LiteCondenseStep(c, acc, x) == LiteAddCondensedEdge(c[1], c[2], acc, x)
LiteCondensedEdge == INSTANCE FoldTheorems WITH Op <- LiteCondenseStep, Inv <- KeptUpto

LEMMA LiteAddCondensedEdgesKeep ==
    ASSUME NEW t, "events" \in DOMAIN t, NEW n, NEW sources, IsList(sources)
    PROVE  Keeps(t, LiteAddCondensedEdges(t, n, sources))
<1> DEFINE c == <<t, n>>
           start == [t |-> t, answer |-> "ok"]
           k == Len(sources)
           end == LiteAllCondensedEdges(t, n, start, sources)
<1>1. k \in Nat /\ DOMAIN sources = 1 .. k /\ c[1] = t /\ c[2] = n
  BY ListIs
<1>2. KeptUpto(c, 0, start)
  BY <1>1 DEF KeptUpto, SameLedger
<1> HIDE DEF start
<1>3. end = LiteCondensedEdge!Fold(c, start, sources)
  BY DEF LiteAllCondensedEdges, LiteCondenseStep, FoldLeft, MapThenFoldSet, Max, LiteCondensedEdge!Fold, LiteCondensedEdge!Greatest
<1> HIDE DEF c, k, end
<1>4. ASSUME NEW i \in 1 .. k, NEW acc, KeptUpto(c, i - 1, acc)
      PROVE  KeptUpto(c, i, LiteCondenseStep(c, acc, sources[i]))
  <2> DEFINE next == LiteCondenseStep(c, acc, sources[i])
  <2>1. \/ next = acc
        \/ \E x : next = [acc EXCEPT !.answer = x]
        \/ \E x : next = [acc EXCEPT !.t.parents = x]
    BY DEF LiteCondenseStep, LiteAddCondensedEdge
  <2> HIDE DEF next
  <2>2. "events" \in DOMAIN c[1]
    BY <1>1
  <2>3. KeptUpto(c, i, next)
    BY <1>4, <2>1, <2>2, KeptStep
  <2> QED
    BY <2>3 DEF next
<1>5. KeptUpto(c, k, end)
  <2>1. \A i \in 1 .. k : \A a : KeptUpto(c, i - 1, a) => KeptUpto(c, i, LiteCondenseStep(c, a, sources[i]))
    BY <1>4
  <2>2. KeptUpto(c, k, LiteCondensedEdge!Fold(c, start, sources))
    BY ONLY <1>1, <1>2, <2>1, LeastNatural, LiteCondensedEdge!FoldKeeps
  <2> QED
    BY <1>3, <2>2
<1>6. SameLedger(t, end.t)
  BY <1>1, <1>5 DEF KeptUpto
<1>7. LiteAddCondensedEdges(t, n, sources).store \in {t, end.t}
  BY RefusedKeeps, DoneIs DEF LiteAddCondensedEdges, end, start
<1> QED
  BY <1>6, <1>7 DEF Keeps, SameLedger

PgLinkStep(c, acc, x) == PgAddLeafEdge(c[1], c[2], acc, x)
PgLeafEdge == INSTANCE FoldTheorems WITH Op <- PgLinkStep, Inv <- KeptUpto

LEMMA PgAddLeafEdgesKeep ==
    ASSUME NEW t, "events" \in DOMAIN t, NEW n, NEW messages, IsList(messages)
    PROVE  Keeps(t, PgAddLeafEdges(t, n, messages))
<1> DEFINE c == <<t, n>>
           start == [t |-> t, answer |-> "ok"]
           k == Len(messages)
           end == PgAllLeafEdges(t, n, start, messages)
<1>1. k \in Nat /\ DOMAIN messages = 1 .. k /\ c[1] = t /\ c[2] = n
  BY ListIs
<1>2. KeptUpto(c, 0, start)
  BY <1>1 DEF KeptUpto, SameLedger
<1> HIDE DEF start
<1>3. end = PgLeafEdge!Fold(c, start, messages)
  BY DEF PgAllLeafEdges, PgLinkStep, FoldLeft, MapThenFoldSet, Max, PgLeafEdge!Fold, PgLeafEdge!Greatest
<1> HIDE DEF c, k, end
<1>4. ASSUME NEW i \in 1 .. k, NEW acc, KeptUpto(c, i - 1, acc)
      PROVE  KeptUpto(c, i, PgLinkStep(c, acc, messages[i]))
  <2> DEFINE next == PgLinkStep(c, acc, messages[i])
  <2>1. \/ next = acc
        \/ \E x : next = [acc EXCEPT !.answer = x]
        \/ \E x : next = [acc EXCEPT !.t.leaf = x]
    BY DEF PgLinkStep, PgAddLeafEdge
  <2> HIDE DEF next
  <2>2. "events" \in DOMAIN c[1]
    BY <1>1
  <2>3. KeptUpto(c, i, next)
    BY <1>4, <2>1, <2>2, KeptStep
  <2> QED
    BY <2>3 DEF next
<1>5. KeptUpto(c, k, end)
  <2>1. \A i \in 1 .. k : \A a : KeptUpto(c, i - 1, a) => KeptUpto(c, i, PgLinkStep(c, a, messages[i]))
    BY <1>4
  <2>2. KeptUpto(c, k, PgLeafEdge!Fold(c, start, messages))
    BY ONLY <1>1, <1>2, <2>1, LeastNatural, PgLeafEdge!FoldKeeps
  <2> QED
    BY <1>3, <2>2
<1>6. SameLedger(t, end.t)
  BY <1>1, <1>5 DEF KeptUpto
<1>7. PgAddLeafEdges(t, n, messages).store \in {t, end.t}
  BY RefusedKeeps, DoneIs DEF PgAddLeafEdges, end, start
<1> QED
  BY <1>6, <1>7 DEF Keeps, SameLedger

PgCondenseStep(c, acc, x) == PgAddCondensedEdge(c[1], c[2], acc, x)
PgCondensedEdge == INSTANCE FoldTheorems WITH Op <- PgCondenseStep, Inv <- KeptUpto

LEMMA PgAddCondensedEdgesKeep ==
    ASSUME NEW t, "events" \in DOMAIN t, NEW n, NEW sources, IsList(sources)
    PROVE  Keeps(t, PgAddCondensedEdges(t, n, sources))
<1> DEFINE c == <<t, n>>
           start == [t |-> t, answer |-> "ok"]
           k == Len(sources)
           end == PgAllCondensedEdges(t, n, start, sources)
<1>1. k \in Nat /\ DOMAIN sources = 1 .. k /\ c[1] = t /\ c[2] = n
  BY ListIs
<1>2. KeptUpto(c, 0, start)
  BY <1>1 DEF KeptUpto, SameLedger
<1> HIDE DEF start
<1>3. end = PgCondensedEdge!Fold(c, start, sources)
  BY DEF PgAllCondensedEdges, PgCondenseStep, FoldLeft, MapThenFoldSet, Max, PgCondensedEdge!Fold, PgCondensedEdge!Greatest
<1> HIDE DEF c, k, end
<1>4. ASSUME NEW i \in 1 .. k, NEW acc, KeptUpto(c, i - 1, acc)
      PROVE  KeptUpto(c, i, PgCondenseStep(c, acc, sources[i]))
  <2> DEFINE next == PgCondenseStep(c, acc, sources[i])
  <2>1. \/ next = acc
        \/ \E x : next = [acc EXCEPT !.answer = x]
        \/ \E x : next = [acc EXCEPT !.t.parents = x]
    BY DEF PgCondenseStep, PgAddCondensedEdge
  <2> HIDE DEF next
  <2>2. "events" \in DOMAIN c[1]
    BY <1>1
  <2>3. KeptUpto(c, i, next)
    BY <1>4, <2>1, <2>2, KeptStep
  <2> QED
    BY <2>3 DEF next
<1>5. KeptUpto(c, k, end)
  <2>1. \A i \in 1 .. k : \A a : KeptUpto(c, i - 1, a) => KeptUpto(c, i, PgCondenseStep(c, a, sources[i]))
    BY <1>4
  <2>2. KeptUpto(c, k, PgCondensedEdge!Fold(c, start, sources))
    BY ONLY <1>1, <1>2, <2>1, LeastNatural, PgCondensedEdge!FoldKeeps
  <2> QED
    BY <1>3, <2>2
<1>6. SameLedger(t, end.t)
  BY <1>1, <1>5 DEF KeptUpto
<1>7. PgAddCondensedEdges(t, n, sources).store \in {t, end.t}
  BY RefusedKeeps, DoneIs DEF PgAddCondensedEdges, end, start
<1> QED
  BY <1>6, <1>7 DEF Keeps, SameLedger

-----------------------------------------------------------------------------
(* The other calls of the SQL stores                                       *)

LEMMA LiteKeeps ==
    ASSUME NEW t, "events" \in DOMAIN t
    PROVE  /\ \A parent : Keeps(t, LiteCreate(t, parent))
           /\ \A node : Keeps(t, LiteCreateNode(t, node))
           /\ \A a : Keeps(t, LiteStoreArtifact(t, a))
           /\ \A a, e : Keeps(t, LiteUpdateExploration(t, a, e))
           /\ \A c, refs : Keeps(t, LiteAppendContextItems(t, c, refs)) /\ LiteAppendContextItems(t, c, refs).error = "none"
           /\ \A c, v, ps, ref : Keeps(t, LiteReplaceContextItems(t, c, v, ps, ref))
<1>1. \A parent : Keeps(t, LiteCreate(t, parent))
  BY DEF LiteCreate, Keeps, SameLedger, Done, Refused
<1>2. \A node : Keeps(t, LiteCreateNode(t, node))
  BY DEF LiteCreateNode, Keeps, SameLedger, Done
<1>3. \A a : Keeps(t, LiteStoreArtifact(t, a))
  BY DEF LiteStoreArtifact, Keeps, SameLedger, Done
<1>4. \A a, e : Keeps(t, LiteUpdateExploration(t, a, e))
  BY DEF LiteUpdateExploration, Keeps, SameLedger, Done, Refused
<1>5. ASSUME NEW u, SameLedger(t, u), NEW c
      PROVE  /\ SameLedger(t, LiteEnsureVersionRow(u, c)) /\ SameLedger(t, LiteBumpVersion(u, c))
             /\ \A items : SameLedger(t, [u EXCEPT !.items = items])
  BY <1>5 DEF SameLedger, LiteEnsureVersionRow, LiteBumpVersion
<1>6. SameLedger(t, t)
  BY DEF SameLedger
<1>7. ASSUME NEW c, NEW refs
      PROVE  Keeps(t, LiteAppendContextItems(t, c, refs)) /\ LiteAppendContextItems(t, c, refs).error = "none"
  <2> DEFINE ready == LiteEnsureVersionRow(t, c)
  <2>1. SameLedger(t, ready)
    BY <1>5, <1>6
  <2> HIDE DEF ready
  <2>2. \A items : SameLedger(t, LiteBumpVersion([ready EXCEPT !.items = items], c))
    BY <1>5, <2>1
  <2>3. \A r, k : \E items : LiteInsertItems(ready, c, r, k) = [ready EXCEPT !.items = items]
    BY DEF LiteInsertItems
  <2>4. \A r, k : SameLedger(t, LiteBumpVersion(LiteInsertItems(ready, c, r, k), c))
    BY <2>2, <2>3
  <2> QED
    BY <2>1, <2>4, DoneIs DEF LiteAppendContextItems, Keeps, ready
<1>8. ASSUME NEW c, NEW v, NEW ps, NEW ref
      PROVE  Keeps(t, LiteReplaceContextItems(t, c, v, ps, ref))
  <2> DEFINE ready == LiteEnsureVersionRow(t, c)
             result == LiteReplaceContextItems(t, c, v, ps, ref)
  <2>1. SameLedger(t, ready)
    BY <1>5, <1>6
  <2> DEFINE emptied == [ready EXCEPT !.items = @ \ Rows(@, "conv", c)]
             merged == Merged(ItemRefs(t, c), ps, ref)
             full == LiteInsertItems(emptied, c, merged, 0)
  <2>2. result.store \in {t, ready, LiteBumpVersion(full, c)}
    <3> HIDE DEF merged
    <3> QED
      BY RefusedKeeps, DoneIs DEF LiteReplaceContextItems, merged
  <2> HIDE DEF ready, merged, result
  <2>3. SameLedger(t, emptied)
    BY <1>5, <2>1
  <2> HIDE DEF emptied
  <2>4. \E items : full = [emptied EXCEPT !.items = items]
    BY DEF LiteInsertItems
  <2>5. SameLedger(t, full)
    BY <1>5, <2>3, <2>4
  <2> HIDE DEF full
  <2>6. SameLedger(t, LiteBumpVersion(full, c))
    BY <1>5, <2>5
  <2>7. SameLedger(t, result.store)
    BY <1>6, <2>1, <2>2, <2>6
  <2> QED
    BY <2>7 DEF Keeps, result
<1> QED
  BY <1>1, <1>2, <1>3, <1>4, <1>7, <1>8

LEMMA PgKeeps ==
    ASSUME NEW t, "events" \in DOMAIN t
    PROVE  /\ \A parent : Keeps(t, PgCreate(t, parent))
           /\ \A node : Keeps(t, PgCreateNode(t, node))
           /\ \A a : Keeps(t, PgStoreArtifact(t, a))
           /\ \A a, e : Keeps(t, PgUpdateExploration(t, a, e))
           /\ \A c, refs : Keeps(t, PgAppendContextItems(t, c, refs)) /\ PgAppendContextItems(t, c, refs).error = "none"
           /\ \A c, v, ps, ref : Keeps(t, PgReplaceContextItems(t, c, v, ps, ref))
<1>1. \A parent : Keeps(t, PgCreate(t, parent))
  BY DEF PgCreate, Keeps, SameLedger, Done, Refused
<1>2. \A node : Keeps(t, PgCreateNode(t, node))
  BY DEF PgCreateNode, Keeps, SameLedger, Done
<1>3. \A a : Keeps(t, PgStoreArtifact(t, a))
  BY DEF PgStoreArtifact, Keeps, SameLedger, Done
<1>4. \A a, e : Keeps(t, PgUpdateExploration(t, a, e))
  BY DEF PgUpdateExploration, Keeps, SameLedger, Done, Refused
<1>5. ASSUME NEW u, SameLedger(t, u), NEW c
      PROVE  /\ SameLedger(t, PgEnsureVersionRow(u, c)) /\ SameLedger(t, PgBumpVersion(u, c))
             /\ \A items : SameLedger(t, [u EXCEPT !.items = items])
  BY <1>5 DEF SameLedger, PgEnsureVersionRow, PgBumpVersion
<1>6. SameLedger(t, t)
  BY DEF SameLedger
<1>7. ASSUME NEW c, NEW refs
      PROVE  Keeps(t, PgAppendContextItems(t, c, refs)) /\ PgAppendContextItems(t, c, refs).error = "none"
  <2> DEFINE ready == PgEnsureVersionRow(t, c)
  <2>1. SameLedger(t, ready)
    BY <1>5, <1>6
  <2> HIDE DEF ready
  <2>2. \A items : SameLedger(t, PgBumpVersion([ready EXCEPT !.items = items], c))
    BY <1>5, <2>1
  <2> QED
    BY <2>1, <2>2, DoneIs DEF PgAppendContextItems, Keeps, ready
<1>8. ASSUME NEW c, NEW v, NEW ps, NEW ref
      PROVE  Keeps(t, PgReplaceContextItems(t, c, v, ps, ref))
  <2> DEFINE ready == PgEnsureVersionRow(t, c)
             result == PgReplaceContextItems(t, c, v, ps, ref)
  <2>1. SameLedger(t, ready)
    BY <1>5, <1>6
  <2> DEFINE merged == Merged(ItemRefs(t, c), ps, ref)
             payload == {[conv |-> c, position |-> i - 1, ref |-> merged[i]] : i \in DOMAIN merged}
             overwritten == {r \in Rows(t.items, "conv", c) : \E x \in payload : x.position = r.position}
             dropped == {r \in Rows(t.items, "conv", c) : r.position \notin {x.position : x \in payload}}
             written == ((ready.items \ overwritten) \ dropped) \cup payload
  <2>2. result.store \in {t, ready, PgBumpVersion([ready EXCEPT !.items = written], c)}
    <3> HIDE DEF merged
    <3> QED
      BY RefusedKeeps, DoneIs DEF PgReplaceContextItems, merged
  <2> HIDE DEF written
  <2> HIDE DEF ready, result
  <2>6. \A items : SameLedger(t, PgBumpVersion([ready EXCEPT !.items = items], c))
    BY <1>5, <2>1
  <2>7. SameLedger(t, result.store)
    BY <1>6, <2>1, <2>2, <2>6
  <2> QED
    BY <2>7 DEF Keeps, result
<1> QED
  BY <1>1, <1>2, <1>3, <1>4, <1>7, <1>8

(* The items of the in-memory store are lists, so what it hands to the      *)
(* edges is one.                                                           *)
AllLists(items) == DOMAIN items = Conversations /\ \A c \in Conversations : IsList(items[c])

LEMMA SliceList ==
    ASSUME NEW s, NEW m \in Int, NEW n \in Int
    PROVE  IsList(SubSeq(s, m, n))
<1>1. CASE n - m + 1 \in Nat
  <2> DEFINE k == n - m + 1
             q == SubSeq(s, m, n)
  <2>1. q = [i \in 1 .. k |-> s[i + m - 1]]
    BY SubSeqIs
  <2> HIDE DEF q, k
  <2>2. q = [i \in 1 .. k |-> q[i]]
    BY <2>1
  <2>3. k \in Nat
    BY <1>1 DEF k
  <2> QED
    BY <2>2, <2>3, ListFun DEF q
<1>2. CASE n - m + 1 \notin Nat
  <2>1. 1 .. (n - m + 1) = {}
    BY <1>2
  <2>2. SubSeq(s, m, n) = <<>>
    BY <2>1, SubSeqIs
  <2> QED
    BY <2>2, NoList
<1> QED
  BY <1>1, <1>2

LEMMA MappedList ==
    ASSUME NEW s, IsList(s), NEW t, DOMAIN t = DOMAIN s, t = [i \in DOMAIN t |-> t[i]]
    PROVE  IsList(t) /\ Len(t) = Len(s)
<1>1. Len(s) \in Nat /\ DOMAIN s = 1 .. Len(s)
  BY ListIs
<1>2. t = [i \in 1 .. Len(s) |-> t[i]]
  BY <1>1
<1> QED
  BY <1>1, <1>2, ListFun

LEMMA MergedList ==
    ASSUME NEW refs, IsList(refs), NEW positions \in SUBSET Nat, positions # {}, NEW ref
    PROVE  IsList(Merged(refs, positions, ref))
<1> DEFINE insertion == CHOOSE p \in positions : \A q \in positions : p <= q
           places == [i \in DOMAIN refs |-> i - 1]
           kept == Those(places, {p \in ToSet(places) : p \notin positions})
           retained == [i \in DOMAIN kept |-> refs[kept[i] + 1]]
           a == SubSeq(retained, 1, insertion)
           b == SubSeq(retained, insertion + 1, Len(retained))
<1>1. insertion \in Nat
  BY LeastNatural
<1> HIDE DEF insertion
<1>2. IsList(places)
  <2>1. DOMAIN places = DOMAIN refs /\ places = [i \in DOMAIN places |-> places[i]]
    OBVIOUS
  <2> HIDE DEF places
  <2> QED
    BY <2>1, MappedList
<1> HIDE DEF places
<1>3. IsList(kept)
  BY <1>2, ThoseAre
<1> HIDE DEF kept
<1>4. IsList(retained)
  <2>1. DOMAIN retained = DOMAIN kept /\ retained = [i \in DOMAIN retained |-> retained[i]]
    OBVIOUS
  <2> HIDE DEF retained
  <2> QED
    BY <1>3, <2>1, MappedList
<1>5. Len(retained) \in Nat
  BY <1>4, ListIs
<1> HIDE DEF retained
<1>6. IsList(a) /\ IsList(b)
  BY <1>1, <1>5, SliceList
<1>7. IsList(<<ref>>)
  <2>1. <<ref>> \in Seq({ref})
    OBVIOUS
  <2> QED
    BY <2>1, ListOf
<1>8. Merged(refs, positions, ref) = a \o <<ref>> \o b
  BY DEF Merged, Where, insertion, places, kept, retained
<1> HIDE DEF a, b
<1>9. IsList(a \o <<ref>>)
  BY <1>6, <1>7, ConcatList
<1>10. IsList((a \o <<ref>>) \o b)
  BY <1>6, <1>9, ConcatList
<1> QED
  BY <1>8, <1>10

LEMMA MemoryContextKeeps ==
    ASSUME NEW s, {"events", "items"} \subseteq DOMAIN s, AllLists(s.items), NEW c \in Conversations
    PROVE  /\ \A refs : IsList(refs) => LET r == MemAppendContextItems(s, c, refs)
                                        IN  Keeps(s, r) /\ r.error = "none" /\ AllLists(r.store.items)
           /\ \A v, ref : \A ps \in SUBSET Nat : LET r == MemReplaceContextItems(s, c, v, ps, ref)
                                                 IN  Keeps(s, r) /\ AllLists(r.store.items)
<1>1. ASSUME NEW list, IsList(list), NEW v, NEW u, u = [s EXCEPT !.items[c] = list, !.version[c] = v]
      PROVE  SameLedger(s, u) /\ AllLists(u.items)
  <2>1. DOMAIN u = DOMAIN s /\ u.events = s.events /\ u.items = [s.items EXCEPT ![c] = list]
    BY <1>1
  <2>2. AllLists([s.items EXCEPT ![c] = list])
    BY <1>1 DEF AllLists
  <2> QED
    BY <2>1, <2>2 DEF SameLedger
<1>2. SameLedger(s, s)
  BY DEF SameLedger
<1>3. IsList(s.items[c])
  BY DEF AllLists
<1>4. ASSUME NEW refs, IsList(refs)
      PROVE  LET r == MemAppendContextItems(s, c, refs)
             IN  Keeps(s, r) /\ r.error = "none" /\ AllLists(r.store.items)
  <2> DEFINE list == s.items[c] \o refs
             u == [s EXCEPT !.items[c] = list, !.version[c] = s.version[c] + 1]
             r == MemAppendContextItems(s, c, refs)
  <2>1. IsList(list)
    BY <1>3, <1>4, ConcatList
  <2>2. r.store \in {s, u} /\ r.error = "none"
    BY DoneIs DEF MemAppendContextItems
  <2> HIDE DEF list, r
  <2>3. SameLedger(s, u) /\ AllLists(u.items)
    <3>1. u = [s EXCEPT !.items[c] = list, !.version[c] = s.version[c] + 1]
      OBVIOUS
    <3> HIDE DEF u
    <3> QED
      BY <1>1, <2>1, <3>1
  <2>4. Keeps(s, r) /\ r.error = "none" /\ AllLists(r.store.items)
    <3> HIDE DEF u
    <3> QED
      BY <1>2, <2>2, <2>3 DEF Keeps
  <2> QED
    BY <2>4 DEF r
<1>5. ASSUME NEW v, NEW ref, NEW ps \in SUBSET Nat
      PROVE  LET r == MemReplaceContextItems(s, c, v, ps, ref)
             IN  Keeps(s, r) /\ AllLists(r.store.items)
  <2> DEFINE list == Merged(s.items[c], ps, ref)
             u == [s EXCEPT !.items[c] = list, !.version[c] = s.version[c] + 1]
             r == MemReplaceContextItems(s, c, v, ps, ref)
  <2>1. ps # {} => IsList(list)
    BY <1>3, MergedList
  <2> HIDE DEF list
  <2>2. r.store = s \/ (ps # {} /\ r.store = u)
    BY DoneIs, RefusedKeeps DEF MemReplaceContextItems, list
  <2> HIDE DEF r
  <2>3. ps # {} => SameLedger(s, u) /\ AllLists(u.items)
    <3>1. u = [s EXCEPT !.items[c] = list, !.version[c] = s.version[c] + 1]
      OBVIOUS
    <3> HIDE DEF u
    <3> QED
      BY <1>1, <2>1, <3>1
  <2>4. Keeps(s, r) /\ AllLists(r.store.items)
    <3> HIDE DEF u
    <3> QED
      BY <1>2, <2>2, <2>3 DEF Keeps
  <2> QED
    BY <2>4 DEF r
<1> QED
  BY <1>4, <1>5

LEMMA EdgesList ==
    ASSUME Ledger(memory.events), AllLists(memory.items), NEW c \in Conversations, NEW kind, NEW positions
    PROVE  IsList(EdgesOf(c, kind, positions))
<1>1. ASSUME NEW q, IsList(q) PROVE IsList([i \in DOMAIN q |-> q[i].id])
  BY <1>1, IdsAre DEF Ids
<1>2. \A T : IsList(Those(memory.items[c], T)) /\ IsList(Those(memory.events[c], T))
  BY ThoseAre DEF Ledger, AllLists
<1>3. \A ids : IsList(InOrder(c, ids))
  BY <1>1, <1>2 DEF InOrder, Where
<1> QED
  BY <1>1, <1>2, <1>3 DEF EdgesOf, Where

-----------------------------------------------------------------------------
(* Appending                                                               *)

(* The batch of a call: events under one key for the places behind n.      *)
BatchAt(batch, c, n, key) ==
    /\ IsList(batch)
    /\ \A i \in 1 .. Len(batch) : EventAt(batch[i], c, n + i) /\ batch[i].key = key
    /\ \A i \in 1 .. Len(batch) : "keyColumn" \notin DOMAIN batch[i] /\ {"id", "conv", "seq", "text", "key"} \subseteq DOMAIN batch[i]

LEMMA BatchIs ==
    ASSUME Ledger(memory.events), NEW c \in Conversations, NEW texts, texts \in Seq(ToSet(texts)), NEW key
    PROVE  BatchAt(Batch(c, texts, key), c, Len(memory.events[c]), key) /\ Len(Batch(c, texts, key)) = Len(texts)
<1> DEFINE n == Len(memory.events[c])
           batch == Batch(c, texts, key)
<1>1. n \in Nat
  BY ListIs DEF Ledger
<1>2. IsList(texts) /\ Len(texts) \in Nat /\ DOMAIN texts = 1 .. Len(texts)
  BY ListIs DEF IsList
<1>3. ASSUME NEW i \in 1 .. Len(texts)
      PROVE  /\ DOMAIN batch = DOMAIN texts /\ batch = [j \in DOMAIN batch |-> batch[j]]
             /\ EventAt(batch[i], c, n + i) /\ batch[i].key = key
             /\ DOMAIN batch[i] = {"id", "conv", "seq", "text", "tokens", "key", "digest", "artifacts"}
  <2> DEFINE seq == MemNextSequence(memory, c) + i - 1
             e == [id |-> <<c, seq, texts[i]>>, conv |-> c, seq |-> seq, text |-> texts[i],
                   tokens |-> Cardinality(texts[i]), key |-> key,
                   digest |-> IF key = NoKey THEN <<>> ELSE texts,
                   artifacts |-> {a.id : a \in {x \in ToSet(memory.artifacts) : x.conv = c}}]
  <2>1. seq = n + i
    BY <1>1 DEF MemNextSequence
  <2>2. batch[i] = e
    BY <1>2 DEF Batch
  <2>3. DOMAIN batch = DOMAIN texts /\ batch = [j \in DOMAIN batch |-> batch[j]]
    BY DEF Batch
  <2> HIDE DEF batch, seq
  <2> QED
    BY <2>1, <2>2, <2>3 DEF EventAt
<1>4. DOMAIN batch = DOMAIN texts /\ batch = [j \in DOMAIN batch |-> batch[j]]
  BY DEF Batch
<1> HIDE DEF batch
<1>5. IsList(batch) /\ Len(batch) = Len(texts)
  BY <1>2, <1>4, MappedList
<1> QED
  BY <1>3, <1>5 DEF BatchAt, batch

(* The in-memory store                                                     *)
TakenUpto(c, k, acc) ==
    /\ {"next", "answer"} \subseteq DOMAIN acc /\ acc.answer = "ok"
    /\ IsList(acc.next) /\ Len(acc.next) = Len(c[2]) + k
    /\ \A i \in 1 .. Len(c[2]) : acc.next[i] = c[2][i]
    /\ \A i \in 1 .. k : acc.next[Len(c[2]) + i] = c[3][i]

MemStepAt(c, acc, e) == MemTake(c[1], acc, e)

Taking == INSTANCE FoldTheorems WITH Op <- MemStepAt, Inv <- TakenUpto

LEMMA MemTakenIs ==
    ASSUME NEW old, IsList(old), NEW c, NEW key, NEW batch, BatchAt(batch, c, Len(old), key),
           NEW known, \A i \in 1 .. Len(batch) : batch[i].id \notin known
    PROVE  LET end == MemTaken(known, [next |-> old, answer |-> "ok"], batch)
           IN  end.answer = "ok" /\ end.next = old \o batch
<1> DEFINE x == <<known, old, batch>>
           start == [next |-> old, answer |-> "ok"]
           n == Len(old)
           k == Len(batch)
           end == MemTaken(known, start, batch)
<1>1. k \in Nat /\ DOMAIN batch = 1 .. k /\ n \in Nat /\ IsList(batch) /\ x[1] = known /\ x[2] = old /\ x[3] = batch
  BY ListIs DEF BatchAt
<1>2. TakenUpto(x, 0, start)
  BY <1>1 DEF TakenUpto
<1> HIDE DEF start
<1>3. end = Taking!Fold(x, start, batch)
  BY DEF MemTaken, MemStepAt, FoldLeft, MapThenFoldSet, Max, Taking!Fold, Taking!Greatest
<1> HIDE DEF x, n, k, end
<1>4. ASSUME NEW i \in 1 .. k, NEW acc, TakenUpto(x, i - 1, acc)
      PROVE  TakenUpto(x, i, MemStepAt(x, acc, batch[i]))
  <2> DEFINE e == batch[i]
             next == [acc EXCEPT !.next = Append(@, e)]
  <2>1. /\ {"next", "answer"} \subseteq DOMAIN acc /\ acc.answer = "ok"
        /\ IsList(acc.next) /\ Len(acc.next) = n + (i - 1)
        /\ \A j \in 1 .. n : acc.next[j] = old[j]
        /\ \A j \in 1 .. (i - 1) : acc.next[n + j] = batch[j]
    BY <1>1, <1>4 DEF TakenUpto, n
  <2>2. e.seq = n + i /\ e.id \notin known
    BY <1>1 DEF BatchAt, EventAt, n, k
  <2>3. MemStepAt(x, acc, e) = next
    BY <1>1, <2>1, <2>2 DEF MemStepAt, MemTake
  <2> HIDE DEF e
  <2>4. DOMAIN next = DOMAIN acc /\ next.answer = "ok" /\ next.next = Append(acc.next, e)
    BY <2>1
  <2> HIDE DEF next
  <2>5. /\ IsList(next.next) /\ Len(next.next) = n + i
        /\ \A j \in 1 .. (n + (i - 1)) : next.next[j] = acc.next[j]
        /\ next.next[n + i] = e
    <3>1. n + (i - 1) + 1 = n + i
      BY <1>1
    <3> QED
      BY <2>1, <2>4, <3>1, AppendList
  <2>6. \A j \in 1 .. n : next.next[j] = old[j]
    BY <1>1, <2>1, <2>5
  <2>7. ASSUME NEW j \in 1 .. i PROVE next.next[n + j] = batch[j]
    <3>1. CASE j = i
      BY <2>5, <3>1 DEF e
    <3>2. CASE j # i
      <4>1. j \in 1 .. (i - 1) /\ n + j \in 1 .. (n + (i - 1))
        BY <1>1, <3>2
      <4> QED
        BY <2>1, <2>5, <4>1
    <3> QED
      BY <3>1, <3>2
  <2>8. TakenUpto(x, i, next)
    BY <1>1, <2>1, <2>4, <2>5, <2>6, <2>7 DEF TakenUpto, n
  <2> QED
    BY <2>3, <2>8 DEF e
<1>5. TakenUpto(x, k, end)
  <2>1. \A i \in 1 .. k : \A a : TakenUpto(x, i - 1, a) => TakenUpto(x, i, MemStepAt(x, a, batch[i]))
    BY <1>4
  <2>2. TakenUpto(x, k, Taking!Fold(x, start, batch))
    BY ONLY <1>1, <1>2, <2>1, LeastNatural, Taking!FoldKeeps
  <2> QED
    BY <1>3, <2>2
<1>6. /\ end.answer = "ok" /\ IsList(end.next) /\ Len(end.next) = n + k
      /\ \A i \in 1 .. n : end.next[i] = old[i]
      /\ \A i \in 1 .. k : end.next[n + i] = batch[i]
  BY <1>1, <1>5 DEF TakenUpto, n
<1>7. end.next = old \o batch
  <2> DEFINE q == old \o batch
  <2>1. /\ IsList(q) /\ Len(q) = n + k /\ \A i \in 1 .. n : q[i] = old[i]
        /\ \A i \in 1 .. k : q[n + i] = batch[i]
    BY <1>1, ConcatList DEF n, k
  <2> HIDE DEF q
  <2>2. ASSUME NEW i \in 1 .. (n + k) PROVE q[i] = end.next[i]
    <3>1. CASE i \in 1 .. n
      BY <1>6, <2>1, <3>1
    <3>2. CASE i \notin 1 .. n
      <4>1. i - n \in 1 .. k /\ n + (i - n) = i
        BY <1>1, <3>2
      <4> QED
        BY <1>6, <2>1, <4>1
    <3> QED
      BY <3>1, <3>2
  <2>3. end.next = q
    BY <1>6, <2>1, <2>2, SameLists
  <2> QED
    BY <2>3 DEF q
<1> QED
  BY <1>6, <1>7 DEF end, start

(* The ledger with the batch behind it                                     *)
With(events, c, batch) == [events EXCEPT ![c] = @ \o batch]

Grown(more, events, c, batch) ==
    /\ Ledger(more) /\ Len(events[c]) \in Nat /\ Len(batch) \in Nat
    /\ Len(more[c]) = Len(events[c]) + Len(batch)
    /\ \A d \in Conversations \ {c} : more[d] = events[d]
    /\ \A i \in 1 .. Len(events[c]) : more[c][i] = events[c][i]
    /\ \A i \in 1 .. Len(batch) : more[c][Len(events[c]) + i] = batch[i]

LEMMA LedgerGrows ==
    ASSUME NEW events, Ledger(events), NEW c \in Conversations, NEW key, NEW batch,
           BatchAt(batch, c, Len(events[c]), key), Len(events[c]) + Len(batch) <= MaxEvents,
           NEW more, more = With(events, c, batch)
    PROVE  Grown(more, events, c, batch)
<1> DEFINE old == events[c]
           q == old \o batch
           n == Len(old)
           k == Len(batch)
<1>1. IsList(old) /\ IsList(batch) /\ n \in Nat /\ k \in Nat
  BY ListIs DEF Ledger, BatchAt
<1>2. /\ IsList(q) /\ Len(q) = n + k /\ \A i \in 1 .. n : q[i] = old[i]
      /\ \A i \in 1 .. k : q[n + i] = batch[i]
  BY <1>1, ConcatList
<1>3. more[c] = q /\ DOMAIN more = Conversations /\ \A d \in Conversations \ {c} : more[d] = events[d]
  BY DEF With, Ledger
<1>4. \A i \in 1 .. n : EventAt(old[i], c, i)
  BY DEF Ledger
<1>5. \A i \in 1 .. k : EventAt(batch[i], c, n + i)
  BY DEF BatchAt
<1> HIDE DEF q, n, k
<1>6. ASSUME NEW i \in 1 .. (n + k) PROVE EventAt(q[i], c, i)
  <2>1. CASE i \in 1 .. n
    BY <1>2, <1>4, <2>1
  <2>2. CASE i \notin 1 .. n
    <3>1. i - n \in 1 .. k /\ n + (i - n) = i
      BY <1>1, <2>2
    <3> QED
      BY <1>2, <1>5, <3>1
  <2> QED
    BY <2>1, <2>2
<1>7. Ledger(more)
  <2>1. ASSUME NEW d \in Conversations
        PROVE  /\ IsList(more[d]) /\ Len(more[d]) <= MaxEvents
               /\ \A i \in 1 .. Len(more[d]) : EventAt(more[d][i], d, i)
    <3>1. CASE d = c
      BY <1>2, <1>3, <1>6, <3>1 DEF n, k
    <3>2. CASE d # c
      BY <1>3, <3>2 DEF Ledger
    <3> QED
      BY <3>1, <3>2
  <2> QED
    BY <1>3, <2>1 DEF Ledger
<1> QED
  BY <1>1, <1>2, <1>3, <1>7 DEF n, k, Grown

LEMMA MirrorsBefore ==
    ASSUME NEW events, NEW more, NEW rows, NEW c \in Conversations, Mirrors(rows, events),
           \A d \in Conversations \ {c} : more[d] = events[d],
           \A i \in 1 .. Len(events[c]) : more[c][i] = events[c][i]
    PROVE  MirrorsUpto(rows, more, c, Len(events[c]))
<1>1. MirrorsUpto(rows, events, c, Len(events[c]))
  BY DEF Mirrors
<1>2. \A d \in Conversations : Shown(more, c, Len(events[c]), d) = Shown(events, c, Len(events[c]), d)
  BY DEF Shown
<1>3. ASSUME NEW d \in Conversations, NEW i \in 1 .. Shown(events, c, Len(events[c]), d) PROVE more[d][i] = events[d][i]
  BY <1>3 DEF Shown
<1> QED
  BY <1>1, <1>2, <1>3 DEF MirrorsUpto

LEMMA MirrorsAfter ==
    ASSUME NEW events, NEW rows, NEW c \in Conversations, MirrorsUpto(rows, events, c, Len(events[c]))
    PROVE  Mirrors(rows, events)
<1>1. ASSUME NEW d \in Conversations, NEW x \in Conversations
      PROVE  Shown(events, d, Len(events[d]), x) = Shown(events, c, Len(events[c]), x)
  BY DEF Shown
<1> QED
  BY <1>1 DEF Mirrors, MirrorsUpto

(* The row of the next event is new, and with it the rows are complete up  *)
(* to that event.                                                          *)
LEMMA Unseen ==
    ASSUME NEW events, Ledger(events), NEW rows, NEW c \in Conversations, NEW m \in Nat, m <= Len(events[c]),
           MirrorsUpto(rows, events, c, m), NEW e, NEW i, EventAt(e, c, i), i > m
    PROVE  \A r \in rows : r.id # e.id
<1> SUFFICES ASSUME NEW r \in rows, r.id = e.id PROVE FALSE
  OBVIOUS
<1> DEFINE d == r.conv
           x == events[d][r.seq]
<1>1. d \in Conversations /\ r.seq \in 1 .. Shown(events, c, m, d) /\ r.id = x.id
  BY DEF MirrorsUpto, RowOf
<1>2. Len(events[c]) \in Nat
  BY ListIs DEF Ledger
<1>3. r.seq \in 1 .. Len(events[d]) /\ (d = c => r.seq <= m)
  BY <1>1, <1>2 DEF Shown
<1>4. EventAt(x, d, r.seq)
  BY <1>1, <1>3 DEF Ledger
<1> QED
  BY <1>1, <1>3, <1>4 DEF EventAt

LEMMA MirrorsGrow ==
    ASSUME NEW events, NEW rows, NEW c \in Conversations, NEW m \in Nat,
           MirrorsUpto(rows, events, c, m), NEW e, EventAt(e, c, m + 1), events[c][m + 1] = e,
           NEW row, RowOf(row, e)
    PROVE  MirrorsUpto(rows \cup {row}, events, c, m + 1)
<1> DEFINE all == rows \cup {row}
<1>1. row.conv = c /\ row.seq = m + 1
  BY DEF RowOf, EventAt
<1>2. Shown(events, c, m + 1, c) = m + 1 /\ Shown(events, c, m, c) = m
      /\ \A d \in Conversations : d # c => Shown(events, c, m + 1, d) = Shown(events, c, m, d)
  BY DEF Shown
<1>3. IsFiniteSet(all)
  BY FS_AddElement DEF MirrorsUpto
<1>4. ASSUME NEW r \in all
      PROVE  /\ r.conv \in Conversations /\ r.seq \in 1 .. Shown(events, c, m + 1, r.conv)
             /\ RowOf(r, events[r.conv][r.seq])
  <2>1. CASE r \in rows
    <3>1. r.conv \in Conversations /\ r.seq \in 1 .. Shown(events, c, m, r.conv) /\ RowOf(r, events[r.conv][r.seq])
      BY <2>1 DEF MirrorsUpto
    <3> QED
      BY <1>2, <3>1
  <2>2. CASE r = row
    BY <1>1, <1>2, <2>2
  <2> QED
    BY <2>1, <2>2
<1>5. ASSUME NEW d \in Conversations, NEW i \in 1 .. Shown(events, c, m + 1, d)
      PROVE  \E r \in all : r.conv = d /\ r.seq = i
  <2>1. CASE d = c /\ i = m + 1
    BY <1>1, <2>1
  <2>2. CASE ~ (d = c /\ i = m + 1)
    <3>1. i \in 1 .. Shown(events, c, m, d)
      BY <1>2, <2>2
    <3> QED
      BY <3>1 DEF MirrorsUpto
  <2> QED
    BY <2>1, <2>2
<1>6. ASSUME NEW r \in all, NEW x \in all, r.conv = x.conv, r.seq = x.seq PROVE r = x
  <2>1. ASSUME NEW y \in rows PROVE ~ (y.conv = c /\ y.seq = m + 1)
    <3>1. y.conv = c => y.seq \in 1 .. m
      BY <1>2 DEF MirrorsUpto
    <3> QED
      BY <3>1
  <2>2. r \in rows /\ x \in rows => r = x
    BY <1>6 DEF MirrorsUpto
  <2> QED
    BY <1>1, <1>6, <2>1, <2>2
<1> QED
  BY <1>3, <1>4, <1>5, <1>6 DEF MirrorsUpto

LEMMA NextSeqIs ==
    ASSUME NEW events, Ledger(events), NEW t, Mirrors(t.events, events), NEW c \in Conversations
    PROVE  NextSeq(t, c) = Len(events[c]) + 1
<1> DEFINE n == Len(events[c])
           S == {r.seq : r \in Rows(t.events, "conv", c)}
<1>1. n \in Nat
  BY ListIs DEF Ledger
<1>2. /\ \A r \in t.events : r.conv = c => r.seq \in 1 .. n
      /\ \A i \in 1 .. n : \E r \in t.events : r.conv = c /\ r.seq = i
  BY DEF Mirrors, MirrorsUpto, Shown
<1> HIDE DEF n
<1>3. S = 1 .. n
  BY <1>2 DEF Rows
<1> HIDE DEF S
<1>4. Maximum(S, 0) = n
  <2>1. CASE n = 0
    <3>1. S = {}
      BY <1>3, <2>1
    <3> QED
      BY <2>1, <3>1 DEF Maximum
  <2>2. CASE n # 0
    <3>1. n \in S /\ \A y \in S : y <= n
      BY <1>1, <1>3, <2>2
    <3>2. S # {} /\ \A x, y \in S : x <= y /\ y <= x => x = y
      BY <1>1, <1>3, <3>1
    <3> QED
      BY <3>1, <3>2 DEF Maximum
  <2> QED
    BY <2>1, <2>2
<1> QED
  BY <1>4 DEF NextSeq, S, n

LEMMA KeyUnseen ==
    ASSUME NEW events, Ledger(events), NEW t, Mirrors(t.events, events), NEW c \in Conversations,
           NEW key, key # NoKey, \A e \in ToSet(events[c]) : e.key # key
    PROVE  KeyedRow(t, c, key) = {}
<1> SUFFICES ASSUME NEW r \in t.events, r.conv = c, r.keyColumn = key PROVE FALSE
  BY DEF KeyedRow, Rows
<1>1. r.seq \in 1 .. Len(events[c]) /\ r.keyColumn \in {NoKey, events[c][r.seq].key}
  BY DEF Mirrors, MirrorsUpto, Shown, RowOf
<1>2. events[c][r.seq] \in ToSet(events[c])
  BY <1>1, ListIs DEF Ledger
<1> QED
  BY <1>1, <1>2

LEMMA EventRowIs ==
    ASSUME NEW e, "keyColumn" \notin DOMAIN e, {"id", "conv", "seq", "text", "key"} \subseteq DOMAIN e,
           NEW key, key \in {NoKey, e.key}
    PROVE  RowOf(EventRow(e, key), e)
BY DEF EventRow, RowOf

(* SQLite                                                                  *)
LiteStepAt(x, acc, e) == LiteTake(x[1], acc, e)

(* x is the conversation, the ledger with the batch, how many events were  *)
(* there before, the key and the tables.                                   *)
LiteUpto(x, k, acc) ==
    /\ {"t", "keys", "expected", "answer"} \subseteq DOMAIN acc /\ acc.answer = "ok"
    /\ acc.expected = x[3] + k + 1 /\ acc.keys = (IF k = 0 THEN {} ELSE {x[4]})
    /\ k = 0 => acc.t = x[5]
    /\ DOMAIN acc.t = DOMAIN x[5] /\ MirrorsUpto(acc.t.events, x[2], x[1], x[3] + k)

LiteTaking == INSTANCE FoldTheorems WITH Op <- LiteStepAt, Inv <- LiteUpto

LEMMA LiteAppends ==
    ASSUME NEW events, Ledger(events), NEW t, "events" \in DOMAIN t, Mirrors(t.events, events),
           NEW c \in Conversations, NEW key, key # NoKey => \A e \in ToSet(events[c]) : e.key # key,
           NEW batch, BatchAt(batch, c, Len(events[c]), key), Len(events[c]) + Len(batch) <= MaxEvents
    PROVE  LET r == LiteAppendEvents(t, c, batch)
           IN  /\ r.error = "none" /\ DOMAIN r.store = DOMAIN t
               /\ Mirrors(r.store.events, With(events, c, batch))
<1> DEFINE more == With(events, c, batch)
           n == Len(events[c])
           k == Len(batch)
           x == <<c, more, n, key, t>>
           start == [t |-> t, keys |-> {}, expected |-> NextSeq(t, c), answer |-> "ok"]
           end == LiteTaken(c, start, batch)
<1>0. more = With(events, c, batch) /\ n = Len(events[c]) /\ k = Len(batch)
  OBVIOUS
<1> HIDE DEF more, n, k
<1>1. /\ Ledger(more) /\ n \in Nat /\ k \in Nat /\ Len(more[c]) = n + k
      /\ \A d \in Conversations \ {c} : more[d] = events[d]
      /\ \A i \in 1 .. n : more[c][i] = events[c][i]
      /\ \A i \in 1 .. k : more[c][n + i] = batch[i]
  <2>1. /\ Ledger(events) /\ BatchAt(batch, c, Len(events[c]), key)
        /\ Len(events[c]) + Len(batch) <= MaxEvents /\ c \in Conversations
    OBVIOUS
  <2>2. Grown(more, events, c, batch)
    BY ONLY <1>0, <2>1, LedgerGrows
  <2> QED
    BY ONLY <1>0, <2>2 DEF Grown
<1> USE DEF n, k
<1>2. DOMAIN batch = 1 .. k /\ \A i \in 1 .. k : EventAt(batch[i], c, n + i) /\ batch[i].key = key
  BY ListIs DEF BatchAt
<1>3. \A i \in 1 .. k : "keyColumn" \notin DOMAIN batch[i] /\ {"id", "conv", "seq", "text", "key"} \subseteq DOMAIN batch[i]
  BY DEF BatchAt
<1>4. x[1] = c /\ x[2] = more /\ x[3] = n /\ x[4] = key /\ x[5] = t
  OBVIOUS
<1>5. LiteUpto(x, 0, start)
  <2>1. NextSeq(t, c) = n + 1
    BY NextSeqIs
  <2>2. MirrorsUpto(t.events, more, c, n)
    BY <1>1, MirrorsBefore
  <2>3. n + 0 = n /\ n + 0 + 1 = n + 1
    BY <1>1
  <2> HIDE DEF x, n
  <2> QED
    BY <1>4, <2>1, <2>2, <2>3 DEF LiteUpto
<1>6. key # NoKey => KeyedRow(t, c, key) = {}
  BY KeyUnseen
<1> HIDE DEF x, n, k, start
<1>7. end = LiteTaking!Fold(x, start, batch)
  BY <1>4 DEF LiteTaken, LiteStepAt, FoldLeft, MapThenFoldSet, Max, LiteTaking!Fold, LiteTaking!Greatest
<1> HIDE DEF end
<1>8. ASSUME NEW i \in 1 .. k, NEW acc, LiteUpto(x, i - 1, acc)
      PROVE  LiteUpto(x, i, LiteStepAt(x, acc, batch[i]))
  <2> DEFINE e == batch[i]
             s == acc.t
             row == EventRow(e, IF i = 1 THEN key ELSE NoKey)
             u == [s EXCEPT !.events = @ \cup {row}]
             next == [acc EXCEPT !.t = u, !.keys = @ \cup {key}, !.expected = @ + 1]
  <2>1. i \in Nat /\ i - 1 \in Nat /\ n + (i - 1) + 1 = n + i /\ n + i + 1 = (n + i) + 1 /\ n + (i - 1) \in Nat
        /\ n + (i - 1) <= Len(more[c]) /\ n + i > n + (i - 1)
    BY <1>1
  <2>2. /\ {"t", "keys", "expected", "answer"} \subseteq DOMAIN acc /\ acc.answer = "ok"
        /\ acc.expected = n + i /\ acc.keys = (IF i = 1 THEN {} ELSE {key})
        /\ i = 1 => s = t
        /\ DOMAIN s = DOMAIN t /\ MirrorsUpto(s.events, more, c, n + (i - 1))
    BY <1>4, <1>8, <2>1 DEF LiteUpto
  <2>3. e.key = key /\ e.seq = n + i /\ EventAt(e, c, n + i) /\ more[c][n + i] = e
    BY <1>1, <1>2 DEF EventAt
  <2>4. RowOf(row, e)
    BY <1>3, <2>3, EventRowIs
  <2>5. \A r \in s.events : r.id # e.id
    BY <1>1, <2>1, <2>2, <2>3, Unseen
  <2>6. MessageConv(s, e.id) = {}
    BY <2>5 DEF MessageConv, Rows
  <2>7. MirrorsUpto(s.events \cup {row}, more, c, n + i)
    BY <2>1, <2>2, <2>3, <2>4, MirrorsGrow
  <2> HIDE DEF e, s, row
  <2>8. LiteInsertEvent(s, e, IF i = 1 THEN key ELSE NoKey) = u
    BY <2>6 DEF LiteInsertEvent, row
  <2>9. LiteStepAt(x, acc, e) = next
    <3>1. LiteStepAt(x, acc, e) = LiteTake(c, acc, e)
      BY <1>4 DEF LiteStepAt
    <3>2. (e.key # NoKey /\ e.key \notin acc.keys) <=> (key # NoKey /\ i = 1)
      BY <2>2, <2>3
    <3>3. i = 1 /\ key # NoKey => KeyedRow(s, c, key) = {}
      BY <1>6, <2>2
    <3>4. (IF e.key # NoKey /\ e.key \notin acc.keys THEN e.key ELSE NoKey) = IF i = 1 THEN key ELSE NoKey
      BY <2>3, <3>2
    <3>5. (IF e.key # NoKey /\ e.key \notin acc.keys THEN KeyedRow(acc.t, c, e.key) ELSE {}) = {}
      BY <2>3, <3>2, <3>3 DEF s
    <3> HIDE DEF u
    <3> QED
      BY <2>2, <2>3, <2>8, <3>1, <3>4, <3>5 DEF LiteTake, s
  <2>10. DOMAIN u = DOMAIN s /\ u.events = s.events \cup {row}
    BY <2>2
  <2> HIDE DEF u
  <2>11. /\ DOMAIN next = DOMAIN acc /\ next.answer = "ok" /\ next.t = u
         /\ next.keys = {key} /\ next.expected = n + i + 1
    BY <2>2
  <2> HIDE DEF next
  <2>12. LiteUpto(x, i, next)
    <3>1. {"t", "keys", "expected", "answer"} \subseteq DOMAIN next /\ next.answer = "ok"
      BY <2>2, <2>11
    <3>2. i # 0 /\ next.expected = x[3] + i + 1 /\ next.keys = {x[4]}
      BY <1>4, <2>11
    <3>3. DOMAIN next.t = DOMAIN x[5] /\ MirrorsUpto(next.t.events, x[2], x[1], x[3] + i)
      BY <1>4, <2>2, <2>7, <2>10, <2>11
    <3> QED
      BY <3>1, <3>2, <3>3 DEF LiteUpto
  <2> QED
    BY <2>9, <2>12 DEF e
<1>9. LiteUpto(x, k, end)
  <2>1. \A i \in 1 .. k : \A a : LiteUpto(x, i - 1, a) => LiteUpto(x, i, LiteStepAt(x, a, batch[i]))
    BY <1>8
  <2>2. LiteUpto(x, k, LiteTaking!Fold(x, start, batch))
    BY ONLY <1>1, <1>2, <1>5, <2>1, LeastNatural, LiteTaking!FoldKeeps
  <2> QED
    BY <1>7, <2>2
<1>10. end.answer = "ok" /\ DOMAIN end.t = DOMAIN t /\ MirrorsUpto(end.t.events, more, c, Len(more[c]))
  BY <1>1, <1>4, <1>9 DEF LiteUpto
<1>11. Mirrors(end.t.events, more)
  BY <1>10, MirrorsAfter
<1>12. LiteAppendEvents(t, c, batch) = Done(end.t, 0)
  BY <1>10 DEF LiteAppendEvents, end, start
<1> QED
  BY <1>10, <1>11, <1>12, DoneIs DEF more

(* PostgreSQL                                                              *)
(* The rows of the events behind the first m, all at once                  *)
LEMMA MirrorsJoin ==
    ASSUME NEW events, NEW rows, NEW c \in Conversations, NEW m \in Nat, NEW k \in Nat,
           MirrorsUpto(rows, events, c, m), NEW q, IsList(q), Len(q) = k,
           \A j \in 1 .. k : EventAt(events[c][m + j], c, m + j) /\ RowOf(q[j], events[c][m + j])
    PROVE  MirrorsUpto(rows \cup ToSet(q), events, c, m + k)
<1> DEFINE all == rows \cup ToSet(q)
<1>0. DOMAIN q = 1 .. k /\ m + k \in Nat /\ k <= m + k /\ m <= m + k
  BY ListIs
<1>1. \A j \in 1 .. k : q[j].conv = c /\ q[j].seq = m + j
  BY DEF RowOf, EventAt
<1>2. ToSet(q) = {q[j] : j \in 1 .. k}
  BY <1>0 DEF ToSet
<1>3. Shown(events, c, m + k, c) = m + k /\ Shown(events, c, m, c) = m
      /\ \A d \in Conversations : d # c => Shown(events, c, m + k, d) = Shown(events, c, m, d)
  BY DEF Shown
<1>4. IsFiniteSet(all)
  <2>1. IsFiniteSet(1 .. k)
    BY FS_Interval
  <2>2. IsFiniteSet(ToSet(q))
    BY ONLY <1>0, <1>2, <2>1, FiniteImage
  <2>3. IsFiniteSet(rows)
    BY DEF MirrorsUpto
  <2> QED
    BY ONLY <2>2, <2>3, FS_Union
<1>5. \A r \in rows : r.conv = c => r.seq \in 1 .. m
  BY <1>3 DEF MirrorsUpto
<1>6. ASSUME NEW r \in all
      PROVE  /\ r.conv \in Conversations /\ r.seq \in 1 .. Shown(events, c, m + k, r.conv)
             /\ RowOf(r, events[r.conv][r.seq])
  <2>1. CASE r \in rows
    <3>1. r.conv \in Conversations /\ r.seq \in 1 .. Shown(events, c, m, r.conv) /\ RowOf(r, events[r.conv][r.seq])
      BY <2>1 DEF MirrorsUpto
    <3>2. r.conv = c => r.seq \in 1 .. (m + k)
      BY <1>0, <1>5, <2>1
    <3> QED
      BY <1>3, <3>1, <3>2
  <2>2. CASE r \notin rows
    <3>1. PICK j \in 1 .. k : r = q[j]
      BY <1>2, <2>2
    <3>2. m + j \in 1 .. (m + k)
      OBVIOUS
    <3> QED
      BY <1>1, <1>3, <3>1, <3>2
  <2> QED
    BY <2>1, <2>2
<1>7. ASSUME NEW d \in Conversations, NEW i \in 1 .. Shown(events, c, m + k, d)
      PROVE  \E r \in all : r.conv = d /\ r.seq = i
  <2>1. CASE d = c /\ i \notin 1 .. m
    <3>1. i - m \in 1 .. k /\ m + (i - m) = i
      BY <1>3, <2>1
    <3>2. q[i - m] \in all /\ q[i - m].conv = d /\ q[i - m].seq = i
      BY <1>1, <1>2, <2>1, <3>1
    <3> QED
      BY <3>2
  <2>2. CASE ~ (d = c /\ i \notin 1 .. m)
    <3>1. i \in 1 .. Shown(events, c, m, d)
      BY <1>3, <2>2
    <3> QED
      BY <3>1 DEF MirrorsUpto
  <2> QED
    BY <2>1, <2>2
<1>8. ASSUME NEW r \in all, NEW x \in all, r.conv = x.conv, r.seq = x.seq PROVE r = x
  <2>1. CASE r \in rows /\ x \in rows
    BY <1>8, <2>1 DEF MirrorsUpto
  <2>2. CASE r \notin rows /\ x \notin rows
    <3>1. PICK i \in 1 .. k : r = q[i]
      BY <1>2, <2>2
    <3>2. PICK j \in 1 .. k : x = q[j]
      BY <1>2, <2>2
    <3>3. m + i = m + j
      BY <1>1, <1>8, <3>1, <3>2
    <3> QED
      BY <3>1, <3>2, <3>3
  <2>3. ASSUME NEW y \in rows, NEW j \in 1 .. k PROVE ~ (y.conv = q[j].conv /\ y.seq = q[j].seq)
    <3>1. y.conv = c => y.seq \in 1 .. m
      BY <1>5
    <3> QED
      BY <1>1, <3>1
  <2>4. r \in rows \/ \E j \in 1 .. k : r = q[j]
    BY <1>2
  <2>5. x \in rows \/ \E j \in 1 .. k : x = q[j]
    BY <1>2
  <2> QED
    BY <1>8, <2>1, <2>2, <2>3, <2>4, <2>5
<1> QED
  BY <1>4, <1>6, <1>7, <1>8 DEF MirrorsUpto

PgStepAt(x, acc, e) == PgPrepare(x[1], x[2], acc, e)

(* x is the tables, the conversation, the batch, how many events were      *)
(* there before and the key.                                               *)
PgUpto(x, k, acc) ==
    /\ {"rows", "keys", "expected", "answer"} \subseteq DOMAIN acc /\ acc.answer = "ok"
    /\ acc.expected = x[4] + k + 1 /\ acc.keys = (IF k = 0 THEN {} ELSE {x[5]})
    /\ IsList(acc.rows) /\ Len(acc.rows) = k
    /\ \A i \in 1 .. k : RowOf(acc.rows[i], x[3][i])

PgTaking == INSTANCE FoldTheorems WITH Op <- PgStepAt, Inv <- PgUpto

LEMMA PgPreparedIs ==
    ASSUME NEW t, NEW c, NEW key, key # NoKey => KeyedRow(t, c, key) = {}, NEW n \in Nat, NextSeq(t, c) = n + 1,
           NEW batch, BatchAt(batch, c, n, key)
    PROVE  LET end == PgPrepared(t, c, [rows |-> <<>>, keys |-> {}, expected |-> NextSeq(t, c), answer |-> "ok"], batch)
           IN  /\ end.answer = "ok" /\ IsList(end.rows) /\ Len(end.rows) = Len(batch)
               /\ \A i \in 1 .. Len(batch) : RowOf(end.rows[i], batch[i])
<1> DEFINE k == Len(batch)
           x == <<t, c, batch, n, key>>
           start == [rows |-> <<>>, keys |-> {}, expected |-> NextSeq(t, c), answer |-> "ok"]
           end == PgPrepared(t, c, start, batch)
<1>1. k \in Nat /\ DOMAIN batch = 1 .. k
      /\ \A i \in 1 .. k : EventAt(batch[i], c, n + i) /\ batch[i].key = key
  BY ListIs DEF BatchAt
<1>2. \A i \in 1 .. k : "keyColumn" \notin DOMAIN batch[i] /\ {"id", "conv", "seq", "text", "key"} \subseteq DOMAIN batch[i]
  BY DEF BatchAt
<1>3. x[1] = t /\ x[2] = c /\ x[3] = batch /\ x[4] = n /\ x[5] = key
  OBVIOUS
<1>4. PgUpto(x, 0, start)
  <2>1. IsList(<<>>) /\ Len(<<>>) = 0
    BY NoList
  <2>2. n + 0 + 1 = n + 1 /\ 1 .. 0 = {}
    OBVIOUS
  <2> HIDE DEF x
  <2> QED
    BY <1>3, <2>1, <2>2 DEF PgUpto
<1> HIDE DEF x, k, start
<1>5. end = PgTaking!Fold(x, start, batch)
  BY <1>3 DEF PgPrepared, PgStepAt, FoldLeft, MapThenFoldSet, Max, PgTaking!Fold, PgTaking!Greatest
<1> HIDE DEF end
<1>6. ASSUME NEW i \in 1 .. k, NEW acc, PgUpto(x, i - 1, acc)
      PROVE  PgUpto(x, i, PgStepAt(x, acc, batch[i]))
  <2> DEFINE e == batch[i]
             row == EventRow(e, IF i = 1 THEN key ELSE NoKey)
             next == [acc EXCEPT !.rows = Append(@, row), !.keys = @ \cup {key}, !.expected = @ + 1]
  <2>1. i \in Nat /\ i - 1 \in Nat /\ n + (i - 1) + 1 = n + i /\ n + i + 1 = (n + i) + 1 /\ (i - 1) + 1 = i
    BY <1>1
  <2>2. /\ {"rows", "keys", "expected", "answer"} \subseteq DOMAIN acc /\ acc.answer = "ok"
        /\ acc.expected = n + i /\ acc.keys = (IF i = 1 THEN {} ELSE {key})
        /\ IsList(acc.rows) /\ Len(acc.rows) = i - 1
        /\ \A j \in 1 .. (i - 1) : RowOf(acc.rows[j], batch[j])
    BY <1>3, <1>6, <2>1 DEF PgUpto
  <2>3. e.key = key /\ e.seq = n + i
    BY <1>1 DEF EventAt
  <2>4. RowOf(row, e)
    BY <1>2, <2>3, EventRowIs
  <2> HIDE DEF e, row
  <2>5. PgStepAt(x, acc, e) = next
    <3>1. PgStepAt(x, acc, e) = PgPrepare(t, c, acc, e)
      BY <1>3 DEF PgStepAt
    <3>2. (e.key # NoKey /\ e.key \notin acc.keys) <=> (key # NoKey /\ i = 1)
      BY <2>2, <2>3
    <3>4. (IF e.key # NoKey /\ e.key \notin acc.keys THEN e.key ELSE NoKey) = IF i = 1 THEN key ELSE NoKey
      BY <2>3, <3>2
    <3>5. (IF e.key # NoKey /\ e.key \notin acc.keys THEN KeyedRow(t, c, e.key) ELSE {}) = {}
      BY <2>3, <3>2
    <3> QED
      BY <2>2, <2>3, <3>1, <3>4, <3>5 DEF PgPrepare, row
  <2>6. /\ DOMAIN next = DOMAIN acc /\ next.answer = "ok" /\ next.rows = Append(acc.rows, row)
        /\ next.keys = {key} /\ next.expected = n + i + 1
    BY <2>2
  <2> HIDE DEF next
  <2>7. /\ IsList(next.rows) /\ Len(next.rows) = i /\ next.rows[i] = row
        /\ \A j \in 1 .. (i - 1) : next.rows[j] = acc.rows[j]
    BY <2>1, <2>2, <2>6, AppendList
  <2>8. ASSUME NEW j \in 1 .. i PROVE RowOf(next.rows[j], batch[j])
    <3>1. CASE j = i
      BY <2>4, <2>7, <3>1 DEF e
    <3>2. CASE j # i
      <4>1. j \in 1 .. (i - 1)
        BY <3>2
      <4> QED
        BY <2>2, <2>7, <4>1
    <3> QED
      BY <3>1, <3>2
  <2>9. PgUpto(x, i, next)
    <3>1. {"rows", "keys", "expected", "answer"} \subseteq DOMAIN next /\ next.answer = "ok"
      BY <2>2, <2>6
    <3>2. i # 0 /\ next.expected = x[4] + i + 1 /\ next.keys = {x[5]}
      BY <1>3, <2>6
    <3>3. \A j \in 1 .. i : RowOf(next.rows[j], x[3][j])
      BY <1>3, <2>8
    <3> QED
      BY <2>7, <3>1, <3>2, <3>3 DEF PgUpto
  <2> QED
    BY <2>5, <2>9 DEF e
<1>7. PgUpto(x, k, end)
  <2>1. \A i \in 1 .. k : \A a : PgUpto(x, i - 1, a) => PgUpto(x, i, PgStepAt(x, a, batch[i]))
    BY <1>6
  <2>2. PgUpto(x, k, PgTaking!Fold(x, start, batch))
    BY ONLY <1>1, <1>4, <2>1, LeastNatural, PgTaking!FoldKeeps
  <2> QED
    BY <1>5, <2>2
<1> QED
  BY <1>3, <1>7 DEF PgUpto, end, start, k

LEMMA PgAppends ==
    ASSUME NEW events, Ledger(events), NEW t, "events" \in DOMAIN t, Mirrors(t.events, events),
           NEW c \in Conversations, NEW key, key # NoKey => \A e \in ToSet(events[c]) : e.key # key,
           NEW batch, BatchAt(batch, c, Len(events[c]), key), Len(events[c]) + Len(batch) <= MaxEvents
    PROVE  LET r == PgAppendEvents(t, c, batch)
           IN  /\ r.error = "none" /\ DOMAIN r.store = DOMAIN t
               /\ Mirrors(r.store.events, With(events, c, batch))
<1> DEFINE more == With(events, c, batch)
           n == Len(events[c])
           k == Len(batch)
           start == [rows |-> <<>>, keys |-> {}, expected |-> NextSeq(t, c), answer |-> "ok"]
           end == PgPrepared(t, c, start, batch)
           q == end.rows
           u == PgInsertPrepared(t, q)
<1>0. more = With(events, c, batch) /\ n = Len(events[c]) /\ k = Len(batch)
  OBVIOUS
<1> HIDE DEF more, n, k
<1>1. Grown(more, events, c, batch)
  <2>1. /\ Ledger(events) /\ BatchAt(batch, c, Len(events[c]), key)
        /\ Len(events[c]) + Len(batch) <= MaxEvents /\ c \in Conversations
    OBVIOUS
  <2> QED
    BY ONLY <1>0, <2>1, LedgerGrows
<1>2. n \in Nat /\ k \in Nat /\ Len(more[c]) = n + k
  BY ONLY <1>0, <1>1 DEF Grown
<1>3. /\ \A d \in Conversations \ {c} : more[d] = events[d]
      /\ \A i \in 1 .. n : more[c][i] = events[c][i]
      /\ \A i \in 1 .. k : more[c][n + i] = batch[i]
  BY ONLY <1>0, <1>1 DEF Grown
<1>4. BatchAt(batch, c, n, key) /\ \A i \in 1 .. k : EventAt(batch[i], c, n + i)
  BY <1>0 DEF BatchAt
<1>5. end.answer = "ok" /\ IsList(q) /\ Len(q) = k /\ \A i \in 1 .. k : RowOf(q[i], batch[i])
  <2>1. NextSeq(t, c) = n + 1
    BY <1>0, NextSeqIs
  <2>2. key # NoKey => KeyedRow(t, c, key) = {}
    BY KeyUnseen
  <2>3. /\ end.answer = "ok" /\ IsList(q) /\ Len(q) = Len(batch)
        /\ \A i \in 1 .. Len(batch) : RowOf(q[i], batch[i])
    BY ONLY <1>2, <1>4, <2>1, <2>2, PgPreparedIs
  <2> QED
    BY ONLY <1>0, <2>3
<1> HIDE DEF end, q
<1>6. \A i \in 1 .. k : MessageConv(t, q[i].id) = {}
  <2>1. MirrorsUpto(t.events, events, c, n) /\ n <= Len(events[c])
    BY <1>0, <1>2 DEF Mirrors
  <2>2. ASSUME NEW i \in 1 .. k PROVE \A r \in t.events : r.id # batch[i].id
    <3>1. n + i > n
      BY <1>2
    <3>2. EventAt(batch[i], c, n + i) /\ Ledger(events) /\ c \in Conversations
      BY <1>4
    <3> QED
      BY ONLY <1>2, <2>1, <3>1, <3>2, Unseen
  <2>3. \A i \in 1 .. k : q[i].id = batch[i].id
    BY <1>5 DEF RowOf
  <2> QED
    BY <2>2, <2>3 DEF MessageConv, Rows
<1>7. DOMAIN u = DOMAIN t /\ u.events = t.events \cup ToSet(q)
  <2>1. DOMAIN q = 1 .. k
    BY <1>5, ListIs
  <2>2. {j \in DOMAIN q : MessageConv(t, q[j].id) = {}} = DOMAIN q
    BY <1>6, <2>1
  <2>3. {q[i] : i \in {j \in DOMAIN q : MessageConv(t, q[j].id) = {}}} = ToSet(q)
    BY <2>2 DEF ToSet
  <2> QED
    BY <2>3 DEF PgInsertPrepared
<1>8. Mirrors(u.events, more)
  <2>1. MirrorsUpto(t.events, more, c, n)
    BY <1>0, <1>3, MirrorsBefore
  <2>2. \A j \in 1 .. k : EventAt(more[c][n + j], c, n + j) /\ RowOf(q[j], more[c][n + j])
    BY <1>3, <1>4, <1>5
  <2>3. MirrorsUpto(t.events \cup ToSet(q), more, c, n + k)
    BY <1>2, <1>5, <2>1, <2>2, MirrorsJoin
  <2> QED
    BY <1>2, <1>7, <2>3, MirrorsAfter
<1>9. PgAppendEvents(t, c, batch) = Done(u, 0)
  BY <1>5 DEF PgAppendEvents, end, start, q
<1> HIDE DEF u
<1>10. Done(u, 0).store = u /\ Done(u, 0).error = "none"
  BY DoneIs
<1>11. /\ PgAppendEvents(t, c, batch).error = "none" /\ PgAppendEvents(t, c, batch).store = u
  BY ONLY <1>9, <1>10
<1> QED
  BY ONLY <1>0, <1>7, <1>8, <1>11

LEMMA MemAppends ==
    ASSUME NEW s, {"events", "items"} \subseteq DOMAIN s, Ledger(s.events), NEW c \in Conversations, NEW key,
           NEW batch, BatchAt(batch, c, Len(s.events[c]), key)
    PROVE  LET r == MemAppendEvents(s, c, batch)
           IN  /\ r.error = "none" /\ DOMAIN r.store = DOMAIN s /\ r.store.items = s.items
               /\ r.store.events = With(s.events, c, batch)
<1> DEFINE known == {e.id : e \in MemEvents(s)}
           old == s.events[c]
           end == MemTaken(known, [next |-> old, answer |-> "ok"], batch)
           u == [s EXCEPT !.events[c] = end.next]
<1>1. \A i \in 1 .. Len(batch) : batch[i].id \notin known
  <2> SUFFICES ASSUME NEW i \in 1 .. Len(batch), NEW d \in Conversations, NEW e \in ToSet(s.events[d]), e.id = batch[i].id
               PROVE FALSE
    BY DEF MemEvents
  <2>1. PICK j \in 1 .. Len(s.events[d]) : e = s.events[d][j]
    BY ListIs DEF Ledger, ToSet
  <2>2. e.id = <<d, j, e.text>>
    BY <2>1 DEF Ledger, EventAt
  <2>3. batch[i].id = <<c, Len(old) + i, batch[i].text>>
    BY DEF BatchAt, EventAt
  <2>4. d = c /\ j = Len(old) + i
    <3> HIDE DEF old
    <3>1. <<d, j, e.text>> = <<c, Len(old) + i, batch[i].text>>
      BY <2>2, <2>3
    <3>2. <<d, j, e.text>>[1] = d /\ <<d, j, e.text>>[2] = j
      OBVIOUS
    <3>3. /\ <<c, Len(old) + i, batch[i].text>>[1] = c
          /\ <<c, Len(old) + i, batch[i].text>>[2] = Len(old) + i
      OBVIOUS
    <3> QED
      BY ONLY <3>1, <3>2, <3>3
  <2>5. Len(old) \in Nat
    BY ListIs DEF Ledger
  <2> QED
    BY <2>4, <2>5
<1>2. IsList(old)
  BY DEF Ledger
<1> HIDE DEF known
<1>3. end.answer = "ok" /\ end.next = old \o batch
  <2>1. BatchAt(batch, c, Len(old), key)
    OBVIOUS
  <2> HIDE DEF old
  <2> QED
    BY ONLY <1>1, <1>2, <2>1, MemTakenIs
<1> HIDE DEF end
<1>4. DOMAIN u = DOMAIN s /\ u.items = s.items /\ u.events = With(s.events, c, batch)
  BY <1>3 DEF With, Ledger
<1>5. MemAppendEvents(s, c, batch) = Done(u, 0)
  BY <1>3 DEF MemAppendEvents, end, known
<1> HIDE DEF u
<1> QED
  BY <1>4, <1>5, DoneIs

-----------------------------------------------------------------------------
(* Every call keeps the three ledgers alike                                *)
LedgersAlike ==
    /\ {"events", "items"} \subseteq DOMAIN memory /\ AllLists(memory.items) /\ Ledger(memory.events)
    /\ "events" \in DOMAIN sqlite /\ Mirrors(sqlite.events, memory.events)
    /\ "events" \in DOMAIN postgres /\ Mirrors(postgres.events, memory.events)

LEMMA FewEvents ==
    ASSUME Ledger(memory.events), NEW c \in Conversations
    PROVE  Len(memory.events[c]) <= Cardinality(MemEvents(memory)) /\ Cardinality(MemEvents(memory)) \in Nat
<1> DEFINE sets == [d \in Conversations |-> ToSet(memory.events[d])]
           all == {sets[d] : d \in Conversations}
           n == Len(memory.events[c])
           mine == ToSet(memory.events[c])
           seq == [e \in mine |-> e.seq]
<1>1. ASSUME NEW d \in Conversations PROVE IsFiniteSet(ToSet(memory.events[d]))
  <2> DEFINE q == memory.events[d]
  <2>1. IsList(q)
    BY DEF Ledger
  <2>2. Len(q) \in Nat /\ DOMAIN q = 1 .. Len(q)
    BY <2>1, ListIs
  <2> HIDE DEF q
  <2>3. IsFiniteSet(DOMAIN q)
    BY <2>2, FS_Interval
  <2>4. ToSet(q) = {q[x] : x \in DOMAIN q}
    BY DEF ToSet
  <2>5. IsFiniteSet({q[x] : x \in DOMAIN q})
    BY ONLY <2>3, FiniteImage
  <2>6. IsFiniteSet(ToSet(q))
    BY <2>4, <2>5
  <2> QED
    BY <2>6 DEF q
<1>2. IsFiniteSet(MemEvents(memory))
  <2>1. IsFiniteSet(all)
    <3>1. DOMAIN sets = Conversations
      OBVIOUS
    <3> HIDE DEF sets
    <3> QED
      BY <3>1, StoresAssumption, FiniteImage
  <2>2. \A T \in all : IsFiniteSet(T)
    BY <1>1
  <2>3. MemEvents(memory) = UNION all
    BY DEF MemEvents
  <2> HIDE DEF all
  <2> QED
    BY <2>1, <2>2, <2>3, FS_UNION
<1>3. n \in Nat /\ \A i \in 1 .. n : memory.events[c][i].seq = i /\ memory.events[c][i] \in mine
  BY ListIs DEF Ledger, EventAt
<1>4. \A e \in mine : e.seq \in 1 .. n
  <2>1. mine = {memory.events[c][i] : i \in 1 .. n}
    BY ListIs DEF Ledger, ToSet
  <2> QED
    BY <1>3, <2>1
<1>5. mine \subseteq MemEvents(memory)
  BY DEF MemEvents
<1> HIDE DEF n, mine
<1>6. seq \in Surjection(mine, 1 .. n)
  BY <1>3, <1>4 DEF Surjection
<1> HIDE DEF seq
<1>7. IsFiniteSet(mine) /\ Cardinality(mine) <= Cardinality(MemEvents(memory))
  BY <1>2, <1>5, FS_Subset
<1>8. Cardinality(1 .. n) <= Cardinality(mine)
  BY <1>6, <1>7, FS_Surjection
<1>9. Cardinality(1 .. n) = n
  <2>1. 1 \in Int /\ n \in Int
    BY <1>3
  <2> QED
    BY <1>3, <2>1, FS_Interval
<1>10. Cardinality(MemEvents(memory)) \in Nat /\ Cardinality(mine) \in Nat
  BY <1>2, <1>7, FS_CardinalityType
<1> QED
  BY <1>3, <1>7, <1>8, <1>9, <1>10 DEF n

(* A unit of work of two steps that keep the ledger keeps it.              *)
LEMMA KeptThrough ==
    ASSUME NEW s, NEW a, Keeps(s, a), NEW b, Keeps(a.store, b)
    PROVE  Keeps(s, UnitOfWork(s, IF a.error # "none" THEN a ELSE b))
BY RefusedKeeps DEF Keeps, SameLedger, UnitOfWork

KeepsLists(s, r) == Keeps(s, r) /\ AllLists(r.store.items)

LEMMA ListsThrough ==
    ASSUME NEW s, AllLists(s.items), NEW a, KeepsLists(s, a), NEW b, KeepsLists(a.store, b)
    PROVE  KeepsLists(s, UnitOfWork(s, IF a.error # "none" THEN a ELSE b))
BY RefusedKeeps DEF KeepsLists, Keeps, SameLedger, UnitOfWork

LEMMA QuietCall ==
    ASSUME LedgersAlike, NEW m, NEW l, NEW p, Call(m, l, p),
           KeepsLists(memory, m), Keeps(sqlite, l), Keeps(postgres, p)
    PROVE  LedgersAlike'
<1>1. memory' = m.store /\ sqlite' = l.store /\ postgres' = p.store
  BY DEF Call
<1>2. /\ DOMAIN memory' = DOMAIN memory /\ memory'.events = memory.events /\ AllLists(memory'.items)
      /\ DOMAIN sqlite' = DOMAIN sqlite /\ sqlite'.events = sqlite.events
      /\ DOMAIN postgres' = DOMAIN postgres /\ postgres'.events = postgres.events
  BY <1>1 DEF KeepsLists, Keeps, SameLedger
<1> QED
  BY <1>2 DEF LedgersAlike

LEMMA AlikeAtFirst == ASSUME StoresInit PROVE LedgersAlike
<1>1. /\ DOMAIN memory = {"conversations", "events", "nodes", "leaf", "parents", "items", "version", "artifacts"}
      /\ memory.events = [c \in Conversations |-> <<>>] /\ memory.items = [c \in Conversations |-> <<>>]
  BY DEF StoresInit, EmptyMemory
<1>2. "events" \in DOMAIN sqlite /\ sqlite.events = {} /\ "events" \in DOMAIN postgres /\ postgres.events = {}
  BY DEF StoresInit, EmptyTables
<1>3. IsList(<<>>) /\ Len(<<>>) = 0 /\ 1 .. 0 = {}
  BY NoList
<1>4. \A c \in Conversations : Len(memory.events[c]) = 0 /\ IsList(memory.events[c]) /\ IsList(memory.items[c])
  BY <1>1, <1>3
<1>5. AllLists(memory.items) /\ Ledger(memory.events)
  BY <1>1, <1>3, <1>4, StoresAssumption DEF AllLists, Ledger
<1>6. Mirrors({}, memory.events)
  <2>1. \A c, d \in Conversations : Shown(memory.events, c, Len(memory.events[c]), d) = 0
    BY <1>4 DEF Shown
  <2> QED
    BY <1>3, <2>1, FS_EmptySet DEF Mirrors, MirrorsUpto
<1> QED
  BY <1>1, <1>2, <1>5, <1>6 DEF LedgersAlike

LEMMA CreationKeeps ==
    ASSUME LedgersAlike, NEW parent, CreateConversation(parent)
    PROVE  LedgersAlike'
<1>1. Call(MemCreate(memory, parent), LiteCreate(sqlite, parent), PgCreate(postgres, parent))
  BY DEF CreateConversation
<1>2. KeepsLists(memory, MemCreate(memory, parent))
  BY MemoryKeeps DEF LedgersAlike, KeepsLists
<1>3. Keeps(sqlite, LiteCreate(sqlite, parent)) /\ Keeps(postgres, PgCreate(postgres, parent))
  BY LiteKeeps, PgKeeps DEF LedgersAlike
<1> QED
  BY ONLY LedgersAlike, <1>1, <1>2, <1>3, QuietCall

LEMMA ExplorationKeeps ==
    ASSUME LedgersAlike, NEW a, NEW explorer, ExploreArtifact(a, explorer)
    PROVE  LedgersAlike'
<1>1. Call(MemUpdateExploration(memory, a, explorer), LiteUpdateExploration(sqlite, a, explorer),
           PgUpdateExploration(postgres, a, explorer))
  BY DEF ExploreArtifact
<1>2. KeepsLists(memory, MemUpdateExploration(memory, a, explorer))
  BY MemoryKeeps DEF LedgersAlike, KeepsLists
<1>3. Keeps(sqlite, LiteUpdateExploration(sqlite, a, explorer)) /\ Keeps(postgres, PgUpdateExploration(postgres, a, explorer))
  BY LiteKeeps, PgKeeps DEF LedgersAlike
<1> QED
  BY ONLY LedgersAlike, <1>1, <1>2, <1>3, QuietCall

LEMMA DuplicateKeeps ==
    ASSUME LedgersAlike, NEW c, NEW texts, NEW key, DuplicateBatch(c, texts, key)
    PROVE  LedgersAlike'
<1>1. memory' = memory /\ sqlite' = sqlite /\ postgres' = postgres
  BY DEF DuplicateBatch
<1> QED
  BY <1>1 DEF LedgersAlike

LEMMA StoringKeeps ==
    ASSUME LedgersAlike, NEW c, NEW a, NEW explorer, StoreArtifact(c, a, explorer)
    PROVE  LedgersAlike'
<1> DEFINE artifact == [id |-> a, conv |-> c, explorer |-> "none"]
           m == MemStoreArtifact(memory, artifact)
           l == LiteStoreArtifact(sqlite, artifact)
           p == PgStoreArtifact(postgres, artifact)
           m2 == MemUpdateExploration(m.store, a, explorer)
           l2 == LiteUpdateExploration(l.store, a, explorer)
           p2 == PgUpdateExploration(p.store, a, explorer)
           m3 == UnitOfWork(memory, IF m.error # "none" THEN m ELSE m2)
           l3 == UnitOfWork(sqlite, IF l.error # "none" THEN l ELSE l2)
           p3 == UnitOfWork(postgres, IF p.error # "none" THEN p ELSE p2)
<1>1. Call(IF m.answer = 0 THEN m ELSE m3, IF l.answer = 0 THEN l ELSE l3, IF p.answer = 0 THEN p ELSE p3)
  BY DEF StoreArtifact, Then
<1>2. KeepsLists(memory, m) /\ Keeps(sqlite, l) /\ Keeps(postgres, p)
  BY MemoryKeeps, LiteKeeps, PgKeeps DEF LedgersAlike, KeepsLists
<1> HIDE DEF m, l, p
<1>3. KeepsLists(m.store, m2) /\ Keeps(l.store, l2) /\ Keeps(p.store, p2)
  <2>1. {"events", "items"} \subseteq DOMAIN m.store /\ AllLists(m.store.items)
        /\ "events" \in DOMAIN l.store /\ "events" \in DOMAIN p.store
    BY <1>2 DEF KeepsLists, Keeps, SameLedger, LedgersAlike
  <2> QED
    BY <2>1, MemoryKeeps, LiteKeeps, PgKeeps DEF KeepsLists
<1> HIDE DEF m2, l2, p2
<1>4. KeepsLists(memory, m3) /\ Keeps(sqlite, l3) /\ Keeps(postgres, p3)
  BY <1>2, <1>3, ListsThrough, KeptThrough DEF LedgersAlike
<1> HIDE DEF m3, l3, p3
<1>5. /\ KeepsLists(memory, IF m.answer = 0 THEN m ELSE m3)
      /\ Keeps(sqlite, IF l.answer = 0 THEN l ELSE l3) /\ Keeps(postgres, IF p.answer = 0 THEN p ELSE p3)
  BY <1>2, <1>4
<1> QED
  BY ONLY LedgersAlike, <1>1, <1>5, QuietCall

LEMMA CompactionKeeps ==
    ASSUME LedgersAlike, NEW c \in Conversations, NEW positions \in SUBSET Nat, NEW snapshot,
           CompactionRound(c, positions, snapshot)
    PROVE  LedgersAlike'
<1> DEFINE n == NewNode
           node == SummaryOf(c, n, positions)
           edges == EdgesOf(c, node.kind, positions)
           ref == [type |-> "summary", id |-> n]
           m1 == MemCreateNode(memory, node)
           l1 == LiteCreateNode(sqlite, node)
           p1 == PgCreateNode(postgres, node)
           m2 == IF node.kind = "leaf" THEN MemAddLeafEdges(m1.store, n, edges) ELSE MemAddCondensedEdges(m1.store, n, edges)
           l2 == IF node.kind = "leaf" THEN LiteAddLeafEdges(l1.store, n, edges) ELSE LiteAddCondensedEdges(l1.store, n, edges)
           p2 == IF node.kind = "leaf" THEN PgAddLeafEdges(p1.store, n, edges) ELSE PgAddCondensedEdges(p1.store, n, edges)
           m3 == UnitOfWork(memory, IF m1.error # "none" THEN m1 ELSE m2)
           l3 == UnitOfWork(sqlite, IF l1.error # "none" THEN l1 ELSE l2)
           p3 == UnitOfWork(postgres, IF p1.error # "none" THEN p1 ELSE p2)
           m4 == MemReplaceContextItems(m3.store, c, snapshot, positions, ref)
           l4 == LiteReplaceContextItems(l3.store, c, snapshot, positions, ref)
           p4 == PgReplaceContextItems(p3.store, c, snapshot, positions, ref)
           m == UnitOfWork(memory, IF m3.error # "none" THEN m3 ELSE m4)
           l == UnitOfWork(sqlite, IF l3.error # "none" THEN l3 ELSE l4)
           p == UnitOfWork(postgres, IF p3.error # "none" THEN p3 ELSE p4)
<1>1. Call(m, l, p)
  BY DEF CompactionRound, Then
<1> HIDE DEF n, node, ref
<1>2. IsList(edges)
  BY EdgesList DEF LedgersAlike
<1> HIDE DEF edges
<1>3. KeepsLists(memory, m1) /\ Keeps(sqlite, l1) /\ Keeps(postgres, p1)
  BY MemoryKeeps, LiteKeeps, PgKeeps DEF LedgersAlike, KeepsLists
<1> HIDE DEF m1, l1, p1
<1>4. KeepsLists(m1.store, m2) /\ Keeps(l1.store, l2) /\ Keeps(p1.store, p2)
  <2>1. {"events", "items"} \subseteq DOMAIN m1.store /\ AllLists(m1.store.items)
        /\ "events" \in DOMAIN l1.store /\ "events" \in DOMAIN p1.store
    BY <1>3 DEF KeepsLists, Keeps, SameLedger, LedgersAlike
  <2>2. KeepsLists(m1.store, m2)
    BY <2>1, MemoryKeeps DEF KeepsLists
  <2>3. Keeps(l1.store, l2)
    BY <1>2, <2>1, LiteAddLeafEdgesKeep, LiteAddCondensedEdgesKeep
  <2>4. Keeps(p1.store, p2)
    BY <1>2, <2>1, PgAddLeafEdgesKeep, PgAddCondensedEdgesKeep
  <2> QED
    BY <2>2, <2>3, <2>4
<1> HIDE DEF m2, l2, p2
<1>5. KeepsLists(memory, m3) /\ Keeps(sqlite, l3) /\ Keeps(postgres, p3)
  BY <1>3, <1>4, ListsThrough, KeptThrough DEF LedgersAlike
<1> HIDE DEF m3, l3, p3
<1>6. KeepsLists(m3.store, m4) /\ Keeps(l3.store, l4) /\ Keeps(p3.store, p4)
  <2>1. {"events", "items"} \subseteq DOMAIN m3.store /\ AllLists(m3.store.items)
        /\ "events" \in DOMAIN l3.store /\ "events" \in DOMAIN p3.store
    BY <1>5 DEF KeepsLists, Keeps, SameLedger, LedgersAlike
  <2>2. KeepsLists(m3.store, m4)
    BY <2>1, MemoryContextKeeps DEF KeepsLists
  <2> QED
    BY <2>1, <2>2, LiteKeeps, PgKeeps
<1> HIDE DEF m4, l4, p4
<1>7. KeepsLists(memory, m) /\ Keeps(sqlite, l) /\ Keeps(postgres, p)
  BY <1>5, <1>6, ListsThrough, KeptThrough DEF LedgersAlike
<1> HIDE DEF m, l, p
<1> QED
  BY ONLY LedgersAlike, <1>1, <1>7, QuietCall

LEMMA AppendKeeps ==
    ASSUME LedgersAlike, NEW c \in Conversations, NEW texts, texts \in Seq(ToSet(texts)), NEW key,
           AppendLedgerEvents(c, texts, key)
    PROVE  LedgersAlike'
<1> DEFINE batch == Batch(c, texts, key)
           refs == MessageRefs(batch)
           more == With(memory.events, c, batch)
           m1 == MemAppendEvents(memory, c, batch)
           l1 == LiteAppendEvents(sqlite, c, batch)
           p1 == PgAppendEvents(postgres, c, batch)
           m2 == MemAppendContextItems(m1.store, c, refs)
           l2 == LiteAppendContextItems(l1.store, c, refs)
           p2 == PgAppendContextItems(p1.store, c, refs)
           m == UnitOfWork(memory, IF m1.error # "none" THEN m1 ELSE m2)
           l == UnitOfWork(sqlite, IF l1.error # "none" THEN l1 ELSE l2)
           p == UnitOfWork(postgres, IF p1.error # "none" THEN p1 ELSE p2)
<1>1. Call(m, l, p)
  BY DEF AppendLedgerEvents, Then
<1>2. /\ Cardinality(MemEvents(memory)) + Len(texts) <= MaxEvents
      /\ key # NoKey => \A e \in ToSet(memory.events[c]) : e.key # key
  BY DEF AppendLedgerEvents, KeyUsed
<1>3. BatchAt(batch, c, Len(memory.events[c]), key) /\ Len(batch) = Len(texts)
  BY BatchIs DEF LedgersAlike
<1> HIDE DEF batch
<1>4. IsList(refs)
  <2>1. IsList(batch)
    BY <1>3 DEF BatchAt
  <2>2. DOMAIN refs = DOMAIN batch /\ refs = [i \in DOMAIN refs |-> refs[i]]
    BY DEF MessageRefs
  <2> HIDE DEF refs
  <2> QED
    BY <2>1, <2>2, MappedList
<1> HIDE DEF refs
<1>5. /\ Ledger(memory.events) /\ {"events", "items"} \subseteq DOMAIN memory /\ AllLists(memory.items)
      /\ "events" \in DOMAIN sqlite /\ Mirrors(sqlite.events, memory.events)
      /\ "events" \in DOMAIN postgres /\ Mirrors(postgres.events, memory.events)
  BY DEF LedgersAlike
<1>6. Len(memory.events[c]) + Len(batch) <= MaxEvents
  <2>1. Len(memory.events[c]) <= Cardinality(MemEvents(memory)) /\ Cardinality(MemEvents(memory)) \in Nat
    BY <1>5, FewEvents
  <2>2. Len(memory.events[c]) \in Nat /\ Len(batch) \in Nat
    BY <1>3, <1>5, ListIs DEF Ledger, BatchAt
  <2> QED
    BY ONLY <1>2, <1>3, <2>1, <2>2, StoresAssumption
<1>7. m1.error = "none" /\ DOMAIN m1.store = DOMAIN memory /\ m1.store.items = memory.items /\ m1.store.events = more
  BY <1>3, <1>5, MemAppends
<1>8. l1.error = "none" /\ DOMAIN l1.store = DOMAIN sqlite /\ Mirrors(l1.store.events, more)
  BY <1>2, <1>3, <1>5, <1>6, LiteAppends
<1>9. p1.error = "none" /\ DOMAIN p1.store = DOMAIN postgres /\ Mirrors(p1.store.events, more)
  BY <1>2, <1>3, <1>5, <1>6, PgAppends
<1>10. Ledger(more)
  <2>1. more = With(memory.events, c, batch)
    OBVIOUS
  <2> HIDE DEF more
  <2>2. Grown(more, memory.events, c, batch)
    BY <1>3, <1>5, <1>6, <2>1, LedgerGrows
  <2> QED
    BY <2>2 DEF Grown
<1> HIDE DEF more, m1, l1, p1
<1>11. /\ m2.error = "none" /\ Keeps(m1.store, m2) /\ AllLists(m2.store.items)
       /\ l2.error = "none" /\ Keeps(l1.store, l2)
       /\ p2.error = "none" /\ Keeps(p1.store, p2)
  <2>1. {"events", "items"} \subseteq DOMAIN m1.store /\ AllLists(m1.store.items)
        /\ "events" \in DOMAIN l1.store /\ "events" \in DOMAIN p1.store
    BY <1>5, <1>7, <1>8, <1>9
  <2>2. m2.error = "none" /\ Keeps(m1.store, m2) /\ AllLists(m2.store.items)
    BY <1>4, <2>1, MemoryContextKeeps
  <2> QED
    BY <2>1, <2>2, LiteKeeps, PgKeeps
<1> HIDE DEF m2, l2, p2
<1>12. m = m2 /\ l = l2 /\ p = p2
  BY <1>7, <1>8, <1>9, <1>11 DEF UnitOfWork
<1>13. memory' = m2.store /\ sqlite' = l2.store /\ postgres' = p2.store
  BY <1>1, <1>12 DEF Call
<1>14. /\ DOMAIN memory' = DOMAIN memory /\ memory'.events = more /\ AllLists(memory'.items)
       /\ DOMAIN sqlite' = DOMAIN sqlite /\ sqlite'.events = l1.store.events
       /\ DOMAIN postgres' = DOMAIN postgres /\ postgres'.events = p1.store.events
  BY <1>7, <1>8, <1>9, <1>11, <1>13 DEF Keeps, SameLedger
<1>15. Ledger(memory'.events) /\ Mirrors(sqlite'.events, memory'.events) /\ Mirrors(postgres'.events, memory'.events)
  BY <1>8, <1>9, <1>10, <1>14
<1> QED
  BY <1>5, <1>14, <1>15 DEF LedgersAlike

-----------------------------------------------------------------------------
LEMMA StepKeeps == ASSUME LedgersAlike, [StoresNext]_storeVars PROVE LedgersAlike'
<1>1. ASSUME NEW parent, CreateConversation(parent) PROVE LedgersAlike'
  BY <1>1, CreationKeeps
<1>2. ASSUME NEW c \in Conversations, NEW b \in Batches, AppendLedgerEvents(c, b.texts, b.key) PROVE LedgersAlike'
  BY <1>2, AppendKeeps, StoresAssumption
<1>3. ASSUME NEW c, NEW texts, NEW key, DuplicateBatch(c, texts, key) PROVE LedgersAlike'
  BY <1>3, DuplicateKeeps
<1>4. ASSUME NEW c \in Conversations, NEW first \in 0 .. (Len(memory.items[c]) - 1),
             NEW last \in 0 .. (Len(memory.items[c]) - 1), NEW snapshot, CompactionRound(c, first .. last, snapshot)
      PROVE  LedgersAlike'
  <2>1. Len(memory.items[c]) \in Nat
    BY ListIs DEF LedgersAlike, AllLists
  <2>2. first .. last \in SUBSET Nat
    BY <2>1
  <2> QED
    BY <1>4, <2>2, CompactionKeeps
<1>5. ASSUME NEW c, NEW a, NEW e, StoreArtifact(c, a, e) PROVE LedgersAlike'
  BY <1>5, StoringKeeps
<1>6. ASSUME NEW a, NEW e, ExploreArtifact(a, e) PROVE LedgersAlike'
  BY <1>6, ExplorationKeeps
<1>7. CASE UNCHANGED storeVars
  BY <1>7 DEF storeVars, LedgersAlike
<1>8. CASE \E parent \in 0 .. Cardinality(Conversations) : CreateConversation(parent)
  BY <1>1, <1>8
<1>9. CASE \E c \in Conversations, b \in Batches : AppendLedgerEvents(c, b.texts, b.key)
  BY <1>2, <1>9
<1>10. CASE \E c \in Conversations, b, earlier \in Batches :
              earlier.key # NoKey /\ DuplicateBatch(c, b.texts, earlier.key)
  BY <1>3, <1>10
<1>11. CASE \E c \in Conversations : \E first, last \in 0 .. (Len(memory.items[c]) - 1) :
              \E snapshot \in {memory.version[c], memory.version[c] - 1} :
                  first <= last /\ CompactionRound(c, first .. last, snapshot)
  BY <1>4, <1>11
<1>12. CASE \E c \in Conversations, a \in Artifacts, e \in Explorers : StoreArtifact(c, a, e)
  BY <1>5, <1>12
<1>13. CASE \E a \in Artifacts, e \in Explorers : ExploreArtifact(a, e)
  BY <1>6, <1>13
<1> QED
  BY <1>7, <1>8, <1>9, <1>10, <1>11, <1>12, <1>13 DEF StoresNext

(* After any sequence of calls, of batches under keys, of compactions and   *)
(* of units of work that are given up, the tables of SQLite and PostgreSQL  *)
(* hold exactly the events of the in-memory ledger: one row each, with the  *)
(* sequence number, id and text that it has there, numbered without a gap.  *)
THEOREM LedgersStayAlike == StoresSpec => []LedgersAlike
<1>1. StoresInit => LedgersAlike
  BY AlikeAtFirst
<1>2. LedgersAlike /\ [StoresNext]_storeVars => LedgersAlike'
  BY StepKeeps
<1> QED
  BY <1>1, <1>2, PTL DEF StoresSpec

(* Whatever was appended, a reader of grep that follows nextOffset until    *)
(* hasMore is false gets every match once and in sequence from each of the  *)
(* three stores, also from PostgreSQL, whose count of the matches is 0 on   *)
(* an empty page.                                                           *)
THEOREM PagesAlwaysComplete == StoresSpec => []PagesComplete
<1>1. LedgersAlike => PagesComplete
  BY PagesFollow DEF LedgersAlike
<1> QED
  BY <1>1, LedgersStayAlike, PTL
=============================================================================
