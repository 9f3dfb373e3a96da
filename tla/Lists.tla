-------------------------------- MODULE Lists --------------------------------
(* How the code makes lists: filter, sort and flat in TypeScript, the       *)
(* elements of a map, the rows of a query in order; and the greatest of     *)
(* some numbers, with a default.                                            *)
EXTENDS Integers, FiniteSets, SequencesExt

Maximum(S, default) == IF S = {} THEN default ELSE CHOOSE x \in S : \A y \in S : y <= x

Those(s, T) == FoldLeft(LAMBDA kept, x : IF x \in T THEN Append(kept, x) ELSE kept, <<>>, s)

(* Array.prototype.filter                                                  *)
Where(s, Test(_)) == Those(s, {x \in ToSet(s) : Test(x)})

Concat(lists) == FoldLeft(LAMBDA all, s : all \o s, <<>>, lists)

(* The elements of a set; the sorts below order them all.                  *)
Listed(S) == FoldSet(LAMBDA x, listed : Append(listed, x), <<>>, S)

(* ORDER BY column ASC, over rows whose values of the column differ. Taken *)
(* through SubSeq, the sequence is one that TLC evaluates once.            *)
OrderedBy(rows, column) ==
    SubSeq([i \in 1..Cardinality(rows) |->
               CHOOSE r \in rows : Cardinality({x \in rows : x[column] < r[column]}) = i - 1],
           1, Cardinality(rows))

(* The places 1 .. n of a list in their new order, of which "before" says   *)
(* which precedes which. Each is inserted behind the last that it does not  *)
(* precede: for a comparator that is not transitive (BeforeInPacking of    *)
(* RetrievalPacking) another way of sorting can give another order.        *)
NewOrder(n, before) ==
    FoldLeft(LAMBDA placed, k :
                 InsertAt(placed, 1 + Maximum({j \in DOMAIN placed : <<k, placed[j]>> \notin before}, 0), k),
             <<>>, [k \in 1 .. n |-> k])

Rearranged(units, before) ==
    LET order == NewOrder(Len(units), before)
    IN SubSeq([i \in 1 .. Len(units) |-> units[order[i]]], 1, Len(units))

(* Array.prototype.sort                                                    *)
StableSort(units, Before(_, _)) ==
    LET list == SubSeq(units, 1, Len(units))
    IN Rearranged(list, {p \in (1 .. Len(list)) \X (1 .. Len(list)) : Before(list[p[1]], list[p[2]])})
=============================================================================
