---------------------------- MODULE MCPagination ----------------------------
(* Small instances of Pagination for TLC: five kinds of index.               *)
EXTENDS Pagination

Index(strategy, limit, per_page, exact_to, values) ==
    [strategy : {strategy}, limit : {limit}, per_page : {per_page}, exact_to : {exact_to},
     value : values]

(* Ids may be shared or missing, or shared only; of the keys, three hits     *)
(* share one.  Or the keys may be shared or missing, and the ids are not.    *)
Ids(n) == {[h \in Hits |-> [id |-> f[h], key |-> h \div 4]] : f \in [Hits -> 0..n]}
Keys == {[h \in Hits |-> [id |-> h % Width, key |-> f[h]]] : f \in [Hits -> 0..Width]}

(* Exact counts; estimates, one too high or too low, of more than one hit;   *)
(* a sorted replica; an index that can be browsed.                           *)
AnyIndex ==
    Index("range_split", 2, 1, 9, Ids(Width))
    \union Index("range_split", 3, 3, 1, {v \in Ids(Width - 1) : v[1].id = 0})
    \union Index("keyset", 2, 1, 9, Keys)
    \union Index("browse", 4, 2, 9, {CHOOSE v \in Ids(0) : TRUE})

(* Pages of two hits.                                                        *)
TwoPages == Index("range_split", 4, 2, 9, Ids(Width - 1))

Attempts == [browse |-> 2, keyset |-> 0, range_split |-> 2]
=============================================================================
