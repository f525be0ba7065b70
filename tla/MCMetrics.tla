----------------------------- MODULE MCMetrics -----------------------------
EXTENDS Metrics

MCAds ==
    LET ad(b, root, size) == [brand |-> b, type |-> "coats", price |-> 9, soldPrice |-> 0, exact |-> TRUE,
            flags |-> {}, size |-> size, root |-> root, new |-> FALSE, seller |-> None, bumped |-> 0,
            initial |-> 9, updated |-> 0, department |-> 1, likes |-> 1]
    IN  1 :> ad("b1", None, 1) @@ 2 :> ad("b1", None, 2) @@ 3 :> ad("b2", None, 1)
        @@ 4 :> [ad("b2", None, 1) EXCEPT !.type = Review]

MCMarket ==
    LET of(status, sold) == [status |-> status, created |-> 20, sold |-> sold, checked |-> None]
    IN  1 :> of("active", None) @@ 2 :> of("sold", 30) @@ 3 :> of("sold", 45) @@ 4 :> of("sold", 50)

MCGroupInfo ==
    LET model(b) == [brand |-> b, type |-> "coats", parent |-> None, kind |-> "model"]
    IN  1 :> model("b1") @@ 2 :> model("b1") @@ 3 :> model("b2")
        @@ 4 :> [model("b2") EXCEPT !.type = Review, !.kind = "none"]
MCFirstGroups == 1 :> "absent" @@ 2 :> "retired" @@ 3 :> "absent" @@ 4 :> "absent"
MCFirstRows == {[MetricRow(<<"model", 2>>, "b1", {}, FirstDay) EXCEPT !.id = 1]}
MCHome == 1 :> 1 @@ 2 :> 1 @@ 3 :> 3 @@ 4 :> 4
MCSectionOf == "coats" :> "outer"

MCDefaultPolicy ==
    [period |-> 90, minSales |-> 1, minPrice |-> 0, excluded |-> {},
     raw |-> [sales |-> 35, speed |-> 30, likes |-> 15, price |-> 20]]
\* A section that config/taxonomy.yaml no longer has makes a saved policy invalid.
MCPolicies ==
    {[MCDefaultPolicy EXCEPT !.period = 30, !.raw = [sales |-> 1, speed |-> 1, likes |-> 1, price |-> 0]]}
MCFirstSaved == {[MCDefaultPolicy EXCEPT !.excluded = {"gone"}]}
MCRunBrands == <<"b1", "b2">>
=============================================================================
