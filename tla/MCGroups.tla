------------------------------ MODULE MCGroups ------------------------------
EXTENDS Groups

Box == 1   Logo == 2   City == 3   Mini == 4   Wide == 5   Tee == 9   Brand == 8

Category == [fixed |-> "", any |-> <<>>, fallback |-> "tees"]
listing(seller, created, seen, status) ==
    [seller |-> seller, rule |-> Category, created |-> created, seen |-> seen, status |-> status, repost |-> 0]

MCListings == <<listing(1, 1, 1, "active"), listing(2, 1, 1, "active"), listing(1, 2, 2, "active"),
                listing(2, 2, 2, "active")>>
MCFirstTitles == <<<<Box, Logo>>, <<Box, Logo>>, <<Box, City>>, <<>>>>
MCTitles == <<{<<Box, Logo>>}, {<<Box, City>>}, {<<Box, City>>}, {<<Mini, Box, City>>}>>
\* A model that gives its id to a newer one that is named with it in one title.
InheritListings == [l \in 1..5 |-> listing(l, 1, 1, "active")]
InheritFirstTitles == <<<<Logo>>, <<Logo>>, <<Logo>>, <<Box>>, <<Box>>>>
InheritTitles == <<{<<City>>}, {<<Box, City>>}, {<<Tee>>}, {}, {}>>
NoPolicies == <<<<>>>>

MCPolicies == <<<<>>, <<[name |-> <<Box, Logo>>, phrases |-> {}, types |-> {}, parent |-> <<Box>>, infer |-> ""],
                        [name |-> <<Mini>>, phrases |-> {}, types |-> {"tees"}, parent |-> <<>>, infer |-> "tees"]>> >>
MCDescriptions == {[slug |-> <<Wide>>, phrases |-> {<<Wide>>}, types |-> {}, except |-> {}]}
MCLexicon == (<<Tee>> :> [kind |-> "strong", type |-> "tees"])
MCTaxonomy == ("tees" :> [section |-> "tops", family |-> "tees"])
MCNames == {<<Box>>, <<Mini, Box, City>>}
MCGlued == <<>>
MCModifiers == {Mini}
MCUnfit == {Brand}
MCBrandTerms == {<<Brand>>}
=============================================================================
