------------------------------ MODULE MCSetup ------------------------------
EXTENDS Setup

MCIds == {"a", "b", "c", "d"}

\* What tells the entries apart besides the graph: a free model, a paid one,
\* and one that is free, distrusted and without its key.
MCEntry(name, to, kind) ==
    [id |-> name, escalatesTo |-> to, quality |-> 1, cost |-> 0,
     caps |-> {"code_generation"},
     tier |-> IF kind = 2 THEN "paid" ELSE "free",
     distrust |-> IF kind = 3 THEN {"code_generation"} ELSE {},
     auth |-> IF kind = 3 THEN "missing" ELSE "keyless"]

\* Every graph over up to three models, with edges to themselves, to each other
\* and to one the file does not list; a file that lists a model twice, an
\* entry that is refused, and an empty file.
MCFiles ==
    {<<MCEntry("a", ta, 1)>> : ta \in MCIds \cup {NoId}}
      \cup {<<MCEntry("a", ta, 1), MCEntry("b", tb, 2)>> : ta, tb \in MCIds \cup {NoId}}
      \cup {<<MCEntry("a", ta, 1), MCEntry("b", tb, 2), MCEntry("c", tc, 3)>>
              : ta, tb, tc \in MCIds \cup {NoId}}
      \cup {<<MCEntry("a", NoId, 1), MCEntry("b", NoId, 2), MCEntry("a", "b", 2)>>,
            <<[MCEntry("a", NoId, 1) EXCEPT !.tier = "invalid"]>>,
            <<>>}

MCCatalogs ==
    {<<>>,
     <<[id |-> "d", free |-> TRUE], [id |-> "b", free |-> TRUE]>>,
     <<[id |-> NoId, free |-> TRUE], [id |-> "c", free |-> FALSE],
       [id |-> "d", free |-> FALSE], [id |-> "d", free |-> TRUE]>>}

MCWanted == {<<>>, <<"a">>, <<"b", "a", "b">>, <<"a", "d">>}
MCRequests ==
    [live : BOOLEAN, by : {"ids"}, wanted : MCWanted, tier : {"free"}]
      \cup [live : BOOLEAN, by : {"tier"}, wanted : {<<>>}, tier : {AnyTier, "free", "paid"}]
=============================================================================
