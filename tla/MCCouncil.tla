----------------------------- MODULE MCCouncil -----------------------------
EXTENDS Council

CONSTANTS m1, m2, m3

MCModels == {m1, m2, m3}
MCRank == [m \in MCModels |-> IF m = m3 THEN 2 ELSE 1]

MCRequest(minds, limit, human) == [pool |-> minds, cap |-> limit, interactive |-> human]

\* A mind alone, two, and one named twice, directed by a human; three with a
\* cap on the critics; one of two named twice, with the cap at which that shows
\* and without.
MCRequests ==
    {MCRequest(<<m1>>, 0, TRUE), MCRequest(<<m1, m2>>, 0, TRUE), MCRequest(<<m1, m1>>, 0, TRUE),
     MCRequest(<<m1, m2, m3>>, 1, FALSE),
     MCRequest(<<m1, m3, m1>>, 0, FALSE), MCRequest(<<m1, m3, m1>>, 1, FALSE)}
=============================================================================
