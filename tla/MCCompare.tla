----------------------------- MODULE MCCompare -----------------------------
EXTENDS Compare, TLC

CONSTANTS m1, m2, m3   \* model ids

\* More models than workers, a model asked twice, one alone, and none at all
\* (`--models ","`).
MCPools == {<<m1, m2, m3>>, <<m1, m2, m1>>, <<m3, m3>>, <<m2>>, <<>>}
=============================================================================
