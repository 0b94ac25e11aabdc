--------------------------- MODULE MCRateLimiter ---------------------------
EXTENDS RateLimiter, TLC

CONSTANTS k1, k2           \* keys
CONSTANTS m1, m2, m3       \* m1 and m2 share a key
CONSTANTS c1, c2, c3, c4   \* calls

\* One of the models that share a key states its rate, the other does not.
MCKeyOf == (m1 :> k1) @@ (m2 :> k1) @@ (m3 :> k2)
MCHintOf == (m1 :> 2) @@ (m2 :> 0) @@ (m3 :> 1)

\* Three calls on the shared key, one on the key of its own.
MCModelOf == (c1 :> m1) @@ (c2 :> m1) @@ (c3 :> m2) @@ (c4 :> m3)
=============================================================================
