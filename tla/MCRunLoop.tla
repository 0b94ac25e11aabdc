----------------------------- MODULE MCRunLoop -----------------------------
(* Instances of RunLoop for TLC.                                           *)
EXTENDS RunLoop

Model(tier, caps, distrust, auth, quality, cost) ==
    [tier |-> tier, caps |-> caps, distrust |-> distrust, auth |-> auth,
     quality |-> quality, cost |-> cost]

CG == "code_generation"
SEC == "security_audit"

FreeScored == Model("free", {CG}, {}, "set", 7, 0)
FreeUnranked == Model("free", Caps, {}, "keyless", Unranked, 0)
FreeDistrusted == Model("free", Caps, {SEC}, "set", 7, 1)
FreeNoKey == Model("free", Caps, {}, "missing", 9, 0)
PaidTop == Model("paid", Caps, {}, "set", 9, 3)
PaidNoKey == Model("paid", Caps, {}, "missing", 9, 1)
Hybrid == Model("hybrid", Caps, {}, "set", 9, 2)

Kinds == {FreeScored, FreeUnranked, FreeDistrusted, FreeNoKey,
          PaidTop, PaidNoKey, Hybrid}

MCRegistries ==
    UNION {[1 .. n -> Kinds] : n \in 1 .. 2}
        \cup {<<FreeScored, x, y>> : x, y \in Kinds}
        \cup {<<FreeUnranked, FreeScored, FreeDistrusted, x>> : x \in {PaidTop, Hybrid, FreeUnranked}}

Task(files, lines, security) ==
    [files |-> files, lines |-> lines, cross |-> files > 1, retry |-> FALSE,
     security |-> security]

\* One file; two files; a security task; the two sides of the complex bound.
MCTasks == {Task(1, 0, FALSE), Task(2, 0, FALSE), Task(1, 0, TRUE),
            Task(4, 39, TRUE), Task(4, 40, TRUE)}

Layout(nested, outside) == [nested |-> nested, outside |-> outside]
AllLayouts == {Layout(FALSE, FALSE), Layout(TRUE, FALSE), Layout(FALSE, TRUE)}
NestedLayout == {Layout(TRUE, FALSE)}
PlainLayout == {Layout(FALSE, FALSE)}

\* One registry and one task are enough for what the documents get wrong.
SmallRegistries == {<<FreeScored, FreeUnranked, PaidTop>>}
SmallTasks == {Task(1, 0, FALSE)}
=============================================================================
