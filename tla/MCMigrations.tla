---------------------------- MODULE MCMigrations ----------------------------
(* Three versions; releases that grow, that edit a migration, that come from *)
(* two branches, and one that merges them.                                   *)
EXTENDS Migrations, TLC

CONSTANTS m1, m2, a, b, b2, c, Gone

Release(x, y, z) ==
    [v \in Versions |-> LET r == <<x, y, z>>[v] IN IF r = Gone THEN Absent ELSE r]

SixReleases == {Release(a, Gone, Gone), Release(a, b, Gone), Release(a, b2, Gone),
                Release(a, Gone, c), Release(a, b, c), Release(a, b2, c)}

LegacySchema == Release(a, Gone, Gone)

Symmetry == Permutations(Runners)

============================================================================
