--------------------------- MODULE ReleasedSchema ---------------------------
(***************************************************************************)
(* What the migration runner promises (docs/production-readiness.md:       *)
(* serialized, ordered migrations whose failed upgrades roll back): the    *)
(* schema moves from one release to another as a whole, running nothing    *)
(* but the new release's later migrations, in order.                       *)
(*                                                                         *)
(* A release says of each version which migration it has, or Absent; a     *)
(* schema says which migration was executed as each version.               *)
(***************************************************************************)
EXTENDS Integers

CONSTANTS
    Versions,      \* the numbers of the migrations
    Releases,      \* the releases that may be deployed
    Legacy,        \* the schema of a database older than the runner
    Absent         \* no migration

VARIABLE schema

Present(s) == {v \in Versions : s[v] # Absent}

Empty == [v \in Versions |-> Absent]

Init == schema \in {Empty, Legacy}

\* A release extends a schema when it has its migrations and adds later ones.
Extends(release, s) ==
    /\ \A v \in Present(s) : release[v] = s[v]
    /\ \A v \in Present(release) \ Present(s), u \in Present(s) : u < v

Upgrade ==
    \E release \in Releases :
        /\ Extends(release, schema)
        /\ schema' = release

Next == Upgrade

Spec == Init /\ [][Next]_schema

============================================================================
