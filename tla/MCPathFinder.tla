---------------------------- MODULE MCPathFinder ----------------------------
(* Small clusters for PathFinder: a square and a chain of four atoms, whose
   distances tie, one bent so that the nearest atom is not the shortest way
   back, and a triangle. *)
EXTENDS PathFinder, TLC, FiniteSets

Metric(rowsOf) ==
    [a \in 0 .. Len(rowsOf) - 1 |-> [b \in 0 .. Len(rowsOf) - 1 |-> rowsOf[a + 1][b + 1]]]

Square == Metric(<<<<0, 2, 3, 2>>, <<2, 0, 2, 3>>, <<3, 2, 0, 2>>, <<2, 3, 2, 0>>>>)
Chain == Metric(<<<<0, 1, 1, 2>>, <<1, 0, 2, 3>>, <<1, 2, 0, 1>>, <<2, 3, 1, 0>>>>)
Bent == Metric(<<<<0, 2, 3, 1>>, <<2, 0, 1, 2>>, <<3, 1, 0, 2>>, <<1, 2, 2, 0>>>>)
Corner == Metric(<<<<0, 2, 3>>, <<2, 0, 4>>, <<3, 4, 0>>>>)

Search(distance, firstBounce, maxLength, maxAtoms, maxRecords) ==
    [atoms |-> Cardinality(DOMAIN distance), distance |-> distance,
     firstBounce |-> firstBounce, maxLength |-> maxLength,
     maxAtoms |-> maxAtoms, maxRecords |-> maxRecords]

Searches ==
    {Search(Square, {1, 2}, 9, 3, 20), Search(Square, {1, 2, 3}, 8, 2, 4),
     Search(Chain, {1, 2, 3}, 6, 3, 20), Search(Chain, {2, 3}, 8, 3, 3),
     Search(Bent, {1, 2, 3}, 8, 3, 20),
     Search(Corner, {1, 2}, 16, 4, 20), Search(Corner, {1}, 3, 4, 20),
     Search(Corner, {1, 2}, 16, 4, 0)}

\* The heap criterion judges paths of three atoms or more.
WeakSets == {{}, {<<1, 2, 1>>}, {<<2, 1, 2>>, <<1, 0, 2>>}, {<<2, 0, 1>>, <<2, 0, 2>>}}
FaintSets == {{}, {<<2>>, <<1, 2>>}}

MCInputs ==
    UNION {{[weak |-> w, faint |-> f] @@ s : w \in WeakSets, f \in FaintSets} :
               s \in Searches}
=============================================================================
