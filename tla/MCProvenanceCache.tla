-------------------------- MODULE MCProvenanceCache --------------------------
(* Three versions of the input that stay in the directory, two of them with a
   self-consistent potential; a fourth names a file outside it and shares the
   potential of the first.  Two versions of everything else. *)
EXTENDS ProvenanceCache, TLC

CONSTANTS i1, i2, i3, path, s1, s2, n

MCPotPart == i1 :> s1 @@ i2 :> s2 @@ i3 :> n @@ path :> s1

\* The versions of one file are told apart, never compared with those of
\* another; those of the input differ in what POT reads.
Symmetry == Permutations(Auxiliary) \cup Permutations(Outside) \cup Permutations(Policies)
==============================================================================
