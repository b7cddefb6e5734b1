--------------------------- MODULE MCSecondFactor ---------------------------
(* SecondFactor on small instances, for TLC. *)
EXTENDS SecondFactor, TLC

\* Sessions and passkeys differ by name only.
Renamings == Permutations(Sessions) \cup Permutations(Passkeys)
=============================================================================
