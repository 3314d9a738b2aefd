---------------------- MODULE MCTextVectorGenerations ----------------------
(* Small instances of TextVectorGenerations for TLC. *)
EXTENDS TextVectorGenerations, TLC

\* Videos are interchangeable; generations are not, recovery orders them.
VideoSymmetry == Permutations(Videos)
=============================================================================
