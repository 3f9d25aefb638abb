------------------------- MODULE MCAsyncMultiQueue -------------------------
(* AsyncMultiQueue with interchangeable readers and items. *)
EXTENDS AsyncMultiQueue, TLC

Symmetry == Permutations(Readers) \union Permutations(Items)
=============================================================================
