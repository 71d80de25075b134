--------------------------- MODULE MCDatasetStore ---------------------------
(* Two datasets that promise the same three blocks: "split" in a full chunk *)
(* and a remainder, "solo" in a single chunk.                               *)
EXTENDS DatasetStore, TLC

CONSTANTS split, solo, x, y, r1, r2

MCDeclared == [d \in Datasets |-> <<x, x, y>>]
MCChunkSize == [d \in Datasets |-> IF d = split THEN 2 ELSE 3]

\* One body is right for each index, and <<x>> is wrong for the remainder.
MCOffered == {<<x, x>>, <<x>>, <<y>>, <<x, x, y>>}

MCSymmetry == Permutations(Requests)
=============================================================================
