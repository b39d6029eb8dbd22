--------------------------- MODULE MCStateStore ---------------------------
(* Small instances of StateStore and of its refinement for TLC. *)
EXTENDS StateStoreRefinement, TLC

CONSTANTS s1, s2, v1, v2

\* Two ways to create the first secret with different values, one candidate
\* that reuses it and one that adds a second secret beside it.
MCCandidate ==
  { [content |-> "A", needs |-> {s1}, supplied |-> s1 :> v1],
    [content |-> "B", needs |-> {s1}, supplied |-> s1 :> v2],
    [content |-> "B", needs |-> {s1}, supplied |-> <<>>],
    [content |-> "C", needs |-> {s1, s2}, supplied |-> (s1 :> v1) @@ (s2 :> v2)] }

\* Enough to tell histories apart: a first configuration and a later one that
\* shares its secret.
FewCandidates ==
  { [content |-> "A", needs |-> {s1}, supplied |-> s1 :> v1],
    [content |-> "B", needs |-> {s1}, supplied |-> <<>>] }

Symmetric == Permutations(Client)
============================================================================
