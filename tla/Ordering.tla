------------------------------ MODULE Ordering ------------------------------
(***************************************************************************)
(* ORDER BY, and sort.Slice by a total order: the elements of S, each once, *)
(* every one Before those after it.                                        *)
(***************************************************************************)
EXTENDS Naturals, FiniteSets, SequencesExt

Ordered(S, Before(_, _)) ==
  CHOOSE s \in SetToSeqs(S) : \A i, j \in DOMAIN s : i < j => Before(s[i], s[j])
=============================================================================
