--------------------------- MODULE SortedIndexes ---------------------------
(***************************************************************************)
(* What std::sort with std::greater, std::unique and erase make of the     *)
(* indexes queued in _delIndex (deleteClient).                             *)
(***************************************************************************)
EXTENDS Naturals, FiniteSets

IsDescending(s) == \A i, j \in DOMAIN s : i < j => s[i] > s[j]

(* The strictly descending sequence of the indexes in S, each once. *)
SortedUnique(S) ==
  { s \in [1..Cardinality(S) -> S] :
      /\ IsDescending(s)
      /\ \A k \in S : \E i \in DOMAIN s : s[i] = k }

(* The indexes in S up to k. *)
UpTo(S, k) == { j \in S : j <= k }

(* The n-th of the indexes in S, in ascending order: it has n of them up to it. *)
Nth(S, n) == CHOOSE k \in S : Cardinality(UpTo(S, k)) = n
=============================================================================
