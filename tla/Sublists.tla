------------------------------ MODULE Sublists -----------------------------
(***************************************************************************)
(* What a loop leaves that appends to a new slice the elements it keeps.   *)
(***************************************************************************)
EXTENDS Naturals, Sequences

\* The lists that have the elements of s at the places K, in their order: there
\* is one.
Sublists(s, K) ==
  UNION {{[i \in 1..n |-> s[at[i]]] :
            at \in {a \in [1..n -> K] : /\ \A i, j \in 1..n : i < j => a[i] < a[j]
                                        /\ \A k \in K : \E i \in 1..n : a[i] = k}} : n \in 0..Len(s)}
=============================================================================
