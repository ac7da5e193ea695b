--------------------------------- MODULE MCBlobs ---------------------------------
(* Two threads with two terms each.  The terms of a thread can be exchanged, *)
(* and so can the threads with their terms.                                 *)
EXTENDS Blobs

CONSTANTS a1, a2, b1, b2, A, B

OwnerVal == (a1 :> A) @@ (a2 :> A) @@ (b1 :> B) @@ (b2 :> B)

\* Both threads at once: each permutation of the terms goes with one of the threads.
Symmetry ==
  Permutations({a1, a2}) \cup Permutations({b1, b2})
    \cup {(a1 :> b1) @@ (b1 :> a1) @@ (a2 :> b2) @@ (b2 :> a2) @@ (A :> B) @@ (B :> A)}
==================================================================================
