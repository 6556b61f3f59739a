-------------------------- MODULE MCCommentStore --------------------------
(***************************************************************************)
(* Instances of CommentStore for TLC: two calls in flight, handled by one  *)
(* server (AtOne) or by two servers that share the data directory          *)
(* (AtEach).                                                               *)
(***************************************************************************)
EXTENDS CommentStore, TLC

CONSTANTS c1, c2, s1, s2, p1, p2

AtOne == (c1 :> s1) @@ (c2 :> s1)
AtEach == (c1 :> s1) @@ (c2 :> s2)

\* Calls are interchangeable when one server handles all of them.
CallSymmetry == Permutations({c1, c2})
=============================================================================
