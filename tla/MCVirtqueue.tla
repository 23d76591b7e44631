---------------------------- MODULE MCVirtqueue ----------------------------
(* Model-checking instance of Virtqueue: the bounds live in the .cfg files. *)
EXTENDS Virtqueue, TLC

\* Cookies are compared only for equality: any permutation of them is a
\* symmetry of the safety properties.
CookieSymmetry == Permutations(Cookies)

=============================================================================
