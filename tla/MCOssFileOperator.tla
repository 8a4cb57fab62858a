-------------------------- MODULE MCOssFileOperator --------------------------
(***************************************************************************)
(* OssFileOperator with three uploads of two kinds, a private file in a    *)
(* directory and a public one whose directory is dropped, two random names *)
(* and two retries: keys collide often and can be used up.  An int has 8   *)
(* bits and a minute 10 milliseconds: from 13 minutes on the product does  *)
(* not fit.  Uploads and names are interchangeable.                        *)
(***************************************************************************)
EXTENDS OssFileOperator, TLC

CONSTANTS u1, u2, u3, r1, r2

MCUploads == {u1, u2, u3}
MCRandoms == {r1, r2}
MCRequests == {[type |-> "image", subDirectory |-> "/dir", isPrivate |-> TRUE],
               [type |-> "image", subDirectory |-> "dir", isPrivate |-> FALSE]}

Symmetry == Permutations(MCUploads) \cup Permutations(MCRandoms)
=============================================================================
