---------------------------- MODULE MCReviewApply ----------------------------
(* ReviewFiles with a comment on each of two files, of which one may leave  *)
(* the diff before Apply.                                                   *)
EXTENDS ReviewFiles, TLC

CONSTANTS f1, f2, v1, w1, k1, k2

VersionOf == f1 :> {v1} @@ f2 :> {w1, Absent}
CommentOn == k1 :> f1 @@ k2 :> f2
Anchors == k1 :> {v1} @@ k2 :> {w1}
=============================================================================
