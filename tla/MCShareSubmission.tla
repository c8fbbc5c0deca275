-------------------------- MODULE MCShareSubmission --------------------------
(* Small instances of ShareSubmission for TLC. *)
EXTENDS ShareSubmission

\* The best hash would make a block, the next is a share.
BlockAndShare == <<"network", "share">>

\* The pool refuses what it has seen before.
FirstOnly == {1, 2} \X {"target"}
=============================================================================
