---------------------------- MODULE MCSubmission ----------------------------
(***************************************************************************)
(* Instances of Submission.                                                *)
(***************************************************************************)
EXTENDS Submission
=============================================================================
