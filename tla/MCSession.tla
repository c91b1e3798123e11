----------------------------- MODULE MCSession -----------------------------
(* The instance of Session that TLC checks. *)
EXTENDS Session, TLC

\* The processes are interchangeable.
Processes == Permutations(Sessions)
=============================================================================
