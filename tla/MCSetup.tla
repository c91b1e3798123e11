------------------------------- MODULE MCSetup -------------------------------
(* The instance of Setup that TLC checks. *)
EXTENDS Setup, TLC

CONSTANTS file, default

MCDefaultPlace == <<file, default>>

\* Processes and client ids are interchangeable.
Symmetric == Permutations(Processes) \cup Permutations(Clients)
=============================================================================
