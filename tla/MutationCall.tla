---------------------------- MODULE MutationCall ----------------------------
(***************************************************************************)
(* What one call of a mutating method of internal/client promises about    *)
(* the remote service, whatever happens on the network:                    *)
(*                                                                         *)
(*   - the mutation takes effect at most once;                             *)
(*   - "confirmed" (a nil error) is only said of a mutation that took      *)
(*     effect;                                                             *)
(*   - "rejected" (MutationRejectedError, or an error raised before any    *)
(*     request was built) is only said of a mutation that has not taken    *)
(*     effect and never will;                                              *)
(*   - "uncertain" (MutationOutcomeUncertainError) promises nothing: the   *)
(*     request may take effect even after the call has returned.           *)
(*                                                                         *)
(* HttpRequest implements this module for one HTTP call; PlaylistRemove,   *)
(* PlaylistUpdate and PlaylistAdd take it as the contract of the calls     *)
(* they make.                                                              *)
(***************************************************************************)
EXTENDS Naturals

VARIABLES
    applications, \* how often the mutation has taken effect remotely
    verdict       \* what the caller has been told

vars == <<applications, verdict>>

Verdicts == {"none", "confirmed", "rejected", "uncertain"}

TypeOK == applications \in Nat /\ verdict \in Verdicts

Init == applications = 0 /\ verdict = "none"

\* The service performs the mutation, possibly after the caller gave up on it.
Apply ==
    /\ applications = 0
    /\ verdict \in {"none", "uncertain"}
    /\ applications' = 1
    /\ UNCHANGED verdict

Confirm ==
    /\ verdict = "none"
    /\ applications = 1
    /\ verdict' = "confirmed"
    /\ UNCHANGED applications

Reject ==
    /\ verdict = "none"
    /\ applications = 0
    /\ verdict' = "rejected"
    /\ UNCHANGED applications

DoubtOutcome ==
    /\ verdict = "none"
    /\ verdict' = "uncertain"
    /\ UNCHANGED applications

Next == Apply \/ Confirm \/ Reject \/ DoubtOutcome

Spec == Init /\ [][Next]_vars
=============================================================================
