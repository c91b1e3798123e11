----------------------------- MODULE HttpRequest -----------------------------
(***************************************************************************)
(* One call of client.doJSON (internal/client/client.go), from building    *)
(* the request to the error it returns, with the network and the Spotify   *)
(* service it talks to.                                                    *)
(*                                                                         *)
(* `kind` says which method made the call: a "read" (getJSON), a           *)
(* "snapshotMutation" (AddPlaylistItems, removePlaylistItems: the response *)
(* must carry a snapshot id) or a "plainMutation" (mutateSavedItems: the   *)
(* response body is read and thrown away).                                 *)
(***************************************************************************)
EXTENDS Integers

CONSTANTS
    MaxAttempts,     \* requests one read may cost
    MaxRetryDelay,   \* longest Retry-After that is honoured, in seconds
    Statuses,        \* response statuses the service may answer with
    RetryAfters      \* Retry-After values it may send with a 429

ASSUME MaxAttemptsAssumption == MaxAttempts \in Nat \ {0}
ASSUME MaxRetryDelayAssumption == MaxRetryDelay \in Nat
ASSUME StatusesAssumption == Statuses \subseteq 200..599
ASSUME RetryAftersAssumption == RetryAfters \subseteq Int

VARIABLES
    kind,       \* which kind of call this is
    pc,         \* where doJSON is
    attempt,    \* the loop variable of doJSON
    canceled,   \* ctx.Err() # nil
    sends,      \* requests put on the wire (history)
    wire,       \* what is travelling: nothing, the request, its response
    reply,      \* the response travelling or last received
    verdict,    \* what the caller was told of the outcome
    cause,      \* the error it was told, "none" for a nil error
    applications \* how often the service performed the mutation (history)

clientVars == <<kind, pc, attempt, sends, verdict, cause>>
vars == <<kind, pc, attempt, canceled, sends, wire, reply, verdict, cause,
          applications>>

Kinds == {"read", "snapshotMutation", "plainMutation"}
Bodies == {"valid", "unreadable", "oversized", "undecodable", "invalid"}
Replies == [status : Statuses, retryAfter : RetryAfters, body : Bodies]
NoReply == [status |-> 0, retryAfter |-> 0, body |-> "none"]
Causes == {"none", "upstream", "transport", "canceled", "unauthorized",
           "forbidden", "invalid"}

Mutation == kind # "read"
Attempts == IF Mutation THEN 1 ELSE MaxAttempts

Success(status) == 200 <= status /\ status < 300
ClientError(status) == 400 <= status /\ status < 500

TypeOK ==
    /\ kind \in Kinds
    /\ pc \in {"build", "await", "wait", "done"}
    /\ attempt \in 0..(MaxAttempts - 1)
    /\ canceled \in BOOLEAN
    /\ sends \in 0..MaxAttempts
    /\ wire \in {"idle", "request", "reply"}
    /\ reply \in Replies \cup {NoReply}
    /\ verdict \in {"none", "confirmed", "rejected", "uncertain", "failed"}
    /\ cause \in Causes
    /\ applications \in Nat

Init ==
    /\ kind \in Kinds
    /\ pc = "build"
    /\ attempt = 0
    /\ canceled = FALSE
    /\ sends = 0
    /\ wire = "idle"
    /\ reply = NoReply
    /\ verdict = "none"
    /\ cause = "none"
    /\ applications = 0

------------------------------------------------------------------------------
(* How the call ends *)

Return(said, why) ==
    /\ pc' = "done"
    /\ verdict' = said
    /\ cause' = why
    /\ UNCHANGED <<kind, attempt, sends>>

\* mutationOutcomeUncertain for a mutation, the bare error for a read
Fail(why) == Return(IF Mutation THEN "uncertain" ELSE "failed", why)

\* mutationRejected for a mutation, the bare error for a read
Refuse(why) == Return(IF Mutation THEN "rejected" ELSE "failed", why)

StatusCause(status) ==
    CASE status = 401 -> "unauthorized"
      [] status = 403 -> "forbidden"
      [] OTHER        -> "upstream"

------------------------------------------------------------------------------
(* The client *)

\* The arguments fail the method's validation, the body cannot be encoded or
\* http.NewRequestWithContext fails: none of them depends on the attempt.
BuildFails ==
    /\ pc = "build" /\ attempt = 0
    /\ \E why \in {"upstream", "invalid"} : Refuse(why)
    /\ UNCHANGED <<canceled, wire, reply, applications>>

\* Do fails before anything is on the wire: the context is done, no access
\* token can be had, or no connection. doJSON cannot tell it from a failure
\* after the send.
SendFails ==
    /\ pc = "build"
    /\ Fail(IF canceled THEN "canceled" ELSE "transport")
    /\ UNCHANGED <<canceled, wire, reply, applications>>

Transmit ==
    /\ pc = "build" /\ ~canceled
    /\ pc' = "await"
    /\ sends' = sends + 1
    /\ wire' = "request"
    /\ UNCHANGED <<kind, attempt, canceled, reply, verdict, cause, applications>>

\* Do fails after the send. The request, if still travelling, may yet arrive.
TransportFails ==
    /\ pc = "await"
    /\ Fail(IF canceled THEN "canceled" ELSE "transport")
    /\ UNCHANGED <<canceled, wire, reply, applications>>

Received == pc = "await" /\ wire = "reply"

\* Mutant: every error status of a mutation is taken for a definite rejection.
RefusedOnAnyError ==
    /\ Received /\ Mutation /\ ~Success(reply.status)
    /\ Refuse(StatusCause(reply.status))
    /\ wire' = "idle"
    /\ UNCHANGED <<canceled, reply, applications>>

MutationRefused ==
    /\ Received /\ Mutation /\ ~Success(reply.status)
    /\ IF ClientError(reply.status)
         THEN Refuse(StatusCause(reply.status))
         ELSE Fail(StatusCause(reply.status))
    /\ wire' = "idle"
    /\ UNCHANGED <<canceled, reply, applications>>

\* retryDelay: the delay in the response's header must be one worth honouring
Retryable(status) == status \in {429, 502, 503, 504}
ValidDelay(r) == r.status = 429 => r.retryAfter \in 0..MaxRetryDelay
RetriesWhen(giveUp) ==
    /\ Received /\ ~Mutation /\ Retryable(reply.status)
    /\ IF giveUp
         THEN Fail("upstream")
         ELSE /\ pc' = "wait"
              /\ UNCHANGED <<kind, attempt, sends, verdict, cause>>
    /\ wire' = "idle"
    /\ UNCHANGED <<canceled, reply, applications>>

\* Mutants: a read waits although its last attempt is spent; gives up one
\* attempt early; honours any Retry-After.
RetriesOnceMore == RetriesWhen(~ValidDelay(reply) \/ attempt = Attempts)
RetriesOnceLess == RetriesWhen(~ValidDelay(reply) \/ attempt >= Attempts - 2)
RetriesAnyDelay == RetriesWhen(attempt = Attempts - 1)

ReadRetries == RetriesWhen(~ValidDelay(reply) \/ attempt = Attempts - 1)

ReadRefused ==
    /\ Received /\ ~Mutation
    /\ ~Success(reply.status) /\ ~Retryable(reply.status)
    /\ Fail(StatusCause(reply.status))
    /\ wire' = "idle"
    /\ UNCHANGED <<canceled, reply, applications>>

\* The bodies the call accepts: a plain mutation's is read but not decoded.
Acceptable(body) ==
    IF kind = "plainMutation" THEN body \notin {"unreadable", "oversized"}
                              ELSE body = "valid"

Accept ==
    /\ Received /\ Success(reply.status)
    /\ IF Acceptable(reply.body) THEN Return("confirmed", "none")
                                 ELSE Fail("invalid")
    /\ wire' = "idle"
    /\ UNCHANGED <<canceled, reply, applications>>

\* Mutant: the timer is set again instead of the loop going on.
TimerRestarts == pc = "wait" /\ UNCHANGED vars

\* The select of client.wait: the timer may win although the context is done.
TimerFires ==
    /\ pc = "wait"
    /\ pc' = "build"
    /\ attempt' = attempt + 1
    /\ UNCHANGED <<kind, canceled, sends, wire, reply, verdict, cause,
                   applications>>

WaitCanceled ==
    /\ pc = "wait" /\ canceled
    /\ Fail("canceled")
    /\ UNCHANGED <<canceled, wire, reply, applications>>

------------------------------------------------------------------------------
(* The caller, the network and the service *)

Cancel ==
    /\ ~canceled /\ pc # "done"
    /\ canceled' = TRUE
    /\ UNCHANGED <<clientVars, wire, reply, applications>>

\* A request or a response is lost; doJSON sees at most a transport error.
Lose ==
    /\ wire # "idle"
    /\ wire' = "idle"
    /\ UNCHANGED <<clientVars, canceled, reply, applications>>

\* The service answers. It has performed the mutation if it answers 2xx, has
\* not if it answers 4xx, and may have on any other status.
Serve ==
    /\ wire = "request"
    /\ \E r \in Replies :
         /\ reply' = r
         /\ applications' \in
              IF ~Mutation \/ ClientError(r.status) THEN {applications}
              ELSE IF Success(r.status) THEN {applications + 1}
              ELSE {applications, applications + 1}
    /\ wire' = "reply"
    /\ UNCHANGED <<clientVars, canceled>>

Finished == pc = "done" /\ wire = "idle" /\ UNCHANGED vars

------------------------------------------------------------------------------

Receive == MutationRefused \/ ReadRetries \/ ReadRefused \/ Accept

Client ==
    \/ BuildFails \/ SendFails \/ Transmit \/ TransportFails
    \/ Receive \/ TimerFires \/ WaitCanceled

Next == Client \/ Cancel \/ Lose \/ Serve \/ Finished

Spec == Init /\ [][Next]_vars

\* doJSON runs, and every request sent is answered or fails in the end: the
\* transport promises that, for the client sets no timeout of its own.
Fairness == WF_vars(Client)

FairSpec == Spec /\ Fairness

------------------------------------------------------------------------------
(* Properties *)

\* A call of a mutating method keeps the promise of MutationCall: it takes
\* effect at most once, a nil error means it did, a rejection means it did not
\* and never will, however late the request arrives. (Reads have no effect
\* and no verdict to be held to.)
Contract == INSTANCE MutationCall WITH
    verdict <- IF Mutation THEN verdict ELSE "none"

KeepsContract == Contract!Spec

\* A request is sent again only by a read, and only when the response before
\* it was a transient one whose delay retryDelay accepts: a mutation is never
\* replayed, an unrelated client error never retried.
ResendsOnlyTransient ==
    [][sends' # sends /\ sends > 0 =>
          ~Mutation /\ Retryable(reply.status) /\ ValidDelay(reply)]_vars

\* No more requests than the call is allowed, and client.wait is only entered
\* when a request may follow: nobody sleeps minutes to be told "upstream".
AttemptsBounded == sends <= Attempts /\ (pc = "wait" => sends < Attempts)

\* A read gives up on a transient response only when its attempts are spent or
\* the service asks for a delay that is malformed or too long.
GivesUpOnlyWhenSpent ==
    ~Mutation /\ pc = "done" /\ sends > 0 /\ cause = "upstream"
        => \/ ~Retryable(reply.status)
           \/ ~ValidDelay(reply)
           \/ sends = MaxAttempts

\* The retries are those allowed: none too many, none too few.
RetriesAsAllowed == AttemptsBounded /\ GivesUpOnlyWhenSpent

\* The call returns, whatever the service answers and however often it asks
\* for a retry.
Terminates == <>(pc = "done")
=============================================================================
