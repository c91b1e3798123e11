------------------------------ MODULE Authorize ------------------------------
(***************************************************************************)
(* Authorizer.Authorize (internal/auth/authorizer.go): one authorization   *)
(* flow. Without --auth-code-stdin a web server on the loopback interface  *)
(* takes the redirect of the browser; every request to it is handled by a  *)
(* goroutine of its own, while waitForCallback waits for the first result, *)
(* a failure of the server, a timeout or the end of the context.           *)
(***************************************************************************)
EXTENDS Naturals, Sequences

CONSTANT
    Callbacks  \* requests the loopback server may get

ASSUME CallbacksAssumption == Callbacks \cap {"none", "stdin"} = {}

VARIABLES
    stdin,     \* --auth-code-stdin
    flow,        \* where Authorize is
    query,     \* what each request asks for
    handler,   \* where its goroutine is
    told,      \* what its browser is told
    results,   \* the channel results
    serving,   \* the server accepts connections and has not failed
    canceled,  \* the context is done
    expired,   \* the timeout is over
    taken,     \* the parsed callback the flow ends or goes on with
    result,   \* what Authorize returns
    delivered  \* what was ever put into results, in order (history)

server == <<query, handler, told, results, delivered>>
flowVars == <<stdin, flow, server, serving, canceled, expired, taken, result>>

\* A redirect: to another path or with another method, with a state that is not
\* the one of this flow, with an error, malformed, or as it should be.
Queries == {"elsewhere", "otherState", "denied", "malformed", "code"}

\* parseCallback, on a query that is not "elsewhere"
Parsed == {"code", "stateMismatch", "accessDenied", "invalidCallback"}
NoResult == [from |-> "none", parsed |-> "none"]
Results == [from : Callbacks \cup {"stdin"}, parsed : Parsed]

FlowResults == {"none", "listenFailed", "canceled", "timeout", "serverFailed",
             "stateMismatch", "accessDenied", "invalidCallback",
             "exchangeFailed", "authorized"}

FlowTypeOK ==
    /\ stdin \in BOOLEAN
    /\ flow \in {"start", "wait", "shutdown", "exchange", "done"}
    /\ query \in [Callbacks -> Queries \cup {"none"}]
    /\ handler \in [Callbacks -> {"none", "accepted", "deliver", "done"}]
    /\ told \in [Callbacks -> {"none", "complete", "failed"}]
    /\ results \in Seq(Results) /\ Len(results) \in 0..1
    /\ serving \in BOOLEAN /\ canceled \in BOOLEAN /\ expired \in BOOLEAN
    /\ taken \in Results \cup {NoResult}
    /\ result \in FlowResults
    /\ delivered \in Seq(Results)

FlowInit ==
    /\ stdin \in BOOLEAN
    /\ flow = "start"
    /\ query = [h \in Callbacks |-> "none"]
    /\ handler = [h \in Callbacks |-> "none"]
    /\ told = [h \in Callbacks |-> "none"]
    /\ results = <<>>
    /\ serving = FALSE /\ canceled = FALSE /\ expired = FALSE
    /\ taken = NoResult
    /\ result = "none"
    /\ delivered = <<>>

\* Mutant: the code is looked for before the state is compared.
ParseCodeFirst(q) ==
    CASE q \in {"code", "otherState"} -> "code"
      [] q = "denied"                 -> "accessDenied"
      [] OTHER                        -> "invalidCallback"

ParseCallback(q) ==
    CASE q = "otherState" -> "stateMismatch"
      [] q = "denied"     -> "accessDenied"
      [] q = "code"       -> "code"
      [] OTHER            -> "invalidCallback"

------------------------------------------------------------------------------
(* The flow *)

Return(how) == flow' = "done" /\ result' = how

\* The listener is up before the URL is printed and the browser opened.
Listen ==
    /\ flow = "start" /\ ~stdin
    /\ \/ flow' = "wait" /\ serving' = TRUE /\ UNCHANGED result
       \/ Return("listenFailed") /\ UNCHANGED serving
    /\ UNCHANGED <<stdin, server, canceled, expired, taken>>

GoOnWith(r) ==
    /\ taken' = r
    /\ IF r.parsed = "code" THEN flow' = "exchange" /\ UNCHANGED result
                                 ELSE Return(r.parsed)

\* readRedirect: the user pastes the whole redirected URL.
ReadRedirect ==
    /\ flow = "start" /\ stdin
    /\ \E q \in Queries : GoOnWith([from |-> "stdin", parsed |-> ParseCallback(q)])
    /\ UNCHANGED <<stdin, server, serving, canceled, expired>>

\* The select of waitForCallback: any case that is ready. In every case the
\* server is then shut down, which no later request gets past.
Leave(how) ==
    /\ flow = "wait"
    /\ flow' = "shutdown" /\ serving' = FALSE /\ result' = how
    /\ UNCHANGED <<stdin, query, handler, told, delivered, canceled, expired>>

TakeResult ==
    /\ results # <<>>
    /\ taken' = Head(results) /\ results' = Tail(results)
    /\ Leave(IF taken'.parsed = "code" THEN "none" ELSE taken'.parsed)

GiveUp ==
    /\ \/ ~serving /\ Leave("serverFailed")
       \/ canceled /\ Leave("canceled")
       \/ expired /\ ~canceled /\ Leave("timeout")
    /\ UNCHANGED <<results, taken>>

\* The deferred Shutdown waits for every request being handled.
ShutDown ==
    /\ flow = "shutdown"
    /\ \A h \in Callbacks : handler[h] \in {"none", "done"}
    /\ flow' = IF result = "none" THEN "exchange" ELSE "done"
    /\ UNCHANGED <<stdin, server, serving, canceled, expired, taken, result>>

\* The token endpoint answers well, with a refresh token, or ErrExchange
Exchange ==
    /\ flow = "exchange"
    /\ Return("authorized") \/ Return("exchangeFailed")
    /\ UNCHANGED <<stdin, server, serving, canceled, expired, taken>>

------------------------------------------------------------------------------
(* The server *)

Arrive(h) ==
    /\ serving /\ handler[h] = "none"
    /\ \E q \in Queries : query' = [query EXCEPT ![h] = q]
    /\ handler' = [handler EXCEPT ![h] = "accepted"]
    /\ UNCHANGED <<stdin, flow, told, results, serving, canceled, expired, taken,
                   result, delivered>>

\* Mutant: the browser is told the same, whatever was parsed.
AnswerComplete(h) ==
    /\ handler[h] = "accepted"
    /\ told' = [told EXCEPT ![h] = "complete"]
    /\ handler' = [handler EXCEPT ![h] =
                     IF query[h] = "elsewhere" THEN "done" ELSE "deliver"]
    /\ UNCHANGED <<stdin, flow, query, results, serving, canceled, expired, taken,
                   result, delivered>>

\* The browser is answered before the flow hears of the result.
Answer(h) ==
    /\ handler[h] = "accepted"
    /\ told' = [told EXCEPT ![h] =
                  IF query[h] # "elsewhere" /\ ParseCallback(query[h]) = "code"
                    THEN "complete" ELSE "failed"]
    /\ handler' = [handler EXCEPT ![h] =
                     IF query[h] = "elsewhere" THEN "done" ELSE "deliver"]
    /\ UNCHANGED <<stdin, flow, query, results, serving, canceled, expired, taken,
                   result, delivered>>

ResultOf(h) == [from |-> h, parsed |-> ParseCallback(query[h])]

\* Mutant: a full channel blocks the handler.
BlockingDeliver(h) ==
    /\ handler[h] = "deliver" /\ results = <<>>
    /\ results' = <<ResultOf(h)>>
    /\ delivered' = Append(delivered, ResultOf(h))
    /\ handler' = [handler EXCEPT ![h] = "done"]
    /\ UNCHANGED <<stdin, flow, query, told, serving, canceled, expired, taken,
                   result>>

\* select with a default: a result nobody waits for is dropped.
Deliver(h) ==
    /\ handler[h] = "deliver"
    /\ IF results = <<>>
         THEN /\ results' = <<ResultOf(h)>>
              /\ delivered' = Append(delivered, ResultOf(h))
         ELSE UNCHANGED <<results, delivered>>
    /\ handler' = [handler EXCEPT ![h] = "done"]
    /\ UNCHANGED <<stdin, flow, query, told, serving, canceled, expired, taken,
                   result>>

------------------------------------------------------------------------------
(* The environment *)

ServerFails ==
    /\ flow = "wait" /\ serving
    /\ serving' = FALSE
    /\ UNCHANGED <<stdin, flow, server, canceled, expired, taken, result>>

Cancel ==
    /\ flow = "wait" /\ ~canceled
    /\ canceled' = TRUE
    /\ UNCHANGED <<stdin, flow, server, serving, expired, taken, result>>

Timeout ==
    /\ flow = "wait" /\ ~expired
    /\ expired' = TRUE
    /\ UNCHANGED <<stdin, flow, server, serving, canceled, taken, result>>

FlowOver == flow = "done" /\ UNCHANGED flowVars

------------------------------------------------------------------------------

Flow == Listen \/ ReadRedirect \/ TakeResult \/ GiveUp \/ ShutDown \/ Exchange

Handle(h) == Answer(h) \/ Deliver(h)

FlowNext ==
    \/ Flow \/ \E h \in Callbacks : Arrive(h) \/ Handle(h)
    \/ ServerFails \/ Cancel \/ Timeout \/ FlowOver

FlowSpec == FlowInit /\ [][FlowNext]_flowVars

\* Goroutines run while they can, and the timeout that waitForCallback sets does
\* expire. Nobody has to open the browser.
FairFlow ==
    /\ FlowSpec
    /\ WF_flowVars(Flow) /\ WF_flowVars(Timeout)
    /\ \A h \in Callbacks : WF_flowVars(Handle(h))

------------------------------------------------------------------------------
(* Properties *)

\* A code is only exchanged if it came with the state of this flow to its redirect
\* URI, and it is the first result of all that decides: whatever comes later,
\* while the server shuts down, changes nothing.
FirstResultDecides ==
    taken.from \in Callbacks =>
        /\ taken = delivered[1]
        /\ taken.parsed = "code" <=> query[taken.from] = "code"

\* What the browser whose callback decided was told is how the flow goes on, and a
\* flow that ends in an authorization has told some browser so.
BrowserToldTheSame ==
    taken.from \in Callbacks =>
        (told[taken.from] = "complete" <=>
            result \in {"none", "authorized", "exchangeFailed"})

\* The flow ends, with the timeout at the latest, and the shutdown of the server is
\* never kept waiting by a handler that nobody listens to any more.
Terminates == <>(flow = "done")
=============================================================================
