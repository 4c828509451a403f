--------------------------- MODULE EngineRequest ---------------------------
(***************************************************************************)
(* One request of kctx from its middleware to its answer: an HTTP request  *)
(* (internal/server) or an MCP tool call (internal/mcp), the engine        *)
(* operation it runs (internal/engine), the Kubernetes reads the operation *)
(* makes through kube.Client, each charged to the request's call budget    *)
(* (internal/limits), the request's deadline and its client's patience,    *)
(* and the status the failure or the result is turned into                 *)
(* (server/errors.go, internal/apperror) and counted under (server/use).   *)
(*                                                                         *)
(* An operation is the order of its reads.  What the reads return matters  *)
(* only for which read follows, so every order the code can take for some  *)
(* cluster is taken.  A request runs in one goroutine: what happens around *)
(* it is the end of its context and the answers of the API server.         *)
(***************************************************************************)
EXTENDS Naturals

CONSTANTS
  Limits,         (* the configured budgets (kubeAPIBudget): 0 disables it   *)
  HasTimeout,     (* is a request timeout configured (requestTimeout > 0)?   *)
  MaxFanout,      (* BOUND: no optional read is started once this many reads *)
                  (* were made                                               *)
  MaxDiscovery    (* BOUND: API calls of one resource discovery              *)

ASSUME LimitsAssumption == Limits \subseteq Nat
ASSUME BoundsAssumption == MaxFanout \in Nat /\ MaxDiscovery \in Nat \ {0}
ASSUME TimeoutAssumption == HasTimeout \in BOOLEAN

VARIABLES
  entry,      (* how the request came in                                     *)
  op,         (* the engine operation                                        *)
  limit,      (* the request's budget, 0 for none                            *)
  ctx,        (* the request's context: live, or why it ended                *)
  remaining,  (* Budget.remaining                                            *)
  reads,      (* kube.Client operations that got past the budget             *)
  calls,      (* API calls sent to the API server                            *)
  last,       (* the read in flight, or else the last one                    *)
  inFlight,   (* is the engine waiting for an API call?                      *)
  lost,       (* failures the operation swallowed                            *)
  err,        (* the error that ended the request, "none" without one        *)
  pc,         (* where the request stands                                    *)
  answer,     (* the status the client gets, 0 before                        *)
  recorded,   (* statusRecorder.status, and has WriteHeader run?             *)
  counted     (* the status the request was counted under, 0 before          *)

request == <<entry, op, limit>>
engine == <<remaining, reads, calls, last, inFlight, lost>>
reply == <<answer, recorded, counted>>
vars == <<entry, op, limit, ctx, remaining, reads, calls, last, inFlight, lost,
          err, pc, answer, recorded, counted>>

Operations == {"podContext", "podGraph", "traceService", "namespaceHealth",
               "dumpNamespace", "explain"}

(* The operations each transport offers.                                     *)
Offers(e) ==
  IF e = "http" THEN Operations \ {"explain"} ELSE Operations \ {"podContext"}

Reads == {"start", "resolve", "object", "pod", "owner", "node", "service", "pods",
          "slices", "endpoints", "services", "events", "list"}

(* Why a read fails: what the API server or client-go answers, the end of    *)
(* the context, or ErrBudgetExceeded.  "timeout" is client-go's own, of its  *)
(* dialer: errors.Is takes it for context.DeadlineExceeded.                  *)
ServerFailures == {"notFound", "forbidden", "timeout", "other"}
LimitFailures == {"deadline", "canceled", "budget"}
Failures == ServerFailures \cup LimitFailures

Errors == Failures \cup {"none", "badRequest", "methodNotAllowed", "unsupported", "write"}

Statuses == {200, 400, 403, 404, 405, 422, 429, 499, 500, 504}

TypeOK ==
  /\ entry \in {"http", "mcp"}
  /\ op \in Operations
  /\ limit \in Limits
  /\ ctx \in {"live", "deadline", "canceled"}
  /\ remaining \in Nat /\ reads \in Nat /\ calls \in Nat
  /\ last \in Reads
  /\ inFlight \in BOOLEAN
  /\ lost \in SUBSET Failures
  /\ err \in Errors
  /\ pc \in {"validate", "engine", "encode", "error", "record", "done"}
  /\ answer \in Statuses \cup {0}
  /\ recorded \in [status : Statuses, wroteHeader : BOOLEAN]
  /\ counted \in Statuses \cup {0}

(* The middleware has run: a budget of its own, a context of its own.        *)
Init ==
  /\ entry \in {"http", "mcp"}
  /\ op \in Offers(entry)
  /\ limit \in Limits
  /\ ctx = "live"
  /\ remaining = limit /\ reads = 0 /\ calls = 0
  /\ last = "start"
  /\ inFlight = FALSE
  /\ lost = {}
  /\ err = "none"
  /\ pc = "validate"
  /\ answer = 0
  /\ recorded = [status |-> 200, wroteHeader |-> FALSE]
  /\ counted = 0

-----------------------------------------------------------------------------
(* The operations.                                                           *)

(* Which read follows which, <<read, "end">> where the result is complete.   *)

(* A variant of the order below that expands the owners last.                *)
PodContextOwnersLast ==
  {<<"start", "pod">>, <<"pod", "services">>, <<"services", "events">>,
   <<"events", "owner">>, <<"owner", "owner">>, <<"events", "end">>, <<"owner", "end">>}

(* pod, ReplicaSets and Deployments above it, Services, Events.              *)
PodContextOrder ==
  {<<"start", "pod">>, <<"pod", "owner">>, <<"owner", "owner">>,
   <<"pod", "services">>, <<"owner", "services">>,
   <<"services", "events">>, <<"events", "end">>}

(* pod, the chain of owners, the Node if it is scheduled, Services.          *)
PodGraphOrder ==
  {<<"start", "pod">>, <<"pod", "owner">>, <<"owner", "owner">>}
    \cup ({"pod", "owner"} \X {"node", "services"})
    \cup {<<"node", "services">>, <<"services", "end">>}

(* Service, which ends it if it is an ExternalName; the Pods if there is a   *)
(* selector, their owners; EndpointSlices, Endpoints if there are none.      *)
TraceServiceOrder ==
  {<<"start", "service">>, <<"service", "end">>, <<"service", "pods">>,
   <<"service", "slices">>, <<"pods", "owner">>, <<"owner", "owner">>,
   <<"pods", "slices">>, <<"owner", "slices">>, <<"slices", "endpoints">>,
   <<"slices", "end">>, <<"endpoints", "end">>}

(* Discovery, then the context of the Pod or the one object.                 *)
ExplainOrder ==
  (PodContextOrder \ {<<"start", "pod">>})
    \cup {<<"start", "resolve">>, <<"resolve", "pod">>, <<"resolve", "object">>,
          <<"object", "end">>}

(* n Lists in a row, the Namespace itself counted, then what is in after.    *)
Lists(n, after) ==
  {<<"start", "list">>}
    \cup {<<"list", r>> : r \in IF reads < n THEN {"list"} ELSE after}

Order ==
  CASE op = "podContext"      -> PodContextOrder
    [] op = "podGraph"        -> PodGraphOrder
    [] op = "traceService"    -> TraceServiceOrder
    [] op = "explain"         -> ExplainOrder
    [] op = "namespaceHealth" -> Lists(11, {"end"})
    [] op = "dumpNamespace"   ->
         Lists(14, {"node", "end"}) \cup {<<"node", "node">>, <<"node", "end">>}

(* The failures of a read that do not end the operation.                     *)
Tolerated(r) ==
  CASE r = "owner" /\ op \in {"podContext", "explain"} -> Failures
    [] r = "owner" /\ op \in {"podGraph", "traceService"} -> {"notFound", "forbidden"}
    [] r = "node"      -> Failures
    [] r = "endpoints" -> {"notFound"}
    [] OTHER           -> {}

-----------------------------------------------------------------------------
(* A read: one kube.Client method.                                           *)

Fail(r, f) ==
  IF f \in Tolerated(r)
  THEN lost' = lost \cup {f} /\ UNCHANGED <<err, pc>>
  ELSE err' = f /\ pc' = "error" /\ UNCHANGED lost

(* A variant of HasToken that lets one more through, as a check for          *)
(* remaining < 0 would.                                                      *)
HasTokenOrOwes == limit = 0 \/ remaining >= 0

(* Budget.Take finds a token, or there is no budget.  One goroutine takes    *)
(* from a budget, so its load and its compare-and-swap are one step.         *)
HasToken == limit = 0 \/ remaining > 0

(* A variant of Spend that charges only what will be sent.                   *)
SpendWhileLive ==
  /\ remaining' = IF limit = 0 \/ ctx # "live" THEN remaining ELSE remaining - 1
  /\ reads' = reads + 1

Spend ==
  /\ remaining' = IF limit = 0 THEN remaining ELSE remaining - 1
  /\ reads' = reads + 1

(* The read the operation makes next.                                        *)
NextRead(r) ==
  /\ pc = "engine"
  /\ ~inFlight
  /\ <<last, r>> \in Order
  /\ r # "end"
  /\ r \in {"owner", "node"} => reads < MaxFanout

RefuseRead(r) ==
  /\ NextRead(r)
  /\ ~HasToken
  /\ last' = r
  /\ Fail(r, "budget")
  /\ UNCHANGED <<request, ctx, remaining, reads, calls, inFlight, reply>>

(* client-go sends nothing under a context that has ended ...                *)
FailRead(r) ==
  /\ NextRead(r)
  /\ HasToken
  /\ Spend
  /\ ctx # "live" /\ r # "resolve"
  /\ last' = r
  /\ Fail(r, ctx)
  /\ UNCHANGED <<request, ctx, calls, inFlight, reply>>

(* ... but discovery is not given the context.                               *)
StartRead(r) ==
  /\ NextRead(r)
  /\ HasToken
  /\ Spend
  /\ ctx = "live" \/ r = "resolve"
  /\ last' = r
  /\ calls' = calls + 1
  /\ inFlight' = TRUE
  /\ UNCHANGED <<request, ctx, lost, err, pc, reply>>

(* Discovery reads the groups, then each group's resources: one token.       *)
Discover ==
  /\ inFlight
  /\ last = "resolve"
  /\ calls < MaxDiscovery
  /\ calls' = calls + 1
  /\ UNCHANGED <<request, ctx, remaining, reads, last, inFlight, lost, err, pc, reply>>

(* The API server answers, even if the context has ended meanwhile.          *)
ReadSucceeds ==
  /\ inFlight
  /\ inFlight' = FALSE
  /\ UNCHANGED <<request, ctx, remaining, reads, calls, last, lost, err, pc, reply>>

ReadFails ==
  /\ inFlight
  /\ inFlight' = FALSE
  /\ \E f \in ServerFailures : Fail(last, f)
  /\ UNCHANGED <<request, ctx, remaining, reads, calls, last, reply>>

(* A variant of ReadInterrupted: the call is not made under the context.     *)
ReadUninterrupted == FALSE /\ UNCHANGED vars

(* The context ends and takes the call in flight with it.                    *)
ReadInterrupted ==
  /\ inFlight
  /\ ctx # "live" /\ last # "resolve"
  /\ inFlight' = FALSE
  /\ Fail(last, ctx)
  /\ UNCHANGED <<request, ctx, remaining, reads, calls, last, reply>>

-----------------------------------------------------------------------------
(* The handler around the operation.                                         *)

(* Method, path, query parameters or tool arguments are refused.             *)
Reject ==
  /\ pc = "validate"
  /\ err' \in IF entry = "http" THEN {"badRequest", "notFound", "methodNotAllowed"}
                                ELSE {"badRequest"}
  /\ pc' = "error"
  /\ UNCHANGED <<request, ctx, engine, reply>>

Begin ==
  /\ pc = "validate"
  /\ pc' = "engine"
  /\ UNCHANGED <<request, ctx, engine, err, reply>>

(* The operation returns its result; an object no adapter knows is an error. *)
Finish ==
  /\ pc = "engine"
  /\ ~inFlight
  /\ <<last, "end">> \in Order
  /\ \/ pc' = "encode" /\ UNCHANGED err
     \/ last = "object" /\ pc' = "error" /\ err' = "unsupported"
  /\ UNCHANGED <<request, ctx, engine, reply>>

(* writeJSON, or the tool's result.  The first byte of a body sends 200;     *)
(* when the connection fails the encoder reports it and the handler goes on  *)
(* to write an error.                                                        *)
WriteResult ==
  /\ pc = "encode"
  /\ answer' = 200
  /\ \/ pc' = "record" /\ UNCHANGED err
     \/ entry = "http" /\ pc' = "error" /\ err' = "write"
  /\ UNCHANGED <<request, ctx, engine, recorded, counted>>

(* errorResponse and HTTPStatusAndEnvelope.  A variant that takes a client's *)
(* leaving for a timeout comes first.                                        *)
StatusBlamingTimeouts(e) ==
  CASE e = "badRequest"                          -> 400
    [] e = "forbidden"                           -> 403
    [] e = "notFound"                            -> 404
    [] e = "methodNotAllowed"                    -> 405
    [] e = "unsupported"                         -> 422
    [] e = "budget"                              -> 429
    [] e \in {"deadline", "canceled", "timeout"} -> 504
    [] OTHER                                     -> 500

Status(e) ==
  CASE e = "badRequest"              -> 400
    [] e = "forbidden"               -> 403
    [] e = "notFound"                -> 404
    [] e = "methodNotAllowed"        -> 405
    [] e = "unsupported"             -> 422
    [] e = "budget"                  -> 429
    [] e = "canceled"                -> 499
    [] e \in {"deadline", "timeout"} -> 504
    [] OTHER                         -> 500

(* A variant of WriteError that writes the body without a header.            *)
WriteErrorBody ==
  /\ pc = "error"
  /\ pc' = "record"
  /\ answer' = IF answer = 0 THEN 200 ELSE answer
  /\ UNCHANGED <<request, ctx, engine, err, recorded, counted>>

(* statusRecorder.WriteHeader, seen first by the recorder: a body already    *)
(* written does not count as a header there, net/http knows better.          *)
WriteError ==
  /\ pc = "error"
  /\ pc' = "record"
  /\ IF entry = "http" /\ Status(err) = 499
     THEN UNCHANGED <<answer, recorded>>
     ELSE /\ answer' = IF answer = 0 THEN Status(err) ELSE answer
          /\ recorded' = IF recorded.wroteHeader THEN recorded
                         ELSE [status |-> Status(err), wroteHeader |-> TRUE]
  /\ UNCHANGED <<request, ctx, engine, err, counted>>

(* Access counts the request; net/http answers 200 if nothing was written.   *)
(* Tool calls are not counted.                                               *)
Record ==
  /\ pc = "record"
  /\ pc' = "done"
  /\ counted' = IF entry = "http" THEN recorded.status ELSE 0
  /\ answer' = IF answer = 0 THEN 200 ELSE answer
  /\ UNCHANGED <<request, ctx, engine, err, recorded>>

(* The deadline of RequestTimeout or toolContext passes ...                  *)
Deadline ==
  /\ HasTimeout
  /\ ctx = "live" /\ pc # "done"
  /\ ctx' = "deadline"
  /\ UNCHANGED <<request, engine, err, pc, reply>>

(* ... or the client leaves: r.Context(), or the session's, is cancelled.    *)
ClientGone ==
  /\ ctx = "live" /\ pc # "done"
  /\ ctx' = "canceled"
  /\ UNCHANGED <<request, engine, err, pc, reply>>

Read == \E r \in Reads : RefuseRead(r) \/ FailRead(r) \/ StartRead(r)
Handler == Read \/ Reject \/ Begin \/ Finish \/ WriteResult \/ WriteError \/ Record
ApiServer == ReadSucceeds \/ ReadFails \/ Discover

Next == Handler \/ ReadInterrupted \/ ApiServer \/ Deadline \/ ClientGone

Spec == Init /\ [][Next]_vars

(* The goroutine runs, the deadline passes, and client-go returns from a     *)
(* call whose context has ended.  The API server need not answer, but for    *)
(* discovery, which has no context and no timeout: that it is answered or    *)
(* given up is assumed.                                                      *)
Fairness ==
  /\ WF_vars(Handler)
  /\ WF_vars(Deadline)
  /\ WF_vars(ReadInterrupted)
  /\ WF_vars(last = "resolve" /\ ApiServer)

FairSpec == Spec /\ Fairness
-----------------------------------------------------------------------------
(* Properties.                                                               *)

(* Every variable has its type; in particular no budget is overdrawn.        *)
TypeInvariant == TypeOK

(* Every operation is paid for, once, whatever ends it: with a budget, the   *)
(* operations made and the tokens left add up to it, and only discovery      *)
(* sends more calls than it pays for.                                        *)
BudgetIsExact ==
  limit > 0 =>
    /\ reads + remaining = limit
    /\ calls <= limit + (IF op = "explain" THEN MaxDiscovery - 1 ELSE 0)

(* An operation other than the dump that answers with a result has not       *)
(* swallowed the end of its context or of its budget: the reads whose errors *)
(* are ignored are always followed by one whose error is not, and neither a  *)
(* context nor a budget recovers.  So what such a result leaves out, it      *)
(* leaves out for what a single read met.                                    *)
LimitsSurface ==
  op # "dumpNamespace" /\ pc = "done" /\ err = "none" => lost \cap LimitFailures = {}

(* A 504 in the metrics is a request whose deadline passed or whose last     *)
(* read client-go gave up, and a 429 one that used up its budget             *)
(* (METRICS.md:100-101), never a request that only lost its client, or was   *)
(* refused with tokens left.                                                 *)
StatusNamesItsCause ==
  /\ counted = 504 => ctx = "deadline" \/ err = "timeout"
  /\ counted = 429 => limit > 0 /\ reads = limit

(* A failed HTTP request is counted as a failure, unless its client left,    *)
(* and one that succeeded as a success.                                      *)
FailuresAreCounted ==
  pc = "done" /\ entry = "http" =>
    IF err = "none" THEN counted = 200 ELSE counted >= 400 \/ err = "canceled"

(* With a timeout configured every request ends, even if the API server      *)
(* never answers any read but discovery, which is assumed to end (Fairness). *)
RequestEnds == <>(pc = "done")

(* "clear error behavior when limits are exceeded (done for timeouts, event  *)
(* limits, and API budget)" (ROADMAP.md:341); "the normal error mapping      *)
(* turns the deadline into a JSON 504 response" (timeout.go:16-19): a result *)
(* is never short of what a limit kept the request from reading.             *)
LimitsAlwaysSurface ==
  pc = "done" /\ err = "none" => lost \cap LimitFailures = {}

(* "`504` request counts, which indicate request timeouts" (METRICS.md:100); *)
(* a 504 is for "a timeout of the context that went off before the operation *)
(* was over" (the Italian comment at errors.go:31).                          *)
TimeoutsAreDeadlines == counted = 504 => ctx = "deadline"

=============================================================================
