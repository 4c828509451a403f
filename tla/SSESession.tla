----------------------------- MODULE SSESession -----------------------------
(***************************************************************************)
(* The MCP HTTP/SSE transport, src/internal/mcp/sse.go.                    *)
(*                                                                         *)
(* A client opens an SSE stream (handleSSE), learns from its first event   *)
(* the endpoint of the new session, and POSTs JSON-RPC messages there      *)
(* (handleMessage).  A POST is acknowledged with 202 and its message runs  *)
(* in a goroutine of its own (dispatchSessionMessage), which hands the     *)
(* response to the stream handler through the session's buffered channel   *)
(* (sseSession.enqueue).  Stream handlers, POST handlers and dispatch      *)
(* goroutines interleave; they share the session store, the session's      *)
(* context and its channel.                                                *)
(*                                                                         *)
(* A POST is its own response: element p of a channel or of a stream is    *)
(* "the response to POST p".                                               *)
(***************************************************************************)
EXTENDS Naturals, Sequences, FiniteSets

CONSTANTS
  Sessions,   (* session ids: newSessionID draws 16 random bytes, so an id   *)
              (* names one stream and is never drawn twice                   *)
  Posts,      (* POST requests, each handled once                            *)
  QueueCap,   (* capacity of sseSession.messages, 16 in the code             *)
  NoSession   (* a sessionId that names no session                           *)

ASSUME QueueCapAssumption == QueueCap \in Nat \ {0}
ASSUME NoSessionAssumption == NoSession \notin Sessions

VARIABLES
  stream,     (* stream[s]: where the handleSSE call that serves s stands    *)
  conn,       (* conn[s]: "down" once the stream's r.Context() is done       *)
  ctxDone,    (* ctxDone[s]: is sseSession.ctx done?                         *)
  store,      (* the keys of sessionStore.sessions                           *)
  announced,  (* sessions whose "endpoint" event has reached the client      *)
  queue,      (* queue[s]: sseSession.messages                               *)
  held,       (* held[s]: the message handleSSE received and is writing      *)
  delivered,  (* delivered[s]: the "message" events the client received      *)
  pc,         (* pc[p]: where handleMessage, or its goroutine, stands        *)
  target,     (* target[p]: the sessionId of the POST                        *)
  kind,       (* kind[p]: what its body holds                                *)
  resp,       (* resp[p]: the response computed for it                       *)
  out,        (* out[p]: what enqueue returned                               *)
  status      (* status[p]: the HTTP status written, 0 before                *)

sessionVars == <<stream, conn, ctxDone, store, announced, held, delivered>>
postVars == <<pc, target, kind, resp, out, status>>
vars == <<stream, conn, ctxDone, store, announced, queue, held, delivered,
          pc, target, kind, resp, out, status>>

StreamPC == {"idle", "announce", "loop", "write", "keepalive", "remove", "closed"}
PostPC == {"idle", "lookup", "body", "run", "check", "select", "blocked", "ack", "done"}

(* A body that json.Decode rejects is "malformed"; a message without an id   *)
(* is a "notification"; every other message, a bad one included, is a        *)
(* "call": Server.handleMessage returns a response for it.                   *)
Kind == {"call", "notification", "malformed"}

TypeOK ==
  /\ stream \in [Sessions -> StreamPC]
  /\ conn \in [Sessions -> {"up", "down"}]
  /\ ctxDone \in [Sessions -> BOOLEAN]
  /\ store \in SUBSET Sessions
  /\ announced \in SUBSET Sessions
  /\ queue \in [Sessions -> Seq(Posts)]
  /\ held \in [Sessions -> Seq(Posts)]
  /\ delivered \in [Sessions -> Seq(Posts)]
  /\ pc \in [Posts -> PostPC]
  /\ target \in [Posts -> Sessions \cup {NoSession}]
  /\ kind \in [Posts -> Kind]
  /\ resp \in [Posts -> {"none", "result", "canceled", "parseError"}]
  /\ out \in [Posts -> {"none", "queued", "canceled", "timeout"}]
  /\ status \in [Posts -> {0, 202, 400}]

Init ==
  /\ stream = [s \in Sessions |-> "idle"]
  /\ conn = [s \in Sessions |-> "up"]
  /\ ctxDone = [s \in Sessions |-> FALSE]
  /\ store = {}
  /\ announced = {}
  /\ queue = [s \in Sessions |-> << >>]
  /\ held = [s \in Sessions |-> << >>]
  /\ delivered = [s \in Sessions |-> << >>]
  /\ pc = [p \in Posts |-> "idle"]
  /\ target = [p \in Posts |-> NoSession]
  /\ kind = [p \in Posts |-> "call"]
  /\ resp = [p \in Posts |-> "none"]
  /\ out = [p \in Posts |-> "none"]
  /\ status = [p \in Posts |-> 0]

-----------------------------------------------------------------------------
(* The stream handler: handleSSE and sessionStore.                           *)

(* The GET passed its checks; sessionStore.add publishes the session before  *)
(* anything is written.                                                      *)
OpenStream(s) ==
  /\ stream[s] = "idle"
  /\ stream' = [stream EXCEPT ![s] = "announce"]
  /\ store' = store \cup {s}
  /\ UNCHANGED <<conn, ctxDone, announced, queue, held, delivered, postVars>>

(* A write to a stream that does not reach the client: net/http ends         *)
(* r.Context() when a write on the connection fails.  Fprintf reports the    *)
(* failure and the handler returns, or the failure only hits Flush, whose    *)
(* result does not exist, and the handler goes on.                           *)
WriteFails(s) ==
  /\ conn' = [conn EXCEPT ![s] = "down"]
  /\ \E next \in {"loop", "remove"} : stream' = [stream EXCEPT ![s] = next]

(* writeSSE of the "endpoint" event.                                         *)
Announce(s) ==
  /\ stream[s] = "announce"
  /\ \/ /\ conn[s] = "up"
        /\ announced' = announced \cup {s}
        /\ stream' = [stream EXCEPT ![s] = "loop"]
        /\ UNCHANGED conn
     \/ /\ WriteFails(s)
        /\ UNCHANGED announced
  /\ UNCHANGED <<ctxDone, store, queue, held, delivered, postVars>>

(* Senders blocked on the session's full channel.  Which of them the next    *)
(* receive releases is left open, as the Go specification leaves it.         *)
Blocked(s) == {p \in Posts : pc[p] = "blocked" /\ target[p] = s}

(* Where a POST stands once enqueue has returned: a dispatch goroutine ends, *)
(* the handler of a malformed body still has to write its 202.               *)
AfterEnqueue(p) == IF kind[p] = "malformed" THEN "ack" ELSE "done"

Enqueued(p, result) ==
  /\ out' = [out EXCEPT ![p] = result]
  /\ pc' = [pc EXCEPT ![p] = AfterEnqueue(p)]

(* select chose <-session.messages; the slot goes to a blocked sender if     *)
(* there is one.                                                             *)
Receive(s) ==
  /\ stream[s] = "loop"
  /\ queue[s] # << >>
  /\ stream' = [stream EXCEPT ![s] = "write"]
  /\ held' = [held EXCEPT ![s] = <<Head(queue[s])>>]
  /\ \/ /\ Blocked(s) = {}
        /\ queue' = [queue EXCEPT ![s] = Tail(@)]
        /\ UNCHANGED <<pc, out>>
     \/ \E p \in Blocked(s) :
          /\ queue' = [queue EXCEPT ![s] = Append(Tail(@), p)]
          /\ Enqueued(p, "queued")
  /\ UNCHANGED <<conn, ctxDone, store, announced, delivered, target, kind, resp, status>>

(* writeSSE of the "message" event.                                          *)
WriteMessage(s) ==
  /\ stream[s] = "write"
  /\ held' = [held EXCEPT ![s] = << >>]
  /\ \/ /\ conn[s] = "up"
        /\ delivered' = [delivered EXCEPT ![s] = @ \o held[s]]
        /\ stream' = [stream EXCEPT ![s] = "loop"]
        /\ UNCHANGED conn
     \/ /\ WriteFails(s)
        /\ UNCHANGED delivered
  /\ UNCHANGED <<ctxDone, store, announced, queue, postVars>>

(* select chose <-keepAlive.C.                                               *)
Tick(s) ==
  /\ stream[s] = "loop"
  /\ stream' = [stream EXCEPT ![s] = "keepalive"]
  /\ UNCHANGED <<conn, ctxDone, store, announced, queue, held, delivered, postVars>>

WriteKeepAlive(s) ==
  /\ stream[s] = "keepalive"
  /\ \/ /\ conn[s] = "up"
        /\ stream' = [stream EXCEPT ![s] = "loop"]
        /\ UNCHANGED conn
     \/ WriteFails(s)
  /\ UNCHANGED <<ctxDone, store, announced, queue, held, delivered, postVars>>

(* select chose <-r.Context().Done().                                        *)
StreamDone(s) ==
  /\ stream[s] = "loop"
  /\ conn[s] = "down"
  /\ stream' = [stream EXCEPT ![s] = "remove"]
  /\ UNCHANGED <<conn, ctxDone, store, announced, queue, held, delivered, postVars>>

(* A variant of Remove that ends the context and forgets the entry.          *)
RemoveKeepingEntry(s) ==
  /\ stream[s] = "remove"
  /\ stream' = [stream EXCEPT ![s] = "closed"]
  /\ ctxDone' = [ctxDone EXCEPT ![s] = TRUE]
  /\ UNCHANGED <<conn, store, announced, queue, held, delivered, postVars>>

(* The deferred sessionStore.remove: cancel and delete under the lock.       *)
Remove(s) ==
  /\ stream[s] = "remove"
  /\ stream' = [stream EXCEPT ![s] = "closed"]
  /\ ctxDone' = [ctxDone EXCEPT ![s] = TRUE]
  /\ store' = store \ {s}
  /\ UNCHANGED <<conn, announced, queue, held, delivered, postVars>>

(* The client goes away, or net/http ends the request for a reason of its    *)
(* own: r.Context() is done.                                                 *)
Disconnect(s) ==
  /\ stream[s] \notin {"idle", "closed"}
  /\ conn[s] = "up"
  /\ conn' = [conn EXCEPT ![s] = "down"]
  /\ UNCHANGED <<stream, ctxDone, store, announced, queue, held, delivered, postVars>>

(* context.WithCancel(r.Context()): the parent's end ends the session's      *)
(* context, in a step of its own.                                            *)
PropagateCancel(s) ==
  /\ conn[s] = "down"
  /\ ~ctxDone[s]
  /\ ctxDone' = [ctxDone EXCEPT ![s] = TRUE]
  /\ UNCHANGED <<stream, conn, store, announced, queue, held, delivered, postVars>>

-----------------------------------------------------------------------------
(* The POST handler, handleMessage, and the goroutine it starts.             *)

(* A client POSTs a message to an endpoint it was told of, or to one that    *)
(* never existed.                                                            *)
Send(p, s, k) ==
  /\ pc[p] = "idle"
  /\ pc' = [pc EXCEPT ![p] = "lookup"]
  /\ target' = [target EXCEPT ![p] = s]
  /\ kind' = [kind EXCEPT ![p] = k]
  /\ UNCHANGED <<sessionVars, queue, resp, out, status>>

(* sessionStore.get.                                                         *)
Lookup(p) ==
  /\ pc[p] = "lookup"
  /\ IF target[p] \in store
     THEN /\ pc' = [pc EXCEPT ![p] = "body"]
          /\ UNCHANGED status
     ELSE /\ pc' = [pc EXCEPT ![p] = "done"]
          /\ status' = [status EXCEPT ![p] = 400]
  /\ UNCHANGED <<sessionVars, queue, target, kind, resp, out>>

(* The body does not decode: the handler itself enqueues a parse error and   *)
(* writes the 202 only when enqueue has returned.                            *)
DecodeFails(p) ==
  /\ pc[p] = "body"
  /\ kind[p] = "malformed"
  /\ pc' = [pc EXCEPT ![p] = "check"]
  /\ resp' = [resp EXCEPT ![p] = "parseError"]
  /\ UNCHANGED <<sessionVars, queue, target, kind, out, status>>

(* The body decodes: 202, then go dispatchSessionMessage.                    *)
Accept(p) ==
  /\ pc[p] = "body"
  /\ kind[p] # "malformed"
  /\ pc' = [pc EXCEPT ![p] = "run"]
  /\ status' = [status EXCEPT ![p] = 202]
  /\ UNCHANGED <<sessionVars, queue, target, kind, resp, out>>

(* Server.handleMessage(session.ctx, req) returns.  A tool that runs into    *)
(* the end of session.ctx answers with a cancellation error.                 *)
HandleMessage(p) ==
  /\ pc[p] = "run"
  /\ \/ /\ kind[p] = "notification"
        /\ pc' = [pc EXCEPT ![p] = "done"]
        /\ UNCHANGED resp
     \/ /\ kind[p] = "call"
        /\ pc' = [pc EXCEPT ![p] = "check"]
        /\ \E r \in {"result"} \cup {x \in {"canceled"} : ctxDone[target[p]]} :
             resp' = [resp EXCEPT ![p] = r]
  /\ UNCHANGED <<sessionVars, queue, target, kind, out, status>>

(* enqueue looks at the context without blocking, then marshals, which a     *)
(* response cannot fail: it holds text, decoded JSON and what toolResult has *)
(* marshalled before (tools.go:170), ...                                     *)
EnqueueCheck(p) ==
  /\ pc[p] = "check"
  /\ IF ctxDone[target[p]]
     THEN Enqueued(p, "canceled")
     ELSE /\ pc' = [pc EXCEPT ![p] = "select"]
          /\ UNCHANGED out
  /\ UNCHANGED <<sessionVars, queue, target, kind, resp, status>>

(* ... and selects.  The channel has room: the send goes through, even if    *)
(* the context is done by now.                                               *)
EnqueueSend(p) ==
  /\ pc[p] = "select"
  /\ Len(queue[target[p]]) < QueueCap
  /\ queue' = [queue EXCEPT ![target[p]] = Append(@, p)]
  /\ Enqueued(p, "queued")
  /\ UNCHANGED <<sessionVars, target, kind, resp, status>>

(* The channel is full and the context lives: the select blocks.             *)
EnqueueBlock(p) ==
  /\ pc[p] = "select"
  /\ Len(queue[target[p]]) = QueueCap
  /\ ~ctxDone[target[p]]
  /\ pc' = [pc EXCEPT ![p] = "blocked"]
  /\ UNCHANGED <<sessionVars, queue, target, kind, resp, out, status>>

(* The select takes <-s.ctx.Done().                                          *)
EnqueueCanceled(p) ==
  /\ pc[p] \in {"select", "blocked"}
  /\ ctxDone[target[p]]
  /\ Enqueued(p, "canceled")
  /\ UNCHANGED <<sessionVars, queue, target, kind, resp, status>>

(* The select takes <-time.After(5 * time.Second); the timer starts with the *)
(* select, so it can only fire in one that blocked.                          *)
EnqueueTimeout(p) ==
  /\ pc[p] = "blocked"
  /\ Enqueued(p, "timeout")
  /\ UNCHANGED <<sessionVars, queue, target, kind, resp, status>>

(* The handler of a malformed body acknowledges it, whatever enqueue said.   *)
LateAck(p) ==
  /\ pc[p] = "ack"
  /\ pc' = [pc EXCEPT ![p] = "done"]
  /\ status' = [status EXCEPT ![p] = 202]
  /\ UNCHANGED <<sessionVars, queue, target, kind, resp, out>>

-----------------------------------------------------------------------------
(* The processes.                                                            *)

WriteReturns(s) == Announce(s) \/ WriteMessage(s) \/ WriteKeepAlive(s)

(* Variants of Stream, each with one plausible bug; the properties below     *)
(* tell every one of them from the code.                                     *)

(* The endpoint is announced before the session is in the store.             *)
StreamAnnouncingEarly(s) ==
  \/ /\ stream[s] = "idle"
     /\ stream' = [stream EXCEPT ![s] = "announce"]
     /\ announced' = announced \cup {s}
     /\ UNCHANGED <<conn, ctxDone, store, queue, held, delivered, postVars>>
  \/ /\ stream[s] = "announce"
     /\ stream' = [stream EXCEPT ![s] = "loop"]
     /\ store' = store \cup {s}
     /\ UNCHANGED <<conn, ctxDone, announced, queue, held, delivered, postVars>>
  \/ Receive(s) \/ Tick(s) \/ StreamDone(s) \/ Remove(s)
  \/ WriteMessage(s) \/ WriteKeepAlive(s) \/ Disconnect(s) \/ PropagateCancel(s)

(* A message whose write failed is put back to be written again.             *)
StreamRetryingWrites(s) ==
  \/ /\ stream[s] = "write"
     /\ WriteFails(s)
     /\ held' = [held EXCEPT ![s] = << >>]
     /\ queue' = [queue EXCEPT ![s] = @ \o held[s]]
     /\ UNCHANGED <<ctxDone, store, announced, delivered, postVars>>
  \/ OpenStream(s) \/ Receive(s) \/ Tick(s) \/ StreamDone(s) \/ Remove(s)
  \/ WriteReturns(s) \/ Disconnect(s) \/ PropagateCancel(s)

(* A received message is skipped, not written.                               *)
StreamSkipping(s) ==
  \/ /\ stream[s] = "loop"
     /\ queue[s] # << >>
     /\ queue' = [queue EXCEPT ![s] = Tail(@)]
     /\ UNCHANGED <<sessionVars, postVars>>
  \/ OpenStream(s) \/ Tick(s) \/ StreamDone(s) \/ Remove(s)
  \/ WriteReturns(s) \/ Disconnect(s) \/ PropagateCancel(s)

(* handleSSE, its client and the context it serves under.                    *)
Stream(s) ==
  \/ OpenStream(s) \/ Receive(s) \/ Tick(s) \/ StreamDone(s) \/ Remove(s)
  \/ WriteReturns(s) \/ Disconnect(s) \/ PropagateCancel(s)

(* sseSession.enqueue.                                                       *)
Enqueue(p) ==
  \/ EnqueueCheck(p) \/ EnqueueSend(p) \/ EnqueueBlock(p)
  \/ EnqueueCanceled(p) \/ EnqueueTimeout(p)

(* Variants of PostStep.                                                     *)

(* The channel has no bound.                                                 *)
PostUnbounded(p) ==
  \/ /\ pc[p] = "select"
     /\ queue' = [queue EXCEPT ![target[p]] = Append(@, p)]
     /\ Enqueued(p, "queued")
     /\ UNCHANGED <<sessionVars, target, kind, resp, status>>
  \/ Lookup(p) \/ DecodeFails(p) \/ Accept(p) \/ HandleMessage(p) \/ Enqueue(p) \/ LateAck(p)

(* A timed-out sender reports the drop but goes on trying to send.           *)
PostSendingAfterTimeout(p) ==
  \/ /\ pc[p] = "blocked"
     /\ out' = [out EXCEPT ![p] = "timeout"]
     /\ pc' = [pc EXCEPT ![p] = "select"]
     /\ UNCHANGED <<sessionVars, queue, target, kind, resp, status>>
  \/ /\ pc[p] = "select"
     /\ Len(queue[target[p]]) < QueueCap
     /\ queue' = [queue EXCEPT ![target[p]] = Append(@, p)]
     /\ pc' = [pc EXCEPT ![p] = AfterEnqueue(p)]
     /\ UNCHANGED <<sessionVars, target, kind, resp, out, status>>
  \/ Lookup(p) \/ DecodeFails(p) \/ Accept(p) \/ HandleMessage(p)
  \/ EnqueueCheck(p) \/ EnqueueBlock(p) \/ EnqueueCanceled(p) \/ LateAck(p)

(* A full channel is reported as success.                                    *)
PostDroppingWhenFull(p) ==
  \/ /\ pc[p] = "select"
     /\ Len(queue[target[p]]) = QueueCap
     /\ Enqueued(p, "queued")
     /\ UNCHANGED <<sessionVars, queue, target, kind, resp, status>>
  \/ Lookup(p) \/ DecodeFails(p) \/ Accept(p) \/ HandleMessage(p)
  \/ EnqueueCheck(p) \/ EnqueueSend(p) \/ EnqueueCanceled(p) \/ LateAck(p)

(* enqueue selects at once, without the first look at the context.           *)
PostWithoutCheck(p) ==
  \/ /\ pc[p] = "check"
     /\ pc' = [pc EXCEPT ![p] = "select"]
     /\ UNCHANGED <<sessionVars, queue, target, kind, resp, out, status>>
  \/ Lookup(p) \/ DecodeFails(p) \/ Accept(p) \/ HandleMessage(p)
  \/ EnqueueSend(p) \/ EnqueueBlock(p) \/ EnqueueCanceled(p) \/ EnqueueTimeout(p) \/ LateAck(p)

(* The goroutine starts before the 202 is written.                           *)
PostAckingLast(p) ==
  \/ /\ pc[p] = "body"
     /\ kind[p] # "malformed"
     /\ pc' = [pc EXCEPT ![p] = "run"]
     /\ UNCHANGED <<sessionVars, queue, target, kind, resp, out, status>>
  \/ Lookup(p) \/ DecodeFails(p) \/ HandleMessage(p) \/ Enqueue(p) \/ LateAck(p)

(* The timer runs from before the select.                                    *)
PostWithEarlyTimer(p) ==
  \/ /\ pc[p] = "select"
     /\ Enqueued(p, "timeout")
     /\ UNCHANGED <<sessionVars, queue, target, kind, resp, status>>
  \/ Lookup(p) \/ DecodeFails(p) \/ Accept(p) \/ HandleMessage(p) \/ Enqueue(p) \/ LateAck(p)

(* The select has no timer.                                                  *)
PostWithoutTimer(p) ==
  \/ Lookup(p) \/ DecodeFails(p) \/ Accept(p) \/ HandleMessage(p)
  \/ EnqueueCheck(p) \/ EnqueueSend(p) \/ EnqueueBlock(p) \/ EnqueueCanceled(p) \/ LateAck(p)

(* handleMessage and dispatchSessionMessage.                                 *)
PostStep(p) ==
  \/ Lookup(p) \/ DecodeFails(p) \/ Accept(p) \/ HandleMessage(p) \/ Enqueue(p) \/ LateAck(p)

Next ==
  \/ \E s \in Sessions : Stream(s)
  \/ \E p \in Posts : PostStep(p)
  \/ \E p \in Posts, s \in announced \cup {NoSession}, k \in Kind : Send(p, s, k)

Spec == Init /\ [][Next]_vars

(* What the scheduler owes.  Handlers and goroutines run; a tool ends by its *)
(* request timeout and a blocked enqueue by its own timer; Go's select picks *)
(* among ready cases at random, so a case that is ready again and again is   *)
(* taken (SF).  A write returns once the connection is gone; while it stands *)
(* a client that stops reading can block a write for ever, for the server    *)
(* sets no WriteTimeout, so nothing is assumed of it.                        *)
Fairness ==
  /\ \A p \in Posts : WF_vars(PostStep(p))
  /\ \A s \in Sessions :
       /\ WF_vars(Remove(s))
       /\ WF_vars(PropagateCancel(s))
       /\ WF_vars(conn[s] = "down" /\ WriteReturns(s))
       /\ SF_vars(Receive(s))
       /\ SF_vars(StreamDone(s))

FairSpec == Spec /\ Fairness

-----------------------------------------------------------------------------
(* Properties.                                                               *)

(* The responses a session's stream has taken, oldest first.                 *)
Pipeline(s) == delivered[s] \o held[s] \o queue[s]

Occurrences(p, seq) == Cardinality({i \in DOMAIN seq : seq[i] = p})

(* Every variable has its type, and neither the channel nor the hand that    *)
(* empties it holds more than it can.                                        *)
TypeInvariant ==
  /\ TypeOK
  /\ \A s \in Sessions : Len(queue[s]) <= QueueCap /\ Len(held[s]) <= 1

(* A client that POSTs to an endpoint it was told of gets 400 "invalid or    *)
(* expired MCP session" only once the handler of that stream is over: the    *)
(* session is registered before it is announced and stays registered for as  *)
(* long as anything can still be written to its stream.                      *)
RejectedOnlyAfterClose ==
  \A p \in Posts :
    status[p] = 400 /\ target[p] \in Sessions => stream[target[p]] = "closed"

(* A response enters at most one stream, the one its POST named, at most     *)
(* once, and only if enqueue reported success: what was reported as dropped  *)
(* is never delivered after all.                                             *)
NoDuplicateOrStray ==
  \A s \in Sessions, p \in Posts :
    Occurrences(p, Pipeline(s)) <= IF target[p] = s /\ out[p] = "queued" THEN 1 ELSE 0

(* While the client's connection stands, a response enqueue took is in the   *)
(* channel, in the handler's hand or with the client.                        *)
NothingLostWhileConnected ==
  \A p \in Posts :
    out[p] = "queued" /\ conn[target[p]] = "up" => Occurrences(p, Pipeline(target[p])) = 1

(* A tool is cut short only when its client's stream is lost; the POST that  *)
(* started it, long over by then, has no say ("should not ... depend on the  *)
(* POST request context", sse.go:178-180).  The cancellation error it then   *)
(* returns is never queued, although the context may end at any point        *)
(* between the tool's return and the send.                                   *)
CancellationStaysInside ==
  \A p \in Posts : resp[p] = "canceled" => conn[target[p]] = "down" /\ out[p] # "queued"

(* A client never reads the response to a request on its stream before the   *)
(* 202 of the POST was written (malformed bodies excepted: their parse error *)
(* is enqueued first).                                                       *)
AnsweredAfterAck ==
  \A p \in Posts : out[p] = "queued" /\ kind[p] = "call" => status[p] = 202

(* "MCP session is not consuming responses" is said only of a session whose  *)
(* channel is full at that moment.                                           *)
TimeoutOnlyWhenFull ==
  [][\A p \in Posts :
       out[p] = "none" /\ out'[p] = "timeout" => Len(queue[target[p]]) = QueueCap]_vars

(* The transport implements the ordered, loss-free response stream.          *)
StreamPhase(s) ==
  IF stream[s] = "idle" THEN "unopened" ELSE IF conn[s] = "up" THEN "live" ELSE "dead"

Abstract == INSTANCE ResponseStream
  WITH Responses <- Posts,
       phase <- [s \in Sessions |-> StreamPhase(s)],
       accepted <- {p \in Posts : out[p] = "queued"},
       pending <- [s \in Sessions |-> held[s] \o queue[s]],
       written <- delivered

ImplementsResponseStream == Abstract!Spec

(* Every POST and every goroutine it started ends, even if the client keeps  *)
(* its connection and never reads from it.                                   *)
EveryPostEnds ==
  \A p \in Posts : pc[p] # "idle" ~> pc[p] = "done"

(* A lost connection frees the session: its entry leaves the store and its   *)
(* context is done.                                                          *)
LostConnectionFreesSession ==
  \A s \in Sessions : conn[s] = "down" ~> s \notin store /\ ctxDone[s]

(* A client that keeps reading (the stream handler is back in its select     *)
(* again and again) receives every response that was queued, or loses its    *)
(* connection.                                                               *)
ReadingClientIsServed ==
  \A p \in Posts, s \in Sessions :
    []<>(stream[s] = "loop") =>
      (Occurrences(p, queue[s]) > 0 ~> Occurrences(p, delivered[s]) > 0 \/ conn[s] = "down")

=============================================================================
