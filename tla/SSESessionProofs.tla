-------------------------- MODULE SSESessionProofs --------------------------
(***************************************************************************)
(* Safety of the MCP HTTP/SSE transport, for every set of sessions and     *)
(* POSTs and every capacity of the channel.                                *)
(*                                                                         *)
(* First the life of sessions and POSTs (SessionInv, PostInv) and what     *)
(* follows from it alone.  Then what becomes of a response (DInv): it      *)
(* enters one stream, once, is not lost while the client is there, and the *)
(* transport as a whole implements the ordered response stream of          *)
(* ResponseStream.                                                         *)
(***************************************************************************)
EXTENDS SSESession, SequenceTheorems, FiniteSetTheorems, TLAPS

(* The life of a session: registered exactly while its handler runs, not     *)
(* announced before, and never without its client for any other reason than  *)
(* a lost connection.                                                        *)
SessionInv ==
  \A s \in Sessions :
    /\ s \in store <=> stream[s] \notin {"idle", "closed"}
    /\ s \in announced => stream[s] \notin {"idle", "announce"}
    /\ stream[s] \in {"remove", "closed"} => conn[s] = "down"
    /\ ctxDone[s] => conn[s] = "down"

(* The life of a POST, read off its program counter.                         *)
PostInv ==
  \A p \in Posts :
    /\ pc[p] = "lookup" => target[p] \in announced \cup {NoSession}
    /\ pc[p] \in {"body", "run", "check", "select", "blocked", "ack"} => target[p] \in Sessions
    /\ pc[p] \in {"idle", "lookup", "body"} => status[p] = 0 /\ resp[p] = "none"
    /\ out[p] # "none" => pc[p] \in {"ack", "done"}
    /\ pc[p] = "ack" => kind[p] = "malformed"
    /\ pc[p] \in {"run", "check", "select", "blocked"} /\ kind[p] = "call" => status[p] = 202

(* A full channel is the only reason to block.                               *)
BlockedInv ==
  \A p \in Posts : pc[p] = "blocked" => Len(queue[target[p]]) = QueueCap

(* A tool cut short met a context that was done, and stays done.             *)
CanceledInv ==
  \A p \in Posts :
    resp[p] = "canceled" =>
      /\ target[p] \in Sessions
      /\ ctxDone[target[p]]
      /\ pc[p] \in {"check", "ack", "done"}
      /\ out[p] # "queued"

IInv ==
  /\ TypeInvariant
  /\ SessionInv
  /\ PostInv
  /\ BlockedInv
  /\ CanceledInv
  /\ RejectedOnlyAfterClose
  /\ AnsweredAfterAck

-----------------------------------------------------------------------------
(* What the steps leave alone.                                               *)

(* Where a POST goes after enqueue.                                          *)
LEMMA AfterEnqueueType ==
  ASSUME NEW p \in Posts
  PROVE  /\ AfterEnqueue(p) \in {"ack", "done"}
         /\ AfterEnqueue(p) = "ack" => kind[p] = "malformed"
BY DEF AfterEnqueue

(* No step of a POST writes to a stream or to the session store.             *)
LEMMA PostFrame ==
  ASSUME NEW p \in Posts, PostStep(p)
  PROVE  UNCHANGED sessionVars
BY DEF PostStep, Enqueue, Lookup, DecodeFails, Accept, HandleMessage, EnqueueCheck,
       EnqueueSend, EnqueueBlock, EnqueueCanceled, EnqueueTimeout, LateAck

(* The stream handler touches a POST only when its receive frees a sender.   *)
LEMMA StreamFrame ==
  ASSUME NEW s \in Sessions, Stream(s)
  PROVE  /\ UNCHANGED <<target, kind, resp, status>>
         /\ Receive(s) \/ UNCHANGED <<pc, out, queue>>
BY DEF Stream, WriteReturns, OpenStream, Announce, Receive, WriteMessage, Tick,
       WriteKeepAlive, StreamDone, Remove, Disconnect, PropagateCancel, postVars

(* A session that is announced, done or closed stays so.                     *)
LEMMA SessionMonotone ==
  ASSUME TypeOK, NEW s \in Sessions, Stream(s), NEW t \in Sessions
  PROVE  /\ announced \subseteq announced'
         /\ ctxDone[t] => ctxDone'[t]
         /\ stream[t] = "closed" => stream'[t] = "closed"
<1> USE DEF TypeOK, StreamPC
<1>1. CASE OpenStream(s) BY <1>1 DEF OpenStream
<1>2. CASE Announce(s)
  <2>1. stream[s] = "announce" /\ UNCHANGED ctxDone /\ announced \subseteq announced'
    BY <1>2 DEF Announce
  <2>2. \E x \in StreamPC : stream' = [stream EXCEPT ![s] = x]
    BY <1>2 DEF Announce, WriteFails
  <2> QED BY <2>1, <2>2
<1>3. CASE Receive(s) BY <1>3 DEF Receive
<1>4. CASE WriteMessage(s)
  <2>1. stream[s] = "write" /\ UNCHANGED <<ctxDone, announced>>
    BY <1>4 DEF WriteMessage
  <2>2. \E x \in StreamPC : stream' = [stream EXCEPT ![s] = x]
    BY <1>4 DEF WriteMessage, WriteFails
  <2> QED BY <2>1, <2>2
<1>5. CASE Tick(s) BY <1>5 DEF Tick
<1>6. CASE WriteKeepAlive(s)
  <2>1. stream[s] = "keepalive" /\ UNCHANGED <<ctxDone, announced>>
    BY <1>6 DEF WriteKeepAlive
  <2>2. \E x \in StreamPC : stream' = [stream EXCEPT ![s] = x]
    BY <1>6 DEF WriteKeepAlive, WriteFails
  <2> QED BY <2>1, <2>2
<1>7. CASE StreamDone(s) BY <1>7 DEF StreamDone
<1>8. CASE Remove(s) BY <1>8 DEF Remove
<1>9. CASE Disconnect(s) BY <1>9 DEF Disconnect
<1>10. CASE PropagateCancel(s) BY <1>10 DEF PropagateCancel
<1> QED
  BY <1>1, <1>2, <1>3, <1>4, <1>5, <1>6, <1>7, <1>8, <1>9, <1>10 DEF Stream, WriteReturns

-----------------------------------------------------------------------------
(* The inductive step, one lemma per conjunct of IInv.                       *)

LEMMA TypeStepStream ==
  ASSUME IInv, NEW s \in Sessions, Stream(s)
  PROVE  TypeInvariant'
<1> USE QueueCapAssumption DEF IInv, TypeInvariant, TypeOK
<1> USE DEF StreamPC
<1>1. CASE OpenStream(s) BY <1>1 DEF OpenStream, postVars
<1>2. CASE Announce(s)
  <2>1. CASE conn[s] = "up" /\ announced' = announced \cup {s}
             /\ stream' = [stream EXCEPT ![s] = "loop"] /\ UNCHANGED conn
    BY <1>2, <2>1 DEF Announce, postVars
  <2>2. CASE WriteFails(s) /\ UNCHANGED announced
    BY <1>2, <2>2 DEF Announce, WriteFails, postVars
  <2> QED BY <1>2, <2>1, <2>2 DEF Announce
<1>3. CASE Receive(s)
  <2>1. /\ Head(queue[s]) \in Posts
        /\ Tail(queue[s]) \in Seq(Posts)
        /\ Len(Tail(queue[s])) = Len(queue[s]) - 1
    BY <1>3 DEF Receive
  <2>2. /\ stream' \in [Sessions -> StreamPC]
        /\ held' \in [Sessions -> Seq(Posts)]
        /\ \A t \in Sessions : Len(held'[t]) <= 1
    BY <1>3, <2>1 DEF Receive
  <2>3. CASE queue' = [queue EXCEPT ![s] = Tail(@)] /\ UNCHANGED <<pc, out>>
    BY <1>3, <2>1, <2>2, <2>3 DEF Receive
  <2>4. ASSUME NEW p \in Blocked(s), queue' = [queue EXCEPT ![s] = Append(Tail(@), p)],
               Enqueued(p, "queued")
        PROVE  TypeInvariant'
    <3>1. p \in Posts BY DEF Blocked
    <3>2. /\ Append(Tail(queue[s]), p) \in Seq(Posts)
          /\ Len(Append(Tail(queue[s]), p)) = Len(queue[s])
      BY <2>1, <3>1
    <3>3. /\ queue' \in [Sessions -> Seq(Posts)]
          /\ \A t \in Sessions : Len(queue'[t]) <= QueueCap
      BY <2>4, <3>2
    <3>4. /\ pc' \in [Posts -> PostPC]
          /\ out' \in [Posts -> {"none", "queued", "canceled", "timeout"}]
      BY <2>4, <3>1, AfterEnqueueType DEF Enqueued, PostPC
    <3> QED BY <1>3, <2>2, <3>3, <3>4 DEF Receive
  <2> QED BY <1>3, <2>3, <2>4 DEF Receive
<1>4. CASE WriteMessage(s)
  <2>1. /\ held' \in [Sessions -> Seq(Posts)]
        /\ \A t \in Sessions : Len(held'[t]) <= 1
    BY <1>4 DEF WriteMessage
  <2>2. CASE /\ delivered' = [delivered EXCEPT ![s] = @ \o held[s]]
             /\ stream' = [stream EXCEPT ![s] = "loop"]
             /\ UNCHANGED conn
    <3>1. delivered[s] \o held[s] \in Seq(Posts) OBVIOUS
    <3> QED BY <1>4, <2>1, <2>2, <3>1 DEF WriteMessage, postVars
  <2>3. CASE WriteFails(s) /\ UNCHANGED delivered
    BY <1>4, <2>1, <2>3 DEF WriteMessage, WriteFails, postVars
  <2> QED BY <1>4, <2>2, <2>3 DEF WriteMessage
<1>5. CASE Tick(s) BY <1>5 DEF Tick, postVars
<1>6. CASE WriteKeepAlive(s)
  <2>1. CASE stream' = [stream EXCEPT ![s] = "loop"] /\ UNCHANGED conn
    BY <1>6, <2>1 DEF WriteKeepAlive, postVars
  <2>2. CASE WriteFails(s)
    BY <1>6, <2>2 DEF WriteKeepAlive, WriteFails, postVars
  <2> QED BY <1>6, <2>1, <2>2 DEF WriteKeepAlive
<1>7. CASE StreamDone(s) BY <1>7 DEF StreamDone, postVars
<1>8. CASE Remove(s) BY <1>8 DEF Remove, postVars
<1>9. CASE Disconnect(s) BY <1>9 DEF Disconnect, postVars
<1>10. CASE PropagateCancel(s) BY <1>10 DEF PropagateCancel, postVars
<1> QED
  BY <1>1, <1>2, <1>3, <1>4, <1>5, <1>6, <1>7, <1>8, <1>9, <1>10 DEF Stream, WriteReturns

LEMMA TypeStepPost ==
  ASSUME IInv, NEW p \in Posts, PostStep(p)
  PROVE  TypeInvariant'
<1> USE QueueCapAssumption DEF IInv, TypeInvariant, TypeOK
<1>0. UNCHANGED sessionVars BY PostFrame
<1> USE <1>0 DEF sessionVars, PostPC
<1>1. CASE Lookup(p)
  <2>1. pc' \in [Posts -> PostPC]
    <3>1. \E x \in {"body", "done"} : pc' = [pc EXCEPT ![p] = x] BY <1>1 DEF Lookup
    <3> QED BY <3>1
  <2>2. status' \in [Posts -> {0, 202, 400}]
    <3>1. \/ UNCHANGED status
          \/ status' = [status EXCEPT ![p] = 400]
      BY <1>1 DEF Lookup
    <3>2. CASE UNCHANGED status BY <3>2
    <3>3. CASE status' = [status EXCEPT ![p] = 400] BY <3>3
    <3> QED BY <3>1, <3>2, <3>3
  <2>3. UNCHANGED <<queue, target, kind, resp, out>> BY <1>1 DEF Lookup
  <2>4. \A t \in Sessions : Len(queue'[t]) <= QueueCap /\ Len(held'[t]) <= 1 BY <2>3
  <2> QED BY <2>1, <2>2, <2>3, <2>4
<1>2. CASE DecodeFails(p) BY <1>2 DEF DecodeFails
<1>3. CASE Accept(p) BY <1>3 DEF Accept
<1>4. CASE HandleMessage(p)
  <2>1. CASE pc' = [pc EXCEPT ![p] = "done"] /\ UNCHANGED resp
    BY <1>4, <2>1 DEF HandleMessage
  <2>2. CASE /\ pc' = [pc EXCEPT ![p] = "check"]
             /\ \E r \in {"result", "canceled"} : resp' = [resp EXCEPT ![p] = r]
    BY <1>4, <2>2 DEF HandleMessage
  <2> QED BY <1>4, <2>1, <2>2 DEF HandleMessage
<1>5. ASSUME NEW r \in {"queued", "canceled", "timeout"}, Enqueued(p, r)
      PROVE  /\ pc' \in [Posts -> PostPC]
             /\ out' \in [Posts -> {"none", "queued", "canceled", "timeout"}]
  BY <1>5, AfterEnqueueType DEF Enqueued
<1>6. CASE EnqueueCheck(p)
  <2>1. CASE Enqueued(p, "canceled") BY <1>5, <1>6, <2>1 DEF EnqueueCheck
  <2>2. CASE pc' = [pc EXCEPT ![p] = "select"] /\ UNCHANGED out
    BY <1>6, <2>2 DEF EnqueueCheck
  <2> QED BY <1>6, <2>1, <2>2 DEF EnqueueCheck
<1>7. CASE EnqueueSend(p)
  <2>1. target[p] \in Sessions BY <1>7 DEF EnqueueSend, PostInv
  <2>2. /\ queue' \in [Sessions -> Seq(Posts)]
        /\ \A t \in Sessions : Len(queue'[t]) <= QueueCap
    BY <1>7, <2>1 DEF EnqueueSend
  <2> QED BY <1>5, <1>7, <2>2 DEF EnqueueSend
<1>8. CASE EnqueueBlock(p) BY <1>8 DEF EnqueueBlock
<1>9. CASE EnqueueCanceled(p) BY <1>5, <1>9 DEF EnqueueCanceled
<1>10. CASE EnqueueTimeout(p) BY <1>5, <1>10 DEF EnqueueTimeout
<1>11. CASE LateAck(p) BY <1>11 DEF LateAck
<1> QED
  BY <1>1, <1>2, <1>3, <1>4, <1>6, <1>7, <1>8, <1>9, <1>10, <1>11 DEF PostStep, Enqueue

(* A client's POST has the type of a POST.                                   *)
LEMMA TypeStepSend ==
  ASSUME IInv, NEW p \in Posts, NEW s \in announced \cup {NoSession}, NEW k \in Kind,
         Send(p, s, k)
  PROVE  TypeInvariant'
BY DEF IInv, TypeInvariant, TypeOK, Send, sessionVars, PostPC

LEMMA SessionStep ==
  ASSUME IInv, NEW s \in Sessions, Stream(s)
  PROVE  SessionInv'
<1> USE DEF IInv, TypeInvariant, TypeOK, SessionInv, StreamPC
<1>1. CASE OpenStream(s) BY <1>1 DEF OpenStream
<1>2. CASE Announce(s)
  <2>1. CASE conn[s] = "up" /\ announced' = announced \cup {s}
             /\ stream' = [stream EXCEPT ![s] = "loop"] /\ UNCHANGED conn
    BY <1>2, <2>1 DEF Announce
  <2>2. CASE WriteFails(s) /\ UNCHANGED announced
    BY <1>2, <2>2 DEF Announce, WriteFails
  <2> QED BY <1>2, <2>1, <2>2 DEF Announce
<1>3. CASE Receive(s) BY <1>3 DEF Receive
<1>4. CASE WriteMessage(s)
  <2>1. CASE stream' = [stream EXCEPT ![s] = "loop"] /\ UNCHANGED conn
    BY <1>4, <2>1 DEF WriteMessage
  <2>2. CASE WriteFails(s)
    BY <1>4, <2>2 DEF WriteMessage, WriteFails
  <2> QED BY <1>4, <2>1, <2>2 DEF WriteMessage
<1>5. CASE Tick(s) BY <1>5 DEF Tick
<1>6. CASE WriteKeepAlive(s)
  <2>1. CASE stream' = [stream EXCEPT ![s] = "loop"] /\ UNCHANGED conn
    BY <1>6, <2>1 DEF WriteKeepAlive
  <2>2. CASE WriteFails(s)
    BY <1>6, <2>2 DEF WriteKeepAlive, WriteFails
  <2> QED BY <1>6, <2>1, <2>2 DEF WriteKeepAlive
<1>7. CASE StreamDone(s) BY <1>7 DEF StreamDone
<1>8. CASE Remove(s) BY <1>8 DEF Remove
<1>9. CASE Disconnect(s) BY <1>9 DEF Disconnect
<1>10. CASE PropagateCancel(s) BY <1>10 DEF PropagateCancel
<1> QED
  BY <1>1, <1>2, <1>3, <1>4, <1>5, <1>6, <1>7, <1>8, <1>9, <1>10 DEF Stream, WriteReturns

(* The invariants of the POSTs, under a step of a stream handler: only a     *)
(* receive that frees a blocked sender concerns them.                        *)
LEMMA PostInvStepStream ==
  ASSUME IInv, NEW s \in Sessions, Stream(s)
  PROVE  PostInv' /\ BlockedInv' /\ CanceledInv' /\ RejectedOnlyAfterClose' /\ AnsweredAfterAck'
<1> USE DEF IInv, TypeInvariant, TypeOK
<1>1. /\ UNCHANGED <<target, kind, resp, status>>
      /\ Receive(s) \/ UNCHANGED <<pc, out, queue>>
  BY StreamFrame
<1>2. /\ announced \subseteq announced'
      /\ \A t \in Sessions : ctxDone[t] => ctxDone'[t]
      /\ \A t \in Sessions : stream[t] = "closed" => stream'[t] = "closed"
  BY SessionMonotone
<1>3. CASE UNCHANGED <<pc, out, queue>>
  BY <1>1, <1>2, <1>3
     DEF PostInv, BlockedInv, CanceledInv, RejectedOnlyAfterClose, AnsweredAfterAck
<1>4. CASE Receive(s) /\ UNCHANGED <<pc, out>>
  <2>1. ASSUME NEW p \in Blocked(s) PROVE ~Enqueued(p, "queued")
    <3>1. p \in Posts /\ pc[p] = "blocked" BY DEF Blocked
    <3>2. out[p] = "none" BY <3>1 DEF PostInv
    <3> QED BY <1>4, <3>1, <3>2 DEF Enqueued
  <2>2. Blocked(s) = {} /\ queue' = [queue EXCEPT ![s] = Tail(@)]
    BY <1>4, <2>1 DEF Receive
  <2>3. BlockedInv' BY <1>1, <1>4, <2>2 DEF BlockedInv, Blocked, PostInv
  <2> QED
    BY <1>1, <1>2, <1>4, <2>3
       DEF PostInv, CanceledInv, RejectedOnlyAfterClose, AnsweredAfterAck
<1>5. ASSUME Receive(s), NEW p \in Blocked(s),
             queue' = [queue EXCEPT ![s] = Append(Tail(@), p)], Enqueued(p, "queued")
      PROVE  PostInv' /\ BlockedInv' /\ CanceledInv' /\ RejectedOnlyAfterClose' /\ AnsweredAfterAck'
  <2>1. p \in Posts /\ pc[p] = "blocked" /\ target[p] = s
    BY <1>5 DEF Blocked
  <2>2. Len(queue'[s]) = Len(queue[s])
    <3>1. /\ Tail(queue[s]) \in Seq(Posts)
          /\ Len(Tail(queue[s])) = Len(queue[s]) - 1
      BY <1>5 DEF Receive
    <3> QED BY <1>5, <2>1, <3>1
  <2>3. /\ pc' = [pc EXCEPT ![p] = AfterEnqueue(p)]
        /\ out' = [out EXCEPT ![p] = "queued"]
        /\ AfterEnqueue(p) \in {"ack", "done"}
        /\ AfterEnqueue(p) = "ack" => kind[p] = "malformed"
    BY <1>5, <2>1, AfterEnqueueType DEF Enqueued
  <2>4. PostInv' BY <1>1, <1>2, <2>1, <2>3 DEF PostInv
  <2>5. BlockedInv' BY <1>1, <1>5, <2>1, <2>2, <2>3 DEF BlockedInv, PostInv
  <2>6. CanceledInv' BY <1>1, <1>2, <2>1, <2>3 DEF CanceledInv
  <2>7. RejectedOnlyAfterClose' BY <1>1, <1>2 DEF RejectedOnlyAfterClose
  <2>8. AnsweredAfterAck' BY <1>1, <2>1, <2>3 DEF AnsweredAfterAck, PostInv
  <2> QED BY <2>4, <2>5, <2>6, <2>7, <2>8
<1> QED BY <1>1, <1>3, <1>4, <1>5 DEF Receive

(* The invariants of the POSTs, under a step of a POST.                      *)
LEMMA PostInvStepPost ==
  ASSUME IInv, NEW p \in Posts, PostStep(p)
  PROVE  PostInv' /\ BlockedInv' /\ CanceledInv' /\ RejectedOnlyAfterClose' /\ AnsweredAfterAck'
<1> DEFINE Goal == /\ PostInv /\ BlockedInv /\ CanceledInv
                   /\ RejectedOnlyAfterClose /\ AnsweredAfterAck
<1> SUFFICES Goal' OBVIOUS
<1> USE DEF IInv, TypeInvariant, TypeOK
<1>0. UNCHANGED <<stream, conn, ctxDone, store, announced>>
  BY PostFrame DEF sessionVars
<1> USE <1>0
<1>1. CASE Lookup(p)
  <2>1. pc[p] = "lookup" /\ UNCHANGED <<queue, target, kind, resp, out>>
    BY <1>1 DEF Lookup
  <2>2. \/ /\ target[p] \in Sessions
           /\ pc' = [pc EXCEPT ![p] = "body"]
           /\ UNCHANGED status
        \/ /\ target[p] \in Sessions => stream[target[p]] = "closed"
           /\ pc' = [pc EXCEPT ![p] = "done"]
           /\ status' = [status EXCEPT ![p] = 400]
    <3>1. target[p] \in announced \cup {NoSession} BY <2>1 DEF PostInv
    <3>2. CASE target[p] \in store BY <1>1, <3>2 DEF Lookup
    <3>3. CASE target[p] \notin store
      <4>1. target[p] \in Sessions => stream[target[p]] = "closed"
        BY <3>1, <3>3, NoSessionAssumption DEF SessionInv
      <4> QED BY <1>1, <3>3, <4>1 DEF Lookup
    <3> QED BY <3>2, <3>3
  <2>3. out[p] = "none" /\ resp[p] = "none" BY <2>1 DEF PostInv
  <2>4. CASE /\ target[p] \in Sessions
             /\ pc' = [pc EXCEPT ![p] = "body"]
             /\ UNCHANGED status
    BY <2>1, <2>3, <2>4
       DEF PostInv, BlockedInv, CanceledInv, RejectedOnlyAfterClose, AnsweredAfterAck
  <2>5. CASE /\ target[p] \in Sessions => stream[target[p]] = "closed"
             /\ pc' = [pc EXCEPT ![p] = "done"]
             /\ status' = [status EXCEPT ![p] = 400]
    <3>1. PostInv' BY <2>1, <2>3, <2>5 DEF PostInv
    <3>2. BlockedInv' BY <2>1, <2>5 DEF BlockedInv
    <3>3. CanceledInv' BY <2>1, <2>3, <2>5 DEF CanceledInv
    <3>4. RejectedOnlyAfterClose' BY <2>1, <2>5 DEF RejectedOnlyAfterClose
    <3>5. AnsweredAfterAck' BY <2>1, <2>3, <2>5 DEF AnsweredAfterAck
    <3> QED BY <3>1, <3>2, <3>3, <3>4, <3>5
  <2> QED BY <2>2, <2>4, <2>5
<1>2. CASE DecodeFails(p)
  BY <1>2
     DEF DecodeFails, PostInv, BlockedInv, CanceledInv, RejectedOnlyAfterClose, AnsweredAfterAck
<1>3. CASE Accept(p)
  BY <1>3
     DEF Accept, PostInv, BlockedInv, CanceledInv, RejectedOnlyAfterClose, AnsweredAfterAck
<1>4. CASE HandleMessage(p)
  <2>1. CASE pc' = [pc EXCEPT ![p] = "done"] /\ UNCHANGED resp
    BY <1>4, <2>1
       DEF HandleMessage, PostInv, BlockedInv, CanceledInv, RejectedOnlyAfterClose, AnsweredAfterAck
  <2>2. CASE pc' = [pc EXCEPT ![p] = "check"]
             /\ resp' = [resp EXCEPT ![p] = "result"]
    BY <1>4, <2>2
       DEF HandleMessage, PostInv, BlockedInv, CanceledInv, RejectedOnlyAfterClose, AnsweredAfterAck
  <2>3. CASE pc' = [pc EXCEPT ![p] = "check"]
             /\ ctxDone[target[p]] /\ resp' = [resp EXCEPT ![p] = "canceled"]
    BY <1>4, <2>3
       DEF HandleMessage, PostInv, BlockedInv, CanceledInv, RejectedOnlyAfterClose, AnsweredAfterAck
  <2> QED BY <1>4, <2>1, <2>2, <2>3 DEF HandleMessage
<1>5. ASSUME NEW r \in {"queued", "canceled", "timeout"}, Enqueued(p, r),
             pc[p] \in {"check", "select", "blocked"}, UNCHANGED <<target, kind, resp, status>>,
             resp[p] = "canceled" => r # "queued",
             \A t \in Sessions : t # target[p] => queue'[t] = queue[t],
             \/ Len(queue'[target[p]]) = Len(queue[target[p]])
             \/ ~\E q \in Posts : pc[q] = "blocked" /\ target[q] = target[p]
      PROVE  Goal'
  <2>1. /\ pc' = [pc EXCEPT ![p] = AfterEnqueue(p)]
        /\ out' = [out EXCEPT ![p] = r]
        /\ AfterEnqueue(p) \in {"ack", "done"}
        /\ AfterEnqueue(p) = "ack" => kind[p] = "malformed"
        /\ target[p] \in Sessions
    BY <1>5, AfterEnqueueType DEF Enqueued, PostInv
  <2>2. PostInv' BY <1>5, <2>1 DEF PostInv
  <2>3. BlockedInv'
    <3> SUFFICES ASSUME NEW q \in Posts, pc'[q] = "blocked"
                 PROVE  Len(queue'[target[q]]) = QueueCap
      BY <1>5 DEF BlockedInv
    <3>1. q # p /\ pc[q] = "blocked" BY <2>1
    <3>2. Len(queue[target[q]]) = QueueCap /\ target[q] \in Sessions
      BY <3>1 DEF BlockedInv, PostInv
    <3> QED BY <1>5, <3>1, <3>2
  <2>4. CanceledInv' BY <1>5, <2>1 DEF CanceledInv
  <2>5. RejectedOnlyAfterClose' BY <1>5 DEF RejectedOnlyAfterClose
  <2>6. AnsweredAfterAck' BY <1>5, <2>1 DEF AnsweredAfterAck, PostInv, Kind
  <2> QED BY <2>2, <2>3, <2>4, <2>5, <2>6
<1>6. CASE EnqueueCheck(p)
  <2>1. CASE ctxDone[target[p]] BY <1>5, <1>6, <2>1 DEF EnqueueCheck, sessionVars
  <2>2. CASE ~ctxDone[target[p]]
    <3>1. /\ pc[p] = "check"
          /\ pc' = [pc EXCEPT ![p] = "select"]
          /\ UNCHANGED <<queue, target, kind, resp, out, status>>
      BY <1>6, <2>2 DEF EnqueueCheck
    <3>2. resp[p] # "canceled" BY <2>2 DEF CanceledInv
    <3>3. PostInv' BY <3>1 DEF PostInv
    <3>4. BlockedInv' /\ CanceledInv' BY <3>1, <3>2 DEF BlockedInv, CanceledInv
    <3>5. RejectedOnlyAfterClose' /\ AnsweredAfterAck'
      BY <3>1 DEF RejectedOnlyAfterClose, AnsweredAfterAck
    <3> QED BY <3>3, <3>4, <3>5
  <2> QED BY <2>1, <2>2
<1>7. CASE EnqueueSend(p)
  <2>1. resp[p] # "canceled" BY <1>7 DEF EnqueueSend, CanceledInv
  <2>2. ~\E q \in Posts : pc[q] = "blocked" /\ target[q] = target[p]
    BY <1>7, QueueCapAssumption DEF EnqueueSend, BlockedInv, PostInv
  <2> QED BY <1>5, <1>7, <2>1, <2>2 DEF EnqueueSend
<1>8. CASE EnqueueBlock(p)
  BY <1>8
     DEF EnqueueBlock, PostInv, BlockedInv, CanceledInv, RejectedOnlyAfterClose, AnsweredAfterAck
<1>9. CASE EnqueueCanceled(p) BY <1>5, <1>9 DEF EnqueueCanceled
<1>10. CASE EnqueueTimeout(p) BY <1>5, <1>10 DEF EnqueueTimeout
<1>11. CASE LateAck(p)
  <2>1. /\ pc[p] = "ack"
        /\ pc' = [pc EXCEPT ![p] = "done"]
        /\ status' = [status EXCEPT ![p] = 202]
        /\ UNCHANGED <<queue, target, kind, resp, out>>
    BY <1>11 DEF LateAck
  <2>2. PostInv' BY <2>1 DEF PostInv
  <2>3. BlockedInv' BY <2>1 DEF BlockedInv
  <2>4. CanceledInv' BY <2>1 DEF CanceledInv
  <2>5. RejectedOnlyAfterClose' BY <2>1 DEF RejectedOnlyAfterClose
  <2>6. AnsweredAfterAck' BY <2>1 DEF AnsweredAfterAck
  <2> QED BY <2>2, <2>3, <2>4, <2>5, <2>6
<1> QED
  BY <1>1, <1>2, <1>3, <1>4, <1>6, <1>7, <1>8, <1>9, <1>10, <1>11 DEF PostStep, Enqueue

LEMMA PostInvStepSend ==
  ASSUME IInv, NEW p \in Posts, NEW s \in announced \cup {NoSession}, NEW k \in Kind,
         Send(p, s, k)
  PROVE  PostInv' /\ BlockedInv' /\ CanceledInv' /\ RejectedOnlyAfterClose' /\ AnsweredAfterAck'
BY DEF IInv, TypeInvariant, TypeOK, Send, sessionVars, PostInv, BlockedInv, CanceledInv,
       RejectedOnlyAfterClose, AnsweredAfterAck

-----------------------------------------------------------------------------
(* Theorems.                                                                 *)

LEMMA InitIInv == Init => IInv
BY QueueCapAssumption
   DEF Init, IInv, TypeInvariant, TypeOK, Kind, StreamPC, PostPC, SessionInv, PostInv,
       BlockedInv, CanceledInv, RejectedOnlyAfterClose, AnsweredAfterAck

LEMMA StepIInv == IInv /\ [Next]_vars => IInv'
<1> SUFFICES ASSUME IInv, [Next]_vars PROVE IInv'
  OBVIOUS
<1>1. ASSUME NEW s \in Sessions, Stream(s) PROVE IInv'
  BY <1>1, TypeStepStream, SessionStep, PostInvStepStream DEF IInv
<1>2. ASSUME UNCHANGED sessionVars PROVE SessionInv'
  BY <1>2 DEF IInv, SessionInv, sessionVars
<1>3. ASSUME NEW p \in Posts, PostStep(p) PROVE IInv'
  BY <1>2, <1>3, PostFrame, TypeStepPost, PostInvStepPost DEF IInv
<1>4. ASSUME NEW p \in Posts, NEW s \in announced \cup {NoSession}, NEW k \in Kind,
             Send(p, s, k)
      PROVE  IInv'
  <2>1. UNCHANGED sessionVars BY <1>4 DEF Send
  <2> QED BY <1>2, <1>4, <2>1, TypeStepSend, PostInvStepSend DEF IInv
<1>5. CASE UNCHANGED vars
  BY <1>5 DEF vars, IInv, TypeInvariant, TypeOK, SessionInv, PostInv, BlockedInv,
     CanceledInv, RejectedOnlyAfterClose, AnsweredAfterAck
<1> QED BY <1>1, <1>3, <1>4, <1>5 DEF Next

(* The inductive invariant holds in every reachable state.                   *)
THEOREM Invariance == Spec => []IInv
BY InitIInv, StepIInv, PTL DEF Spec

(* Types, and the bound of the channel: whatever the number of sessions and  *)
(* POSTs, a session never buffers more than QueueCap responses.              *)
THEOREM TypeCorrect == Spec => []TypeInvariant
<1>1. IInv => TypeInvariant BY DEF IInv
<1> QED BY <1>1, Invariance, PTL

(* An announced session is rejected only once its stream handler is over.    *)
THEOREM RejectionsAreFinal == Spec => []RejectedOnlyAfterClose
<1>1. IInv => RejectedOnlyAfterClose BY DEF IInv
<1> QED BY <1>1, Invariance, PTL

(* A tool is cut short only by the loss of its client's stream, and the      *)
(* check that opens enqueue keeps what it returns out of the channel.        *)
THEOREM CanceledNeverQueued == Spec => []CancellationStaysInside
<1>1. IInv => CancellationStaysInside
  BY DEF IInv, CanceledInv, SessionInv, CancellationStaysInside
<1> QED BY <1>1, Invariance, PTL

(* The response to a request is queued after the POST's 202.                 *)
THEOREM AcksComeFirst == Spec => []AnsweredAfterAck
<1>1. IInv => AnsweredAfterAck BY DEF IInv
<1> QED BY <1>1, Invariance, PTL

(* Only a sender that blocked on a full channel, full to this moment, gives  *)
(* up with "MCP session is not consuming responses".                         *)
THEOREM TimeoutsMeanFull == Spec => TimeoutOnlyWhenFull
<1> DEFINE Step == \A p \in Posts :
                     out[p] = "none" /\ out'[p] = "timeout" => Len(queue[target[p]]) = QueueCap
<1>1. IInv /\ [Next]_vars => [Step]_vars
  <2> SUFFICES ASSUME IInv, [Next]_vars, NEW p \in Posts,
                      out[p] = "none", out'[p] = "timeout"
               PROVE  Len(queue[target[p]]) = QueueCap
    OBVIOUS
  <2> USE DEF IInv, TypeInvariant, TypeOK
  <2>1. CASE UNCHANGED vars BY <2>1 DEF vars
  <2>2. ASSUME NEW s \in Sessions, Stream(s) PROVE FALSE
    <3>1. Receive(s) BY <2>2, StreamFrame
    <3>2. \A q \in Posts : Enqueued(q, "queued") => out'[p] # "timeout"
      BY DEF Enqueued
    <3>3. Blocked(s) \subseteq Posts BY DEF Blocked
    <3> QED BY <3>1, <3>2, <3>3 DEF Receive
  <2>3. ASSUME NEW q \in Posts, NEW s \in announced \cup {NoSession}, NEW k \in Kind, Send(q, s, k)
        PROVE  FALSE
    BY <2>3 DEF Send
  <2>4. ASSUME NEW q \in Posts, PostStep(q) PROVE Len(queue[target[p]]) = QueueCap
    <3>1. CASE EnqueueTimeout(q)
      <4>1. p = q BY <3>1 DEF EnqueueTimeout, Enqueued
      <4> QED BY <3>1, <4>1 DEF EnqueueTimeout, BlockedInv
    <3>2. CASE EnqueueSend(q) \/ EnqueueCanceled(q) \/ EnqueueCheck(q)
      <4>1. \/ UNCHANGED out
            \/ out' = [out EXCEPT ![q] = "queued"]
            \/ out' = [out EXCEPT ![q] = "canceled"]
        BY <3>2 DEF EnqueueSend, EnqueueCanceled, EnqueueCheck, Enqueued
      <4>2. CASE UNCHANGED out BY <4>2
      <4>3. CASE out' = [out EXCEPT ![q] = "queued"] BY <4>3
      <4>4. CASE out' = [out EXCEPT ![q] = "canceled"] BY <4>4
      <4> QED BY <4>1, <4>2, <4>3, <4>4
    <3>3. CASE Lookup(q) \/ DecodeFails(q) \/ Accept(q) \/ HandleMessage(q)
               \/ EnqueueBlock(q) \/ LateAck(q)
      BY <3>3 DEF Lookup, DecodeFails, Accept, HandleMessage, EnqueueBlock, LateAck
    <3> QED BY <2>4, <3>1, <3>2, <3>3 DEF PostStep, Enqueue
  <2> QED BY <2>1, <2>2, <2>3, <2>4 DEF Next
<1>2. QED
  BY <1>1, Invariance, PTL DEF Spec, TimeoutOnlyWhenFull

-----------------------------------------------------------------------------
(* Counting a response in a sequence.                                        *)

LEMMA OccurrencesType ==
  ASSUME NEW p, NEW seq \in Seq(Posts)
  PROVE  /\ IsFiniteSet({i \in DOMAIN seq : seq[i] = p})
         /\ Occurrences(p, seq) \in Nat
<1>1. DOMAIN seq = 1 .. Len(seq) /\ Len(seq) \in Nat OBVIOUS
<1>2. IsFiniteSet(1 .. Len(seq)) BY <1>1, FS_Interval
<1>3. IsFiniteSet({i \in DOMAIN seq : seq[i] = p}) BY <1>1, <1>2, FS_Subset
<1> QED BY <1>3, FS_CardinalityType DEF Occurrences

LEMMA OccurrencesEmpty ==
  ASSUME NEW p
  PROVE  Occurrences(p, << >>) = 0
<1>1. {i \in DOMAIN << >> : << >>[i] = p} = {} OBVIOUS
<1> QED BY <1>1, FS_EmptySet DEF Occurrences

LEMMA OccurrencesSingle ==
  ASSUME NEW p, NEW q \in Posts
  PROVE  Occurrences(p, <<q>>) = IF p = q THEN 1 ELSE 0
<1>1. CASE p = q
  <2>1. {i \in DOMAIN <<q>> : <<q>>[i] = p} = {1} BY <1>1
  <2> QED BY <1>1, <2>1, FS_Singleton DEF Occurrences
<1>2. CASE p # q
  <2>1. {i \in DOMAIN <<q>> : <<q>>[i] = p} = {} BY <1>2
  <2> QED BY <1>2, <2>1, FS_EmptySet DEF Occurrences
<1> QED BY <1>1, <1>2

(* The occurrences in a concatenation are those in its parts, the second     *)
(* ones shifted.                                                             *)
LEMMA OccurrencesConcat ==
  ASSUME NEW p, NEW a \in Seq(Posts), NEW b \in Seq(Posts)
  PROVE  Occurrences(p, a \o b) = Occurrences(p, a) + Occurrences(p, b)
<1> DEFINE A == {i \in DOMAIN a : a[i] = p}
           B == {i \in DOMAIN b : b[i] = p}
           C == {i \in DOMAIN (a \o b) : (a \o b)[i] = p}
           Moved == {i \in C : i > Len(a)}
           shift == [i \in B |-> i + Len(a)]
<1>1. /\ Len(a) \in Nat /\ DOMAIN a = 1 .. Len(a)
      /\ Len(b) \in Nat /\ DOMAIN b = 1 .. Len(b)
      /\ a \o b \in Seq(Posts) /\ DOMAIN (a \o b) = 1 .. Len(a) + Len(b)
      /\ \A i \in 1 .. Len(a) + Len(b) :
           (a \o b)[i] = IF i <= Len(a) THEN a[i] ELSE b[i - Len(a)]
  BY ConcatProperties
<1>2. C = A \cup Moved /\ A \cap Moved = {}
  BY <1>1
<1>3. shift \in Bijection(B, Moved)
  <2>1. \A i \in B : shift[i] \in Moved
    BY <1>1
  <2>2. \A i, j \in B : shift[i] = shift[j] => i = j
    BY <1>1
  <2>3. \A j \in Moved : \E i \in B : shift[i] = j
    <3>1. ASSUME NEW j \in Moved PROVE j - Len(a) \in B /\ shift[j - Len(a)] = j
      BY <1>1
    <3> QED BY <3>1
  <2>4. DOMAIN shift = B /\ shift = [i \in B |-> shift[i]] OBVIOUS
  <2> HIDE DEF A, B, C, Moved, shift
  <2>5. shift \in [B -> Moved] BY <2>1, <2>4
  <2> QED BY <2>2, <2>3, <2>5 DEF Bijection, Injection, Surjection, IsInjective
<1>4. IsFiniteSet(A) /\ IsFiniteSet(B) /\ Cardinality(A) \in Nat /\ Cardinality(B) \in Nat
  BY OccurrencesType, FS_CardinalityType
<1> HIDE DEF A, B, C, Moved, shift
<1>5. IsFiniteSet(Moved) /\ Cardinality(Moved) = Cardinality(B)
  BY <1>3, <1>4, FS_Bijection DEF ExistsBijection
<1>6. Cardinality(A \cap Moved) = 0 BY <1>2, FS_EmptySet
<1>7. Cardinality(C) = Cardinality(A) + Cardinality(Moved) - Cardinality(A \cap Moved)
  BY <1>2, <1>4, <1>5, FS_Union
<1>8. Cardinality(C) = Cardinality(A) + Cardinality(B)
  BY <1>4, <1>5, <1>6, <1>7
<1> QED BY <1>8 DEF Occurrences, A, B, C

LEMMA OccurrencesAppend ==
  ASSUME NEW p, NEW seq \in Seq(Posts), NEW q \in Posts
  PROVE  Occurrences(p, Append(seq, q)) = Occurrences(p, seq) + IF p = q THEN 1 ELSE 0
<1> DEFINE one == <<q>>
<1>1. one \in Seq(Posts) OBVIOUS
<1>2. Append(seq, q) = seq \o one BY AppendIsConcat
<1>3. Occurrences(p, one) = IF p = q THEN 1 ELSE 0 BY OccurrencesSingle
<1> HIDE DEF one
<1>4. Occurrences(p, seq \o one) = Occurrences(p, seq) + Occurrences(p, one)
  BY <1>1, OccurrencesConcat
<1> QED BY <1>2, <1>3, <1>4

(* Taking the first element of a sequence off it.                            *)
LEMMA HeadAndTail ==
  ASSUME NEW seq \in Seq(Posts), seq # << >>
  PROVE  /\ Head(seq) \in Posts
         /\ Tail(seq) \in Seq(Posts)
         /\ <<Head(seq)>> \in Seq(Posts)
         /\ <<Head(seq)>> \o Tail(seq) = seq
<1>1. /\ Head(seq) \in Posts
      /\ Tail(seq) \in Seq(Posts)
      /\ Len(Tail(seq)) = Len(seq) - 1
      /\ \A i \in 1 .. Len(Tail(seq)) : Tail(seq)[i] = seq[i + 1]
  BY HeadTailProperties
<1>2. <<Head(seq)>> \in Seq(Posts) /\ Len(<<Head(seq)>>) = 1 BY <1>1
<1> DEFINE whole == <<Head(seq)>> \o Tail(seq)
<1>3. /\ whole \in Seq(Posts)
      /\ Len(whole) = Len(seq)
      /\ \A i \in 1 .. Len(seq) :
           whole[i] = IF i <= 1 THEN <<Head(seq)>>[i] ELSE Tail(seq)[i - 1]
  <2>1. Len(seq) \in Nat \ {0} BY EmptySeq
  <2> QED BY <1>1, <1>2, <2>1, ConcatProperties
<1>4. \A i \in 1 .. Len(seq) : whole[i] = seq[i]
  BY <1>1, <1>3
<1> QED BY <1>1, <1>2, <1>3, <1>4, SeqEqual

LEMMA OccurrencesTail ==
  ASSUME NEW p, NEW seq \in Seq(Posts), seq # << >>
  PROVE  Occurrences(p, seq) = Occurrences(p, <<Head(seq)>>) + Occurrences(p, Tail(seq))
<1> DEFINE one == <<Head(seq)>>
<1>1. one \in Seq(Posts) /\ Tail(seq) \in Seq(Posts) /\ one \o Tail(seq) = seq
  BY HeadAndTail
<1> HIDE DEF one
<1>2. Occurrences(p, one \o Tail(seq)) = Occurrences(p, one) + Occurrences(p, Tail(seq))
  BY <1>1, OccurrencesConcat
<1>3. Occurrences(p, seq) = Occurrences(p, one) + Occurrences(p, Tail(seq))
  BY <1>1, <1>2
<1> QED BY <1>3 DEF one

-----------------------------------------------------------------------------
(* The invariant.                                                            *)

(* A handler holds a message exactly while it writes it, a stream that was   *)
(* never opened has not lost its client, and a POST that got past the lookup *)
(* names a session that was announced.                                       *)
PipelineInv ==
  /\ \A s \in Sessions :
       /\ stream[s] = "write" <=> held[s] # << >>
       /\ stream[s] = "idle" => conn[s] = "up"
  /\ \A p \in Posts :
       /\ pc[p] \in {"body", "run", "check", "select", "blocked", "ack"} => target[p] \in announced
       /\ out[p] # "none" => target[p] \in announced

(* How often p is in what s has taken.                                       *)
Count == [p \in Posts |-> [s \in Sessions |->
  Occurrences(p, delivered[s]) + Occurrences(p, held[s]) + Occurrences(p, queue[s])]]

(* NoDuplicateOrStray and NothingLostWhileConnected, counted place by place. *)
FlowInv ==
  /\ \A s \in Sessions, p \in Posts :
       Count[p][s] <= IF target[p] = s /\ out[p] = "queued" THEN 1 ELSE 0
  /\ \A p \in Posts :
       out[p] = "queued" /\ conn[target[p]] = "up" => Count[p][target[p]] = 1

DInv == IInv /\ PipelineInv /\ FlowInv

LEMMA CountType ==
  ASSUME TypeOK, NEW p \in Posts, NEW s \in Sessions
  PROVE  /\ Occurrences(p, delivered[s]) \in Nat
         /\ Occurrences(p, held[s]) \in Nat
         /\ Occurrences(p, queue[s]) \in Nat
         /\ Count[p][s] \in Nat
<1>1. delivered[s] \in Seq(Posts) /\ held[s] \in Seq(Posts) /\ queue[s] \in Seq(Posts)
  BY DEF TypeOK
<1>2. Occurrences(p, delivered[s]) \in Nat BY <1>1, OccurrencesType
<1>3. Occurrences(p, held[s]) \in Nat BY <1>1, OccurrencesType
<1>4. Occurrences(p, queue[s]) \in Nat BY <1>1, OccurrencesType
<1> QED BY <1>2, <1>3, <1>4 DEF Count

(* The pipeline counts what its three parts count.                           *)
LEMMA PipelineCount ==
  ASSUME TypeOK, NEW p \in Posts, NEW s \in Sessions
  PROVE  Occurrences(p, Pipeline(s)) = Count[p][s]
<1>1. delivered[s] \in Seq(Posts) /\ held[s] \in Seq(Posts) /\ queue[s] \in Seq(Posts)
  BY DEF TypeOK
<1>2. delivered[s] \o held[s] \in Seq(Posts) BY <1>1, ConcatProperties
<1>3. Occurrences(p, delivered[s] \o held[s])
        = Occurrences(p, delivered[s]) + Occurrences(p, held[s])
  BY <1>1, OccurrencesConcat
<1>4. Occurrences(p, Pipeline(s))
        = Occurrences(p, delivered[s] \o held[s]) + Occurrences(p, queue[s])
  BY <1>1, <1>2, OccurrencesConcat DEF Pipeline
<1> QED BY <1>3, <1>4 DEF Count

LEMMA FlowMeansDelivery ==
  ASSUME DInv
  PROVE  NoDuplicateOrStray /\ NothingLostWhileConnected
<1>1. TypeOK BY DEF DInv, IInv, TypeInvariant
<1>2. NoDuplicateOrStray BY <1>1, PipelineCount DEF DInv, FlowInv, NoDuplicateOrStray
<1>3. ASSUME NEW p \in Posts, out[p] = "queued" PROVE target[p] \in Sessions
  BY <1>1, <1>3 DEF DInv, PipelineInv, TypeOK
<1>4. NothingLostWhileConnected
  BY <1>1, <1>3, PipelineCount DEF DInv, FlowInv, NothingLostWhileConnected
<1> QED BY <1>2, <1>4

-----------------------------------------------------------------------------
(* PipelineInv is preserved.                                                 *)

LEMMA PipelineStepStream ==
  ASSUME IInv, PipelineInv, NEW s \in Sessions, Stream(s)
  PROVE  PipelineInv'
<1> USE DEF IInv, TypeInvariant, TypeOK, PipelineInv, StreamPC
<1>0. UNCHANGED target /\ announced \subseteq announced'
  BY StreamFrame, SessionMonotone
<1>1. CASE OpenStream(s) BY <1>0, <1>1 DEF OpenStream, postVars
<1>2. CASE Announce(s)
  <2>1. stream[s] = "announce" /\ UNCHANGED <<held, postVars>> BY <1>2 DEF Announce
  <2>2. /\ \E x \in {"loop", "remove"} : stream' = [stream EXCEPT ![s] = x]
        /\ UNCHANGED conn \/ conn' = [conn EXCEPT ![s] = "down"]
    BY <1>2 DEF Announce, WriteFails
  <2> QED BY <1>0, <2>1, <2>2 DEF postVars
<1>3. CASE Receive(s)
  <2>1. /\ stream' = [stream EXCEPT ![s] = "write"]
        /\ held' = [held EXCEPT ![s] = <<Head(queue[s])>>]
        /\ stream[s] = "loop"
        /\ UNCHANGED conn
    BY <1>3 DEF Receive
  <2>2. \A p \in Posts :
          \/ pc'[p] = pc[p] /\ out'[p] = out[p]
          \/ pc[p] = "blocked"
    <3>1. CASE UNCHANGED <<pc, out>> BY <3>1
    <3>2. ASSUME NEW q \in Blocked(s), Enqueued(q, "queued")
          PROVE  \A p \in Posts :
                   \/ pc'[p] = pc[p] /\ out'[p] = out[p]
                   \/ pc[p] = "blocked"
      BY <3>2 DEF Blocked, Enqueued
    <3> QED BY <1>3, <3>1, <3>2 DEF Receive
  <2>3. \A t \in Sessions : stream'[t] = "write" <=> held'[t] # << >>
    <3>1. <<Head(queue[s])>> # << >> OBVIOUS
    <3> QED BY <2>1, <3>1
  <2> QED BY <1>0, <2>1, <2>2, <2>3
<1>4. CASE WriteMessage(s)
  <2>1. /\ stream[s] = "write"
        /\ held' = [held EXCEPT ![s] = << >>]
        /\ UNCHANGED postVars
    BY <1>4 DEF WriteMessage
  <2>2. /\ \E x \in {"loop", "remove"} : stream' = [stream EXCEPT ![s] = x]
        /\ UNCHANGED conn \/ conn' = [conn EXCEPT ![s] = "down"]
    BY <1>4 DEF WriteMessage, WriteFails
  <2> QED BY <1>0, <2>1, <2>2 DEF postVars
<1>5. CASE Tick(s) BY <1>0, <1>5 DEF Tick, postVars
<1>6. CASE WriteKeepAlive(s)
  <2>1. stream[s] = "keepalive" /\ UNCHANGED <<held, postVars>> BY <1>6 DEF WriteKeepAlive
  <2>2. /\ \E x \in {"loop", "remove"} : stream' = [stream EXCEPT ![s] = x]
        /\ UNCHANGED conn \/ conn' = [conn EXCEPT ![s] = "down"]
    BY <1>6 DEF WriteKeepAlive, WriteFails
  <2> QED BY <1>0, <2>1, <2>2 DEF postVars
<1>7. CASE StreamDone(s) BY <1>0, <1>7 DEF StreamDone, postVars
<1>8. CASE Remove(s) BY <1>0, <1>8 DEF Remove, postVars
<1>9. CASE Disconnect(s) BY <1>0, <1>9 DEF Disconnect, postVars
<1>10. CASE PropagateCancel(s) BY <1>0, <1>10 DEF PropagateCancel, postVars
<1> QED
  BY <1>1, <1>2, <1>3, <1>4, <1>5, <1>6, <1>7, <1>8, <1>9, <1>10 DEF Stream, WriteReturns

(* Only the lookup lets a POST in, and it lets in none that names no         *)
(* session; later steps keep the target they found.                          *)
LEMMA PipelineStepPost ==
  ASSUME IInv, PipelineInv, NEW p \in Posts, PostStep(p)
  PROVE  PipelineInv'
<1> USE DEF IInv, TypeInvariant, TypeOK
<1> DEFINE Inside == {"body", "run", "check", "select", "blocked", "ack"}
<1>1. UNCHANGED <<stream, conn, store, announced, held>> BY PostFrame DEF sessionVars
<1>2. UNCHANGED target /\ \A q \in Posts : q # p => pc'[q] = pc[q] /\ out'[q] = out[q]
  BY DEF PostStep, Enqueue, Lookup, DecodeFails, Accept, HandleMessage, EnqueueCheck,
         EnqueueSend, EnqueueBlock, EnqueueCanceled, EnqueueTimeout, LateAck, Enqueued
<1>3. pc[p] \in Inside \/ (Lookup(p) /\ pc[p] = "lookup")
  BY DEF PostStep, Enqueue, Lookup, DecodeFails, Accept, HandleMessage, EnqueueCheck,
         EnqueueSend, EnqueueBlock, EnqueueCanceled, EnqueueTimeout, LateAck
<1>4. pc[p] \in Inside => target[p] \in announced BY DEF PipelineInv
<1>5. CASE Lookup(p) /\ pc[p] = "lookup"
  <2>1. target[p] \in announced \cup {NoSession} BY <1>5 DEF PostInv
  <2>2. target[p] \in store => target[p] \in announced
    BY <2>1, NoSessionAssumption
  <2>3. UNCHANGED out /\ out[p] = "none" BY <1>5 DEF Lookup, PostInv
  <2>4. target[p] \in announced \/ pc'[p] = "done"
    BY <1>5, <2>2 DEF Lookup
  <2> QED BY <1>1, <1>2, <2>3, <2>4 DEF PipelineInv
<1>6. CASE pc[p] \in Inside
  BY <1>1, <1>2, <1>4, <1>6 DEF PipelineInv
<1> QED BY <1>3, <1>5, <1>6

LEMMA PipelineStep ==
  ASSUME IInv, PipelineInv, [Next]_vars
  PROVE  PipelineInv'
<1>1. ASSUME NEW p \in Posts, NEW s \in announced \cup {NoSession}, NEW k \in Kind, Send(p, s, k)
      PROVE  PipelineInv'
  <2>1. pc[p] = "idle" /\ out[p] = "none" BY <1>1 DEF Send, IInv, PostInv
  <2> QED
    BY <1>1, <2>1 DEF Send, sessionVars, PipelineInv, IInv, TypeInvariant, TypeOK
<1>2. CASE UNCHANGED vars BY <1>2 DEF vars, PipelineInv
<1> QED BY <1>1, <1>2, PipelineStepStream, PipelineStepPost DEF Next

-----------------------------------------------------------------------------
(* FlowInv is preserved: a step leaves every count alone, or lets one        *)
(* response in, or drops one with the client's connection.                   *)

FlowKept ==
  /\ \A p \in Posts, t \in Sessions :
       /\ Count'[p][t] <= Count[p][t]
       /\ conn'[t] = "up" => conn[t] = "up" /\ Count'[p][t] = Count[p][t]
  /\ \A p \in Posts :
       /\ out'[p] = "queued" <=> out[p] = "queued"
       /\ out[p] = "queued" => target'[p] = target[p]

FlowGains(q) ==
  /\ out[q] = "none" /\ target[q] \in Sessions
  /\ out' = [out EXCEPT ![q] = "queued"]
  /\ UNCHANGED <<target, conn>>
  /\ \A p \in Posts, t \in Sessions :
       Count'[p][t] = Count[p][t] + IF p = q /\ t = target[q] THEN 1 ELSE 0

CountOK == \A p \in Posts, s \in Sessions : Count[p][s] \in Nat

LEMMA CountsAreNatural == TypeOK => CountOK
BY CountType DEF CountOK

LEMMA KeptIsSafe ==
  ASSUME DInv, TypeOK', FlowKept
  PROVE  FlowInv'
<1> USE DEF DInv, IInv, TypeInvariant
<1>1. CountOK BY CountsAreNatural
<1>2. CountOK' BY CountsAreNatural, PTL
<1>3. \A p \in Posts : out[p] = "queued" => target[p] \in Sessions
  BY DEF PipelineInv, TypeOK
<1>4. ASSUME NEW s \in Sessions, NEW p \in Posts
      PROVE  Count'[p][s] <= IF target'[p] = s /\ out'[p] = "queued" THEN 1 ELSE 0
  BY <1>1, <1>2 DEF CountOK, FlowInv, FlowKept
<1>5. ASSUME NEW p \in Posts, out'[p] = "queued", conn'[target'[p]] = "up"
      PROVE  Count'[p][target'[p]] = 1
  BY <1>3, <1>5 DEF FlowInv, FlowKept
<1> QED BY <1>4, <1>5 DEF FlowInv

LEMMA GainIsSafe ==
  ASSUME DInv, NEW q \in Posts, FlowGains(q)
  PROVE  FlowInv'
<1> USE DEF DInv, IInv, TypeInvariant
<1>1. CountOK BY CountsAreNatural
<1>2. \A s \in Sessions : Count[q][s] = 0
  BY <1>1 DEF CountOK, FlowInv, FlowGains
<1>3. /\ out' = [out EXCEPT ![q] = "queued"]
      /\ out \in [Posts -> {"none", "queued", "canceled", "timeout"}]
  BY DEF FlowGains, TypeOK
<1>4. ASSUME NEW s \in Sessions, NEW p \in Posts
      PROVE  Count'[p][s] <= IF target'[p] = s /\ out'[p] = "queued" THEN 1 ELSE 0
  <2>1. CASE p = q BY <1>2, <1>3, <2>1 DEF FlowGains
  <2>2. CASE p # q BY <1>1, <1>3, <2>2 DEF CountOK, FlowInv, FlowGains
  <2> QED BY <2>1, <2>2
<1>5. ASSUME NEW p \in Posts, out'[p] = "queued", conn'[target'[p]] = "up"
      PROVE  Count'[p][target'[p]] = 1
  <2>1. CASE p = q BY <1>2, <1>3, <2>1 DEF FlowGains
  <2>2. CASE p # q
    <3>1. out[p] = "queued" /\ target[p] \in Sessions
      BY <1>3, <1>5, <2>2 DEF PipelineInv, TypeOK
    <3> QED BY <1>1, <1>5, <2>2, <3>1 DEF CountOK, FlowInv, FlowGains
  <2> QED BY <2>1, <2>2
<1> QED BY <1>4, <1>5 DEF FlowInv

(* A step that moves no message keeps every count.                           *)
LEMMA NothingMoves ==
  ASSUME DInv,
         UNCHANGED <<delivered, held, queue, out>>,
         \A t \in Sessions : conn'[t] = "up" => conn[t] = "up",
         \A p \in Posts : out[p] = "queued" => target'[p] = target[p]
  PROVE  FlowKept
<1>1. Count' = Count BY DEF Count
<1>2. CountOK BY CountsAreNatural DEF DInv, IInv, TypeInvariant
<1> QED BY <1>1, <1>2 DEF FlowKept, CountOK

(* Receive moves a message from the channel to the hand, and may let a       *)
(* blocked sender's message into the channel.                                *)
LEMMA FlowStepReceive ==
  ASSUME DInv, NEW s \in Sessions, Receive(s)
  PROVE  FlowKept \/ \E q \in Posts : FlowGains(q)
<1> USE DEF DInv, IInv, TypeInvariant
<1>0. /\ queue[s] \in Seq(Posts) /\ queue[s] # << >> /\ held[s] = << >>
      /\ held \in [Sessions -> Seq(Posts)] /\ queue \in [Sessions -> Seq(Posts)]
      /\ held' = [held EXCEPT ![s] = <<Head(queue[s])>>]
      /\ UNCHANGED <<delivered, conn, target>>
  BY DEF Receive, TypeOK, PipelineInv
<1>1. Tail(queue[s]) \in Seq(Posts) BY <1>0, HeadAndTail
<1>2. CountOK BY CountsAreNatural
<1>3. \A p \in Posts : /\ Occurrences(p, held[s]) = 0
                       /\ Occurrences(p, held'[s]) + Occurrences(p, Tail(queue[s]))
                            = Occurrences(p, queue[s])
  BY <1>0, OccurrencesEmpty, OccurrencesTail
<1>4. \A p \in Posts : /\ Occurrences(p, held'[s]) \in Nat
                       /\ Occurrences(p, Tail(queue[s])) \in Nat
                       /\ Occurrences(p, delivered[s]) \in Nat
                       /\ Occurrences(p, queue[s]) \in Nat
  <2>1. <<Head(queue[s])>> \in Seq(Posts) BY <1>0, HeadAndTail
  <2>2. held'[s] \in Seq(Posts) BY <1>0, <2>1
  <2>3. \A p \in Posts : Occurrences(p, held'[s]) \in Nat BY <2>2, OccurrencesType
  <2>4. \A p \in Posts : Occurrences(p, Tail(queue[s])) \in Nat BY <1>1, OccurrencesType
  <2> QED BY <2>3, <2>4, CountType
<1>5. \A p \in Posts, t \in Sessions :
        Count'[p][t] = Occurrences(p, delivered[t]) + Occurrences(p, held'[t])
                         + Occurrences(p, queue'[t])
  BY <1>0 DEF Count
<1>6. \A p \in Posts, t \in Sessions :
        Count[p][t] = Occurrences(p, delivered[t]) + Occurrences(p, held[t])
                         + Occurrences(p, queue[t])
  BY DEF Count
<1>7. CASE queue' = [queue EXCEPT ![s] = Tail(@)] /\ UNCHANGED <<pc, out>>
  <2>1. \A p \in Posts, t \in Sessions : t # s => Count'[p][t] = Count[p][t]
    BY <1>0, <1>5, <1>6, <1>7
  <2>2. queue'[s] = Tail(queue[s]) BY <1>0, <1>7
  <2>3. \A p \in Posts : Count'[p][s] = Count[p][s]
    BY <1>3, <1>4, <1>5, <1>6, <2>2
  <2> QED BY <1>0, <1>2, <1>7, <2>1, <2>3 DEF FlowKept, CountOK
<1>8. ASSUME NEW q \in Blocked(s), queue' = [queue EXCEPT ![s] = Append(Tail(@), q)],
             Enqueued(q, "queued")
      PROVE  FlowGains(q) /\ q \in Posts
  <2>1. q \in Posts /\ pc[q] = "blocked" /\ target[q] = s BY DEF Blocked
  <2>2. out[q] = "none" BY <2>1 DEF PostInv, TypeOK
  <2>3. \A p \in Posts, t \in Sessions : t # s => Count'[p][t] = Count[p][t]
    BY <1>0, <1>5, <1>6, <1>8
  <2>4. queue'[s] = Append(Tail(queue[s]), q) BY <1>0, <1>8
  <2>5. \A p \in Posts : Occurrences(p, queue'[s])
                           = Occurrences(p, Tail(queue[s])) + IF p = q THEN 1 ELSE 0
    <3> DEFINE rest == Tail(queue[s])
    <3>1. rest \in Seq(Posts) /\ queue'[s] = Append(rest, q) BY <1>1, <2>4
    <3> HIDE DEF rest
    <3>2. \A p \in Posts : Occurrences(p, Append(rest, q))
                             = Occurrences(p, rest) + IF p = q THEN 1 ELSE 0
      BY <2>1, <3>1, OccurrencesAppend
    <3>3. \A p \in Posts : Occurrences(p, queue'[s])
                             = Occurrences(p, rest) + IF p = q THEN 1 ELSE 0
      BY <3>1, <3>2
    <3> QED BY <3>3 DEF rest
  <2>6. \A p \in Posts : Count'[p][s] = Count[p][s] + IF p = q THEN 1 ELSE 0
    BY <1>3, <1>4, <1>5, <1>6, <2>5
  <2> QED BY <1>0, <1>2, <1>8, <2>1, <2>2, <2>3, <2>6 DEF FlowGains, CountOK, Enqueued
<1> QED BY <1>7, <1>8 DEF Receive

(* A write hands its message to the client, or loses it with the connection. *)
LEMMA FlowStepWrite ==
  ASSUME DInv, NEW s \in Sessions, WriteMessage(s)
  PROVE  FlowKept
<1> USE DEF DInv, IInv, TypeInvariant
<1>0. /\ held[s] \in Seq(Posts) /\ delivered[s] \in Seq(Posts)
      /\ held \in [Sessions -> Seq(Posts)] /\ delivered \in [Sessions -> Seq(Posts)]
      /\ conn \in [Sessions -> {"up", "down"}]
      /\ held' = [held EXCEPT ![s] = << >>]
      /\ UNCHANGED <<queue, target, out>>
  BY DEF WriteMessage, TypeOK, postVars
<1>1. CountOK BY CountsAreNatural
<1>2. \A p \in Posts : /\ Occurrences(p, held[s]) \in Nat
                       /\ Occurrences(p, delivered[s]) \in Nat
                       /\ Occurrences(p, queue[s]) \in Nat
  BY CountType
<1>3. \A p \in Posts : Occurrences(p, held'[s]) = 0
  BY <1>0, OccurrencesEmpty
<1>4. \A p \in Posts, t \in Sessions :
        /\ Count'[p][t] = Occurrences(p, delivered'[t]) + Occurrences(p, held'[t])
                            + Occurrences(p, queue[t])
        /\ Count[p][t] = Occurrences(p, delivered[t]) + Occurrences(p, held[t])
                            + Occurrences(p, queue[t])
  BY <1>0 DEF Count
<1>5. CASE delivered' = [delivered EXCEPT ![s] = @ \o held[s]] /\ UNCHANGED conn
  <2>1. \A p \in Posts, t \in Sessions : t # s => Count'[p][t] = Count[p][t]
    BY <1>0, <1>4, <1>5
  <2>2. delivered'[s] = delivered[s] \o held[s] BY <1>0, <1>5
  <2>3. \A p \in Posts : Occurrences(p, delivered'[s])
                           = Occurrences(p, delivered[s]) + Occurrences(p, held[s])
    BY <1>0, <2>2, OccurrencesConcat
  <2>4. \A p \in Posts : Count'[p][s] = Count[p][s]
    BY <1>2, <1>3, <1>4, <2>3
  <2> QED BY <1>0, <1>1, <1>5, <2>1, <2>4 DEF FlowKept, CountOK
<1>6. CASE WriteFails(s) /\ UNCHANGED delivered
  <2>1. \A p \in Posts, t \in Sessions : t # s => Count'[p][t] = Count[p][t]
    BY <1>0, <1>4, <1>6
  <2>2. conn' = [conn EXCEPT ![s] = "down"] BY <1>6 DEF WriteFails
  <2>3. \A p \in Posts : Count'[p][s] <= Count[p][s]
    BY <1>2, <1>3, <1>4, <1>6
  <2> QED BY <1>0, <1>1, <1>6, <2>1, <2>2, <2>3 DEF FlowKept, CountOK
<1> QED BY <1>5, <1>6 DEF WriteMessage

LEMMA FlowStepStream ==
  ASSUME DInv, NEW s \in Sessions, Stream(s)
  PROVE  FlowKept \/ \E q \in Posts : FlowGains(q)
<1>1. /\ UNCHANGED <<target, kind, resp, status>>
      /\ Receive(s) \/ UNCHANGED <<pc, out, queue>>
  BY StreamFrame
<1>2. Receive(s) \/ WriteMessage(s) \/ UNCHANGED <<held, delivered>>
  BY DEF Stream, WriteReturns, OpenStream, Announce, Tick, WriteKeepAlive, StreamDone,
         Remove, Disconnect, PropagateCancel
<1>3. CASE Receive(s) BY <1>3, FlowStepReceive
<1>4. CASE WriteMessage(s) BY <1>4, FlowStepWrite
<1>5. CASE ~Receive(s) /\ ~WriteMessage(s)
  <2>1. UNCHANGED conn \/ conn' = [conn EXCEPT ![s] = "down"]
    BY <1>5 DEF Stream, WriteReturns, OpenStream, Announce, Tick, WriteKeepAlive, StreamDone,
                Remove, Disconnect, PropagateCancel, WriteFails
  <2>2. \A t \in Sessions : conn'[t] = "up" => conn[t] = "up"
    BY <2>1 DEF DInv, IInv, TypeInvariant, TypeOK
  <2> QED BY <1>1, <1>2, <1>5, <2>2, NothingMoves
<1> QED BY <1>3, <1>4, <1>5

LEMMA FlowStepPost ==
  ASSUME DInv, NEW q \in Posts, PostStep(q)
  PROVE  FlowKept \/ FlowGains(q)
<1> USE DEF DInv, IInv, TypeInvariant
<1>1. UNCHANGED <<conn, held, delivered, target>>
  BY PostFrame
     DEF sessionVars, PostStep, Enqueue, Lookup, DecodeFails, Accept, HandleMessage,
         EnqueueCheck, EnqueueSend, EnqueueBlock, EnqueueCanceled, EnqueueTimeout, LateAck
<1>2. CASE EnqueueSend(q)
  <2>1. /\ target[q] \in Sessions /\ out[q] = "none"
        /\ out' = [out EXCEPT ![q] = "queued"]
        /\ queue' = [queue EXCEPT ![target[q]] = Append(@, q)]
    BY <1>2 DEF EnqueueSend, Enqueued, PostInv, TypeOK
  <2>2. queue \in [Sessions -> Seq(Posts)] BY DEF TypeOK
  <2>3. CountOK BY CountsAreNatural
  <2>4. \A p \in Posts, t \in Sessions :
          /\ Count'[p][t] = Occurrences(p, delivered[t]) + Occurrences(p, held[t])
                              + Occurrences(p, queue'[t])
          /\ Count[p][t] = Occurrences(p, delivered[t]) + Occurrences(p, held[t])
                              + Occurrences(p, queue[t])
    BY <1>1 DEF Count
  <2>5. \A p \in Posts, t \in Sessions : /\ Occurrences(p, delivered[t]) \in Nat
                                         /\ Occurrences(p, held[t]) \in Nat
                                         /\ Occurrences(p, queue[t]) \in Nat
    BY CountType
  <2>6. \A p \in Posts, t \in Sessions :
          Occurrences(p, queue'[t])
            = Occurrences(p, queue[t]) + IF p = q /\ t = target[q] THEN 1 ELSE 0
    <3>1. ASSUME NEW p \in Posts, NEW t \in Sessions, t # target[q]
          PROVE  Occurrences(p, queue'[t]) = Occurrences(p, queue[t])
      BY <2>1, <2>2, <3>1
    <3>2. queue[target[q]] \in Seq(Posts) /\ queue'[target[q]] = Append(queue[target[q]], q)
      BY <2>1, <2>2
    <3>3. ASSUME NEW p \in Posts
          PROVE  Occurrences(p, queue'[target[q]])
                   = Occurrences(p, queue[target[q]]) + IF p = q THEN 1 ELSE 0
      BY <3>2, OccurrencesAppend
    <3> QED BY <2>5, <3>1, <3>3
  <2>7. \A p \in Posts, t \in Sessions :
          Count'[p][t] = Count[p][t] + IF p = q /\ t = target[q] THEN 1 ELSE 0
    BY <2>4, <2>5, <2>6
  <2> QED BY <1>1, <2>1, <2>7 DEF FlowGains
<1>3. CASE ~EnqueueSend(q)
  <2>1. UNCHANGED queue
    BY <1>3 DEF PostStep, Enqueue, Lookup, DecodeFails, Accept, HandleMessage,
                EnqueueCheck, EnqueueBlock, EnqueueCanceled, EnqueueTimeout, LateAck
  <2>2. \/ UNCHANGED out
        \/ /\ pc[q] \in {"check", "select", "blocked"}
           /\ \E r \in {"canceled", "timeout"} : out' = [out EXCEPT ![q] = r]
    BY <1>3 DEF PostStep, Enqueue, Lookup, DecodeFails, Accept, HandleMessage, EnqueueCheck,
                EnqueueBlock, EnqueueCanceled, EnqueueTimeout, LateAck, Enqueued
  <2>3. \A p \in Posts : out'[p] = "queued" <=> out[p] = "queued"
    <3>1. CASE UNCHANGED out BY <3>1
    <3>2. ASSUME pc[q] \in {"check", "select", "blocked"},
                 NEW r \in {"canceled", "timeout"}, out' = [out EXCEPT ![q] = r]
          PROVE  \A p \in Posts : out'[p] = "queued" <=> out[p] = "queued"
      <4>1. out[q] = "none" /\ r # "queued" BY <3>2 DEF PostInv, TypeOK
      <4> QED BY <3>2, <4>1 DEF TypeOK
    <3> QED BY <2>2, <3>1, <3>2
  <2>4. Count' = Count BY <1>1, <2>1 DEF Count
  <2>5. CountOK BY CountsAreNatural
  <2> QED BY <1>1, <2>3, <2>4, <2>5 DEF FlowKept, CountOK
<1> QED BY <1>2, <1>3

-----------------------------------------------------------------------------
(* Theorems.                                                                 *)

LEMMA InitDInv == Init => DInv
<1> SUFFICES ASSUME Init PROVE DInv OBVIOUS
<1>1. IInv BY InitIInv
<1>2. PipelineInv BY DEF Init, PipelineInv
<1>3. \A p \in Posts, s \in Sessions : Count[p][s] = 0
  <2>1. ASSUME NEW p \in Posts, NEW s \in Sessions PROVE Count[p][s] = 0
    <3>1. Count[p][s] = Occurrences(p, << >>) + Occurrences(p, << >>) + Occurrences(p, << >>)
      BY DEF Init, Count
    <3> QED BY <3>1, OccurrencesEmpty
  <2> QED BY <2>1
<1>4. FlowInv BY <1>3 DEF Init, FlowInv
<1> QED BY <1>1, <1>2, <1>4 DEF DInv

LEMMA StepDInv == DInv /\ [Next]_vars => DInv'
<1> SUFFICES ASSUME DInv, [Next]_vars PROVE DInv' OBVIOUS
<1>1. IInv' BY StepIInv DEF DInv
<1>2. PipelineInv' BY PipelineStep DEF DInv
<1>3. TypeOK' BY <1>1 DEF IInv, TypeInvariant
<1>4. FlowKept \/ \E q \in Posts : FlowGains(q)
  <2>1. ASSUME NEW p \in Posts, NEW s \in announced \cup {NoSession}, NEW k \in Kind, Send(p, s, k)
        PROVE  FlowKept
    <3>1. out[p] = "none" BY <2>1 DEF Send, DInv, IInv, PostInv
    <3>2. /\ UNCHANGED <<delivered, held, queue, out, conn>>
          /\ \A r \in Posts : r # p => target'[r] = target[r]
      BY <2>1 DEF Send, sessionVars, DInv, IInv, TypeInvariant, TypeOK
    <3> QED BY <3>1, <3>2, NothingMoves
  <2>2. CASE UNCHANGED vars BY <2>2, NothingMoves DEF vars
  <2> QED BY <2>1, <2>2, FlowStepStream, FlowStepPost DEF Next
<1>5. FlowInv' BY <1>3, <1>4, KeptIsSafe, GainIsSafe
<1> QED BY <1>1, <1>2, <1>5 DEF DInv

THEOREM Delivery == Spec => []DInv
BY InitDInv, StepDInv, PTL DEF Spec

(* A response enters one stream, the one its POST named, once, and only if   *)
(* enqueue said so: the buffered channel, the hand-over to a blocked sender  *)
(* and the write never duplicate it, and no timed-out or canceled response   *)
(* shows up later.                                                           *)
THEOREM DeliveredAtMostOnce == Spec => []NoDuplicateOrStray
<1>1. DInv => NoDuplicateOrStray BY FlowMeansDelivery
<1> QED BY <1>1, Delivery, PTL

(* And while the client's connection stands, it is never lost on the way.    *)
THEOREM DeliveredWhileConnected == Spec => []NothingLostWhileConnected
<1>1. DInv => NothingLostWhileConnected BY FlowMeansDelivery
<1> QED BY <1>1, Delivery, PTL

-----------------------------------------------------------------------------
(* The transport implements ResponseStream: every step of a handler, of a    *)
(* POST or of a dispatch goroutine is a step of the response stream, or does *)
(* not show there.                                                           *)

(* What the response stream sees of a state.                                 *)
Phase == [s \in Sessions |-> StreamPhase(s)]
Accepted == {p \in Posts : out[p] = "queued"}
Pending == [s \in Sessions |-> held[s] \o queue[s]]

LEMMA AbstractInit == Init => Abstract!Init
<1> SUFFICES ASSUME Init PROVE Abstract!Init OBVIOUS
<1>1. << >> \o << >> = << >> BY ConcatEmptySeq, EmptySeq
<1> QED BY <1>1 DEF Init, Abstract!Init, StreamPhase

LEMMA AbstractStutter ==
  ASSUME UNCHANGED <<held, queue, delivered, out>>, Phase' = Phase
  PROVE  UNCHANGED Abstract!vars
BY DEF Abstract!vars, Phase

(* An open stream stays open; its phase tells whether the client is there.   *)
LEMMA PhaseStep ==
  ASSUME TypeOK, NEW s \in Sessions, NEW x \in StreamPC \ {"idle"}, stream[s] # "idle",
         stream' = [stream EXCEPT ![s] = x],
         UNCHANGED conn \/ conn' = [conn EXCEPT ![s] = "down"]
  PROVE  /\ conn[s] = "up" <=> Phase[s] = "live"
         /\ conn[s] = "down" <=> Phase[s] = "dead"
         /\ conn'[s] = conn[s] => Phase' = Phase
         /\ conn'[s] # conn[s] => Phase' = [Phase EXCEPT ![s] = "dead"] /\ conn[s] = "up"
<1> USE DEF TypeOK
<1>1. \A t \in Sessions : t # s => stream'[t] = stream[t] /\ conn'[t] = conn[t]
  OBVIOUS
<1>2. stream'[s] = x /\ conn'[s] \in {conn[s], "down"} OBVIOUS
<1>3. \A t \in Sessions : t # s => Phase'[t] = Phase[t]
  BY <1>1 DEF Phase, StreamPhase
<1>4. Phase'[s] = IF conn'[s] = "up" THEN "live" ELSE "dead"
  BY <1>2 DEF Phase, StreamPhase
<1>5. Phase[s] = IF conn[s] = "up" THEN "live" ELSE "dead"
  BY DEF Phase, StreamPhase
<1>6. Phase = [t \in Sessions |-> Phase[t]] /\ Phase' = [t \in Sessions |-> Phase'[t]]
  BY DEF Phase
<1>7. conn[s] \in {"up", "down"} OBVIOUS
<1> HIDE DEF TypeOK
<1> QED BY <1>2, <1>3, <1>4, <1>5, <1>6, <1>7

(* A handler that moves on, and may lose its client, without a message.      *)
LEMMA AbstractQuiet ==
  ASSUME TypeOK, NEW s \in Sessions, NEW x \in StreamPC \ {"idle"}, stream[s] # "idle",
         stream' = [stream EXCEPT ![s] = x],
         UNCHANGED conn \/ conn' = [conn EXCEPT ![s] = "down"],
         UNCHANGED <<held, queue, delivered, out>>
  PROVE  Abstract!Lose(s) \/ UNCHANGED Abstract!vars
<1>1. conn'[s] = conn[s] => Phase' = Phase
  BY PhaseStep
<1>2. conn'[s] # conn[s] => Phase[s] = "live" /\ Phase' = [Phase EXCEPT ![s] = "dead"]
  BY PhaseStep
<1>3. CASE Phase' = Phase BY <1>3, AbstractStutter
<1>4. CASE Phase[s] = "live" /\ Phase' = [Phase EXCEPT ![s] = "dead"]
  BY <1>4 DEF Abstract!Lose, Phase
<1> QED BY <1>1, <1>2, <1>3, <1>4

(* Facts on sequences that the moves of a message come down to.              *)
LEMMA ConcatAppend ==
  ASSUME NEW a \in Seq(Posts), NEW b \in Seq(Posts), NEW q \in Posts
  PROVE  a \o Append(b, q) = Append(a \o b, q)
<1> DEFINE one == <<q>>
<1>1. one \in Seq(Posts) OBVIOUS
<1>2. Append(b, q) = b \o one BY AppendIsConcat
<1>3. a \o b \in Seq(Posts) BY ConcatProperties
<1>4. Append(a \o b, q) = (a \o b) \o one BY <1>3, AppendIsConcat
<1> HIDE DEF one
<1> QED BY <1>1, <1>2, <1>4, ConcatAssociative

LEMMA SingleThenRest ==
  ASSUME NEW a \in Seq(Posts), Len(a) = 1, NEW b \in Seq(Posts)
  PROVE  /\ a[1] \in Posts /\ a = <<a[1]>>
         /\ a \o b # << >>
         /\ Head(a \o b) = a[1]
         /\ Tail(a \o b) = b
<1>1. a[1] \in Posts /\ a = <<a[1]>> OBVIOUS
<1>2. /\ a \o b \in Seq(Posts)
      /\ Len(b) \in Nat
      /\ Len(a \o b) = 1 + Len(b)
      /\ \A i \in 1 .. 1 + Len(b) : (a \o b)[i] = IF i <= 1 THEN a[i] ELSE b[i - 1]
  <2>1. /\ a \o b \in Seq(Posts)
        /\ Len(a \o b) = Len(a) + Len(b)
        /\ \A i \in 1 .. Len(a) + Len(b) :
             (a \o b)[i] = IF i <= Len(a) THEN a[i] ELSE b[i - Len(a)]
    BY ConcatProperties
  <2>2. Len(b) \in Nat BY LenProperties
  <2> QED BY <2>1, <2>2
<1> DEFINE whole == a \o b
<1> HIDE DEF whole
<1>3. /\ whole \in Seq(Posts)
      /\ Len(whole) = 1 + Len(b)
      /\ \A i \in 1 .. 1 + Len(b) : whole[i] = IF i <= 1 THEN a[i] ELSE b[i - 1]
  BY <1>2 DEF whole
<1>4. whole # << >> /\ Head(whole) = a[1] BY <1>2, <1>3
<1>5. /\ Tail(whole) \in Seq(Posts)
      /\ Len(Tail(whole)) = Len(b)
      /\ \A i \in 1 .. Len(Tail(whole)) : Tail(whole)[i] = whole[i + 1]
  BY <1>2, <1>3, <1>4, HeadTailProperties
<1>6. \A i \in 1 .. Len(b) : Tail(whole)[i] = b[i] BY <1>2, <1>3, <1>5
<1>7. Tail(whole) = b BY <1>5, <1>6, SeqEqual
<1> QED BY <1>1, <1>4, <1>7 DEF whole

(* A response that enters the channel enters the response stream.            *)
LEMMA AbstractAccept ==
  ASSUME NEW q \in Posts, NEW s \in Sessions,
         TypeOK, out[q] # "queued", out' = [out EXCEPT ![q] = "queued"],
         Phase[s] # "unopened", Phase' = Phase,
         Pending' = [Pending EXCEPT ![s] = Append(@, q)],
         UNCHANGED delivered
  PROVE  Abstract!AcceptResponse(s, q)
<1>1. q \notin Accepted BY DEF Accepted
<1>2. Accepted' = Accepted \cup {q} BY DEF Accepted, TypeOK
<1> QED BY <1>1, <1>2 DEF Abstract!AcceptResponse, Phase, Accepted, Pending

LEMMA AbstractReceive ==
  ASSUME DInv, NEW s \in Sessions, Receive(s)
  PROVE  \/ UNCHANGED Abstract!vars
         \/ \E q \in Posts : Abstract!AcceptResponse(s, q)
<1> USE DEF DInv, IInv, TypeInvariant
<1>1. /\ queue[s] \in Seq(Posts) /\ queue[s] # << >> /\ held[s] = << >>
      /\ held \in [Sessions -> Seq(Posts)] /\ queue \in [Sessions -> Seq(Posts)]
      /\ held' = [held EXCEPT ![s] = <<Head(queue[s])>>]
      /\ stream[s] = "loop" /\ stream' = [stream EXCEPT ![s] = "write"]
      /\ UNCHANGED <<delivered, conn, target>>
  BY DEF Receive, TypeOK, PipelineInv
<1>2. Phase' = Phase
  <2>1. "write" \in StreamPC \ {"idle"} BY DEF StreamPC
  <2> QED BY <1>1, <2>1, PhaseStep
<1>3. Phase[s] # "unopened" BY <1>1 DEF Phase, StreamPhase
<1> DEFINE rest == Tail(queue[s])
           first == <<Head(queue[s])>>
<1>4. rest \in Seq(Posts) /\ first \in Seq(Posts) /\ first \o rest = queue[s]
  BY <1>1, HeadAndTail
<1>5. held'[s] = first BY <1>1
<1>6. Pending[s] = queue[s] BY <1>1, ConcatEmptySeq DEF Pending
<1>7. CASE queue' = [queue EXCEPT ![s] = Tail(@)] /\ UNCHANGED <<pc, out>>
  <2>1. queue'[s] = rest BY <1>1, <1>7
  <2> HIDE DEF rest, first
  <2>2. held'[s] \o queue'[s] = held[s] \o queue[s]
    BY <1>4, <1>5, <1>6, <2>1 DEF Pending
  <2>3. \A t \in Sessions : held'[t] \o queue'[t] = held[t] \o queue[t]
    BY <1>1, <1>7, <2>2
  <2>4. UNCHANGED <<Phase, Accepted, Pending, delivered>>
    BY <1>1, <1>2, <1>7, <2>3 DEF Accepted, Pending
  <2> QED BY <2>4 DEF Abstract!vars, Phase, Accepted, Pending
<1>8. ASSUME NEW q \in Blocked(s), queue' = [queue EXCEPT ![s] = Append(Tail(@), q)],
             Enqueued(q, "queued")
      PROVE  Abstract!AcceptResponse(s, q) /\ q \in Posts
  <2>1. q \in Posts /\ pc[q] = "blocked" BY DEF Blocked
  <2>2. out[q] # "queued" /\ out' = [out EXCEPT ![q] = "queued"]
    BY <1>8, <2>1 DEF PostInv, Enqueued
  <2>3. queue'[s] = Append(rest, q) BY <1>1, <1>8
  <2> HIDE DEF rest, first
  <2>4. first \o Append(rest, q) = Append(queue[s], q)
    BY <1>4, <2>1, ConcatAppend
  <2>5. held'[s] \o queue'[s] = Append(Pending[s], q)
    BY <1>5, <1>6, <2>3, <2>4
  <2>6. \A t \in Sessions : t # s => held'[t] \o queue'[t] = held[t] \o queue[t]
    BY <1>1, <1>8
  <2>7. Pending' = [Pending EXCEPT ![s] = Append(@, q)]
    BY <2>5, <2>6 DEF Pending
  <2> QED BY <1>1, <1>2, <1>3, <2>1, <2>2, <2>7, AbstractAccept
<1> QED BY <1>7, <1>8 DEF Receive

(* A write that succeeds is a Write; one that fails loses the stream with    *)
(* its message, or drops the message of a stream already lost.               *)
LEMMA AbstractWrite ==
  ASSUME DInv, NEW s \in Sessions, WriteMessage(s)
  PROVE  Abstract!Write(s) \/ Abstract!Lose(s) \/ Abstract!Discard(s)
<1> USE DEF DInv, IInv, TypeInvariant
<1>1. /\ held[s] \in Seq(Posts) /\ delivered[s] \in Seq(Posts) /\ queue[s] \in Seq(Posts)
      /\ held \in [Sessions -> Seq(Posts)] /\ delivered \in [Sessions -> Seq(Posts)]
      /\ held' = [held EXCEPT ![s] = << >>]
      /\ stream[s] = "write"
      /\ UNCHANGED <<queue, out>>
  BY DEF WriteMessage, TypeOK, postVars
<1>2. Len(held[s]) = 1
  <2>1. held[s] # << >> /\ Len(held[s]) <= 1 BY <1>1 DEF PipelineInv
  <2>2. Len(held[s]) \in Nat /\ Len(held[s]) # 0 BY <1>1, <2>1, EmptySeq
  <2>3. \A n \in Nat : n # 0 /\ n <= 1 => n = 1 OBVIOUS
  <2> QED BY <2>1, <2>2, <2>3
<1>3. /\ held[s][1] \in Posts /\ held[s] = <<held[s][1]>>
      /\ Pending[s] # << >>
      /\ Head(Pending[s]) = held[s][1]
      /\ Tail(Pending[s]) = queue[s]
  BY <1>1, <1>2, SingleThenRest DEF Pending
<1>4. Pending' = [Pending EXCEPT ![s] = Tail(@)]
  <2>1. held'[s] \o queue'[s] = queue[s] BY <1>1, ConcatEmptySeq
  <2>2. \A t \in Sessions : t # s => held'[t] \o queue'[t] = held[t] \o queue[t]
    BY <1>1
  <2> QED BY <1>3, <2>1, <2>2 DEF Pending
<1>5. /\ {"loop", "remove"} \subseteq StreamPC \ {"idle"}
      /\ Accepted' = Accepted
  BY <1>1 DEF StreamPC, Accepted
<1>6. CASE /\ conn[s] = "up"
           /\ delivered' = [delivered EXCEPT ![s] = @ \o held[s]]
           /\ stream' = [stream EXCEPT ![s] = "loop"]
           /\ UNCHANGED conn
  <2>1. Phase[s] = "live" /\ Phase' = Phase BY <1>1, <1>5, <1>6, PhaseStep
  <2>2. delivered[s] \o held[s] = Append(delivered[s], Head(Pending[s]))
    <3> DEFINE m == held[s][1]
    <3>1. m \in Posts /\ held[s] = <<m>> /\ Head(Pending[s]) = m BY <1>3
    <3> HIDE DEF m
    <3> QED BY <1>1, <3>1, AppendIsConcat
  <2>3. delivered' = [delivered EXCEPT ![s] = Append(@, Head(Pending[s]))]
    BY <1>1, <1>6, <2>2
  <2>4. Abstract!Write(s)
    BY <1>3, <1>4, <1>5, <2>1, <2>3 DEF Abstract!Write, Phase, Accepted, Pending
  <2> QED BY <2>4
<1>7. CASE WriteFails(s) /\ UNCHANGED delivered
  <2>1. PICK x \in {"loop", "remove"} : stream' = [stream EXCEPT ![s] = x]
    BY <1>7 DEF WriteFails
  <2>2. conn' = [conn EXCEPT ![s] = "down"] BY <1>7 DEF WriteFails
  <2>3. conn[s] \in {"up", "down"} /\ conn'[s] = "down" BY <2>2 DEF TypeOK
  <2>4. CASE conn[s] = "up"
    <3>1. Phase[s] = "live" /\ Phase' = [Phase EXCEPT ![s] = "dead"]
      BY <1>1, <1>5, <2>1, <2>2, <2>3, <2>4, PhaseStep
    <3> QED BY <1>3, <1>4, <1>5, <1>7, <3>1 DEF Abstract!Lose, Phase, Accepted, Pending
  <2>5. CASE conn[s] = "down"
    <3>1. Phase[s] = "dead" /\ Phase' = Phase
      BY <1>1, <1>5, <2>1, <2>2, <2>3, <2>5, PhaseStep
    <3> QED BY <1>3, <1>4, <1>5, <1>7, <3>1 DEF Abstract!Discard, Phase, Accepted, Pending
  <2> QED BY <2>3, <2>4, <2>5
<1> QED BY <1>6, <1>7 DEF WriteMessage

LEMMA AbstractStepStream ==
  ASSUME DInv, NEW s \in Sessions, Stream(s)
  PROVE  Abstract!Next \/ UNCHANGED Abstract!vars
<1> USE DEF DInv, IInv, TypeInvariant
<1>0. {"loop", "remove", "keepalive", "closed"} \subseteq StreamPC \ {"idle"} BY DEF StreamPC
<1>1. CASE OpenStream(s)
  <2>1. /\ UNCHANGED <<conn, held, queue, delivered, out>>
        /\ stream[s] = "idle" /\ stream' = [stream EXCEPT ![s] = "announce"]
        /\ conn[s] = "up"
    BY <1>1 DEF OpenStream, postVars, PipelineInv
  <2>2. \A t \in Sessions : t # s => Phase'[t] = Phase[t]
    BY <2>1 DEF Phase, StreamPhase, TypeOK
  <2>3. Phase[s] = "unopened" /\ Phase'[s] = "live"
    BY <2>1 DEF Phase, StreamPhase, TypeOK
  <2>4. Phase' = [Phase EXCEPT ![s] = "live"] BY <2>2, <2>3 DEF Phase
  <2>5. Accepted' = Accepted /\ Pending' = Pending BY <2>1 DEF Accepted, Pending
  <2>6. Abstract!Open(s)
    BY <2>1, <2>3, <2>4, <2>5 DEF Abstract!Open, Phase, Accepted, Pending
  <2> QED BY <2>6 DEF Abstract!Next
<1>2. CASE Announce(s) \/ WriteKeepAlive(s)
  <2>1. stream[s] # "idle" /\ UNCHANGED <<held, queue, delivered, out>>
    BY <1>2 DEF Announce, WriteKeepAlive, postVars
  <2>2. PICK x \in {"loop", "remove"} : stream' = [stream EXCEPT ![s] = x]
    BY <1>2 DEF Announce, WriteKeepAlive, WriteFails
  <2>3. UNCHANGED conn \/ conn' = [conn EXCEPT ![s] = "down"]
    BY <1>2 DEF Announce, WriteKeepAlive, WriteFails
  <2>4. Abstract!Lose(s) \/ UNCHANGED Abstract!vars
    BY <1>0, <2>1, <2>2, <2>3, AbstractQuiet
  <2> QED BY <2>4 DEF Abstract!Next
<1>3. CASE Tick(s) \/ StreamDone(s) \/ Remove(s)
  <2>1. stream[s] # "idle" /\ UNCHANGED <<conn, held, queue, delivered, out>>
    BY <1>3 DEF Tick, StreamDone, Remove, postVars
  <2>2. PICK x \in {"keepalive", "remove", "closed"} : stream' = [stream EXCEPT ![s] = x]
    BY <1>3 DEF Tick, StreamDone, Remove
  <2>3. Abstract!Lose(s) \/ UNCHANGED Abstract!vars
    BY <1>0, <2>1, <2>2, AbstractQuiet
  <2> QED BY <2>3 DEF Abstract!Next
<1>4. CASE Disconnect(s) \/ PropagateCancel(s)
  <2>1. UNCHANGED <<stream, held, queue, delivered, out>>
    BY <1>4 DEF Disconnect, PropagateCancel, postVars
  <2>2. CASE UNCHANGED conn
    <3>1. Phase' = Phase BY <2>1, <2>2 DEF Phase, StreamPhase
    <3> QED BY <2>1, <3>1, AbstractStutter
  <2>3. CASE Disconnect(s)
    <3>1. stream[s] # "idle" /\ conn' = [conn EXCEPT ![s] = "down"] BY <2>3 DEF Disconnect
    <3>2. stream' = [stream EXCEPT ![s] = stream[s]] /\ stream[s] \in StreamPC \ {"idle"}
      BY <2>1, <3>1 DEF TypeOK
    <3>3. Abstract!Lose(s) \/ UNCHANGED Abstract!vars
      BY <2>1, <3>1, <3>2, AbstractQuiet
    <3> QED BY <3>3 DEF Abstract!Next
  <2> QED BY <1>4, <2>2, <2>3 DEF PropagateCancel
<1>5. CASE Receive(s) BY <1>5, AbstractReceive DEF Abstract!Next
<1>6. CASE WriteMessage(s) BY <1>6, AbstractWrite DEF Abstract!Next
<1> QED BY <1>1, <1>2, <1>3, <1>4, <1>5, <1>6 DEF Stream, WriteReturns

LEMMA AbstractStepPost ==
  ASSUME DInv, NEW q \in Posts, PostStep(q)
  PROVE  Abstract!Next \/ UNCHANGED Abstract!vars
<1> USE DEF DInv, IInv, TypeInvariant
<1>1. UNCHANGED <<stream, conn, held, delivered, target>>
  BY PostFrame
     DEF sessionVars, PostStep, Enqueue, Lookup, DecodeFails, Accept, HandleMessage,
         EnqueueCheck, EnqueueSend, EnqueueBlock, EnqueueCanceled, EnqueueTimeout, LateAck
<1>2. Phase' = Phase BY <1>1 DEF Phase, StreamPhase
<1>3. CASE EnqueueSend(q)
  <2> DEFINE s == target[q]
  <2>1. /\ s \in Sessions /\ s \in announced /\ out[q] = "none"
        /\ out' = [out EXCEPT ![q] = "queued"]
        /\ queue' = [queue EXCEPT ![s] = Append(@, q)]
    BY <1>3 DEF EnqueueSend, Enqueued, PostInv, PipelineInv, TypeOK
  <2>2. Phase[s] # "unopened" BY <2>1 DEF SessionInv, Phase, StreamPhase
  <2> HIDE DEF s
  <2>3. queue \in [Sessions -> Seq(Posts)] /\ held \in [Sessions -> Seq(Posts)] BY DEF TypeOK
  <2>4. held'[s] \o queue'[s] = Append(held[s] \o queue[s], q)
    <3>1. queue'[s] = Append(queue[s], q) /\ held'[s] = held[s]
      BY <1>1, <2>1, <2>3
    <3>2. queue[s] \in Seq(Posts) /\ held[s] \in Seq(Posts) BY <2>1, <2>3
    <3>3. held[s] \o Append(queue[s], q) = Append(held[s] \o queue[s], q)
      BY <3>2, ConcatAppend
    <3> QED BY <3>1, <3>3
  <2>5. \A t \in Sessions : t # s => held'[t] \o queue'[t] = held[t] \o queue[t]
    BY <1>1, <2>1, <2>3
  <2>6. Pending' = [Pending EXCEPT ![s] = Append(@, q)]
    BY <2>1, <2>4, <2>5 DEF Pending
  <2>7. Abstract!AcceptResponse(s, q)
    BY <1>1, <1>2, <2>1, <2>2, <2>6, AbstractAccept
  <2> QED BY <2>1, <2>7 DEF Abstract!Next
<1>4. CASE ~EnqueueSend(q)
  <2>1. UNCHANGED queue
    BY <1>4 DEF PostStep, Enqueue, Lookup, DecodeFails, Accept, HandleMessage,
                EnqueueCheck, EnqueueBlock, EnqueueCanceled, EnqueueTimeout, LateAck
  <2>2. \/ UNCHANGED out
        \/ /\ pc[q] \in {"check", "select", "blocked"}
           /\ \E r \in {"canceled", "timeout"} : out' = [out EXCEPT ![q] = r]
    BY <1>4 DEF PostStep, Enqueue, Lookup, DecodeFails, Accept, HandleMessage, EnqueueCheck,
                EnqueueBlock, EnqueueCanceled, EnqueueTimeout, LateAck, Enqueued
  <2>3. Accepted' = Accepted
    <3>1. CASE UNCHANGED out BY <3>1 DEF Accepted
    <3>2. ASSUME pc[q] \in {"check", "select", "blocked"},
                 NEW r \in {"canceled", "timeout"}, out' = [out EXCEPT ![q] = r]
          PROVE  Accepted' = Accepted
      <4>1. out[q] = "none" /\ r # "queued" BY <3>2 DEF PostInv, TypeOK
      <4> QED BY <3>2, <4>1 DEF TypeOK, Accepted
    <3> QED BY <2>2, <3>1, <3>2
  <2>4. Pending' = Pending BY <1>1, <2>1 DEF Pending
  <2>5. UNCHANGED Abstract!vars
    BY <1>1, <1>2, <2>3, <2>4 DEF Abstract!vars, Phase, Accepted, Pending
  <2> QED BY <2>5
<1> QED BY <1>3, <1>4

(* The transport implements the ordered, loss-free response stream, for any  *)
(* number of sessions and POSTs and any capacity of the channel.             *)
THEOREM Refinement == Spec => ImplementsResponseStream
<1>1. DInv /\ [Next]_vars => [Abstract!Next]_(Abstract!vars)
  <2> SUFFICES ASSUME DInv, [Next]_vars PROVE Abstract!Next \/ UNCHANGED Abstract!vars
    OBVIOUS
  <2>1. ASSUME NEW p \in Posts, NEW s \in announced \cup {NoSession}, NEW k \in Kind, Send(p, s, k)
        PROVE  UNCHANGED Abstract!vars
    <3>1. UNCHANGED <<stream, conn, held, queue, delivered, out>> BY <2>1 DEF Send, sessionVars
    <3> QED BY <3>1, AbstractStutter DEF Phase, StreamPhase
  <2>2. CASE UNCHANGED vars
    BY <2>2, AbstractStutter DEF vars, Phase, StreamPhase
  <2> QED BY <2>1, <2>2, AbstractStepStream, AbstractStepPost DEF Next
<1> QED
  BY <1>1, AbstractInit, Delivery, PTL DEF Spec, ImplementsResponseStream, Abstract!Spec

=============================================================================
