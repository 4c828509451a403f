-------------------------------- MODULE Serve -------------------------------
(***************************************************************************)
(* What kctx serve does once it is configured (internal/cmd/serve), in its *)
(* three modes: an HTTP server (internal/server/server.go), an MCP server  *)
(* over HTTP/SSE (internal/mcp/sse.go) and one that reads stdin and writes *)
(* stdout (internal/mcp/server.go).  Each call ends when its context is    *)
(* cancelled; kctx itself passes a context that never is, tests and        *)
(* programs that embed it may.                                             *)
(*                                                                         *)
(* Handlers are abstract: they begin and end, and POSTs to the SSE server  *)
(* leave a goroutine behind.  What they do is in SSESession and            *)
(* EngineRequest.                                                          *)
(***************************************************************************)
EXTENDS Naturals, SequencesExt

CONSTANTS
  Conns,      (* HTTP requests, each made once                               *)
  MaxLines,   (* BOUND: lines a client writes to stdin                       *)
  ErrCap      (* capacity of errCh, 1 in the code                            *)

ASSUME ErrCapAssumption == ErrCap \in Nat /\ MaxLines \in Nat

VARIABLES
  mode,       (* --mode, "" before the server is called                      *)
  call,       (* where the call of Serve or ListenAndServe stands            *)
  cancelled,  (* is its context done?                                        *)
  listener,   (* the goroutine in http.Server.ListenAndServe                 *)
  errCh,      (* its result, for the call to receive                         *)
  shutdown,   (* has http.Server.Shutdown closed the listener?               *)
  request,    (* request[c]: the handler of c                                *)
  dispatch,   (* dispatch[c]: the stream that a POST's goroutine answers to  *)
  stdin,      (* lines written by the client, not yet scanned                *)
  eof,        (* has the client closed stdin?                                *)
  lines,      (* lines scanned                                               *)
  stdout      (* the lines answered, by number                               *)

httpVars == <<listener, errCh, shutdown, request, dispatch>>
stdioVars == <<stdin, eof, lines, stdout>>
serveVars == <<mode, call, cancelled, httpVars, stdioVars>>

Nobody == "none"
Handlers == {"idle", "handler", "stream", "over"}

(* A line that is no JSON is answered with an error; one that cannot be      *)
(* read, or is longer than the scanner's buffer, ends the scan.              *)
Lines == {"request", "notification", "garbage", "empty", "unreadable"}
Replied == {"request", "garbage"}

ServeTypeOK ==
  /\ call \in {"none", "select", "shutdown", "scan", "scanned", "encode", "nil", "error"}
  /\ cancelled \in BOOLEAN /\ eof \in BOOLEAN /\ shutdown \in BOOLEAN
  /\ listener \in {"none", "starting", "listening", "closed", "failed", "over"}
  /\ errCh \in Seq({"closed", "failed"})
  /\ request \in [Conns -> Handlers]
  /\ dispatch \in [Conns -> Conns \cup {Nobody, "over"}]
  /\ stdin \in Seq(Lines) /\ lines \in Seq(Lines) /\ stdout \in Seq(Nat)

ServeInit ==
  /\ mode = "" /\ call = "none" /\ cancelled = FALSE
  /\ listener = "none" /\ errCh = << >> /\ shutdown = FALSE
  /\ request = [c \in Conns |-> "idle"] /\ dispatch = [c \in Conns |-> Nobody]
  /\ stdin = << >> /\ eof = FALSE /\ lines = << >> /\ stdout = << >>

(* A mode that is none of the three is only found now.                       *)
Begin(m) ==
  /\ call = "none"
  /\ mode' = m
  /\ call' = CASE m = "mcp" -> "scan" [] m \in {"http", "mcp-sse"} -> "select" [] OTHER -> "error"
  /\ listener' = IF m \in {"http", "mcp-sse"} THEN "starting" ELSE "none"
  /\ UNCHANGED <<cancelled, errCh, shutdown, request, dispatch, stdioVars>>

Cancel ==
  /\ call \notin {"none", "nil", "error"} /\ ~cancelled
  /\ cancelled' = TRUE
  /\ UNCHANGED <<mode, call, httpVars, stdioVars>>

-----------------------------------------------------------------------------
(* ListenAndServe, of either HTTP server.                                    *)

(* net/http: a server that is shut down does not listen; binding or          *)
(* accepting may fail.                                                       *)
Listen ==
  /\ \/ listener = "starting" /\ ~shutdown /\ listener' \in {"listening", "failed"}
     \/ listener = "listening" /\ ~shutdown /\ listener' = "failed"
     \/ listener \in {"starting", "listening"} /\ shutdown /\ listener' = "closed"
  /\ UNCHANGED <<mode, call, cancelled, errCh, shutdown, request, dispatch, stdioVars>>

(* errCh <- httpServer.ListenAndServe().                                     *)
SendResult ==
  /\ listener \in {"closed", "failed"} /\ Len(errCh) < ErrCap
  /\ errCh' = Append(errCh, listener) /\ listener' = "over"
  /\ UNCHANGED <<mode, call, cancelled, shutdown, request, dispatch, stdioVars>>

(* The select took errCh.                                                    *)
ReceiveResult ==
  /\ call = "select" /\ errCh # << >>
  /\ errCh' = Tail(errCh)
  /\ call' = IF Head(errCh) = "closed" THEN "nil" ELSE "error"
  /\ UNCHANGED <<mode, cancelled, listener, shutdown, request, dispatch, stdioVars>>

(* A call that returns on cancellation, without Shutdown.                    *)
BeginShutdownNever ==
  /\ call = "select" /\ cancelled
  /\ call' = "nil" /\ shutdown' = TRUE
  /\ UNCHANGED <<mode, cancelled, listener, errCh, request, dispatch, stdioVars>>

(* The select took ctx.Done().                                               *)
BeginShutdown ==
  /\ call = "select" /\ cancelled
  /\ call' = "shutdown" /\ shutdown' = TRUE
  /\ UNCHANGED <<mode, cancelled, listener, errCh, request, dispatch, stdioVars>>

Running(c) == request[c] \in {"handler", "stream"}

(* Shutdown waits for the handlers, streams included, which nothing tells to *)
(* end ...                                                                   *)
EndShutdown ==
  /\ call = "shutdown" /\ \A c \in Conns : ~Running(c)
  /\ call' = "nil"
  /\ UNCHANGED <<mode, cancelled, httpVars, stdioVars>>

(* Waiting with context.Background().                                        *)
ShutdownExpiresNever == FALSE /\ UNCHANGED serveVars

(* ... or until its own context, of 30 or 60 seconds, is over.               *)
ShutdownExpires ==
  /\ call = "shutdown" /\ \E c \in Conns : Running(c)
  /\ call' = "error"
  /\ UNCHANGED <<mode, cancelled, httpVars, stdioVars>>

Accepting == listener = "listening" /\ ~shutdown

Connect(c) ==
  /\ Accepting /\ request[c] = "idle"
  /\ request' = [request EXCEPT ![c] = "handler"]
  /\ UNCHANGED <<mode, call, cancelled, listener, errCh, shutdown, dispatch, stdioVars>>

(* GET of the SSE endpoint.                                                  *)
OpenStream(c) ==
  /\ Accepting /\ request[c] = "idle" /\ mode = "mcp-sse"
  /\ request' = [request EXCEPT ![c] = "stream"]
  /\ UNCHANGED <<mode, call, cancelled, listener, errCh, shutdown, dispatch, stdioVars>>

(* A handler ends; a POST's leaves a goroutine that answers to a stream.     *)
HandlerEnds(c) ==
  /\ request[c] = "handler"
  /\ request' = [request EXCEPT ![c] = "over"]
  /\ \/ UNCHANGED dispatch
     \/ /\ mode = "mcp-sse"
        /\ \E s \in Conns : request[s] = "stream" /\ dispatch' = [dispatch EXCEPT ![c] = s]
  /\ UNCHANGED <<mode, call, cancelled, listener, errCh, shutdown, stdioVars>>

ClientLeaves(c) ==
  /\ request[c] = "stream"
  /\ request' = [request EXCEPT ![c] = "over"]
  /\ UNCHANGED <<mode, call, cancelled, listener, errCh, shutdown, dispatch, stdioVars>>

DispatchEnds(c) ==
  /\ dispatch[c] \in Conns
  /\ dispatch' = [dispatch EXCEPT ![c] = "over"]
  /\ UNCHANGED <<mode, call, cancelled, listener, errCh, shutdown, request, stdioVars>>

-----------------------------------------------------------------------------
(* Server.Serve over stdin and stdout.                                       *)

ClientWrites(k) ==
  /\ mode = "mcp" /\ ~eof /\ Len(stdin) + Len(lines) < MaxLines
  /\ stdin' = Append(stdin, k)
  /\ UNCHANGED <<mode, call, cancelled, httpVars, eof, lines, stdout>>

ClientCloses ==
  /\ mode = "mcp" /\ ~eof
  /\ eof' = TRUE
  /\ UNCHANGED <<mode, call, cancelled, httpVars, stdin, lines, stdout>>

(* scanner.Scan blocks, deaf to the context, until there is a line or no     *)
(* more.                                                                     *)
Scan ==
  /\ call = "scan"
  /\ \/ /\ stdin # << >> /\ Head(stdin) # "unreadable"
        /\ lines' = Append(lines, Head(stdin)) /\ stdin' = Tail(stdin) /\ call' = "scanned"
     \/ /\ stdin # << >> /\ Head(stdin) = "unreadable"
        /\ call' = "error" /\ UNCHANGED <<lines, stdin>>
     \/ /\ stdin = << >> /\ eof
        /\ call' = "nil" /\ UNCHANGED <<lines, stdin>>
  /\ UNCHANGED <<mode, cancelled, httpVars, eof, stdout>>

(* Every line is answered, whether it has an id or not.                      *)
HandleLineAlways ==
  /\ call = "scanned"
  /\ call' = IF cancelled THEN "error" ELSE IF Last(lines) = "empty" THEN "scan" ELSE "encode"
  /\ UNCHANGED <<mode, cancelled, httpVars, stdioVars>>

(* A context that is over drops the line; otherwise handleMessage runs.      *)
HandleLine ==
  /\ call = "scanned"
  /\ call' = IF cancelled THEN "error" ELSE IF Last(lines) \in Replied THEN "encode" ELSE "scan"
  /\ UNCHANGED <<mode, cancelled, httpVars, stdioVars>>

(* encoder.Encode, which fails once nobody reads stdout.                     *)
Encode ==
  /\ call = "encode"
  /\ \/ stdout' = Append(stdout, Len(lines)) /\ call' = "scan"
     \/ call' = "error" /\ UNCHANGED stdout
  /\ UNCHANGED <<mode, cancelled, httpVars, stdin, eof, lines>>

-----------------------------------------------------------------------------
ListenAndServe ==
  ReceiveResult \/ BeginShutdown \/ EndShutdown \/ ShutdownExpires \/ Listen \/ SendResult

Stdio == Scan \/ HandleLine \/ Encode

HTTPClient == \E c \in Conns : Connect(c) \/ OpenStream(c) \/ ClientLeaves(c)
Handling == \E c \in Conns : HandlerEnds(c) \/ DispatchEnds(c)
StdioClient == ClientCloses \/ \E k \in Lines : ClientWrites(k)

ServeNext == ListenAndServe \/ Stdio \/ Cancel \/ HTTPClient \/ Handling \/ StdioClient

(* Goroutines that can go on do, and the time-out of Shutdown passes.  The   *)
(* stdio loop answers: a tool ends with its time-out or its context, and a   *)
(* client that talks over pipes reads them.  A client need neither leave nor *)
(* write; an HTTP handler may never end, if it has no deadline.              *)
ServeFairness ==
  /\ WF_serveVars(ReceiveResult) /\ WF_serveVars(BeginShutdown) /\ WF_serveVars(EndShutdown)
  /\ WF_serveVars(ShutdownExpires) /\ WF_serveVars(shutdown /\ Listen) /\ WF_serveVars(SendResult)
  /\ WF_serveVars(Stdio)

-----------------------------------------------------------------------------
(* Properties.                                                               *)

Returned == call \in {"nil", "error"}

(* A cancelled HTTP or SSE server that reports success ("nil") left nobody   *)
(* unanswered: no handler runs, and goroutines of POSTs, which Shutdown does *)
(* not know of, only answer to streams that are over.                        *)
CleanShutdown ==
  call = "nil" /\ mode \in {"http", "mcp-sse"} =>
    /\ cancelled /\ ~Accepting
    /\ \A c \in Conns : ~Running(c) /\ (dispatch[c] \in Conns => ~Running(dispatch[c]))

(* Replies on stdout: one for each line scanned that needs one, in the order *)
(* of the lines, but for the last, which may still be answered or have been  *)
(* dropped; a call that ends well has answered all the client wrote.         *)
Owed == {n \in DOMAIN lines : lines[n] \in Replied}

OneReplyPerLine ==
  /\ \A m, n \in DOMAIN stdout : m < n => stdout[m] < stdout[n]
  /\ \/ Range(stdout) = Owed
     \/ /\ call \in {"scanned", "encode", "error"} /\ Len(lines) \in Owed
        /\ Range(stdout) = Owed \ {Len(lines)}
  /\ call = "nil" /\ mode = "mcp" => Range(stdout) = Owed /\ stdin = << >>

(* Cancelling ends the call: HTTP and SSE servers by the time-out of         *)
(* Shutdown, even if a stream stays for ever; the stdio server when there is *)
(* a line to scan.  The goroutine that listens ends with it.                 *)
CancelEndsCall ==
  /\ cancelled /\ mode \in {"http", "mcp-sse"} ~> Returned /\ listener = "over"
  /\ cancelled /\ mode = "mcp" /\ (stdin # << >> \/ eof) ~> Returned

=============================================================================
