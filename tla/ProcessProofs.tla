---------------------------- MODULE ProcessProofs ---------------------------
(***************************************************************************)
(* TypeInvariant, CleanShutdown, OneReplyPerLine and ArgumentsReadAsMeant  *)
(* of Process, for all argument lists, HTTP requests, lines on stdin and   *)
(* capacities of errCh.                                                    *)
(* The inductive invariant has two parts, for the command and for its      *)
(* server, whose steps are disjoint, and a third, ReplyInv, that rests on  *)
(* them.  LineInv, for ArgumentsReadAsMeant, needs none of these; what is  *)
(* read from an argument list is in CommandLineProofs.                     *)
(***************************************************************************)
EXTENDS Process, CommandLineProofs, SequenceTheorems, TLAPS

(* The command's part: while the server runs it waits in main "serve", and   *)
(* nothing but a result or an error is ever written.                         *)
MainInv ==
  /\ main \in {"parse", "configure", "load", "operate", "render", "serve", "over"}
  /\ config \in {"none", "flag", "default", "in-cluster"}
  /\ exit \in {"none", "success", "failure", "usage"} /\ (exit # "none" <=> main = "over")
  /\ out \in {<< >>, <<"result">>, <<"error">>}
  /\ main # "over" => out = << >>
  /\ mode = "" => (exit = "success" <=> out = <<"result">>)
  /\ mode # "" => main \in {"serve", "over"} /\ out = << >>
  /\ mode = "" <=> call = "none"

(* In which mode a call takes which steps, and what Shutdown has waited for. *)
CallInv ==
  /\ call \in {"scan", "scanned", "encode"} => mode = "mcp"
  /\ call = "select" => ~shutdown /\ mode \in {"http", "mcp-sse"}
  /\ call = "shutdown" => shutdown
  /\ shutdown => cancelled /\ mode \in {"http", "mcp-sse"}
  /\ call = "nil" /\ mode \in {"http", "mcp-sse"} => shutdown /\ \A c \in Conns : ~Running(c)

(* The listener reports "closed" only of a server that was shut down.        *)
ListenerInv ==
  /\ listener = "closed" => shutdown
  /\ \A i \in 1..Len(errCh) : errCh[i] = "closed" => shutdown

ServeInv == ServeTypeOK /\ Len(errCh) <= ErrCap /\ CallInv /\ ListenerInv

IInv == MainInv /\ ServeInv

-----------------------------------------------------------------------------
(* An option has a value.                                                    *)
LEMMA OptionIsGiven == ASSUME NEW name, NEW default, default # "" PROVE Option(name, default) # ""
BY DEF Option, Empty

LEMMA InitInv == Init => IInv
<1> SUFFICES ASSUME Init PROVE IInv
  OBVIOUS
<1>1. errCh = << >> /\ stdin = << >> /\ lines = << >> /\ stdout = << >> /\ out = << >>
  BY DEF Init, ServeInit
<1>2. ServeTypeOK
  BY <1>1, EmptySeq DEF ServeTypeOK, Handlers, Nobody, Init, ServeInit
<1>3. Len(errCh) <= ErrCap /\ 1..Len(errCh) = {}
  BY <1>1, EmptySeq, ErrCapAssumption
<1>4. CallInv /\ ListenerInv
  BY <1>3 DEF CallInv, ListenerInv, Init, ServeInit
<1>5. out # <<"result">>
  BY <1>1
<1>6. MainInv
  BY <1>1, <1>5 DEF MainInv, Init, ServeInit
<1> QED BY <1>2, <1>3, <1>4, <1>6 DEF IInv, ServeInv

(* What Append makes of an empty stdout.                                     *)
LEMMA FirstOutput == \A x : Append(<< >>, x) = <<x>>
OBVIOUS

(* The server's part, while the server does nothing.                         *)
LEMMA ServeInvStutters == ServeInv /\ UNCHANGED serveVars => ServeInv'
BY DEF ServeInv, serveVars, httpVars, stdioVars, ServeTypeOK, CallInv, ListenerInv, Running

(* The steps of the command.                                                 *)
CommandStep == ParseArguments \/ Configure \/ LoadEngine \/ Operate \/ Render

LEMMA CommandStepInv == MainInv /\ ServeInv /\ CommandStep => MainInv' /\ ServeInv'
<1> SUFFICES ASSUME MainInv, ServeInv, CommandStep PROVE MainInv' /\ ServeInv'
  OBVIOUS
<1>1. UNCHANGED serveVars
  BY DEF CommandStep, ParseArguments, Configure, LoadEngine, Operate, Render
<1>2. mode = "" /\ mode' = "" /\ call' = "none" /\ out = << >> /\ exit = "none"
  BY <1>1 DEF CommandStep, ParseArguments, Configure, LoadEngine, Operate, Render, serveVars,
              MainInv
<1> USE DEF Exit, Fails
<1> DEFINE
  GoesOn == /\ main' \in {"configure", "load", "operate", "render", "serve"}
            /\ exit' = "none" /\ out' = << >>
  Ends == /\ main' = "over"
          /\ \/ exit' \in {"failure", "usage"} /\ out' \in {<< >>, <<"error">>}
             \/ exit' = "success" /\ out' = <<"result">>
  Configured == config' \in {"none", "flag", "default", "in-cluster"}
<1>3. ParseArguments => (GoesOn \/ Ends) /\ Configured
  BY <1>2 DEF ParseArguments, MainInv
<1>4. Configure => (GoesOn \/ Ends) /\ Configured
  BY <1>2, FirstOutput DEF Configure, MainInv
<1>5. LoadEngine => (GoesOn \/ Ends) /\ Configured
  BY <1>2, FirstOutput DEF LoadEngine, Sources, MainInv
<1>6. Operate => (GoesOn \/ Ends) /\ Configured
  BY <1>2, FirstOutput DEF Operate, MainInv
<1>7. Render => (GoesOn \/ Ends) /\ Configured
  BY <1>2, FirstOutput DEF Render, MainInv
<1>8. (GoesOn \/ Ends) /\ Configured
  BY <1>3, <1>4, <1>5, <1>6, <1>7 DEF CommandStep
<1>9. <<"result">> # << >> /\ <<"error">> # <<"result">>
  OBVIOUS
<1>10. MainInv'
  BY <1>2, <1>8, <1>9 DEF MainInv
<1> QED BY <1>1, <1>10, ServeInvStutters

(* The server's steps leave the command where it is ...                      *)
LEMMA MainInvKept ==
  ASSUME MainInv, UNCHANGED <<commandVars, mode>>, call = "none" <=> call' = "none"
  PROVE  MainInv'
BY DEF MainInv, commandVars

(* ... and keep the server's part, in the HTTP servers, ...                  *)
LEMMA HTTPStepInv ==
  ASSUME ServeInv, ListenAndServe \/ HTTPClient \/ Handling
  PROVE  ServeInv'
<1> USE DEF ServeInv, ServeTypeOK, CallInv, ListenerInv, stdioVars, httpVars, Handlers
<1>1. CASE ReceiveResult
  <2>1. errCh' \in Seq({"closed", "failed"}) /\ Len(errCh') <= ErrCap
    BY <1>1, HeadTailProperties, LenProperties, ErrCapAssumption DEF ReceiveResult
  <2>2. errCh[1] # "closed" /\ call' = "error"
    BY <1>1, EmptySeq DEF ReceiveResult
  <2>3. \A i \in 1..Len(errCh') : errCh'[i] # "closed"
    BY <1>1, HeadTailProperties, LenProperties DEF ReceiveResult
  <2> QED BY <1>1, <2>1, <2>2, <2>3 DEF ReceiveResult, Running
<1>2. CASE BeginShutdown
  BY <1>2 DEF BeginShutdown, Running
<1>3. CASE EndShutdown
  BY <1>3 DEF EndShutdown, Running
<1>4. CASE ShutdownExpires
  BY <1>4 DEF ShutdownExpires, Running
<1>5. CASE Listen
  BY <1>5 DEF Listen, Running
<1>6. CASE SendResult
  BY <1>6, ErrCapAssumption, AppendProperties DEF SendResult, Running
<1>7. ASSUME NEW c \in Conns, Connect(c) \/ OpenStream(c) PROVE ServeInv'
  <2>1. (~shutdown /\ call' # "nil") \/ mode \notin {"http", "mcp-sse"}
    BY <1>7 DEF Connect, OpenStream, Accepting
  <2>2. request' \in [Conns -> Handlers]
    BY <1>7 DEF Connect, OpenStream
  <2> QED BY <1>7, <2>1, <2>2 DEF Connect, OpenStream
<1>9. ASSUME NEW c \in Conns, ClientLeaves(c) PROVE ServeInv'
  BY <1>9 DEF ClientLeaves, Running
<1>8. ASSUME NEW c \in Conns, HandlerEnds(c) \/ DispatchEnds(c) PROVE ServeInv'
  BY <1>8 DEF HandlerEnds, DispatchEnds, Running
<1> QED BY <1>1, <1>2, <1>3, <1>4, <1>5, <1>6, <1>7, <1>8, <1>9
          DEF ListenAndServe, HTTPClient, Handling

(* ... and over stdin and stdout.                                            *)
LEMMA StdioStepInv ==
  ASSUME ServeInv, Stdio \/ StdioClient \/ Cancel
  PROVE  ServeInv'
<1> USE DEF ServeInv, ServeTypeOK, CallInv, ListenerInv, httpVars, stdioVars, Running
<1>1. CASE Scan
  <2>1. lines' \in Seq(Lines) /\ stdin' \in Seq(Lines)
    <3>1. CASE stdin # << >>
      <4>1. Head(stdin) \in Lines /\ Tail(stdin) \in Seq(Lines)
        BY <3>1, HeadTailProperties
      <4>2. Append(lines, Head(stdin)) \in Seq(Lines)
        BY <4>1, AppendProperties
      <4> QED BY <1>1, <4>1, <4>2 DEF Scan
    <3>2. CASE stdin = << >>
      BY <1>1, <3>2 DEF Scan
    <3> QED BY <3>1, <3>2
  <2>2. mode = "mcp" /\ call' \in {"scanned", "error", "nil"}
    BY <1>1 DEF Scan
  <2> QED BY <1>1, <2>1, <2>2 DEF Scan
<1>2. CASE HandleLine
  BY <1>2 DEF HandleLine
<1>3. CASE Encode
  <2>1. stdout' \in Seq(Nat)
    <3>1. Len(lines) \in Nat
      BY LenProperties
    <3>2. Append(stdout, Len(lines)) \in Seq(Nat)
      BY <3>1, AppendProperties
    <3> QED BY <1>3, <3>2 DEF Encode
  <2>2. mode = "mcp" /\ call' \in {"scan", "error"}
    BY <1>3 DEF Encode
  <2> QED BY <1>3, <2>1, <2>2 DEF Encode
<1>4. ASSUME NEW k \in Lines, ClientWrites(k) PROVE ServeInv'
  BY <1>4 DEF ClientWrites
<1>5. CASE ClientCloses
  BY <1>5 DEF ClientCloses
<1>6. CASE Cancel
  BY <1>6 DEF Cancel
<1> QED BY <1>1, <1>2, <1>3, <1>4, <1>5, <1>6 DEF Stdio, StdioClient

LEMMA ServeStepKeepsMode ==
  ASSUME ServeNext, ServeInv PROVE mode' = mode /\ (call = "none" <=> call' = "none")
BY DEF ServeNext, ListenAndServe, HTTPClient, Handling, Stdio, StdioClient, Cancel, ReceiveResult,
       BeginShutdown, EndShutdown, ShutdownExpires, Listen, SendResult, Connect, OpenStream,
       ClientLeaves, HandlerEnds, DispatchEnds, Scan, HandleLine, Encode, ClientWrites,
       ClientCloses, ServeInv, ServeTypeOK

LEMMA ServeStepInv == MainInv /\ ServeInv /\ (Serving \/ Embedding) => MainInv' /\ ServeInv'
<1> SUFFICES ASSUME MainInv, ServeInv, ServeNext, UNCHANGED commandVars
    PROVE  MainInv' /\ ServeInv'
  BY DEF Serving, Embedding, ServeNext
<1> QED BY HTTPStepInv, StdioStepInv, ServeStepKeepsMode, MainInvKept DEF ServeNext

(* The call begins, and the process ends with it.                            *)
LEMMA CallStepInv == MainInv /\ ServeInv /\ (BeginServe \/ EndServe) => MainInv' /\ ServeInv'
<1> SUFFICES ASSUME MainInv, ServeInv, BeginServe \/ EndServe PROVE MainInv' /\ ServeInv'
  OBVIOUS
<1>1. CASE BeginServe
  <2>1. Option("mode", "http") # ""
    BY OptionIsGiven
  <2>2. MainInv'
    BY <1>1, <2>1 DEF BeginServe, Begin, commandVars, MainInv
  <2>3. ServeInv'
    BY <1>1 DEF BeginServe, Begin, MainInv, ServeInv, ServeTypeOK, CallInv,
                ListenerInv, httpVars, stdioVars, Running
  <2> QED BY <2>2, <2>3
<1>2. CASE EndServe
  <2>1. MainInv'
    BY <1>2 DEF EndServe, Exit, Returned, MainInv, serveVars
  <2> QED BY <1>2, <2>1, ServeInvStutters DEF EndServe
<1> QED BY <1>1, <1>2

THEOREM Invariance == Spec => []IInv
<1>1. IInv /\ [Next]_vars => IInv'
  <2> SUFFICES ASSUME MainInv, ServeInv, [Next]_vars PROVE MainInv' /\ ServeInv'
    BY DEF IInv
  <2>1. CASE UNCHANGED vars
    <3>1. UNCHANGED serveVars /\ UNCHANGED <<commandVars, mode, call>>
      BY <2>1 DEF vars, serveVars, commandVars
    <3> QED BY <3>1, ServeInvStutters, MainInvKept
  <2> QED BY <2>1, CommandStepInv, CallStepInv, ServeStepInv DEF Next, CommandStep
<1> QED BY InitInv, <1>1, PTL DEF Spec

-----------------------------------------------------------------------------
(* The exit status tells what is on stdout, and errCh holds what it can.     *)
THEOREM TypeCorrect == Spec => []TypeInvariant
<1>1. IInv => TypeInvariant BY DEF IInv, MainInv, ServeInv, TypeInvariant
<1> QED BY <1>1, Invariance, PTL

(* ListenAndServe of either HTTP server returns nil only when it was         *)
(* cancelled and every handler is over.                                      *)
THEOREM NobodyLeftUnanswered == Spec => []CleanShutdown
<1>1. IInv => CleanShutdown
  BY DEF IInv, ServeInv, CallInv, CleanShutdown, Accepting
<1> QED BY <1>1, Invariance, PTL

-----------------------------------------------------------------------------
(* OneReplyPerLine.  Between two lines all that is owed has been answered;   *)
(* while a line is handled all but it.                                       *)

AllReplied == Range(stdout) = Owed
LastDue == Range(stdout) = Owed \ {Len(lines)}
InOrder == \A m, n \in DOMAIN stdout : m < n => stdout[m] < stdout[n]

ReplyInv ==
  /\ InOrder
  /\ call \in {"scanned", "encode"} => lines # << >> /\ LastDue
  /\ call = "encode" => Len(lines) \in Owed
  /\ call = "error" => AllReplied \/ (Len(lines) \in Owed /\ LastDue)
  /\ call \notin {"scanned", "encode", "error"} => AllReplied
  /\ call = "nil" /\ mode = "mcp" => eof /\ stdin = << >>

(* A step that touches neither stdin nor stdout ends no stdio call well.     *)
LEMMA ReplyInvKept ==
  ASSUME ReplyInv, UNCHANGED stdioVars,
         \/ call' = call /\ mode' = mode
         \/ /\ call \notin {"scanned", "encode"} /\ call' \notin {"scanned", "encode"}
            /\ call = "error" => call' = "error"
            /\ call' = "nil" => mode' # "mcp"
  PROVE  ReplyInv'
<1>1. /\ InOrder' = InOrder /\ AllReplied' = AllReplied /\ LastDue' = LastDue
      /\ Owed' = Owed /\ lines' = lines /\ eof' = eof /\ stdin' = stdin
  BY DEF stdioVars, InOrder, AllReplied, LastDue, Owed
<1> QED
  BY <1>1 DEF ReplyInv

(* One more line: what is owed is what was, and it if it needs a reply.      *)
LEMMA LineScanned ==
  ASSUME ServeTypeOK, NEW k \in Lines, lines' = Append(lines, k)
  PROVE  /\ lines' # << >> /\ Owed' \ {Len(lines')} = Owed
         /\ Len(lines') \in Owed' <=> Last(lines') \in Replied
<1>1. /\ lines \in Seq(Lines) /\ Len(lines) \in Nat
      /\ DOMAIN lines = 1..Len(lines) /\ DOMAIN lines' = 1..(Len(lines) + 1)
      /\ Len(lines') = Len(lines) + 1 /\ lines' # << >>
      /\ \A i \in 1..Len(lines) : lines'[i] = lines[i]
  <2>1. lines \in Seq(Lines) /\ Len(lines) \in Nat /\ DOMAIN lines = 1..Len(lines)
    BY LenProperties DEF ServeTypeOK
  <2>2. /\ lines' \in Seq(Lines) /\ lines' # << >> /\ Len(lines') = Len(lines) + 1
        /\ \A i \in 1..Len(lines) : lines'[i] = lines[i]
    BY <2>1, AppendProperties
  <2>3. DOMAIN lines' = 1..(Len(lines) + 1)
    BY <2>2, LenProperties
  <2> QED
    BY <2>1, <2>2, <2>3
<1>2. Len(lines') \notin DOMAIN lines /\ Len(lines') \in DOMAIN lines'
  BY <1>1
<1> QED
  BY <1>1, <1>2 DEF Owed, Last

(* The last line's number comes after all those answered before it.          *)
LEMMA LineAnswered ==
  ASSUME ServeTypeOK, InOrder, LastDue, Len(lines) \in Owed,
         stdout' = Append(stdout, Len(lines)), UNCHANGED lines
  PROVE  InOrder' /\ AllReplied'
<1>1. /\ stdout \in Seq(Nat) /\ Len(stdout) \in Nat /\ DOMAIN stdout = 1..Len(stdout)
      /\ DOMAIN stdout' = 1..(Len(stdout) + 1)
      /\ stdout'[Len(stdout) + 1] = Len(lines)
      /\ \A i \in 1..Len(stdout) : stdout'[i] = stdout[i]
      /\ lines \in Seq(Lines) /\ Len(lines) \in Nat /\ DOMAIN lines = 1..Len(lines)
  BY DEF ServeTypeOK
<1>2. \A i \in 1..Len(stdout) : stdout[i] \in Nat /\ stdout[i] < Len(lines)
  <2> TAKE i \in 1..Len(stdout)
  <2>1. stdout[i] \in Range(stdout)
    BY <1>1 DEF Range
  <2>2. stdout[i] \in 1..Len(lines) /\ stdout[i] # Len(lines)
    BY <2>1, <1>1 DEF LastDue, Owed
  <2> QED
    BY <2>2, <1>1
<1>3. InOrder'
  <2> SUFFICES ASSUME NEW m \in DOMAIN stdout', NEW n \in DOMAIN stdout', m < n
               PROVE  stdout'[m] < stdout'[n]
    BY DEF InOrder
  <2>1. m \in 1..Len(stdout)
    BY <1>1
  <2>2. CASE n = Len(stdout) + 1
    BY <2>1, <2>2, <1>1, <1>2
  <2>3. CASE n # Len(stdout) + 1
    <3>1. n \in 1..Len(stdout)
      BY <2>3, <1>1
    <3> QED
      BY <2>1, <3>1, <1>1 DEF InOrder
  <2> QED
    BY <2>2, <2>3
<1>4. Range(stdout') = Range(stdout) \cup {Len(lines)}
  BY <1>1 DEF Range
<1>5. Owed' = Owed
  BY DEF Owed
<1> QED
  BY <1>3, <1>4, <1>5 DEF LastDue, AllReplied

LEMMA InitReplyInv == Init => ReplyInv
<1> SUFFICES ASSUME Init PROVE ReplyInv
  OBVIOUS
<1>1. stdout = << >> /\ lines = << >> /\ call = "none"
  BY DEF Init, ServeInit
<1>2. DOMAIN stdout = {} /\ DOMAIN lines = {}
  BY <1>1
<1>3. InOrder /\ AllReplied
  BY <1>2 DEF InOrder, AllReplied, Owed, Range
<1> QED
  BY <1>1, <1>3 DEF ReplyInv

LEMMA StdioReplyInv ==
  ASSUME ServeInv, ReplyInv, Stdio \/ StdioClient \/ Cancel
  PROVE  ReplyInv'
<1>1. ServeTypeOK
  BY DEF ServeInv
<1>2. CASE Scan /\ call' = "scanned"
  <2>1. Head(stdin) \in Lines /\ lines' = Append(lines, Head(stdin)) /\ stdout' = stdout
        /\ AllReplied /\ InOrder
    BY <1>1, <1>2, HeadTailProperties DEF Scan, ServeTypeOK, ReplyInv
  <2>2. lines' # << >> /\ Owed' \ {Len(lines')} = Owed
    BY <1>1, <2>1, LineScanned
  <2>3. LastDue' /\ InOrder'
    BY <2>1, <2>2 DEF LastDue, AllReplied, InOrder
  <2> QED
    BY <1>2, <2>2, <2>3 DEF ReplyInv
<1>3. CASE Scan /\ call' # "scanned"
  <2>1. /\ call = "scan" /\ UNCHANGED stdioVars /\ call' \in {"error", "nil"}
        /\ call' = "nil" => eof /\ stdin = << >>
    BY <1>3 DEF Scan, stdioVars
  <2>2. /\ InOrder' /\ AllReplied'
    BY <2>1 DEF ReplyInv, InOrder, AllReplied, Owed, stdioVars
  <2> QED
    BY <2>1, <2>2 DEF ReplyInv, stdioVars
<1>4. CASE HandleLine
  <2>1. /\ call = "scanned" /\ UNCHANGED stdioVars /\ call' \in {"error", "scan", "encode"}
        /\ call' = "encode" => Last(lines) \in Replied
        /\ call' = "scan" => Last(lines) \notin Replied
    BY <1>4 DEF HandleLine
  <2>2. lines # << >> /\ LastDue /\ InOrder
    BY <2>1 DEF ReplyInv
  <2>3. Len(lines) \in DOMAIN lines
    BY <2>2, <1>1 DEF ServeTypeOK
  <2>4. Len(lines) \in Owed <=> Last(lines) \in Replied
    BY <2>3 DEF Owed, Last
  <2>5. Len(lines) \notin Owed => AllReplied
    BY <2>2 DEF LastDue, AllReplied
  <2>6. /\ InOrder' = InOrder /\ AllReplied' = AllReplied /\ LastDue' = LastDue
        /\ Owed' = Owed /\ lines' = lines
    BY <2>1 DEF stdioVars, InOrder, AllReplied, LastDue, Owed
  <2> QED
    BY <2>1, <2>2, <2>4, <2>5, <2>6 DEF ReplyInv
<1>5. CASE Encode /\ call' = "scan"
  <2>1. /\ InOrder /\ LastDue /\ Len(lines) \in Owed
        /\ stdout' = Append(stdout, Len(lines)) /\ UNCHANGED lines
    BY <1>5 DEF Encode, ReplyInv
  <2>2. InOrder' /\ AllReplied'
    BY <1>1, <2>1, LineAnswered
  <2> QED
    BY <1>5, <2>2 DEF ReplyInv
<1>6. CASE Encode /\ call' # "scan"
  <2>1. call = "encode" /\ call' = "error" /\ UNCHANGED stdioVars
    BY <1>6 DEF Encode, stdioVars
  <2>2. InOrder' /\ LastDue' /\ Len(lines') \in Owed'
    BY <2>1 DEF ReplyInv, InOrder, LastDue, Owed, stdioVars
  <2> QED
    BY <2>1, <2>2 DEF ReplyInv
<1>7. CASE StdioClient
  <2>1. /\ call' = call /\ mode' = mode /\ UNCHANGED <<lines, stdout>>
        /\ ~eof
    BY <1>7 DEF StdioClient, ClientWrites, ClientCloses
  <2>2. /\ InOrder' = InOrder /\ AllReplied' = AllReplied /\ LastDue' = LastDue
        /\ Owed' = Owed /\ lines' = lines
    BY <2>1 DEF InOrder, AllReplied, LastDue, Owed
  <2> QED
    BY <2>1, <2>2 DEF ReplyInv
<1>8. CASE Cancel
  <2>1. UNCHANGED stdioVars /\ call' = call /\ mode' = mode
    BY <1>8 DEF Cancel
  <2> QED
    BY <2>1, ReplyInvKept
<1> QED
  BY <1>2, <1>3, <1>4, <1>5, <1>6, <1>7, <1>8 DEF Stdio

LEMMA HTTPReplyInv ==
  ASSUME ServeInv, ReplyInv, ListenAndServe \/ HTTPClient \/ Handling
  PROVE  ReplyInv'
<1>1. UNCHANGED stdioVars /\ mode' = mode
  BY DEF ListenAndServe, HTTPClient, Handling, ReceiveResult, BeginShutdown, EndShutdown,
         ShutdownExpires, Listen, SendResult, Connect, OpenStream, ClientLeaves, HandlerEnds,
         DispatchEnds
<1>2. \/ call' = call
      \/ call = "select" /\ call' \in {"nil", "error", "shutdown"} /\ mode # "mcp"
      \/ call = "shutdown" /\ call' \in {"nil", "error"} /\ mode # "mcp"
  BY DEF ListenAndServe, HTTPClient, Handling, ReceiveResult, BeginShutdown, EndShutdown,
         ShutdownExpires, Listen, SendResult, Connect, OpenStream, ClientLeaves, HandlerEnds,
         DispatchEnds, ServeInv, CallInv
<1> QED
  BY <1>1, <1>2, ReplyInvKept

(* ReplyInv is invariant of the process: the command writes elsewhere.       *)
LEMMA NextReplyInv == IInv /\ ReplyInv /\ [Next]_vars => ReplyInv'
<1> SUFFICES ASSUME MainInv, ServeInv, ReplyInv, [Next]_vars PROVE ReplyInv'
  BY DEF IInv
<1>1. CASE UNCHANGED serveVars
  <2>1. UNCHANGED stdioVars /\ call' = call /\ mode' = mode
    BY <1>1 DEF serveVars
  <2> QED
    BY <2>1, ReplyInvKept
<1>2. CASE CommandStep \/ EndServe \/ UNCHANGED vars
  <2>1. UNCHANGED serveVars
    BY <1>2 DEF CommandStep, ParseArguments, Configure, LoadEngine, Operate, Render, EndServe, vars
  <2> QED
    BY <1>1, <2>1
<1>3. CASE BeginServe
  <2>1. UNCHANGED stdioVars /\ call = "none" /\ call' \in {"scan", "select", "error"}
    BY <1>3 DEF BeginServe, Begin
  <2> QED
    BY <2>1, ReplyInvKept
<1>4. CASE Serving \/ Embedding
  BY <1>4, StdioReplyInv, HTTPReplyInv DEF Serving, Embedding, ServeNext
<1> QED
  BY <1>2, <1>3, <1>4 DEF Next, CommandStep

(* A client on stdin gets one reply for each line that needs one, in order,  *)
(* and all of them if the server's call returns without an error.            *)
THEOREM EveryLineReplied == Spec => []OneReplyPerLine
<1>1. IInv /\ ReplyInv => OneReplyPerLine
  BY DEF ReplyInv, OneReplyPerLine, InOrder, AllReplied, LastDue
<1>2. Spec => []ReplyInv
  BY InitReplyInv, NextReplyInv, Invariance, PTL DEF Spec
<1> QED
  BY <1>1, <1>2, Invariance, PTL

-----------------------------------------------------------------------------
(* ArgumentsReadAsMeant.  What was read stays what the arguments say, and    *)
(* whoever gave a cluster gets no other.                                     *)

LineInv ==
  /\ args \in Seq(Argument)
  /\ IF main = "parse" THEN config = "none" ELSE line = Read(args)
  /\ config \in {"none", "flag"} \/ ~Given

LEMMA InitLineInv == Init => LineInv
BY ArgumentsAssumption DEF Init, LineInv

LEMMA NextLineInv == LineInv /\ [Next]_vars => LineInv'
<1> SUFFICES ASSUME LineInv, [Next]_vars PROVE LineInv'
  OBVIOUS
<1> USE DEF Exit, Fails
<1>1. CASE ParseArguments
  BY <1>1 DEF ParseArguments, LineInv
<1>2. CASE LoadEngine
  <2>1. args' = args /\ line' = line /\ main # "parse" /\ main' # "parse"
    BY <1>2 DEF LoadEngine
  <2>2. Given' <=> Given
    BY <2>1 DEF Given
  <2>3. config' \in Sources \/ config' = config
    BY <1>2 DEF LoadEngine
  <2> QED
    BY <2>1, <2>2, <2>3 DEF LineInv, Sources
<1>3. ASSUME UNCHANGED <<args, line, config>>, main' # main => main # "parse" /\ main' # "parse"
      PROVE  LineInv'
  BY <1>3 DEF LineInv, Given
<1>4. CASE Configure \/ Operate \/ Render \/ EndServe
  BY <1>3, <1>4 DEF Configure, Operate, Render, EndServe
<1>5. CASE BeginServe \/ Serving \/ Embedding \/ UNCHANGED vars
  BY <1>3, <1>5 DEF BeginServe, Serving, Embedding, commandVars, vars
<1> QED
  BY <1>1, <1>2, <1>4, <1>5 DEF Next

(* A cluster that was named is one that was given.                           *)
LEMMA NamedIsGiven ==
  ASSUME ReadsAsMeant(args, line), FlagsGiven(args, "kubeconfig") # {},
         Value(args, "kubeconfig").value # Empty
  PROVE  Given
<1> DEFINE given == {args[i].flag : i \in {i \in DOMAIN args : ~Taken(args)[i]}} \ {Empty}
<1>1. /\ DOMAIN line.globals = given \cap Globals
      /\ \A f \in given :
           Value(args, f) = IF f \in Globals THEN line.globals[f] ELSE line.flags[f]
  BY DEF ReadsAsMeant
<1>2. "kubeconfig" \in Globals /\ "kubeconfig" # Empty
  BY GlobalNames DEF Globals
<1>3. "kubeconfig" \in given
  BY <1>2 DEF FlagsGiven
<1> HIDE DEF given
<1> QED
  BY <1>1, <1>2, <1>3 DEF Given

(* Wherever the flags stand, kctx does what the user's arguments mean, on    *)
(* the cluster the user named.                                               *)
THEOREM ReadAsMeant == Spec => []ArgumentsReadAsMeant
<1>1. LineInv => ArgumentsReadAsMeant
  <2> SUFFICES ASSUME LineInv, WellFormed(args), main # "parse"
               PROVE  /\ ReadsAsMeant(args, line)
                      /\ FlagsGiven(args, "kubeconfig") # {}
                           /\ Value(args, "kubeconfig").value # Empty =>
                                config \in {"none", "flag"}
    BY DEF ArgumentsReadAsMeant
  <2>1. args \in Seq(Argument) /\ line = Read(args)
    BY DEF LineInv
  <2>2. ReadsAsMeant(args, line)
    BY <2>1, WellFormedReadAsMeant
  <2> QED
    BY <2>2, NamedIsGiven DEF LineInv
<1> QED
  BY <1>1, InitLineInv, NextLineInv, PTL DEF Spec

=============================================================================
