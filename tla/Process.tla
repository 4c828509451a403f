------------------------------- MODULE Process ------------------------------
(***************************************************************************)
(* One run of kctx, from its arguments to its exit status: main.go,        *)
(* internal/cmd/env.go and the commands of internal/cmd.  CommandLine says *)
(* how the arguments are read and Serve what the serve command does then;  *)
(* the engine's operations, which are in EngineRequest, are abstract here. *)
(***************************************************************************)
EXTENDS CommandLine, Serve

CONSTANTS
  Arguments,   (* the argument lists with which kctx is called               *)
  Invalid      (* renderers, durations and negative numbers that configure    *)
               (* refuses; an Int that is no number never gets so far         *)

ASSUME ArgumentsAssumption == Arguments \subseteq Seq(Argument)

VARIABLES
  args,     (* the arguments                                                 *)
  line,     (* what was read from them                                       *)
  main,     (* where the command stands                                      *)
  config,   (* where the cluster's configuration came from                   *)
  out,      (* what a command other than serve has written to stdout         *)
  exit      (* the exit status                                               *)

commandVars == <<args, line, main, config, out, exit>>
vars == <<args, line, main, config, out, exit, serveVars>>

Command == line.command.value
Asking == {"explain", "graph", "trace", "health", "dump"}

Init ==
  /\ args \in Arguments /\ line = None
  /\ main = "parse" /\ config = "none" /\ out = << >> /\ exit = "none"
  /\ ServeInit

Exit(status) == main' = "over" /\ exit' = status

(* Env.FailJSON of the commands that ask, Env.Fail of serve: an envelope on  *)
(* stdout, if it can be written, and a failure.                              *)
Fails ==
  /\ Exit("failure")
  /\ \/ UNCHANGED out
     \/ Command # "serve" /\ out' = Append(out, "error")

(* main, and the tool that finds the command; a usage error otherwise.       *)
ParseArguments ==
  /\ main = "parse"
  /\ line' = Read(args)
  /\ IF line'.ok /\ line'.command \in {Word(c) : c \in Asking \cup {"serve"}}
     THEN main' = "configure" /\ UNCHANGED exit
     ELSE Exit("usage")
  /\ UNCHANGED <<args, config, out, serveVars>>

(* ValueFromVisitedFlag: the default is for a flag that is empty, too.       *)
Option(name, default) ==
  IF name \in DOMAIN line.flags /\ line.flags[name].value # Empty THEN line.flags[name].value
  ELSE default

(* What configure demands of the words and flags of each command: a word     *)
(* that is empty or looks like a flag is none.                               *)
Accepts ==
  LET words == line.words
      isWord(a) == a.flag = Empty /\ a.value # Empty
      twoWords == Len(words) = 2 /\ \A i \in DOMAIN words : isWord(words[i])
      names(kind) == Len(words) = 2 /\ words[1] = Word(kind) /\ isWord(words[2])
  IN CASE Command = "explain" -> twoWords
       [] Command = "graph" -> twoWords /\ Option("render", Empty) \notin Invalid
       [] Command = "trace" -> names("service")
       [] Command \in {"health", "dump"} -> names("namespace")
       [] Command = "serve" ->
            words = << >> /\ Option("request-timeout", "30s") \notin Invalid
                          /\ Option("kube-api-budget", "100") \notin Invalid

Configure ==
  /\ main = "configure"
  /\ IF Accepts THEN main' = "load" /\ UNCHANGED <<out, exit>> ELSE Fails
  /\ UNCHANGED <<args, line, config, serveVars>>

(* The sources NewEngine tries: serve looks for the cluster it runs in       *)
(* before the default, and goes on only if it runs in none.  An empty        *)
(* --kubeconfig is none.                                                     *)
Given == "kubeconfig" \in DOMAIN line.globals /\ line.globals["kubeconfig"].value # Empty
Sources == IF Given THEN {"flag"} ELSE {"default"} \cup {s \in {"in-cluster"} : Command = "serve"}

LoadEngine ==
  /\ main = "load"
  /\ \/ /\ \E s \in Sources : config' = s
        /\ main' = IF Command = "serve" THEN "serve" ELSE "operate"
        /\ UNCHANGED <<out, exit>>
     \/ Fails /\ UNCHANGED config
  /\ UNCHANGED <<args, line, serveVars>>

(* The operation ends, with a result or without.                             *)
Operate ==
  /\ main = "operate"
  /\ \/ main' = "render" /\ UNCHANGED <<out, exit>>
     \/ Fails
  /\ UNCHANGED <<args, line, config, serveVars>>

(* A variant that does not look at the error of rendering.                   *)
RenderUnchecked ==
  /\ main = "render"
  /\ \/ out' = Append(out, "result") /\ Exit("success")
     \/ UNCHANGED out /\ Exit("success")
  /\ UNCHANGED <<args, line, config, serveVars>>

(* The result is written, or stdout does not take it.                        *)
Render ==
  /\ main = "render"
  /\ \/ out' = Append(out, "result") /\ Exit("success")
     \/ Fails
  /\ UNCHANGED <<args, line, config, serveVars>>

BeginServe ==
  /\ main = "serve"
  /\ Begin(Option("mode", "http"))
  /\ UNCHANGED commandVars

(* The process ends once the server's call has returned; a program that      *)
(* embeds the call goes on, and so do its goroutines.                        *)
EndServe ==
  /\ main = "serve" /\ Returned
  /\ Exit(IF call = "nil" THEN "success" ELSE "failure")
  /\ UNCHANGED <<args, line, config, out, serveVars>>

Serving == main = "serve" /\ ServeNext /\ UNCHANGED commandVars
Embedding == main = "over" /\ (ListenAndServe \/ Handling) /\ UNCHANGED commandVars

Next ==
  ParseArguments \/ Configure \/ LoadEngine \/ Operate \/ Render
    \/ BeginServe \/ EndServe \/ Serving \/ Embedding

Spec == Init /\ [][Next]_vars
FairSpec == Spec /\ ServeFairness

-----------------------------------------------------------------------------
(* Properties.                                                               *)

(* States have their types.  A script can trust the exit status of a command *)
(* that asks: success means a whole result and nothing else on stdout, any   *)
(* other no whole result.                                                    *)
TypeInvariant ==
  /\ ServeTypeOK /\ Len(errCh) <= ErrCap
  /\ main \in {"parse", "configure", "load", "operate", "render", "serve", "over"}
  /\ config \in {"none", "flag", "default", "in-cluster"}
  /\ exit \in {"none", "success", "failure", "usage"} /\ (exit # "none" <=> main = "over")
  /\ out \in {<< >>, <<"result">>, <<"error">>}
  /\ mode = "" => (exit = "success" <=> out = <<"result">>)

(* NormalizeArgs and the two parsers find the command, the words and the     *)
(* flags a user meant, wherever the flags stand among the arguments; a user  *)
(* who names a cluster, by a value that is not empty, gets that one, of      *)
(* serve, too, which prefers the cluster it runs in to the default.          *)
ArgumentsReadAsMeant ==
  WellFormed(args) /\ main # "parse" =>
    /\ ReadsAsMeant(args, line)
    /\ FlagsGiven(args, "kubeconfig") # {} /\ Value(args, "kubeconfig").value # Empty =>
         config \in {"none", "flag"}

=============================================================================
