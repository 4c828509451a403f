----------------------------- MODULE CommandLine ----------------------------
(***************************************************************************)
(* How kctx reads its command line (main.go, internal/cmd/flags.go): flags *)
(* may stand anywhere, but the flag package stops at the first argument    *)
(* that is none, so NormalizeArgs moves them: global flags first, then the *)
(* command, its flags and its words.  It has to know which flags a command *)
(* has and which take a value.                                             *)
(*                                                                         *)
(* An argument is a record: --name=v has the flag "name" and the value v,  *)
(* --name has the value None, a word has no flag.                          *)
(***************************************************************************)
EXTENDS Naturals, SequencesExt

CONSTANTS
  None,      (* no value *)
  Numbers    (* the values an Int of the flag package can have, as texts *)

(* The empty string: the flag of a word, the value of --name=.               *)
Empty == ""

ASSUME NoneAssumption == None # Empty
ASSUME NumbersAssumption == Numbers \subseteq STRING /\ Empty \notin Numbers

(* What strconv.ParseBool takes.                                             *)
Booleans == {"1", "t", "T", "true", "TRUE", "True", "0", "f", "F", "false", "FALSE", "False"}

Argument == [flag : STRING, value : STRING \cup {None}]

Flag(name) == [flag |-> name, value |-> None]
FlagWith(name, v) == [flag |-> name, value |-> v]
Word(w) == [flag |-> Empty, value |-> w]

Globals == {"kubeconfig"}

(* --kubeconfig= without a value is not recognised.                          *)
IsGlobalFlag(a) == a.flag = "kubeconfig" /\ a.value # Empty

KnownFlags(command) ==
  CASE command \in {Word("explain"), Word("trace")} -> {"namespace"}
    [] command = Word("graph") -> {"namespace", "render"}
    [] command = Word("serve") ->
         {"listen", "mode", "request-timeout", "kube-api-budget", "verbose"}
    [] OTHER -> {}

(* Taking --verbose for a flag with a value.                                 *)
IsBoolFlagNever(command, name) == FALSE
IsBoolFlag(command, name) == command = Word("serve") /\ name = "verbose"

(* One argument of the loops in NormalizeArgs: the value of an open flag     *)
(* stays with it.                                                            *)
SplitStep(acc, a, moved, open) ==
  IF acc.open THEN [acc EXCEPT !.moved = Append(@, a), !.open = FALSE]
  ELSE IF a \in moved THEN [acc EXCEPT !.moved = Append(@, a), !.open = a \in open]
  ELSE [acc EXCEPT !.others = Append(@, a)]

(* The arguments to move, each with the argument after it if it is open, and *)
(* the others.                                                               *)
Split(args, moved, open) ==
  LET after[n \in 0..Len(args)] ==
        IF n = 0 THEN [moved |-> << >>, others |-> << >>, open |-> FALSE]
        ELSE SplitStep(after[n - 1], args[n], moved, open)
  IN after[Len(args)]

(* The command and what follows it, with its flags first.                    *)
NormalizeCommand(args) ==
  LET command == Head(args)
      flags == {a \in ToSet(Tail(args)) : a.flag \in KnownFlags(command)}
      own == Split(Tail(args), flags,
                   {a \in flags : a.value = None /\ ~IsBoolFlag(command, a.flag)})
  IN <<command>> \o own.moved \o own.others

NormalizeArgs(args) ==
  LET flags == {a \in ToSet(args) : IsGlobalFlag(a)}
      top == Split(args, flags, {a \in flags : a.value = None}) IN
  top.moved \o IF top.others = << >> THEN << >> ELSE NormalizeCommand(top.others)

(* What the parser expects next, the flag that has no value yet, what it has *)
(* read of the flags, and what is left.                                      *)
Reader(at, name, flags, rest) == [at |-> at, name |-> name, flags |-> flags, rest |-> rest]

(* It has read that flag name is v.                                          *)
With(flags, name, v) ==
  [f \in DOMAIN flags \cup {name} |-> IF f = name THEN v ELSE flags[f]]

(* Can the flag have argument w for its value?  One flag is a Bool and one   *)
(* an Int; the others are Strings, and take what comes.                      *)
Converts(name, w) ==
  /\ name = "verbose" => w.flag = Empty /\ w.value \in Booleans
  /\ name = "kube-api-budget" => w.flag = Empty /\ w.value \in Numbers

Give(acc, name, v) ==
  IF Converts(name, v) THEN Reader("flags", Empty, With(acc.flags, name, v), acc.rest)
  ELSE [acc EXCEPT !.at = "error"]

(* One argument of flag.FlagSet.Parse.                                       *)
ParseStep(acc, a, known, bools) ==
  CASE acc.at = "value" -> Give(acc, acc.name, a)
    [] acc.at = "flags" /\ a.flag \in known /\ a.value # None -> Give(acc, a.flag, Word(a.value))
    [] acc.at = "flags" /\ a.flag \in known \cap bools /\ a.value = None ->
         Give(acc, a.flag, Word("true"))
    [] acc.at = "flags" /\ a.flag \in known \ bools /\ a.value = None ->
         Reader("value", a.flag, acc.flags, acc.rest)
    [] acc.at = "flags" /\ a.flag \notin known \cup {Empty} -> [acc EXCEPT !.at = "error"]
    [] acc.at = "flags" /\ a.flag = Empty -> Reader("rest", Empty, acc.flags, <<a>>)
    [] acc.at = "rest" -> Reader("rest", Empty, acc.flags, Append(acc.rest, a))
    [] acc.at = "error" -> acc

(* flag.FlagSet.Parse, with the flags it knows and those that are Booleans:  *)
(* the value of each flag given, and what it leaves.                         *)
Parse(args, known, bools) ==
  LET after[n \in 0..Len(args)] ==
        IF n = 0 THEN Reader("flags", Empty, << >>, << >>)
        ELSE ParseStep(after[n - 1], args[n], known, bools)
      all == after[Len(args)]
  IN [ok |-> all.at \in {"flags", "rest"}, flags |-> all.flags, rest |-> all.rest]

(* What the tool makes of what main leaves: the command, and its flags and   *)
(* words.                                                                    *)
ReadCommand(top) ==
  LET own == Parse(Tail(top.rest), KnownFlags(Head(top.rest)), {"verbose"}) IN
  [ok |-> own.ok, command |-> Head(top.rest), globals |-> top.flags, flags |-> own.flags,
   words |-> own.rest]

Read(args) ==
  LET top == Parse(NormalizeArgs(args), Globals, {}) IN
  IF top.ok /\ top.rest # << >> THEN ReadCommand(top) ELSE [ok |-> FALSE]

-----------------------------------------------------------------------------
(* What an argument list means, wherever its flags stand.                    *)

TakesNext(a) == a.flag # Empty /\ a.value = None /\ a.flag # "verbose"

(* Is argument i the value of the one before?                                *)
Taken(args) ==
  LET taken[i \in 1..Len(args)] == i > 1 /\ ~taken[i - 1] /\ TakesNext(args[i - 1]) IN taken

Words(args) ==
  {i \in DOMAIN args : ~Taken(args)[i] /\ args[i].flag = Empty}
FlagsGiven(args, name) ==
  {i \in DOMAIN args : ~Taken(args)[i] /\ args[i].flag = name}

Meant(args) == args[CHOOSE i \in Words(args) : \A j \in Words(args) : i <= j]

(* The value the flag at i has.                                              *)
ValueAt(args, i) ==
  IF args[i].value # None THEN Word(args[i].value)
  ELSE IF TakesNext(args[i]) THEN args[i + 1] ELSE Word("true")

(* Every flag is one the command has, and has a value, which is no flag and  *)
(* is one the flag can have; none of the command's stands before it.         *)
WellFormed(args) ==
  /\ Words(args) # {}
  /\ \A i \in DOMAIN args : Taken(args)[i] => args[i].flag = Empty
  /\ ~TakesNext(Last(args)) \/ Taken(args)[Len(args)]
  /\ \A i \in DOMAIN args :
       ~Taken(args)[i] /\ args[i].flag # Empty => Converts(args[i].flag, ValueAt(args, i))
  /\ \A i \in DOMAIN args :
       ~Taken(args)[i] /\ args[i].flag # Empty =>
         \/ args[i].flag \in Globals /\ args[i].value # Empty
         \/ args[i].flag \in KnownFlags(Meant(args)) /\ \E j \in Words(args) : j < i

(* The value of the last flag of a name.                                     *)
Value(args, name) ==
  ValueAt(args, CHOOSE i \in FlagsGiven(args, name) : \A j \in FlagsGiven(args, name) : j <= i)

(* s has the arguments at the places I, in their order.                      *)
Lists(s, args, I) ==
  \E at \in [DOMAIN s -> I] :
    /\ \A j, k \in DOMAIN s : j < k => at[j] < at[k]
    /\ \A i \in I : \E k \in DOMAIN s : at[k] = i
    /\ \A k \in DOMAIN s : s[k] = args[at[k]]

(* r, read from args, is what was meant: the command, its words in their     *)
(* order, and just the flags that were given, each with its own last value.  *)
ReadsAsMeant(args, r) ==
  LET given == {args[i].flag : i \in {i \in DOMAIN args : ~Taken(args)[i]}} \ {Empty}
  IN /\ r.ok
     /\ Lists(<<r.command>> \o r.words, args, Words(args))
     /\ DOMAIN r.globals = given \cap Globals /\ DOMAIN r.flags = given \ Globals
     /\ \A f \in given : Value(args, f) = IF f \in Globals THEN r.globals[f] ELSE r.flags[f]

=============================================================================
