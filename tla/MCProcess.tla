----------------------------- MODULE MCProcess ------------------------------
(* Process for TLC: what a user may type, with the flags at any place.       *)
EXTENDS Process

(* Some of these, in any order.                                              *)
Mixed(parts) == {FlattenSeq(s) : s \in SetToAllKPermutations(parts)}

Asks ==
  Mixed({<<Word("explain")>>, <<Word("service")>>, <<Word("x")>>,
         <<Flag("kubeconfig"), Word("f")>>, <<FlagWith("kubeconfig", "g")>>,
         <<Flag("namespace"), Word("n")>>})

Serves ==
  Mixed({<<Word("serve")>>, <<Flag("verbose")>>,
         <<Flag("mode"), Word("mcp")>>, <<FlagWith("mode", "mcp-sse")>>})

(* What is well typed, and what is not.                                      *)
Others ==
  {<<Word(c)>> \o a : c \in Asking,
     a \in SeqOf({FlagWith("render", "dot"), FlagWith("render", "svg"), Word("namespace"),
                  Word("service"), Word("x"), FlagWith("namespace", "n")}, 2)}
  \cup {<<Word("health"), Word("namespace"), Word("x"), Flag("kubeconfig"), Word("")>>}
  \cup {<<Word(c), Word(k), Word("")>> :
          c \in Asking, k \in {Empty, "namespace", "service"}}
  \cup {<<Word("serve"), a>> :
          a \in {FlagWith("mode", "grpc"), FlagWith("request-timeout", "-1s"),
                FlagWith("request-timeout", Empty), FlagWith("kubeconfig", "f"), Word("x")}}
  \cup SeqOf({Flag("kubeconfig"), FlagWith("kubeconfig", ""), Flag("namespace"),
              Word("explain"), Word("service"), Word("x")}, 3)

(* The flags whose values are converted, and with others than they can have. *)
Converted ==
  {<<Word("serve")>> \o a \o b :
     a \in {<< >>} \cup {<<FlagWith("kube-api-budget", v)>> : v \in {Empty, "abc", "25", "-1"}}
         \cup {<<Flag("kube-api-budget"), w>> : w \in {Word("abc"), Word("25"), Word(Empty)}}
         \cup {<<Flag("kube-api-budget"), Flag("verbose")>>},
     b \in {<< >>} \cup {<<FlagWith("verbose", v)>> : v \in {Empty, "maybe", "false", "T"}}
         \cup {<<Flag("verbose"), Word("false")>>}}

MCArguments == Asks \cup Serves \cup Others \cup Converted

=============================================================================
