----------------------------- MODULE OwnerChain -----------------------------
(***************************************************************************)
(* The walk along owner references, twice in internal/engine:              *)
(* addOwnerChain for the graph of one Pod and traceOwnerChain for the Pods *)
(* a Service selects, one walk per Pod.  Each reference of a kind the walk *)
(* knows is read from the API server, so the cluster may change between    *)
(* two reads: an owner appears, disappears or gets other references, and   *)
(* the references may form diamonds and cycles.                            *)
(*                                                                         *)
(* A call of the recursive functions is a frame on the stack.  The order   *)
(* of an object's references is left open.  The cluster is what reads      *)
(* answer: the first answer about an owner is any, and so is a later one,  *)
(* which ends the calm if it differs.  graph.Builder and the trace's lists *)
(* of owners and relations are nodes, edges and full.                      *)
(***************************************************************************)
EXTENDS Naturals, FiniteSets, Sequences

CONSTANTS
  Pods,       (* the Pods a walk may start from                              *)
  Owners,     (* the objects references may name                             *)
  Known       (* those of a kind ownerNodeAndRefs reads                      *)

ASSUME OwnersAssumption ==
  /\ IsFiniteSet(Owners)
  /\ Known \subseteq Owners
  /\ Pods \cap Owners = {}

VARIABLES
  view,      (* view[c]: what the last read of object c answered             *)
  asked,     (* owners that have been read                                   *)
  calm,      (* has every owner been what it was when it was first read?     *)
  op,        (* the request: a Pod's graph or a Service's trace              *)
  waiting,   (* Pods still to walk from                                      *)
  stack,     (* calls: the object and its references still to follow         *)
  seen,      (* owners this walk has followed                                *)
  linked,    (* edges of this walk                                           *)
  reads,     (* reads of this walk                                           *)
  nodes,     (* objects of the answer                                        *)
  full,      (* those with labels and status, not only the reference's name  *)
  edges,     (* edges <<owner, object>> of the answer                        *)
  outcome    (* "walking", "done" or "failed"                                *)

cluster == <<view, asked, calm>>
answer == <<nodes, full, edges>>
vars == <<view, asked, calm, op, waiting, stack, seen, linked, reads, nodes, full, edges,
          outcome>>

Objects == Pods \cup Owners
Frames == [object : Objects, todo : SUBSET Owners]
Edges == Owners \X Objects

(* An object that is not read, not found or forbidden is known by name only. *)
Bare == [found |-> FALSE, owners |-> {}]
Objs == [found : {TRUE}, owners : SUBSET Owners]
Answers(o) == IF o \in Known THEN {Bare} \cup Objs ELSE {Bare}

TypeOK ==
  /\ view \in [Objects -> {Bare} \cup Objs]
  /\ asked \in SUBSET Known
  /\ calm \in BOOLEAN
  /\ op \in {"graph", "trace"}
  /\ waiting \in SUBSET Pods
  /\ stack \in Seq(Frames)
  /\ seen \in SUBSET Owners
  /\ linked \in SUBSET Edges
  /\ reads \in Nat
  /\ nodes \in SUBSET Objects
  /\ full \in SUBSET Known
  /\ edges \in SUBSET Edges
  /\ outcome \in {"walking", "done", "failed"}

(* The owners of a Pod from which no walk starts do not matter.               *)
Init ==
  /\ view \in {[c \in Objects |-> IF c \in Pods THEN pod[c] ELSE Bare] : pod \in [Pods -> Objs]}
  /\ asked = {} /\ calm = TRUE
  /\ op \in {"graph", "trace"}
  /\ waiting \in SUBSET Pods
  /\ op = "graph" => Cardinality(waiting) = 1
  /\ \A p \in Pods \ waiting : view[p].owners = {}
  /\ stack = << >>
  /\ seen = {} /\ linked = {} /\ reads = 0
  /\ nodes = {} /\ full = {} /\ edges = {}
  /\ outcome = "walking"

-----------------------------------------------------------------------------
(* The walk.                                                                 *)

Top == Head(stack)

(* Builder.AddNode fills in what an earlier reference left open; of the      *)
(* trace's entities with one key dedupeEntities keeps the last.              *)
Merge(o, a) ==
  IF a.found THEN full \cup {o}
  ELSE IF op = "graph" THEN full ELSE full \ {o}

StartPod(p) ==
  /\ outcome = "walking"
  /\ stack = << >>
  /\ p \in waiting
  /\ waiting' = waiting \ {p}
  /\ stack' = << [object |-> p, todo |-> view[p].owners] >>
  /\ seen' = {} /\ linked' = {} /\ reads' = 0
  /\ nodes' = nodes \cup {p}
  /\ UNCHANGED <<cluster, op, full, edges, outcome>>

(* What is still to be read of the cluster.                                  *)
Unread == [c \in Objects |-> IF c \in waiting THEN view[c] ELSE Bare]

(* ownerNodeAndRefs: an owner of a known kind is read.  Once the calm is over *)
(* what owners were before matters no more, and is forgotten.                *)
Read(o, a) ==
  LET same == calm /\ (o \in asked => a = view[o])
  IN  /\ calm' = same
      /\ view' = IF same THEN [view EXCEPT ![o] = a] ELSE Unread
      /\ asked' = IF same THEN asked \cup ({o} \cap Known) ELSE {}
      /\ reads' = IF o \in Known THEN reads + 1 ELSE reads

(* A reference is read and enters the answer.                                *)
AddOwner(o, a) ==
  /\ outcome = "walking"
  /\ stack # << >> /\ o \in Top.todo
  /\ Read(o, a)
  /\ nodes' = nodes \cup {o}
  /\ full' = Merge(o, a)
  /\ edges' = edges \cup {<<o, Top.object>>}
  /\ linked' = linked \cup {<<o, Top.object>>}
  /\ UNCHANGED <<op, waiting, outcome>>

(* The call goes on without o, at once or after a call for o's references.   *)
Rest(o) == << [object |-> Top.object, todo |-> Top.todo \ {o}] >> \o Tail(stack)
Call(o, a) == << [object |-> o, todo |-> a.owners] >> \o Rest(o)

(* Variants of Follow: it forgets whom it has seen; it marks the object      *)
(* instead of the owner; it links an owner only the first time; it adds only *)
(* the owners it finds.                                                      *)
FollowAlways(o, a) == AddOwner(o, a) /\ stack' = Call(o, a) /\ UNCHANGED seen

FollowMarkingObject(o, a) ==
  /\ AddOwner(o, a)
  /\ seen' = seen \cup ({Top.object} \cap Owners)
  /\ stack' = IF o \in seen THEN Rest(o) ELSE Call(o, a)

FollowLinkingOnce(o, a) ==
  IF o \in seen
  THEN /\ outcome = "walking"
       /\ stack # << >> /\ o \in Top.todo
       /\ stack' = Rest(o)
       /\ UNCHANGED <<cluster, op, waiting, seen, linked, reads, answer, outcome>>
  ELSE AddOwner(o, a) /\ stack' = Call(o, a) /\ seen' = seen \cup {o}

FollowAddingFound(o, a) ==
  /\ outcome = "walking"
  /\ stack # << >> /\ o \in Top.todo
  /\ Read(o, a)
  /\ nodes' = IF a.found THEN nodes \cup {o} ELSE nodes
  /\ full' = Merge(o, a)
  /\ edges' = edges \cup {<<o, Top.object>>}
  /\ linked' = linked \cup {<<o, Top.object>>}
  /\ seen' = seen \cup {o}
  /\ stack' = IF o \in seen THEN Rest(o) ELSE Call(o, a)
  /\ UNCHANGED <<op, waiting, outcome>>

Follow(o, a) ==
  /\ AddOwner(o, a)
  /\ seen' = seen \cup {o}
  /\ stack' = IF o \in seen THEN Rest(o) ELSE Call(o, a)

(* A read fails for another reason: the calls return its error one by one    *)
(* and there is no answer.                                                   *)
FollowFails(o) ==
  /\ outcome = "walking"
  /\ stack # << >> /\ o \in Top.todo
  /\ o \in Known
  /\ outcome' = "failed"
  /\ stack' = << >>
  /\ seen' = {} /\ linked' = {} /\ reads' = 0
  /\ nodes' = {} /\ full' = {} /\ edges' = {}
  /\ UNCHANGED <<cluster, op, waiting>>

Return ==
  /\ outcome = "walking"
  /\ stack # << >> /\ Top.todo = {}
  /\ stack' = Tail(stack)
  /\ UNCHANGED <<cluster, op, waiting, seen, linked, reads, answer, outcome>>

Finish ==
  /\ outcome = "walking"
  /\ stack = << >> /\ waiting = {}
  /\ outcome' = "done"
  /\ UNCHANGED <<cluster, op, waiting, stack, seen, linked, reads, answer>>

Next ==
  \/ \E p \in Pods : StartPod(p)
  \/ \E o \in Owners : (\E a \in Answers(o) : Follow(o, a)) \/ FollowFails(o)
  \/ Return \/ Finish

Spec == Init /\ [][Next]_vars

-----------------------------------------------------------------------------
(* Properties.                                                               *)

(* Types; and the recursion is never deeper than the owners are many, in     *)
(* whatever cycles they refer to each other and however that changes under   *)
(* way.                                                                      *)
TypeInvariant == TypeOK /\ Len(stack) <= Cardinality(Owners) + 1

(* No reference is read twice in one walk, whatever changes under way: a     *)
(* walk spends no more API calls than it has edges to show, and ends.        *)
OneReadPerEdge == reads <= Cardinality(linked)

(* Every edge has both its ends in the answer, and every owner in the answer *)
(* is there as the owner of something in it.                                 *)
NothingDangles ==
  /\ \A e \in edges : e[1] \in nodes /\ e[2] \in nodes
  /\ \A o \in nodes \cap Owners : \E e \in edges : e[1] = o

(* The owners a walk can get to from Pod p: the least set that holds p's and *)
(* is closed.                                                                *)
Reached(p) ==
  {o \in Owners : \A S \in SUBSET Owners :
     view[p].owners \subseteq S /\ (\A c \in S : view[c].owners \subseteq S) => o \in S}

(* While the cluster stays the same the walks find the owners of their Pods, *)
(* direct and indirect, read all they know how to read, and answer with      *)
(* every edge among them and nothing else, in whatever order they meet them. *)
CalmWalkIsExact ==
  calm /\ outcome = "done" =>
    LET roots == nodes \cap Pods
        all == roots \cup UNION {Reached(p) : p \in roots}
    IN  /\ nodes = all
        /\ all \cap Known = asked
        /\ edges = {e \in Edges : e[2] \in all /\ e[1] \in view[e[2]].owners}
        /\ full = {o \in all \cap Owners : view[o].found}

=============================================================================
