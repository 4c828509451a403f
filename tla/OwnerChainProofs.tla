-------------------------- MODULE OwnerChainProofs --------------------------
(***************************************************************************)
(* TypeInvariant (with the bound on the recursion), OneReadPerEdge,        *)
(* NothingDangles and CalmWalkIsExact of OwnerChain, for every set of Pods *)
(* and owners.                                                             *)
(*                                                                         *)
(* A call is made only for an owner not seen before, so the calls are of   *)
(* different objects (CallInv) and no more than the owners seen (DepthInv) *)
(* and what a call has still to follow has not been linked (LinkInv).      *)
(* While nothing changes, each object's owners are linked, are still to be *)
(* followed by a call of the object, or it has not been read (CalmInv).    *)
(***************************************************************************)
EXTENDS OwnerChain, FiniteSetTheorems, TLAPS

CallInv ==
  /\ \A i \in 1..Len(stack) : stack[i].object \in (seen \cup Pods) \cap nodes
  /\ \A i, j \in 1..Len(stack) : stack[i].object = stack[j].object => i = j

DepthInv == Len(stack) <= Cardinality(seen) + 1

LinkInv ==
  /\ \A e \in linked : e[2] \in seen \cup Pods
  /\ \A i \in 1..Len(stack) : \A o \in stack[i].todo : <<o, stack[i].object>> \notin linked
  /\ IsFiniteSet(linked)
  /\ OneReadPerEdge

IInv == TypeOK /\ CallInv /\ DepthInv /\ LinkInv /\ NothingDangles

-----------------------------------------------------------------------------
(* A set of owners is finite and no larger than all.                         *)
LEMMA OwnerSets ==
  ASSUME NEW S \in SUBSET Owners
  PROVE  /\ IsFiniteSet(S)
         /\ Cardinality(S) \in Nat /\ Cardinality(Owners) \in Nat
         /\ Cardinality(S) <= Cardinality(Owners)
BY OwnersAssumption, FS_Subset, FS_CardinalityType

(* What an answer tells of owners.                                           *)
LEMMA AnswerOwners ==
  ASSUME NEW a \in {Bare} \cup Objs
  PROVE  a.owners \in SUBSET Owners
<1>1. CASE a = Bare BY <1>1 DEF Bare
<1>2. CASE a \in Objs BY <1>2 DEF Objs
<1> QED BY <1>1, <1>2

LEMMA Prepending ==
  ASSUME NEW S, NEW s \in Seq(S), NEW e \in S
  PROVE  /\ <<e>> \o s \in Seq(S) /\ Len(<<e>> \o s) = Len(s) + 1
         /\ (<<e>> \o s)[1] = e
         /\ \A i \in 2..(Len(s) + 1) : (<<e>> \o s)[i] = s[i - 1]
<1>1. <<e>> \in Seq(S) /\ Len(<<e>>) = 1 /\ <<e>>[1] = e OBVIOUS
<1>2. <<e>> \o s \in Seq(S) /\ Len(<<e>> \o s) = Len(s) + 1 BY <1>1
<1>3. (<<e>> \o s)[1] = e BY <1>1
<1>4. ASSUME NEW i \in 2..(Len(s) + 1) PROVE (<<e>> \o s)[i] = s[i - 1]
  BY <1>1
<1> QED BY <1>2, <1>3, <1>4

(* The stack of a call that goes on, and that of one that has made another.  *)
LEMMA Stacks ==
  ASSUME TypeOK, stack # << >>, NEW o \in Owners, NEW a \in {Bare} \cup Objs
  PROVE  /\ Rest(o) \in Seq(Frames) /\ Len(Rest(o)) = Len(stack)
         /\ Rest(o)[1] = [object |-> Top.object, todo |-> Top.todo \ {o}]
         /\ \A i \in 2..Len(stack) : Rest(o)[i] = stack[i]
         /\ Call(o, a) \in Seq(Frames) /\ Len(Call(o, a)) = Len(stack) + 1
         /\ Call(o, a)[1] = [object |-> o, todo |-> a.owners]
         /\ \A i \in 2..(Len(stack) + 1) : Call(o, a)[i] = Rest(o)[i - 1]
         /\ Top = stack[1] /\ Top \in Frames
<1> USE DEF TypeOK
<1>1. Top = stack[1] /\ Top \in Frames /\ Len(stack) \in Nat \ {0} /\ Tail(stack) \in Seq(Frames)
  BY DEF Top
<1> DEFINE rest == [object |-> Top.object, todo |-> Top.todo \ {o}]
<1>2. rest \in Frames
  BY <1>1 DEF Frames
<1>3. Rest(o) = <<rest>> \o Tail(stack)
  BY DEF Rest
<1>4. /\ Rest(o) \in Seq(Frames) /\ Len(Rest(o)) = Len(stack)
      /\ Rest(o)[1] = rest
      /\ \A i \in 2..Len(stack) : Rest(o)[i] = stack[i]
  <2>1. /\ Len(Tail(stack)) = Len(stack) - 1
        /\ \A i \in 1..(Len(stack) - 1) : Tail(stack)[i] = stack[i + 1]
    BY <1>1
  <2> HIDE DEF rest
  <2>2. /\ <<rest>> \o Tail(stack) \in Seq(Frames)
        /\ Len(<<rest>> \o Tail(stack)) = Len(Tail(stack)) + 1
        /\ (<<rest>> \o Tail(stack))[1] = rest
        /\ \A i \in 2..(Len(Tail(stack)) + 1) : (<<rest>> \o Tail(stack))[i] = Tail(stack)[i - 1]
    BY <1>1, <1>2, Prepending
  <2>3. Len(Rest(o)) = Len(stack) /\ Rest(o) \in Seq(Frames) /\ Rest(o)[1] = rest
    BY <1>1, <1>3, <2>1, <2>2
  <2>4. ASSUME NEW i \in 2..Len(stack) PROVE Rest(o)[i] = stack[i]
    <3>1. i \in 2..(Len(Tail(stack)) + 1) /\ i - 1 \in 1..(Len(stack) - 1) /\ (i - 1) + 1 = i
      BY <1>1, <2>1
    <3>2. Rest(o)[i] = Tail(stack)[i - 1] BY <1>3, <2>2, <3>1
    <3>3. Tail(stack)[i - 1] = stack[(i - 1) + 1] BY <2>1, <3>1
    <3> QED BY <3>1, <3>2, <3>3
  <2> QED BY <2>3, <2>4
<1> DEFINE frame == [object |-> o, todo |-> a.owners]
<1>5. frame \in Frames
  BY AnswerOwners DEF Frames, Objects
<1>6. Call(o, a) = <<frame>> \o Rest(o)
  BY DEF Call
<1>7. /\ Call(o, a) \in Seq(Frames) /\ Len(Call(o, a)) = Len(stack) + 1
      /\ Call(o, a)[1] = frame
      /\ \A i \in 2..(Len(stack) + 1) : Call(o, a)[i] = Rest(o)[i - 1]
  <2> HIDE DEF frame, rest
  <2>1. /\ <<frame>> \o Rest(o) \in Seq(Frames)
        /\ Len(<<frame>> \o Rest(o)) = Len(Rest(o)) + 1
        /\ (<<frame>> \o Rest(o))[1] = frame
        /\ \A i \in 2..(Len(Rest(o)) + 1) : (<<frame>> \o Rest(o))[i] = Rest(o)[i - 1]
    BY <1>4, <1>5, Prepending
  <2>2. Len(Rest(o)) + 1 = Len(stack) + 1 BY <1>4
  <2> QED BY <1>6, <2>1, <2>2
<1> QED BY <1>1, <1>4, <1>7

-----------------------------------------------------------------------------
(* The invariant is inductive.                                               *)

LEMMA InitIInv == Init => IInv
<1> SUFFICES ASSUME Init PROVE IInv
  OBVIOUS
<1> USE DEF Init
<1>1. TypeOK
  <2>1. view \in [Objects -> {Bare} \cup Objs] OBVIOUS
  <2>2. stack \in Seq(Frames) /\ waiting \in SUBSET Pods /\ reads \in Nat OBVIOUS
  <2> QED BY <2>1, <2>2 DEF TypeOK
<1>2. CallInv /\ NothingDangles
  BY DEF CallInv, NothingDangles
<1>3. IsFiniteSet({}) /\ Cardinality({}) = 0
  BY FS_EmptySet
<1>4. DepthInv /\ LinkInv
  BY <1>3 DEF DepthInv, LinkInv, OneReadPerEdge
<1> QED BY <1>1, <1>2, <1>4 DEF IInv

LEMMA StartPodKeepsIInv ==
  ASSUME IInv, NEW p \in Pods, StartPod(p)
  PROVE  IInv'
<1> USE DEF IInv, StartPod, cluster
<1>1. view[p].owners \in SUBSET Owners /\ p \in Objects
  BY AnswerOwners DEF TypeOK, Objects
<1>2. TypeOK'
  <2>1. [object |-> p, todo |-> view[p].owners] \in Frames BY <1>1 DEF Frames
  <2>2. stack' \in Seq(Frames) BY <2>1
  <2>3. nodes' \in SUBSET Objects /\ waiting' \in SUBSET Pods BY <1>1 DEF TypeOK
  <2> QED BY <2>2, <2>3 DEF TypeOK
<1>3. CallInv' BY DEF CallInv
<1>4. IsFiniteSet({}) /\ Cardinality({}) = 0
  BY FS_EmptySet
<1>5. DepthInv' /\ LinkInv'
  BY <1>4 DEF DepthInv, LinkInv, OneReadPerEdge
<1>6. NothingDangles' BY OwnersAssumption DEF NothingDangles, TypeOK
<1> QED BY <1>2, <1>3, <1>5, <1>6

(* A followed owner was not linked by this call before, and gets a call of   *)
(* its own only if it has none and never had.                                *)
LEMMA FollowKeepsIInv ==
  ASSUME IInv, NEW o \in Owners, NEW a \in Answers(o), Follow(o, a)
  PROVE  IInv'
<1> USE DEF IInv, Follow, AddOwner
<1>1. a \in {Bare} \cup Objs /\ a.owners \in SUBSET Owners /\ (a.found => o \in Known)
  BY AnswerOwners DEF Answers, Bare
<1>2. TypeOK /\ stack # << >> /\ Len(stack) \in Nat \ {0} /\ 1 \in 1..Len(stack)
  BY DEF TypeOK
<1>3. /\ Rest(o) \in Seq(Frames) /\ Len(Rest(o)) = Len(stack)
      /\ Rest(o)[1] = [object |-> Top.object, todo |-> Top.todo \ {o}]
      /\ \A i \in 2..Len(stack) : Rest(o)[i] = stack[i]
      /\ Call(o, a) \in Seq(Frames) /\ Len(Call(o, a)) = Len(stack) + 1
      /\ Call(o, a)[1] = [object |-> o, todo |-> a.owners]
      /\ \A i \in 2..(Len(stack) + 1) : Call(o, a)[i] = Rest(o)[i - 1]
      /\ Top = stack[1] /\ Top \in Frames
  BY <1>1, <1>2, Stacks
<1>4. /\ o \in Top.todo /\ <<o, Top.object>> \notin linked
      /\ Top.object \in (seen \cup Pods) \cap nodes
  BY <1>2, <1>3 DEF CallInv, LinkInv
<1>5. /\ nodes' = nodes \cup {o} /\ seen' = seen \cup {o}
      /\ linked' = linked \cup {<<o, Top.object>>} /\ edges' = edges \cup {<<o, Top.object>>}
  OBVIOUS
<1>6. TypeOK'
  <2>1. view' \in [Objects -> {Bare} \cup Objs] /\ asked' \in SUBSET Known /\ calm' \in BOOLEAN
        /\ reads' \in Nat
    <3>0. Unread \in [Objects -> {Bare} \cup Objs] BY DEF TypeOK, Unread
    <3>1. view' \in [Objects -> {Bare} \cup Objs] BY <1>1, <3>0 DEF TypeOK, Read
    <3>2. asked' \in SUBSET Known BY DEF TypeOK, Read
    <3>3. calm' \in BOOLEAN
      <4>1. calm' = (calm /\ (o \in asked => a = view[o])) BY DEF Read
      <4> QED BY <4>1, Zenon DEF TypeOK
    <3>4. reads' \in Nat BY DEF TypeOK, Read
    <3> QED BY <3>1, <3>2, <3>3, <3>4
  <2>2. full' \in SUBSET Known
    BY <1>1 DEF TypeOK, Merge
  <2>3. <<o, Top.object>> \in Edges /\ o \in Objects
    BY <1>3 DEF Edges, Objects, Frames
  <2>4. linked' \in SUBSET Edges /\ edges' \in SUBSET Edges /\ nodes' \in SUBSET Objects
        /\ seen' \in SUBSET Owners
    BY <1>5, <2>3 DEF TypeOK
  <2>5. stack' \in Seq(Frames)
    BY <1>3
  <2> QED BY <2>1, <2>2, <2>4, <2>5 DEF TypeOK
<1>7. NothingDangles'
  <2>1. \A e \in edges' : e[1] \in nodes' /\ e[2] \in nodes'
    BY <1>4, <1>5 DEF NothingDangles
  <2>2. \A x \in nodes' \cap Owners : \E e \in edges' : e[1] = x
    <3>1. \A x \in nodes \cap Owners : \E e \in edges : e[1] = x
      BY DEF NothingDangles
    <3>2. <<o, Top.object>> \in edges' /\ <<o, Top.object>>[1] = o /\ edges \subseteq edges'
      BY <1>5
    <3> QED BY <1>5, <3>1, <3>2
  <2> QED BY <2>1, <2>2 DEF NothingDangles
<1>8. /\ \A e \in linked' : e[2] \in seen' \cup Pods
      /\ IsFiniteSet(linked')
      /\ OneReadPerEdge'
  <2>1. \A e \in linked' : e[2] \in seen' \cup Pods
    BY <1>4, <1>5 DEF LinkInv
  <2>2. IsFiniteSet(linked') /\ Cardinality(linked') = Cardinality(linked) + 1
        /\ Cardinality(linked) \in Nat
    BY <1>4, <1>5, FS_AddElement, FS_CardinalityType DEF LinkInv
  <2>3. OneReadPerEdge'
    BY <2>2 DEF LinkInv, OneReadPerEdge, TypeOK, Read
  <2> QED BY <2>1, <2>2, <2>3
<1>9. CASE o \in seen
  <2>1. stack' = Rest(o) /\ Len(stack') = Len(stack)
    BY <1>3, <1>9
  <2>2. \A i \in 1..Len(stack') : /\ stack'[i].object = stack[i].object
                                  /\ stack'[i].todo \subseteq stack[i].todo
                                  /\ i = 1 => o \notin stack'[i].todo
    BY <1>2, <1>3, <2>1
  <2>3. CallInv' BY <1>5, <2>1, <2>2 DEF CallInv
  <2>4. DepthInv' BY <1>5, <1>9, <2>1 DEF DepthInv
  <2>5. \A i \in 1..Len(stack') : \A x \in stack'[i].todo : <<x, stack'[i].object>> \notin linked'
    BY <1>2, <1>3, <1>5, <2>1, <2>2 DEF LinkInv, CallInv
  <2> QED BY <1>6, <1>7, <1>8, <2>3, <2>4, <2>5 DEF LinkInv
<1>10. CASE o \notin seen
  <2>1. stack' = Call(o, a) /\ Len(stack') = Len(stack) + 1
    BY <1>3, <1>10
  <2>2. stack'[1].object = o /\ stack'[1].todo = a.owners
    BY <1>3, <2>1
  <2>3. \A i \in 2..Len(stack') : /\ i - 1 \in 1..Len(stack)
                                  /\ stack'[i].object = stack[i - 1].object
                                  /\ stack'[i].todo \subseteq stack[i - 1].todo
                                  /\ i = 2 => o \notin stack'[i].todo
    BY <1>2, <1>3, <2>1
  <2>4. o \notin seen \cup Pods
    BY <1>10, OwnersAssumption
  <2>5. CallInv'
    <3>1. \A i \in 1..Len(stack') : stack'[i].object \in (seen' \cup Pods) \cap nodes'
      BY <1>2, <1>5, <2>1, <2>2, <2>3 DEF CallInv
    <3>2. \A i \in 2..Len(stack') : stack'[i].object # o
      BY <2>3, <2>4 DEF CallInv
    <3>3. ASSUME NEW i \in 2..Len(stack'), NEW j \in 2..Len(stack'),
                 stack'[i].object = stack'[j].object
          PROVE  i = j
      <4>1. /\ i - 1 \in 1..Len(stack) /\ stack'[i].object = stack[i - 1].object
            /\ j - 1 \in 1..Len(stack) /\ stack'[j].object = stack[j - 1].object
        BY <2>3
      <4>2. i - 1 = j - 1 BY <3>3, <4>1 DEF CallInv
      <4> QED BY <4>2
    <3>4. \A i \in 1..Len(stack') : i = 1 \/ i \in 2..Len(stack')
      BY <1>2, <2>1
    <3>5. \A i, j \in 1..Len(stack') : stack'[i].object = stack'[j].object => i = j
      BY <2>2, <3>2, <3>3, <3>4
    <3> QED BY <3>1, <3>5 DEF CallInv
  <2>6. DepthInv'
    <3>1. IsFiniteSet(seen) BY OwnerSets DEF TypeOK
    <3>2. Cardinality(seen') = Cardinality(seen) + 1 /\ Cardinality(seen) \in Nat
      BY <1>5, <1>10, <3>1, FS_AddElement, FS_CardinalityType
    <3> QED BY <1>2, <2>1, <3>2 DEF DepthInv
  <2>7. \A i \in 1..Len(stack') : \A x \in stack'[i].todo : <<x, stack'[i].object>> \notin linked'
    <3>1. \A x \in stack'[1].todo : <<x, stack'[1].object>> \notin linked'
      BY <1>4, <1>5, <2>2, <2>4 DEF LinkInv
    <3>2. ASSUME NEW i \in 2..Len(stack'), NEW x \in stack'[i].todo
          PROVE  <<x, stack'[i].object>> \notin linked'
      <4>1. /\ i - 1 \in 1..Len(stack) /\ x \in stack[i - 1].todo
            /\ stack'[i].object = stack[i - 1].object
        BY <2>3
      <4>2. <<x, stack'[i].object>> \notin linked BY <4>1 DEF LinkInv
      <4>3. <<x, stack'[i].object>> # <<o, Top.object>>
        <5>1. CASE i = 2 BY <2>3, <5>1
        <5>2. CASE i # 2
          <6>1. stack[i - 1].object # stack[1].object BY <1>2, <4>1, <5>2 DEF CallInv
          <6> QED BY <1>3, <4>1, <6>1
        <5> QED BY <5>1, <5>2
      <4> QED BY <1>5, <4>2, <4>3
    <3>3. \A i \in 1..Len(stack') : i = 1 \/ i \in 2..Len(stack')
      BY <1>2, <2>1
    <3> QED BY <3>1, <3>2, <3>3
  <2> QED BY <1>6, <1>7, <1>8, <2>5, <2>6, <2>7 DEF LinkInv
<1> QED BY <1>9, <1>10

LEMMA ReturnKeepsIInv ==
  ASSUME IInv, Return
  PROVE  IInv'
<1> USE DEF IInv, Return, cluster, answer
<1>1. /\ stack' \in Seq(Frames) /\ Len(stack') = Len(stack) - 1 /\ Len(stack) \in Nat
      /\ \A i \in 1..Len(stack') : stack'[i] = stack[i + 1] /\ i + 1 \in 1..Len(stack)
  BY DEF TypeOK
<1>2. TypeOK' BY <1>1 DEF TypeOK
<1>3. CallInv' BY <1>1 DEF CallInv
<1>4. DepthInv'
  <2>1. Cardinality(seen) \in Nat BY OwnerSets DEF TypeOK
  <2> QED BY <1>1, <2>1 DEF DepthInv
<1>5. LinkInv' BY <1>1 DEF LinkInv, OneReadPerEdge
<1>6. NothingDangles' BY DEF NothingDangles
<1> QED BY <1>2, <1>3, <1>4, <1>5, <1>6

(* A walk that fails leaves nothing behind.                                  *)
LEMMA FollowFailsKeepsIInv ==
  ASSUME IInv, NEW o \in Owners, FollowFails(o)
  PROVE  IInv'
<1> USE DEF IInv, FollowFails, cluster
<1>1. TypeOK' BY DEF TypeOK
<1>2. IsFiniteSet({}) /\ Cardinality({}) = 0
  BY FS_EmptySet
<1>3. CallInv' /\ DepthInv' /\ LinkInv'
  BY <1>2 DEF CallInv, DepthInv, LinkInv, OneReadPerEdge
<1>4. NothingDangles' BY DEF NothingDangles
<1> QED BY <1>1, <1>3, <1>4

LEMMA NextIInv == IInv /\ [Next]_vars => IInv'
<1> SUFFICES ASSUME IInv, [Next]_vars PROVE IInv'
  OBVIOUS
<1>1. ASSUME UNCHANGED <<cluster, op, waiting, stack, seen, linked, reads, answer>>,
             outcome' \in {"walking", "done", "failed"}
      PROVE  IInv'
  BY <1>1 DEF IInv, TypeOK, CallInv, DepthInv, LinkInv, OneReadPerEdge, NothingDangles,
              cluster, answer
<1>2. CASE UNCHANGED vars
  BY <1>1, <1>2 DEF vars, cluster, answer, IInv, TypeOK
<1>3. ASSUME NEW p \in Pods, StartPod(p) PROVE IInv'
  BY <1>3, StartPodKeepsIInv
<1>4. ASSUME NEW o \in Owners, NEW a \in Answers(o), Follow(o, a) PROVE IInv'
  BY <1>4, FollowKeepsIInv
<1>5. ASSUME NEW o \in Owners, FollowFails(o) PROVE IInv'
  BY <1>5, FollowFailsKeepsIInv
<1>6. CASE Return
  BY <1>6, ReturnKeepsIInv
<1>7. CASE Finish
  BY <1>1, <1>7 DEF Finish
<1> QED BY <1>2, <1>3, <1>4, <1>5, <1>6, <1>7 DEF Next

-----------------------------------------------------------------------------
(* IInv holds in every reachable state.                                      *)
THEOREM Invariance == Spec => []IInv
BY InitIInv, NextIInv, PTL DEF Spec

(* Types hold, and the recursion is never deeper than the owners are many,   *)
(* whatever cycles they form and however they change.                        *)
THEOREM TypeCorrect == Spec => []TypeInvariant
<1>1. IInv => TypeInvariant
  <2> SUFFICES ASSUME IInv PROVE TypeInvariant
    OBVIOUS
  <2>1. /\ Cardinality(seen) \in Nat /\ Cardinality(Owners) \in Nat
        /\ Cardinality(seen) <= Cardinality(Owners)
    BY OwnerSets DEF IInv, TypeOK
  <2>2. Len(stack) \in Nat BY DEF IInv, TypeOK
  <2> QED BY <2>1, <2>2 DEF IInv, DepthInv, TypeInvariant
<1> QED BY <1>1, Invariance, PTL

(* A walk reads no reference twice, whatever changes under way.              *)
THEOREM ReadsBounded == Spec => []OneReadPerEdge
<1>1. IInv => OneReadPerEdge BY DEF IInv, LinkInv
<1> QED BY <1>1, Invariance, PTL

(* Every edge has both its ends, and every owner is one for a reason.        *)
THEOREM AnswersClosed == Spec => []NothingDangles
<1>1. IInv => NothingDangles BY DEF IInv
<1> QED BY <1>1, Invariance, PTL

-----------------------------------------------------------------------------
(* CalmWalkIsExact: while nothing changes, the answer under way is right as  *)
(* far as it goes, and what it lacks is still on the stack.                  *)

(* An owner not read is known by name only; those of the answer are read.    *)
AskedInv ==
  /\ \A o \in Owners \ asked : view[o] = Bare
  /\ outcome # "failed" => asked = nodes \cap Known

(* What is followed or has been is a reference.                              *)
SoundInv ==
  /\ \A i \in 1..Len(stack) : stack[i].todo \subseteq view[stack[i].object].owners
  /\ \A e \in edges : e[1] \in view[e[2]].owners

(* What has not been followed is to be.                                      *)
Awaited(o, x) == \E i \in 1..Len(stack) : stack[i].object = x /\ o \in stack[i].todo

CompleteInv == \A x \in nodes : \A o \in view[x].owners : <<o, x>> \in edges \/ Awaited(o, x)

(* Every owner of the answer is one of a Pod of the answer.                  *)
ReachedInv == \A o \in nodes \cap Owners : \E p \in nodes \cap Pods : o \in Reached(p)

FullInv == full = {o \in nodes \cap Owners : view[o].found}

CalmInv == calm => AskedInv /\ SoundInv /\ CompleteInv /\ ReachedInv /\ FullInv

SeenInv == seen \subseteq nodes /\ (outcome = "done" => stack = << >>)

JInv == IInv /\ SeenInv /\ CalmInv

(* The calm goes on only if a read answers what the answer already shows, or *)
(* is the first of its owner.                                                *)
LEMMA CalmRead ==
  ASSUME IInv, calm, AskedInv, outcome # "failed",
         NEW o \in Owners, NEW a \in Answers(o), Read(o, a), calm'
  PROVE  /\ view' \in [Objects -> {Bare} \cup Objs] /\ view'[o] = a
         /\ \A c \in nodes : view'[c] = view[c]
         /\ \A c \in Objects : c # o => view'[c] = view[c]
         /\ \A c \in Objects : view[c].owners \subseteq view'[c].owners
         /\ asked' = asked \cup ({o} \cap Known)
<1>1. o \in Objects /\ a \in {Bare} \cup Objs /\ view \in [Objects -> {Bare} \cup Objs]
      /\ nodes \subseteq Objects /\ asked \subseteq Known
  BY DEF IInv, TypeOK, Objects, Answers
<1>2. /\ o \in asked => a = view[o]
      /\ view' = [view EXCEPT ![o] = a]
      /\ asked' = asked \cup ({o} \cap Known)
  BY DEF Read
<1>3. o \notin Known => a = Bare /\ view[o] = Bare
  BY <1>1 DEF Answers, AskedInv
<1>4. o \in nodes => view[o] = a
  BY <1>2, <1>3 DEF AskedInv
<1>5. o \notin nodes => view[o] = Bare
  BY DEF AskedInv
<1>6. view[o].owners \subseteq a.owners
  BY <1>4, <1>5 DEF Bare
<1> QED
  BY <1>1, <1>2, <1>4, <1>6

(* The owners to be reached only grow with what is known of them.            *)
LEMMA ReachedGrows ==
  ASSUME NEW p \in Objects, \A c \in Objects : view[c].owners \subseteq view'[c].owners
  PROVE  Reached(p) \subseteq Reached(p)'
<1> SUFFICES ASSUME NEW o \in Reached(p), NEW S \in SUBSET Owners,
                    view'[p].owners \subseteq S, \A c \in S : view'[c].owners \subseteq S
             PROVE  o \in S
  BY DEF Reached
<1>1. view[p].owners \subseteq S /\ \A c \in S : view[c].owners \subseteq S
  BY DEF Objects
<1> QED
  BY <1>1 DEF Reached

LEMMA InitJInv == Init => JInv
<1> SUFFICES ASSUME Init PROVE JInv
  OBVIOUS
<1>1. SeenInv
  BY DEF Init, SeenInv
<1>2. SoundInv /\ CompleteInv /\ ReachedInv /\ FullInv
  BY DEF Init, SoundInv, CompleteInv, ReachedInv, FullInv
<1>3. AskedInv
  <2>1. \A o \in Owners : view[o] = Bare
    BY OwnersAssumption DEF Init, Objects
  <2> QED
    BY <2>1 DEF Init, AskedInv
<1> QED
  BY <1>1, <1>2, <1>3, InitIInv DEF JInv, CalmInv

LEMMA StartPodKeepsCalm ==
  ASSUME JInv, NEW p \in Pods, StartPod(p)
  PROVE  SeenInv' /\ CalmInv'
<1> USE DEF StartPod, cluster
<1>1. SeenInv'
  BY DEF JInv, SeenInv
<1>2. SUFFICES ASSUME calm' PROVE CalmInv'
  BY <1>1 DEF CalmInv
<1>3. IInv /\ AskedInv /\ SoundInv /\ CompleteInv /\ ReachedInv /\ FullInv
  BY <1>2 DEF JInv, CalmInv
<1>4. p \notin Owners /\ Known \subseteq Owners /\ p \in Objects
  BY OwnersAssumption DEF Objects
<1>5. stack'[1] = [object |-> p, todo |-> view[p].owners] /\ Len(stack') = 1
  OBVIOUS
<1>6. AskedInv'
  BY <1>3, <1>4 DEF AskedInv
<1>7. SoundInv'
  BY <1>3, <1>5 DEF SoundInv
<1>8. CompleteInv'
  <2> SUFFICES ASSUME NEW x \in nodes', NEW o \in view'[x].owners
               PROVE  <<o, x>> \in edges' \/ Awaited(o, x)'
    BY DEF CompleteInv
  <2>1. CASE x = p
    BY <2>1, <1>5 DEF Awaited
  <2>2. CASE x # p
    <3>1. ~Awaited(o, x)
      BY DEF Awaited
    <3> QED
      BY <3>1, <2>2, <1>3 DEF CompleteInv
  <2> QED
    BY <2>1, <2>2
<1>9. ReachedInv'
  <2>1. \A q \in nodes \cap Pods : Reached(q) = Reached(q)'
    BY DEF Reached
  <2> QED
    BY <2>1, <1>3, <1>4 DEF ReachedInv
<1>10. FullInv'
  BY <1>3, <1>4 DEF FullInv
<1> QED
  BY <1>6, <1>7, <1>8, <1>9, <1>10 DEF CalmInv

LEMMA FollowKeepsCalm ==
  ASSUME JInv, NEW o \in Owners, NEW a \in Answers(o), Follow(o, a)
  PROVE  SeenInv' /\ CalmInv'
<1> USE DEF Follow, AddOwner
<1>1. SeenInv'
  BY DEF JInv, SeenInv
<1>2. SUFFICES ASSUME calm' PROVE CalmInv'
  BY <1>1 DEF CalmInv
<1>3. IInv /\ calm /\ seen \subseteq nodes
      /\ AskedInv /\ SoundInv /\ CompleteInv /\ ReachedInv /\ FullInv
  <2>1. calm
    BY <1>2 DEF Read
  <2> QED
    BY <2>1 DEF JInv, SeenInv, CalmInv
<1>4. TypeOK /\ stack # << >> /\ Len(stack) \in Nat \ {0} /\ a \in {Bare} \cup Objs
      /\ Known \subseteq Owners /\ nodes \subseteq Objects /\ o \in Objects
  BY <1>3, OwnersAssumption DEF IInv, TypeOK, Answers, Objects
<1>5. /\ Rest(o) \in Seq(Frames) /\ Len(Rest(o)) = Len(stack)
      /\ Rest(o)[1] = [object |-> Top.object, todo |-> Top.todo \ {o}]
      /\ \A i \in 2..Len(stack) : Rest(o)[i] = stack[i]
      /\ Call(o, a) \in Seq(Frames) /\ Len(Call(o, a)) = Len(stack) + 1
      /\ Call(o, a)[1] = [object |-> o, todo |-> a.owners]
      /\ \A i \in 2..(Len(stack) + 1) : Call(o, a)[i] = Rest(o)[i - 1]
      /\ Top = stack[1] /\ Top \in Frames
  BY <1>4, Stacks
<1> DEFINE top == Top.object
<1>6. top \in nodes /\ o \in view[top].owners
  <2>1. 1 \in 1..Len(stack)
    BY <1>4
  <2> QED
    BY <2>1, <1>3, <1>5 DEF IInv, CallInv, SoundInv
<1>7. /\ view' \in [Objects -> {Bare} \cup Objs] /\ view'[o] = a
      /\ \A c \in nodes : view'[c] = view[c]
      /\ \A c \in Objects : c # o => view'[c] = view[c]
      /\ \A c \in Objects : view[c].owners \subseteq view'[c].owners
      /\ asked' = asked \cup ({o} \cap Known)
  BY <1>2, <1>3, CalmRead
<1>8. /\ nodes' = nodes \cup {o} /\ edges' = edges \cup {<<o, top>>} /\ outcome' # "failed"
      /\ full' = Merge(o, a)
  OBVIOUS
<1>9. AskedInv'
  <2>1. \A c \in Owners \ asked' : view'[c] = Bare
    <3> TAKE c \in Owners \ asked'
    <3>1. c \in Owners \ asked /\ c \in Objects /\ view[c] = Bare
      BY <1>3, <1>7 DEF AskedInv, Objects
    <3>2. CASE c = o
      BY <3>2, <1>7 DEF Answers
    <3> QED
      BY <3>1, <3>2, <1>7
  <2>2. asked' = nodes' \cap Known
    BY <1>3, <1>7, <1>8 DEF AskedInv
  <2> QED
    BY <2>1, <2>2 DEF AskedInv
(* The frames after the step are those before it, without o in the first,    *)
(* and perhaps one for o.                                                    *)
<1>10. \A i \in 1..Len(Rest(o)) :
         /\ Rest(o)[i].object = stack[i].object
         /\ Rest(o)[i].todo = IF i = 1 THEN stack[i].todo \ {o} ELSE stack[i].todo
  <2> TAKE i \in 1..Len(Rest(o))
  <2>1. CASE i = 1
    BY <2>1, <1>5
  <2>2. CASE i # 1
    <3>1. i \in 2..Len(stack)
      BY <2>2, <1>4, <1>5
    <3> QED
      BY <3>1, <2>2, <1>5
  <2> QED
    BY <2>1, <2>2
<1>11. \A j \in 1..Len(stack') : \/ o \notin seen /\ stack'[j] = [object |-> o, todo |-> a.owners]
                                 \/ \E i \in 1..Len(Rest(o)) : stack'[j] = Rest(o)[i]
  <2>1. CASE o \in seen
    BY <2>1, <1>5
  <2>2. CASE o \notin seen
    <3> TAKE j \in 1..Len(stack')
    <3>1. stack' = Call(o, a) /\ (j = 1 \/ (j \in 2..(Len(stack) + 1) /\ j - 1 \in 1..Len(Rest(o))))
      BY <2>2, <1>4, <1>5
    <3> QED
      BY <3>1, <2>2, <1>5
  <2> QED
    BY <2>1, <2>2
<1>12. \A i \in 1..Len(Rest(o)) : \E j \in 1..Len(stack') : stack'[j] = Rest(o)[i]
  <2>1. CASE o \in seen
    BY <2>1, <1>5
  <2>2. CASE o \notin seen
    <3> TAKE i \in 1..Len(Rest(o))
    <3>1. stack' = Call(o, a) /\ i + 1 \in 2..(Len(stack) + 1) /\ i + 1 \in 1..Len(stack')
          /\ (i + 1) - 1 = i
      BY <2>2, <1>4, <1>5
    <3>2. stack'[i + 1] = Rest(o)[i]
      BY <3>1, <1>5
    <3> QED
      BY <3>1, <3>2
  <2> QED
    BY <2>1, <2>2
<1>13. SoundInv'
  <2>1. \A i \in 1..Len(stack) : stack[i].object \in nodes
    BY <1>3 DEF IInv, CallInv
  <2>2. \A i \in 1..Len(Rest(o)) : Rest(o)[i].todo \subseteq view'[Rest(o)[i].object].owners
    BY <2>1, <1>3, <1>5, <1>7, <1>10 DEF SoundInv
  <2>3. \A j \in 1..Len(stack') : stack'[j].todo \subseteq view'[stack'[j].object].owners
    BY <2>2, <1>7, <1>11
  <2>4. \A e \in edges : e[2] \in nodes
    BY <1>3 DEF IInv, NothingDangles
  <2>5. \A e \in edges' : e[1] \in view'[e[2]].owners
    BY <2>4, <1>3, <1>6, <1>7, <1>8 DEF SoundInv
  <2> QED
    BY <2>3, <2>5 DEF SoundInv
<1>14. CompleteInv'
  <2> SUFFICES ASSUME NEW x \in nodes', NEW c \in view'[x].owners, <<c, x>> \notin edges'
               PROVE  \E j \in 1..Len(stack') : stack'[j].object = x /\ c \in stack'[j].todo
    BY DEF CompleteInv, Awaited
  <2>1. CASE x \in nodes
    <3>1. PICK i \in 1..Len(stack) : stack[i].object = x /\ c \in stack[i].todo
      BY <2>1, <1>3, <1>7, <1>8 DEF CompleteInv, Awaited
    <3>2. i \in 1..Len(Rest(o)) /\ Rest(o)[i].object = x
      BY <3>1, <1>5, <1>10
    <3>3. c \in Rest(o)[i].todo
      BY <3>1, <3>2, <1>5, <1>8, <1>10
    <3> QED
      BY <3>2, <3>3, <1>12
  <2>2. CASE x \notin nodes
    <3>1. x = o /\ o \notin seen /\ c \in a.owners
      BY <2>2, <1>3, <1>7, <1>8
    <3>2. stack' = Call(o, a) /\ 1 \in 1..Len(stack')
      BY <3>1, <1>4, <1>5
    <3>3. stack'[1].object = x /\ c \in stack'[1].todo
      BY <3>1, <3>2, <1>5
    <3> QED
      BY <3>2, <3>3
  <2> QED
    BY <2>1, <2>2
<1>15. ReachedInv'
  <2>1. \A p \in nodes \cap Pods : Reached(p) \subseteq Reached(p)'
    BY <1>4, <1>7, ReachedGrows
  <2>2. \A x \in nodes \cap Owners : \E p \in nodes' \cap Pods : x \in Reached(p)'
    BY <2>1, <1>3, <1>8 DEF ReachedInv
  <2>3. \E p \in nodes' \cap Pods : o \in Reached(p)'
    <3>1. o \in view'[top].owners
      BY <1>6, <1>7
    <3>2. CASE top \in Pods
      <4>1. PICK p \in Pods : p = top
        BY <3>2
      <4>2. o \in Reached(p)'
        BY <4>1, <3>1 DEF Reached
      <4> QED
        BY <4>1, <4>2, <1>6, <1>8
    <3>3. CASE top \in Owners
      <4>1. PICK p \in nodes' \cap Pods : top \in Reached(p)'
        BY <3>3, <2>2, <1>6
      <4>2. o \in Reached(p)'
        BY <4>1, <3>1 DEF Reached
      <4> QED
        BY <4>1, <4>2
    <3> QED
      BY <3>2, <3>3, <1>4, <1>6 DEF Objects
  <2> QED
    BY <2>2, <2>3, <1>8 DEF ReachedInv
<1>16. FullInv'
  <2>1. CASE a.found
    <3>1. full' = full \cup {o}
      BY <2>1, <1>8 DEF Merge
    <3> QED
      BY <3>1, <2>1, <1>3, <1>7, <1>8 DEF FullInv
  <2>2. CASE ~a.found
    <3>1. o \notin full
      BY <2>2, <1>3, <1>7 DEF FullInv
    <3>2. full' = full
      BY <3>1, <2>2, <1>8 DEF Merge
    <3> QED
      BY <3>2, <2>2, <1>3, <1>7, <1>8 DEF FullInv
  <2> QED
    BY <2>1, <2>2
<1> QED
  BY <1>9, <1>13, <1>14, <1>15, <1>16 DEF CalmInv

LEMMA FollowFailsKeepsCalm ==
  ASSUME JInv, NEW o \in Owners, FollowFails(o)
  PROVE  SeenInv' /\ CalmInv'
<1> USE DEF FollowFails, cluster
<1>1. SeenInv'
  BY DEF SeenInv
<1>2. SUFFICES ASSUME calm' PROVE CalmInv'
  BY <1>1 DEF CalmInv
<1>3. AskedInv'
  BY <1>2 DEF JInv, CalmInv, AskedInv
<1>4. SoundInv' /\ CompleteInv' /\ ReachedInv' /\ FullInv'
  BY DEF SoundInv, CompleteInv, ReachedInv, FullInv
<1> QED
  BY <1>3, <1>4 DEF CalmInv

(* What a call that returns was to follow has been followed.                 *)
LEMMA ReturnKeepsCalm ==
  ASSUME JInv, Return
  PROVE  SeenInv' /\ CalmInv'
<1> USE DEF Return, cluster, answer
<1>1. SeenInv'
  BY DEF JInv, SeenInv
<1>2. SUFFICES ASSUME calm' PROVE CalmInv'
  BY <1>1 DEF CalmInv
<1>3. TypeOK /\ AskedInv /\ SoundInv /\ CompleteInv /\ ReachedInv /\ FullInv
  BY <1>2 DEF JInv, IInv, CalmInv
<1>4. /\ Len(stack') = Len(stack) - 1 /\ Len(stack) \in Nat
      /\ \A i \in 1..Len(stack') : stack'[i] = stack[i + 1] /\ i + 1 \in 1..Len(stack)
      /\ stack[1].todo = {}
  BY <1>3 DEF TypeOK, Top
<1>5. AskedInv' /\ FullInv'
  BY <1>3 DEF AskedInv, FullInv
<1>6. SoundInv'
  BY <1>3, <1>4 DEF SoundInv
<1>7. CompleteInv'
  <2> SUFFICES ASSUME NEW x \in nodes, NEW o \in view[x].owners, <<o, x>> \notin edges
               PROVE  \E j \in 1..Len(stack') : stack'[j].object = x /\ o \in stack'[j].todo
    BY DEF CompleteInv, Awaited
  <2>1. PICK i \in 1..Len(stack) : stack[i].object = x /\ o \in stack[i].todo
    BY <1>3 DEF CompleteInv, Awaited
  <2>2. i - 1 \in 1..Len(stack') /\ (i - 1) + 1 = i
    BY <2>1, <1>4
  <2> QED
    BY <2>1, <2>2, <1>4
<1>8. ReachedInv'
  <2>1. \A p \in Pods : Reached(p)' = Reached(p)
    BY DEF Reached
  <2> QED
    BY <2>1, <1>3 DEF ReachedInv
<1> QED
  BY <1>5, <1>6, <1>7, <1>8 DEF CalmInv

(* A step that changes neither the cluster nor the answer nor the calls.     *)
LEMMA StutterKeepsCalm ==
  ASSUME JInv, UNCHANGED <<cluster, stack, seen, answer>>,
         outcome' = outcome \/ (outcome = "walking" /\ outcome' = "done" /\ stack = << >>)
  PROVE  SeenInv' /\ CalmInv'
<1> USE DEF cluster, answer
<1>1. SeenInv'
  BY DEF JInv, SeenInv
<1>2. SUFFICES ASSUME calm' PROVE CalmInv'
  BY <1>1 DEF CalmInv
<1>3. AskedInv /\ SoundInv /\ CompleteInv /\ ReachedInv /\ FullInv
  BY <1>2 DEF JInv, CalmInv
<1>4. AskedInv' /\ SoundInv' /\ FullInv'
  BY <1>3 DEF AskedInv, SoundInv, FullInv
<1>5. CompleteInv'
  <2>1. \A x, o : Awaited(o, x)' = Awaited(o, x)
    BY DEF Awaited
  <2> QED
    BY <2>1, <1>3 DEF CompleteInv
<1>6. ReachedInv'
  BY <1>3 DEF ReachedInv, Reached
<1> QED
  BY <1>4, <1>5, <1>6 DEF CalmInv

LEMMA NextJInv == JInv /\ [Next]_vars => JInv'
<1> SUFFICES ASSUME JInv, [Next]_vars PROVE JInv'
  OBVIOUS
<1>1. IInv'
  BY NextIInv DEF JInv
<1>2. SUFFICES SeenInv' /\ CalmInv'
  BY <1>1 DEF JInv
<1>3. CASE UNCHANGED vars
  <2>1. UNCHANGED <<cluster, stack, seen, answer>> /\ outcome' = outcome
    BY <1>3 DEF vars, cluster, answer
  <2> QED
    BY <2>1, StutterKeepsCalm
<1>4. ASSUME NEW p \in Pods, StartPod(p) PROVE SeenInv' /\ CalmInv'
  BY <1>4, StartPodKeepsCalm
<1>5. ASSUME NEW o \in Owners, NEW a \in Answers(o), Follow(o, a) PROVE SeenInv' /\ CalmInv'
  BY <1>5, FollowKeepsCalm
<1>6. ASSUME NEW o \in Owners, FollowFails(o) PROVE SeenInv' /\ CalmInv'
  BY <1>6, FollowFailsKeepsCalm
<1>7. CASE Return
  BY <1>7, ReturnKeepsCalm
<1>8. CASE Finish
  BY <1>8, StutterKeepsCalm DEF Finish
<1> QED
  BY <1>3, <1>4, <1>5, <1>6, <1>7, <1>8 DEF Next

(* JInv holds in every reachable state.                                      *)
THEOREM CalmInvariance == Spec => []JInv
BY InitJInv, NextJInv, PTL DEF Spec

(* When nothing is left on the stack, what the answer shows is closed, and   *)
(* so holds every owner there is to be reached.                              *)
LEMMA ExactFromJInv == JInv => CalmWalkIsExact
<1> DEFINE roots == nodes \cap Pods
           all == roots \cup (UNION {Reached(p) : p \in roots})
<1> SUFFICES ASSUME JInv, calm, outcome = "done"
             PROVE  /\ nodes = all
                    /\ all \cap Known = asked
                    /\ edges = {e \in Edges : e[2] \in all /\ e[1] \in view[e[2]].owners}
                    /\ full = {o \in all \cap Owners : view[o].found}
  BY Zenon DEF CalmWalkIsExact
<1>1. TypeOK /\ NothingDangles /\ AskedInv /\ SoundInv /\ CompleteInv /\ ReachedInv /\ FullInv
      /\ stack = << >>
  BY DEF JInv, IInv, SeenInv, CalmInv
<1>2. nodes \subseteq Objects /\ edges \subseteq Edges /\ view \in [Objects -> {Bare} \cup Objs]
  BY <1>1 DEF TypeOK
<1>3. \A x \in nodes : \A o \in view[x].owners : <<o, x>> \in edges /\ o \in nodes
  <2>1. \A x, o : ~Awaited(o, x)
    BY <1>1 DEF Awaited
  <2>2. \A x \in nodes : \A o \in view[x].owners : <<o, x>> \in edges
    BY <2>1, <1>1 DEF CompleteInv
  <2>3. \A x, o : <<o, x>> \in edges => o \in nodes
    <3> TAKE x, o
    <3>1. <<o, x>>[1] = o
      OBVIOUS
    <3> QED
      BY <3>1, <1>1 DEF NothingDangles
  <2> QED
    BY <2>2, <2>3
<1>4. nodes \subseteq all
  <2>1. \A o \in nodes \cap Owners : o \in UNION {Reached(p) : p \in roots}
    BY <1>1 DEF ReachedInv
  <2> QED
    BY <2>1, <1>2 DEF Objects
<1>5. all \subseteq nodes
  <2> SUFFICES ASSUME NEW p \in roots, NEW o \in Reached(p) PROVE o \in nodes
    OBVIOUS
  <2> DEFINE S == nodes \cap Owners
  <2>1. \A c \in nodes : view[c].owners \subseteq S
    <3> TAKE c \in nodes
    <3>1. view[c] \in {Bare} \cup Objs
      BY <1>2
    <3>2. view[c].owners \subseteq Owners
      BY <3>1, AnswerOwners
    <3> QED
      BY <3>2, <1>3
  <2>2. view[p].owners \subseteq S /\ \A c \in S : view[c].owners \subseteq S
    BY <2>1
  <2>3. S \in SUBSET Owners
    OBVIOUS
  <2>4. o \in S
    BY <2>2, <2>3 DEF Reached
  <2> QED
    BY <2>4
<1>6. nodes = all
  BY <1>4, <1>5
<1> HIDE DEF all, roots
<1>7. all \cap Known = asked
  BY <1>1, <1>6 DEF AskedInv
<1>8. edges = {e \in Edges : e[2] \in all /\ e[1] \in view[e[2]].owners}
  <2>1. \A e \in edges : e \in Edges /\ e[2] \in nodes /\ e[1] \in view[e[2]].owners
    BY <1>1, <1>2 DEF SoundInv, NothingDangles
  <2>2. ASSUME NEW e \in Edges, e[2] \in nodes, e[1] \in view[e[2]].owners PROVE e \in edges
    <3>1. e = <<e[1], e[2]>>
      BY DEF Edges
    <3>2. <<e[1], e[2]>> \in edges
      BY <2>2, <1>3
    <3> QED
      BY <3>1, <3>2
  <2> QED
    BY <2>1, <2>2, <1>6
<1>9. full = {o \in all \cap Owners : view[o].found}
  BY <1>1, <1>6 DEF FullInv
<1> QED
  BY <1>6, <1>7, <1>8, <1>9

(* While the cluster stays the same the answer is exact: all the owners      *)
(* there are to reach, whatever graph they form, and every edge among them.  *)
THEOREM CalmAnswersExact == Spec => []CalmWalkIsExact
BY CalmInvariance, ExactFromJInv, PTL

=============================================================================
