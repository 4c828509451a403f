------------------------- MODULE EventReportsProofs -------------------------
(***************************************************************************)
(* Proofs about the three views of Pods and their Events, for all Pods,    *)
(* statuses, Events and limits.                                            *)
(*                                                                         *)
(* No view keeps silent about a container that crashes or cannot pull its  *)
(* image, and the explanation knows the errors of the others (IInv).  The  *)
(* views differ in which container they look at: each of them tells of     *)
(* every Pod that is not ready, the kubelet calls no Pod ready that has    *)
(* such a container, and the reason health and dump quote is some          *)
(* container's.                                                            *)
(*                                                                         *)
(* The newest Events are shown, each counted by one signal, and what is    *)
(* over is told as over (EInv).  A finite set can be sorted, so that       *)
(* NewestFirst and Ascending choose a listing; merging and cutting keep    *)
(* its order.  The loops over the Events shown are functions by recursion: *)
(* they exist, and count and quote what they should, by the least number   *)
(* of steps after which they would not.  What each answer says is stated   *)
(* of the Events alone, which nothing changes.                             *)
(***************************************************************************)
EXTENDS EventReports, FiniteSetTheorems, FunctionTheorems, SequenceTheorems, WellFoundedInduction,
        TLAPS

NotReady(p) == Signal("warning", "not_ready", <<"Pod", p>>, 0, 0)

HasStatuses(list) == \A p \in DOMAIN list : list[p] \in Statuses

(* Lists hold statuses that the kubelet can give; the explanation lists one  *)
(* Pod.                                                                      *)
ListInv ==
  /\ HasStatuses(pods)
  /\ listed = [v \in Views |-> listed[v]]
  /\ \A v \in Views : listed[v] # None => HasStatuses(listed[v])
  /\ listed["explain"] # None => DOMAIN listed["explain"] = {Explained}

(* An answer tells of each Pod of its list that is not ready.                *)
ToldInv ==
  /\ answer = [v \in Views |-> answer[v]]
  /\ \A v \in Answered :
       /\ listed[v] # None
       /\ \A p \in DOMAIN listed[v] : ~listed[v][p].ready => NotReady(p) \in answer[v].signals

(* An error of health or dump about a Pod's status is the wait of the        *)
(* container they quote; the explanation has the waits of all containers.    *)
Waits(s, p) ==
  UNION {WaitSignal(s.containers[i].reason, <<"Pod", p>>) : i \in DOMAIN s.containers}

ErrorsOf(signals, p) ==
  {g \in signals : /\ g.severity = "error" /\ g.reason \in StatusReasons
                   /\ g.about = <<"Pod", p>>}

ErrorInv ==
  /\ \A v \in Answered \ {"explain"} : \A p \in DOMAIN listed[v] :
       ErrorsOf(answer[v].signals, p) \subseteq Waits(listed[v][p], p)
  /\ "explain" \in Answered =>
       Waits(listed["explain"][Explained], Explained) \subseteq answer["explain"].signals

IInv == ListInv /\ ToldInv /\ ErrorInv

-----------------------------------------------------------------------------
LEMMA StatusSignal ==
  ASSUME NEW p, NEW s, ~s.ready
  PROVE  NotReady(p) \in Status("warning", "not_ready", <<"Pod", p>>, ~s.ready)
BY DEF Status, NotReady

(* buildSignals, of the explanation.                                         *)
LEMMA ExplanationTells ==
  ASSUME NEW p, NEW s, NEW shown, ~s.ready
  PROVE  NotReady(p) \in buildSignals(p, s, shown)
BY StatusSignal DEF buildSignals

(* namespaceSignals and dumpSignals.                                         *)
LEMMA HealthTells ==
  ASSUME NEW list, NEW shown, NEW p \in DOMAIN list, ~list[p].ready
  PROVE  NotReady(p) \in namespaceSignals(list, shown)
<1>1. NotReady(p) \in PodSignals(p, list[p])
  BY StatusSignal DEF PodSignals
<1> QED BY <1>1 DEF namespaceSignals

LEMMA DumpTells ==
  ASSUME NEW list, NEW shown, NEW p \in DOMAIN list, ~list[p].ready
  PROVE  NotReady(p) \in dumpSignals(list, shown)
<1>1. NotReady(p) \in PodSignals(p, list[p])
  BY StatusSignal DEF PodSignals
<1> QED BY <1>1 DEF dumpSignals

(* The least element that podHealthReason chooses.                           *)
LEMMA LeastExists ==
  ASSUME NEW S, S \subseteq Nat, S # {}
  PROVE  \E i \in S : \A j \in S : i <= j
<1> DEFINE less == OpToRel(<, Nat)
<1>1. IsWellFoundedOn(less, Nat)
  BY NatLessThanWellFounded
<1>2. \A i, j \in Nat : j < i => <<j, i>> \in less
  BY DEF OpToRel
<1> HIDE DEF less
<1>3. PICK i \in S : \A j \in S : <<j, i>> \notin less
  BY <1>1, WFMin
<1>4. \A j \in S : ~(j < i)
  BY <1>2, <1>3
<1> QED BY <1>4

(* podHealthReason is the reason of a container, or none.                    *)
LEMMA QuotedIsAWait ==
  ASSUME NEW s \in Statuses, NEW p
  PROVE  WaitSignal(podHealthReason(s), <<"Pod", p>>) \subseteq Waits(s, p)
<1> DEFINE some == {i \in DOMAIN s.containers : s.containers[i].reason # ""}
<1>1. CASE some = {}
  <2>1. podHealthReason(s) = ""
    BY <1>1 DEF podHealthReason
  <2> QED BY <2>1 DEF WaitSignal, Status
<1>2. CASE some # {}
  <2>1. \E i \in some : \A j \in some : i <= j
    BY <1>2, LeastExists, StatusesAssumption
  <2>2. PICK i \in some : podHealthReason(s) = s.containers[i].reason
    BY <1>2, <2>1 DEF podHealthReason
  <2> QED BY <2>2 DEF Waits
<1> QED BY <1>1, <1>2

(* Signals of Events are errors for one reason only.                         *)
LEMMA EventErrors ==
  ASSUME NEW list, NEW shown,
         NEW g \in namespaceEventSignals(list, shown) \cup dumpEventSignals(shown),
         g.severity = "error"
  PROVE  g.reason = "BackOff"
<1>1. \A r, about, count, latest :
        /\ g # Signal("info", r, about, count, latest)
        /\ g # Signal("warning", r, about, count, latest)
        /\ g = Signal("error", r, about, count, latest) => g.reason = r
  BY DEF Signal
<1>2. CASE g \in namespaceEventSignals(list, shown)
  <2> DEFINE past(r) == Group(shown, {i \in Warnings : Kind(i).reason = r /\ Resolved(list, i)})
             open(r, o) ==
               Group(shown, {i \in Warnings :
                              Kind(i).reason = r /\ Kind(i).about = o /\ ~Resolved(list, i)})
             told(x) == Signal(IF x[1] = "BackOff" THEN "error" ELSE "warning", x[1], x[2],
                               open(x[1], x[2]).count, open(x[1], x[2]).latest)
  <2>1. g \in {Signal("info", r, None, past(r).count, past(r).latest) :
                  r \in {r \in Reasons : past(r) # Nobody}}
             \cup {told(x) : x \in {x \in Reasons \X Subjects : open(x[1], x[2]) # Nobody}}
    BY <1>2 DEF namespaceEventSignals
  <2> HIDE DEF past, open
  <2>2. PICK x : g = told(x)
    BY <2>1, <1>1
  <2> QED BY <2>2, <1>1
<1>3. CASE g \in dumpEventSignals(shown)
  <2> DEFINE group(key) == Group(shown, {i \in Warnings : DumpKey(i) = key})
             told(key) == Signal(IF key[2] = "BackOff" THEN "error" ELSE "warning", key[2], None,
                                 group(key).count, group(key).latest)
  <2>1. g \in {told(key) : key \in {DumpKey(shown[n]) : n \in DOMAIN shown}}
    BY <1>3 DEF dumpEventSignals
  <2> HIDE DEF group
  <2>2. PICK key : g = told(key)
    BY <2>1
  <2> QED BY <2>2, <1>1
<1> QED BY <1>2, <1>3

LEMMA StatusIs ==
  ASSUME NEW severity, NEW reason, NEW about, NEW holds,
         NEW g \in Status(severity, reason, about, holds)
  PROVE  g.severity = severity /\ g.about = about
<1>1. g = Signal(severity, reason, about, 0, 0)
  BY DEF Status
<1> QED BY <1>1 DEF Signal

LEMMA PodErrors ==
  ASSUME NEW q, NEW s, NEW g \in PodSignals(q, s), g.severity = "error"
  PROVE  g \in WaitSignal(podHealthReason(s), <<"Pod", q>>) /\ g.about = <<"Pod", q>>
<1>1. g \notin Status("warning", "not_ready", <<"Pod", q>>, ~s.ready)
  BY StatusIs
<1>2. g \in WaitSignal(podHealthReason(s), <<"Pod", q>>)
  BY <1>1 DEF PodSignals
<1> QED BY <1>2, StatusIs DEF WaitSignal

LEMMA HealthErrors ==
  ASSUME NEW list, HasStatuses(list), NEW shown, NEW p \in DOMAIN list
  PROVE  ErrorsOf(namespaceSignals(list, shown), p) \subseteq Waits(list[p], p)
<1> SUFFICES ASSUME NEW g \in ErrorsOf(namespaceSignals(list, shown), p)
             PROVE  g \in Waits(list[p], p)
  OBVIOUS
<1>1. g \notin namespaceEventSignals(list, shown)
  BY EventErrors DEF ErrorsOf, StatusReasons
<1> DEFINE signals(q) ==
      PodSignals(q, list[q])
        \cup Status("warning", "high_restart_count", <<"Pod", q>>, podRestarts(list[q]) >= 5)
<1>2. PICK q \in DOMAIN list : g \in signals(q)
  <2>1. g \in UNION {signals(q) : q \in DOMAIN list}
    <3>1. g \in namespaceSignals(list, shown)
      BY DEF ErrorsOf
    <3> QED BY <1>1, <3>1 DEF namespaceSignals
  <2> HIDE DEF signals
  <2> QED BY <2>1
<1>3. g \in PodSignals(q, list[q])
  BY <1>2, StatusIs DEF ErrorsOf
<1>4. p = q
  <2>1. g.about = <<"Pod", p>> /\ g.severity = "error"
    BY DEF ErrorsOf
  <2>2. g.about = <<"Pod", q>>
    BY <1>3, <2>1, PodErrors
  <2> QED BY <2>1, <2>2
<1> QED BY <1>3, <1>4, PodErrors, QuotedIsAWait DEF ErrorsOf, HasStatuses

LEMMA DumpErrors ==
  ASSUME NEW list, HasStatuses(list), NEW shown, NEW p \in DOMAIN list
  PROVE  ErrorsOf(dumpSignals(list, shown), p) \subseteq Waits(list[p], p)
<1> SUFFICES ASSUME NEW g \in ErrorsOf(dumpSignals(list, shown), p)
             PROVE  g \in Waits(list[p], p)
  OBVIOUS
<1>1. g \notin dumpEventSignals(shown)
  BY EventErrors DEF ErrorsOf, StatusReasons
<1>2. PICK q \in DOMAIN list : g \in PodSignals(q, list[q])
  <2>1. g \in UNION {PodSignals(q, list[q]) : q \in DOMAIN list}
    <3>1. g \in dumpSignals(list, shown)
      BY DEF ErrorsOf
    <3> QED BY <1>1, <3>1 DEF dumpSignals
  <2> QED BY <2>1
<1>3. p = q
  <2>1. g.about = <<"Pod", p>> /\ g.severity = "error"
    BY DEF ErrorsOf
  <2>2. g.about = <<"Pod", q>>
    BY <1>2, <2>1, PodErrors
  <2> QED BY <2>1, <2>2
<1> QED BY <1>2, <1>3, PodErrors, QuotedIsAWait DEF ErrorsOf, HasStatuses

(* ContainerSignals, of every container.                                     *)
LEMMA ExplanationHasWaits ==
  ASSUME NEW p, NEW s, NEW shown
  PROVE  Waits(s, p) \subseteq buildSignals(p, s, shown)
<1>1. \A i \in DOMAIN s.containers :
        WaitSignal(s.containers[i].reason, <<"Pod", p>>)
          \subseteq ContainerSignals(s.containers[i], <<"Pod", p>>)
  BY DEF ContainerSignals
<1> QED BY <1>1 DEF Waits, buildSignals

-----------------------------------------------------------------------------
LEMMA InitInv == Init => IInv
BY DEF Init, IInv, ListInv, ToldInv, ErrorInv, HasStatuses, Answered, Views

LEMMA ReadPodsInv ==
  ASSUME IInv, NEW v \in Views, ReadPods(v)
  PROVE  IInv'
<1> USE DEF IInv
<1>1. ListInv'
  BY DEF ReadPods, ListInv, HasStatuses, Views
<1>2. v \notin Answered /\ Answered' = Answered /\ answer' = answer
  BY DEF ReadPods, ToldInv, Answered
<1>3. \A w \in Answered : listed'[w] = listed[w]
  BY <1>2 DEF ReadPods, ListInv, Answered
<1>4. ToldInv'
  BY <1>2, <1>3 DEF ToldInv
<1>5. ErrorInv'
  BY <1>2, <1>3 DEF ErrorInv
<1> QED BY <1>1, <1>4, <1>5

(* What an answer must say, by what it was made of.                          *)
Sound(v, a) ==
  /\ \A p \in DOMAIN listed[v] : ~listed[v][p].ready => NotReady(p) \in a.signals
  /\ v # "explain" =>
       \A p \in DOMAIN listed[v] : ErrorsOf(a.signals, p) \subseteq Waits(listed[v][p], p)
  /\ v = "explain" => Waits(listed["explain"][Explained], Explained) \subseteq a.signals

LEMMA ReadEventsInv ==
  ASSUME IInv, NEW v \in Views, ReadEvents(v)
  PROVE  IInv'
<1> USE DEF IInv
<1>1. ListInv'
  BY DEF ReadEvents, ListInv
<1>2. HasStatuses(listed[v])
  BY DEF ReadEvents, ListInv
<1>3. PICK a : answer' = [answer EXCEPT ![v] = a] /\ Sound(v, a)
  <2>1. CASE v = "explain" /\ answer' = [answer EXCEPT ![v] = ResolvePodContext]
    <3>1. DOMAIN listed[v] = {Explained}
      BY <2>1 DEF ReadEvents, ListInv
    <3>2. ~listed[v][Explained].ready => NotReady(Explained) \in ResolvePodContext.signals
      BY <2>1, ExplanationTells DEF ResolvePodContext
    <3>3. Waits(listed["explain"][Explained], Explained) \subseteq ResolvePodContext.signals
      BY ExplanationHasWaits DEF ResolvePodContext
    <3> QED BY <2>1, <3>1, <3>2, <3>3 DEF Sound
  <2>2. CASE v = "dump" /\ answer' = [answer EXCEPT ![v] = DumpNamespace]
    <3>1. DumpNamespace.signals = dumpSignals(listed[v], dumpWarningEvents)
      BY <2>2 DEF DumpNamespace
    <3>2. Sound(v, DumpNamespace)
      BY <1>2, <2>2, <3>1, DumpTells, DumpErrors DEF Sound
    <3> QED BY <2>2, <3>2
  <2>3. CASE v = "health" /\ \E shown \in namespaceWarningEvents :
                               answer' = [answer EXCEPT ![v] = NamespaceHealth(shown)]
    <3>1. PICK shown : answer' = [answer EXCEPT ![v] = NamespaceHealth(shown)]
      BY <2>3
    <3>2. NamespaceHealth(shown).signals = namespaceSignals(listed[v], shown)
      BY <2>3 DEF NamespaceHealth
    <3>3. Sound(v, NamespaceHealth(shown))
      BY <1>2, <2>3, <3>2, HealthTells, HealthErrors DEF Sound
    <3> QED BY <3>1, <3>3
  <2> QED BY <2>1, <2>2, <2>3 DEF ReadEvents
<1>4. listed' = listed /\ listed[v] # None
  BY DEF ReadEvents
<1>5. answer' = [w \in Views |-> IF w = v THEN a ELSE answer[w]]
  BY <1>3 DEF ToldInv
<1>6. ToldInv'
  BY <1>3, <1>4, <1>5 DEF ToldInv, Answered, Sound
<1>7. ErrorInv'
  BY <1>3, <1>4, <1>5 DEF ErrorInv, Answered, Sound
<1> QED BY <1>1, <1>6, <1>7

LEMMA PodChangesInv ==
  ASSUME IInv, PodChanges
  PROVE  IInv'
<1>1. HasStatuses(pods)'
  BY DEF IInv, ListInv, PodChanges, HasStatuses
<1> QED BY <1>1 DEF IInv, ListInv, ToldInv, ErrorInv, PodChanges, Answered

LEMMA Invariance == Spec => []IInv
<1>1. IInv /\ [Next]_vars => IInv'
  <2> SUFFICES ASSUME IInv, [Next]_vars PROVE IInv'
    OBVIOUS
  <2>1. CASE UNCHANGED vars
    BY <2>1 DEF vars, IInv, ListInv, ToldInv, ErrorInv, Answered, HasStatuses
  <2>2. CASE Next
    BY <2>2, ReadPodsInv, ReadEventsInv, PodChangesInv DEF Next
  <2> QED BY <2>1, <2>2
<1> QED BY InitInv, <1>1, PTL DEF Spec

-----------------------------------------------------------------------------
LEMMA WaitingIsTold ==
  ASSUME IInv, NEW v \in Answered, NEW p \in DOMAIN listed[v],
         NEW i \in DOMAIN listed[v][p].containers,
         listed[v][p].containers[i].reason \in Waiting
  PROVE  \E g \in PodAlarms(v, p) : g.severity \in {"warning", "error"}
<1>1. listed[v][p] \in Statuses
  BY DEF IInv, ListInv, ToldInv, HasStatuses, Answered
<1>2. ~listed[v][p].ready
  BY <1>1, StatusesAssumption DEF Waiting
<1>3. NotReady(p) \in answer[v].signals
  BY <1>2 DEF IInv, ToldInv
<1>4. NotReady(p) \in PodAlarms(v, p) /\ NotReady(p).severity = "warning"
  BY <1>3 DEF PodAlarms, StatusReasons, NotReady, Signal
<1> QED BY <1>4

LEMMA ErrorsAreExplained ==
  ASSUME IInv, "explain" \in Answered,
         NEW v \in Answered, NEW p \in DOMAIN listed[v] \cap {Explained},
         listed[v][p] = listed["explain"][p],
         NEW g \in PodAlarms(v, p), g.severity = "error"
  PROVE  g \in PodAlarms("explain", p)
<1>1. CASE v = "explain"
  BY <1>1
<1>2. CASE v # "explain"
  <2>1. g \in Waits(listed[v][p], p)
    BY <1>2 DEF IInv, ErrorInv, ErrorsOf, PodAlarms
  <2>2. g \in answer["explain"].signals
    BY <2>1 DEF IInv, ErrorInv
  <2> QED BY <2>2 DEF PodAlarms
<1> QED BY <1>1, <1>2

(* A Pod with a container that crashes or cannot pull its image is told of   *)
(* by explain, health and dump, whichever container of the Pod it is and     *)
(* whatever happens between the reads; and an error of health or dump about  *)
(* the Pod is one of its explanation.                                        *)
THEOREM TroubleTold == Spec => []TroubleIsTold
<1>1. IInv => TroubleIsTold
  BY WaitingIsTold, ErrorsAreExplained DEF TroubleIsTold, CrashesAreTold
<1> QED BY Invariance, <1>1, PTL

-----------------------------------------------------------------------------
(* Lists of Events: what sorting, merging and cutting do, for every list.    *)

(* Of some subsets of a finite set one has none of the others as a part.     *)
LEMMA SmallestSubset ==
  ASSUME NEW S, IsFiniteSet(S), NEW some \in SUBSET SUBSET S, some # {}
  PROVE  \E T \in some : \A U \in some : U \subseteq T => U = T
<1> DEFINE less == StrictSubsetOrdering(S)
<1>1. IsWellFoundedOn(less, SUBSET S)
  BY FS_StrictSubsetOrderingWellFounded, FS_FiniteSubsetsOfFinite
<1>2. \A T, U \in SUBSET S : U \subseteq T /\ U # T => <<U, T>> \in less
  BY DEF StrictSubsetOrdering, OpToRel
<1> HIDE DEF less
<1>3. PICK T \in some : \A U \in some : <<U, T>> \notin less
  BY <1>1, WFMin
<1> QED
  BY <1>2, <1>3

(* A finite set with a total order has a last member ...                     *)
LEMMA LastExists ==
  ASSUME NEW S, IsFiniteSet(S), S # {}, NEW R,
         \A i, j \in S : i # j => <<i, j>> \in R \/ <<j, i>> \in R,
         \A i, j, k \in S : <<i, j>> \in R /\ <<j, k>> \in R => <<i, k>> \in R
  PROVE  \E x \in S : \A y \in S \ {x} : <<y, x>> \in R
<1> DEFINE HasLast(T) == \E x \in T : \A y \in T \ {x} : <<y, x>> \in R
           bad == {T \in SUBSET S : T # {} /\ ~HasLast(T)}
<1>1. SUFFICES ASSUME bad # {} PROVE FALSE
  OBVIOUS
<1>2. PICK T \in bad : \A U \in bad : U \subseteq T => U = T
  <2> HIDE DEF HasLast
  <2>1. bad \in SUBSET SUBSET S
    OBVIOUS
  <2> HIDE DEF bad
  <2> QED
    BY <1>1, <2>1, SmallestSubset
<1>3. PICK x \in T : x \in S
  BY <1>2
<1>4. T \subseteq S /\ ~HasLast(T)
  BY <1>2
<1>5. T \ {x} # {}
  BY <1>3, <1>4
<1>6. HasLast(T \ {x})
  <2> HIDE DEF HasLast
  <2>1. T \ {x} \notin bad
    BY <1>2, <1>3
  <2> QED
    BY <2>1, <1>4, <1>5
<1>7. PICK z \in T \ {x} : \A y \in (T \ {x}) \ {z} : <<y, z>> \in R
  BY <1>6
<1>8. CASE <<z, x>> \in R
  <2>1. \A y \in T \ {x} : <<y, x>> \in R
    BY <1>3, <1>4, <1>7, <1>8
  <2> QED
    BY <2>1, <1>3, <1>4
<1>9. CASE <<x, z>> \in R
  <2>1. \A y \in T \ {z} : <<y, z>> \in R
    BY <1>7, <1>9
  <2> QED
    BY <2>1, <1>4, <1>7
<1> QED
  BY <1>3, <1>4, <1>7, <1>8, <1>9

(* ... and can be listed in its order.                                       *)
LEMMA SortExists ==
  ASSUME NEW S, IsFiniteSet(S), NEW R,
         \A i, j \in S : i # j => <<i, j>> \in R \/ <<j, i>> \in R,
         \A i, j, k \in S : <<i, j>> \in R /\ <<j, k>> \in R => <<i, k>> \in R
  PROVE  \E s \in SetToSeqs(S) : \A m, n \in DOMAIN s : m < n => <<s[m], s[n]>> \in R
<1> DEFINE Sorted(s) == \A m, n \in DOMAIN s : m < n => <<s[m], s[n]>> \in R
           bad == {T \in SUBSET S : ~\E s \in SetToSeqs(T) : Sorted(s)}
<1>1. SUFFICES ASSUME bad # {} PROVE FALSE
  OBVIOUS
<1>2. PICK T \in bad : \A U \in bad : U \subseteq T => U = T
  <2> HIDE DEF Sorted
  <2>1. bad \in SUBSET SUBSET S
    OBVIOUS
  <2> HIDE DEF bad
  <2> QED
    BY <1>1, <2>1, SmallestSubset
<1>3. T \subseteq S /\ ~\E s \in SetToSeqs(T) : Sorted(s)
  BY <1>2
<1>4. IsFiniteSet(T)
  BY <1>3, FS_Subset
<1>5. CASE T = {}
  <2>1. Cardinality(T) = 0
    BY <1>5, FS_EmptySet
  <2> DEFINE s == [n \in 1..0 |-> {}]
  <2>2. s \in SetToSeqs(T) /\ Sorted(s)
    BY <1>5, <2>1 DEF SetToSeqs
  <2> QED
    BY <1>3, <2>2
<1>6. CASE T # {}
  <2>1. PICK x \in T : \A y \in T \ {x} : <<y, x>> \in R
    <3>1. /\ \A i, j \in T : i # j => <<i, j>> \in R \/ <<j, i>> \in R
          /\ \A i, j, k \in T : <<i, j>> \in R /\ <<j, k>> \in R => <<i, k>> \in R
      BY <1>3
    <3> HIDE DEF bad, Sorted
    <3> QED
      BY <3>1, <1>4, <1>6, LastExists
  <2> DEFINE rest == T \ {x}
             c == Cardinality(rest)
  <2>2. IsFiniteSet(rest) /\ c \in Nat /\ Cardinality(T) = c + 1
    <3>1. IsFiniteSet(rest) /\ Cardinality(rest) = Cardinality(T) - 1
      BY <1>4, <2>1, FS_RemoveElement
    <3> QED
      BY <3>1, <1>4, FS_CardinalityType
  <2>3. PICK s \in SetToSeqs(rest) : Sorted(s)
    <3>1. rest \notin bad
      BY <1>2, <2>1
    <3> QED
      BY <3>1, <1>3
  <2>4. s \in [1..c -> rest] /\ \A i, j \in 1..c : i # j => s[i] # s[j]
    BY <2>3 DEF SetToSeqs
  <2> HIDE DEF c
  <2> DEFINE t == [n \in 1..(c + 1) |-> IF n = c + 1 THEN x ELSE s[n]]
  <2>5. \A n \in 1..(c + 1) : n = c + 1 \/ n \in 1..c
    BY <2>2
  <2>6. t \in [1..(c + 1) -> T]
    BY <2>1, <2>4, <2>5
  <2>7. \A i, j \in 1..(c + 1) : i # j => t[i] # t[j]
    BY <2>4, <2>5
  <2>8. t \in SetToSeqs(T)
    BY <2>2, <2>6, <2>7 DEF SetToSeqs
  <2>9. Sorted(t)
    <3> SUFFICES ASSUME NEW m \in 1..(c + 1), NEW n \in 1..(c + 1), m < n
                 PROVE  <<t[m], t[n]>> \in R
      OBVIOUS
    <3>1. m \in 1..c
      BY <2>2
    <3>2. CASE n = c + 1
      BY <2>1, <2>4, <3>1, <3>2, <2>2
    <3>3. CASE n \in 1..c
      <4>1. <<s[m], s[n]>> \in R
        BY <2>3, <2>4, <3>1, <3>3
      <4> QED
        BY <4>1, <2>2, <3>1, <3>3
    <3> QED
      BY <2>5, <3>2, <3>3
  <2> QED
    BY <1>3, <2>8, <2>9
<1> QED
  BY <1>5, <1>6

(* A listing of a set has each of its members once.                          *)
LEMMA ListingOfSet ==
  ASSUME NEW S, IsFiniteSet(S), NEW s \in SetToSeqs(S)
  PROVE  s \in Seq(S) /\ IsInjective(s) /\ Range(s) = S
<1> DEFINE c == Cardinality(S)
<1>1. c \in Nat
  BY FS_CardinalityType
<1>2. s \in [1..c -> S] /\ \A i, j \in 1..c : i # j => s[i] # s[j]
  BY DEF SetToSeqs
<1> HIDE DEF c
<1>3. s \in Seq(S) /\ IsInjective(s) /\ s \in Injection(1..c, S)
  BY <1>1, <1>2 DEF IsInjective, Injection
<1>4. IsFiniteSet(1..c) /\ Cardinality(1..c) = Cardinality(S)
  BY <1>1, FS_Interval DEF c
<1>5. s \in Surjection(1..c, S)
  BY <1>3, <1>4, FS_Injection
<1>6. Range(s) = S
  BY <1>2, <1>5 DEF Surjection, Range
<1> QED
  BY <1>3, <1>6

LEMMA MemberOfList ==
  ASSUME NEW T, NEW s \in Seq(T)
  PROVE  Len(s) \in Nat /\ DOMAIN s = 1..Len(s) /\ \A i \in DOMAIN s : s[i] \in T
OBVIOUS

(* The Events of the cluster, which no request changes.                      *)
EventsOK == events \in Seq([kind : Kinds, time : 1..MaxTime])

LEMMA EventFacts ==
  ASSUME EventsOK
  PROVE  /\ IsFiniteSet(Warnings) /\ Warnings \subseteq Nat \ {0}
         /\ \A i \in Warnings : Kind(i) \in Kinds /\ eventTime(i) \in Nat
<1> DEFINE Event == [kind : Kinds, time : 1..MaxTime]
<1>1. /\ Len(events) \in Nat /\ DOMAIN events = 1..Len(events)
      /\ \A i \in DOMAIN events : events[i] \in Event
  <2>1. events \in Seq(Event)
    BY DEF EventsOK
  <2> HIDE DEF Event
  <2> QED
    BY <2>1, MemberOfList
<1>2. \A i \in DOMAIN events : events[i].kind \in Kinds /\ events[i].time \in Nat
  <2>1. \A e \in Event : e.kind \in Kinds /\ e.time \in Nat
    BY LimitAssumption
  <2> HIDE DEF Event
  <2> QED
    BY <1>1, <2>1
<1>3. IsFiniteSet(1..Len(events))
  BY <1>1, FS_Interval
<1>4. Warnings \in SUBSET (1..Len(events))
  BY <1>1 DEF Warnings
<1>5. IsFiniteSet(Warnings)
  BY <1>3, <1>4, FS_Subset
<1>6. \A i \in Warnings : Kind(i) \in Kinds /\ eventTime(i) \in Nat
  BY <1>2 DEF Warnings, Kind, eventTime
<1> QED
  BY <1>4, <1>5, <1>6

(* A list of Events in S, each at most once and none before a newer one.     *)
Newest(s) == \A m, n \in DOMAIN s : m < n => eventTime(s[m]) >= eventTime(s[n])
Listing(s, S) == s \in Seq(S) /\ IsInjective(s) /\ Newest(s)

LEMMA NewestFirstLists ==
  ASSUME EventsOK, NEW S \in SUBSET Warnings
  PROVE  Listing(NewestFirst(S), S) /\ Range(NewestFirst(S)) = S
<1> DEFINE R == {x \in S \X S : Before(x[1], x[2])}
           s == NewestFirst(S)
<1>1. IsFiniteSet(S) /\ S \subseteq Nat /\ \A i \in S : eventTime(i) \in Nat
  BY EventFacts, FS_Subset
<1>2. \A i, j \in S : <<i, j>> \in R <=> Before(i, j)
  OBVIOUS
<1>3. \A i, j \in S : i # j => <<i, j>> \in R \/ <<j, i>> \in R
  <2>1. \A i, j \in S : i # j => Before(i, j) \/ Before(j, i)
    BY <1>1 DEF Before
  <2> HIDE DEF R
  <2> QED
    BY <1>2, <2>1
<1>4. \A i, j, k \in S : <<i, j>> \in R /\ <<j, k>> \in R => <<i, k>> \in R
  <2>1. \A i, j, k \in S : Before(i, j) /\ Before(j, k) => Before(i, k)
    BY <1>1 DEF Before
  <2> HIDE DEF R
  <2> QED
    BY <1>2, <2>1
<1>5. \E t \in SetToSeqs(S) : \A m, n \in DOMAIN t : m < n => Before(t[m], t[n])
  <2>1. \E t \in SetToSeqs(S) : \A m, n \in DOMAIN t : m < n => <<t[m], t[n]>> \in R
    <3> HIDE DEF R
    <3> QED
      BY <1>1, <1>3, <1>4, SortExists
  <2> QED
    BY <2>1
<1>6. s \in SetToSeqs(S) /\ \A m, n \in DOMAIN s : m < n => Before(s[m], s[n])
  BY <1>5 DEF NewestFirst
<1> HIDE DEF s
<1>7. s \in Seq(S) /\ IsInjective(s) /\ Range(s) = S
  BY <1>1, <1>6, ListingOfSet
<1>8. Newest(s)
  <2> SUFFICES ASSUME NEW m \in DOMAIN s, NEW n \in DOMAIN s, m < n
               PROVE  eventTime(s[m]) >= eventTime(s[n])
    BY DEF Newest
  <2>1. s[m] \in S /\ s[n] \in S
    BY <1>7, MemberOfList
  <2>2. eventTime(s[m]) \in Nat /\ eventTime(s[n]) \in Nat
    BY <2>1, <1>1
  <2>3. Before(s[m], s[n])
    BY <1>6
  <2> QED
    BY <2>2, <2>3 DEF Before
<1> QED
  BY <1>7, <1>8 DEF Listing, s

LEMMA UnstableLists ==
  ASSUME EventsOK, NEW S \in SUBSET Warnings, NEW s \in NewestFirstUnstable(S)
  PROVE  Listing(s, S) /\ Range(s) = S
<1>1. IsFiniteSet(S)
  BY EventFacts, FS_Subset
<1>2. s \in Seq(S) /\ IsInjective(s) /\ Range(s) = S
  BY <1>1, ListingOfSet DEF NewestFirstUnstable
<1> QED
  BY <1>2 DEF NewestFirstUnstable, Listing, Newest

LEMMA AscendingLists ==
  ASSUME NEW N \in Nat, NEW S \in SUBSET (1..N)
  PROVE  /\ Ascending(S) \in Seq(S) /\ IsInjective(Ascending(S)) /\ Range(Ascending(S)) = S
         /\ \A m, n \in DOMAIN Ascending(S) : m < n => Ascending(S)[m] < Ascending(S)[n]
<1> DEFINE R == {x \in S \X S : x[1] < x[2]}
<1>1. IsFiniteSet(S)
  <2>1. IsFiniteSet(1..N)
    BY FS_Interval
  <2> QED
    BY <2>1, FS_Subset
<1>2. \A i, j \in S : <<i, j>> \in R <=> i < j
  OBVIOUS
<1>5. \A i \in S : i \in Nat
  OBVIOUS
<1>6. \A i, j \in S : i # j => <<i, j>> \in R \/ <<j, i>> \in R
  <2> HIDE DEF R
  <2> QED
    BY <1>2, <1>5
<1>7. \A i, j, k \in S : <<i, j>> \in R /\ <<j, k>> \in R => <<i, k>> \in R
  <2> HIDE DEF R
  <2> QED
    BY <1>2, <1>5
<1>3. \E t \in SetToSeqs(S) : \A m, n \in DOMAIN t : m < n => t[m] < t[n]
  <2>1. \E t \in SetToSeqs(S) : \A m, n \in DOMAIN t : m < n => <<t[m], t[n]>> \in R
    <3> HIDE DEF R
    <3> QED
      BY <1>1, <1>6, <1>7, SortExists
  <2> QED
    BY <2>1
<1>4. Ascending(S) \in SetToSeqs(S)
      /\ \A m, n \in DOMAIN Ascending(S) : m < n => Ascending(S)[m] < Ascending(S)[n]
  BY <1>3 DEF Ascending
<1> QED
  BY <1>1, <1>4, ListingOfSet

(* dedupePodEvents keeps the order and, of each key, the newest.             *)
LEMMA DedupeLists ==
  ASSUME EventsOK, NEW S \in SUBSET Warnings, NEW s, Listing(s, S)
  PROVE  /\ Listing(dedupePodEvents(s), S)
         /\ \A i \in Range(s) : \E j \in Range(dedupePodEvents(s)) :
              SameKey(i, j) /\ eventTime(j) >= eventTime(i)
<1> DEFINE N == Len(s)
           F == Firsts(s)
           kept == Ascending(F)
           t == dedupePodEvents(s)
<1>1. N \in Nat /\ DOMAIN s = 1..N /\ \A n \in 1..N : s[n] \in S /\ eventTime(s[n]) \in Nat
  BY EventFacts DEF Listing
<1>2. F \in SUBSET (1..N)
  BY <1>1 DEF Firsts
<1>3. /\ kept \in Seq(F) /\ IsInjective(kept) /\ Range(kept) = F
      /\ \A m, n \in DOMAIN kept : m < n => kept[m] < kept[n]
  <2> HIDE DEF F, N
  <2> QED
    BY <1>1, <1>2, AscendingLists
<1>4. t = [n \in DOMAIN kept |-> s[kept[n]]]
  BY DEF dedupePodEvents
<1> HIDE DEF F, N, kept, t
<1>5. Len(kept) \in Nat /\ DOMAIN kept = 1..Len(kept) /\ \A n \in DOMAIN kept : kept[n] \in 1..N
  BY <1>2, <1>3, MemberOfList
<1>6. t \in Seq(S)
  BY <1>1, <1>4, <1>5
<1>7. IsInjective(t)
  BY <1>1, <1>3, <1>4, <1>5 DEF IsInjective, Listing
<1>8. Newest(t)
  BY <1>1, <1>3, <1>4, <1>5 DEF Newest, Listing
<1>9. ASSUME NEW i \in Range(s)
      PROVE  \E j \in Range(t) : SameKey(i, j) /\ eventTime(j) >= eventTime(i)
  <2>1. PICK n \in 1..N : s[n] = i
    BY <1>1 DEF Range
  <2> DEFINE same == {m \in 1..N : m <= n /\ SameKey(i, s[m])}
  <2>2. PICK m \in same : \A k \in same : m <= k
    <3>1. same # {} /\ same \subseteq Nat
      BY <2>1 DEF SameKey
    <3> HIDE DEF same
    <3> QED
      BY <3>1, LeastExists
  <2>3. m \in 1..N /\ m <= n /\ SameKey(i, s[m])
    BY <2>2
  <2>4. m \in F
    <3> SUFFICES ASSUME NEW k \in 1..(m - 1) PROVE ~SameKey(s[k], s[m])
      BY <1>1, <2>3 DEF F, Firsts
    <3>1. k \in 1..N /\ k <= n /\ k < m
      BY <1>1, <2>3
    <3>2. ~SameKey(i, s[k])
      BY <3>1, <2>2
    <3> QED
      BY <3>2, <2>3 DEF SameKey
  <2>5. PICK k \in DOMAIN kept : kept[k] = m
    BY <2>4, <1>3 DEF Range
  <2>6. s[m] \in Range(t)
    BY <2>5, <1>4 DEF Range
  <2>7. eventTime(s[m]) >= eventTime(i)
    BY <1>1, <2>1, <2>3 DEF Listing, Newest
  <2> QED
    BY <2>3, <2>6, <2>7
<1> QED
  BY <1>6, <1>7, <1>8, <1>9 DEF Listing, t

(* Cut leaves out the oldest, and only what is too much.                     *)
LEMMA CutLists ==
  ASSUME EventsOK, NEW S \in SUBSET Warnings, NEW s, Listing(s, S)
  PROVE  /\ Listing(Cut(s), S) /\ Len(Cut(s)) <= Limit /\ Range(Cut(s)) \subseteq Range(s)
         /\ \A i \in Range(s) \ Range(Cut(s)) :
              /\ Len(Cut(s)) = Limit
              /\ \A j \in Range(Cut(s)) : eventTime(j) >= eventTime(i)
<1> DEFINE k == IF Len(s) > Limit THEN Limit ELSE Len(s)
           t == SubSeq(s, 1, k)
<1>1. /\ s \in Seq(S) /\ Len(s) \in Nat /\ DOMAIN s = 1..Len(s)
      /\ \A n \in 1..Len(s) : s[n] \in S
  BY DEF Listing
<1>2. k \in Nat /\ k <= Len(s) /\ k <= Limit /\ (k < Len(s) => k = Limit)
  <2>1. CASE Len(s) > Limit
    <3>1. k = Limit
      BY <2>1
    <3> HIDE DEF k
    <3> QED
      BY <3>1, <2>1, <1>1, LimitAssumption
  <2>2. CASE ~(Len(s) > Limit)
    <3>1. k = Len(s)
      BY <2>2
    <3> HIDE DEF k
    <3> QED
      BY <3>1, <2>2, <1>1, LimitAssumption
  <2> QED
    BY <2>1, <2>2
<1>3. Cut(s) = t
  BY DEF Cut
<1> HIDE DEF k
<1>4. t \in Seq(S) /\ Len(t) = k /\ \A n \in 1..k : t[n] = s[n]
  <2>1. \A n \in 1..k : s[n] \in S
    BY <1>1, <1>2
  <2> QED
    BY <2>1, <1>2, SubSeqProperties
<1> HIDE DEF t
<1>5. DOMAIN t = 1..k /\ \A n \in 1..k : n \in 1..Len(s)
  BY <1>1, <1>2, <1>4
<1>6. Listing(t, S)
  BY <1>1, <1>4, <1>5 DEF Listing, IsInjective, Newest
<1>7. Range(t) \subseteq Range(s)
  BY <1>1, <1>4, <1>5 DEF Range
<1>8. ASSUME NEW i \in Range(s) \ Range(t)
      PROVE  Len(t) = Limit /\ \A j \in Range(t) : eventTime(j) >= eventTime(i)
  <2>1. PICK n \in 1..Len(s) : s[n] = i
    BY <1>1 DEF Range
  <2>2. n \notin 1..k
    BY <2>1, <1>4, <1>5, <1>8 DEF Range
  <2>3. k < n /\ k = Limit
    BY <2>1, <2>2, <1>1, <1>2
  <2>4. ASSUME NEW j \in Range(t) PROVE eventTime(j) >= eventTime(i)
    <3>1. PICK m \in 1..k : t[m] = j
      BY <1>5 DEF Range
    <3>2. m < n /\ s[m] = j
      BY <3>1, <2>1, <2>3, <1>2, <1>4
    <3> QED
      BY <3>1, <3>2, <2>1, <1>1, <1>5 DEF Listing, Newest
  <2> QED
    BY <2>3, <2>4, <1>4
<1> QED
  BY <1>2, <1>3, <1>4, <1>6, <1>7, <1>8

-----------------------------------------------------------------------------
(* The loops over the Events shown.                                          *)

Groups == [count : Nat, latest : Nat]

Runs(f, N, base, step) == f[0] = base /\ \A n \in 1..N : f[n] = step[<<n, f[n - 1]>>]

(* A loop of N steps from a first value has a value after each step.         *)
LEMMA LoopExists ==
  ASSUME NEW N \in Nat, NEW G, NEW base \in G, NEW step \in [(1..N) \X G -> G]
  PROVE  \E f \in [0..N -> G] : Runs(f, N, base, step)
<1> DEFINE Upto(m, f) == f \in [0..m -> G] /\ Runs(f, m, base, step)
           bad == {m \in 0..N : ~\E f : Upto(m, f)}
<1>1. SUFFICES ASSUME bad # {} PROVE FALSE
  <2>1. N \notin bad => \E f : Upto(N, f)
    OBVIOUS
  <2> QED
    BY <2>1
<1>2. PICK m \in bad : \A k \in bad : m <= k
  <2> HIDE DEF Upto
  <2>1. bad \subseteq Nat
    OBVIOUS
  <2> HIDE DEF bad
  <2> QED
    BY <1>1, <2>1, LeastExists
<1>3. m \in 0..N /\ ~\E f : Upto(m, f)
  BY <1>2
<1>4. m # 0
  <2> DEFINE f == [n \in 0..0 |-> base]
  <2>1. Upto(0, f)
    BY DEF Runs
  <2> HIDE DEF Upto, f
  <2> QED
    BY <2>1, <1>3
<1>5. PICK f : Upto(m - 1, f)
  <2>1. m - 1 \in 0..N /\ ~(m <= m - 1)
    BY <1>3, <1>4
  <2> HIDE DEF Upto
  <2> QED
    BY <2>1, <1>2
<1> DEFINE e == [n \in 0..m |-> IF n = m THEN step[<<m, f[m - 1]>>] ELSE f[n]]
<1>6. m - 1 \in 0..(m - 1) /\ m \in 1..N /\ 0 \in 0..m /\ \A n \in 0..m : n = m \/ n \in 0..(m - 1)
  BY <1>3, <1>4
<1>7. f[m - 1] \in G /\ step[<<m, f[m - 1]>>] \in G
  BY <1>5, <1>6
<1>8. e \in [0..m -> G] /\ e[0] = base
  BY <1>4, <1>5, <1>6, <1>7 DEF Runs
<1>9. ASSUME NEW n \in 1..m PROVE e[n] = step[<<n, e[n - 1]>>]
  <2>1. n - 1 \in 0..(m - 1) /\ n - 1 \in 0..m /\ n - 1 # m /\ n \in 0..m
    BY <1>3, <1>4
  <2>2. e[n - 1] = f[n - 1]
    BY <2>1
  <2>3. CASE n = m
    BY <2>1, <2>2, <2>3
  <2>4. CASE n # m
    <3>1. n \in 1..(m - 1)
      BY <2>4, <1>3
    <3>2. e[n] = f[n] /\ f[n] = step[<<n, f[n - 1]>>]
      BY <2>1, <2>4, <3>1, <1>5 DEF Runs
    <3> QED
      BY <3>2, <2>2
  <2> QED
    BY <2>3, <2>4
<1>10. Upto(m, e)
  BY <1>8, <1>9 DEF Runs
<1> HIDE DEF Upto, e
<1> QED
  BY <1>10, <1>3

GroupLoop(shown, S, f) ==
  f = [n \in 0..Len(shown) |->
         IF n = 0 THEN Nobody
         ELSE IF shown[n] \in S THEN addEvent(f[n - 1], shown[n]) ELSE f[n - 1]]

(* The loop of Group, step by step.                                          *)
LEMMA GroupSteps ==
  ASSUME EventsOK, NEW shown \in Seq(Warnings), NEW S
  PROVE  \E f :
           /\ f[0] = Nobody /\ Group(shown, S) = f[Len(shown)]
           /\ \A n \in 1..Len(shown) :
                f[n] = IF shown[n] \in S THEN addEvent(f[n - 1], shown[n]) ELSE f[n - 1]
<1> DEFINE N == Len(shown)
           step == [x \in (1..N) \X Groups |->
                      IF shown[x[1]] \in S THEN addEvent(x[2], shown[x[1]]) ELSE x[2]]
<1>1. N \in Nat /\ \A n \in 1..N : shown[n] \in Nat
  BY MemberOfList, EventFacts
<1>2. Nobody \in Groups
  BY DEF Nobody, Groups
<1>3. \A i \in Nat, g \in Groups : addEvent(g, i) \in Groups
  BY DEF addEvent, Groups
<1>4. step \in [(1..N) \X Groups -> Groups]
  BY <1>1, <1>3
<1>5. PICK e \in [0..N -> Groups] : Runs(e, N, Nobody, step)
  <2> HIDE DEF N, step
  <2> QED
    BY <1>1, <1>2, <1>4, LoopExists
<1>6. \A n \in 1..N : n - 1 \in 0..N /\ e[n - 1] \in Groups
  BY <1>1, <1>5
<1>7. \A n \in 1..N :
        e[n] = IF shown[n] \in S THEN addEvent(e[n - 1], shown[n]) ELSE e[n - 1]
  BY <1>5, <1>6 DEF Runs
<1>8. GroupLoop(shown, S, e)
  <2>1. \A n \in 0..N : n = 0 \/ n \in 1..N
    BY <1>1
  <2> HIDE DEF step
  <2> QED
    BY <1>5, <1>7, <2>1 DEF GroupLoop, Runs
<1> DEFINE f == CHOOSE h : GroupLoop(shown, S, h)
<1>9. GroupLoop(shown, S, f)
  BY <1>8
<1>10. Group(shown, S) = f[N]
  BY Zenon DEF Group, GroupLoop
<1> HIDE DEF f, step
<1>11. \A n \in 0..N :
         f[n] = IF n = 0 THEN Nobody
                ELSE IF shown[n] \in S THEN addEvent(f[n - 1], shown[n]) ELSE f[n - 1]
  BY <1>9 DEF GroupLoop
<1> QED
  BY <1>1, <1>10, <1>11

PodLoop(shown, r, f) ==
  f = [n \in 0..Len(shown) |->
         IF n = 0 THEN Nobody
         ELSE IF Kind(shown[n]).reason = r THEN addPodEvent(f[n - 1], shown[n]) ELSE f[n - 1]]

(* The loop of PodGroup, step by step.                                       *)
LEMMA PodGroupSteps ==
  ASSUME EventsOK, NEW shown \in Seq(Warnings), NEW r
  PROVE  \E f :
           /\ f[0] = Nobody /\ PodGroup(shown, r) = f[Len(shown)]
           /\ \A n \in 1..Len(shown) :
                f[n] = IF Kind(shown[n]).reason = r
                       THEN addPodEvent(f[n - 1], shown[n]) ELSE f[n - 1]
<1> DEFINE N == Len(shown)
           step == [x \in (1..N) \X Groups |->
                      IF Kind(shown[x[1]]).reason = r THEN addPodEvent(x[2], shown[x[1]]) ELSE x[2]]
<1>1. N \in Nat /\ \A n \in 1..N : shown[n] \in Warnings
  BY MemberOfList, EventFacts
<1>2. Nobody \in Groups
  BY DEF Nobody, Groups
<1>3. \A i \in Warnings, g \in Groups : addPodEvent(g, i) \in Groups
  BY EventFacts, KindsAssumption DEF addPodEvent, Groups
<1>4. step \in [(1..N) \X Groups -> Groups]
  BY <1>1, <1>3
<1>5. PICK e \in [0..N -> Groups] : Runs(e, N, Nobody, step)
  <2> HIDE DEF N, step
  <2> QED
    BY <1>1, <1>2, <1>4, LoopExists
<1>6. \A n \in 1..N : n - 1 \in 0..N /\ e[n - 1] \in Groups
  BY <1>1, <1>5
<1>7. \A n \in 1..N :
        e[n] = IF Kind(shown[n]).reason = r THEN addPodEvent(e[n - 1], shown[n]) ELSE e[n - 1]
  BY <1>5, <1>6 DEF Runs
<1>8. PodLoop(shown, r, e)
  <2>1. \A n \in 0..N : n = 0 \/ n \in 1..N
    BY <1>1
  <2> HIDE DEF step
  <2> QED
    BY <1>5, <1>7, <2>1 DEF PodLoop, Runs
<1> DEFINE f == CHOOSE h : PodLoop(shown, r, h)
<1>9. PodLoop(shown, r, f)
  BY <1>8
<1>10. PodGroup(shown, r) = f[N]
  BY Zenon DEF PodGroup, PodLoop
<1> HIDE DEF f, step
<1>11. \A n \in 0..N :
         f[n] = IF n = 0 THEN Nobody
                ELSE IF Kind(shown[n]).reason = r THEN addPodEvent(f[n - 1], shown[n]) ELSE f[n - 1]
  BY <1>9 DEF PodLoop
<1> QED
  BY <1>1, <1>10, <1>11

(* Group counts the Events of S that are shown, and has the newest of them.  *)
LEMMA GroupIs ==
  ASSUME EventsOK, NEW shown \in Seq(Warnings), IsInjective(shown), NEW S
  PROVE  LET g == Group(shown, S)
             M == Range(shown) \cap S
         IN /\ g.count = Cardinality(M) /\ g.count \in Nat
            /\ g = Nobody <=> M = {}
            /\ M # {} => /\ g.latest \in M /\ g.count > 0
                         /\ \A i \in M : eventTime(i) <= eventTime(g.latest)
<1> DEFINE N == Len(shown)
           M(n) == {i \in S : \E m \in 1..n : shown[m] = i}
<1>1. N \in Nat /\ DOMAIN shown = 1..N /\ \A n \in 1..N : shown[n] \in Warnings
  BY MemberOfList
<1>2. PICK f : /\ f[0] = Nobody /\ Group(shown, S) = f[N]
               /\ \A n \in 1..N :
                    f[n] = IF shown[n] \in S THEN addEvent(f[n - 1], shown[n]) ELSE f[n - 1]
  BY GroupSteps
<1> DEFINE P(n) == /\ IsFiniteSet(M(n))
                   /\ f[n] = [count |-> Cardinality(M(n)), latest |-> f[n].latest]
                   /\ M(n) = {} => f[n].latest = 0
                   /\ M(n) # {} => /\ f[n].latest \in M(n)
                                   /\ \A i \in M(n) : eventTime(i) <= eventTime(f[n].latest)
           bad == {n \in 0..N : ~P(n)}
<1>3. M(N) = Range(shown) \cap S
  BY <1>1 DEF Range
<1>4. bad = {}
  <2>1. SUFFICES ASSUME bad # {} PROVE FALSE
    OBVIOUS
  <2>2. PICK n \in bad : \A m \in bad : n <= m
    <3> HIDE DEF P
    <3>1. bad \subseteq Nat
      OBVIOUS
    <3> HIDE DEF bad
    <3> QED
      BY <2>1, <3>1, LeastExists
  <2>3. n \in 0..N /\ ~P(n)
    BY <2>2
  <2>4. n # 0
    <3>1. M(0) = {}
      OBVIOUS
    <3>2. P(0)
      <4>1. f[0] = [count |-> 0, latest |-> 0] /\ f[0].latest = 0
        BY <1>2 DEF Nobody
      <4>2. IsFiniteSet(M(0)) /\ Cardinality(M(0)) = 0
        BY <3>1, FS_EmptySet
      <4> HIDE DEF M
      <4> QED
        BY <3>1, <4>1, <4>2
    <3> HIDE DEF P
    <3> QED
      BY <2>3, <3>2
  <2>5. n \in 1..N /\ n - 1 \in 0..N /\ ~(n <= n - 1)
    BY <2>3, <2>4, <1>1
  <2>6. P(n - 1)
    <3> HIDE DEF P
    <3> QED
      BY <2>2, <2>5
  <2> HIDE DEF bad
  <2>7. M(n) = M(n - 1) \cup ({shown[n]} \cap S)
    <3>1. \A m \in 1..n : m = n \/ m \in 1..(n - 1)
      BY <2>5
    <3>2. \A m \in 1..(n - 1) : m \in 1..n
      BY <2>5
    <3> QED
      BY <3>1, <3>2, <2>5
  <2>8. CASE shown[n] \notin S
    <3>1. M(n) = M(n - 1) /\ f[n] = f[n - 1]
      BY <2>5, <2>7, <2>8, <1>2
    <3> HIDE DEF M
    <3> QED
      BY <3>1, <2>3, <2>6
  <2>9. CASE shown[n] \in S
    <3> DEFINE j == shown[n]
    <3>1. f[n] = addEvent(f[n - 1], j)
      BY <2>5, <2>9, <1>2
    <3>2. M(n) = M(n - 1) \cup {j}
      BY <2>7, <2>9
    <3>3. j \notin M(n - 1)
      <4>1. \A m \in 1..(n - 1) : m \in 1..N /\ m # n
        BY <2>5, <1>1
      <4> QED
        BY <4>1, <2>5, <1>1 DEF IsInjective
    <3>4. j \in Nat \ {0} /\ eventTime(j) \in Nat
      BY <1>1, <2>5, EventFacts
    <3>5. \A i \in M(n - 1) : i \in Nat \ {0} /\ eventTime(i) \in Nat
      <4>1. \A m \in 1..(n - 1) : shown[m] \in Warnings
        BY <1>1, <2>5
      <4> QED
        BY <4>1, EventFacts
    <3> HIDE DEF M, j
    <3>6. IsFiniteSet(M(n)) /\ Cardinality(M(n)) = Cardinality(M(n - 1)) + 1
      BY <3>2, <3>3, <2>6, FS_AddElement
    <3>7. f[n].count = Cardinality(M(n - 1)) + 1
      BY <3>1, <2>6 DEF addEvent
    <3>8. f[n] = [count |-> Cardinality(M(n)), latest |-> f[n].latest]
      BY <3>1, <3>6, <3>7 DEF addEvent
    <3>9. CASE M(n - 1) = {}
      <4>1. f[n].latest = j
        BY <3>1, <2>6, <3>9 DEF addEvent
      <4> QED
        BY <4>1, <2>3, <3>2, <3>4, <3>6, <3>8, <3>9
    <3>10. CASE M(n - 1) # {}
      <4> DEFINE l == f[n - 1].latest
      <4>1. l \in M(n - 1) /\ \A i \in M(n - 1) : eventTime(i) <= eventTime(l)
        BY <2>6, <3>10
      <4>2. f[n].latest = IF eventTime(j) > eventTime(l) THEN j ELSE l
        BY <3>1, <3>5, <4>1 DEF addEvent
      <4> HIDE DEF l
      <4>3. f[n].latest \in M(n) /\ \A i \in M(n) : eventTime(i) <= eventTime(f[n].latest)
        BY <4>1, <4>2, <3>2, <3>4, <3>5
      <4> QED
        BY <4>3, <2>3, <3>6, <3>8
    <3> QED
      BY <3>9, <3>10
  <2> QED
    BY <2>8, <2>9
<1>5. P(N)
  <2> HIDE DEF P
  <2> QED
    BY <1>1, <1>4
<1> HIDE DEF M
<1>6. Cardinality(M(N)) \in Nat /\ (Cardinality(M(N)) = 0 <=> M(N) = {})
  BY <1>5, FS_EmptySet, FS_CardinalityType
<1> DEFINE g == f[N]
<1>7. /\ g = [count |-> Cardinality(M(N)), latest |-> g.latest]
      /\ M(N) = {} => g.latest = 0
      /\ M(N) # {} => /\ g.latest \in M(N)
                      /\ \A i \in M(N) : eventTime(i) <= eventTime(g.latest)
  BY <1>5
<1> HIDE DEF g
<1>8. g.count = Cardinality(M(N)) /\ g.count \in Nat
  BY <1>6, <1>7
<1>9. g = Nobody <=> M(N) = {}
  BY <1>6, <1>7 DEF Nobody
<1>10. M(N) # {} => g.count > 0
  BY <1>6, <1>8
<1> QED
  BY <1>2, <1>3, <1>7, <1>8, <1>9, <1>10 DEF g

(* PodGroup counts something only if it has an Event that is shown.          *)
LEMMA PodGroupIs ==
  ASSUME EventsOK, NEW shown \in Seq(Warnings), NEW r
  PROVE  /\ PodGroup(shown, r).count \in Nat
         /\ PodGroup(shown, r) # Nobody => PodGroup(shown, r).latest \in Range(shown)
<1> DEFINE N == Len(shown)
<1>1. N \in Nat /\ DOMAIN shown = 1..N /\ \A n \in 1..N : shown[n] \in Warnings
  BY MemberOfList
<1>2. PICK f : /\ f[0] = Nobody /\ PodGroup(shown, r) = f[N]
               /\ \A n \in 1..N : f[n] = IF Kind(shown[n]).reason = r
                                       THEN addPodEvent(f[n - 1], shown[n]) ELSE f[n - 1]
  BY PodGroupSteps
<1> DEFINE P(n) == f[n] = Nobody \/ (f[n].count \in Nat /\ f[n].latest \in Range(shown))
           bad == {n \in 0..N : ~P(n)}
<1>3. bad = {}
  <2>1. SUFFICES ASSUME bad # {} PROVE FALSE
    OBVIOUS
  <2>2. PICK n \in bad : \A m \in bad : n <= m
    <3> HIDE DEF P
    <3>1. bad \subseteq Nat
      OBVIOUS
    <3> HIDE DEF bad
    <3> QED
      BY <2>1, <3>1, LeastExists
  <2>3. n \in 0..N /\ ~P(n)
    BY <2>2
  <2>4. n # 0
    BY <2>3, <1>2
  <2>5. n \in 1..N /\ n - 1 \in 0..N /\ ~(n <= n - 1)
    BY <2>3, <2>4, <1>1
  <2>6. P(n - 1)
    <3> HIDE DEF P
    <3> QED
      BY <2>2, <2>5
  <2> HIDE DEF bad
  <2>7. CASE Kind(shown[n]).reason # r
    BY <1>2, <2>3, <2>5, <2>6, <2>7
  <2>8. CASE Kind(shown[n]).reason = r
    <3>1. f[n] = addPodEvent(f[n - 1], shown[n])
      BY <1>2, <2>5, <2>8
    <3>2. shown[n] \in Range(shown) /\ Kind(shown[n]).count \in Nat
      BY <1>1, <2>5, EventFacts, KindsAssumption DEF Range
    <3>3. f[n - 1].count \in Nat /\ (f[n - 1].latest = 0 \/ f[n - 1].latest \in Range(shown))
      BY <2>6 DEF Nobody
    <3>4. f[n].count \in Nat
      BY <3>1, <3>2, <3>3 DEF addPodEvent
    <3>5. f[n].latest \in Range(shown)
      BY <3>1, <3>2, <3>3 DEF addPodEvent
    <3> QED
      BY <2>3, <3>4, <3>5
  <2> QED
    BY <2>7, <2>8
<1>4. P(N)
  <2> HIDE DEF P
  <2> QED
    BY <1>1, <1>3
<1> QED
  BY <1>2, <1>4 DEF Nobody

(* A list without repetition is as long as the set of its members.           *)
LEMMA LengthOfListing ==
  ASSUME NEW S, NEW s \in Seq(S), IsInjective(s)
  PROVE  IsFiniteSet(Range(s)) /\ Cardinality(Range(s)) = Len(s)
<1>1. Len(s) \in Nat /\ DOMAIN s = 1..Len(s) /\ s = [i \in 1..Len(s) |-> s[i]]
  OBVIOUS
<1>2. s \in Bijection(1..Len(s), Range(s))
  BY <1>1 DEF Bijection, Injection, Surjection, IsInjective, Range
<1> DEFINE n == Len(s)
<1>3. IsFiniteSet(1..n) /\ Cardinality(1..n) = n
  <2>1. n \in Nat
    BY <1>1
  <2> HIDE DEF n
  <2> QED
    BY <2>1, FS_Interval
<1>4. ExistsBijection(1..n, Range(s))
  BY <1>2 DEF ExistsBijection
<1> HIDE DEF n
<1>5. IsFiniteSet(Range(s)) /\ Cardinality(Range(s)) = n
  BY <1>3, <1>4, FS_Bijection
<1> QED
  BY <1>5 DEF n

Counted(signals) == UNION {{g} \X (1..g.count) : g \in signals}
FibresCounted(D, told) ==
  \A i \in D : told[i].count = Cardinality({j \in D : told[j] = told[i]})

(* If each member of D is told of by one of the signals, and a signal counts *)
(* the members it tells of, the counts add up to the members of D.           *)
LEMMA CountedOnce ==
  ASSUME NEW D, IsFiniteSet(D), NEW told,
         FibresCounted(D, told), NEW G, G = {told[i] : i \in D}
  PROVE  Cardinality(Counted(G)) = Cardinality(D)
<1> DEFINE U == UNION {{g} \X (1..g.count) : g \in G}
           fibre(g) == {j \in D : told[j] = g}
           number(g) == CHOOSE f : f \in Bijection(1..g.count, fibre(g))
           F == [u \in U |-> number(u[1])[u[2]]]
<1>1. ASSUME NEW g \in G
      PROVE  number(g) \in Bijection(1..g.count, fibre(g))
  <2>1. g.count = Cardinality(fibre(g))
    BY DEF FibresCounted
  <2>2. IsFiniteSet(fibre(g))
    BY FS_Subset
  <2> HIDE DEF fibre
  <2>3. IsFiniteSet(1..g.count) /\ Cardinality(1..g.count) = g.count
    BY <2>1, <2>2, FS_CardinalityType, FS_Interval
  <2>4. \E f : f \in Bijection(1..g.count, fibre(g))
    <3>1. ExistsBijection(1..Cardinality(fibre(g)), fibre(g))
      BY <2>2, FS_NatBijection, FS_CardinalityType, FS_CountingElements
    <3> QED
      BY <3>1, <2>1 DEF ExistsBijection
  <2> QED
    BY <2>4
<1>2. \A u \in U : u[1] \in G /\ u[2] \in 1..u[1].count /\ u = <<u[1], u[2]>>
  OBVIOUS
<1>3. \A g \in G : \A k \in 1..g.count : <<g, k>> \in U
  OBVIOUS
<1> HIDE DEF U, number
<1>4. F \in [U -> D]
  BY <1>1, <1>2 DEF Bijection, Injection
<1>5. ASSUME NEW u \in U, NEW w \in U, F[u] = F[w] PROVE u = w
  <2>1. F[u] \in fibre(u[1]) /\ F[w] \in fibre(w[1])
    <3> HIDE DEF fibre
    <3> QED
      BY <1>1, <1>2 DEF Bijection, Injection
  <2>2. u[1] = w[1]
    BY <2>1, <1>5
  <2>3. u[2] = w[2]
    <3>1. number(u[1])[u[2]] = number(u[1])[w[2]]
      BY <1>5, <2>2
    <3>2. number(u[1]) \in Injection(1..u[1].count, fibre(u[1]))
      BY <1>1, <1>2 DEF Bijection
    <3> HIDE DEF fibre
    <3> QED
      BY <3>1, <3>2, <1>2, <2>2 DEF Injection, IsInjective
  <2> QED
    BY <1>2, <2>2, <2>3
<1>6. ASSUME NEW i \in D PROVE \E u \in U : F[u] = i
  <2> DEFINE g == told[i]
  <2>1. g \in G /\ i \in fibre(g)
    OBVIOUS
  <2> HIDE DEF fibre, g
  <2>2. PICK k \in 1..g.count : number(g)[k] = i
    BY <1>1, <2>1 DEF Bijection, Surjection
  <2>3. <<g, k>> \in U
    BY <2>1, <1>3
  <2> QED
    BY <2>2, <2>3
<1> HIDE DEF F
<1>7. F \in Bijection(U, D)
  BY <1>4, <1>5, <1>6 DEF Bijection, Injection, Surjection, IsInjective
<1>8. ExistsBijection(D, U)
  BY <1>7, Fun_ExistsBijSymmetric DEF ExistsBijection
<1> QED
  BY <1>8, FS_Bijection DEF U, ExistsBijection, Counted

-----------------------------------------------------------------------------
(* The signal that tells of an Event, in health and in the dump.             *)

HealthGroup(list, i) ==
  {j \in Warnings : /\ Kind(j).reason = Kind(i).reason
                    /\ Resolved(list, j) <=> Resolved(list, i)
                    /\ Resolved(list, i) \/ Kind(j).about = Kind(i).about}

InHealth(list, shown, i) ==
  Signal(IF Resolved(list, i) THEN "info"
         ELSE IF Kind(i).reason = "BackOff" THEN "error" ELSE "warning",
         Kind(i).reason, IF Resolved(list, i) THEN None ELSE Kind(i).about,
         Group(shown, HealthGroup(list, i)).count, Group(shown, HealthGroup(list, i)).latest)

DumpGroup(i) == {j \in Warnings : DumpKey(j) = DumpKey(i)}

InDump(shown, i) ==
  Signal(IF Kind(i).reason = "BackOff" THEN "error" ELSE "warning", Kind(i).reason, None,
         Group(shown, DumpGroup(i)).count, Group(shown, DumpGroup(i)).latest)

LEMMA SignalFields ==
  ASSUME NEW severity, NEW reason, NEW about, NEW count, NEW latest,
         NEW g, g = Signal(severity, reason, about, count, latest)
  PROVE  /\ g.severity = severity /\ g.reason = reason /\ g.about = about
         /\ g.count = count /\ g.latest = latest
BY DEF Signal

(* namespaceEventSignals is made of them.                                    *)
LEMMA HealthSignals ==
  ASSUME EventsOK, NEW list, NEW shown \in Seq(Warnings), IsInjective(shown)
  PROVE  namespaceEventSignals(list, shown) = {InHealth(list, shown, i) : i \in Range(shown)}
<1> DEFINE Past(r) == {i \in Warnings : Kind(i).reason = r /\ Resolved(list, i)}
           Open(r, o) == {i \in Warnings :
                           Kind(i).reason = r /\ Kind(i).about = o /\ ~Resolved(list, i)}
           past(r) == Group(shown, Past(r))
           open(r, o) == Group(shown, Open(r, o))
           P == {Signal("info", r, None, past(r).count, past(r).latest) :
                   r \in {r \in Reasons : past(r) # Nobody}}
           O == {Signal(IF x[1] = "BackOff" THEN "error" ELSE "warning", x[1], x[2],
                        open(x[1], x[2]).count, open(x[1], x[2]).latest) :
                   x \in {x \in Reasons \X Subjects : open(x[1], x[2]) # Nobody}}
           told(i) == InHealth(list, shown, i)
<1>1. namespaceEventSignals(list, shown) = P \cup O
  BY DEF namespaceEventSignals
<1>2. \A i \in Range(shown) : i \in Warnings
  BY MemberOfList DEF Range
<1>3. \A S : Group(shown, S) # Nobody <=> Range(shown) \cap S # {}
  BY GroupIs
<1>4. \A i \in Warnings : Kind(i).reason \in Reasons /\ Kind(i).about \in Subjects
  BY EventFacts DEF Reasons, Subjects
<1>5. ASSUME NEW i \in Warnings, Resolved(list, i)
      PROVE  /\ HealthGroup(list, i) = Past(Kind(i).reason)
             /\ told(i) = Signal("info", Kind(i).reason, None, past(Kind(i).reason).count,
                                 past(Kind(i).reason).latest)
  <2>1. HealthGroup(list, i) = Past(Kind(i).reason)
    BY <1>5 DEF HealthGroup
  <2> QED
    BY <2>1, <1>5 DEF InHealth
<1>6. ASSUME NEW i \in Warnings, ~Resolved(list, i)
      PROVE  LET r == Kind(i).reason
                 o == Kind(i).about
             IN /\ HealthGroup(list, i) = Open(r, o)
                /\ told(i) = Signal(IF r = "BackOff" THEN "error" ELSE "warning", r, o,
                                    open(r, o).count, open(r, o).latest)
  <2>1. HealthGroup(list, i) = Open(Kind(i).reason, Kind(i).about)
    BY <1>6 DEF HealthGroup
  <2> QED
    BY <2>1, <1>6 DEF InHealth
<1>7. \A i \in Warnings : i \in IF Resolved(list, i) THEN Past(Kind(i).reason)
                              ELSE Open(Kind(i).reason, Kind(i).about)
  OBVIOUS
<1>8. \A r : \A i \in Past(r) : i \in Warnings /\ Kind(i).reason = r /\ Resolved(list, i)
  OBVIOUS
<1>9. \A r, o : \A i \in Open(r, o) :
        i \in Warnings /\ Kind(i).reason = r /\ Kind(i).about = o /\ ~Resolved(list, i)
  OBVIOUS
<1> HIDE DEF Past, Open, told
<1>10. ASSUME NEW i \in Range(shown) PROVE told(i) \in P \cup O
  <2>1. CASE Resolved(list, i)
    <3>1. past(Kind(i).reason) # Nobody
      BY <2>1, <1>2, <1>3, <1>7
    <3>2. told(i) \in P
      BY <2>1, <3>1, <1>2, <1>4, <1>5
    <3> QED
      BY <3>2
  <2>2. CASE ~Resolved(list, i)
    <3> DEFINE r == Kind(i).reason
               o == Kind(i).about
    <3>1. open(r, o) # Nobody
      BY <2>2, <1>2, <1>3, <1>7
    <3>2. <<r, o>> \in Reasons \X Subjects
      BY <1>2, <1>4
    <3>3. told(i) = Signal(IF r = "BackOff" THEN "error" ELSE "warning", r, o,
                           open(r, o).count, open(r, o).latest)
      BY <2>2, <1>2, <1>6
    <3> HIDE DEF r, o, open
    <3>4. told(i) \in O
      BY <3>1, <3>2, <3>3
    <3> QED
      BY <3>4
  <2> QED
    BY <2>1, <2>2
<1>11. ASSUME NEW g \in P PROVE \E i \in Range(shown) : g = told(i)
  <2>1. PICK r : past(r) # Nobody /\ g = Signal("info", r, None, past(r).count, past(r).latest)
    OBVIOUS
  <2>2. PICK i \in Range(shown) : i \in Past(r)
    BY <2>1, <1>3
  <2> QED
    BY <2>1, <2>2, <1>5, <1>8
<1>12. ASSUME NEW g \in O PROVE \E i \in Range(shown) : g = told(i)
  <2>1. PICK x \in Reasons \X Subjects :
          /\ open(x[1], x[2]) # Nobody
          /\ g = Signal(IF x[1] = "BackOff" THEN "error" ELSE "warning", x[1], x[2],
                        open(x[1], x[2]).count, open(x[1], x[2]).latest)
    OBVIOUS
  <2>2. PICK i \in Range(shown) : i \in Open(x[1], x[2])
    BY <2>1, <1>3
  <2>3. i \in Warnings /\ ~Resolved(list, i) /\ Kind(i).reason = x[1] /\ Kind(i).about = x[2]
    BY <2>2, <1>9
  <2> QED
    BY <2>1, <2>3, <1>6
<1> QED
  BY <1>1, <1>10, <1>11, <1>12 DEF told

(* dumpEventSignals, likewise.                                               *)
LEMMA DumpSignals ==
  ASSUME NEW shown \in Seq(Warnings)
  PROVE  dumpEventSignals(shown) = {InDump(shown, i) : i \in Range(shown)}
<1> DEFINE group(key) == Group(shown, {i \in Warnings : DumpKey(i) = key})
           signal(key) == Signal(IF key[2] = "BackOff" THEN "error" ELSE "warning", key[2], None,
                                 group(key).count, group(key).latest)
<1>1. dumpEventSignals(shown) = {signal(key) : key \in {DumpKey(shown[n]) : n \in DOMAIN shown}}
  BY DEF dumpEventSignals
<1>2. \A i : InDump(shown, i) = signal(DumpKey(i))
  BY DEF InDump, DumpGroup, DumpKey
<1> HIDE DEF signal
<1> QED
  BY <1>1, <1>2 DEF Range

-----------------------------------------------------------------------------
(* A signal counts the Events that it tells of, and quotes the newest.       *)

Alike(told, shown, i) == {j \in Range(shown) : told[j] = told[i]}

TellsOnce(told, shown) ==
  \A i \in Range(shown) :
    /\ told[i].reason = Kind(i).reason
    /\ told[i].count > 0 /\ told[i].count = Cardinality(Alike(told, shown, i))
    /\ told[i].latest \in Range(shown)
    /\ \A j \in Alike(told, shown, i) : eventTime(j) <= eventTime(told[i].latest)

AddsUp(signals, shown) ==
  /\ Cardinality(Counted(signals)) = Len(shown)
  /\ \A g \in signals :
       Cardinality({i \in Range(shown) : Kind(i).reason = g.reason
                                           /\ eventTime(i) <= eventTime(g.latest)}) >= g.count

LEMMA ToldAddsUp ==
  ASSUME EventsOK, NEW shown \in Seq(Warnings), IsInjective(shown),
         NEW told, TellsOnce(told, shown)
  PROVE  AddsUp({told[i] : i \in Range(shown)}, shown)
<1>1. IsFiniteSet(Range(shown)) /\ Cardinality(Range(shown)) = Len(shown)
  BY LengthOfListing
<1>2. Cardinality(Counted({told[i] : i \in Range(shown)})) = Len(shown)
  <2> DEFINE D == Range(shown)
  <2>1. IsFiniteSet(D) /\ Cardinality(D) = Len(shown)
    BY <1>1
  <2>2. FibresCounted(D, told)
    BY DEF TellsOnce, Alike, FibresCounted
  <2> HIDE DEF D
  <2>3. Cardinality(Counted({told[i] : i \in D})) = Cardinality(D)
    BY <2>1, <2>2, CountedOnce
  <2> QED
    BY <2>1, <2>3 DEF D
<1>3. ASSUME NEW i \in Range(shown)
      PROVE  Cardinality({j \in Range(shown) : Kind(j).reason = told[i].reason
                                   /\ eventTime(j) <= eventTime(told[i].latest)}) >= told[i].count
  <2> DEFINE M == {j \in Range(shown) : Kind(j).reason = told[i].reason
                                         /\ eventTime(j) <= eventTime(told[i].latest)}
             A == Alike(told, shown, i)
  <2>1. \A j \in A : Kind(j).reason = told[i].reason
    BY DEF Alike, TellsOnce
  <2>2. A \in SUBSET M
    BY <2>1 DEF Alike, TellsOnce
  <2>3. M \in SUBSET Range(shown)
    OBVIOUS
  <2>4. told[i].count = Cardinality(A)
    BY DEF TellsOnce
  <2> HIDE DEF A, M
  <2>5. IsFiniteSet(M)
    BY <1>1, <2>3, FS_Subset
  <2>6. Cardinality(A) <= Cardinality(M) /\ IsFiniteSet(A)
    BY <2>2, <2>5, FS_Subset
  <2>7. Cardinality(A) \in Nat /\ Cardinality(M) \in Nat
    BY <2>5, <2>6, FS_CardinalityType
  <2>8. Cardinality(M) >= told[i].count
    BY <2>4, <2>6, <2>7
  <2> QED
    BY <2>8 DEF M
<1> QED
  BY <1>2, <1>3 DEF AddsUp

LEMMA HealthCountsOnce ==
  ASSUME EventsOK, NEW list, NEW shown \in Seq(Warnings), IsInjective(shown)
  PROVE  TellsOnce([i \in Range(shown) |-> InHealth(list, shown, i)], shown)
<1> DEFINE told == [i \in Range(shown) |-> InHealth(list, shown, i)]
           G(i) == HealthGroup(list, i)
<1>1. \A i \in Range(shown) : i \in Warnings
  BY MemberOfList DEF Range
<1>2. \A i \in Warnings : Kind(i).about # None
  BY EventFacts, KindsAssumption
<1> SUFFICES ASSUME NEW i \in Range(shown)
             PROVE  /\ told[i].reason = Kind(i).reason
                    /\ told[i].count > 0 /\ told[i].count = Cardinality(Alike(told, shown, i))
                    /\ told[i].latest \in Range(shown)
                    /\ \A j \in Alike(told, shown, i) : eventTime(j) <= eventTime(told[i].latest)
  BY DEF TellsOnce
<1>3. \A j \in Range(shown) :
        /\ told[j].severity = IF Resolved(list, j) THEN "info"
                              ELSE IF Kind(j).reason = "BackOff" THEN "error" ELSE "warning"
        /\ told[j].reason = Kind(j).reason
        /\ told[j].about = IF Resolved(list, j) THEN None ELSE Kind(j).about
        /\ told[j].count = Group(shown, G(j)).count
        /\ told[j].latest = Group(shown, G(j)).latest
  BY DEF InHealth, Signal
<1>4. \A j \in G(i) : j \in Range(shown) => told[j] = told[i]
  <2> SUFFICES ASSUME NEW j \in G(i), j \in Range(shown) PROVE told[j] = told[i]
    OBVIOUS
  <2>1. /\ Kind(j).reason = Kind(i).reason /\ (Resolved(list, j) <=> Resolved(list, i))
        /\ Resolved(list, i) \/ Kind(j).about = Kind(i).about
    BY DEF HealthGroup
  <2>2. G(j) = G(i)
    BY <2>1 DEF HealthGroup
  <2> HIDE DEF G
  <2>3. InHealth(list, shown, j) = InHealth(list, shown, i)
    BY <2>1, <2>2 DEF InHealth, G
  <2> QED
    BY <2>3
<1>5. \A j \in Range(shown) : told[j] = told[i] => j \in G(i)
  <2> SUFFICES ASSUME NEW j \in Range(shown), told[j] = told[i] PROVE j \in G(i)
    OBVIOUS
  <2> HIDE DEF told
  <2>1. Kind(j).reason = Kind(i).reason
    BY <1>3
  <2>2. Resolved(list, j) <=> Resolved(list, i)
    BY <1>1, <1>2, <1>3
  <2>3. Resolved(list, i) \/ Kind(j).about = Kind(i).about
    BY <1>3, <2>2
  <2> QED
    BY <1>1, <2>1, <2>2, <2>3 DEF HealthGroup
<1>6. Alike(told, shown, i) = Range(shown) \cap G(i)
  <2> HIDE DEF told, G
  <2> QED
    BY <1>4, <1>5 DEF Alike
<1>7. i \in Range(shown) \cap G(i)
  BY <1>1 DEF HealthGroup
<1> HIDE DEF told, G
<1>8. LET g == Group(shown, G(i))
          M == Range(shown) \cap G(i)
      IN g.count = Cardinality(M) /\ g.latest \in M /\ g.count > 0
           /\ \A j \in M : eventTime(j) <= eventTime(g.latest)
  BY <1>7, GroupIs
<1> QED
  BY <1>3, <1>6, <1>8

LEMMA DumpCountsOnce ==
  ASSUME EventsOK, NEW shown \in Seq(Warnings), IsInjective(shown)
  PROVE  TellsOnce([i \in Range(shown) |-> InDump(shown, i)], shown)
<1> DEFINE told == [i \in Range(shown) |-> InDump(shown, i)]
<1>1. \A i \in Range(shown) : i \in Warnings
  BY MemberOfList DEF Range
<1> SUFFICES ASSUME NEW i \in Range(shown)
             PROVE  /\ told[i].reason = Kind(i).reason
                    /\ told[i].count > 0 /\ told[i].count = Cardinality(Alike(told, shown, i))
                    /\ told[i].latest \in Range(shown)
                    /\ \A j \in Alike(told, shown, i) : eventTime(j) <= eventTime(told[i].latest)
  BY DEF TellsOnce
<1>2. \A j \in Range(shown) :
        /\ told[j].reason = Kind(j).reason
        /\ told[j].count = Group(shown, DumpGroup(j)).count
        /\ told[j].latest = Group(shown, DumpGroup(j)).latest
  BY DEF InDump, Signal
<1>3. \A j \in Range(shown) : j \in Range(shown) \cap DumpGroup(j)
  BY <1>1 DEF DumpGroup
<1>4. \A j \in Range(shown) : DumpKey(told[j].latest) = DumpKey(j)
  <2> SUFFICES ASSUME NEW j \in Range(shown) PROVE DumpKey(told[j].latest) = DumpKey(j)
    OBVIOUS
  <2>1. Group(shown, DumpGroup(j)).latest \in DumpGroup(j)
    BY <1>3, GroupIs
  <2> HIDE DEF told
  <2>2. told[j].latest \in DumpGroup(j)
    BY <1>2, <2>1
  <2> QED
    BY <2>2 DEF DumpGroup
<1>5. \A j \in DumpGroup(i) : j \in Range(shown) => told[j] = told[i]
  <2> SUFFICES ASSUME NEW j \in DumpGroup(i), j \in Range(shown) PROVE told[j] = told[i]
    OBVIOUS
  <2>1. DumpKey(j) = DumpKey(i)
    BY DEF DumpGroup
  <2>2. DumpGroup(j) = DumpGroup(i)
    BY <2>1 DEF DumpGroup
  <2>3. Kind(j).reason = Kind(i).reason
    BY <2>1 DEF DumpKey
  <2>4. InDump(shown, j) = InDump(shown, i)
    BY <2>2, <2>3 DEF InDump
  <2> QED
    BY <2>4
<1>6. \A j \in Range(shown) : told[j] = told[i] => j \in DumpGroup(i)
  <2> HIDE DEF told
  <2> QED
    BY <1>1, <1>4 DEF DumpGroup
<1>7. Alike(told, shown, i) = Range(shown) \cap DumpGroup(i)
  <2> HIDE DEF told
  <2> QED
    BY <1>5, <1>6 DEF Alike
<1> HIDE DEF told
<1>8. LET g == Group(shown, DumpGroup(i))
          M == Range(shown) \cap DumpGroup(i)
      IN g.count = Cardinality(M) /\ g.latest \in M /\ g.count > 0
           /\ \A j \in M : eventTime(j) <= eventTime(g.latest)
  BY <1>3, GroupIs
<1> QED
  BY <1>2, <1>7, <1>8

-----------------------------------------------------------------------------
(* The signals of an answer that are about Events.                           *)

Counting(signals) == {g \in signals : g.count > 0}

LEMMA StatusCountsNone ==
  ASSUME NEW severity, NEW reason, NEW about, NEW holds,
         NEW g \in Status(severity, reason, about, holds)
  PROVE  g.count = 0 /\ g.severity = severity
<1>1. g = Signal(severity, reason, about, 0, 0)
  BY DEF Status
<1> QED
  BY <1>1 DEF Signal

LEMMA PodSignalsCountNone ==
  ASSUME NEW p, NEW s, NEW g \in PodSignals(p, s)
  PROVE  g.count = 0 /\ g.severity # "info"
BY StatusCountsNone DEF PodSignals, WaitSignal

LEMMA ContainerSignalsCountNone ==
  ASSUME NEW c, NEW about, NEW g \in ContainerSignals(c, about)
  PROVE  g.count = 0
<1>1. \A severity, reason, holds : g \in Status(severity, reason, about, holds) => g.count = 0
  BY StatusCountsNone
<1>2. \A reason : g \in WaitSignal(reason, about) => g.count = 0
  BY <1>1 DEF WaitSignal
<1> QED
  BY <1>1, <1>2, Zenon DEF ContainerSignals

LEMMA HealthCounts ==
  ASSUME EventsOK, NEW list, NEW shown \in Seq(Warnings), IsInjective(shown)
  PROVE  /\ Counting(namespaceSignals(list, shown)) =
              {InHealth(list, shown, i) : i \in Range(shown)}
         /\ \A g \in namespaceSignals(list, shown) :
              g.severity = "info" => g \in Counting(namespaceSignals(list, shown))
<1> DEFINE high(p) == Status("warning", "high_restart_count", <<"Pod", p>>,
                             podRestarts(list[p]) >= 5)
           E == {InHealth(list, shown, i) : i \in Range(shown)}
<1>1. \A g \in E : g.count > 0
  BY HealthCountsOnce DEF TellsOnce
<1>2. E = namespaceEventSignals(list, shown)
  BY HealthSignals
<1>3. ASSUME NEW g \in namespaceSignals(list, shown), g \notin E
      PROVE  g.count = 0 /\ g.severity # "info"
  <2> HIDE DEF E
  <2>1. g \in UNION {PodSignals(p, list[p]) \cup high(p) : p \in DOMAIN list}
    BY <1>2, <1>3 DEF namespaceSignals
  <2>2. PICK p \in DOMAIN list : g \in PodSignals(p, list[p]) \cup high(p)
    <3> HIDE DEF high
    <3> QED
      BY <2>1
  <2> QED
    BY <2>2, PodSignalsCountNone, StatusCountsNone
<1>4. E \subseteq namespaceSignals(list, shown)
  BY <1>2 DEF namespaceSignals
<1> HIDE DEF E
<1>5. Counting(namespaceSignals(list, shown)) = E
  BY <1>1, <1>3, <1>4 DEF Counting
<1> QED
  BY <1>3, <1>5 DEF E

LEMMA DumpCounts ==
  ASSUME EventsOK, NEW list, NEW shown \in Seq(Warnings), IsInjective(shown)
  PROVE  Counting(dumpSignals(list, shown)) = {InDump(shown, i) : i \in Range(shown)}
<1> DEFINE E == {InDump(shown, i) : i \in Range(shown)}
<1>1. \A g \in E : g.count > 0
  BY DumpCountsOnce DEF TellsOnce
<1>2. E = dumpEventSignals(shown)
  BY DumpSignals
<1>3. ASSUME NEW g \in dumpSignals(list, shown), g \notin E
      PROVE  g.count = 0
  <2> HIDE DEF E
  <2>1. g \in UNION {PodSignals(p, list[p]) : p \in DOMAIN list}
    BY <1>2, <1>3 DEF dumpSignals
  <2>2. PICK p \in DOMAIN list : g \in PodSignals(p, list[p])
    BY <2>1
  <2> QED
    BY <2>2, PodSignalsCountNone
<1>4. E \subseteq dumpSignals(list, shown)
  BY <1>2 DEF dumpSignals
<1> HIDE DEF E
<1>5. Counting(dumpSignals(list, shown)) = E
  BY <1>1, <1>3, <1>4 DEF Counting
<1> QED
  BY <1>5 DEF E

(* In the explanation, those of podEventSignals.                             *)
LEMMA ExplanationCounts ==
  ASSUME EventsOK, NEW p, NEW s, NEW shown \in Seq(Warnings),
         NEW g \in Counting(buildSignals(p, s, shown))
  PROVE  /\ g.latest \in Range(shown) /\ g.about = <<"Pod", p>>
         /\ g.severity = PodSeverity(g.reason, s.ready)
<1> DEFINE about == <<"Pod", p>>
           told(r) == Signal(PodSeverity(r, s.ready), r, about,
                             PodGroup(shown, r).count, PodGroup(shown, r).latest)
<1>1. g \in buildSignals(p, s, shown) /\ g.count # 0
  BY DEF Counting
<1>2. g \notin Status("warning", "not_ready", about, ~s.ready)
  BY <1>1, StatusCountsNone
<1>3. g \notin UNION {ContainerSignals(s.containers[i], about) : i \in DOMAIN s.containers}
  <2> SUFFICES ASSUME NEW i \in DOMAIN s.containers,
                      g \in ContainerSignals(s.containers[i], about)
               PROVE  FALSE
    OBVIOUS
  <2> QED
    BY <1>1, ContainerSignalsCountNone
<1>4. g \in podEventSignals(p, s.ready, shown)
  BY <1>1, <1>2, <1>3 DEF buildSignals
<1>5. PICK r \in Reasons : PodGroup(shown, r) # Nobody /\ g = told(r)
  BY <1>4 DEF podEventSignals
<1>6. /\ g.severity = PodSeverity(r, s.ready) /\ g.reason = r /\ g.about = about
      /\ g.latest = PodGroup(shown, r).latest
  BY <1>5, SignalFields
<1> QED
  BY <1>5, <1>6, PodGroupIs

-----------------------------------------------------------------------------
(* The inductive invariant about Events.  It says of each answer what the    *)
(* properties say, each view by itself: the Events that other requests and   *)
(* the cluster leave alone make it stay true.                                *)

Probes == {"Unhealthy", "FailedScheduling"}

(* The Events an answer shows.                                               *)
Shows(v, shown) ==
  /\ Listing(shown, Matching(v)) /\ Len(shown) <= Limit
  /\ \A i \in Matching(v) \ Range(shown) :
       \/ Len(shown) = Limit /\ \A j \in Range(shown) : eventTime(j) >= eventTime(i)
       \/ /\ v = "explain"
          /\ \E j \in Range(shown) : SameKey(i, j) /\ eventTime(j) >= eventTime(i)

(* What it says of them ...                                                  *)
Quotes(a) == \A g \in Counting(a.signals) : g.latest \in Range(a.shown)

ReadyPast(list, shown, r) ==
  {i \in Range(shown) : /\ Kind(i).reason = r
                        /\ \E p \in DOMAIN list : Kind(i).about = <<"Pod", p>> /\ list[p].ready}

(* ... in health, where only what is over is played down, ...                *)
HealthTellsPast(list, a) ==
  /\ \A g \in a.signals :
       g.severity = "info" => g.count = Cardinality(ReadyPast(list, a.shown, g.reason))
  /\ Explained \in DOMAIN list =>
       \A i \in Range(a.shown) :
         Kind(i).about = <<"Pod", Explained>> /\ Kind(i).reason \in Probes =>
           (~list[Explained].ready <=>
              \E h \in Counting(a.signals) : /\ h.reason = Kind(i).reason
                                             /\ h.about = <<"Pod", Explained>>
                                             /\ h.severity = "warning")

(* ... and in the explanation, by the Pod it has read.                       *)
ExplanationTellsPast(s, a) ==
  \A g \in Counting(a.signals) :
    g.about = <<"Pod", Explained>> /\ g.severity = PodSeverity(g.reason, s.ready)

Says(v, a) ==
  /\ Shows(v, a.shown) /\ Quotes(a)
  /\ v # "explain" => AddsUp(Counting(a.signals), a.shown)
  /\ v = "health" => HealthTellsPast(listed[v], a)
  /\ v = "explain" => ExplanationTellsPast(listed[v][Explained], a)

EventsInv ==
  /\ EventsOK /\ DOMAIN pods \subseteq Pods
  /\ \A v \in Views : listed[v] # None => DOMAIN listed[v] \subseteq Pods

EInv == IInv /\ EventsInv /\ \A v \in Answered : Says(v, answer[v])

LEMMA InitEInv == Init => EInv
<1> SUFFICES ASSUME Init PROVE EInv
  OBVIOUS
<1>1. IInv
  BY InitInv
<1> DEFINE Event == [kind : Kinds, time : 1..MaxTime]
<1>2. PICK n \in 0..MaxEvents : events \in [1..n -> Event]
  <2> HIDE DEF Event
  <2>1. events \in UNION {[1..n -> Event] : n \in 0..MaxEvents}
    BY DEF Init, Event
  <2> QED
    BY <2>1
<1>3. EventsOK
  <2>1. n \in Nat
    BY LimitAssumption
  <2> HIDE DEF Event
  <2>2. events \in Seq(Event)
    BY <1>2, <2>1
  <2> QED
    BY <2>2 DEF EventsOK, Event
<1>4. EventsInv
  BY <1>3 DEF EventsInv, Init
<1>5. Answered = {}
  BY DEF Init, Answered
<1> QED
  BY <1>1, <1>4, <1>5 DEF EInv

(* What an answer says of Events stays true while the Events stay.           *)
LEMMA SaysStays ==
  ASSUME events' = events, NEW v, NEW a, a = answer'[v], listed'[v] = listed[v], Says(v, a)
  PROVE  Says(v, answer[v])'
<1> DEFINE s == a.shown
<1>1. PICK M : M = Matching(v) /\ M = Matching(v)'
  BY DEF Matching, PodWarnings, Warnings, Kind
<1>2. PICK l : l = listed[v] /\ l = listed'[v]
  OBVIOUS
<1>3. Listing(s, M) => Listing(s, M)'
  BY DEF Listing, Newest, eventTime
<1>4. (\A i \in M \ Range(s) :
         \/ Len(s) = Limit /\ \A j \in Range(s) : eventTime(j) >= eventTime(i)
         \/ /\ v = "explain"
            /\ \E j \in Range(s) : SameKey(i, j) /\ eventTime(j) >= eventTime(i))
      => (\A i \in M \ Range(s) :
            \/ Len(s) = Limit /\ \A j \in Range(s) : eventTime(j) >= eventTime(i)
            \/ /\ v = "explain"
               /\ \E j \in Range(s) : SameKey(i, j) /\ eventTime(j) >= eventTime(i))'
  BY DEF eventTime, SameKey, Kind
<1>5. Shows(v, s)'
  <2>1. Shows(v, s)
    BY DEF Says
  <2> HIDE DEF s
  <2> QED
    BY <2>1, <1>1, <1>3, <1>4 DEF Shows, Listing, Newest, eventTime, SameKey, Kind
<1>6. Quotes(a)'
  BY DEF Says, Quotes
<1>7. AddsUp(Counting(a.signals), s) => AddsUp(Counting(a.signals), s)'
  BY DEF AddsUp, Kind, eventTime
<1>8. \A r : ReadyPast(l, s, r)' = ReadyPast(l, s, r)
  BY DEF ReadyPast, Kind
<1>9. HealthTellsPast(l, a) => HealthTellsPast(l, a)'
  BY <1>8 DEF HealthTellsPast, Kind
<1>10. ExplanationTellsPast(l[Explained], a) => ExplanationTellsPast(l[Explained], a)'
  BY DEF ExplanationTellsPast
<1> QED
  BY <1>2, <1>5, <1>6, <1>7, <1>9, <1>10 DEF Says

-----------------------------------------------------------------------------
(* resolveEvents, dumpWarningEvents and namespaceWarningEvents.              *)

LEMMA CutShows ==
  ASSUME EventsOK, NEW v, NEW s, Listing(s, Matching(v)), Range(s) = Matching(v)
  PROVE  Shows(v, Cut(s))
<1>1. Matching(v) \in SUBSET Warnings
  BY DEF Matching, PodWarnings
<1> DEFINE S == Matching(v)
<1>2. S \in SUBSET Warnings /\ Listing(s, S) /\ Range(s) = S
  BY <1>1
<1> HIDE DEF S
<1>3. /\ Listing(Cut(s), S) /\ Len(Cut(s)) <= Limit
      /\ \A i \in S \ Range(Cut(s)) :
           Len(Cut(s)) = Limit /\ \A j \in Range(Cut(s)) : eventTime(j) >= eventTime(i)
  BY <1>2, CutLists
<1> QED
  BY <1>3 DEF Shows, S

LEMMA ExplanationShows ==
  ASSUME EventsOK
  PROVE  Shows("explain", resolveEvents(Explained))
<1> DEFINE S == PodWarnings(Explained)
           s == NewestFirst(S)
           t == dedupePodEvents(s)
           u == Cut(t)
<1>1. S \in SUBSET Warnings /\ Matching("explain") = S /\ resolveEvents(Explained) = u
  BY DEF PodWarnings, Matching, resolveEvents
<1> HIDE DEF S
<1>2. Listing(s, S) /\ Range(s) = S
  BY <1>1, NewestFirstLists
<1> HIDE DEF s
<1>3. /\ Listing(t, S)
      /\ \A i \in S : \E j \in Range(t) : SameKey(i, j) /\ eventTime(j) >= eventTime(i)
  BY <1>1, <1>2, DedupeLists
<1> HIDE DEF t
<1>4. /\ Listing(u, S) /\ Len(u) <= Limit /\ Range(u) \subseteq Range(t)
      /\ \A i \in Range(t) \ Range(u) :
           Len(u) = Limit /\ \A j \in Range(u) : eventTime(j) >= eventTime(i)
  BY <1>1, <1>3, CutLists
<1> HIDE DEF u
<1>5. \A i \in S : eventTime(i) \in Nat
  BY <1>1, EventFacts
<1>6. Range(t) \subseteq S
  BY <1>3, MemberOfList DEF Listing, Range
<1>7. ASSUME NEW i \in S \ Range(u)
      PROVE  \/ Len(u) = Limit /\ \A j \in Range(u) : eventTime(j) >= eventTime(i)
             \/ \E j \in Range(u) : SameKey(i, j) /\ eventTime(j) >= eventTime(i)
  <2>1. PICK j \in Range(t) : SameKey(i, j) /\ eventTime(j) >= eventTime(i)
    BY <1>3
  <2>2. CASE j \in Range(u)
    BY <2>1, <2>2
  <2>3. CASE j \notin Range(u)
    <3>1. Len(u) = Limit /\ \A k \in Range(u) : eventTime(k) >= eventTime(j)
      BY <2>3, <1>4
    <3>2. ASSUME NEW k \in Range(u) PROVE eventTime(k) >= eventTime(i)
      <4>1. eventTime(i) \in Nat /\ eventTime(j) \in Nat /\ eventTime(k) \in Nat
        BY <1>4, <1>5, <1>6
      <4> QED
        BY <4>1, <3>1, <2>1
    <3> QED
      BY <3>1, <3>2
  <2> QED
    BY <2>2, <2>3
<1> QED
  BY <1>1, <1>4, <1>7 DEF Shows

LEMMA DumpShows == ASSUME EventsOK PROVE Shows("dump", dumpWarningEvents)
<1>1. Matching("dump") = Warnings
  BY DEF Matching
<1>2. Listing(NewestFirst(Warnings), Warnings) /\ Range(NewestFirst(Warnings)) = Warnings
  BY NewestFirstLists
<1> QED
  BY <1>1, <1>2, CutShows DEF dumpWarningEvents

LEMMA HealthShows ==
  ASSUME EventsOK, NEW shown \in namespaceWarningEvents
  PROVE  Shows("health", shown)
<1>1. Matching("health") = Warnings
  BY DEF Matching
<1>2. PICK s \in NewestFirstUnstable(Warnings) : shown = Cut(s)
  BY DEF namespaceWarningEvents
<1>3. Listing(s, Warnings) /\ Range(s) = Warnings
  BY UnstableLists
<1> QED
  BY <1>1, <1>2, <1>3, CutShows

LEMMA ShownWarnings ==
  ASSUME NEW v, NEW shown, Shows(v, shown)
  PROVE  shown \in Seq(Warnings) /\ IsInjective(shown)
<1>1. shown \in Seq(Matching(v)) /\ Matching(v) \subseteq Warnings /\ IsInjective(shown)
  BY DEF Shows, Listing, Matching, PodWarnings
<1> QED
  BY <1>1

-----------------------------------------------------------------------------
(* The three answers say what they should.                                   *)

IsMadeOf(a, told) == Counting(a.signals) = {told[i] : i \in Range(a.shown)}

LEMMA TellsOnceQuotes ==
  ASSUME EventsOK, NEW a, a.shown \in Seq(Warnings), IsInjective(a.shown), NEW told,
         TellsOnce(told, a.shown), IsMadeOf(a, told)
  PROVE  Quotes(a) /\ AddsUp(Counting(a.signals), a.shown)
<1>1. Quotes(a)
  BY DEF Quotes, TellsOnce, IsMadeOf
<1>2. AddsUp({told[i] : i \in Range(a.shown)}, a.shown)
  BY ToldAddsUp
<1> QED
  BY <1>1, <1>2 DEF IsMadeOf

LEMMA DumpSays ==
  ASSUME EventsOK
  PROVE  Says("dump", DumpNamespace)
<1> DEFINE a == DumpNamespace
           shown == dumpWarningEvents
           told == [i \in Range(shown) |-> InDump(shown, i)]
<1>1. a.shown = shown /\ a.signals = dumpSignals(listed["dump"], shown)
  BY DEF DumpNamespace
<1>2. Shows("dump", shown)
  BY DumpShows
<1>3. shown \in Seq(Warnings) /\ IsInjective(shown)
  BY <1>2, ShownWarnings
<1>4. TellsOnce(told, shown)
  BY <1>3, DumpCountsOnce
<1>5. Counting(a.signals) = {told[i] : i \in Range(shown)}
  BY <1>1, <1>3, DumpCounts
<1> HIDE DEF a, shown, told
<1>6. Quotes(a) /\ AddsUp(Counting(a.signals), a.shown)
  <2>1. IsMadeOf(a, told)
    BY <1>1, <1>5 DEF IsMadeOf
  <2>2. a.shown \in Seq(Warnings) /\ IsInjective(a.shown) /\ TellsOnce(told, a.shown)
    BY <1>1, <1>3, <1>4
  <2> QED
    BY <2>1, <2>2, TellsOnceQuotes
<1> QED
  BY <1>1, <1>2, <1>6 DEF Says, a

LEMMA ExplanationSays ==
  ASSUME EventsOK
  PROVE  Says("explain", ResolvePodContext)
<1> DEFINE a == ResolvePodContext
           shown == resolveEvents(Explained)
           s == listed["explain"][Explained]
<1>1. a.shown = shown /\ a.signals = buildSignals(Explained, s, shown)
  BY DEF ResolvePodContext
<1>2. Shows("explain", shown)
  BY ExplanationShows
<1>3. shown \in Seq(Warnings)
  BY <1>2, ShownWarnings
<1>4. \A g \in Counting(a.signals) : /\ g.latest \in Range(shown) /\ g.about = <<"Pod", Explained>>
                                     /\ g.severity = PodSeverity(g.reason, s.ready)
  BY <1>1, <1>3, ExplanationCounts
<1>5. Quotes(a) /\ ExplanationTellsPast(s, a)
  BY <1>1, <1>4 DEF Quotes, ExplanationTellsPast
<1> HIDE DEF a, shown
<1> QED
  BY <1>1, <1>2, <1>5 DEF Says, a

LEMMA HealthSays ==
  ASSUME EventsOK, NEW shown \in namespaceWarningEvents
  PROVE  Says("health", NamespaceHealth(shown))
<1> DEFINE a == NamespaceHealth(shown)
           list == listed["health"]
           told == [i \in Range(shown) |-> InHealth(list, shown, i)]
<1>1. a.shown = shown /\ a.signals = namespaceSignals(list, shown)
  BY DEF NamespaceHealth
<1>2. Shows("health", shown)
  BY HealthShows
<1>3. shown \in Seq(Warnings) /\ IsInjective(shown)
  BY <1>2, ShownWarnings
<1>4. TellsOnce(told, shown)
  BY <1>3, HealthCountsOnce
<1>5. /\ Counting(a.signals) = {told[i] : i \in Range(shown)}
      /\ \A g \in a.signals : g.severity = "info" => g \in Counting(a.signals)
  BY <1>1, <1>3, HealthCounts
<1>6. \A i \in Range(shown) :
        /\ told[i].severity = IF Resolved(list, i) THEN "info"
                              ELSE IF Kind(i).reason = "BackOff" THEN "error" ELSE "warning"
        /\ told[i].reason = Kind(i).reason
        /\ told[i].about = IF Resolved(list, i) THEN None ELSE Kind(i).about
        /\ told[i].count = Group(shown, HealthGroup(list, i)).count
  BY DEF InHealth, Signal
<1>7. \A i \in Range(shown) : /\ i \in Warnings /\ Kind(i).about # None
                              /\ Kind(i).about = <<Kind(i).about[1], Kind(i).about[2]>>
  <2>1. \A i \in Range(shown) : i \in Warnings
    BY <1>3, MemberOfList DEF Range
  <2> QED
    BY <2>1, EventFacts, KindsAssumption
<1> HIDE DEF a, told, list
<1>8. Quotes(a) /\ AddsUp(Counting(a.signals), a.shown)
  <2>1. IsMadeOf(a, told)
    BY <1>1, <1>5 DEF IsMadeOf
  <2>2. a.shown \in Seq(Warnings) /\ IsInjective(a.shown) /\ TellsOnce(told, a.shown)
    BY <1>1, <1>3, <1>4
  <2> QED
    BY <2>1, <2>2, TellsOnceQuotes
<1>9. ASSUME NEW i \in Range(shown), NEW j \in Range(shown), Resolved(list, i),
             Kind(j).reason = Kind(i).reason
      PROVE  Resolved(list, j) <=>
               \E p \in DOMAIN list : Kind(j).about = <<"Pod", p>> /\ list[p].ready
  <2>1. Kind(j).reason \in Probes
    BY <1>9 DEF Resolved, Probes
  <2>2. ASSUME Resolved(list, j)
        PROVE  \E p \in DOMAIN list : Kind(j).about = <<"Pod", p>> /\ list[p].ready
    BY <1>7, <2>2 DEF Resolved, Ready
  <2>3. ASSUME NEW p \in DOMAIN list, Kind(j).about = <<"Pod", p>>, list[p].ready
        PROVE  Resolved(list, j)
    BY <2>1, <2>3 DEF Resolved, Ready, Probes
  <2> QED
    BY <2>2, <2>3
<1>10. ASSUME NEW g \in a.signals, g.severity = "info"
       PROVE  g.count = Cardinality(ReadyPast(list, a.shown, g.reason))
  <2>1. PICK i \in Range(shown) : g = told[i]
    BY <1>5, <1>10
  <2>2. Resolved(list, i)
    BY <2>1, <1>6, <1>10
  <2>3. Range(shown) \cap HealthGroup(list, i) = ReadyPast(list, shown, g.reason)
    <3>1. \A j \in Range(shown) : j \in HealthGroup(list, i) <=>
                                   Kind(j).reason = Kind(i).reason /\ Resolved(list, j)
      BY <1>7, <2>2 DEF HealthGroup
    <3>2. g.reason = Kind(i).reason
      BY <2>1, <1>6
    <3> QED
      BY <3>1, <3>2, <1>9, <2>2 DEF ReadyPast
  <2>4. Group(shown, HealthGroup(list, i)).count =
          Cardinality(Range(shown) \cap HealthGroup(list, i))
    BY <1>3, GroupIs
  <2> QED
    BY <2>1, <2>3, <2>4, <1>1, <1>6
<1>11. ASSUME Explained \in DOMAIN list, NEW i \in Range(shown),
              Kind(i).about = <<"Pod", Explained>>, Kind(i).reason \in Probes
       PROVE  ~list[Explained].ready <=>
                \E h \in Counting(a.signals) : /\ h.reason = Kind(i).reason
                                               /\ h.about = <<"Pod", Explained>>
                                               /\ h.severity = "warning"
  <2>1. ASSUME ~list[Explained].ready
        PROVE  /\ told[i].reason = Kind(i).reason /\ told[i].about = <<"Pod", Explained>>
               /\ told[i].severity = "warning"
    <3>1. ~Resolved(list, i)
      BY <1>11, <2>1 DEF Resolved, Ready
    <3> QED
      BY <3>1, <1>6, <1>11 DEF Probes
  <2>2. ASSUME list[Explained].ready, NEW h \in Counting(a.signals), h.reason = Kind(i).reason,
               h.about = <<"Pod", Explained>>, h.severity = "warning"
        PROVE  FALSE
    <3>1. PICK j \in Range(shown) : h = told[j]
      BY <1>5
    <3>2. ~Resolved(list, j)
      BY <3>1, <1>6, <2>2
    <3>3. Kind(j).reason = Kind(i).reason /\ Kind(j).about = <<"Pod", Explained>>
      BY <3>1, <3>2, <1>6, <2>2
    <3>4. Resolved(list, j)
      BY <3>3, <1>11, <2>2 DEF Resolved, Ready, Probes
    <3> QED
      BY <3>2, <3>4
  <2> QED
    BY <2>1, <2>2, <1>5
<1>12. HealthTellsPast(list, a)
  BY <1>1, <1>10, <1>11 DEF HealthTellsPast
<1> QED
  BY <1>1, <1>2, <1>8, <1>12 DEF Says, a, list

-----------------------------------------------------------------------------
LEMMA ReadPodsEInv ==
  ASSUME EInv, NEW v \in Views, ReadPods(v)
  PROVE  EInv'
<1>1. IInv'
  BY ReadPodsInv DEF EInv
<1>2. events' = events /\ answer' = answer
  BY DEF ReadPods
<1>3. v \notin Answered /\ Answered' = Answered
  BY <1>2 DEF ReadPods, EInv, IInv, ToldInv, Answered
<1>4. \A w \in Views \ {v} : listed'[w] = listed[w]
  BY DEF ReadPods, EInv, IInv, ListInv
<1>5. EventsInv'
  <2>1. DOMAIN listed'[v] \subseteq Pods
    BY DEF ReadPods, EInv, IInv, ListInv, EventsInv
  <2> QED
    BY <1>2, <1>4, <2>1 DEF EInv, EventsInv, EventsOK, ReadPods
<1>6. ASSUME NEW w \in Answered PROVE Says(w, answer[w])'
  <2>1. PICK a : a = answer[w]
    OBVIOUS
  <2>2. listed'[w] = listed[w]
    BY <1>3, <1>4 DEF Answered
  <2>3. Says(w, a)
    BY <2>1 DEF EInv
  <2> QED
    BY <1>2, <2>1, <2>2, <2>3, SaysStays
<1> QED
  BY <1>1, <1>3, <1>5, <1>6 DEF EInv

LEMMA ReadEventsEInv ==
  ASSUME EInv, NEW v \in Views, ReadEvents(v)
  PROVE  EInv'
<1>1. IInv'
  BY ReadEventsInv DEF EInv
<1>2. events' = events /\ listed' = listed /\ pods' = pods
  BY DEF ReadEvents
<1>3. EventsInv'
  BY <1>2 DEF EInv, EventsInv, EventsOK
<1>4. EventsOK
  BY DEF EInv, EventsInv
<1>5. PICK a : answer' = [answer EXCEPT ![v] = a] /\ Says(v, a)
  <2>1. CASE v = "explain" /\ answer' = [answer EXCEPT ![v] = ResolvePodContext]
    BY <2>1, <1>4, ExplanationSays
  <2>2. CASE v = "dump" /\ answer' = [answer EXCEPT ![v] = DumpNamespace]
    BY <2>2, <1>4, DumpSays
  <2>3. CASE v = "health" /\ \E shown \in namespaceWarningEvents :
                               answer' = [answer EXCEPT ![v] = NamespaceHealth(shown)]
    BY <2>3, <1>4, HealthSays
  <2> QED
    BY <2>1, <2>2, <2>3 DEF ReadEvents
<1>6. answer' = [w \in Views |-> IF w = v THEN a ELSE answer[w]]
  BY <1>5 DEF EInv, IInv, ToldInv
<1>7. ASSUME NEW w \in Answered' PROVE Says(w, answer[w])'
  <2>1. PICK b : b = answer'[w]
    OBVIOUS
  <2>2. Says(w, b)
    <3>1. CASE w = v
      BY <3>1, <2>1, <1>5, <1>6
    <3>2. CASE w # v
      <4>1. w \in Answered /\ b = answer[w]
        BY <3>2, <2>1, <1>6 DEF Answered
      <4> QED
        BY <4>1 DEF EInv
    <3> QED
      BY <3>1, <3>2
  <2> QED
    BY <1>2, <2>1, <2>2, SaysStays
<1> QED
  BY <1>1, <1>3, <1>7 DEF EInv

LEMMA StaysEInv ==
  ASSUME EInv, IInv', events' = events, listed' = listed, answer' = answer,
         DOMAIN pods' \subseteq Pods
  PROVE  EInv'
<1>1. EventsInv'
  BY DEF EInv, EventsInv, EventsOK
<1>2. ASSUME NEW w \in Answered' PROVE Says(w, answer[w])'
  <2>1. PICK b : b = answer'[w]
    OBVIOUS
  <2>2. w \in Answered /\ b = answer[w]
    BY <2>1 DEF Answered
  <2>3. Says(w, b)
    BY <2>2 DEF EInv
  <2> QED
    BY <2>1, <2>3, SaysStays
<1> QED
  BY <1>1, <1>2 DEF EInv

LEMMA PodChangesEInv ==
  ASSUME EInv, PodChanges
  PROVE  EInv'
<1>1. IInv'
  BY PodChangesInv DEF EInv
<1>2. DOMAIN pods' \subseteq Pods
  BY ExplainedAssumption DEF PodChanges, EInv, EventsInv
<1> QED
  BY <1>1, <1>2, StaysEInv DEF PodChanges

(* The Events, the Pods and each answer's account of the Events it shows     *)
(* keep to EInv, whatever happens between the reads of an answer.            *)
THEOREM EventsInvariance == Spec => []EInv
<1>1. EInv /\ [Next]_vars => EInv'
  <2> SUFFICES ASSUME EInv, [Next]_vars PROVE EInv'
    OBVIOUS
  <2>1. CASE UNCHANGED vars
    <3>1. IInv'
      BY <2>1 DEF vars, EInv, IInv, ListInv, ToldInv, ErrorInv, Answered, HasStatuses
    <3>2. DOMAIN pods' \subseteq Pods
      BY <2>1 DEF vars, EInv, EventsInv
    <3> QED
      BY <2>1, <3>1, <3>2, StaysEInv DEF vars
  <2>2. CASE Next
    BY <2>2, ReadPodsEInv, ReadEventsEInv, PodChangesEInv DEF Next
  <2> QED
    BY <2>1, <2>2
<1> QED
  BY InitEInv, <1>1, PTL DEF Spec

-----------------------------------------------------------------------------
(* An answer shows at most Limit Events, each once, and each of its signals  *)
(* quotes one of them.                                                       *)
THEOREM ShownOnce == Spec => []TypeInvariant
<1>1. EInv => TypeInvariant
  <2> SUFFICES ASSUME EInv PROVE TypeInvariant
    OBVIOUS
  <2>1. \A v \in Asked : DOMAIN listed[v] \subseteq Pods
    BY DEF EInv, EventsInv, Asked
  <2>2. ASSUME NEW v \in Answered
        PROVE  /\ v \in Asked /\ answer[v].shown \in Seq(Warnings) /\ IsInjective(answer[v].shown)
               /\ Len(answer[v].shown) <= Limit
               /\ \A g \in EventSignals(v) : g.latest \in Shown(v)
    <3>1. v \in Asked
      BY DEF EInv, IInv, ToldInv, Asked, Answered
    <3>2. Says(v, answer[v])
      BY DEF EInv
    <3>3. Shows(v, answer[v].shown) /\ Quotes(answer[v])
      BY <3>2 DEF Says
    <3>4. answer[v].shown \in Seq(Warnings) /\ IsInjective(answer[v].shown)
      BY <3>3, ShownWarnings
    <3> QED
      BY <3>1, <3>3, <3>4 DEF Shows, Quotes, Counting, EventSignals, Shown
  <2> QED
    BY <2>1, <2>2 DEF TypeInvariant
<1> QED
  BY EventsInvariance, <1>1, PTL

(* However many Events there are and however many of them say the same, one  *)
(* is left out only for newer ones: sorting, merging and cutting are in the  *)
(* right order.                                                              *)
THEOREM NewestAreShown == Spec => []NothingNewerOmitted
<1>1. EInv => NothingNewerOmitted
  BY DEF EInv, Says, Shows, NothingNewerOmitted, Shown
<1> QED
  BY EventsInvariance, <1>1, PTL

(* In health and in the dump each Event shown is counted by one signal,      *)
(* which quotes the newest of those it counts.                               *)
THEOREM EachCountedOnce == Spec => []SignalsAddUp
<1>1. EInv => SignalsAddUp
  BY DEF EInv, Says, AddsUp, Counting, Counted, SignalsAddUp, Shown, EventSignals
<1> QED
  BY EventsInvariance, <1>1, PTL

LEMMA HealthPlaysDown ==
  ASSUME EInv PROVE PlayedDownOnlyIfReady
<1>1. "health" \in Answered => HealthTellsPast(listed["health"], answer["health"])
  BY DEF EInv, Says
<1> QED
  BY <1>1 DEF HealthTellsPast, ReadyPast, PlayedDownOnlyIfReady, Shown

LEMMA ExplanationAgrees ==
  ASSUME EInv PROVE ProbesToldAlike
<1> DEFINE list == listed["health"]
<1> SUFFICES ASSUME "explain" \in Answered, "health" \in Answered, Explained \in DOMAIN list,
                    list[Explained] = listed["explain"][Explained],
                    NEW i \in Shown("health") \cap PodWarnings(Explained),
                    NEW g \in EventSignals("explain"),
                    g.reason = Kind(i).reason, g.reason \in {"Unhealthy", "FailedScheduling"}
             PROVE  g.severity = "warning" <=>
                      \E h \in EventSignals("health") :
                        h.reason = g.reason /\ h.about = g.about /\ h.severity = "warning"
  BY Zenon DEF ProbesToldAlike
<1>1. /\ HealthTellsPast(list, answer["health"])
      /\ ExplanationTellsPast(listed["explain"][Explained], answer["explain"])
  BY DEF EInv, Says
<1>2. /\ g.about = <<"Pod", Explained>>
      /\ g.severity = PodSeverity(g.reason, listed["explain"][Explained].ready)
  BY <1>1 DEF ExplanationTellsPast, EventSignals, Counting
<1>3. ~list[Explained].ready <=>
        \E h \in EventSignals("health") : /\ h.reason = Kind(i).reason
                                          /\ h.about = <<"Pod", Explained>>
                                          /\ h.severity = "warning"
  BY <1>1 DEF HealthTellsPast, EventSignals, Counting, PodWarnings, Shown, Probes
<1>4. g.severity = "warning" <=> ~list[Explained].ready
  BY <1>2 DEF PodSeverity
<1> QED
  BY <1>2, <1>3, <1>4

(* What is over is told as over, and only that: health plays down just the   *)
(* Events about Pods that it has read as ready, and the explanation of a Pod *)
(* agrees with it about the Pod's probes and its scheduling.                 *)
THEOREM PastToldAsPast == Spec => []PastIsToldAsPast
<1>1. EInv => PastIsToldAsPast
  BY HealthPlaysDown, ExplanationAgrees DEF PastIsToldAsPast
<1> QED
  BY EventsInvariance, <1>1, PTL

=============================================================================
