------------------------ MODULE ServiceBackendsProofs -----------------------
(***************************************************************************)
(* Proofs about ServiceBackends, for any number of Pods, addresses and     *)
(* endpoints.  The lists never change, so an answer is, in every later     *)
(* state too, the function of them it was computed as; the rest is about   *)
(* those functions.                                                        *)
(***************************************************************************)
EXTENDS ServiceBackends, FiniteSetTheorems, WellFoundedInduction, TLAPS

(* The inductive invariant.                                                  *)
PodsOK == Listed \subseteq Pods /\ pods \in [Listed -> Pod]
SlicesOK == slices # None => slices \subseteq Endpoint /\ IsFiniteSet(slices)
LegacyOK == legacy # None => legacy \subseteq Address
TraceOK == trace # None => trace = ServiceTrace
DumpOK == dump # None => dump = NamespaceDump
HealthOK == health # None => health = ServiceHealth

IInv == PodsOK /\ SlicesOK /\ LegacyOK /\ TraceOK /\ DumpOK /\ HealthOK

(* Sets of at most MaxEndpoints members are finite.                          *)
LEMMA UpToFinite ==
  ASSUME NEW S, NEW es \in UpTo(S)
  PROVE  es \subseteq S /\ IsFiniteSet(es)
<1>1. CASE es = {}
  BY <1>1, FS_EmptySet
<1>2. CASE es # {}
  <2>1. PICK f \in [1..MaxEndpoints -> S] : es = {f[i] : i \in 1..MaxEndpoints}
    BY <1>2 DEF UpTo
  <2>2. IsFiniteSet(1..MaxEndpoints)
    BY FS_Interval, BoundAssumption
  <2>3. f \in Surjection(1..MaxEndpoints, es)
    BY <2>1 DEF Surjection
  <2>4. IsFiniteSet(es)
    BY <2>2, <2>3, FS_Surjection
  <2> QED
    BY <2>1, <2>4
<1> QED
  BY <1>1, <1>2

LEMMA InitIInv == Init => IInv
<1> SUFFICES ASSUME Init PROVE IInv
  OBVIOUS
<1>1. SlicesOK
  BY UpToFinite DEF Init, SlicesOK
<1>2. LegacyOK
  BY UpToFinite DEF Init, LegacyOK
<1>3. PodsOK
  BY DEF Init, PodsOK, Listed
<1> QED
  BY <1>1, <1>2, <1>3 DEF Init, IInv, TraceOK, DumpOK, HealthOK

LEMMA NextIInv == IInv /\ [Next]_vars => IInv'
<1> SUFFICES ASSUME IInv, [Next]_vars PROVE IInv'
  OBVIOUS
<1>1. UNCHANGED lists
  BY DEF Next, TraceService, DumpNamespace, NamespaceHealth, vars, lists
<1>2. /\ ServiceTrace' = ServiceTrace /\ NamespaceDump' = NamespaceDump
      /\ ServiceHealth' = ServiceHealth
  BY <1>1
  DEF lists, ServiceTrace, NamespaceDump, ServiceHealth, SelectorSignals, traceSignals, MissingPods,
      serviceEndpoints, FromSlices, FromEndpoints, PodAt, ByIP, Selected, Listed, Endpoints,
      DumpTargets, DumpFlags
<1>3. SlicesOK'
  BY <1>1 DEF IInv, SlicesOK, lists
<1>4. LegacyOK'
  BY <1>1 DEF IInv, LegacyOK, lists
<1>5. PodsOK'
  BY <1>1 DEF IInv, PodsOK, Listed, lists
<1>6. TraceOK'
  BY <1>2 DEF IInv, TraceOK, Next, TraceService, DumpNamespace, NamespaceHealth, vars
<1>7. DumpOK'
  BY <1>2 DEF IInv, DumpOK, Next, TraceService, DumpNamespace, NamespaceHealth, vars
<1>8. HealthOK'
  BY <1>2 DEF IInv, HealthOK, Next, TraceService, DumpNamespace, NamespaceHealth, vars
<1> QED
  BY <1>3, <1>4, <1>5, <1>6, <1>7, <1>8 DEF IInv

(* Every answer stays the function of the lists it was computed as.          *)
THEOREM Invariance == Spec => []IInv
BY InitIInv, NextIInv, PTL DEF Spec

(* A fact is told exactly if it holds.                                       *)
LEMMA FactTold ==
  ASSUME NEW reason, NEW holds \in BOOLEAN
  PROVE  /\ Fact(reason, holds) = {} <=> ~holds
         /\ <<reason, None>> \in Fact(reason, holds) <=> holds
BY DEF Fact

(* A trace without signals vouches for the Service: see SilenceMeansHealthy. *)
LEMMA SilenceFromIInv == IInv => SilenceMeansHealthy
<1> SUFFICES ASSUME IInv, trace # None, trace.signals = {} PROVE SilenceMeansHealthy
  BY DEF SilenceMeansHealthy
<1> DEFINE es == serviceEndpoints
<1>1. trace = ServiceTrace
  BY DEF IInv, TraceOK
<1>2. ~external
  <2>1. Fact("external_name_service", TRUE) # {}
    BY FactTold
  <2> QED
    BY <1>1, <2>1 DEF ServiceTrace
<1>3. trace.endpoints = es /\ SelectorSignals = {} /\ traceSignals(es) = {}
  BY <1>1, <1>2 DEF ServiceTrace
<1> HIDE DEF es
<1>4. es # {} /\ Selected # {}
  <2>1. Fact("no_endpoints_found", es = {}) = {}
    BY <1>3, Zenon DEF traceSignals
  <2>2. Fact("no_selected_pods", Selected = {}) = {}
    BY <1>3 DEF SelectorSignals
  <2> QED
    BY <2>1, <2>2, FactTold
<1>5. \A s \in es : s.ready /\ s.pod # None
  <2>1. Signal("endpoint_without_pod", {s.address : s \in {s \in es : s.pod = None}}) = {}
    BY <1>3, Zenon DEF traceSignals
  <2>2. Signal("endpoint_not_ready", {s.address : s \in {s \in es : ~s.ready}}) = {}
    BY <1>3, Zenon DEF traceSignals
  <2>3. ASSUME NEW s \in es PROVE s.ready
    <3>1. SUFFICES ASSUME ~s.ready PROVE FALSE
      OBVIOUS
    <3>2. s.address \in {x.address : x \in {x \in es : ~x.ready}}
      BY <3>1
    <3> QED
      BY <3>2, <2>2 DEF Signal
  <2>4. ASSUME NEW s \in es PROVE s.pod # None
    <3>1. SUFFICES ASSUME s.pod = None PROVE FALSE
      OBVIOUS
    <3>2. s.address \in {x.address : x \in {x \in es : x.pod = None}}
      BY <3>1
    <3> QED
      BY <3>2, <2>1 DEF Signal
  <2> QED
    BY <2>3, <2>4
<1>6. \A p \in Selected : pods[p].ready
  <2>1. Signal("selected_pod_not_ready", {p \in Selected : ~pods[p].ready}) = {}
    BY <1>3, Zenon DEF traceSignals
  <2> QED
    BY <2>1 DEF Signal
<1>7. \A p \in Selected : pods[p].ip # None => \E s \in es : s.pod = p
  <2>1. Signal("selected_pod_missing_from_endpoints", MissingPods(es)) = {}
    BY <1>3, Zenon DEF traceSignals
  <2>2. MissingPods(es) = {}
    BY <2>1 DEF Signal
  <2> QED
    BY <2>2, <1>4 DEF MissingPods
<1> QED
  BY <1>3, <1>4, <1>5, <1>6, <1>7 DEF SilenceMeansHealthy

(* A trace without signals shows a Service that works, in every cluster.     *)
THEOREM SilenceTrusted == Spec => []SilenceMeansHealthy
BY Invariance, SilenceFromIInv, PTL

-----------------------------------------------------------------------------
(* A Service with EndpointSlices is flagged by all three views or by none:   *)
(* see ViewsAgree.                                                           *)

(* One address at least makes an endpoint's readiness visible in the trace.  *)
LEMMA TraceSeesReady ==
  ASSUME NEW es, es \subseteq Endpoint
  PROVE  (\A s \in FromSlices(es) : ~s.ready) <=> (\A e \in es : ~e.ready)
<1>1. ASSUME \A s \in FromSlices(es) : ~s.ready, NEW e \in es PROVE ~e.ready
  <2>1. 1 \in DOMAIN e.addresses
    <3>1. PICK n \in 1..2 : e.addresses \in [1..n -> IPs]
      BY DEF Endpoint
    <3> QED
      BY <3>1
  <2>2. Summarize(e.addresses[1], PodAt(e, Selected, 1), e.ready) \in FromSlices(es)
    BY <2>1 DEF FromSlices
  <2> QED
    BY <2>2, <1>1 DEF Summarize
<1>2. ASSUME \A e \in es : ~e.ready, NEW s \in FromSlices(es) PROVE ~s.ready
  <2>1. PICK e \in es : \E i \in DOMAIN e.addresses :
          s = Summarize(e.addresses[i], PodAt(e, Selected, i), e.ready)
    BY DEF FromSlices
  <2> QED
    BY <2>1, <1>2 DEF Summarize
<1> QED
  BY <1>1, <1>2

(* The signal of the trace is the fact it stands for, and no other's.        *)
LEMMA UnusableTold ==
  ASSUME NEW es
  PROVE  <<"service_has_no_usable_backends", None>> \in SelectorSignals \cup traceSignals(es)
           <=> ~external /\ \A s \in es : ~s.ready
<1> DEFINE x == <<"service_has_no_usable_backends", None>>
           unusable == ~external /\ \A s \in es : ~s.ready
<1>1. x \in Fact("service_has_no_usable_backends", unusable) <=> unusable
  BY FactTold
<1>2. \A r, h : r # x[1] => x \notin Fact(r, h)
  BY DEF Fact
<1>3. \A r, about : r # x[1] => x \notin Signal(r, about)
  BY DEF Signal
<1>4. x \notin SelectorSignals
  BY <1>2 DEF SelectorSignals
<1>5. x \in traceSignals(es) <=> x \in Fact("service_has_no_usable_backends", unusable)
  BY <1>2, <1>3 DEF traceSignals
<1> QED
  BY <1>1, <1>4, <1>5

LEMMA AgreeFromIInv == IInv => ViewsAgree
<1> SUFFICES ASSUME IInv, ~external, slices # None PROVE ViewsAgree
  BY Zenon DEF ViewsAgree
<1> DEFINE unready == ~external /\ \A e \in slices : ~e.ready
<1>1. slices \subseteq Endpoint /\ IsFiniteSet(slices) /\ Endpoints = slices
  BY DEF IInv, SlicesOK, Endpoints
<1>2. dump # None => (dump.flagged <=> unready)
  <2>1. dump # None => dump.flagged = DumpFlags(slices)
    BY <1>1 DEF IInv, DumpOK, NamespaceDump
  <2> QED
    BY <2>1, Zenon DEF DumpFlags
<1>3. trace # None => (<<"service_has_no_usable_backends", None>> \in trace.signals <=> unready)
  <2> SUFFICES ASSUME trace # None
               PROVE  <<"service_has_no_usable_backends", None>> \in trace.signals <=> unready
    OBVIOUS
  <2>1. trace = ServiceTrace
    BY DEF IInv, TraceOK
  <2>2. CASE external
    BY <2>1, <2>2 DEF ServiceTrace, Fact
  <2>3. CASE ~external
    <3>1. trace.signals = SelectorSignals \cup traceSignals(FromSlices(slices))
      BY <2>1, <2>3 DEF ServiceTrace, serviceEndpoints
    <3> QED
      BY <3>1, <2>3, <1>1, UnusableTold, TraceSeesReady
  <2> QED
    BY <2>2, <2>3
<1>4. health # None => (health.ready = 0 <=> \A e \in slices : ~e.ready)
  <2>1. IsFiniteSet({e \in slices : e.ready})
    BY <1>1, FS_Subset
  <2>2. Cardinality({e \in slices : e.ready}) = 0 <=> {e \in slices : e.ready} = {}
    BY <2>1, FS_EmptySet
  <2> QED
    BY <2>2, <1>1 DEF IInv, HealthOK, ServiceHealth, ReadyEndpoints
<1>5. unready <=> \A e \in slices : ~e.ready
  OBVIOUS
<1> HIDE DEF unready
<1>6. dump # None /\ health # None => (dump.flagged <=> health.ready = 0)
  BY <1>2, <1>4, <1>5, Zenon
<1>7. trace # None /\ dump # None =>
        (dump.flagged <=> <<"service_has_no_usable_backends", None>> \in trace.signals)
  BY <1>2, <1>3, Zenon
<1> QED
  BY <1>6, <1>7, Zenon DEF ViewsAgree

THEOREM ViewsAlwaysAgree == Spec => []ViewsAgree
BY Invariance, AgreeFromIInv, PTL

-----------------------------------------------------------------------------
(* The Pod behind an address.                                                *)

(* A finite set of numbers that is not empty has a greatest member.          *)
LEMMA GreatestExists ==
  ASSUME NEW S \in SUBSET Nat, IsFiniteSet(S), S # {}
  PROVE  \E m \in S : \A n \in S : m >= n
<1> DEFINE HasMax(T) == \E m \in T : \A n \in T : m >= n
           bad == {T \in SUBSET S : T # {} /\ ~HasMax(T)}
           less == StrictSubsetOrdering(S)
<1>1. SUFFICES ASSUME bad # {} PROVE FALSE
  BY DEF HasMax
<1>2. IsWellFoundedOn(less, SUBSET S)
  BY FS_StrictSubsetOrderingWellFounded, FS_FiniteSubsetsOfFinite
<1>3. bad \subseteq SUBSET S
  OBVIOUS
<1>4. PICK T \in bad : \A U \in bad : ~(<<U, T>> \in less)
  <2> HIDE DEF bad, less
  <2> QED
    BY <1>1, <1>2, <1>3, WFMin
<1>5. T \subseteq S /\ T # {} /\ ~HasMax(T)
  BY <1>4
<1>6. PICK x \in T : x \in Nat
  BY <1>5
<1>7. CASE T \ {x} = {}
  BY <1>7, <1>6, <1>5
<1>8. CASE T \ {x} # {}
  <2>1. T \ {x} \notin bad
    BY <1>4, <1>5, <1>6 DEF StrictSubsetOrdering, OpToRel
  <2>2. PICK m \in T \ {x} : \A n \in T \ {x} : m >= n
    BY <2>1, <1>5, <1>8
  <2>3. m \in Nat /\ T \subseteq Nat
    BY <1>5, <2>2
  <2>4. CASE m >= x
    BY <2>2, <2>3, <2>4, <1>5, <1>6
  <2>5. CASE x >= m
    <3>1. \A n \in T : x >= n
      BY <2>2, <2>3, <2>5, <1>6
    <3> QED
      BY <3>1, <1>5, <1>6
  <2> QED
    BY <2>3, <2>4, <2>5, <1>6
<1> QED
  BY <1>7, <1>8

(* ByIP finds a Pod of the list with the address if there is one.            *)
LEMMA ByIPFinds ==
  ASSUME NEW list \in SUBSET Pods, NEW ip
  PROVE  IF \E p \in list : pods[p].ip = ip
         THEN ByIP(list, ip) \in list /\ pods[ByIP(list, ip)].ip = ip
         ELSE ByIP(list, ip) = None
<1> DEFINE holders == {p \in list : pods[p].ip = ip}
<1>1. CASE holders = {}
  BY <1>1 DEF ByIP
<1>2. CASE holders # {}
  <2>1. IsFiniteSet(holders) /\ holders \in SUBSET Nat
    BY PodsAssumption, FS_Subset
  <2>2. \E m \in holders : \A n \in holders : m >= n
    <3> HIDE DEF holders
    <3> QED
      BY <2>1, <1>2, GreatestExists
  <2>3. Max(holders) \in holders
    BY <2>2 DEF Max
  <2>4. ByIP(list, ip) = Max(holders)
    BY <1>2 DEF ByIP
  <2> QED
    BY <2>3, <2>4
<1> QED
  BY <1>1, <1>2

(* An endpoint is never correlated with anything but a Pod.                  *)
LEMMA PodAtType ==
  ASSUME NEW e \in Endpoint, NEW list \in SUBSET Pods, NEW i
  PROVE  PodAt(e, list, i) \in Pods \cup {None}
<1>1. \A ip : ByIP(list, ip) \in Pods \cup {None}
  BY ByIPFinds
<1>2. e.target \in Pods \cup {None}
  BY DEF Endpoint
<1> QED
  BY <1>1, <1>2 DEF PodAt

(* The first address of an endpoint has the Pod referred to or found.        *)
LEMMA PodAtFirst ==
  ASSUME NEW e, NEW list
  PROVE  PodAt(e, list, 1)
           = IF e.target # None THEN e.target ELSE ByIP(list, e.addresses[1])
<1> DEFINE found == {j \in 1..1 : ByIP(list, e.addresses[j]) # None}
<1>1. CASE ByIP(list, e.addresses[1]) = None
  <2>1. found = {}
    BY <1>1
  <2> QED
    BY <1>1, <2>1 DEF PodAt
<1>2. CASE ByIP(list, e.addresses[1]) # None
  <2>1. found = {1}
    BY <1>2
  <2>2. Min({1}) = 1
    BY DEF Min
  <2> QED
    BY <2>1, <2>2 DEF PodAt
<1> QED
  BY <1>1, <1>2

-----------------------------------------------------------------------------
(* What an answer names exists in the lists it was made from: see            *)
(* TypeInvariant.                                                            *)

LEMMA EndpointsTyped == IInv => serviceEndpoints \subseteq Summary
<1> SUFFICES ASSUME IInv, NEW s \in serviceEndpoints PROVE s \in Summary
  OBVIOUS
<1>1. Selected \in SUBSET Pods
  BY DEF IInv, PodsOK, Selected
<1>2. CASE slices # None
  <2>1. PICK e \in slices : \E i \in DOMAIN e.addresses :
          s = Summarize(e.addresses[i], PodAt(e, Selected, i), e.ready)
    BY <1>2 DEF serviceEndpoints, FromSlices
  <2>2. PICK i \in DOMAIN e.addresses :
          s = Summarize(e.addresses[i], PodAt(e, Selected, i), e.ready)
    BY <2>1
  <2>3. e \in Endpoint
    BY <1>2 DEF IInv, SlicesOK
  <2>4. e.addresses[i] \in IPs /\ e.ready \in BOOLEAN
    BY <2>2, <2>3 DEF Endpoint
  <2> QED
    BY <2>2, <2>3, <2>4, <1>1, PodAtType DEF Summarize, Summary
<1>3. CASE slices = None /\ legacy # None
  <2>1. PICK a \in legacy :
          s = Summarize(a.ip, IF a.target # None THEN a.target ELSE ByIP(Selected, a.ip), a.ready)
    BY <1>3 DEF serviceEndpoints, FromEndpoints
  <2>2. a.ip \in IPs /\ a.ready \in BOOLEAN /\ a.target \in Pods \cup {None}
    BY <1>3 DEF IInv, LegacyOK, Address
  <2>3. ByIP(Selected, a.ip) \in Pods \cup {None}
    BY <1>1, ByIPFinds
  <2> QED
    BY <2>1, <2>2, <2>3 DEF Summarize, Summary
<1> QED
  BY <1>2, <1>3 DEF serviceEndpoints

LEMMA TypesFromIInv == IInv => TypeInvariant
<1> SUFFICES ASSUME IInv PROVE TypeInvariant
  OBVIOUS
<1>1. ASSUME trace # None PROVE trace.endpoints \subseteq Summary
  <2>1. trace = ServiceTrace
    BY <1>1 DEF IInv, TraceOK
  <2>2. trace.endpoints = {} \/ trace.endpoints = serviceEndpoints
    BY <2>1 DEF ServiceTrace
  <2> QED
    BY <2>2, EndpointsTyped
<1>2. ASSUME dump # None PROVE dump.targets \subseteq Listed /\ dump.flagged \in BOOLEAN
  <2>1. DumpFlags(Endpoints) \in BOOLEAN
    BY Zenon DEF DumpFlags
  <2> QED
    BY <1>2, <2>1 DEF IInv, DumpOK, NamespaceDump, DumpTargets
<1>3. ASSUME health # None PROVE health.ready \in 0..health.total
  <2>1. IsFiniteSet(Endpoints)
    BY FS_EmptySet DEF IInv, SlicesOK, Endpoints
  <2> DEFINE es == Endpoints
             ready == {e \in es : e.ready}
  <2>2. ready \in SUBSET es
    OBVIOUS
  <2>3. health = [ready |-> Cardinality(ready), total |-> Cardinality(es)]
    BY <1>3 DEF IInv, HealthOK, ServiceHealth, ReadyEndpoints
  <2> HIDE DEF es, ready
  <2>4. IsFiniteSet(es)
    BY <2>1 DEF es
  <2>5. IsFiniteSet(ready) /\ Cardinality(ready) <= Cardinality(es)
    BY <2>2, <2>4, FS_Subset
  <2>6. Cardinality(ready) \in Nat /\ Cardinality(es) \in Nat
    BY <2>4, <2>5, FS_CardinalityType
  <2> QED
    BY <2>3, <2>5, <2>6
<1> QED
  BY <1>1, <1>2, <1>3 DEF TypeInvariant

THEOREM TypeCorrectness == Spec => []TypeInvariant
BY Invariance, TypesFromIInv, PTL

-----------------------------------------------------------------------------
(* The trace finds the Pods behind the endpoints: see PodsAreFound.          *)

(* Where addresses are unique the Pods selected and all Pods tell the same   *)
(* of a selected Pod.                                                        *)
LEMMA ByIPAgree ==
  ASSUME PodsOK, NEW ip \in IPs, NEW p \in Selected,
         \A q, r \in Listed : pods[q].ip = pods[r].ip /\ q # r => pods[q].ip = None
  PROVE  ByIP(Selected, ip) = p <=> ByIP(Listed, ip) = p
<1>1. Selected \subseteq Listed /\ Listed \subseteq Pods /\ ip # None /\ p # None
  BY NoneAssumption DEF Selected, PodsOK
<1>2. \A list \in SUBSET Listed : p \in list => (ByIP(list, ip) = p <=> pods[p].ip = ip)
  BY <1>1, ByIPFinds
<1> QED
  BY <1>1, <1>2

LEMMA TargetsAgreeFromIInv == IInv => TargetsAgree
<1> SUFFICES ASSUME IInv, ~external, slices # None, trace # None, dump # None,
                    \A p, q \in Listed : pods[p].ip = pods[q].ip /\ p # q => pods[p].ip = None,
                    \A e \in slices : Len(e.addresses) = 1,
                    NEW p \in Selected
             PROVE  p \in {s.pod : s \in trace.endpoints} <=> p \in dump.targets
  BY Zenon DEF TargetsAgree
<1>1. /\ trace.endpoints = FromSlices(slices) /\ dump.targets = DumpTargets(slices)
      /\ PodsOK /\ slices \subseteq Endpoint /\ p \in Listed
  BY DEF IInv, TraceOK, DumpOK, SlicesOK, ServiceTrace, NamespaceDump, serviceEndpoints, Endpoints,
         Selected
<1>2. \A e \in slices : DOMAIN e.addresses = {1} /\ e.addresses[1] \in IPs
  <2> TAKE e \in slices
  <2>1. PICK n \in 1..2 : e.addresses \in [1..n -> IPs]
    BY <1>1 DEF Endpoint
  <2>2. Len(e.addresses) = n
    BY <2>1
  <2> QED
    BY <2>1, <2>2
<1>3. \A e \in slices : PodAt(e, Selected, 1) = p <=> PodAt(e, Listed, 1) = p
  BY <1>1, <1>2, PodAtFirst, ByIPAgree
<1>4. p \in {s.pod : s \in trace.endpoints} <=> \E e \in slices : PodAt(e, Selected, 1) = p
  <2>1. ASSUME NEW s \in FromSlices(slices), s.pod = p
        PROVE  \E e \in slices : PodAt(e, Selected, 1) = p
    BY <2>1, <1>2 DEF FromSlices, Summarize
  <2>2. ASSUME NEW e \in slices, PodAt(e, Selected, 1) = p
        PROVE  \E s \in FromSlices(slices) : s.pod = p
    <3>1. Summarize(e.addresses[1], PodAt(e, Selected, 1), e.ready) \in FromSlices(slices)
      BY <1>2 DEF FromSlices
    <3> QED
      BY <3>1, <2>2 DEF Summarize
  <2> QED
    BY <2>1, <2>2, <1>1
<1>5. p \in dump.targets <=> \E e \in slices : PodAt(e, Listed, 1) = p
  BY <1>1, <1>2 DEF DumpTargets
<1> QED
  BY <1>3, <1>4, <1>5

(* The Pod found for the first address is kept for the others.               *)
LEMMA PodIsKept ==
  ASSUME NEW e, NEW list, ByIP(list, e.addresses[1]) # None, NEW i \in Nat, i >= 1
  PROVE  PodAt(e, list, i)
           = IF e.target # None THEN e.target ELSE ByIP(list, e.addresses[1])
<1> DEFINE found == {j \in 1..i : ByIP(list, e.addresses[j]) # None}
<1>1. 1 \in found /\ \A j \in found : j \in Nat /\ 1 <= j
  OBVIOUS
<1> HIDE DEF found
<1>2. Min(found) = 1
  <2>1. \A x \in found : (\A y \in found : x <= y) <=> x = 1
    BY <1>1
  <2>2. Min(found) = CHOOSE x \in found : \A y \in found : x <= y
    BY Zenon DEF Min
  <2> QED
    BY <1>1, <2>1, <2>2
<1>3. found # {}
  BY <1>1
<1> QED
  BY <1>2, <1>3 DEF PodAt, found

(* In step, each address of an endpoint is correlated with the Pod that it   *)
(* mirrors.                                                                  *)
LEMMA MirrorsFound ==
  ASSUME PodsOK, NEW e \in Endpoint, NEW p \in Selected, Mirrors(e, p)
  PROVE  1 \in DOMAIN e.addresses /\ \A i \in DOMAIN e.addresses : PodAt(e, Selected, i) = p
<1>1. e.addresses[1] = pods[p].ip /\ p # None /\ Selected \in SUBSET Pods
  BY NoneAssumption DEF Mirrors, PodsOK, Selected
<1>2. 1 \in DOMAIN e.addresses /\ \A i \in DOMAIN e.addresses : i \in Nat /\ i >= 1
  <2>1. PICK n \in 1..2 : e.addresses \in [1..n -> IPs]
    BY DEF Endpoint
  <2> QED
    BY <2>1
<1>3. CASE e.target = p
  BY <1>1, <1>2, <1>3, Zenon DEF PodAt
<1>4. CASE e.target = None /\ \A q \in Selected \ {p} : pods[q].ip # pods[p].ip
  <2>1. ByIP(Selected, e.addresses[1]) = p
    BY <1>1, <1>4, ByIPFinds
  <2> QED
    BY <1>1, <1>2, <1>4, <2>1, PodIsKept
<1> QED
  BY <1>3, <1>4 DEF Mirrors

(* A signal has the reason it is told with.                                  *)
LEMMA ReasonTold ==
  ASSUME NEW reason
  PROVE  /\ \A holds : \A x \in Fact(reason, holds) : x[1] = reason
         /\ \A about : \A x \in Signal(reason, about) : x[1] = reason
<1>1. ASSUME NEW holds, NEW x \in Fact(reason, holds) PROVE x[1] = reason
  <2>1. x = <<reason, None>>
    BY Zenon DEF Fact
  <2> QED
    BY <2>1
<1>2. ASSUME NEW about, NEW x \in Signal(reason, about) PROVE x[1] = reason
  BY DEF Signal
<1> QED
  BY <1>1, <1>2

LEMMA ResolvedFromIInv == IInv => InStepMeansResolved
<1> SUFFICES ASSUME IInv, trace # None, InStep PROVE Resolved
  BY Zenon DEF InStepMeansResolved
<1>1. trace = ServiceTrace /\ PodsOK /\ slices # None /\ slices \subseteq Endpoint
  BY DEF IInv, TraceOK, InStep, SlicesOK
<1>2. CASE external
  <2>1. \A x \in trace.signals : x \in Fact("external_name_service", TRUE)
    BY <1>1, <1>2 DEF ServiceTrace
  <2>2. \A x \in trace.signals : x[1] = "external_name_service"
    BY <2>1, ReasonTold
  <2> QED
    BY <1>2, <2>2 DEF Resolved
<1>3. CASE ~external
  <2> DEFINE es == FromSlices(slices)
             lost == {s.address : s \in {s \in es : s.pod = None}}
  <2>1. trace.endpoints = es /\ trace.signals = SelectorSignals \cup traceSignals(es)
    BY <1>1, <1>3 DEF ServiceTrace, serviceEndpoints
  <2>2. lost = {}
    <3> SUFFICES ASSUME NEW s \in es, s.pod = None PROVE FALSE
      OBVIOUS
    <3>1. PICK e \in slices : \E i \in DOMAIN e.addresses :
            s = Summarize(e.addresses[i], PodAt(e, Selected, i), e.ready)
      BY DEF FromSlices
    <3>2. PICK i \in DOMAIN e.addresses :
            s = Summarize(e.addresses[i], PodAt(e, Selected, i), e.ready)
      BY <3>1
    <3>3. PICK p \in Selected : Mirrors(e, p)
      BY DEF InStep
    <3>4. s.pod = p
      BY <1>1, <3>2, <3>3, MirrorsFound DEF Summarize
    <3> QED
      BY <1>1, <3>4, NoneAssumption DEF PodsOK, Selected
  <2>3. MissingPods(es) = {}
    <3> SUFFICES ASSUME NEW p \in Selected, pods[p].ip # None PROVE \E s \in es : s.pod = p
      BY DEF MissingPods
    <3>1. PICK e \in slices : Mirrors(e, p)
      BY DEF InStep
    <3>2. 1 \in DOMAIN e.addresses /\ PodAt(e, Selected, 1) = p
      BY <1>1, <3>1, MirrorsFound
    <3>3. Summarize(e.addresses[1], PodAt(e, Selected, 1), e.ready) \in es
      BY <3>2 DEF FromSlices
    <3> QED
      BY <3>2, <3>3 DEF Summarize
  <2>4. ASSUME NEW e \in slices
        PROVE  \E p \in Selected :
                 /\ e.addresses[1] = pods[p].ip
                 /\ \A i \in DOMAIN e.addresses : Summarize(e.addresses[i], p, e.ready) \in es
    <3>1. PICK p \in Selected : Mirrors(e, p)
      BY DEF InStep
    <3>2. \A i \in DOMAIN e.addresses : PodAt(e, Selected, i) = p
      BY <1>1, <3>1, MirrorsFound
    <3>3. \A i \in DOMAIN e.addresses :
            Summarize(e.addresses[i], PodAt(e, Selected, i), e.ready) \in es
      BY DEF FromSlices
    <3>4. \A i \in DOMAIN e.addresses : Summarize(e.addresses[i], p, e.ready) \in es
      BY <3>2, <3>3
    <3> QED
      BY <3>1, <3>4 DEF Mirrors
  <2> HIDE DEF es, lost
  <2>5. ASSUME NEW x \in trace.signals
        PROVE  x[1] \notin {"endpoint_without_pod", "selected_pod_missing_from_endpoints"}
    <3>1. \A r, h : x \in Fact(r, h) => x[1] = r
      BY ReasonTold
    <3>2. \A r, about : x \in Signal(r, about) => x[1] = r
      BY ReasonTold
    <3>3. x \notin Signal("endpoint_without_pod", lost)
      BY <2>2 DEF Signal
    <3>4. x \notin Signal("selected_pod_missing_from_endpoints", MissingPods(es))
      BY <2>3 DEF Signal
    <3> QED
      BY <2>1, <3>1, <3>2, <3>3, <3>4 DEF SelectorSignals, traceSignals, lost
  <2> QED
    BY <2>1, <2>4, <2>5 DEF Resolved
<1> QED
  BY <1>2, <1>3

(* The trace and the dump find the same Pods, and the trace raises no false  *)
(* alarm in a cluster in step: see PodsAreFound.                             *)
THEOREM PodsAlwaysFound == Spec => []PodsAreFound
<1>1. IInv => PodsAreFound
  BY TargetsAgreeFromIInv, ResolvedFromIInv DEF PodsAreFound
<1> QED
  BY <1>1, Invariance, PTL

=============================================================================
