--------------------------- MODULE ServiceBackends --------------------------
(***************************************************************************)
(* What kctx says of the backends of one Service, three times over: the    *)
(* trace of the Service (internal/engine/service_endpoints.go,             *)
(* service_signals.go), the dump of its namespace (dump_relations.go,      *)
(* dump_signals.go) and the health of its namespace                        *)
(* (namespace_health_services.go).  Each lists the Pods first and the      *)
(* endpoints later, while the cluster goes on: the Pods of the one list    *)
(* and the endpoints of the other are any, they need not have existed      *)
(* together.                                                               *)
(*                                                                         *)
(* Left out: ports, which repeat an address in the trace, the wording and  *)
(* the severity of a signal.  Lists an answer sorts are sets.              *)
(***************************************************************************)
EXTENDS Naturals, Sequences, FiniteSetsExt

CONSTANTS
  Pods,          (* Pods, numbered as their names sort                        *)
  IPs,           (* addresses                                                 *)
  MaxEndpoints,  (* BOUND: endpoints of the Service                           *)
  None           (* no address, no Pod, no object, no answer yet              *)

ASSUME PodsAssumption == Pods \subseteq Nat /\ IsFiniteSet(Pods)
ASSUME NoneAssumption == None \notin Pods \cup IPs
ASSUME BoundAssumption == MaxEndpoints \in Nat

VARIABLES
  external,   (* is the Service of type ExternalName?                        *)
  pods,       (* the Pods of the namespace, as listed                        *)
  slices,     (* endpoints of the Service's EndpointSlices, None without one *)
  legacy,     (* addresses of its Endpoints object, None without one         *)
  trace,      (* TraceService's answer, None before                          *)
  dump,       (* DumpNamespace's answer about the Service                    *)
  health      (* NamespaceHealth's answer about the Service                  *)

lists == <<external, pods, slices, legacy>>
vars == <<external, pods, slices, legacy, trace, dump, health>>

(* A missing Ready condition counts as ready; a targetRef to anything but a  *)
(* Pod counts as none.                                                       *)
Pod == [ip : IPs \cup {None}, ready : BOOLEAN, selected : BOOLEAN]
Endpoint ==
  [addresses : UNION {[1..n -> IPs] : n \in 1..2}, target : Pods \cup {None}, ready : BOOLEAN]
Address == [ip : IPs, target : Pods \cup {None}, ready : BOOLEAN]
Summary == [address : IPs, pod : Pods \cup {None}, ready : BOOLEAN]

(* Sets of one to MaxEndpoints members of S, and the empty one.              *)
UpTo(S) == {{}} \cup {{f[i] : i \in 1..MaxEndpoints} : f \in [1..MaxEndpoints -> S]}

(* A cluster keeps Endpoints, EndpointSlices or both; the first is read only *)
(* without the second.                                                       *)
Init ==
  /\ external \in BOOLEAN
  /\ pods \in UNION {[listed -> Pod] : listed \in SUBSET Pods}
  /\ \/ slices = None /\ legacy = None
     \/ slices \in UpTo(Endpoint) /\ legacy = None
     \/ slices = None /\ legacy \in UpTo(Address)
  /\ trace = None /\ dump = None /\ health = None

-----------------------------------------------------------------------------
(* Correlation.                                                              *)

Listed == DOMAIN pods
Selected == {p \in Listed : pods[p].selected}

(* podIndexes: of the Pods of a list with the same address the last has it.  *)
ByIP(list, ip) ==
  LET holders == {p \in list : pods[p].ip = ip} IN IF holders = {} THEN None ELSE Max(holders)

(* Without keeping the Pod from one address to the next.                     *)
PodAtAfresh(e, list, i) == IF e.target # None THEN e.target ELSE ByIP(list, e.addresses[i])

(* The Pod of an endpoint's i-th address: the one it refers to, or the one   *)
(* found for the first of its addresses, up to this, that has one.           *)
PodAt(e, list, i) ==
  LET found == {j \in 1..i : ByIP(list, e.addresses[j]) # None} IN
  IF e.target # None THEN e.target
  ELSE IF found = {} THEN None ELSE ByIP(list, e.addresses[Min(found)])

Summarize(ip, pod, ready) == [address |-> ip, pod |-> pod, ready |-> ready]

(* endpointSummariesFromSlices.                                              *)
FromSlices(es) ==
  UNION {{Summarize(e.addresses[i], PodAt(e, Selected, i), e.ready) : i \in DOMAIN e.addresses} :
           e \in es}

(* endpointSummariesFromEndpoints.                                           *)
FromEndpoints(as) ==
  {Summarize(a.ip, IF a.target # None THEN a.target ELSE ByIP(Selected, a.ip), a.ready) : a \in as}

(* serviceEndpoints prefers slices.                                          *)
serviceEndpoints ==
  IF slices # None THEN FromSlices(slices)
  ELSE IF legacy # None THEN FromEndpoints(legacy) ELSE {}

-----------------------------------------------------------------------------
(* Signals of the trace, each with the address or the Pod it is about.       *)

Signal(reason, about) == {<<reason, x>> : x \in about}
Fact(reason, holds) == {<<reason, None>> : x \in {h \in {TRUE} : holds}}

(* Without the check for an address; by address instead of by name.          *)
MissingPodsUnaddressed(es) == {p \in Selected : es # {} /\ \A s \in es : s.pod # p}
MissingPodsByAddress(es) ==
  {p \in Selected : es # {} /\ pods[p].ip # None /\ \A s \in es : s.address # pods[p].ip}

(* Selected Pods with an address that no endpoint names.                     *)
MissingPods(es) == {p \in Selected : es # {} /\ pods[p].ip # None /\ \A s \in es : s.pod # p}

traceSignals(es) ==
  Fact("no_endpoints_found", es = {})
    \cup Signal("endpoint_without_pod", {s.address : s \in {s \in es : s.pod = None}})
    \cup Signal("endpoint_not_ready", {s.address : s \in {s \in es : ~s.ready}})
    \cup Signal("selected_pod_not_ready", {p \in Selected : ~pods[p].ready})
    \cup Signal("selected_pod_missing_from_endpoints", MissingPods(es))
    \cup Fact("all_backends_unready", Selected # {} /\ \A p \in Selected : ~pods[p].ready)
    \cup Fact("service_has_no_usable_backends", ~external /\ \A s \in es : ~s.ready)

(* The warning that there is no selector or that it matches no Pod.          *)
SelectorSignals == Fact("no_selected_pods", Selected = {})

-----------------------------------------------------------------------------
(* The three answers.                                                        *)

(* An ExternalName Service is answered without any list.                     *)
ServiceTrace ==
  IF external THEN [endpoints |-> {}, signals |-> Fact("external_name_service", TRUE)]
  ELSE [endpoints |-> serviceEndpoints,
        signals |-> SelectorSignals \cup traceSignals(serviceEndpoints)]

TraceService == trace = None /\ trace' = ServiceTrace /\ UNCHANGED <<lists, dump, health>>

(* Without the look-up by name.                                              *)
DumpTargetsUnchecked(es) == UNION {{PodAt(e, Listed, i) : i \in DOMAIN e.addresses} : e \in es}

(* addDumpEndpointSliceRelations: only Pods of the dump are targets, and     *)
(* every Pod of the namespace is looked up by address.                       *)
DumpTargets(es) ==
  {p \in Listed : \E e \in es : \E i \in DOMAIN e.addresses : PodAt(e, Listed, i) = p}

(* Counting addresses that are not ready, too.                               *)
DumpFlagsEmpty(es) == ~external /\ es = {}

(* dumpServiceSignals.                                                       *)
DumpFlags(es) == ~external /\ \A e \in es : ~e.ready

Endpoints == IF slices = None THEN {} ELSE slices

NamespaceDump == [targets |-> DumpTargets(Endpoints), flagged |-> DumpFlags(Endpoints)]

DumpNamespace == dump = None /\ dump' = NamespaceDump /\ UNCHANGED <<lists, trace, health>>

(* readyEndpointsForService.                                                 *)
ReadyEndpoints(es) == Cardinality({e \in es : e.ready})

ServiceHealth == [ready |-> ReadyEndpoints(Endpoints), total |-> Cardinality(Endpoints)]

NamespaceHealth == health = None /\ health' = ServiceHealth /\ UNCHANGED <<lists, trace, dump>>

Next == TraceService \/ DumpNamespace \/ NamespaceHealth

Spec == Init /\ [][Next]_vars

-----------------------------------------------------------------------------
(* Properties.                                                               *)

(* What an answer names exists in the lists it was made from.                *)
TypeInvariant ==
  /\ trace # None => trace.endpoints \subseteq Summary
  /\ dump # None => dump.targets \subseteq Listed /\ dump.flagged \in BOOLEAN
  /\ health # None => health.ready \in 0..health.total

(* The three views tell an operator the same of a Service that has           *)
(* EndpointSlices and is not an ExternalName (dumpServiceSignals counts      *)
(* addresses, namespace health endpoints, the trace summaries): it is        *)
(* flagged in one exactly if it is in all.                                   *)
ViewsAgree ==
  ~external /\ slices # None =>
    /\ trace # None /\ dump # None =>
         (dump.flagged <=> <<"service_has_no_usable_backends", None>> \in trace.signals)
    /\ dump # None /\ health # None => (dump.flagged <=> health.ready = 0)

(* The trace looks addresses up among the Pods the Service selects, the dump *)
(* among all: where no address has two Pods and no endpoint two addresses,   *)
(* both correlate the same selected Pods with the Service.                   *)
TargetsAgree ==
  /\ ~external /\ slices # None /\ trace # None /\ dump # None
  /\ \A p, q \in Listed : pods[p].ip = pods[q].ip /\ p # q => pods[p].ip = None
  /\ \A e \in slices : Len(e.addresses) = 1
  => {s.pod : s \in trace.endpoints} \cap Selected = dump.targets \cap Selected

(* A trace without signals vouches for the Service: it has an endpoint, all  *)
(* are ready and name a Pod, all selected Pods are ready and those with an   *)
(* address are among the endpoints.                                          *)
SilenceMeansHealthy ==
  trace # None /\ trace.signals = {} =>
    /\ trace.endpoints # {} /\ Selected # {}
    /\ \A s \in trace.endpoints : s.ready /\ s.pod # None
    /\ \A p \in Selected :
         pods[p].ready /\ (pods[p].ip # None => \E s \in trace.endpoints : s.pod = p)

(* Endpoints are in step with the Pods: one for each selected Pod that has   *)
(* an address, that refers to the Pod or, where addresses are unique, need   *)
(* not.  The Pod's address is the endpoint's first; others, which no Pod has *)
(* or another Pod has, may follow.                                           *)
Mirrors(e, p) ==
  /\ e.addresses[1] = pods[p].ip /\ e.ready = pods[p].ready
  /\ \/ e.target = p
     \/ e.target = None /\ \A q \in Selected \ {p} : pods[q].ip # pods[p].ip

InStep ==
  /\ slices # None
  /\ \A e \in slices : \E p \in Selected : Mirrors(e, p)
  /\ \A p \in Selected : pods[p].ip # None => \E e \in slices : Mirrors(e, p)

Resolved ==
  /\ \A x \in trace.signals :
       x[1] \notin {"endpoint_without_pod", "selected_pod_missing_from_endpoints"}
  /\ ~external => \A e \in slices : \E p \in Selected :
       /\ e.addresses[1] = pods[p].ip
       /\ \A i \in DOMAIN e.addresses : Summarize(e.addresses[i], p, e.ready) \in trace.endpoints

(* No false alarm: in a cluster whose endpoints are in step with its Pods, a *)
(* trace reports no endpoint without a Pod and no Pod without an endpoint,   *)
(* and every address of an endpoint shows the Pod of the first.              *)
InStepMeansResolved == trace # None /\ InStep => Resolved

(* The trace finds the Pods behind the endpoints that there are to find, and *)
(* finds those that the dump finds.                                          *)
PodsAreFound == TargetsAgree /\ InStepMeansResolved

=============================================================================
