---------------------------- MODULE EventReports ----------------------------
(***************************************************************************)
(* What kctx reports of Pods and of the warning Events about them, three   *)
(* times over: the explanation of one Pod (internal/engine/pod_events.go,  *)
(* pod_signals.go), the health of the namespace                            *)
(* (namespace_health_events.go, namespace_health_signals.go) and its dump  *)
(* (dump_events.go, dump_signals.go).  Each reads the Pods first and the   *)
(* Events last, while the cluster goes on.                                 *)
(*                                                                         *)
(* An Event is named by its place in the API server's list.  Left out: the *)
(* wording of signals, of which what they are about, their severity, their *)
(* count and the Event they quote is kept; workloads, Services and claims; *)
(* the UID of an Event's object, since kind and name match whenever it     *)
(* does.                                                                   *)
(***************************************************************************)
EXTENDS Naturals, SequencesExt, FiniteSetsExt, Functions

CONSTANTS
  Pods,       (* names of Pods                                               *)
  Explained,  (* the Pod a client asks to have explained                     *)
  Statuses,   (* statuses of Pods                                            *)
  Kinds,      (* Events, but for their times                                 *)
  Limit,      (* the most Events an answer shows: 8, 20 or 50 in the code    *)
  MaxTime,    (* BOUND: times of Events, in seconds                          *)
  MaxEvents,  (* BOUND: Events in the cluster                                *)
  None        (* no list, no answer yet                                      *)

Waiting == {"CrashLoopBackOff", "ImagePullBackOff", "ErrImagePull"}

(* A container has the reason of its state, if it waits or has ended, and    *)
(* the reason its last run ended for; "" is no reason.                       *)
IsContainer(c) ==
  /\ DOMAIN c = {"reason", "last", "restarts"}
  /\ c.restarts \in Nat

(* The kubelet calls a Pod ready only if all its containers run.             *)
ASSUME StatusesAssumption ==
  \A s \in Statuses :
    /\ s.ready \in BOOLEAN
    /\ DOMAIN s.containers \subseteq Nat
    /\ \A i \in DOMAIN s.containers : IsContainer(s.containers[i])
    /\ s.ready => \A i \in DOMAIN s.containers : s.containers[i].reason = ""
(* An Event is about an object of a kind and a name.                         *)
ASSUME KindsAssumption ==
  \A k \in Kinds :
    /\ k.warning \in BOOLEAN /\ k.hasLast \in BOOLEAN /\ k.count \in Nat
    /\ k.about = <<k.about[1], k.about[2]>> /\ k.about # None
(* A client asks for a Pod that may be there.                                *)
ASSUME ExplainedAssumption == Explained \in Pods
ASSUME LimitAssumption == Limit \in Nat \ {0} /\ MaxTime \in Nat /\ MaxEvents \in Nat

VARIABLES
  pods,    (* the Pods of the namespace, with their status                   *)
  events,  (* the Events of the namespace, with their kind and time          *)
  listed,  (* the Pods as read for an answer, None before                    *)
  answer   (* the answers, None before                                       *)

vars == <<pods, events, listed, answer>>

Views == {"explain", "health", "dump"}
Places == 1..MaxEvents

Calm(s) ==
  \A i \in DOMAIN s.containers : s.containers[i] = [reason |-> "", last |-> "", restarts |-> 0]

(* BOUND: only the explained Pod's containers are in trouble, and not while  *)
(* there are Events, which are signalled independently.                      *)
Possible(p, s) == p # Explained \/ events # <<>> => Calm(s)

(* BOUND: at first there are all Pods; the explained one may go.             *)
Init ==
  /\ events \in UNION {[1..n -> [kind : Kinds, time : 1..MaxTime]] : n \in 0..MaxEvents}
  /\ pods \in [Pods -> Statuses] /\ \A p \in Pods : Possible(p, pods[p])
  /\ listed = [v \in Views |-> None] /\ answer = [v \in Views |-> None]

-----------------------------------------------------------------------------
(* Lists of Events.                                                          *)

Kind(i) == events[i].kind

(* eventTime falls back on other timestamps, so each Event has one.          *)
eventTime(i) == events[i].time
LastTimestamp(i) == IF Kind(i).hasLast THEN events[i].time ELSE 0

Warnings == {i \in DOMAIN events : Kind(i).warning}
PodWarnings(p) == {i \in Warnings : Kind(i).about = <<"Pod", p>>}

(* sort.SliceStable, newest first.                                           *)
Before(i, j) == eventTime(i) > eventTime(j) \/ (eventTime(i) = eventTime(j) /\ i < j)

NewestFirst(S) ==
  CHOOSE s \in SetToSeqs(S) : \A m, n \in DOMAIN s : m < n => Before(s[m], s[n])

(* sort.Slice, which leaves the order of Events of one time open.            *)
NewestFirstUnstable(S) ==
  {s \in SetToSeqs(S) : \A i, j \in DOMAIN s : i < j => eventTime(s[i]) >= eventTime(s[j])}

Cut(s) == SubSeq(s, 1, IF Len(s) > Limit THEN Limit ELSE Len(s))

SameKey(i, j) == Kind(i).reason = Kind(j).reason /\ Kind(i).message = Kind(j).message

Ascending(S) == CHOOSE s \in SetToSeqs(S) : \A m, n \in DOMAIN s : m < n => s[m] < s[n]

(* The first of each key stays, in its place.                                *)
Firsts(s) == {n \in DOMAIN s : \A m \in 1..(n - 1) : ~SameKey(s[m], s[n])}

dedupePodEvents(s) ==
  LET kept == Ascending(Firsts(s)) IN [n \in DOMAIN kept |-> s[kept[n]]]

(* As mistakes would: cut before merged; not cut.                            *)
resolveEventsCutFirst(p) == dedupePodEvents(Cut(NewestFirst(PodWarnings(p))))
resolveEventsUncut(p) == dedupePodEvents(NewestFirst(PodWarnings(p)))

resolveEvents(p) == Cut(dedupePodEvents(NewestFirst(PodWarnings(p))))

dumpWarningEvents == Cut(NewestFirst(Warnings))

namespaceWarningEvents == {Cut(s) : s \in NewestFirstUnstable(Warnings)}

-----------------------------------------------------------------------------
(* Signals of Events: groups of shown Events.                                *)

Signal(severity, reason, about, count, latest) ==
  [severity |-> severity, reason |-> reason, about |-> about, count |-> count, latest |-> latest]

(* addPodEvent adds up the counts of Events, which newer APIs leave at 0,    *)
(* and compares last timestamps alone.                                       *)
addPodEvent(group, i) ==
  LET count == group.count + Kind(i).count IN
  [count |-> IF count = 0 THEN 1 ELSE count,
   latest |-> IF group.latest = 0 \/ LastTimestamp(group.latest) = 0
                   \/ LastTimestamp(i) > LastTimestamp(group.latest)
              THEN i ELSE group.latest]

(* addEvent, and the loop of dumpEventSignals.                               *)
addEvent(group, i) ==
  [count |-> group.count + 1,
   latest |-> IF group.latest = 0 \/ eventTime(i) > eventTime(group.latest)
              THEN i ELSE group.latest]

Nobody == [count |-> 0, latest |-> 0]
Reasons == {k.reason : k \in Kinds}
Subjects == {k.about : k \in Kinds}

PodSeverity(reason, ready) ==
  CASE reason = "BackOff" -> IF ready THEN "warning" ELSE "error"
    [] reason \in {"Unhealthy", "FailedScheduling"} -> IF ready THEN "info" ELSE "warning"
    [] OTHER -> "warning"

(* The loop over the Events shown, for those of one reason.                  *)
PodGroup(shown, reason) ==
  LET group[n \in 0..Len(shown)] ==
        IF n = 0 THEN Nobody
        ELSE IF Kind(shown[n]).reason = reason THEN addPodEvent(group[n - 1], shown[n])
        ELSE group[n - 1]
  IN group[Len(shown)]

podEventSignals(p, ready, shown) ==
  {Signal(PodSeverity(r, ready), r, <<"Pod", p>>,
          PodGroup(shown, r).count, PodGroup(shown, r).latest) :
     r \in {r \in Reasons : PodGroup(shown, r) # Nobody}}

Ready(list, p) == p \in DOMAIN list /\ list[p].ready

(* Without the kind of the object.                                           *)
ResolvedByName(list, i) ==
  /\ Kind(i).reason \in {"Unhealthy", "FailedScheduling"}
  /\ Ready(list, Kind(i).about[2])

(* The Events that namespaceEventSignals takes for past ones.                *)
Resolved(list, i) ==
  LET about == Kind(i).about IN
  /\ Kind(i).reason \in {"Unhealthy", "FailedScheduling"}
  /\ about[1] = "Pod" /\ Ready(list, about[2])

(* The loop over the Events shown, for those in S.                           *)
Group(shown, S) ==
  LET group[n \in 0..Len(shown)] ==
        IF n = 0 THEN Nobody
        ELSE IF shown[n] \in S THEN addEvent(group[n - 1], shown[n]) ELSE group[n - 1]
  IN group[Len(shown)]

(* Without the continue statements: an Event is in both groups.              *)
namespaceEventSignalsTwice(list, shown) ==
  LET past(r) == Group(shown, {i \in Warnings : Kind(i).reason = r /\ Resolved(list, i)})
      open(r, o) == Group(shown, {i \in Warnings : Kind(i).reason = r /\ Kind(i).about = o})
  IN {Signal("info", r, None, past(r).count, past(r).latest) :
        r \in {r \in Reasons : past(r) # Nobody}}
     \cup {Signal(IF x[1] = "BackOff" THEN "error" ELSE "warning", x[1], x[2],
                  open(x[1], x[2]).count, open(x[1], x[2]).latest) :
             x \in {x \in Reasons \X Subjects : open(x[1], x[2]) # Nobody}}

namespaceEventSignals(list, shown) ==
  LET past(r) == Group(shown, {i \in Warnings : Kind(i).reason = r /\ Resolved(list, i)})
      open(r, o) ==
        Group(shown, {i \in Warnings :
                       Kind(i).reason = r /\ Kind(i).about = o /\ ~Resolved(list, i)})
  IN {Signal("info", r, None, past(r).count, past(r).latest) :
        r \in {r \in Reasons : past(r) # Nobody}}
     \cup {Signal(IF x[1] = "BackOff" THEN "error" ELSE "warning", x[1], x[2],
                  open(x[1], x[2]).count, open(x[1], x[2]).latest) :
             x \in {x \in Reasons \X Subjects : open(x[1], x[2]) # Nobody}}

DumpKey(i) == <<Kind(i).about[1], Kind(i).reason, Kind(i).class>>

dumpEventSignals(shown) ==
  LET group(key) == Group(shown, {i \in Warnings : DumpKey(i) = key})
  IN {Signal(IF key[2] = "BackOff" THEN "error" ELSE "warning", key[2], None,
             group(key).count, group(key).latest) :
        key \in {DumpKey(shown[n]) : n \in DOMAIN shown}}

-----------------------------------------------------------------------------
(* Signals of a Pod's status.                                                *)

Status(severity, reason, about, holds) ==
  {Signal(severity, reason, about, 0, 0) : x \in {h \in {TRUE} : holds}}

WaitSignal(reason, about) ==
  Status("error", "crashloop", about, reason = "CrashLoopBackOff")
    \cup Status("error", "image_pull", about, reason \in {"ImagePullBackOff", "ErrImagePull"})

CycleSeverity(c) ==
  IF c.reason = "CrashLoopBackOff" \/ c.last = "OOMKilled" THEN "error"
  ELSE IF c.restarts >= 5 THEN "warning" ELSE "info"

ContainerSignals(c, about) ==
  Status(CycleSeverity(c), "restart_cycle", about, c.restarts > 0 /\ (c.reason # "" \/ c.last # ""))
    \cup WaitSignal(c.reason, about)
    \cup Status("error", "oom_killed", about, c.last = "OOMKilled")
    \cup Status("warning", "last_terminated", about, c.last \notin {"", "Completed", "OOMKilled"})
    \cup Status("warning", "high_restart_count", about, c.restarts >= 5)
    \cup Status("info", "restarted", about, c.restarts \in 1..4)

buildSignals(p, s, shown) ==
  Status("warning", "not_ready", <<"Pod", p>>, ~s.ready)
    \cup (UNION {ContainerSignals(s.containers[i], <<"Pod", p>>) : i \in DOMAIN s.containers})
    \cup podEventSignals(p, s.ready, shown)

(* The reason of the first container that has one.                           *)
podHealthReason(s) ==
  LET some == {i \in DOMAIN s.containers : s.containers[i].reason # ""} IN
  IF some = {} THEN "" ELSE s.containers[CHOOSE i \in some : \A j \in some : i <= j].reason

podRestarts(s) == FoldLeft(LAMBDA sum, c : sum + c.restarts, 0, s.containers)

(* Without the warning about a Pod for which there is a reason.              *)
PodSignalsOfReason(p, s) ==
  Status("warning", "not_ready", <<"Pod", p>>, ~s.ready /\ podHealthReason(s) = "")
    \cup WaitSignal(podHealthReason(s), <<"Pod", p>>)

(* What namespaceSignals and dumpSignals say of one Pod.                     *)
PodSignals(p, s) ==
  Status("warning", "not_ready", <<"Pod", p>>, ~s.ready)
    \cup WaitSignal(podHealthReason(s), <<"Pod", p>>)

namespaceSignals(list, shown) ==
  (UNION {PodSignals(p, list[p])
            \cup Status("warning", "high_restart_count", <<"Pod", p>>, podRestarts(list[p]) >= 5) :
            p \in DOMAIN list})
    \cup namespaceEventSignals(list, shown)

dumpSignals(list, shown) ==
  (UNION {PodSignals(p, list[p]) : p \in DOMAIN list}) \cup dumpEventSignals(shown)

-----------------------------------------------------------------------------
(* The three operations, each in two steps.                                  *)

Asked == {v \in Views : listed[v] # None}

(* ListPods; or GetPod, which fails if there is no such Pod.  BOUND: of the  *)
(* health and the dump, which are not compared, a client asks for one.       *)
ReadPods(v) ==
  /\ listed[v] = None /\ (v # "explain" => Asked \subseteq {"explain"})
  /\ v = "explain" => Explained \in DOMAIN pods
  /\ listed' = [listed EXCEPT ![v] =
                  IF v = "explain" THEN [p \in {Explained} |-> pods[p]] ELSE pods]
  /\ UNCHANGED <<pods, events, answer>>

ResolvePodContext ==
  LET shown == resolveEvents(Explained)
  IN [shown |-> shown, signals |-> buildSignals(Explained, listed["explain"][Explained], shown)]

DumpNamespace ==
  [shown |-> dumpWarningEvents, signals |-> dumpSignals(listed["dump"], dumpWarningEvents)]

NamespaceHealth(shown) ==
  [shown |-> shown, signals |-> namespaceSignals(listed["health"], shown)]

(* ListEvents, the last read of each.                                        *)
ReadEvents(v) ==
  /\ listed[v] # None /\ answer[v] = None
  /\ \/ v = "explain" /\ answer' = [answer EXCEPT ![v] = ResolvePodContext]
     \/ v = "dump" /\ answer' = [answer EXCEPT ![v] = DumpNamespace]
     \/ /\ v = "health"
        /\ \E shown \in namespaceWarningEvents :
             answer' = [answer EXCEPT ![v] = NamespaceHealth(shown)]
  /\ UNCHANGED <<pods, events, listed>>

(* The explained Pod changes, goes or comes while a client waits.            *)
PodChanges ==
  /\ \E v \in Views : listed[v] # None /\ answer[v] = None
  /\ \/ pods' = [p \in DOMAIN pods \ {Explained} |-> pods[p]]
     \/ \E s \in Statuses :
          /\ Possible(Explained, s)
          /\ pods' = [p \in DOMAIN pods \cup {Explained} |-> IF p = Explained THEN s ELSE pods[p]]
  /\ UNCHANGED <<events, listed, answer>>

Next == PodChanges \/ \E v \in Views : ReadPods(v) \/ ReadEvents(v)

Spec == Init /\ [][Next]_vars
-----------------------------------------------------------------------------
(* Properties.                                                               *)

Answered == {v \in Views : answer[v] # None}
Shown(v) == Range(answer[v].shown)
EventSignals(v) == {g \in answer[v].signals : g.count > 0}
StatusReasons ==
  {"not_ready", "crashloop", "image_pull", "oom_killed", "restart_cycle", "last_terminated",
   "high_restart_count", "restarted"}
PodAlarms(v, p) ==
  {g \in answer[v].signals : g.reason \in StatusReasons /\ g.about = <<"Pod", p>>}

(* An answer shows at most Limit Events, each once, and a signal quotes an   *)
(* Event that the answer shows.                                              *)
TypeInvariant ==
  /\ \A v \in Asked : DOMAIN listed[v] \subseteq Pods
  /\ \A v \in Answered :
       /\ v \in Asked /\ answer[v].shown \in Seq(Warnings) /\ IsInjective(answer[v].shown)
       /\ Len(answer[v].shown) <= Limit
       /\ \A g \in EventSignals(v) : g.latest \in Shown(v)

(* The Events an answer may show.                                            *)
Matching(v) == IF v = "explain" THEN PodWarnings(Explained) ELSE Warnings

(* resolveEvents sorts, merges and cuts, in this order: an Event is left out *)
(* only for newer ones, and only if the answer is full or, in an             *)
(* explanation, shows a newer one with the same reason and message.          *)
NothingNewerOmitted ==
  \A v \in Answered : \A i \in Matching(v) \ Shown(v) :
    \/ /\ Len(answer[v].shown) = Limit
       /\ \A j \in Shown(v) : eventTime(j) >= eventTime(i)
    \/ /\ v = "explain"
       /\ \E j \in Shown(v) : SameKey(i, j) /\ eventTime(j) >= eventTime(i)

(* In health and dump the counts of the Events' signals add up to the Events *)
(* shown, however they are grouped, and a signal quotes the newest Event it  *)
(* may stand for.                                                            *)
SignalsAddUp ==
  \A v \in Answered \ {"explain"} :
    /\ Cardinality(UNION {{g} \X (1..g.count) : g \in EventSignals(v)}) = Len(answer[v].shown)
    /\ \A g \in EventSignals(v) :
         Cardinality({i \in Shown(v) : Kind(i).reason = g.reason
                                         /\ eventTime(i) <= eventTime(g.latest)}) >= g.count

(* "... are on Pods that are currently Ready": health plays down just the    *)
(* Events about Pods that its list of Pods had as ready, neither those of    *)
(* Pods that are gone nor those of another object with a Pod's name.         *)
PlayedDownOnlyIfReady ==
  "health" \in Answered =>
    \A g \in answer["health"].signals :
      g.severity = "info" =>
        g.count = Cardinality({i \in Shown("health") :
                    /\ Kind(i).reason = g.reason
                    /\ \E p \in DOMAIN listed["health"] :
                         Kind(i).about = <<"Pod", p>> /\ listed["health"][p].ready})

(* Explanation and health, asked while the Pod was the same, tell the same   *)
(* of its probes and of its scheduling if both show an Event of the kind.    *)
ProbesToldAlike ==
  LET list == listed["health"] IN
  {"explain", "health"} \subseteq Answered =>
    \/ Explained \notin DOMAIN list
    \/ list[Explained] # listed["explain"][Explained]
    \/ \A i \in Shown("health") \cap PodWarnings(Explained) : \A g \in EventSignals("explain") :
        g.reason = Kind(i).reason /\ g.reason \in {"Unhealthy", "FailedScheduling"} =>
          (g.severity = "warning" <=>
             \E h \in EventSignals("health") :
               h.reason = g.reason /\ h.about = g.about /\ h.severity = "warning")

(* What is over is told as over, and only that, however the Pod is asked for. *)
PastIsToldAsPast == PlayedDownOnlyIfReady /\ ProbesToldAlike

(* The three views read a Pod's containers differently, health and dump only *)
(* the first that has a reason: a Pod with a container that crashes or       *)
(* cannot pull its image, whichever it is, is told of in each.               *)
CrashesAreTold ==
  \A v \in Answered : \A p \in DOMAIN listed[v] :
    (\E i \in DOMAIN listed[v][p].containers : listed[v][p].containers[i].reason \in Waiting) =>
      \E g \in PodAlarms(v, p) : g.severity \in {"warning", "error"}

(* And what health and dump call an error the explanation of the Pod as it   *)
(* then was does, too.                                                       *)
TroubleIsTold ==
  /\ CrashesAreTold
  /\ "explain" \in Answered =>
       \A v \in Answered : \A p \in DOMAIN listed[v] \cap {Explained} :
         listed[v][p] = listed["explain"][p] =>
           \A g \in PodAlarms(v, p) : g.severity = "error" => g \in PodAlarms("explain", p)

(* What the comment of eventTime says: it chooses the best timestamp for     *)
(* newest-first ordering, so the latest Event of a signal is the newest.     *)
PodLatestIsNewest ==
  "explain" \in Answered =>
    \A g \in EventSignals("explain") : \A i \in Shown("explain") :
      Kind(i).reason = g.reason => eventTime(i) <= eventTime(g.latest)

=============================================================================
