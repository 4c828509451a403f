--------------------------- MODULE MCEventReports ---------------------------
(* EventReports for TLC: two Pods, a Job that has the name of one of them,   *)
(* and Pods as the kubelet can leave them.                                   *)
EXTENDS EventReports

Container(reason, last, restarts) == [reason |-> reason, last |-> last, restarts |-> restarts]
Running == Container("", "", 0)
PodStatus(ready, containers) == [ready |-> ready, containers |-> containers]

MCStatuses ==
  {PodStatus(TRUE, <<Running>>), PodStatus(FALSE, <<Running>>),
   PodStatus(TRUE, <<Container("", "OOMKilled", 5), Container("", "Error", 1)>>),
   PodStatus(FALSE, <<Container("CrashLoopBackOff", "OOMKilled", 5)>>),
   PodStatus(FALSE, <<Container("ErrImagePull", "", 0)>>),
   PodStatus(FALSE, <<Running, Container("CrashLoopBackOff", "Error", 3)>>),
   PodStatus(FALSE, <<Container("Completed", "", 0),
                      Container("CrashLoopBackOff", "Completed", 3)>>),
   PodStatus(FALSE, <<Container("ImagePullBackOff", "", 0),
                      Container("CrashLoopBackOff", "Error", 6)>>)}

(* lastTimestamp and count are what the older API for Events fills in.       *)
Event(about, reason, message, class, warning, count) ==
  [about |-> about, reason |-> reason, message |-> message, class |-> class,
   warning |-> warning, hasLast |-> count > 0, count |-> count]

MCKinds ==
  {Event(<<"Pod", "p">>, "FailedScheduling", "taint", "taint", TRUE, 0),
   Event(<<"Pod", "p">>, "Unhealthy", "liveness 1", "liveness", TRUE, 1),
   Event(<<"Pod", "p">>, "Unhealthy", "liveness 2", "liveness", TRUE, 2),
   Event(<<"Pod", "p">>, "BackOff", "back-off", "container_backoff", TRUE, 1),
   Event(<<"Pod", "q">>, "Unhealthy", "liveness 1", "liveness", TRUE, 1),
   Event(<<"Job", "p">>, "Unhealthy", "liveness 1", "liveness", TRUE, 0),
   Event(<<"Pod", "p">>, "Pulled", "pulled", "pulled", FALSE, 1)}

(* What the scheduler records through the newer API.                         *)
MCSchedulerKinds ==
  {Event(<<"Pod", "p">>, "FailedScheduling", "taint", "taint", TRUE, 0),
   Event(<<"Pod", "p">>, "FailedScheduling", "no room", "no room", TRUE, 0)}

=============================================================================
