------------------------------ MODULE Metrics ------------------------------
(***************************************************************************)
(* The metrics registry of kctx serve, internal/observability/metrics.go.  *)
(*                                                                         *)
(* Every finished HTTP request is observed (ObserveHTTPRequest): under the *)
(* registry's mutex it finds or makes the counter and the two histograms   *)
(* of its key, and after the unlock it adds to them, one atomic variable   *)
(* at a time.  GET /metrics reports all of them (MarshalJSON) while it     *)
(* holds the mutex, which keeps new observations out and leaves those that *)
(* have passed it running.                                                 *)
(*                                                                         *)
(* A cell <<field, key, slot>> is one atomic variable.                     *)
(***************************************************************************)
EXTENDS Integers, FiniteSets, Sequences

CONSTANTS
  Requests,    (* finished HTTP requests                                     *)
  Keys,        (* keys (method, route and status), numbered as they sort     *)
  Profiles,    (* the values a request is observed with                      *)
  Bounds,      (* the upper bounds of both histograms' buckets, ascending    *)
  MaxReports   (* BOUND: reports made                                        *)

ASSUME KeysAssumption == Keys \subseteq Nat
ASSUME ProfilesAssumption == Profiles \subseteq [latency : Nat, size : Nat]
ASSUME BoundsAssumption ==
  /\ Bounds \in Seq(Nat)
  /\ \A i, j \in DOMAIN Bounds : i < j => Bounds[i] <= Bounds[j]
ASSUME RequestsAssumption == IsFiniteSet(Requests)
ASSUME ReportsAssumption == MaxReports \in Nat

VARIABLES
  key,       (* key[o]: the key of request o                                 *)
  value,     (* value[o]: its latency and the size of its response           *)
  step,      (* step[o]: 0 before the lookup, i while its i-th addition is   *)
             (* due, 8 when all are made                                     *)
  loaded,    (* loaded[o]: what atomicFloat64.Add loaded, Unloaded before    *)
  entries,   (* the keys of the three maps                                   *)
  cell,      (* the atomic variables                                         *)
  locked,    (* is a report being made, under the mutex?                     *)
  todo,      (* the cells it has still to load                               *)
  seen,      (* what it has loaded                                           *)
  busy,      (* the observations that were adding when it took the mutex     *)
  last,      (* the report before it                                         *)
  reports    (* reports begun                                                *)

observation == <<key, value, step, loaded>>
report == <<locked, todo, seen, busy, last, reports>>
vars == <<key, value, step, loaded, entries, cell, locked, todo, seen, busy, last, reports>>

Hists == {"latency", "size"}
Buckets == 1..(Len(Bounds) + 1)
CountSlot == Len(Bounds) + 2
SumSlot == Len(Bounds) + 3
Cells == ({"requests"} \X Keys \X {0}) \cup (Hists \X Keys \X (1..SumSlot))

Unloaded == -1
Loads == Nat \cup {Unloaded}
Nothing == [c \in {} |-> 0]

TypeOK ==
  /\ key \in [Requests -> Keys]
  /\ value \in [Requests -> Profiles]
  /\ step \in [Requests -> 0..8]
  /\ loaded \in [Requests -> Loads]
  /\ entries \in SUBSET Keys
  /\ cell \in [Cells -> Nat]
  /\ locked \in BOOLEAN
  /\ todo \in SUBSET Cells
  /\ \A r \in {seen, last} : r \in [DOMAIN r -> Nat] /\ DOMAIN r \subseteq Cells
  /\ busy \in SUBSET Requests
  /\ reports \in 0..MaxReports

Init ==
  /\ key \in [Requests -> Keys]
  /\ value \in [Requests -> Profiles]
  /\ step = [o \in Requests |-> 0]
  /\ loaded = [o \in Requests |-> Unloaded]
  /\ entries = {}
  /\ cell = [c \in Cells |-> 0]
  /\ locked = FALSE
  /\ todo = {}
  /\ seen = Nothing /\ last = Nothing
  /\ busy = {}
  /\ reports = 0

-----------------------------------------------------------------------------
(* ObserveHTTPRequest.                                                       *)

(* sort.SearchFloat64s: the first bound not below v, else "+Inf".            *)
Bucket(v) ==
  CHOOSE i \in Buckets :
    /\ i \in DOMAIN Bounds => v <= Bounds[i]
    /\ \A j \in 1..(i - 1) : v > Bounds[j]

(* The cells a request adds to, in order; a histogram gets its bucket, its   *)
(* count and its sum.                                                        *)
Additions(o) ==
  << <<"requests", key[o], 0>>,
     <<"latency", key[o], Bucket(value[o].latency)>>,
     <<"latency", key[o], CountSlot>>, <<"latency", key[o], SumSlot>>,
     <<"size", key[o], Bucket(value[o].size)>>,
     <<"size", key[o], CountSlot>>, <<"size", key[o], SumSlot>> >>

Adding(o) == step[o] \in 1..7
Target(o) == Additions(o)[step[o]]
ToSum(o) == Target(o)[3] = SumSlot
Amount(o) == value[o][Target(o)[1]]

(* Variants of LookUp: it replaces the entries it finds, it does not store    *)
(* those it makes, it does not take the mutex.                               *)
LookUpAnew(o) ==
  /\ step[o] = 0
  /\ ~locked
  /\ step' = [step EXCEPT ![o] = 1]
  /\ entries' = entries \cup {key[o]}
  /\ cell' = [c \in Cells |-> IF c[2] = key[o] THEN 0 ELSE cell[c]]
  /\ UNCHANGED <<key, value, loaded, report>>

LookUpUnstored(o) ==
  /\ step[o] = 0
  /\ ~locked
  /\ step' = [step EXCEPT ![o] = 1]
  /\ UNCHANGED <<key, value, loaded, entries, cell, report>>

LookUpUnlocked(o) ==
  /\ step[o] = 0
  /\ step' = [step EXCEPT ![o] = 1]
  /\ entries' = entries \cup {key[o]}
  /\ UNCHANGED <<key, value, loaded, cell, report>>

(* counterFor and histogramFor, under the mutex.                             *)
LookUp(o) ==
  /\ step[o] = 0
  /\ ~locked
  /\ step' = [step EXCEPT ![o] = 1]
  /\ entries' = entries \cup {key[o]}
  /\ UNCHANGED <<key, value, loaded, cell, report>>

(* atomic.Uint64.Add on the counter, a bucket or a count.                    *)
Add(o) ==
  /\ Adding(o)
  /\ ~ToSum(o)
  /\ cell' = [cell EXCEPT ![Target(o)] = @ + 1]
  /\ step' = [step EXCEPT ![o] = @ + 1]
  /\ UNCHANGED <<key, value, loaded, entries, report>>

(* atomicFloat64.Add loads the sum ...                                       *)
LoadSum(o) ==
  /\ Adding(o)
  /\ ToSum(o)
  /\ loaded[o] = Unloaded
  /\ loaded' = [loaded EXCEPT ![o] = cell[Target(o)]]
  /\ UNCHANGED <<key, value, step, entries, cell, report>>

(* Variants of SwapSum: a plain store, and a loop that does not load again.  *)
StoreSum(o) ==
  /\ Adding(o)
  /\ ToSum(o)
  /\ loaded[o] # Unloaded
  /\ cell' = [cell EXCEPT ![Target(o)] = loaded[o] + Amount(o)]
  /\ step' = [step EXCEPT ![o] = @ + 1]
  /\ loaded' = [loaded EXCEPT ![o] = Unloaded]
  /\ UNCHANGED <<key, value, entries, report>>

SwapSumOrSpin(o) ==
  /\ Adding(o)
  /\ ToSum(o)
  /\ loaded[o] # Unloaded
  /\ cell[Target(o)] = loaded[o]
  /\ cell' = [cell EXCEPT ![Target(o)] = loaded[o] + Amount(o)]
  /\ step' = [step EXCEPT ![o] = @ + 1]
  /\ loaded' = [loaded EXCEPT ![o] = Unloaded]
  /\ UNCHANGED <<key, value, entries, report>>

(* ... and swaps it, or starts over if it has changed.                       *)
SwapSum(o) ==
  /\ Adding(o)
  /\ ToSum(o)
  /\ loaded[o] # Unloaded
  /\ loaded' = [loaded EXCEPT ![o] = Unloaded]
  /\ IF cell[Target(o)] = loaded[o]
     THEN /\ cell' = [cell EXCEPT ![Target(o)] = loaded[o] + Amount(o)]
          /\ step' = [step EXCEPT ![o] = @ + 1]
     ELSE UNCHANGED <<cell, step>>
  /\ UNCHANGED <<key, value, entries, report>>

-----------------------------------------------------------------------------
(* MarshalJSON.                                                              *)

(* The counters by key, then each histogram by key: buckets, count and sum.  *)
Rank == [requests |-> 1, latency |-> 2, size |-> 3]
Before(c, d) ==
  \/ Rank[c[1]] < Rank[d[1]]
  \/ c[1] = d[1] /\ c[2] < d[2]
  \/ c[1] = d[1] /\ c[2] = d[2] /\ c[3] < d[3]

Reported == {c \in Cells : c[2] \in entries}

BeginReport ==
  /\ ~locked
  /\ reports < MaxReports
  /\ locked' = TRUE
  /\ todo' = Reported
  /\ busy' = {o \in Requests : Adding(o)}
  /\ reports' = reports + 1
  /\ UNCHANGED <<observation, entries, cell, seen, last>>

ReadCell ==
  \E c \in todo :
    /\ locked
    /\ \A d \in todo \ {c} : Before(c, d)
    /\ seen' = [d \in DOMAIN seen \cup {c} |-> IF d = c THEN cell[c] ELSE seen[d]]
    /\ todo' = todo \ {c}
    /\ UNCHANGED <<observation, entries, cell, locked, busy, last, reports>>

EndReport ==
  /\ locked
  /\ todo = {}
  /\ locked' = FALSE
  /\ last' = seen
  /\ seen' = Nothing
  /\ busy' = {}
  /\ UNCHANGED <<observation, entries, cell, todo, reports>>

ObserveHTTPRequest(o) == LookUp(o) \/ Add(o) \/ LoadSum(o) \/ SwapSum(o)
MarshalJSON == BeginReport \/ ReadCell \/ EndReport

Next == (\E o \in Requests : ObserveHTTPRequest(o)) \/ MarshalJSON

Spec == Init /\ [][Next]_vars

(* Handlers run; the reports bounded by MaxReports end.                      *)
Fairness ==
  /\ \A o \in Requests : WF_vars(ObserveHTTPRequest(o))
  /\ WF_vars(ReadCell \/ EndReport)

FairSpec == Spec /\ Fairness

-----------------------------------------------------------------------------
(* Properties.                                                               *)

(* Every variable has its type; what a request adds to, and what a report    *)
(* has loaded, belongs to a key of the maps.                                 *)
TypeInvariant ==
  /\ TypeOK
  /\ \A o \in Requests : step[o] > 0 => key[o] \in entries
  /\ \A c \in DOMAIN seen \cup DOMAIN last : c[2] \in entries

Observed == {o \in Requests : step[o] = 8}

(* The sum of a function's values, counted: one pair for each unit.          *)
Total(f) == Cardinality(UNION {{x} \X (1..f[x]) : x \in DOMAIN f})

(* When nothing is being added, every observed request is in the counter of  *)
(* its key, in the first bucket whose bound is not below its value, in the   *)
(* counts and in the sums: nothing is lost to the race of additions.         *)
EveryRequestIsCounted ==
  (\A o \in Requests : ~Adding(o)) =>
    \A k \in Keys :
      LET mine == {o \in Observed : key[o] = k} IN
      /\ cell[<<"requests", k, 0>>] = Cardinality(mine)
      /\ \A h \in Hists :
           /\ cell[<<h, k, CountSlot>>] = Cardinality(mine)
           /\ cell[<<h, k, SumSlot>>] = Total([o \in mine |-> value[o][h]])
           /\ \A i \in DOMAIN Bounds :
                Total([j \in 1..i |-> cell[<<h, k, j>>]])
                  = Cardinality({o \in mine : value[o][h] <= Bounds[i]})

(* No number of a report is below the same number of the report before, and  *)
(* none disappears: what polls /metrics never sees a counter go back.        *)
ReportsNeverGoBack ==
  /\ \A c \in DOMAIN seen \cap DOMAIN last : seen[c] >= last[c]
  /\ locked /\ todo = {} => DOMAIN last \subseteq DOMAIN seen

(* The numbers of one report disagree on a key's requests (the counter, the  *)
(* "+Inf" bucket and the count of either histogram) by no more than the      *)
(* requests that were being added when the report took the mutex: the mutex  *)
(* keeps all others out until the report is done.                            *)
ReportsAreNearlyConsistent ==
  locked /\ todo = {} =>
    \A k \in {c[2] : c \in DOMAIN seen} :
      LET totals == {seen[<<"requests", k, 0>>]}
                      \cup {seen[<<h, k, CountSlot>>] : h \in Hists}
                      \cup {Total([j \in Buckets |-> seen[<<h, k, j>>]]) : h \in Hists}
      IN  \A a, b \in totals : a - b <= Cardinality({o \in busy : key[o] = k})

(* Every observation ends, whatever the others and the reports do.           *)
ObservationsEnd == \A o \in Requests : <>(step[o] = 8)

=============================================================================
