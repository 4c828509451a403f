--------------------------- MODULE MetricsProofs ----------------------------
(***************************************************************************)
(* The invariants of Metrics and ReportsNeverGoBack, for every number of   *)
(* requests, keys, buckets and reports.  That a report is not below the    *)
(* one before is inductive only together with both being below the cells   *)
(* themselves (NotAhead), and that nothing disappears only together with   *)
(* what a report has read and has still to read being all that there is to *)
(* report (ReportComplete), which rests on the mutex.                      *)
(*                                                                         *)
(* Beyond that a cell's number is what the requests that have added to it  *)
(* make it (CountInv), and a number once read lies between what the        *)
(* requests that are over and those that have begun come to (SeenInv):     *)
(* hence EveryRequestIsCounted and ReportsAreNearlyConsistent.             *)
(***************************************************************************)
EXTENDS Metrics, FiniteSetTheorems, FunctionTheorems,
        WellFoundedInduction, TLAPS

NotAhead ==
  /\ \A c \in DOMAIN seen : seen[c] <= cell[c]
  /\ \A c \in DOMAIN last : last[c] <= cell[c]

ReportComplete ==
  /\ DOMAIN last \subseteq Reported
  /\ IF locked THEN DOMAIN seen \cup todo = Reported
               ELSE todo = {} /\ seen = Nothing

IInv == TypeInvariant /\ NotAhead /\ ReportComplete /\ ReportsNeverGoBack

-----------------------------------------------------------------------------
(* What an addition adds to and how much, whatever Bucket finds.             *)

LEMMA Targets ==
  ASSUME NEW o \in Requests, TypeOK, Adding(o)
  PROVE  /\ Target(o)[1] \in {"requests"} \cup Hists
         /\ Target(o)[2] = key[o]
         /\ ToSum(o) => Target(o) \in Cells /\ Amount(o) \in Nat
<1> USE DEF TypeOK, Adding
<1>1. step[o] \in {1, 2, 3, 4, 5, 6, 7} OBVIOUS
<1>2. /\ Target(o)[1] \in {"requests"} \cup Hists
      /\ Target(o)[2] = key[o]
      /\ Target(o)[1] = "requests" => Target(o)[3] = 0
  BY <1>1 DEF Target, Additions, Hists
<1>3. \E s : Target(o) = <<Target(o)[1], key[o], s>>
  BY <1>1 DEF Target, Additions
<1>4. ToSum(o) => Target(o) \in Cells /\ Amount(o) \in Nat
  <2> HAVE ToSum(o)
  <2>1. SumSlot \in Nat /\ SumSlot > 0 /\ SumSlot \in 1..SumSlot
    BY BoundsAssumption DEF SumSlot
  <2>2. Target(o)[1] \in Hists
    BY <1>2, <2>1 DEF ToSum
  <2>3. Target(o) = <<Target(o)[1], key[o], SumSlot>>
    BY <1>3 DEF ToSum
  <2>4. Target(o) \in Cells
    BY <2>1, <2>2, <2>3 DEF Cells
  <2>5. value[o].latency \in Nat /\ value[o].size \in Nat
        /\ Amount(o) \in {value[o]["latency"], value[o]["size"]}
    BY <2>2, ProfilesAssumption DEF Amount, Hists
  <2> QED BY <2>4, <2>5
<1> QED BY <1>2, <1>4

(* The cells a report of unchanged maps is made of are unchanged.            *)
LEMMA SameReported == UNCHANGED entries => Reported' = Reported
BY DEF Reported, Cells, Hists, SumSlot

-----------------------------------------------------------------------------
(* The invariant is inductive.                                               *)

LEMMA InitIInv == Init => IInv
<1> SUFFICES ASSUME Init PROVE IInv
  OBVIOUS
<1> USE DEF Init
<1>1. seen = Nothing /\ last = Nothing /\ DOMAIN Nothing = {} /\ Nothing \in [{} -> Nat]
  BY DEF Nothing
<1>2. loaded \in [Requests -> Loads] BY DEF Loads
<1>3. cell \in [Cells -> Nat] /\ step \in [Requests -> 0..8] OBVIOUS
<1>4. TypeOK
  <2>1. \A r \in {seen, last} : r \in [DOMAIN r -> Nat] /\ DOMAIN r \subseteq Cells
    BY <1>1
  <2>2. reports \in 0..MaxReports BY ReportsAssumption
  <2>3. key \in [Requests -> Keys] /\ value \in [Requests -> Profiles]
    OBVIOUS
  <2>4. entries \in SUBSET Keys /\ locked \in BOOLEAN /\ todo \in SUBSET Cells
        /\ busy \in SUBSET Requests
    OBVIOUS
  <2> QED BY <1>2, <1>3, <2>1, <2>2, <2>3, <2>4 DEF TypeOK
<1>5. \A o \in Requests : ~(step[o] > 0) OBVIOUS
<1>6. TypeInvariant BY <1>1, <1>4, <1>5 DEF TypeInvariant
<1> QED BY <1>1, <1>6 DEF IInv, NotAhead, ReportComplete, ReportsNeverGoBack

(* Every step but a report's leaves the reports as they are, and no cell     *)
(* below what it was.                                                        *)
Grows ==
  /\ cell' \in [Cells -> Nat]
  /\ \A c \in Cells : cell[c] <= cell'[c]

LEMMA GrowthKeepsReports ==
  ASSUME IInv, Grows, UNCHANGED report,
         entries' = entries \/ (~locked /\ entries \subseteq entries')
  PROVE  (NotAhead /\ ReportComplete /\ ReportsNeverGoBack)'
<1> USE DEF IInv, TypeInvariant, TypeOK, Grows, report
<1>1. NotAhead' BY DEF NotAhead
<1>2. Reported \subseteq Reported' BY DEF Reported, Cells, Hists, SumSlot
<1>3. ReportComplete'
  BY <1>2, SameReported DEF ReportComplete, Nothing
<1>4. ReportsNeverGoBack' BY DEF ReportsNeverGoBack
<1> QED BY <1>1, <1>3, <1>4

LEMMA LookUpKeepsIInv ==
  ASSUME IInv, NEW o \in Requests, LookUp(o)
  PROVE  IInv'
<1> USE DEF IInv, TypeInvariant, TypeOK, LookUp, report
<1>1. TypeInvariant' OBVIOUS
<1>2. Grows BY DEF Grows
<1> QED BY <1>1, <1>2, GrowthKeepsReports

LEMMA AddKeepsIInv ==
  ASSUME IInv, NEW o \in Requests, Add(o)
  PROVE  IInv'
<1> USE DEF IInv, TypeInvariant, TypeOK, Add, Adding, report
<1>1. \A c \in Cells : cell'[c] \in {cell[c], cell[c] + 1}
  OBVIOUS
<1>2. \A c \in Cells : cell'[c] \in Nat /\ cell[c] <= cell'[c]
  BY <1>1
<1>3. Grows BY <1>2 DEF Grows
<1>4. TypeInvariant' BY <1>3 DEF Grows
<1> QED BY <1>3, <1>4, GrowthKeepsReports

LEMMA LoadSumKeepsIInv ==
  ASSUME IInv, NEW o \in Requests, LoadSum(o)
  PROVE  IInv'
<1> USE DEF IInv, TypeInvariant, TypeOK, LoadSum, report
<1>1. cell[Target(o)] \in Loads BY Targets DEF Loads
<1>2. TypeInvariant' BY <1>1
<1>3. Grows BY DEF Grows
<1> QED BY <1>2, <1>3, GrowthKeepsReports

(* A sum is swapped only if it is still what was loaded: it grows.           *)
LEMMA SwapSumKeepsIInv ==
  ASSUME IInv, NEW o \in Requests, SwapSum(o)
  PROVE  IInv'
<1> USE DEF IInv, TypeInvariant, TypeOK, SwapSum, report
<1>1. Unloaded \in Loads BY DEF Loads
<1>2. CASE cell[Target(o)] = loaded[o] /\ Target(o) \in Cells /\ Amount(o) \in Nat
  <2>1. Grows BY <1>2 DEF Grows
  <2>2. TypeInvariant' BY <1>1, <1>2, <2>1 DEF Adding, Grows
  <2> QED BY <2>1, <2>2, GrowthKeepsReports
<1>3. CASE cell[Target(o)] # loaded[o]
  <2>1. Grows BY <1>3 DEF Grows
  <2>2. TypeInvariant' BY <1>1, <1>3
  <2> QED BY <2>1, <2>2, GrowthKeepsReports
<1> QED BY <1>2, <1>3, Targets

(* A report begins with nothing read and everything to read ...              *)
LEMMA BeginReportKeepsIInv ==
  ASSUME IInv, BeginReport
  PROVE  IInv'
<1> USE DEF IInv, BeginReport, observation
<1>1. TypeInvariant'
  BY ReportsAssumption DEF TypeInvariant, TypeOK, Reported, Adding
<1>2. Reported' = Reported BY SameReported
<1>3. ReportComplete' BY <1>2 DEF ReportComplete, Nothing
<1>4. (NotAhead /\ ReportsNeverGoBack)'
  BY DEF NotAhead, ReportsNeverGoBack, ReportComplete, Nothing
<1> QED BY <1>1, <1>3, <1>4

(* ... reads each cell no lower than it was reported before ...              *)
LEMMA ReadCellKeepsIInv ==
  ASSUME IInv, ReadCell
  PROVE  IInv'
<1> USE DEF IInv, observation
<1>1. PICK c \in todo :
        /\ locked
        /\ seen' = [d \in DOMAIN seen \cup {c} |-> IF d = c THEN cell[c] ELSE seen[d]]
        /\ todo' = todo \ {c}
        /\ UNCHANGED <<observation, entries, cell, locked, busy, last, reports>>
  BY DEF ReadCell
<1>2. Reported' = Reported BY <1>1, SameReported
<1>3. c \in Reported /\ c \in Cells /\ c[2] \in entries
  BY <1>1 DEF ReportComplete, Reported
<1>4. cell[c] \in Nat /\ DOMAIN seen' = DOMAIN seen \cup {c}
  BY <1>1, <1>3 DEF TypeInvariant, TypeOK
<1>5. TypeInvariant'
  <2>1. seen' \in [DOMAIN seen' -> Nat] /\ DOMAIN seen' \subseteq Cells
    BY <1>1, <1>3, <1>4 DEF TypeInvariant, TypeOK
  <2> QED BY <1>1, <1>3, <1>4, <2>1 DEF TypeInvariant, TypeOK
<1>6. NotAhead' BY <1>1, <1>3, <1>4 DEF NotAhead
<1>7. ReportComplete' BY <1>1, <1>2, <1>4 DEF ReportComplete
<1>8. ReportsNeverGoBack'
  <2>1. \A d \in DOMAIN seen' \cap DOMAIN last : seen'[d] >= last[d]
    BY <1>1, <1>3, <1>4 DEF ReportsNeverGoBack, NotAhead, TypeInvariant, TypeOK
  <2>2. DOMAIN last \subseteq DOMAIN seen' \cup todo'
    BY <1>1, <1>4 DEF ReportComplete
  <2> QED BY <1>1, <2>1, <2>2 DEF ReportsNeverGoBack
<1> QED BY <1>5, <1>6, <1>7, <1>8

(* ... and is complete when it ends.                                         *)
LEMMA EndReportKeepsIInv ==
  ASSUME IInv, EndReport
  PROVE  IInv'
<1> USE DEF IInv, EndReport, observation
<1>1. TypeInvariant' BY DEF TypeInvariant, TypeOK, Nothing
<1>2. Reported' = Reported BY SameReported
<1>3. ReportComplete' BY <1>2 DEF ReportComplete
<1>4. (NotAhead /\ ReportsNeverGoBack)'
  BY DEF NotAhead, ReportsNeverGoBack, Nothing
<1> QED BY <1>1, <1>3, <1>4

LEMMA NextIInv == IInv /\ [Next]_vars => IInv'
<1> SUFFICES ASSUME IInv, [Next]_vars PROVE IInv'
  OBVIOUS
<1>1. CASE UNCHANGED vars
  <2>1. Reported' = Reported BY <1>1, SameReported DEF vars
  <2> QED
    BY <1>1, <2>1 DEF vars, IInv, TypeInvariant, TypeOK, NotAhead, ReportComplete,
                      ReportsNeverGoBack
<1>2. CASE \E o \in Requests : ObserveHTTPRequest(o)
  BY <1>2, LookUpKeepsIInv, AddKeepsIInv, LoadSumKeepsIInv, SwapSumKeepsIInv
     DEF ObserveHTTPRequest
<1>3. CASE MarshalJSON
  BY <1>3, BeginReportKeepsIInv, ReadCellKeepsIInv, EndReportKeepsIInv DEF MarshalJSON
<1> QED BY <1>1, <1>2, <1>3 DEF Next

-----------------------------------------------------------------------------
(* IInv holds in every reachable state.                                      *)
THEOREM Invariance == Spec => []IInv
BY InitIInv, NextIInv, PTL DEF Spec

(* Every variable has its type, and what is counted or reported belongs to   *)
(* a key of the maps.                                                        *)
THEOREM TypeCorrect == Spec => []TypeInvariant
<1>1. IInv => TypeInvariant BY DEF IInv
<1> QED BY <1>1, Invariance, PTL

(* No number goes back from one report to the next, and none disappears.     *)
THEOREM ReportsMonotone == Spec => []ReportsNeverGoBack
<1>1. IInv => ReportsNeverGoBack BY DEF IInv
<1> QED BY <1>1, Invariance, PTL

-----------------------------------------------------------------------------
(* Sums of finite functions, counted unit by unit.                           *)

Units(f) == UNION {{x} \X (1..f[x]) : x \in DOMAIN f}

LEMMA UnitsAre ==
  ASSUME NEW f, NEW u
  PROVE  u \in Units(f) <=> \E x \in DOMAIN f : \E n \in 1..f[x] : u = <<x, n>>
BY DEF Units

LEMMA UnitsFinite ==
  ASSUME NEW D, IsFiniteSet(D), NEW f \in [D -> Nat]
  PROVE  IsFiniteSet(Units(f)) /\ Total(f) = Cardinality(Units(f)) /\ Total(f) \in Nat
<1> DEFINE part(x) == {x} \X (1..f[x])
           parts == {part(x) : x \in D}
           split == [x \in D |-> part(x)]
<1>1. split \in Surjection(D, parts) BY DEF Surjection
<1>2. IsFiniteSet(parts) BY <1>1, FS_Surjection
<1>3. \A x \in D : IsFiniteSet(part(x))
  <2> TAKE x \in D
  <2>1. f[x] \in Int /\ 1 \in Int OBVIOUS
  <2>2. IsFiniteSet(1..f[x]) BY <2>1, FS_Interval
  <2>3. IsFiniteSet({x}) BY FS_Singleton
  <2> QED BY <2>2, <2>3, FS_Product
<1>4. \A p \in parts : IsFiniteSet(p) BY <1>3
<1>5. Units(f) = UNION parts BY DEF Units
<1> HIDE DEF part, parts, split
<1>6. IsFiniteSet(Units(f)) BY <1>2, <1>4, <1>5, FS_UNION
<1> QED BY <1>6, FS_CardinalityType DEF Total, Units

(* One more element adds its value.                                          *)
LEMMA TotalAdd ==
  ASSUME NEW D, IsFiniteSet(D), NEW x, x \notin D, NEW f \in [D \cup {x} -> Nat]
  PROVE  Total(f) = Total([y \in D |-> f[y]]) + f[x]
<1> DEFINE g == [y \in D |-> f[y]]
           new == {x} \X (1..f[x])
<1>1. g \in [D -> Nat] /\ f[x] \in Nat OBVIOUS
<1>2. IsFiniteSet(Units(g)) /\ Total(g) = Cardinality(Units(g)) /\ Total(g) \in Nat
  BY <1>1, UnitsFinite
<1>3. IsFiniteSet(new) /\ Cardinality(new) = f[x]
  <2>1. IsFiniteSet({x}) /\ Cardinality({x}) = 1 BY FS_Singleton
  <2>2. IsFiniteSet(1..f[x]) /\ Cardinality(1..f[x]) = f[x] BY <1>1, FS_Interval
  <2>3. IsFiniteSet(new) /\ Cardinality(new) = 1 * f[x] BY <2>1, <2>2, FS_Product
  <2> QED BY <1>1, <2>3
<1>4. Units(f) = Units(g) \cup new
  <2>1. ASSUME NEW u PROVE u \in Units(f) <=> u \in Units(g) \cup new
    <3>1. u \in Units(f) <=> \E y \in D \cup {x} : \E n \in 1..f[y] : u = <<y, n>>
      BY UnitsAre
    <3>2. u \in Units(g) <=> \E y \in D : \E n \in 1..f[y] : u = <<y, n>>
      BY UnitsAre
    <3>3. u \in new <=> \E n \in 1..f[x] : u = <<x, n>> OBVIOUS
    <3> QED BY <3>1, <3>2, <3>3
  <2> QED BY <2>1
<1>5. Units(g) \cap new = {}
  <2>1. ASSUME NEW u, u \in Units(g), u \in new PROVE FALSE
    <3>1. \E y \in D : \E n \in 1..f[y] : u = <<y, n>> BY <2>1, UnitsAre
    <3>2. \E n \in 1..f[x] : u = <<x, n>> BY <2>1
    <3> QED BY <3>1, <3>2
  <2> QED BY <2>1
<1>6. IsFiniteSet(D \cup {x}) BY FS_AddElement
<1>7. Total(f) = Cardinality(Units(f)) BY <1>6, UnitsFinite
<1> HIDE DEF g, new
<1>8. Cardinality(Units(g) \cup new)
        = Cardinality(Units(g)) + Cardinality(new) - Cardinality(Units(g) \cap new)
  BY <1>2, <1>3, FS_Union
<1>9. Cardinality(Units(g) \cap new) = 0 BY <1>5, FS_EmptySet
<1>10. Total(f) = Total(g) + f[x]
  BY <1>1, <1>2, <1>3, <1>4, <1>7, <1>8, <1>9
<1> QED BY <1>10 DEF g

LEMMA TotalEmpty == \A f : DOMAIN f = {} => Total(f) = 0
<1> TAKE f
<1> HAVE DOMAIN f = {}
<1>1. Units(f) = {} BY DEF Units
<1> QED BY <1>1, FS_EmptySet DEF Total, Units

(* Numbers that are each between the counts of two classes sum up to         *)
(* something between the counts of all.                                      *)
LEMMA TotalAtLeast ==
  ASSUME NEW J, IsFiniteSet(J), NEW c \in [J -> Nat],
         NEW S, IsFiniteSet(S), NEW g \in [S -> J],
         \A j \in J : Cardinality({x \in S : g[x] = j}) <= c[j]
  PROVE  Cardinality(S) <= Total(c)
<1> DEFINE class(j) == {x \in S : g[x] = j}
<1>1. \A j \in J : \E m : m \in Injection(class(j), 1..c[j])
  <2> TAKE j \in J
  <2>1. IsFiniteSet(class(j)) BY FS_Subset
  <2>2. Cardinality(class(j)) \in Nat /\ ExistsBijection(1..Cardinality(class(j)), class(j))
    BY <2>1, FS_CardinalityType
  <2>3. c[j] \in Nat /\ Cardinality(class(j)) <= c[j] OBVIOUS
  <2> HIDE DEF class
  <2>4. ExistsBijection(class(j), 1..Cardinality(class(j))) BY <2>2, Fun_ExistsBijSymmetric
  <2>5. PICK m \in Bijection(class(j), 1..Cardinality(class(j))) : TRUE
    BY <2>4 DEF ExistsBijection
  <2>6. 1..Cardinality(class(j)) \subseteq 1..c[j] BY <2>2, <2>3
  <2>7. m \in Injection(class(j), 1..c[j]) BY <2>5, <2>6 DEF Bijection, Injection
  <2> QED BY <2>7
<1> DEFINE number == [j \in J |-> CHOOSE m : m \in Injection(class(j), 1..c[j])]
<1>2. \A j \in J : number[j] \in Injection(class(j), 1..c[j]) BY <1>1
<1> DEFINE place == [x \in S |-> <<g[x], number[g[x]][x]>>]
<1> HIDE DEF number
<1>3. \A x \in S : /\ g[x] \in J
                   /\ number[g[x]][x] \in 1..c[g[x]]
  BY <1>2 DEF Injection
<1>4. \A x \in S : place[x] \in Units(c) BY <1>3, UnitsAre
<1>5. \A x, y \in S : place[x] = place[y] => x = y
  <2> TAKE x, y \in S
  <2> HAVE place[x] = place[y]
  <2>1. g[x] = g[y] /\ number[g[x]][x] = number[g[x]][y] OBVIOUS
  <2>2. number[g[x]] \in Injection(class(g[x]), 1..c[g[x]]) BY <1>2
  <2> QED BY <2>1, <2>2 DEF Injection, IsInjective
<1>6. place \in Injection(S, Units(c))
  <2>1. place = [x \in S |-> place[x]] /\ DOMAIN place = S OBVIOUS
  <2> HIDE DEF place
  <2>2. place \in [S -> Units(c)] BY <1>4, <2>1
  <2> QED BY <1>5, <2>2 DEF Injection, IsInjective
<1> HIDE DEF place
<1>7. IsFiniteSet(Units(c)) /\ Total(c) = Cardinality(Units(c)) BY UnitsFinite
<1> QED BY <1>6, <1>7, FS_Injection

LEMMA TotalAtMost ==
  ASSUME NEW J, IsFiniteSet(J), NEW c \in [J -> Nat],
         NEW S, IsFiniteSet(S), NEW g \in [S -> J],
         \A j \in J : c[j] <= Cardinality({x \in S : g[x] = j})
  PROVE  Total(c) <= Cardinality(S)
<1> DEFINE class(j) == {x \in S : g[x] = j}
<1>1. \A j \in J : \E m : m \in Injection(1..c[j], class(j))
  <2> TAKE j \in J
  <2>1. IsFiniteSet(class(j)) BY FS_Subset
  <2>2. Cardinality(class(j)) \in Nat /\ ExistsBijection(1..Cardinality(class(j)), class(j))
    BY <2>1, FS_CardinalityType
  <2>3. c[j] \in Nat /\ c[j] <= Cardinality(class(j)) OBVIOUS
  <2> HIDE DEF class
  <2>4. PICK m \in Bijection(1..Cardinality(class(j)), class(j)) : TRUE
    BY <2>2 DEF ExistsBijection
  <2>5. 1..c[j] \subseteq 1..Cardinality(class(j)) BY <2>2, <2>3
  <2>6. [n \in 1..c[j] |-> m[n]] \in Injection(1..c[j], class(j))
    BY <2>4, <2>5 DEF Bijection, Injection, IsInjective
  <2> QED BY <2>6
<1> DEFINE member == [j \in J |-> CHOOSE m : m \in Injection(1..c[j], class(j))]
<1>2. \A j \in J : member[j] \in Injection(1..c[j], class(j)) BY <1>1
<1> DEFINE who == [u \in Units(c) |-> member[u[1]][u[2]]]
<1> HIDE DEF member
<1>3. \A j \in J : \A n \in 1..c[j] : member[j][n] \in S /\ g[member[j][n]] = j
  BY <1>2 DEF Injection
<1>4. \A u \in Units(c) : /\ u[1] \in J /\ u[2] \in 1..c[u[1]]
                          /\ u = <<u[1], u[2]>>
  BY UnitsAre
<1>5. \A u \in Units(c) : who[u] \in S /\ g[who[u]] = u[1]
  BY <1>3, <1>4
<1>6. \A u, v \in Units(c) : who[u] = who[v] => u = v
  <2> TAKE u, v \in Units(c)
  <2> HAVE who[u] = who[v]
  <2>1. u[1] = v[1] BY <1>5
  <2>2. member[u[1]][u[2]] = member[u[1]][v[2]] BY <2>1
  <2>3. member[u[1]] \in Injection(1..c[u[1]], class(u[1])) BY <1>2, <1>4
  <2>4. u[2] = v[2] BY <1>4, <2>1, <2>2, <2>3 DEF Injection, IsInjective
  <2> QED BY <1>4, <2>1, <2>4
<1>7. who \in Injection(Units(c), S)
  <2>1. who = [u \in Units(c) |-> who[u]] /\ DOMAIN who = Units(c) OBVIOUS
  <2> HIDE DEF who
  <2>2. who \in [Units(c) -> S] BY <1>5, <2>1
  <2> QED BY <1>6, <2>2 DEF Injection, IsInjective
<1> HIDE DEF who
<1>8. IsFiniteSet(Units(c)) /\ Total(c) = Cardinality(Units(c)) BY UnitsFinite
<1> QED BY <1>7, <1>8, FS_Injection

-----------------------------------------------------------------------------
(* What a request adds to.                                                   *)

LEMMA BucketFound ==
  ASSUME NEW v \in Nat
  PROVE  /\ Bucket(v) \in Buckets
         /\ Bucket(v) \in DOMAIN Bounds => v <= Bounds[Bucket(v)]
         /\ \A j \in 1..(Bucket(v) - 1) : v > Bounds[j]
<1> DEFINE n == Len(Bounds)
           fits == {i \in Buckets : i \in DOMAIN Bounds => v <= Bounds[i]}
<1>1. n \in Nat /\ DOMAIN Bounds = 1..n /\ \A j \in 1..n : Bounds[j] \in Nat
  BY BoundsAssumption
<1>2. n + 1 \in fits /\ fits \subseteq Nat BY <1>1 DEF Buckets
<1>3. \E i \in fits : \A j \in fits : i <= j
  <2> DEFINE less == OpToRel(<, Nat)
  <2>1. IsWellFoundedOn(less, Nat) BY NatLessThanWellFounded
  <2>2. \A i, j \in Nat : j < i => <<j, i>> \in less BY DEF OpToRel
  <2> HIDE DEF less, fits
  <2>3. PICK i \in fits : \A j \in fits : <<j, i>> \notin less
    BY <1>2, <2>1, WFMin
  <2>4. \A j \in fits : ~(j < i) BY <1>2, <2>2, <2>3
  <2> QED BY <1>2, <2>3, <2>4
<1>4. PICK i \in fits : \A j \in fits : i <= j BY <1>3
<1>5. i \in Buckets /\ i \in Nat /\ (i \in DOMAIN Bounds => v <= Bounds[i])
  BY <1>2, <1>4
<1>6. \A j \in 1..(i - 1) : v > Bounds[j]
  <2> TAKE j \in 1..(i - 1)
  <2>1. j \in 1..n /\ j \in Buckets /\ j < i BY <1>1, <1>5 DEF Buckets
  <2>2. j \notin fits BY <1>4, <1>5, <2>1
  <2> QED BY <1>1, <2>1, <2>2
<1> HIDE DEF fits
<1>7. \E k \in Buckets : /\ k \in DOMAIN Bounds => v <= Bounds[k]
                         /\ \A j \in 1..(k - 1) : v > Bounds[j]
  BY <1>5, <1>6
<1> QED BY <1>7 DEF Bucket

(* The buckets up to a bound hold the values up to it.                       *)
LEMMA BucketUpTo ==
  ASSUME NEW v \in Nat, NEW i \in DOMAIN Bounds
  PROVE  Bucket(v) <= i <=> v <= Bounds[i]
<1>1. /\ Len(Bounds) \in Nat /\ DOMAIN Bounds = 1..Len(Bounds)
      /\ \A j \in DOMAIN Bounds : Bounds[j] \in Nat
      /\ \A j, k \in DOMAIN Bounds : j < k => Bounds[j] <= Bounds[k]
  BY BoundsAssumption
<1> DEFINE b == Bucket(v)
<1>2. /\ b \in Buckets
      /\ b \in DOMAIN Bounds => v <= Bounds[b]
      /\ \A j \in 1..(b - 1) : v > Bounds[j]
  BY BucketFound
<1> HIDE DEF b
<1>3. b \in Nat /\ i \in Nat /\ b >= 1 /\ i >= 1 BY <1>1, <1>2 DEF Buckets
<1>4. CASE b <= i
  <2>1. b \in DOMAIN Bounds /\ v <= Bounds[b] BY <1>1, <1>2, <1>3, <1>4
  <2>2. Bounds[b] <= Bounds[i] BY <1>1, <1>3, <1>4, <2>1
  <2> QED BY <1>1, <1>4, <2>1, <2>2 DEF b
<1>5. CASE ~(b <= i)
  <2>1. i \in 1..(b - 1) BY <1>3, <1>5
  <2>2. v > Bounds[i] BY <1>2, <2>1
  <2> QED BY <1>1, <1>5, <2>2 DEF b
<1> QED BY <1>4, <1>5

(* The cells that count what request o is.                                   *)
Concerns(o, c) ==
  /\ key[o] = c[2]
  /\ c[1] = "requests" \/ c[3] \in {CountSlot, SumSlot} \/ c[3] = Bucket(value[o][c[1]])

LEMMA Slots ==
  /\ CountSlot \in Nat /\ SumSlot \in Nat /\ CountSlot # SumSlot
  /\ Buckets \subseteq 1..SumSlot
  /\ CountSlot \notin Buckets /\ SumSlot \notin Buckets
  /\ CountSlot \in 1..SumSlot /\ SumSlot \in 1..SumSlot /\ 0 \notin 1..SumSlot
  /\ \A n \in Buckets : n \in Nat /\ n # 0
BY BoundsAssumption DEF CountSlot, SumSlot, Buckets

LEMMA Measured ==
  ASSUME TypeOK, NEW o \in Requests
  PROVE  \A h \in Hists : value[o][h] \in Nat /\ Bucket(value[o][h]) \in Buckets
<1>1. value[o] \in [latency : Nat, size : Nat] BY ProfilesAssumption DEF TypeOK
<1>2. \A h \in Hists : value[o][h] \in Nat BY <1>1 DEF Hists
<1> QED BY <1>2, BucketFound

(* A request adds once to each of the cells that concern it, and to no       *)
(* other.                                                                    *)
LEMMA AdditionsAre ==
  ASSUME TypeOK, NEW o \in Requests
  PROVE  /\ \A i \in 1..7 : Additions(o)[i] \in Cells
         /\ \A i, j \in 1..7 : Additions(o)[i] = Additions(o)[j] => i = j
         /\ \A c \in Cells : Concerns(o, c) <=> \E i \in 1..7 : Additions(o)[i] = c
<1> DEFINE k == key[o]
           bl == Bucket(value[o]["latency"])
           bs == Bucket(value[o]["size"])
           a == Additions(o)
<1>1. k \in Keys BY DEF TypeOK
<1>2. bl \in Buckets /\ bs \in Buckets BY Measured DEF Hists
<1>3. /\ a[1] = <<"requests", k, 0>>
      /\ a[2] = <<"latency", k, bl>>
      /\ a[3] = <<"latency", k, CountSlot>>
      /\ a[4] = <<"latency", k, SumSlot>>
      /\ a[5] = <<"size", k, bs>>
      /\ a[6] = <<"size", k, CountSlot>>
      /\ a[7] = <<"size", k, SumSlot>>
  BY DEF Additions
<1>4. 1..7 = {1, 2, 3, 4, 5, 6, 7} OBVIOUS
<1>5. bl # CountSlot /\ bl # SumSlot /\ bs # CountSlot /\ bs # SumSlot /\ CountSlot # SumSlot
  BY <1>2, Slots
<1>6. ASSUME NEW c \in Cells
      PROVE  \/ \E q \in Keys : c = <<"requests", q, 0>>
             \/ \E h \in Hists, q \in Keys, n \in 1..SumSlot : c = <<h, q, n>>
  BY DEF Cells
<1>7. ASSUME NEW c \in Cells
      PROVE  Concerns(o, c) <=>
               \/ c = <<"requests", k, 0>>
               \/ \E h \in Hists : \/ c = <<h, k, CountSlot>> \/ c = <<h, k, SumSlot>>
                                   \/ c = <<h, k, Bucket(value[o][h])>>
  <2>1. CASE \E q \in Keys : c = <<"requests", q, 0>>
    BY <2>1 DEF Concerns, Hists
  <2>2. ASSUME NEW h \in Hists, NEW q \in Keys, NEW n \in 1..SumSlot, c = <<h, q, n>>
        PROVE  Concerns(o, c) <=>
               \/ c = <<"requests", k, 0>>
               \/ \E g \in Hists : \/ c = <<g, k, CountSlot>> \/ c = <<g, k, SumSlot>>
                                   \/ c = <<g, k, Bucket(value[o][g])>>
    <3>1. c[1] = h /\ c[2] = q /\ c[3] = n /\ h # "requests" BY <2>2 DEF Hists
    <3>2. Concerns(o, c) <=> k = q /\ (n \in {CountSlot, SumSlot} \/ n = Bucket(value[o][h]))
      BY <3>1 DEF Concerns
    <3> QED BY <2>2, <3>1, <3>2
  <2> QED BY <1>6, <2>1, <2>2
<1>8. \A i \in 1..7 : a[i] \in Cells
  <2>1. <<"requests", k, 0>> \in Cells BY <1>1 DEF Cells
  <2>2. \A h \in Hists, n \in 1..SumSlot : <<h, k, n>> \in Cells BY <1>1 DEF Cells
  <2>3. /\ bl \in 1..SumSlot /\ bs \in 1..SumSlot
        /\ CountSlot \in 1..SumSlot /\ SumSlot \in 1..SumSlot
    BY <1>2, Slots
  <2>4. "latency" \in Hists /\ "size" \in Hists BY DEF Hists
  <2> HIDE DEF k, bl, bs, a
  <2>5. /\ a[1] \in Cells /\ a[2] \in Cells /\ a[3] \in Cells /\ a[4] \in Cells
        /\ a[5] \in Cells /\ a[6] \in Cells /\ a[7] \in Cells
    BY <1>3, <2>1, <2>2, <2>3, <2>4
  <2> QED BY <1>4, <2>5
<1>9. \A c \in Cells : Concerns(o, c) <=> \E i \in 1..7 : a[i] = c
  <2> TAKE c \in Cells
  <2>1. Concerns(o, c) <=> \/ c = a[1] \/ c = a[2] \/ c = a[3] \/ c = a[4]
                           \/ c = a[5] \/ c = a[6] \/ c = a[7]
    BY <1>3, <1>7 DEF Hists
  <2> QED BY <1>4, <2>1
<1> HIDE DEF k, bl, bs, a
<1>10. \A i, j \in 1..7 : a[i] = a[j] => i = j
  <2>1. /\ \A i \in {2, 3, 4, 5, 6, 7} : a[1][1] # a[i][1]
        /\ \A i \in {2, 3, 4}, j \in {5, 6, 7} : a[i][1] # a[j][1]
    BY <1>3
  <2>2. a[2][3] # a[3][3] /\ a[2][3] # a[4][3] /\ a[3][3] # a[4][3] BY <1>3, <1>5
  <2>3. a[5][3] # a[6][3] /\ a[5][3] # a[7][3] /\ a[6][3] # a[7][3] BY <1>3, <1>5
  <2> QED BY <1>4, <2>1, <2>2, <2>3
<1> QED BY <1>8, <1>9, <1>10 DEF a

-----------------------------------------------------------------------------
(* Nothing is lost: a cell counts, or sums up, those that have added to it.  *)

Adders == [c \in Cells |->
  {o \in Requests : \E i \in 1..7 : i < step[o] /\ Additions(o)[i] = c}]

Counted(c) ==
  cell[c] = IF c[3] = SumSlot THEN Total([o \in Adders[c] |-> value[o][c[1]]])
                              ELSE Cardinality(Adders[c])

CountInv == \A c \in Cells : Counted(c)

LEMMA AddersFinite == \A c \in Cells : IsFiniteSet(Adders[c]) /\ Adders[c] \subseteq Requests
<1> TAKE c \in Cells
<1>1. Adders[c] \subseteq Requests BY DEF Adders
<1> QED BY <1>1, RequestsAssumption, FS_Subset

(* An observation that does not complete an addition changes no count.       *)
LEMMA SameAdders ==
  ASSUME TypeOK, CountInv, UNCHANGED <<key, value, cell>>,
         \A o \in Requests : \A i \in 1..7 : i < step'[o] <=> i < step[o]
  PROVE  CountInv'
<1>1. \A o \in Requests : Additions(o)' = Additions(o)
  BY DEF Additions
<1>2. Adders' = Adders BY <1>1 DEF Adders
<1> QED BY <1>2 DEF CountInv, Counted

(* One that does joins those that have added to its cell.                    *)
LEMMA AddersGrow ==
  ASSUME TypeOK, NEW o \in Requests, Adding(o),
         step' = [step EXCEPT ![o] = @ + 1], UNCHANGED <<key, value>>
  PROVE  /\ Target(o) \in Cells
         /\ o \notin Adders[Target(o)]
         /\ Adders'[Target(o)] = Adders[Target(o)] \cup {o}
         /\ \A c \in Cells : c # Target(o) => Adders'[c] = Adders[c]
<1>1. step[o] \in 1..7 /\ step \in [Requests -> 0..8] BY DEF Adding, TypeOK
<1>2. Target(o) \in Cells BY <1>1, AdditionsAre DEF Target
<1>3. o \notin Adders[Target(o)]
  <2>1. \A i \in 1..7 : i < step[o] => Additions(o)[i] # Target(o)
    BY <1>1, AdditionsAre DEF Target
  <2> QED BY <1>2, <2>1 DEF Adders
<1>4. ASSUME NEW c \in Cells, NEW p \in Requests
      PROVE  p \in Adders'[c] <=> p \in Adders[c] \/ (p = o /\ c = Target(o))
  <2>1. Additions(p)' = Additions(p) BY DEF Additions
  <2> DEFINE A == Additions(p)
  <2>2. p \in Adders'[c] <=> \E i \in 1..7 : i < step'[p] /\ A[i] = c
    BY <2>1 DEF Adders
  <2>3. p \in Adders[c] <=> \E i \in 1..7 : i < step[p] /\ A[i] = c
    BY DEF Adders
  <2>4. CASE p # o
    <3>1. step'[p] = step[p] BY <1>1, <2>4
    <3> QED BY <2>2, <2>3, <2>4, <3>1
  <2>5. CASE p = o
    <3>1. step'[p] = step[p] + 1 BY <1>1, <2>5
    <3>2. Target(o) = A[step[p]] BY <2>5 DEF Target
    <3> HIDE DEF A
    <3>3. \A i \in 1..7 : i < step[p] + 1 <=> i < step[p] \/ i = step[p] BY <1>1, <2>5
    <3> QED BY <1>1, <2>2, <2>3, <2>5, <3>1, <3>2, <3>3
  <2> QED BY <2>4, <2>5
<1>5. \A c \in Cells : Adders[c] \subseteq Requests /\ Adders'[c] \subseteq Requests
  BY DEF Adders
<1> HIDE DEF Adders
<1> QED BY <1>2, <1>3, <1>4, <1>5

LEMMA InitCounts == Init => CountInv
<1> SUFFICES ASSUME Init, NEW c \in Cells PROVE Counted(c)
  BY DEF CountInv
<1>1. Adders[c] = {} BY DEF Init, Adders
<1>2. cell[c] = 0 BY DEF Init
<1>3. Total([o \in Adders[c] |-> value[o][c[1]]]) = 0 BY <1>1, TotalEmpty
<1>4. Cardinality(Adders[c]) = 0 BY <1>1, FS_EmptySet
<1> QED BY <1>2, <1>3, <1>4 DEF Counted

(* The addition to a counter, a bucket or a count.                           *)
LEMMA AddCounts ==
  ASSUME TypeOK, CountInv, NEW o \in Requests, Add(o)
  PROVE  CountInv'
<1> DEFINE t == Target(o)
<1>1. /\ t \in Cells /\ o \notin Adders[t]
      /\ Adders'[t] = Adders[t] \cup {o}
      /\ \A c \in Cells : c # t => Adders'[c] = Adders[c]
  BY AddersGrow DEF Add
<1>2. /\ t[3] # SumSlot /\ UNCHANGED value
      /\ cell' = [cell EXCEPT ![t] = @ + 1] /\ cell \in [Cells -> Nat]
  BY DEF Add, ToSum, TypeOK
<1> HIDE DEF t
<1>3. cell[t] = Cardinality(Adders[t]) BY <1>1, <1>2 DEF CountInv, Counted
<1>4. Cardinality(Adders[t] \cup {o}) = Cardinality(Adders[t]) + 1
  BY <1>1, AddersFinite, FS_AddElement
<1>5. cell'[t] = Cardinality(Adders'[t]) BY <1>1, <1>2, <1>3, <1>4
<1>6. \A c \in Cells : c # t => cell'[c] = cell[c] BY <1>2
<1> QED BY <1>1, <1>2, <1>5, <1>6 DEF CountInv, Counted

(* The compare-and-swap of a sum: it adds to what is there, or not at all.   *)
LEMMA SwapCounts ==
  ASSUME TypeOK, CountInv, NEW o \in Requests, SwapSum(o)
  PROVE  CountInv'
<1> DEFINE t == Target(o)
<1>0. UNCHANGED <<key, value>> BY DEF SwapSum
<1>1. CASE cell[t] # loaded[o]
  BY <1>0, <1>1, SameAdders DEF SwapSum
<1>2. CASE cell[t] = loaded[o]
  <2>1. /\ Adding(o) /\ t[3] = SumSlot
        /\ step' = [step EXCEPT ![o] = @ + 1]
        /\ cell' = [cell EXCEPT ![t] = cell[t] + value[o][t[1]]]
        /\ cell \in [Cells -> Nat]
    BY <1>2 DEF SwapSum, Amount, ToSum, TypeOK
  <2>2. /\ t \in Cells /\ o \notin Adders[t]
        /\ Adders'[t] = Adders[t] \cup {o}
        /\ \A c \in Cells : c # t => Adders'[c] = Adders[c]
    BY <1>0, <2>1, AddersGrow
  <2>3. t[1] \in Hists
    <3>1. SumSlot # 0 BY Slots
    <3> QED BY <2>1, <2>2, <3>1 DEF Cells
  <2> DEFINE f == [p \in Adders[t] \cup {o} |-> value[p][t[1]]]
  <2>4. \A p \in Requests : value[p][t[1]] \in Nat BY <2>3, Measured
  <2>5. IsFiniteSet(Adders[t]) /\ Adders[t] \subseteq Requests BY <2>2, AddersFinite
  <2> HIDE DEF t
  <2>6. f \in [Adders[t] \cup {o} -> Nat] BY <2>4, <2>5
  <2>7. /\ f[o] = value[o][t[1]]
        /\ [p \in Adders[t] |-> f[p]] = [p \in Adders[t] |-> value[p][t[1]]]
    OBVIOUS
  <2> HIDE DEF f
  <2>8. Total(f) = Total([p \in Adders[t] |-> f[p]]) + f[o]
    BY <2>2, <2>5, <2>6, TotalAdd
  <2>9. cell[t] = Total([p \in Adders[t] |-> value[p][t[1]]])
    BY <2>1, <2>2 DEF CountInv, Counted
  <2>10. cell'[t] = Total(f) BY <2>1, <2>2, <2>7, <2>8, <2>9
  <2>11. f = [p \in Adders'[t] |-> value'[p][t[1]]] BY <1>0, <2>2 DEF f
  <2>12. ASSUME NEW c \in Cells, c = t PROVE Counted(c)'
    <3>1. cell'[c] = Total([p \in Adders'[c] |-> value'[p][c[1]]]) /\ c[3] = SumSlot
      BY <2>1, <2>10, <2>11, <2>12
    <3> QED BY <3>1 DEF Counted
  <2>13. ASSUME NEW c \in Cells, c # t PROVE Counted(c)'
    <3>1. cell'[c] = cell[c] /\ Adders'[c] = Adders[c] BY <2>1, <2>2, <2>13
    <3>2. Counted(c) BY DEF CountInv
    <3> QED BY <1>0, <3>1, <3>2 DEF Counted
  <2> QED BY <2>12, <2>13 DEF CountInv
<1> QED BY <1>1, <1>2

LEMMA NextCounts == TypeOK /\ CountInv /\ [Next]_vars => CountInv'
<1> SUFFICES ASSUME TypeOK, CountInv, [Next]_vars PROVE CountInv'
  OBVIOUS
<1>1. ASSUME NEW o \in Requests, LookUp(o) PROVE CountInv'
  <2>1. \A p \in Requests : \A i \in 1..7 : i < step'[p] <=> i < step[p]
    BY <1>1 DEF LookUp, TypeOK
  <2> QED BY <1>1, <2>1, SameAdders DEF LookUp
<1>2. ASSUME NEW o \in Requests, LoadSum(o) PROVE CountInv'
  BY <1>2, SameAdders DEF LoadSum
<1>3. CASE MarshalJSON \/ UNCHANGED vars
  BY <1>3, SameAdders DEF MarshalJSON, BeginReport, ReadCell, EndReport, observation, vars
<1> QED
  BY <1>1, <1>2, <1>3, AddCounts, SwapCounts DEF Next, ObserveHTTPRequest

(* When nothing is being added, those that have added to a cell are the      *)
(* observed requests it concerns.                                            *)
LEMMA QuietAdders ==
  ASSUME TypeOK, \A o \in Requests : ~Adding(o), NEW c \in Cells
  PROVE  Adders[c] = {o \in Observed : Concerns(o, c)}
<1>1. ASSUME NEW o \in Requests
      PROVE  (\E i \in 1..7 : i < step[o] /\ Additions(o)[i] = c)
               <=> step[o] = 8 /\ Concerns(o, c)
  <2>1. step[o] = 0 \/ step[o] = 8 BY DEF Adding, TypeOK
  <2>2. Concerns(o, c) <=> \E i \in 1..7 : Additions(o)[i] = c BY AdditionsAre
  <2> DEFINE A == Additions(o)
  <2> HIDE DEF A
  <2>3. (\E i \in 1..7 : i < step[o] /\ A[i] = c) <=> step[o] = 8 /\ \E i \in 1..7 : A[i] = c
    BY <2>1
  <2> QED BY <2>2, <2>3 DEF A
<1> QED BY <1>1 DEF Adders, Observed

LEMMA CountsAreRight ==
  ASSUME TypeOK, CountInv
  PROVE  EveryRequestIsCounted
<1> SUFFICES ASSUME \A o \in Requests : ~Adding(o), NEW k \in Keys
             PROVE  LET mine == {o \in Observed : key[o] = k} IN
                    /\ cell[<<"requests", k, 0>>] = Cardinality(mine)
                    /\ \A h \in Hists :
                         /\ cell[<<h, k, CountSlot>>] = Cardinality(mine)
                         /\ cell[<<h, k, SumSlot>>] = Total([o \in mine |-> value[o][h]])
                         /\ \A i \in DOMAIN Bounds :
                              Total([j \in 1..i |-> cell[<<h, k, j>>]])
                                = Cardinality({o \in mine : value[o][h] <= Bounds[i]})
  BY DEF EveryRequestIsCounted
<1> DEFINE mine == {o \in Observed : key[o] = k}
<1>1. \A c \in Cells : Counted(c) /\ Adders[c] = {o \in Observed : Concerns(o, c)}
  BY QuietAdders DEF CountInv
<1>2. IsFiniteSet(mine) /\ mine \subseteq Requests
  <2>1. mine \subseteq Requests BY DEF Observed
  <2> QED BY <2>1, RequestsAssumption, FS_Subset
<1>3. cell[<<"requests", k, 0>>] = Cardinality(mine)
  <2> DEFINE c == <<"requests", k, 0>>
  <2>1. c \in Cells /\ c[1] = "requests" /\ c[2] = k /\ c[3] = 0 /\ 0 # SumSlot
    BY Slots DEF Cells
  <2> HIDE DEF c
  <2>2. {o \in Observed : Concerns(o, c)} = mine BY <2>1 DEF Concerns
  <2>3. cell[c] = Cardinality(mine) BY <1>1, <2>1, <2>2 DEF Counted
  <2> QED BY <2>3 DEF c
<1>4. ASSUME NEW h \in Hists
      PROVE  /\ cell[<<h, k, CountSlot>>] = Cardinality(mine)
             /\ cell[<<h, k, SumSlot>>] = Total([o \in mine |-> value[o][h]])
             /\ \A i \in DOMAIN Bounds :
                  Total([j \in 1..i |-> cell[<<h, k, j>>]])
                    = Cardinality({o \in mine : value[o][h] <= Bounds[i]})
  <2>0. \A n \in 1..SumSlot : <<h, k, n>> \in Cells BY DEF Cells
  <2>1. cell[<<h, k, CountSlot>>] = Cardinality(mine)
    <3> DEFINE c == <<h, k, CountSlot>>
    <3>1. c \in Cells /\ c[2] = k /\ c[3] = CountSlot /\ CountSlot # SumSlot
      BY <2>0, Slots
    <3> HIDE DEF c
    <3>2. {o \in Observed : Concerns(o, c)} = mine BY <3>1 DEF Concerns
    <3>3. cell[c] = Cardinality(mine) BY <1>1, <3>1, <3>2 DEF Counted
    <3> QED BY <3>3 DEF c
  <2>2. cell[<<h, k, SumSlot>>] = Total([o \in mine |-> value[o][h]])
    <3> DEFINE c == <<h, k, SumSlot>>
    <3>1. c \in Cells /\ c[1] = h /\ c[2] = k /\ c[3] = SumSlot
      BY <2>0, Slots
    <3> HIDE DEF c
    <3>2. {o \in Observed : Concerns(o, c)} = mine BY <3>1 DEF Concerns
    <3>3. cell[c] = Total([o \in mine |-> value[o][h]]) BY <1>1, <3>1, <3>2 DEF Counted
    <3> QED BY <3>3 DEF c
  <2>3. ASSUME NEW j \in Buckets
        PROVE  cell[<<h, k, j>>] = Cardinality({o \in mine : Bucket(value[o][h]) = j})
    <3> DEFINE c == <<h, k, j>>
    <3>1. /\ c \in Cells /\ c[1] = h /\ c[2] = k /\ c[3] = j
          /\ j # CountSlot /\ j # SumSlot /\ h # "requests"
      BY <2>0, Slots DEF Hists
    <3> HIDE DEF c
    <3>2. {o \in Observed : Concerns(o, c)} = {o \in mine : Bucket(value[o][h]) = j}
      BY <3>1 DEF Concerns
    <3>3. cell[c] = Cardinality({o \in mine : Bucket(value[o][h]) = j})
      BY <1>1, <3>1, <3>2 DEF Counted
    <3> QED BY <3>3 DEF c
  <2>4. ASSUME NEW i \in DOMAIN Bounds
        PROVE  Total([j \in 1..i |-> cell[<<h, k, j>>]])
                 = Cardinality({o \in mine : value[o][h] <= Bounds[i]})
    <3> DEFINE S == {o \in mine : value[o][h] <= Bounds[i]}
               g == [o \in S |-> Bucket(value[o][h])]
               f == [j \in 1..i |-> cell[<<h, k, j>>]]
    <3>1. i \in Nat /\ 1..i \subseteq Buckets /\ IsFiniteSet(1..i)
      <4>1. i \in 1..Len(Bounds) /\ Len(Bounds) \in Nat BY BoundsAssumption
      <4>2. IsFiniteSet(1..i) BY <4>1, FS_Interval
      <4> QED BY <4>1, <4>2 DEF Buckets
    <3>2. \A o \in mine : /\ Bucket(value[o][h]) \in Buckets
                          /\ Bucket(value[o][h]) <= i <=> value[o][h] <= Bounds[i]
      BY <1>2, Measured, BucketUpTo
    <3>3. IsFiniteSet(S) BY <1>2, FS_Subset
    <3>4. \A o \in S : Bucket(value[o][h]) \in 1..i
      BY <3>1, <3>2, Slots DEF Buckets
    <3>5. g \in [S -> 1..i] BY <3>4
    <3>6. f \in [1..i -> Nat]
      <4>1. \A j \in 1..i : <<h, k, j>> \in Cells BY <2>0, <3>1, Slots
      <4> QED BY <4>1 DEF TypeOK
    <3>7. \A j \in 1..i : f[j] = Cardinality({o \in S : g[o] = j})
      <4> TAKE j \in 1..i
      <4>1. {o \in S : g[o] = j} = {o \in mine : Bucket(value[o][h]) = j}
        BY <3>1, <3>2
      <4> QED BY <2>3, <3>1, <4>1
    <3>8. Cardinality(S) \in Nat /\ Total(f) \in Nat
      BY <3>1, <3>3, <3>6, FS_CardinalityType, UnitsFinite
    <3> HIDE DEF S, g, f
    <3>9. \A j \in 1..i : /\ Cardinality({o \in S : g[o] = j}) <= f[j]
                          /\ f[j] <= Cardinality({o \in S : g[o] = j})
      BY <3>6, <3>7
    <3>10. Cardinality(S) <= Total(f)
      BY <3>1, <3>3, <3>5, <3>6, <3>9, TotalAtLeast
    <3>11. Total(f) <= Cardinality(S)
      BY <3>1, <3>3, <3>5, <3>6, <3>9, TotalAtMost
    <3>12. Total(f) = Cardinality(S) BY <3>8, <3>10, <3>11
    <3> QED BY <3>12 DEF S, f
  <2> QED BY <2>1, <2>2, <2>4
<1> QED BY <1>3, <1>4

-----------------------------------------------------------------------------
(* A report loads each number while the requests it may have missed are      *)
(* those that were adding when it took the mutex: nobody else gets past it.  *)

Done == [c \in Cells |-> {o \in Requests : step[o] = 8 /\ o \notin busy /\ Concerns(o, c)}]
Started == [c \in Cells |-> {o \in Requests : step[o] # 0 /\ Concerns(o, c)}]

SeenInv ==
  /\ locked => \A o \in Requests : Adding(o) => o \in busy
  /\ \A c \in DOMAIN seen :
       c[3] # SumSlot => /\ Cardinality(Done[c]) <= seen[c]
                         /\ seen[c] <= Cardinality(Started[c])

JInv == IInv /\ CountInv /\ SeenInv

LEMMA AddersBetween ==
  ASSUME TypeOK, NEW c \in Cells
  PROVE  /\ Done[c] \subseteq Adders[c] /\ Adders[c] \subseteq Started[c]
         /\ Cardinality(Done[c]) <= Cardinality(Adders[c])
         /\ Cardinality(Adders[c]) <= Cardinality(Started[c])
<1>1. ASSUME NEW o \in Requests
      PROVE  /\ step[o] = 8 /\ Concerns(o, c) => o \in Adders[c]
             /\ o \in Adders[c] => step[o] # 0 /\ Concerns(o, c)
  <2>1. Concerns(o, c) <=> \E i \in 1..7 : Additions(o)[i] = c BY AdditionsAre
  <2>2. step[o] \in 0..8 BY DEF TypeOK
  <2> DEFINE A == Additions(o)
  <2> HIDE DEF A
  <2>3. o \in Adders[c] <=> \E i \in 1..7 : i < step[o] /\ A[i] = c BY DEF Adders, A
  <2> QED BY <2>1, <2>2, <2>3 DEF A
<1>2. Done[c] \subseteq Adders[c] BY <1>1 DEF Done
<1>3. Adders[c] \subseteq Started[c] BY <1>1, AddersFinite DEF Started
<1>4. Started[c] \subseteq Requests BY DEF Started
<1>5. IsFiniteSet(Adders[c]) /\ IsFiniteSet(Started[c])
  BY <1>4, AddersFinite, RequestsAssumption, FS_Subset
<1>6. Cardinality(Done[c]) <= Cardinality(Adders[c]) BY <1>2, <1>5, FS_Subset
<1>7. Cardinality(Adders[c]) <= Cardinality(Started[c]) BY <1>3, <1>5, FS_Subset
<1> QED BY <1>2, <1>3, <1>6, <1>7

(* Under the mutex no request starts, and one that ends was busy.            *)
LEMMA ObserveKeepsSeen ==
  ASSUME JInv, NEW o \in Requests, ObserveHTTPRequest(o)
  PROVE  SeenInv'
<1> USE DEF JInv, IInv, TypeInvariant
<1>1. UNCHANGED <<key, value, locked, seen, busy>>
  BY DEF ObserveHTTPRequest, LookUp, Add, LoadSum, SwapSum, report
<1>2. CASE ~locked
  <2>1. DOMAIN seen = {} BY <1>2 DEF ReportComplete, Nothing
  <2> QED BY <1>1, <1>2, <2>1 DEF SeenInv
<1>3. CASE locked
  <2>1. /\ Adding(o)
        /\ UNCHANGED step \/ step' = [step EXCEPT ![o] = @ + 1]
    BY <1>3 DEF ObserveHTTPRequest, LookUp, Add, LoadSum, SwapSum
  <2>2. o \in busy BY <1>3, <2>1 DEF SeenInv
  <2>3. step[o] \in 1..7 /\ step \in [Requests -> 0..8] BY <2>1 DEF Adding, TypeOK
  <2>4. \A p \in Requests : p # o => step'[p] = step[p] BY <2>1, <2>3
  <2>5. step'[o] # 0 /\ step[o] # 0 BY <2>1, <2>3
  <2>6. \A p \in Requests, c \in Cells : Concerns(p, c)' <=> Concerns(p, c)
    BY <1>1 DEF Concerns
  <2>7. \A c \in Cells : Done'[c] = Done[c] /\ Started'[c] = Started[c]
    BY <1>1, <2>2, <2>4, <2>5, <2>6 DEF Done, Started
  <2>8. \A p \in Requests : Adding(p)' => p \in busy'
    BY <1>1, <1>3, <2>2, <2>4 DEF SeenInv, Adding
  <2>9. DOMAIN seen \subseteq Cells BY DEF TypeOK
  <2> QED BY <1>1, <2>7, <2>8, <2>9 DEF SeenInv
<1> QED BY <1>2, <1>3

LEMMA ReportKeepsSeen ==
  ASSUME JInv, MarshalJSON
  PROVE  SeenInv'
<1> USE DEF JInv, IInv, TypeInvariant
<1>1. UNCHANGED <<key, value, step>>
  BY DEF MarshalJSON, BeginReport, ReadCell, EndReport, observation
<1>2. CASE BeginReport
  <2>1. DOMAIN seen' = {} BY <1>2 DEF BeginReport, ReportComplete, Nothing
  <2>2. busy' = {o \in Requests : Adding(o)} BY <1>2 DEF BeginReport
  <2> QED BY <1>1, <2>1, <2>2 DEF SeenInv, Adding
<1>3. CASE EndReport
  <2>1. DOMAIN seen' = {} /\ ~locked' BY <1>3 DEF EndReport, Nothing
  <2> QED BY <2>1 DEF SeenInv
<1>4. CASE ReadCell
  <2>1. PICK c \in todo :
          /\ seen' = [d \in DOMAIN seen \cup {c} |-> IF d = c THEN cell[c] ELSE seen[d]]
          /\ UNCHANGED <<busy, locked>>
    BY <1>4 DEF ReadCell
  <2>2. c \in Cells /\ DOMAIN seen \subseteq Cells BY DEF TypeOK
  <2>3. \A o \in Requests, d \in Cells : Concerns(o, d)' <=> Concerns(o, d)
    BY <1>1 DEF Concerns
  <2>4. \A d \in Cells : Done'[d] = Done[d] /\ Started'[d] = Started[d]
    BY <1>1, <2>1, <2>3 DEF Done, Started
  <2>5. c[3] # SumSlot => /\ Cardinality(Done[c]) <= cell[c]
                          /\ cell[c] <= Cardinality(Started[c])
    BY <2>2, AddersBetween DEF CountInv, Counted
  <2>6. \A d \in DOMAIN seen' : /\ d \in Cells
                                /\ d = c \/ (d # c /\ d \in DOMAIN seen)
                                /\ seen'[d] = IF d = c THEN cell[c] ELSE seen[d]
    BY <2>1, <2>2
  <2>7. ASSUME NEW d \in DOMAIN seen', d[3] # SumSlot
        PROVE  /\ Cardinality(Done'[d]) <= seen'[d]
               /\ seen'[d] <= Cardinality(Started'[d])
    <3>1. Done'[d] = Done[d] /\ Started'[d] = Started[d] BY <2>4, <2>6
    <3>2. CASE d = c BY <2>5, <2>6, <2>7, <3>1, <3>2
    <3>3. CASE d # c BY <2>6, <2>7, <3>1, <3>3 DEF SeenInv
    <3> QED BY <3>2, <3>3
  <2>8. locked' => \A o \in Requests : Adding(o)' => o \in busy'
    BY <1>1, <2>1 DEF SeenInv, Adding
  <2> QED BY <2>7, <2>8 DEF SeenInv
<1> QED BY <1>2, <1>3, <1>4 DEF MarshalJSON

LEMMA NextJInv == JInv /\ [Next]_vars => JInv'
<1> SUFFICES ASSUME JInv, [Next]_vars PROVE JInv'
  OBVIOUS
<1>1. IInv' BY NextIInv DEF JInv
<1>2. CountInv' BY NextCounts DEF JInv, IInv, TypeInvariant
<1>3. SeenInv'
  <2>1. CASE UNCHANGED vars
    <3>1. Done' = Done /\ Started' = Started
      BY <2>1 DEF vars, Done, Started, Concerns
    <3> QED BY <2>1, <3>1 DEF vars, JInv, SeenInv, Adding
  <2> QED BY <2>1, ObserveKeepsSeen, ReportKeepsSeen DEF Next
<1> QED BY <1>1, <1>2, <1>3 DEF JInv

LEMMA InitJInv == Init => JInv
<1>1. Init => SeenInv BY DEF Init, SeenInv, Nothing
<1> QED BY <1>1, InitIInv, InitCounts DEF JInv

LEMMA ReportsAgree ==
  ASSUME JInv
  PROVE  ReportsAreNearlyConsistent
<1> USE DEF JInv, IInv, TypeInvariant
<1> SUFFICES ASSUME locked, todo = {}, NEW k \in {c[2] : c \in DOMAIN seen}
             PROVE  LET totals == {seen[<<"requests", k, 0>>]}
                      \cup {seen[<<h, k, CountSlot>>] : h \in Hists}
                      \cup {Total([j \in Buckets |-> seen[<<h, k, j>>]]) : h \in Hists}
                    IN  \A a, b \in totals : a - b <= Cardinality({o \in busy : key[o] = k})
  BY DEF ReportsAreNearlyConsistent
<1> DEFINE D == {o \in Requests : step[o] = 8 /\ o \notin busy /\ key[o] = k}
           T == {o \in Requests : step[o] # 0 /\ key[o] = k}
           B == {o \in busy : key[o] = k}
           Between(a) == a \in Nat /\ Cardinality(D) <= a /\ a <= Cardinality(T)
<1>1. IsFiniteSet(D) /\ IsFiniteSet(T) /\ IsFiniteSet(B)
  <2>1. D \subseteq Requests /\ T \subseteq Requests /\ B \subseteq Requests BY DEF TypeOK
  <2> QED BY <2>1, RequestsAssumption, FS_Subset
<1>2. Cardinality(D) \in Nat /\ Cardinality(T) \in Nat /\ Cardinality(B) \in Nat
  BY <1>1, FS_CardinalityType
<1>3. Cardinality(T) <= Cardinality(D) + Cardinality(B)
  <2>1. T \subseteq D \cup B BY DEF SeenInv, Adding, TypeOK
  <2> HIDE DEF D, T, B
  <2>2. /\ IsFiniteSet(D \cup B)
        /\ Cardinality(D \cup B) = Cardinality(D) + Cardinality(B) - Cardinality(D \cap B)
    BY <1>1, FS_Union
  <2>3. Cardinality(D \cap B) \in Nat
    BY <1>1, FS_Intersection, FS_CardinalityType
  <2>4. Cardinality(T) <= Cardinality(D \cup B) BY <2>1, <2>2, FS_Subset
  <2> QED BY <1>2, <2>2, <2>3, <2>4
<1>4. k \in Keys /\ \A c \in Cells : c[2] = k => c \in DOMAIN seen /\ seen[c] \in Nat
  <2>1. DOMAIN seen = Reported BY DEF ReportComplete
  <2>2. k \in entries BY <2>1 DEF Reported
  <2> QED BY <2>1, <2>2 DEF Reported, TypeOK
<1>5. ASSUME NEW c \in Cells, c[2] = k, c[3] # SumSlot
      PROVE  /\ seen[c] \in Nat
             /\ Cardinality(Done[c]) <= seen[c]
             /\ seen[c] <= Cardinality(Started[c])
  BY <1>4, <1>5 DEF SeenInv
<1>6. Between(seen[<<"requests", k, 0>>])
  <2> DEFINE c == <<"requests", k, 0>>
  <2>1. c \in Cells /\ c[1] = "requests" /\ c[2] = k /\ c[3] = 0 /\ 0 # SumSlot
    BY <1>4, Slots DEF Cells
  <2> HIDE DEF c
  <2>2. Done[c] = D /\ Started[c] = T BY <2>1 DEF Done, Started, Concerns
  <2>3. Between(seen[c]) BY <1>5, <2>1, <2>2
  <2> QED BY <2>3 DEF c
<1>7. ASSUME NEW h \in Hists
      PROVE  Between(seen[<<h, k, CountSlot>>])
  <2> DEFINE c == <<h, k, CountSlot>>
  <2>1. c \in Cells /\ c[1] = h /\ c[2] = k /\ c[3] = CountSlot /\ CountSlot # SumSlot
    BY <1>4, Slots DEF Cells
  <2> HIDE DEF c
  <2>2. Done[c] = D /\ Started[c] = T BY <2>1 DEF Done, Started, Concerns
  <2>3. Between(seen[c]) BY <1>5, <2>1, <2>2
  <2> QED BY <2>3 DEF c
<1>8. ASSUME NEW h \in Hists
      PROVE  Between(Total([j \in Buckets |-> seen[<<h, k, j>>]]))
  <2> DEFINE f == [j \in Buckets |-> seen[<<h, k, j>>]]
             gD == [o \in D |-> Bucket(value[o][h])]
             gT == [o \in T |-> Bucket(value[o][h])]
  <2>1. IsFiniteSet(Buckets)
    <3>1. Len(Bounds) + 1 \in Int /\ 1 \in Int BY BoundsAssumption
    <3> QED BY <3>1, FS_Interval DEF Buckets
  <2>2. gD \in [D -> Buckets] /\ gT \in [T -> Buckets] BY Measured
  <2>3. ASSUME NEW j \in Buckets
        PROVE  /\ f[j] \in Nat
               /\ Cardinality({o \in D : gD[o] = j}) <= f[j]
               /\ f[j] <= Cardinality({o \in T : gT[o] = j})
    <3> DEFINE c == <<h, k, j>>
    <3>1. c \in Cells /\ c[1] = h /\ c[2] = k /\ c[3] = j
      BY <1>4, Slots DEF Cells
    <3>2. j # CountSlot /\ j # SumSlot /\ h # "requests" BY Slots DEF Hists
    <3>3. f[j] = seen[c] OBVIOUS
    <3> HIDE DEF c, f
    <3>4. Done[c] = {o \in D : gD[o] = j} /\ Started[c] = {o \in T : gT[o] = j}
      BY <3>1, <3>2 DEF Done, Started, Concerns
    <3> HIDE DEF gD, gT, D, T
    <3> QED BY <1>5, <3>1, <3>2, <3>3, <3>4
  <2>4. f \in [Buckets -> Nat]
    <3>1. f = [j \in Buckets |-> f[j]] OBVIOUS
    <3> HIDE DEF f
    <3> QED BY <2>3, <3>1
  <2>5. Total(f) \in Nat BY <2>1, <2>4, UnitsFinite
  <2> HIDE DEF f, gD, gT, D, T
  <2>6. Cardinality(D) <= Total(f) BY <1>1, <2>1, <2>2, <2>3, <2>4, TotalAtLeast
  <2>7. Total(f) <= Cardinality(T)
    <3>1. \A j \in Buckets : f[j] <= Cardinality({o \in T : gT[o] = j}) BY <2>3
    <3>2. IsFiniteSet(T) BY <1>1
    <3> QED BY <2>1, <2>2, <2>4, <3>1, <3>2, TotalAtMost
  <2> QED BY <2>5, <2>6, <2>7 DEF f
<1> DEFINE totals == {seen[<<"requests", k, 0>>]}
                       \cup {seen[<<h, k, CountSlot>>] : h \in Hists}
                       \cup {Total([j \in Buckets |-> seen[<<h, k, j>>]]) : h \in Hists}
<1>9. \A a \in totals : Between(a) BY <1>6, <1>7, <1>8
<1> HIDE DEF totals, D, T, B
<1>10. \A a, b \in totals : a - b <= Cardinality(B) BY <1>2, <1>3, <1>9
<1> QED BY <1>10 DEF totals, B

-----------------------------------------------------------------------------
(* Theorems on what the numbers mean.                                        *)

THEOREM Accounting == Spec => []JInv
BY InitJInv, NextJInv, PTL DEF Spec

(* Whatever the number of requests that add at once, when they are done each *)
(* is in its counter, its buckets, the counts and the sums, exactly once.    *)
THEOREM NothingIsMiscounted == Spec => []EveryRequestIsCounted
<1>1. JInv => EveryRequestIsCounted
  BY CountsAreRight DEF JInv, IInv, TypeInvariant
<1> QED BY <1>1, Accounting, PTL

(* The numbers of one report disagree by no more than the requests that were *)
(* being added when it took the mutex.                                       *)
THEOREM ReportsNearlyAgree == Spec => []ReportsAreNearlyConsistent
<1>1. JInv => ReportsAreNearlyConsistent BY ReportsAgree
<1> QED BY <1>1, Accounting, PTL

=============================================================================
