------------------------ MODULE EngineRequestProofs ------------------------
(***************************************************************************)
(* The safety properties of EngineRequest, for every budget, timeout and   *)
(* bound.  The inductive invariant IInv adds to the properties what they   *)
(* leave unsaid: which variables each stage of a request has settled       *)
(* (StageInv), the balance of the budget (BudgetInv), why an error is what *)
(* it is and what it is recorded as (CauseInv), and that an operation      *)
(* which swallowed a limit is stuck with that limit before a read it must  *)
(* make (SurfaceInv).                                                      *)
(***************************************************************************)
EXTENDS EngineRequest, TLAPS

StageInv ==
  /\ inFlight => pc = "engine" /\ reads > 0
  /\ last = "resolve" => op = "explain"
  /\ pc \in {"validate", "engine", "encode"} => err = "none"
  /\ pc = "error" => err # "none"
  /\ pc \in {"validate", "engine", "encode", "error"} =>
       recorded = [status |-> 200, wroteHeader |-> FALSE]
  /\ counted = IF pc = "done" /\ entry = "http" THEN recorded.status ELSE 0

BudgetInv ==
  /\ limit > 0 => reads + remaining = limit
  /\ calls <= reads + (IF op = "explain" THEN MaxDiscovery - 1 ELSE 0)

CauseInv ==
  /\ err = "deadline" => ctx = "deadline"
  /\ err = "budget" => limit > 0 /\ remaining = 0
  /\ pc \in {"record", "done"} /\ entry = "http" =>
       recorded.status = IF err \in {"none", "canceled"} THEN 200 ELSE Status(err)

SurfaceInv ==
  op # "dumpNamespace" /\ lost \cap LimitFailures # {} =>
    \/ err # "none"
    \/ /\ pc = "engine" /\ ~inFlight
       /\ last \in {"owner", "node"}
       /\ ctx # "live" \/ ~HasToken

IInv == TypeOK /\ StageInv /\ BudgetInv /\ CauseInv /\ SurfaceInv

-----------------------------------------------------------------------------
(* The operators.                                                            *)

USE DEF Failures, ServerFailures, LimitFailures

(* Only an explanation reads discovery.                                      *)
LEMMA DiscoveryIsExplain ==
  ASSUME op \in Operations, NEW l \in Reads, <<l, "resolve">> \in Order
  PROVE  op = "explain"
BY DEF Operations, Order, PodContextOrder, PodGraphOrder, TraceServiceOrder, Lists

(* After a read whose failures are ignored comes one more, under the         *)
(* request's context, except in a dump.                                      *)
LEMMA SwallowedIsFollowed ==
  ASSUME op \in Operations \ {"dumpNamespace"}, NEW l \in {"owner", "node"}, NEW r,
         <<l, r>> \in Order
  PROVE  r \notin {"end", "resolve"}
BY DEF Operations, Order, PodContextOrder, PodGraphOrder, TraceServiceOrder,
       ExplainOrder, Lists

(* What a read tolerates is a failure, and a limit only in two reads.        *)
LEMMA ToleratedFailures ==
  ASSUME NEW r
  PROVE  /\ Tolerated(r) \subseteq Failures
         /\ Tolerated(r) \cap LimitFailures # {} => r \in {"owner", "node"}
BY DEF Tolerated

(* Statuses are statuses, and which errors have the ones clients watch.      *)
LEMMA StatusFacts ==
  ASSUME NEW e \in Errors \ {"none"}
  PROVE  /\ Status(e) \in Statuses /\ Status(e) >= 400
         /\ Status(e) = 504 <=> e \in {"deadline", "timeout"}
         /\ Status(e) = 429 <=> e = "budget"
         /\ Status(e) = 499 <=> e = "canceled"
BY DEF Errors, Status, Statuses

(* A failed read swallows its failure or ends the operation.                 *)
LEMMA FailCases ==
  ASSUME NEW r, NEW f, Fail(r, f)
  PROVE  \/ f \in Tolerated(r) /\ lost' = lost \cup {f} /\ UNCHANGED <<err, pc>>
         \/ f \notin Tolerated(r) /\ err' = f /\ pc' = "error" /\ UNCHANGED lost
BY DEF Fail

-----------------------------------------------------------------------------
(* The invariant is inductive.                                               *)

LEMMA InitIInv == Init => IInv
<1> SUFFICES ASSUME Init PROVE IInv
  OBVIOUS
<1> USE DEF Init
<1>1. op \in Operations BY DEF Offers, Operations
<1>2. recorded \in [status : Statuses, wroteHeader : BOOLEAN] BY DEF Statuses
<1>3. remaining \in Nat BY LimitsAssumption
<1>4. TypeOK BY <1>1, <1>2, <1>3 DEF TypeOK, Reads, Errors
<1>5. StageInv BY DEF StageInv
<1>6. BudgetInv BY <1>3, BoundsAssumption DEF BudgetInv
<1>7. CauseInv BY DEF CauseInv
<1>8. SurfaceInv BY DEF SurfaceInv
<1> QED BY <1>4, <1>5, <1>6, <1>7, <1>8 DEF IInv

(* What the four ways a read can fail have in common.                        *)
ReadLost(r, f) ==
  /\ pc = "engine"
  /\ last' = r /\ inFlight' = FALSE
  /\ Fail(r, f)
  /\ f \in {"deadline", "canceled"} => f = ctx
  /\ f = "budget" => ~HasToken /\ UNCHANGED remaining
  /\ f \in ServerFailures => inFlight
  /\ r = "resolve" => op = "explain"
  /\ UNCHANGED <<request, ctx, reply>>

LEMMA LostReads ==
  ASSUME IInv, NEW r \in Reads,
         RefuseRead(r) \/ FailRead(r) \/ (r = last /\ (ReadFails \/ ReadInterrupted))
  PROVE  \E f \in Failures : ReadLost(r, f)
<1> USE DEF IInv, TypeOK, StageInv
<1>1. CASE RefuseRead(r)
  <2>1. ReadLost(r, "budget")
    BY <1>1, DiscoveryIsExplain DEF RefuseRead, NextRead, ReadLost
  <2> QED BY <2>1
<1>2. CASE FailRead(r)
  <2>1. ReadLost(r, ctx)
    BY <1>2, DiscoveryIsExplain DEF FailRead, NextRead, ReadLost
  <2>2. ctx \in Failures BY <1>2 DEF FailRead
  <2> QED BY <2>1, <2>2
<1>3. CASE r = last /\ ReadFails
  <2>1. PICK f \in ServerFailures : Fail(last, f) BY <1>3 DEF ReadFails
  <2>2. ReadLost(r, f) BY <1>3, <2>1 DEF ReadFails, ReadLost
  <2> QED BY <2>2
<1>4. CASE r = last /\ ReadInterrupted
  <2>1. ReadLost(r, ctx) BY <1>4 DEF ReadInterrupted, ReadLost
  <2>2. ctx \in Failures BY <1>4 DEF ReadInterrupted
  <2> QED BY <2>1, <2>2
<1> QED BY <1>1, <1>2, <1>3, <1>4

(* The steps, sorted by what the proofs below need to know of them.          *)
LEMMA NextCases ==
  ASSUME IInv, Next
  PROVE  \/ \E r \in Reads, f \in Failures : ReadLost(r, f)
         \/ \E r \in Reads : StartRead(r)
         \/ Discover \/ ReadSucceeds \/ Deadline \/ ClientGone
         \/ Reject \/ Begin \/ Finish \/ WriteResult \/ WriteError \/ Record
BY LostReads DEF Next, Handler, Read, ApiServer, IInv, TypeOK

LEMMA TypeStep == IInv /\ [Next]_vars => TypeOK'
<1> SUFFICES ASSUME IInv, [Next]_vars PROVE TypeOK'
  OBVIOUS
<1> USE DEF IInv, TypeOK
<1>1. /\ entry' \in {"http", "mcp"} /\ op' \in Operations /\ limit' \in Limits
      /\ ctx' \in {"live", "deadline", "canceled"}
  BY DEF Next, Handler, Read, ApiServer, RefuseRead, FailRead, StartRead, Discover,
         ReadSucceeds, ReadFails, ReadInterrupted, Reject, Begin, Finish, WriteResult,
         WriteError, Record, Deadline, ClientGone, request, vars
<1>2. remaining' \in Nat /\ reads' \in Nat /\ calls' \in Nat
  BY LimitsAssumption
     DEF Next, Handler, Read, ApiServer, RefuseRead, FailRead, StartRead, Discover,
         ReadSucceeds, ReadFails, ReadInterrupted, Reject, Begin, Finish, WriteResult,
         WriteError, Record, Deadline, ClientGone, engine, vars, Spend, HasToken
<1>3. CASE UNCHANGED vars BY <1>3 DEF vars
<1>4. ASSUME NEW r \in Reads, NEW f \in Failures, ReadLost(r, f) PROVE TypeOK'
  BY <1>1, <1>2, <1>4, FailCases DEF ReadLost, reply, Errors
<1>5. ASSUME NEW r \in Reads, StartRead(r) PROVE TypeOK'
  BY <1>1, <1>2, <1>5 DEF StartRead, NextRead, reply
<1>6. CASE Discover \/ ReadSucceeds \/ Deadline \/ ClientGone
  BY <1>1, <1>2, <1>6 DEF Discover, ReadSucceeds, Deadline, ClientGone, engine, reply
<1>7. CASE Reject \/ Begin \/ Finish
  BY <1>1, <1>2, <1>7 DEF Reject, Begin, Finish, engine, reply, Errors
<1>8. CASE WriteResult
  BY <1>1, <1>2, <1>8 DEF WriteResult, engine, Errors, Statuses
<1>9. CASE WriteError
  <2>1. Status(err) \in Statuses BY <1>9, StatusFacts DEF WriteError, StageInv
  <2>2. answer' \in Statuses \cup {0} /\ counted' \in Statuses \cup {0}
    BY <1>9, <2>1 DEF WriteError
  <2>3. recorded' \in {recorded, [status |-> Status(err), wroteHeader |-> TRUE]}
    BY <1>9 DEF WriteError
  <2>4. \A s \in Statuses :
          [status |-> s, wroteHeader |-> TRUE] \in [status : Statuses, wroteHeader : BOOLEAN]
    OBVIOUS
  <2>5. recorded' \in [status : Statuses, wroteHeader : BOOLEAN]
    BY <2>1, <2>3, <2>4, Zenon
  <2> QED BY <1>1, <1>2, <1>9, <2>2, <2>5 DEF WriteError, engine
<1>10. CASE Record
  BY <1>1, <1>2, <1>10 DEF Record, engine, Statuses
<1> QED
  BY <1>3, <1>4, <1>5, <1>6, <1>7, <1>8, <1>9, <1>10, NextCases

LEMMA StageStep == IInv /\ [Next]_vars => StageInv'
<1> SUFFICES ASSUME IInv, [Next]_vars PROVE StageInv'
  OBVIOUS
<1> USE DEF IInv, TypeOK, StageInv
<1>1. CASE UNCHANGED vars BY <1>1 DEF vars
<1>2. ASSUME NEW r \in Reads, NEW f \in Failures, ReadLost(r, f) PROVE StageInv'
  BY <1>2, FailCases DEF ReadLost, request, reply
<1>3. ASSUME NEW r \in Reads, StartRead(r) PROVE StageInv'
  BY <1>3, DiscoveryIsExplain DEF StartRead, NextRead, Spend, request, reply
<1>4. CASE Discover \/ ReadSucceeds \/ Deadline \/ ClientGone
  BY <1>4 DEF Discover, ReadSucceeds, Deadline, ClientGone, request, engine, reply
<1>5. CASE Reject \/ Begin \/ Finish
  BY <1>5 DEF Reject, Begin, Finish, request, engine, reply
<1>6. CASE WriteResult \/ WriteError \/ Record
  BY <1>6 DEF WriteResult, WriteError, Record, request, engine
<1> QED BY <1>1, <1>2, <1>3, <1>4, <1>5, <1>6, NextCases

LEMMA BudgetStep == IInv /\ [Next]_vars => BudgetInv'
<1> SUFFICES ASSUME IInv, [Next]_vars PROVE BudgetInv'
  OBVIOUS
<1> USE LimitsAssumption, BoundsAssumption DEF IInv, TypeOK, StageInv, BudgetInv
<1>1. ASSUME NEW r \in Reads, RefuseRead(r) PROVE BudgetInv'
  BY <1>1 DEF RefuseRead, request
<1>2. ASSUME NEW r \in Reads, FailRead(r) PROVE BudgetInv'
  BY <1>2 DEF FailRead, Spend, HasToken, request
<1>3. ASSUME NEW r \in Reads, StartRead(r) PROVE BudgetInv'
  BY <1>3 DEF StartRead, Spend, HasToken, request
<1>4. CASE Discover
  BY <1>4 DEF Discover, request
<1>5. CASE UNCHANGED <<limit, op, remaining, reads, calls>>
  BY <1>5
<1> QED
  BY <1>1, <1>2, <1>3, <1>4, <1>5
     DEF Next, Handler, Read, ApiServer, ReadSucceeds, ReadFails, ReadInterrupted, Reject,
         Begin, Finish, WriteResult, WriteError, Record, Deadline, ClientGone, request,
         engine, vars

LEMMA CauseStep == IInv /\ [Next]_vars => CauseInv'
<1> SUFFICES ASSUME IInv, [Next]_vars PROVE CauseInv'
  OBVIOUS
<1> USE DEF IInv, TypeOK, StageInv, CauseInv
<1>1. CASE UNCHANGED vars BY <1>1 DEF vars, Status
<1>2. ASSUME NEW r \in Reads, NEW f \in Failures, ReadLost(r, f) PROVE CauseInv'
  <2>1. pc' \in {"engine", "error"} /\ err' \in {"none", f}
    BY <1>2, FailCases DEF ReadLost
  <2>2. UNCHANGED <<limit, ctx>> BY <1>2 DEF ReadLost, request
  <2>3. f = "deadline" => ctx = "deadline" BY <1>2 DEF ReadLost
  <2>4. f = "budget" => limit > 0 /\ remaining' = 0
    BY <1>2, LimitsAssumption DEF ReadLost, HasToken
  <2> QED BY <2>1, <2>2, <2>3, <2>4
<1>3. ASSUME NEW r \in Reads, StartRead(r) PROVE CauseInv'
  BY <1>3 DEF StartRead, NextRead, reply, request
<1>4. CASE Discover \/ ReadSucceeds
  BY <1>4 DEF Discover, ReadSucceeds, request, reply
<1>5. CASE Deadline \/ ClientGone
  BY <1>5 DEF Deadline, ClientGone, request, engine, reply, Status
<1>6. CASE Reject \/ Begin \/ Finish
  BY <1>6 DEF Reject, Begin, Finish, request, engine, reply
<1>7. CASE WriteResult
  BY <1>7 DEF WriteResult, request, engine
<1>8. CASE WriteError
  <2>1. err \in Errors \ {"none"} BY <1>8 DEF WriteError
  <2>2. Status(err)' = Status(err) BY <1>8 DEF WriteError, Status
  <2> QED BY <1>8, <2>1, <2>2, StatusFacts DEF WriteError, request, engine
<1>9. CASE Record
  BY <1>9 DEF Record, request, engine, Status
<1> QED BY <1>1, <1>2, <1>3, <1>4, <1>5, <1>6, <1>7, <1>8, <1>9, NextCases

LEMMA SurfaceStep == IInv /\ [Next]_vars => SurfaceInv'
<1> SUFFICES ASSUME IInv, [Next]_vars PROVE SurfaceInv'
  OBVIOUS
<1> USE DEF IInv, TypeOK, StageInv, SurfaceInv
<1>1. CASE UNCHANGED vars BY <1>1 DEF vars, HasToken
<1>2. ASSUME NEW r \in Reads, NEW f \in Failures, ReadLost(r, f) PROVE SurfaceInv'
  <2>1. CASE f \notin Tolerated(r)
    BY <1>2, <2>1, FailCases DEF ReadLost
  <2>2. CASE f \in Tolerated(r) /\ f \in ServerFailures
    <3>1. /\ lost' = lost \cup {f} /\ f \notin LimitFailures /\ UNCHANGED <<op, err>>
          /\ inFlight
      BY <1>2, <2>2, FailCases DEF ReadLost, request
    <3> QED BY <3>1
  <2>3. CASE f \in Tolerated(r) /\ f \in LimitFailures
    <3>1. r \in {"owner", "node"} BY <2>3, ToleratedFailures
    <3>2. pc' = "engine" /\ ~inFlight' /\ last' = r
      BY <1>2, <2>3, FailCases DEF ReadLost
    <3>3. ctx' # "live" \/ ~HasToken'
      BY <1>2, <2>3 DEF ReadLost, HasToken, request
    <3> QED BY <3>1, <3>2, <3>3
  <2> QED BY <2>1, <2>2, <2>3
<1>3. ASSUME NEW r \in Reads, StartRead(r) PROVE SurfaceInv'
  BY <1>3, SwallowedIsFollowed DEF StartRead, NextRead, HasToken, request
<1>4. CASE Discover \/ ReadSucceeds
  BY <1>4 DEF Discover, ReadSucceeds, request
<1>5. CASE Deadline \/ ClientGone
  BY <1>5 DEF Deadline, ClientGone, request, engine, HasToken
<1>6. CASE Reject \/ Begin
  BY <1>6 DEF Reject, Begin, request, engine
<1>7. CASE Finish
  BY <1>7, SwallowedIsFollowed DEF Finish, request, engine
<1>8. CASE WriteResult \/ WriteError \/ Record
  BY <1>8 DEF WriteResult, WriteError, Record, request, engine
<1> QED BY <1>1, <1>2, <1>3, <1>4, <1>5, <1>6, <1>7, <1>8, NextCases

-----------------------------------------------------------------------------
(* The theorems.                                                             *)

(* IInv holds in every reachable state.                                      *)
THEOREM Invariance == Spec => []IInv
<1>1. IInv /\ [Next]_vars => IInv'
  BY TypeStep, StageStep, BudgetStep, CauseStep, SurfaceStep DEF IInv
<1> QED BY InitIInv, <1>1, PTL DEF Spec

(* Every variable keeps its type and no budget is overdrawn                  *)
(* (limits/budget.go, Take).                                                 *)
THEOREM TypeCorrect == Spec => []TypeInvariant
<1>1. IInv => TypeInvariant BY DEF IInv, TypeInvariant
<1> QED BY Invariance, <1>1, PTL

(* Every read is charged once, whatever ends it, and a request sends at most *)
(* its budget of API calls and what discovery adds (kube/budget.go).         *)
THEOREM BudgetExact == Spec => []BudgetIsExact
<1>1. IInv => BudgetIsExact
  BY LimitsAssumption, BoundsAssumption DEF IInv, BudgetInv, BudgetIsExact, TypeOK
<1> QED BY Invariance, <1>1, PTL

(* No operation but the dump returns a result that lacks what a limit kept   *)
(* it from reading (the ignored errors of pod_context.go and pod_graph.go).  *)
THEOREM LimitsAreTold == Spec => []LimitsSurface
<1>1. IInv => LimitsSurface BY DEF IInv, SurfaceInv, LimitsSurface
<1> QED BY Invariance, <1>1, PTL

(* 429 is counted only for requests that used up their budget, 504 only for  *)
(* those whose deadline passed or whose last read client-go gave up          *)
(* (server/errors.go, use/access.go).                                        *)
THEOREM StatusesMeanWhatTheySay == Spec => []StatusNamesItsCause
<1>1. IInv => StatusNamesItsCause
  <2> SUFFICES ASSUME IInv PROVE StatusNamesItsCause
    OBVIOUS
  <2> USE LimitsAssumption DEF IInv, TypeOK, StageInv, CauseInv, BudgetInv
  <2>1. CASE counted \notin {429, 504} BY <2>1 DEF StatusNamesItsCause
  <2>2. CASE counted \in {429, 504}
    <3>1. err \in Errors \ {"none"} /\ counted = Status(err) BY <2>2
    <3> QED BY <2>2, <3>1, StatusFacts DEF StatusNamesItsCause
  <2> QED BY <2>1, <2>2
<1> QED BY Invariance, <1>1, PTL

(* The metrics count a failed HTTP request as a failure and a successful one *)
(* as a success (use/access.go).                                             *)
THEOREM FailuresCounted == Spec => []FailuresAreCounted
<1>1. IInv => FailuresAreCounted
  BY StatusFacts DEF IInv, TypeOK, StageInv, CauseInv, FailuresAreCounted
<1> QED BY Invariance, <1>1, PTL

=============================================================================
